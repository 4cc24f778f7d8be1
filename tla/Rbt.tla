-------------------------------- MODULE Rbt ---------------------------------
(***************************************************************************)
(* rbt.c: a left-leaning red-black tree.  A tree is a value: a node with   *)
(* its subtrees inside it, or Null.  The pointer by which the caller and   *)
(* the tree know a node is its id; key and val can move to another node.   *)
(* Following a null pointer is an expression without a value, at which the *)
(* model checker stops.                                                    *)
(***************************************************************************)
EXTENDS Integers, FiniteSets

CONSTANTS N,    \* the most nodes there are
          Key, Val

ASSUME NAssumption == N \in Nat \ {0}
ASSUME KeyAssumption == Key \subseteq Int /\ IsFiniteSet(Key)

\* The pointer to no node.
Null == << >>

RED   == "red"
BLACK == "black"

\* A node with its subtrees.
Branch(subtrees) ==
  [id : Nat, key : Key, val : Val, color : {RED, BLACK},
   left : subtrees, right : subtrees]

\* The trees of at most h levels.
Level[h \in Nat] == {Null} \cup IF h = 0 THEN {} ELSE Branch(Level[h - 1])

\* N nodes make no more than N levels.
Tree == Level[N]

InitNode(id, key, val) ==
  [id |-> id, key |-> key, val |-> val, color |-> RED, left |-> Null, right |-> Null]

IsRed(node) == node # Null /\ node.color = RED

\* ~color, between 0 and all ones.
Other(color) == IF color = RED THEN BLACK ELSE RED

RotateLeft(node) ==
  [node.right EXCEPT !.left  = [node EXCEPT !.right = node.right.left, !.color = RED],
                     !.color = node.color]

RotateRight(node) ==
  [node.left EXCEPT !.right = [node EXCEPT !.left = node.left.right, !.color = RED],
                    !.color = node.color]

FlipColors(node) ==
  [node EXCEPT !.color = Other(@), !.left.color = Other(@), !.right.color = Other(@)]

-----------------------------------------------------------------------------
(* Wrong variants of the operations, for the mutation checks.              *)

\* No red link is carried along to the left.
MoveRedLeftNot(node) == node
-----------------------------------------------------------------------------

Balance(node) ==
  LET a == IF IsRed(node.right) THEN RotateLeft(node) ELSE node
      b == IF IsRed(a.left) /\ IsRed(a.left.left) THEN RotateRight(a) ELSE a
  IN  IF IsRed(b.left) /\ IsRed(b.right) THEN FlipColors(b) ELSE b

MoveRedLeft(node) ==
  LET a == FlipColors(node)
  IN  IF a.right # Null /\ IsRed(a.right.left)
      THEN FlipColors(RotateLeft([a EXCEPT !.right = RotateRight(@)]))
      ELSE a

MoveRedRight(node) ==
  LET a == FlipColors(node)
  IN  IF a.left # Null /\ IsRed(a.left.left) THEN FlipColors(RotateRight(a)) ELSE a

\* A node that is there, black, and has no red left child: the search may not
\* step down to it before a red link was carried along.
Thin(node) == node # Null /\ ~IsRed(node) /\ ~IsRed(node.left)

-----------------------------------------------------------------------------
(* More wrong variants.                                                    *)

\* The comparison turned round: larger keys go left.
InsertRecMirrored(node, new) ==
  LET insert[t \in Tree] ==
        IF t = Null THEN new
        ELSE Balance(IF new.key > t.key THEN [t EXCEPT !.left  = insert[@]]
                                        ELSE [t EXCEPT !.right = insert[@]])
  IN  insert[node]

\* The key is taken over from the successor but the value is not.
TakeOverKeyOnly(node, min) == [node EXCEPT !.key = min.key]
-----------------------------------------------------------------------------

InsertRec(node, new) ==
  LET insert[t \in Tree] ==
        IF t = Null THEN new
        ELSE Balance(IF new.key < t.key THEN [t EXCEPT !.left  = insert[@]]
                                        ELSE [t EXCEPT !.right = insert[@]])
  IN  insert[node]

Find(node, key) ==
  LET find[t \in Tree] ==
        IF t = Null \/ t.key = key THEN t
        ELSE find[IF key < t.key THEN t.left ELSE t.right]
  IN  find[node]

\* rbt_modify has no function of its own: its caller writes to the node found.
Write(node, key, val) ==
  LET write[t \in Tree] ==
        IF t = Null THEN t
        ELSE IF t.key = key THEN [t EXCEPT !.val = val]
        ELSE IF key < t.key THEN [t EXCEPT !.left  = write[@]]
                            ELSE [t EXCEPT !.right = write[@]]
  IN  write[node]

\* What is left of a subtree, and the node taken out of it.
Cut(node, removed) == [node |-> node, removed |-> removed]

\* The node a deletion goes down from may be one that was rotated on the way,
\* so its calls are counted: n bounds their depth, which the nodes of the
\* subtree bound.
DeleteMin(node) ==
  LET delete[n \in 0 .. N] ==
        IF n = 0 THEN << >>
        ELSE [t \in Tree |->
               IF t.left = Null THEN Cut(Null, t)
               ELSE LET a   == IF Thin(t.left) THEN MoveRedLeft(t) ELSE t
                        cut == delete[n - 1][a.left]
                    IN  Cut(Balance([a EXCEPT !.left = cut.node]), cut.removed)]
  IN  delete[N][node]

\* The node found keeps its place and takes over the successor's data.
TakeOver(node, min) == [node EXCEPT !.key = min.key, !.val = min.val]

DeleteRec(node, key) ==
  LET delete[n \in 0 .. N] ==
        IF n = 0 THEN << >>
        ELSE [t \in Tree |->
          IF key < t.key
          THEN LET a   == IF Thin(t.left) THEN MoveRedLeft(t) ELSE t
                   cut == delete[n - 1][a.left]
               IN  Cut(Balance([a EXCEPT !.left = cut.node]), cut.removed)
          ELSE LET a == IF IsRed(t.left) THEN RotateRight(t) ELSE t
                   b == IF Thin(a.right) THEN MoveRedRight(a) ELSE a
               IN  IF key = a.key /\ a.right = Null THEN Cut(a.left, a)
                   ELSE IF key = b.key
                   THEN LET cut == DeleteMin(b.right)
                        IN  Cut(Balance([TakeOver(b, cut.removed) EXCEPT
                                           !.right = cut.node]), cut.removed)
                   ELSE LET cut == delete[n - 1][b.right]
                        IN  Cut(Balance([b EXCEPT !.right = cut.node]), cut.removed)]
  IN  delete[N][node]

-----------------------------------------------------------------------------

RbtInit == [size |-> 0, root |-> Null]

RbtInsert(rbt, new) == [size |-> rbt.size + 1, root |-> InsertRec(rbt.root, new)]

RbtDelete(rbt, key) == [size |-> rbt.size - 1, root |-> DeleteRec(rbt.root, key).node]

\* What rbt_delete returns: the node its caller may now reuse.
RbtDeleted(rbt, key) == DeleteRec(rbt.root, key).removed

RbtFind(rbt, key) == Find(rbt.root, key)

-----------------------------------------------------------------------------

\* The nodes of a tree.
Nodes(node) ==
  LET nodes[t \in Tree] ==
        IF t = Null THEN {} ELSE {t} \cup nodes[t.left] \cup nodes[t.right]
  IN  nodes[node]

Keys(node) == {n.key : n \in Nodes(node)}

\* Black nodes on the way down to the left.
BlackHeight(node) ==
  LET height[t \in Tree] ==
        IF t = Null THEN 0 ELSE height[t.left] + IF IsRed(t) THEN 0 ELSE 1
  IN  height[node]

\* A search tree: keys to the left are smaller, keys to the right larger.
Sorted(root) ==
  \A n \in Nodes(root) :
    /\ \A k \in Keys(n.left)  : k < n.key
    /\ \A k \in Keys(n.right) : k > n.key

\* Every path down has the same number of black nodes; no red link leans right
\* and none follows another.  The root has no link above it: its color counts
\* for nothing, and a red root may have a red left child.
RedBlack(root) ==
  \A n \in Nodes(root) :
    /\ BlackHeight(n.left) = BlackHeight(n.right)
    /\ ~IsRed(n.right)
    /\ IsRed(n.left) => ~IsRed(n.left.left)
=============================================================================
