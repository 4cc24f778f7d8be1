------------------------------- MODULE RbtUse -------------------------------
(***************************************************************************)
(* An rbt_t and a caller that keeps the rules the code leaves to it: it    *)
(* has N nodes, inserts a key that is not in the tree and deletes one that *)
(* is.                                                                     *)
(***************************************************************************)
EXTENDS Rbt

VARIABLES tree,     \* the rbt_t
          present,  \* the keys the caller has inserted and not deleted
          deleted   \* the last key deleted and the node rbt_delete returned

useVars == <<tree, present, deleted>>

UseInit == tree = RbtInit /\ present = {} /\ deleted = Null

\* Which node carries the key is all one here, and so is the value.
UseInsert(key, val) ==
  /\ Cardinality(present) < N
  /\ tree' = RbtInsert(tree, InitNode(0, key, val))
  /\ present' = present \cup {key}
  /\ UNCHANGED deleted

UseDelete(key) ==
  /\ tree' = RbtDelete(tree, key)
  /\ present' = present \ {key}
  /\ deleted' = [key |-> key, node |-> RbtDeleted(tree, key).key]

UseNext == \/ \E key \in Key \ present, val \in Val : UseInsert(key, val)
           \/ \E key \in present : UseDelete(key)

UseSpec == UseInit /\ [][UseNext]_useVars

-----------------------------------------------------------------------------

\* The tree holds the keys it was given, its size counts them, and a search from
\* the root finds each of them and no other.  That none is in two nodes is part of
\* the order that Balanced asks for.
KeysFound ==
  /\ Keys(tree.root) = present
  /\ tree.size = Cardinality(present)
  /\ \A key \in Key : RbtFind(tree, key) # Null <=> key \in present

\* After every insertion and deletion the tree is a search tree and a
\* left-leaning red-black tree, so no path is more than twice as long as
\* another.  rbt_delete carries red links down and repairs on the way up; the
\* root may stay red.
Balanced == Sorted(tree.root) /\ RedBlack(tree.root)

\* The node rbt_delete returns is the one that held the key (rbt_test.c
\* checks its key).
ReturnsNodeOfKey == deleted # Null => deleted.node = deleted.key
=============================================================================
