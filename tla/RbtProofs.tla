------------------------------ MODULE RbtProofs ------------------------------
(***************************************************************************)
(* rbt.c and array_rbt.c, for every number of nodes, every finite set of   *)
(* integer keys and all values: insertions and deletions keep a balanced   *)
(* search tree of exactly the keys asked for, and the tree in its array is *)
(* a bounded map whose nodes are the blocks handed out.                    *)
(*                                                                         *)
(* Trees are values, and what is shown of all of them is shown by          *)
(* induction over a set of trees (Inductive, TreeInduction); a deletion,   *)
(* which goes down from trees it rotated on the way, is shown by induction *)
(* over its depth, which the number of keys bounds (FewerKeys).            *)
(***************************************************************************)
EXTENDS ArrayRbt, RbtUse, ContainerProofs

-----------------------------------------------------------------------------
(* Trees: what their recursive definition says, and induction over them.   *)

\* The levels are what their recursive definition says.
LEMMA LevelDef ==
  Level = [h \in Nat |-> {Null} \cup IF h = 0 THEN {} ELSE Branch(Level[h - 1])]
<1> DEFINE Next1(below) == {Null} \cup Branch(below)
           Run(f, k) == f[0] = {Null} /\ \A i \in 1 .. k : f[i] = Next1(f[i - 1])
           T == {k \in Nat : \A f : ~Run(f, k)}
<1> HIDE DEF Next1
<1>1. T = {}
  <2> SUFFICES ASSUME T # {} PROVE FALSE
    OBVIOUS
  <2>1. T \in SUBSET Nat
    OBVIOUS
  <2> HIDE DEF T
  <2>2. PICK m \in T : \A k \in T : m <= k
    BY <2>1, LeastElement
  <2>4. ~(m - 1 \in T)
    BY <2>1, <2>2
  <2> USE DEF T
  <2>3. m \in Nat /\ m # 0
    <3>1. Run([i \in {0} |-> {Null}], 0)
      OBVIOUS
    <3>2. QED BY <2>2, <3>1
  <2>5. PICK f : Run(f, m - 1)
    <3>1. m - 1 \in Nat
      BY <2>3
    <3>2. QED BY <2>4, <3>1
  <2> DEFINE g == [i \in 0 .. m |-> IF i = m THEN Next1(f[m - 1]) ELSE f[i]]
  <2>6. ASSUME NEW i \in 1 .. m PROVE g[i] = Next1(g[i - 1])
    <3>1. i - 1 \in 0 .. m /\ i - 1 # m
      BY <2>3
    <3>2. CASE i = m
      BY <3>1, <3>2
    <3>3. CASE i # m
      <4>1. i \in 1 .. m - 1
        BY <2>3, <3>3
      <4>2. QED BY <2>5, <3>1, <3>3, <4>1
    <3>4. QED BY <3>2, <3>3
  <2>7. g[0] = {Null}
    BY <2>3, <2>5
  <2>8. Run(g, m)
    BY <2>6, <2>7
  <2>9. QED BY <2>2, <2>8
<1> DEFINE G(k) == CHOOSE f : Run(f, k)
           L == [h \in Nat |-> G(h)[h]]
<1>2. ASSUME NEW k \in Nat PROVE Run(G(k), k)
  <2>1. k \notin T
    <3> HIDE DEF T
    <3>1. QED BY <1>1
  <2>2. QED BY <2>1
<1>3. ASSUME NEW k \in Nat PROVE \A i \in 0 .. k : G(k)[i] = G(k + 1)[i]
  <2> DEFINE A == [i \in 0 .. k |-> {G(k + 1)[i]}]
  <2>0. k + 1 \in Nat
    OBVIOUS
  <2>1. Run(G(k), k) /\ Run(G(k + 1), k + 1)
    <3> HIDE DEF G, Run
    <3>1. QED BY <1>2, <2>0
  <2>2. ASSUME NEW i \in 1 .. k, G(k)[i - 1] \in A[i - 1] PROVE G(k)[i] \in A[i]
    <3>1. i - 1 \in 0 .. k /\ i \in 0 .. k /\ i \in 1 .. k + 1
      OBVIOUS
    <3>2. G(k)[i] = Next1(G(k)[i - 1]) /\ G(k + 1)[i] = Next1(G(k + 1)[i - 1])
      BY <2>1, <3>1
    <3>3. QED BY <2>2, <3>1, <3>2
  <2>3. G(k)[0] \in A[0]
    <3>1. G(k)[0] = {Null} /\ G(k + 1)[0] = {Null}
      BY <2>1
    <3> HIDE DEF G
    <3>2. QED BY <3>1
  <2> HIDE DEF G, Run, A
  <2>4. \A i \in 0 .. k : G(k)[i] \in A[i]
    BY <2>2, <2>3, LoopRange
  <2>5. QED BY <2>4 DEF A
<1>4. L[0] = {Null}
  BY <1>2
<1>5. ASSUME NEW h \in Nat, h # 0 PROVE L[h] = Next1(L[h - 1])
  <2>1. h - 1 \in Nat /\ h \in 1 .. h /\ h - 1 \in 0 .. h - 1 /\ (h - 1) + 1 = h
    BY <1>5
  <2>2. G(h)[h] = Next1(G(h)[h - 1])
    BY <1>2, <2>1
  <2>3. G(h - 1)[h - 1] = G(h)[h - 1]
    <3> HIDE DEF G
    <3>1. QED BY <1>3, <2>1
  <2> HIDE DEF G
  <2>4. QED BY <2>1, <2>2, <2>3
<1>6. L = [h \in Nat |-> {Null} \cup IF h = 0 THEN {} ELSE Branch(L[h - 1])]
  <2> HIDE DEF G
  <2>1. L = [h \in Nat |-> L[h]]
    OBVIOUS
  <2> HIDE DEF L
  <2>2. ASSUME NEW h \in Nat
        PROVE  L[h] = {Null} \cup IF h = 0 THEN {} ELSE Branch(L[h - 1])
    BY <1>4, <1>5 DEF Next1
  <2>3. QED BY <2>1, <2>2
<1> HIDE DEF L
<1>7. QED BY <1>6, Zenon DEF Level

\* The pointer to no node is not a node.
LEMMA NullIsNoNode ==
  ASSUME NEW subtrees
  PROVE  Null \notin Branch(subtrees)
<1>1. ASSUME NEW t \in Branch(subtrees) PROVE t # Null
  <2>1. "id" \in DOMAIN t
    BY DEF Branch
  <2>2. DOMAIN Null = {}
    BY DEF Null
  <2>3. QED BY <2>1, <2>2
<1>2. QED BY <1>1

\* A node has its fields, and its subtrees are of the set it is made over.
LEMMA BranchFields ==
  ASSUME NEW subtrees, NEW t \in Branch(subtrees)
  PROVE  /\ t.id \in Nat /\ t.key \in Key /\ t.key \in Int /\ t.val \in Val
         /\ t.color \in {RED, BLACK} /\ t.left \in subtrees /\ t.right \in subtrees
         /\ t # Null
BY NullIsNoNode, KeyAssumption DEF Branch

\* Without levels there is only the empty tree.
LEMMA LevelZero == Level[0] = {Null}
BY LevelDef

\* One level more is one node over the levels below.
LEMMA LevelNext ==
  ASSUME NEW h \in Nat
  PROVE  Level[h + 1] = {Null} \cup Branch(Level[h])
<1>1. h + 1 \in Nat /\ h + 1 # 0 /\ (h + 1) - 1 = h
  OBVIOUS
<1> DEFINE L == Level
<1>2. L = [k \in Nat |-> {Null} \cup IF k = 0 THEN {} ELSE Branch(L[k - 1])]
  BY LevelDef
<1> HIDE DEF L
<1>3. L[h + 1] = {Null} \cup Branch(L[h])
  BY <1>1, <1>2
<1>4. QED BY <1>3 DEF L

\* A tree of few levels is one of more: the levels are bounds.
LEMMA LevelsGrow ==
  ASSUME NEW h \in Nat, NEW k \in 0 .. h
  PROVE  Level[k] \subseteq Level[h]
<1> DEFINE f == [i \in 0 .. h |-> Level[i]]
           G == [i \in 0 .. h |-> SUBSET Level[i + 1]]
<1>1. f[0] \in G[0]
  BY LevelZero, LevelNext
<1>2. ASSUME NEW i \in 1 .. h, f[i - 1] \in G[i - 1] PROVE f[i] \in G[i]
  <2>1. i - 1 \in Nat /\ (i - 1) + 1 = i /\ i - 1 \in 0 .. h /\ i \in 0 .. h /\ i \in Nat
    OBVIOUS
  <2>2. Level[i - 1] \subseteq Level[i]
    BY <1>2, <2>1
  <2>3. Level[i] = {Null} \cup Branch(Level[i - 1])
    BY <2>1, LevelNext
  <2>4. Level[i + 1] = {Null} \cup Branch(Level[i])
    BY <2>1, LevelNext
  <2>5. Branch(Level[i - 1]) \subseteq Branch(Level[i])
    BY <2>2 DEF Branch
  <2>6. QED BY <2>1, <2>3, <2>4, <2>5
<1>3. \A i \in 0 .. h : f[i] \in G[i]
  <2> HIDE DEF f, G
  <2>1. QED BY <1>1, <1>2, LoopRange
<1> DEFINE g == [i \in 0 .. h - k |-> Level[k + i]]
           H == [i \in 0 .. h - k |-> {S \in SUBSET Level[k + i] : Level[k] \subseteq S}]
<1>4. h - k \in Nat /\ k \in Nat
  OBVIOUS
<1>5. g[0] \in H[0]
  BY <1>4
<1>6. ASSUME NEW i \in 1 .. h - k, g[i - 1] \in H[i - 1] PROVE g[i] \in H[i]
  <2>1. k + (i - 1) \in 0 .. h /\ (k + (i - 1)) + 1 = k + i
    OBVIOUS
  <2>2. Level[k + (i - 1)] \subseteq Level[k + i]
    BY <1>3, <2>1
  <2>3. QED BY <1>6, <2>2
<1>7. \A i \in 0 .. h - k : g[i] \in H[i]
  <2> HIDE DEF g, H
  <2>1. QED BY <1>4, <1>5, <1>6, LoopRange
<1>8. h - k \in 0 .. h - k /\ k + (h - k) = h
  OBVIOUS
<1>9. QED BY <1>7, <1>8

\* All trees.
Forest == UNION {Level[h] : h \in Nat}

\* Null and the nodes over trees are the trees.
LEMMA ForestParts == Forest = {Null} \cup Branch(Forest)
<1>1. ASSUME NEW t \in Forest PROVE t \in {Null} \cup Branch(Forest)
  <2>1. PICK h \in Nat : t \in Level[h]
    BY DEF Forest
  <2>2. CASE h = 0
    BY <2>1, <2>2, LevelZero
  <2>3. CASE h # 0
    <3>1. h - 1 \in Nat /\ (h - 1) + 1 = h
      BY <2>3
    <3>2. t \in {Null} \cup Branch(Level[h - 1])
      BY <2>1, <3>1, LevelNext
    <3>3. Level[h - 1] \subseteq Forest
      BY <3>1 DEF Forest
    <3>4. QED BY <3>2, <3>3 DEF Branch
  <2>4. QED BY <2>2, <2>3
<1>2. Null \in Forest
  BY LevelZero DEF Forest
<1>3. ASSUME NEW t \in Branch(Forest) PROVE t \in Forest
  <2>1. PICK i \in Nat : t.left \in Level[i]
    BY BranchFields DEF Forest
  <2>2. PICK j \in Nat : t.right \in Level[j]
    BY BranchFields DEF Forest
  <2>3. i + j \in Nat /\ i \in 0 .. i + j /\ j \in 0 .. i + j
    OBVIOUS
  <2>4. t.left \in Level[i + j] /\ t.right \in Level[i + j]
    BY <2>1, <2>2, <2>3, LevelsGrow
  <2>5. t \in Branch(Level[i + j])
    BY <2>4 DEF Branch
  <2>6. QED BY <2>3, <2>5, LevelNext DEF Forest
<1>4. QED BY <1>1, <1>2, <1>3

\* Every tree of the set is Null or has its subtrees in the set, and whatever
\* passes from the subtrees of a tree to the tree is true of the whole set.
Inductive(S) ==
  /\ Null \in S
  /\ S \subseteq {Null} \cup Branch(S)
  /\ \A P \in SUBSET S :
       Null \in P /\ (\A t \in S \ {Null} : t.left \in P /\ t.right \in P => t \in P)
         => P = S

\* All trees are such a set.
LEMMA ForestInductive == Inductive(Forest)
<1>1. ASSUME NEW P \in SUBSET Forest, Null \in P,
             \A t \in Forest \ {Null} : t.left \in P /\ t.right \in P => t \in P
      PROVE  P = Forest
  <2> DEFINE T == {h \in Nat : ~(Level[h] \subseteq P)}
  <2>1. T = {}
    <3> SUFFICES ASSUME T # {} PROVE FALSE
      OBVIOUS
    <3>1. PICK m \in T : \A k \in T : m <= k
      BY LeastElement
    <3>2. m \in Nat /\ ~(Level[m] \subseteq P)
      OBVIOUS
    <3>3. m # 0
      BY <1>1, <3>2, LevelZero
    <3>4. m - 1 \in Nat /\ (m - 1) + 1 = m
      BY <3>2, <3>3
    <3>5. Level[m - 1] \subseteq P
      BY <3>1, <3>4
    <3>6. Level[m] = {Null} \cup Branch(Level[m - 1])
      BY <3>4, LevelNext
    <3>7. ASSUME NEW t \in Branch(Level[m - 1]) PROVE t \in P
      <4>1. t \in Forest
        BY <3>2, <3>6 DEF Forest
      <4>2. QED BY <1>1, <3>5, <4>1, BranchFields
    <3>8. QED BY <1>1, <3>2, <3>6, <3>7
  <2> HIDE DEF T
  <2>2. \A h \in Nat : Level[h] \subseteq P
    BY <2>1 DEF T
  <2>3. QED BY <2>2 DEF Forest
<1>2. QED BY <1>1, ForestParts DEF Inductive

\* The trees of at most N levels are trees.
LEMMA TreeInForest == Tree \subseteq Forest
BY NAssumption DEF Tree, Forest

\* So are the trees of at most N levels.
LEMMA TreeInductive == Inductive(Tree)
<1>1. Null \in Tree /\ Tree \subseteq {Null} \cup Branch(Tree)
  <2>1. N - 1 \in Nat /\ (N - 1) + 1 = N /\ N \in Nat /\ N - 1 \in 0 .. N
    BY NAssumption
  <2>2. Tree = {Null} \cup Branch(Level[N - 1])
    BY <2>1, LevelNext DEF Tree
  <2>3. Level[N - 1] \subseteq Tree
    BY <2>1, LevelsGrow DEF Tree
  <2>4. QED BY <2>2, <2>3 DEF Branch
<1>2. ASSUME NEW P \in SUBSET Tree, Null \in P,
             \A t \in Tree \ {Null} : t.left \in P /\ t.right \in P => t \in P
      PROVE  P = Tree
  <2> DEFINE Q == {t \in Forest : t \in Tree => t \in P}
  <2>1. ASSUME NEW t \in Forest \ {Null}, t.left \in Q, t.right \in Q PROVE t \in Q
    <3>1. CASE t \in Tree
      <4>1. t.left \in Tree /\ t.right \in Tree
        BY <1>1, <2>1, <3>1, BranchFields
      <4>2. QED BY <1>2, <2>1, <3>1, <4>1
    <3>2. CASE t \notin Tree
      BY <3>2
    <3>3. QED BY <3>1, <3>2
  <2>2. Null \in Q /\ Q \in SUBSET Forest
    BY <1>2, ForestParts
  <2> HIDE DEF Q
  <2>3. Q = Forest
    BY <2>1, <2>2, ForestInductive DEF Inductive
  <2>4. QED BY <2>3, TreeInForest DEF Q
<1>3. QED BY <1>1, <1>2 DEF Inductive

-----------------------------------------------------------------------------
(* Recursive functions over trees have a value.                            *)

\* What a recursion over trees computes from the value at Null and from what
\* a node makes of its subtrees' values.
IsFold(f, S, base, step) ==
  f = [t \in S |-> IF t = Null THEN base ELSE step[<<t, f[t.left], f[t.right]>>]]

\* On an inductive set every such recursion has a value, of the type its steps
\* keep.
LEMMA FoldExists ==
  ASSUME NEW S, Inductive(S), NEW U, NEW base \in U, NEW step,
         \A t \in S \ {Null} : \A u, v \in U : step[<<t, u, v>>] \in U
  PROVE  \E f \in [S -> U] : IsFold(f, S, base, step)
<1> DEFINE Closed(R) ==
             /\ <<Null, base>> \in R
             /\ \A t \in S \ {Null} : \A u, v \in U :
                  <<t.left, u>> \in R /\ <<t.right, v>> \in R => <<t, step[<<t, u, v>>]>> \in R
           Least == {p \in S \X U : \A R \in SUBSET (S \X U) : Closed(R) => p \in R}
           P == {t \in S : \E u \in U : /\ <<t, u>> \in Least
                                        /\ \A w \in U : <<t, w>> \in Least => w = u}
<1>1. Null \in S /\ \A t \in S \ {Null} : t.left \in S /\ t.right \in S
  BY BranchFields DEF Inductive
<1>2. Closed(Least)
  <2>1. <<Null, base>> \in Least
    BY <1>1
  <2>2. ASSUME NEW t \in S \ {Null}, NEW u \in U, NEW v \in U,
               <<t.left, u>> \in Least, <<t.right, v>> \in Least
        PROVE  <<t, step[<<t, u, v>>]>> \in Least
    <3>1. <<t, step[<<t, u, v>>]>> \in S \X U
      OBVIOUS
    <3>2. ASSUME NEW R \in SUBSET (S \X U), Closed(R) PROVE <<t, step[<<t, u, v>>]>> \in R
      BY <2>2, <3>2
    <3> HIDE DEF Closed
    <3>3. QED BY <3>1, <3>2
  <2>3. QED BY <2>1, <2>2
<1>3. ASSUME NEW R \in SUBSET (S \X U), Closed(R), NEW p \in Least PROVE p \in R
  <2> HIDE DEF Closed
  <2>1. QED BY <1>3
<1>4. Least \in SUBSET (S \X U)
  OBVIOUS
<1>5. Null \in P
  <2>1. ASSUME NEW w \in U, <<Null, w>> \in Least, w # base PROVE FALSE
    <3> DEFINE R == Least \ {<<Null, w>>}
    <3> HIDE DEF Least
    <3>1. Closed(R)
      BY <1>2, <2>1
    <3>2. R \in SUBSET (S \X U)
      BY <1>4
    <3>3. <<Null, w>> \in R
      <4> HIDE DEF Closed, R
      <4>1. QED BY <1>3, <2>1, <3>1, <3>2
    <3>4. QED BY <3>3
  <2>2. <<Null, base>> \in Least
    BY <1>2
  <2> HIDE DEF Least
  <2>3. QED BY <1>1, <2>1, <2>2
<1>6. ASSUME NEW t \in S \ {Null}, t.left \in P, t.right \in P PROVE t \in P
  <2> HIDE DEF Least
  <2>1. PICK u \in U : <<t.left, u>> \in Least /\ \A w \in U : <<t.left, w>> \in Least => w = u
    BY <1>6
  <2>2. PICK v \in U : <<t.right, v>> \in Least /\ \A w \in U : <<t.right, w>> \in Least => w = v
    BY <1>6
  <2>3. <<t, step[<<t, u, v>>]>> \in Least
    BY <1>2, <2>1, <2>2
  <2>4. ASSUME NEW w \in U, <<t, w>> \in Least, w # step[<<t, u, v>>] PROVE FALSE
    <3> DEFINE R == Least \ {<<t, w>>}
    <3>1. <<Null, base>> \in R
      BY <1>2
    <3>2. ASSUME NEW x \in S \ {Null}, NEW y \in U, NEW z \in U,
                 <<x.left, y>> \in R, <<x.right, z>> \in R
          PROVE  <<x, step[<<x, y, z>>]>> \in R
      <4>1. <<x, step[<<x, y, z>>]>> \in Least
        BY <1>2, <3>2
      <4>2. CASE x = t
        <5>1. y = u /\ z = v
          BY <2>1, <2>2, <3>2, <4>2
        <5>2. QED BY <2>4, <4>1, <4>2, <5>1
      <4>3. CASE x # t
        BY <4>1, <4>3
      <4>4. QED BY <4>2, <4>3
    <3>3. Closed(R)
      BY <3>1, <3>2
    <3>4. R \in SUBSET (S \X U)
      BY <1>4
    <3>5. <<t, w>> \in R
      <4> HIDE DEF Closed, R
      <4>1. QED BY <1>3, <2>4, <3>3, <3>4
    <3>6. QED BY <3>5
  <2>5. step[<<t, u, v>>] \in U
    OBVIOUS
  <2>6. QED BY <2>3, <2>4, <2>5
<1>7. P = S
  <2>1. P \in SUBSET S
    OBVIOUS
  <2> HIDE DEF P
  <2>2. QED BY <1>5, <1>6, <2>1 DEF Inductive
<1> DEFINE f == [t \in S |-> CHOOSE u \in U : <<t, u>> \in Least]
<1>8. ASSUME NEW t \in S PROVE f[t] \in U /\ <<t, f[t]>> \in Least
  <2> HIDE DEF Least
  <2>1. \E u \in U : <<t, u>> \in Least
    BY <1>7
  <2>2. QED BY <2>1
<1>9. ASSUME NEW t \in S, NEW u \in U, <<t, u>> \in Least PROVE f[t] = u
  <2> HIDE DEF Least, f
  <2>1. QED BY <1>7, <1>8, <1>9
<1>10. f \in [S -> U]
  <2> HIDE DEF Least
  <2>1. QED BY <1>8
<1>11. f[Null] = base
  <2> HIDE DEF Least, f, P
  <2>1. QED BY <1>1, <1>2, <1>9
<1>12. ASSUME NEW t \in S \ {Null} PROVE f[t] = step[<<t, f[t.left], f[t.right]>>]
  <2> HIDE DEF Least, f, P
  <2>1. f[t.left] \in U /\ f[t.right] \in U /\ step[<<t, f[t.left], f[t.right]>>] \in U
    BY <1>1, <1>10
  <2>2. <<t.left, f[t.left]>> \in Least /\ <<t.right, f[t.right]>> \in Least
    BY <1>1, <1>8
  <2>3. <<t, step[<<t, f[t.left], f[t.right]>>]>> \in Least
    BY <1>2, <2>1, <2>2
  <2>4. QED BY <1>9, <2>1, <2>3
<1>13. IsFold(f, S, base, step)
  <2> HIDE DEF f
  <2>1. f = [t \in S |-> f[t]]
    BY <1>10
  <2>2. QED BY <1>11, <1>12, <2>1 DEF IsFold
<1> HIDE DEF f
<1>14. QED BY <1>10, <1>13

-----------------------------------------------------------------------------
(* What a tree holds, from what its root and its subtrees hold.            *)

\* The nodes of a tree.
NodesIn[t \in Forest] ==
  IF t = Null THEN {} ELSE {t} \cup NodesIn[t.left] \cup NodesIn[t.right]

\* The black nodes on the way down to the left.
HeightOf[t \in Forest] ==
  IF t = Null THEN 0 ELSE HeightOf[t.left] + IF IsRed(t) THEN 0 ELSE 1

\* The blocks, the keys and the pairs the nodes of a tree hold.
IdsIn(t)   == {n.id : n \in NodesIn[t]}
KeysIn(t)  == {n.key : n \in NodesIn[t]}
PairsIn(t) == {<<n.key, n.val>> : n \in NodesIn[t]}

\* A search tree.
Ordered(t) ==
  \A n \in NodesIn[t] :
    (\A k \in KeysIn(n.left) : k < n.key) /\ (\A k \in KeysIn(n.right) : k > n.key)

\* No two nodes are the same block.
Apart(t) ==
  \A n \in NodesIn[t] :
    /\ n.id \notin IdsIn(n.left) /\ n.id \notin IdsIn(n.right)
    /\ IdsIn(n.left) \cap IdsIn(n.right) = {}

\* A left-leaning red-black tree.
Shaped(t) ==
  \A n \in NodesIn[t] :
    /\ HeightOf[n.left] = HeightOf[n.right]
    /\ ~IsRed(n.right)
    /\ IsRed(n.left) => ~IsRed(n.left.left)

\* The trees that are not Null.
Node == Branch(Forest)

\* A node has its fields, and its subtrees are trees.
LEMMA NodeFields ==
  ASSUME NEW t \in Node
  PROVE  /\ t.id \in Nat /\ t.key \in Key /\ t.key \in Int /\ t.val \in Val
         /\ t.color \in {RED, BLACK} /\ t.left \in Forest /\ t.right \in Forest
         /\ t # Null /\ t \in Forest
BY BranchFields, ForestParts DEF Node

\* A tree is Null or a node.
LEMMA TreeOrNull == Null \in Forest /\ \A t \in Forest : t = Null \/ t \in Node
BY ForestParts DEF Node

\* What is true of Null and passes from the subtrees to a tree is true of
\* every tree.
LEMMA TreeInduction ==
  ASSUME NEW P \in SUBSET Forest, Null \in P,
         \A t \in Node : t.left \in P /\ t.right \in P => t \in P
  PROVE  P = Forest
<1>1. \A t \in Forest \ {Null} : t.left \in P /\ t.right \in P => t \in P
  BY TreeOrNull
<1>2. QED BY <1>1, ForestInductive DEF Inductive

\* The nodes of a tree are its root and those of its subtrees.
LEMMA NodesInDef ==
  /\ NodesIn \in [Forest -> SUBSET Forest]
  /\ NodesIn[Null] = {}
  /\ \A t \in Node : NodesIn[t] = {t} \cup NodesIn[t.left] \cup NodesIn[t.right]
<1> DEFINE U == SUBSET Forest
           step == [p \in Forest \X U \X U |-> {p[1]} \cup p[2] \cup p[3]]
           Is(f) == f = [t \in Forest |->
                          IF t = Null THEN {} ELSE {t} \cup f[t.left] \cup f[t.right]]
<1>1. ASSUME NEW t \in Forest, NEW u \in U, NEW v \in U
      PROVE  step[<<t, u, v>>] = {t} \cup u \cup v /\ step[<<t, u, v>>] \in U
  OBVIOUS
<1>2. PICK f \in [Forest -> U] : IsFold(f, Forest, {}, step)
  <2> HIDE DEF step
  <2>1. \A t \in Forest \ {Null} : \A u, v \in U : step[<<t, u, v>>] \in U
    BY <1>1
  <2>2. {} \in U
    OBVIOUS
  <2> HIDE DEF U
  <2>3. QED BY <2>1, <2>2, ForestInductive, FoldExists
<1>3. Is(f)
  <2> HIDE DEF step, U
  <2>1. ASSUME NEW t \in Forest \ {Null}
        PROVE  step[<<t, f[t.left], f[t.right]>>] = {t} \cup f[t.left] \cup f[t.right]
    BY <1>1, TreeOrNull, NodeFields
  <2>2. QED BY <1>2, <2>1 DEF IsFold
<1>4. Is(NodesIn)
  <2> HIDE DEF Is
  <2>1. Is(CHOOSE g : Is(g))
    BY <1>3
  <2>2. QED BY <2>1 DEF NodesIn, Is
<1>5. \A t \in Forest : NodesIn[t] = f[t]
  <2> DEFINE P == {t \in Forest : NodesIn[t] = f[t]}
  <2>1. Null \in P
    BY <1>3, <1>4, TreeOrNull
  <2>2. ASSUME NEW t \in Node, t.left \in P, t.right \in P PROVE t \in P
    <3>1. t \in Forest /\ t # Null
      BY NodeFields
    <3>2. /\ NodesIn[t] = {t} \cup NodesIn[t.left] \cup NodesIn[t.right]
          /\ f[t] = {t} \cup f[t.left] \cup f[t.right]
      BY <1>3, <1>4, <3>1
    <3>3. QED BY <2>2, <3>1, <3>2
  <2>3. P = Forest
    <3>1. P \in SUBSET Forest
      OBVIOUS
    <3> HIDE DEF P
    <3>2. QED BY <2>1, <2>2, <3>1, TreeInduction
  <2>4. QED BY <2>3
<1>6. QED BY <1>2, <1>4, <1>5, TreeOrNull, NodeFields

\* The black height is a number, one more than the left subtree's under a black
\* root.
LEMMA HeightOfDef ==
  /\ HeightOf \in [Forest -> Nat]
  /\ HeightOf[Null] = 0
  /\ \A t \in Node : HeightOf[t] = HeightOf[t.left] + IF IsRed(t) THEN 0 ELSE 1
<1> DEFINE step == [p \in Forest \X Nat \X Nat |-> p[2] + IF IsRed(p[1]) THEN 0 ELSE 1]
           Is(f) == f = [t \in Forest |->
                          IF t = Null THEN 0 ELSE f[t.left] + IF IsRed(t) THEN 0 ELSE 1]
<1>1. ASSUME NEW t \in Forest, NEW u \in Nat, NEW v \in Nat
      PROVE  /\ step[<<t, u, v>>] = u + IF IsRed(t) THEN 0 ELSE 1
             /\ step[<<t, u, v>>] \in Nat
  OBVIOUS
<1>2. PICK f \in [Forest -> Nat] : IsFold(f, Forest, 0, step)
  <2> HIDE DEF step
  <2>1. \A t \in Forest \ {Null} : \A u, v \in Nat : step[<<t, u, v>>] \in Nat
    BY <1>1
  <2>2. QED BY <2>1, ForestInductive, FoldExists
<1>3. Is(f)
  <2> HIDE DEF step
  <2>1. ASSUME NEW t \in Forest \ {Null}
        PROVE  step[<<t, f[t.left], f[t.right]>>] = f[t.left] + IF IsRed(t) THEN 0 ELSE 1
    BY <1>1, TreeOrNull, NodeFields
  <2>2. QED BY <1>2, <2>1 DEF IsFold
<1>4. Is(HeightOf)
  <2> HIDE DEF Is
  <2>1. Is(CHOOSE g : Is(g))
    BY <1>3
  <2>2. QED BY <2>1 DEF HeightOf, Is
<1>5. \A t \in Forest : HeightOf[t] = f[t]
  <2> DEFINE P == {t \in Forest : HeightOf[t] = f[t]}
  <2>1. Null \in P
    BY <1>3, <1>4, TreeOrNull
  <2>2. ASSUME NEW t \in Node, t.left \in P, t.right \in P PROVE t \in P
    BY <1>3, <1>4, <2>2, NodeFields
  <2>3. P = Forest
    <3>1. P \in SUBSET Forest
      OBVIOUS
    <3> HIDE DEF P
    <3>2. QED BY <2>1, <2>2, <3>1, TreeInduction
  <2>4. QED BY <2>3
<1>6. QED BY <1>2, <1>4, <1>5, TreeOrNull, NodeFields

\* Null holds nothing, and is ordered, apart and well shaped.
LEMMA NullHolds ==
  /\ IdsIn(Null) = {} /\ KeysIn(Null) = {} /\ PairsIn(Null) = {}
  /\ Ordered(Null) /\ Apart(Null) /\ Shaped(Null)
BY NodesInDef DEF IdsIn, KeysIn, PairsIn, Ordered, Apart, Shaped

\* A node holds its own data and what its subtrees hold.
LEMMA NodeHolds ==
  ASSUME NEW t \in Node
  PROVE  /\ IdsIn(t) = {t.id} \cup IdsIn(t.left) \cup IdsIn(t.right)
         /\ KeysIn(t) = {t.key} \cup KeysIn(t.left) \cup KeysIn(t.right)
         /\ PairsIn(t) = {<<t.key, t.val>>} \cup PairsIn(t.left) \cup PairsIn(t.right)
<1>1. NodesIn[t] = {t} \cup NodesIn[t.left] \cup NodesIn[t.right]
  BY NodesInDef
<1>2. QED BY <1>1 DEF IdsIn, KeysIn, PairsIn

\* It is a search tree if its subtrees are and its key is between theirs.
LEMMA NodeOrdered ==
  ASSUME NEW t \in Node
  PROVE  Ordered(t) <=> /\ Ordered(t.left) /\ Ordered(t.right)
                        /\ \A k \in KeysIn(t.left) : k < t.key
                        /\ \A k \in KeysIn(t.right) : k > t.key
<1>1. NodesIn[t] = {t} \cup NodesIn[t.left] \cup NodesIn[t.right]
  BY NodesInDef
<1>2. QED BY <1>1 DEF Ordered

\* Its blocks are apart if its subtrees' are and share none.
LEMMA NodeApart ==
  ASSUME NEW t \in Node
  PROVE  Apart(t) <=> /\ Apart(t.left) /\ Apart(t.right)
                      /\ t.id \notin IdsIn(t.left) /\ t.id \notin IdsIn(t.right)
                      /\ IdsIn(t.left) \cap IdsIn(t.right) = {}
<1>1. NodesIn[t] = {t} \cup NodesIn[t.left] \cup NodesIn[t.right]
  BY NodesInDef
<1>2. QED BY <1>1 DEF Apart

\* It is well shaped if its subtrees are, of one height, and its links are.
LEMMA NodeShaped ==
  ASSUME NEW t \in Node
  PROVE  Shaped(t) <=> /\ Shaped(t.left) /\ Shaped(t.right)
                       /\ HeightOf[t.left] = HeightOf[t.right]
                       /\ ~IsRed(t.right)
                       /\ IsRed(t.left) => ~IsRed(t.left.left)
<1>1. NodesIn[t] = {t} \cup NodesIn[t.left] \cup NodesIn[t.right]
  BY NodesInDef
<1>2. QED BY <1>1 DEF Shaped

\* Its height is its left subtree's, and one more if it is black.
LEMMA NodeHeight ==
  ASSUME NEW t \in Node
  PROVE  /\ HeightOf[t] = HeightOf[t.left] + IF IsRed(t) THEN 0 ELSE 1
         /\ HeightOf[t] \in Nat /\ HeightOf[t.left] \in Nat /\ HeightOf[t.right] \in Nat
BY HeightOfDef, NodeFields

\* The nodes of a tree are trees, and what they hold is of its type.
LEMMA HoldsTyped ==
  ASSUME NEW t \in Forest
  PROVE  /\ NodesIn[t] \subseteq Node
         /\ IdsIn(t) \subseteq Nat /\ KeysIn(t) \subseteq Key /\ PairsIn(t) \subseteq Key \X Val
         /\ KeysIn(t) = {p[1] : p \in PairsIn(t)}
         /\ KeysIn(t) \subseteq Int /\ IsFiniteSet(KeysIn(t))
         /\ Cardinality(KeysIn(t)) \in Nat
         /\ t \notin NodesIn[t] => t = Null
<1> DEFINE P == {u \in Forest : NodesIn[u] \subseteq Node}
<1>1. Null \in P
  BY NodesInDef, TreeOrNull
<1>2. ASSUME NEW u \in Node, u.left \in P, u.right \in P PROVE u \in P
  BY <1>2, NodesInDef, NodeFields
<1>3. P = Forest
  <2>1. P \in SUBSET Forest
    OBVIOUS
  <2> HIDE DEF P
  <2>2. QED BY <1>1, <1>2, <2>1, TreeInduction
<1>4. NodesIn[t] \subseteq Node
  BY <1>3
<1>5. IdsIn(t) \subseteq Nat /\ KeysIn(t) \subseteq Key /\ PairsIn(t) \subseteq Key \X Val
  BY <1>4, NodeFields DEF IdsIn, KeysIn, PairsIn
<1>6. KeysIn(t) = {p[1] : p \in PairsIn(t)}
  <2>1. ASSUME NEW n \in NodesIn[t] PROVE n.key \in {p[1] : p \in PairsIn(t)}
    <3>1. <<n.key, n.val>> \in PairsIn(t) /\ <<n.key, n.val>>[1] = n.key
      BY DEF PairsIn
    <3>2. QED BY <3>1
  <2>2. ASSUME NEW p \in PairsIn(t) PROVE p[1] \in KeysIn(t)
    BY DEF KeysIn, PairsIn
  <2>3. QED BY <2>1, <2>2 DEF KeysIn
<1>7. IsFiniteSet(KeysIn(t)) /\ Cardinality(KeysIn(t)) \in Nat
  BY <1>5, KeyAssumption, FS_Subset, FS_CardinalityType
<1>8. t \notin NodesIn[t] => t = Null
  BY NodesInDef, TreeOrNull
<1>9. QED BY <1>4, <1>5, <1>6, <1>7, <1>8, KeyAssumption

\* In a search tree the root's key is in neither subtree, and no key is in
\* both, so each subtree has fewer keys than the tree.
LEMMA FewerKeys ==
  ASSUME NEW t \in Node, Ordered(t)
  PROVE  /\ Cardinality(KeysIn(t.left)) < Cardinality(KeysIn(t))
         /\ Cardinality(KeysIn(t.right)) < Cardinality(KeysIn(t))
<1>1. /\ t.left \in Forest /\ t.right \in Forest /\ t \in Forest /\ t.key \in Int
      /\ KeysIn(t) = {t.key} \cup KeysIn(t.left) \cup KeysIn(t.right)
  BY NodeFields, NodeHolds
<1>2. IsFiniteSet(KeysIn(t)) /\ KeysIn(t) \subseteq Int
  BY <1>1, HoldsTyped
<1>3. t.key \notin KeysIn(t.left) /\ t.key \notin KeysIn(t.right)
  <2>1. \A k \in KeysIn(t.left) : k < t.key
    BY NodeOrdered
  <2>2. \A k \in KeysIn(t.right) : k > t.key
    BY NodeOrdered
  <2>3. QED BY <1>1, <2>1, <2>2
<1>4. /\ KeysIn(t.left) \subseteq KeysIn(t) /\ KeysIn(t.left) # KeysIn(t)
      /\ KeysIn(t.right) \subseteq KeysIn(t) /\ KeysIn(t.right) # KeysIn(t)
  BY <1>1, <1>3
<1>5. ASSUME NEW S \in SUBSET KeysIn(t), S # KeysIn(t)
      PROVE  Cardinality(S) < Cardinality(KeysIn(t))
  <2>1. /\ Cardinality(S) <= Cardinality(KeysIn(t)) /\ IsFiniteSet(S)
        /\ Cardinality(S) # Cardinality(KeysIn(t))
    BY <1>2, <1>5, FS_Subset
  <2>2. Cardinality(S) \in Nat /\ Cardinality(KeysIn(t)) \in Nat
    BY <1>2, <2>1, FS_CardinalityType
  <2>3. QED BY <2>1, <2>2
<1>6. QED BY <1>4, <1>5

\* A search tree of at most h keys has at most h levels.
LEMMA FewKeysFewLevels ==
  ASSUME NEW t \in Forest, NEW h \in Nat, Ordered(t), Cardinality(KeysIn(t)) <= h
  PROVE  t \in Level[h]
<1> DEFINE P == {u \in Forest : \A k \in Nat :
                   Ordered(u) /\ Cardinality(KeysIn(u)) <= k => u \in Level[k]}
<1>1. Null \in P
  <2>1. \A k \in Nat : Level[0] \subseteq Level[k]
    BY LevelsGrow
  <2>2. QED BY <2>1, LevelZero, TreeOrNull
<1>2. ASSUME NEW u \in Node, u.left \in P, u.right \in P PROVE u \in P
  <2> SUFFICES ASSUME NEW k \in Nat, Ordered(u), Cardinality(KeysIn(u)) <= k
               PROVE  u \in Level[k]
    BY NodeFields
  <2>1. /\ Cardinality(KeysIn(u.left)) < Cardinality(KeysIn(u))
        /\ Cardinality(KeysIn(u.right)) < Cardinality(KeysIn(u))
    BY FewerKeys
  <2>2. /\ Cardinality(KeysIn(u.left)) \in Nat /\ Cardinality(KeysIn(u.right)) \in Nat
        /\ Cardinality(KeysIn(u)) \in Nat
    BY NodeFields, HoldsTyped
  <2>3. /\ k - 1 \in Nat /\ (k - 1) + 1 = k
        /\ Cardinality(KeysIn(u.left)) <= k - 1 /\ Cardinality(KeysIn(u.right)) <= k - 1
    BY <2>1, <2>2
  <2>4. u.left \in Level[k - 1] /\ u.right \in Level[k - 1]
    BY <1>2, <2>3, NodeOrdered
  <2>5. u \in Branch(Level[k - 1])
    BY <2>4 DEF Node, Branch
  <2>6. QED BY <2>3, <2>5, LevelNext
<1>3. P = Forest
  <2>1. P \in SUBSET Forest
    OBVIOUS
  <2> HIDE DEF P
  <2>2. QED BY <1>1, <1>2, <2>1, TreeInduction
<1>4. QED BY <1>3

-----------------------------------------------------------------------------
(* The links after a rotation and a flip.                                  *)

\* There are two colors, and Null has none.
LEMMA Colors ==
  /\ ~IsRed(Null) /\ RED # BLACK /\ Other(RED) = BLACK /\ Other(BLACK) = RED
  /\ \A t \in Node : IsRed(t) <=> t.color = RED
  /\ \A t \in Node : ~IsRed(t) <=> t.color = BLACK
  /\ \A t \in Forest : IsRed(t) => t \in Node
BY NodeFields, TreeOrNull DEF IsRed, RED, BLACK, Other

\* A node with another left subtree.
LEMMA WithLeft ==
  ASSUME NEW t \in Node, NEW s \in Forest, NEW u, u = [t EXCEPT !.left = s]
  PROVE  /\ u \in Node /\ u.left = s /\ u.right = t.right /\ u.color = t.color
         /\ u.id = t.id /\ u.key = t.key /\ u.val = t.val
BY DEF Node, Branch

\* And with another right subtree.
LEMMA WithRight ==
  ASSUME NEW t \in Node, NEW s \in Forest, NEW u, u = [t EXCEPT !.right = s]
  PROVE  /\ u \in Node /\ u.right = s /\ u.left = t.left /\ u.color = t.color
         /\ u.id = t.id /\ u.key = t.key /\ u.val = t.val
BY DEF Node, Branch

\* The nodes and links after a rotation to the left.
LEMMA RotatedLeft ==
  ASSUME NEW t \in Node, t.right \in Node, NEW u, u = RotateLeft(t)
  PROVE  /\ u \in Node /\ u.right = t.right.right /\ u.color = t.color
         /\ u.id = t.right.id /\ u.key = t.right.key /\ u.val = t.right.val
         /\ u.left \in Node /\ u.left.left = t.left /\ u.left.right = t.right.left
         /\ u.left.color = RED
         /\ u.left.id = t.id /\ u.left.key = t.key /\ u.left.val = t.val
<1> DEFINE low == [t EXCEPT !.right = t.right.left, !.color = RED]
<1>1. /\ low \in Node /\ low.left = t.left /\ low.right = t.right.left /\ low.color = RED
      /\ low.id = t.id /\ low.key = t.key /\ low.val = t.val
  BY NodeFields DEF Node, Branch
<1>2. low \in Forest /\ t.color \in {RED, BLACK}
  BY <1>1, NodeFields
<1> HIDE DEF low
<1>3. u = [t.right EXCEPT !.left = low, !.color = t.color]
  BY DEF RotateLeft, low
<1>4. /\ u \in Node /\ u.left = low /\ u.right = t.right.right /\ u.color = t.color
      /\ u.id = t.right.id /\ u.key = t.right.key /\ u.val = t.right.val
  BY <1>2, <1>3 DEF Node, Branch
<1>5. QED BY <1>1, <1>4

\* The same to the right.
LEMMA RotatedRight ==
  ASSUME NEW t \in Node, t.left \in Node, NEW u, u = RotateRight(t)
  PROVE  /\ u \in Node /\ u.left = t.left.left /\ u.color = t.color
         /\ u.id = t.left.id /\ u.key = t.left.key /\ u.val = t.left.val
         /\ u.right \in Node /\ u.right.right = t.right /\ u.right.left = t.left.right
         /\ u.right.color = RED
         /\ u.right.id = t.id /\ u.right.key = t.key /\ u.right.val = t.val
<1> DEFINE low == [t EXCEPT !.left = t.left.right, !.color = RED]
<1>1. /\ low \in Node /\ low.right = t.right /\ low.left = t.left.right /\ low.color = RED
      /\ low.id = t.id /\ low.key = t.key /\ low.val = t.val
  BY NodeFields DEF Node, Branch
<1>2. low \in Forest /\ t.color \in {RED, BLACK}
  BY <1>1, NodeFields
<1> HIDE DEF low
<1>3. u = [t.left EXCEPT !.right = low, !.color = t.color]
  BY DEF RotateRight, low
<1>4. /\ u \in Node /\ u.right = low /\ u.left = t.left.left /\ u.color = t.color
      /\ u.id = t.left.id /\ u.key = t.left.key /\ u.val = t.left.val
  BY <1>2, <1>3 DEF Node, Branch
<1>5. QED BY <1>1, <1>4

\* A flip changes three colors and nothing else.
LEMMA Flipped ==
  ASSUME NEW t \in Node, t.left \in Node, t.right \in Node, NEW u, u = FlipColors(t)
  PROVE  /\ u \in Node /\ u.color = Other(t.color)
         /\ u.id = t.id /\ u.key = t.key /\ u.val = t.val
         /\ u.left \in Node /\ u.left.color = Other(t.left.color)
         /\ u.left.id = t.left.id /\ u.left.key = t.left.key /\ u.left.val = t.left.val
         /\ u.left.left = t.left.left /\ u.left.right = t.left.right
         /\ u.right \in Node /\ u.right.color = Other(t.right.color)
         /\ u.right.id = t.right.id /\ u.right.key = t.right.key
         /\ u.right.val = t.right.val
         /\ u.right.left = t.right.left /\ u.right.right = t.right.right
<1> DEFINE l == [t.left EXCEPT !.color = Other(t.left.color)]
           r == [t.right EXCEPT !.color = Other(t.right.color)]
<1>0. \A c : Other(c) \in {RED, BLACK}
  BY DEF Other
<1>1. /\ l \in Node /\ l.color = Other(t.left.color)
      /\ l.id = t.left.id /\ l.key = t.left.key /\ l.val = t.left.val
      /\ l.left = t.left.left /\ l.right = t.left.right
  BY <1>0 DEF Node, Branch
<1>2. /\ r \in Node /\ r.color = Other(t.right.color)
      /\ r.id = t.right.id /\ r.key = t.right.key /\ r.val = t.right.val
      /\ r.left = t.right.left /\ r.right = t.right.right
  BY <1>0 DEF Node, Branch
<1>3. l \in Forest /\ r \in Forest /\ Other(t.color) \in {RED, BLACK}
  BY <1>0, <1>1, <1>2, NodeFields
<1>4. u = [t EXCEPT !.color = Other(t.color), !.left = l, !.right = r]
  BY DEF FlipColors, Node, Branch
<1> HIDE DEF l, r
<1>5. /\ u \in Node /\ u.left = l /\ u.right = r /\ u.color = Other(t.color)
      /\ u.id = t.id /\ u.key = t.key /\ u.val = t.val
  BY <1>3, <1>4 DEF Node, Branch
<1>6. QED BY <1>1, <1>2, <1>5

-----------------------------------------------------------------------------
(* Rotations, flips and rbt_balance change nothing the tree holds.         *)

\* Two trees hold the same, in order and apart if the first one does.
Alike(t, u) ==
  /\ IdsIn(u) = IdsIn(t) /\ KeysIn(u) = KeysIn(t) /\ PairsIn(u) = PairsIn(t)
  /\ Ordered(t) => Ordered(u)
  /\ Apart(t) => Apart(u)

\* A tree holds what it holds.
LEMMA AlikeItself == \A t : Alike(t, t)
BY DEF Alike

\* Trees alike to one tree are alike.
LEMMA AlikeInTurn ==
  ASSUME NEW t, NEW u, NEW w, Alike(t, u), Alike(u, w)
  PROVE  Alike(t, w)
BY DEF Alike

\* The keys of a search tree's parts are integers, to be compared.
LEMMA KeysAreInts ==
  \A t \in Forest : KeysIn(t) \subseteq Int
BY HoldsTyped

\* A rotation to the left moves links, and nothing the tree holds.
LEMMA RotateLeftAlike ==
  ASSUME NEW t \in Node, t.right \in Node
  PROVE  Alike(t, RotateLeft(t))
<1> DEFINE u == RotateLeft(t)
           c == t.right
           d == u.left
<1>1. /\ u \in Node /\ u.right = c.right /\ u.id = c.id /\ u.key = c.key /\ u.val = c.val
      /\ d \in Node /\ d.left = t.left /\ d.right = c.left
      /\ d.id = t.id /\ d.key = t.key /\ d.val = t.val
  BY RotatedLeft
<1> HIDE DEF u
<1>2. /\ IdsIn(u) = IdsIn(t) /\ KeysIn(u) = KeysIn(t) /\ PairsIn(u) = PairsIn(t)
  <2>1. /\ IdsIn(t) = {t.id} \cup IdsIn(t.left) \cup IdsIn(c)
        /\ KeysIn(t) = {t.key} \cup KeysIn(t.left) \cup KeysIn(c)
        /\ PairsIn(t) = {<<t.key, t.val>>} \cup PairsIn(t.left) \cup PairsIn(c)
    BY NodeHolds
  <2>2. /\ IdsIn(c) = {c.id} \cup IdsIn(c.left) \cup IdsIn(c.right)
        /\ KeysIn(c) = {c.key} \cup KeysIn(c.left) \cup KeysIn(c.right)
        /\ PairsIn(c) = {<<c.key, c.val>>} \cup PairsIn(c.left) \cup PairsIn(c.right)
    BY NodeHolds
  <2>3. /\ IdsIn(u) = {c.id} \cup IdsIn(d) \cup IdsIn(c.right)
        /\ KeysIn(u) = {c.key} \cup KeysIn(d) \cup KeysIn(c.right)
        /\ PairsIn(u) = {<<c.key, c.val>>} \cup PairsIn(d) \cup PairsIn(c.right)
    BY <1>1, NodeHolds
  <2>4. /\ IdsIn(d) = {t.id} \cup IdsIn(t.left) \cup IdsIn(c.left)
        /\ KeysIn(d) = {t.key} \cup KeysIn(t.left) \cup KeysIn(c.left)
        /\ PairsIn(d) = {<<t.key, t.val>>} \cup PairsIn(t.left) \cup PairsIn(c.left)
    BY <1>1, NodeHolds
  <2>5. QED BY <2>1, <2>2, <2>3, <2>4
<1>3. ASSUME Ordered(t) PROVE Ordered(u)
  <2>1. /\ Ordered(t.left) /\ Ordered(c)
        /\ \A k \in KeysIn(t.left) : k < t.key
        /\ \A k \in KeysIn(c) : k > t.key
    BY <1>3, NodeOrdered
  <2>2. /\ Ordered(c.left) /\ Ordered(c.right)
        /\ \A k \in KeysIn(c.left) : k < c.key
        /\ \A k \in KeysIn(c.right) : k > c.key
    BY <2>1, NodeOrdered
  <2>3. KeysIn(c) = {c.key} \cup KeysIn(c.left) \cup KeysIn(c.right)
    BY NodeHolds
  <2>4. Ordered(d)
    BY <1>1, <2>1, <2>2, <2>3, NodeOrdered
  <2>5. KeysIn(d) = {t.key} \cup KeysIn(t.left) \cup KeysIn(c.left)
    BY <1>1, NodeHolds
  <2>6. \A k \in KeysIn(d) : k < c.key
    <3>1. t.key \in Int /\ c.key \in Int /\ KeysIn(t.left) \subseteq Int
      BY NodeFields, KeysAreInts
    <3>2. t.key < c.key
      BY <2>1, <2>3, <3>1
    <3>3. QED BY <2>1, <2>2, <2>5, <3>1, <3>2
  <2>7. QED BY <1>1, <2>2, <2>4, <2>6, NodeOrdered
<1>4. ASSUME Apart(t) PROVE Apart(u)
  <2>1. /\ Apart(t.left) /\ Apart(c) /\ t.id \notin IdsIn(t.left) /\ t.id \notin IdsIn(c)
        /\ IdsIn(t.left) \cap IdsIn(c) = {}
    BY <1>4, NodeApart
  <2>2. /\ Apart(c.left) /\ Apart(c.right)
        /\ c.id \notin IdsIn(c.left) /\ c.id \notin IdsIn(c.right)
        /\ IdsIn(c.left) \cap IdsIn(c.right) = {}
    BY <2>1, NodeApart
  <2>3. IdsIn(c) = {c.id} \cup IdsIn(c.left) \cup IdsIn(c.right)
    BY NodeHolds
  <2>4. Apart(d)
    BY <1>1, <2>1, <2>2, <2>3, NodeApart
  <2>5. IdsIn(d) = {t.id} \cup IdsIn(t.left) \cup IdsIn(c.left)
    BY <1>1, NodeHolds
  <2>6. c.id \notin IdsIn(d) /\ IdsIn(d) \cap IdsIn(c.right) = {}
    BY <2>1, <2>2, <2>3, <2>5
  <2>7. QED BY <1>1, <2>2, <2>4, <2>6, NodeApart
<1>5. QED BY <1>2, <1>3, <1>4 DEF Alike, u

\* Nor does one to the right.
LEMMA RotateRightAlike ==
  ASSUME NEW t \in Node, t.left \in Node
  PROVE  Alike(t, RotateRight(t))
<1> DEFINE u == RotateRight(t)
           c == t.left
           d == u.right
<1>1. /\ u \in Node /\ u.left = c.left /\ u.id = c.id /\ u.key = c.key /\ u.val = c.val
      /\ d \in Node /\ d.right = t.right /\ d.left = c.right
      /\ d.id = t.id /\ d.key = t.key /\ d.val = t.val
  BY RotatedRight
<1> HIDE DEF u
<1>2. /\ IdsIn(u) = IdsIn(t) /\ KeysIn(u) = KeysIn(t) /\ PairsIn(u) = PairsIn(t)
  <2>1. /\ IdsIn(t) = {t.id} \cup IdsIn(c) \cup IdsIn(t.right)
        /\ KeysIn(t) = {t.key} \cup KeysIn(c) \cup KeysIn(t.right)
        /\ PairsIn(t) = {<<t.key, t.val>>} \cup PairsIn(c) \cup PairsIn(t.right)
    BY NodeHolds
  <2>2. /\ IdsIn(c) = {c.id} \cup IdsIn(c.left) \cup IdsIn(c.right)
        /\ KeysIn(c) = {c.key} \cup KeysIn(c.left) \cup KeysIn(c.right)
        /\ PairsIn(c) = {<<c.key, c.val>>} \cup PairsIn(c.left) \cup PairsIn(c.right)
    BY NodeHolds
  <2>3. /\ IdsIn(u) = {c.id} \cup IdsIn(c.left) \cup IdsIn(d)
        /\ KeysIn(u) = {c.key} \cup KeysIn(c.left) \cup KeysIn(d)
        /\ PairsIn(u) = {<<c.key, c.val>>} \cup PairsIn(c.left) \cup PairsIn(d)
    BY <1>1, NodeHolds
  <2>4. /\ IdsIn(d) = {t.id} \cup IdsIn(c.right) \cup IdsIn(t.right)
        /\ KeysIn(d) = {t.key} \cup KeysIn(c.right) \cup KeysIn(t.right)
        /\ PairsIn(d) = {<<t.key, t.val>>} \cup PairsIn(c.right) \cup PairsIn(t.right)
    BY <1>1, NodeHolds
  <2>5. QED BY <2>1, <2>2, <2>3, <2>4
<1>3. ASSUME Ordered(t) PROVE Ordered(u)
  <2>1. /\ Ordered(c) /\ Ordered(t.right)
        /\ \A k \in KeysIn(c) : k < t.key
        /\ \A k \in KeysIn(t.right) : k > t.key
    BY <1>3, NodeOrdered
  <2>2. /\ Ordered(c.left) /\ Ordered(c.right)
        /\ \A k \in KeysIn(c.left) : k < c.key
        /\ \A k \in KeysIn(c.right) : k > c.key
    BY <2>1, NodeOrdered
  <2>3. KeysIn(c) = {c.key} \cup KeysIn(c.left) \cup KeysIn(c.right)
    BY NodeHolds
  <2>4. Ordered(d)
    BY <1>1, <2>1, <2>2, <2>3, NodeOrdered
  <2>5. KeysIn(d) = {t.key} \cup KeysIn(c.right) \cup KeysIn(t.right)
    BY <1>1, NodeHolds
  <2>6. \A k \in KeysIn(d) : k > c.key
    <3>1. t.key \in Int /\ c.key \in Int /\ KeysIn(t.right) \subseteq Int
      BY NodeFields, KeysAreInts
    <3>2. c.key < t.key
      BY <2>1, <2>3, <3>1
    <3>3. QED BY <2>1, <2>2, <2>5, <3>1, <3>2
  <2>7. QED BY <1>1, <2>2, <2>4, <2>6, NodeOrdered
<1>4. ASSUME Apart(t) PROVE Apart(u)
  <2>1. /\ Apart(c) /\ Apart(t.right) /\ t.id \notin IdsIn(c) /\ t.id \notin IdsIn(t.right)
        /\ IdsIn(c) \cap IdsIn(t.right) = {}
    BY <1>4, NodeApart
  <2>2. /\ Apart(c.left) /\ Apart(c.right)
        /\ c.id \notin IdsIn(c.left) /\ c.id \notin IdsIn(c.right)
        /\ IdsIn(c.left) \cap IdsIn(c.right) = {}
    BY <2>1, NodeApart
  <2>3. IdsIn(c) = {c.id} \cup IdsIn(c.left) \cup IdsIn(c.right)
    BY NodeHolds
  <2>4. Apart(d)
    BY <1>1, <2>1, <2>2, <2>3, NodeApart
  <2>5. IdsIn(d) = {t.id} \cup IdsIn(c.right) \cup IdsIn(t.right)
    BY <1>1, NodeHolds
  <2>6. c.id \notin IdsIn(d) /\ IdsIn(c.left) \cap IdsIn(d) = {}
    BY <2>1, <2>2, <2>3, <2>5
  <2>7. QED BY <1>1, <2>2, <2>4, <2>6, NodeApart
<1>5. QED BY <1>2, <1>3, <1>4 DEF Alike, u

\* Nodes with the same data and alike subtrees are alike.
LEMMA NodesAlike ==
  ASSUME NEW t \in Node, NEW u \in Node, u.id = t.id, u.key = t.key, u.val = t.val,
         Alike(t.left, u.left), Alike(t.right, u.right)
  PROVE  Alike(t, u)
<1>1. /\ IdsIn(u) = IdsIn(t) /\ KeysIn(u) = KeysIn(t) /\ PairsIn(u) = PairsIn(t)
  <2>1. /\ IdsIn(u.left) = IdsIn(t.left) /\ IdsIn(u.right) = IdsIn(t.right)
        /\ KeysIn(u.left) = KeysIn(t.left) /\ KeysIn(u.right) = KeysIn(t.right)
        /\ PairsIn(u.left) = PairsIn(t.left) /\ PairsIn(u.right) = PairsIn(t.right)
    BY DEF Alike
  <2>2. QED BY <2>1, NodeHolds
<1>2. Ordered(t) => Ordered(u)
  BY NodeOrdered DEF Alike
<1>3. Apart(t) => Apart(u)
  BY NodeApart DEF Alike
<1>4. QED BY <1>1, <1>2, <1>3 DEF Alike

\* A flip changes colors, and nothing the tree holds.
LEMMA FlipAlike ==
  ASSUME NEW t \in Node, t.left \in Node, t.right \in Node
  PROVE  Alike(t, FlipColors(t))
<1> DEFINE u == FlipColors(t)
<1>1. /\ u \in Node /\ u.id = t.id /\ u.key = t.key /\ u.val = t.val
      /\ u.left \in Node
      /\ u.left.id = t.left.id /\ u.left.key = t.left.key /\ u.left.val = t.left.val
      /\ u.left.left = t.left.left /\ u.left.right = t.left.right
      /\ u.right \in Node
      /\ u.right.id = t.right.id /\ u.right.key = t.right.key /\ u.right.val = t.right.val
      /\ u.right.left = t.right.left /\ u.right.right = t.right.right
  BY Flipped
<1> HIDE DEF u
<1>2. Alike(t.left, u.left)
  BY <1>1, NodesAlike, AlikeItself
<1>3. Alike(t.right, u.right)
  BY <1>1, NodesAlike, AlikeItself
<1>4. Alike(t, u)
  BY <1>1, <1>2, <1>3, NodesAlike
<1>5. QED BY <1>4 DEF u

-----------------------------------------------------------------------------
(* rbt_balance and the shape of the tree.                                  *)

\* rbt_balance rotates and flips, and what the tree holds stays.
LEMMA BalanceAlike ==
  ASSUME NEW t \in Node
  PROVE  Balance(t) \in Node /\ Alike(t, Balance(t))
<1> DEFINE a == IF IsRed(t.right) THEN RotateLeft(t) ELSE t
           b == IF IsRed(a.left) /\ IsRed(a.left.left) THEN RotateRight(a) ELSE a
           c == IF IsRed(b.left) /\ IsRed(b.right) THEN FlipColors(b) ELSE b
<1>1. a \in Node /\ Alike(t, a)
  <2>1. CASE IsRed(t.right)
    <3>1. t.right \in Node
      BY <2>1, NodeFields, Colors
    <3>2. QED BY <2>1, <3>1, RotatedLeft, RotateLeftAlike
  <2>2. CASE ~IsRed(t.right)
    BY <2>2, AlikeItself
  <2>3. QED BY <2>1, <2>2
<1> HIDE DEF a
<1>2. b \in Node /\ Alike(a, b)
  <2>1. CASE IsRed(a.left) /\ IsRed(a.left.left)
    <3>1. a.left \in Node
      BY <1>1, <2>1, NodeFields, Colors
    <3>2. QED BY <1>1, <2>1, <3>1, RotatedRight, RotateRightAlike
  <2>2. CASE ~(IsRed(a.left) /\ IsRed(a.left.left))
    BY <1>1, <2>2, AlikeItself
  <2>3. QED BY <2>1, <2>2
<1> HIDE DEF b
<1>3. c \in Node /\ Alike(b, c)
  <2>1. CASE IsRed(b.left) /\ IsRed(b.right)
    <3>1. b.left \in Node /\ b.right \in Node
      BY <1>2, <2>1, NodeFields, Colors
    <3>2. QED BY <1>2, <2>1, <3>1, Flipped, FlipAlike
  <2>2. CASE ~(IsRed(b.left) /\ IsRed(b.right))
    BY <1>2, <2>2, AlikeItself
  <2>3. QED BY <2>1, <2>2
<1>4. Balance(t) = c
  BY DEF Balance, a, b
<1>5. QED BY <1>1, <1>2, <1>3, <1>4, AlikeInTurn

\* A red node without a red left child under it.
Strict(t) == IsRed(t) => ~IsRed(t.left)

\* The black height a node gives to subtrees of height h.
Raised(t, h) == h + IF IsRed(t) THEN 0 ELSE 1

\* rbt_balance repairs a node over two well-shaped subtrees, if the right one
\* has no two red links in a row: what it makes is well-shaped.  It keeps
\* the height unless it splits a red node; under a black node it leaves no red
\* root with a red left child, and no red root where there was nothing to split.
LEMMA BalanceShaped ==
  ASSUME NEW t \in Node, Shaped(t.left), Shaped(t.right),
         HeightOf[t.left] = HeightOf[t.right], Strict(t.right),
         NEW u, u = Balance(t)
  PROVE  /\ Shaped(u)
         /\ ~IsRed(t) \/ ~IsRed(t.left) \/ (~IsRed(t.right) /\ Strict(t.left))
              => HeightOf[u] = Raised(t, HeightOf[t.left])
         /\ ~IsRed(t) \/ (~IsRed(t.left) /\ ~IsRed(t.right)) => Strict(u)
         /\ ~IsRed(t) /\ Strict(t.left) /\ ~(IsRed(t.left) /\ IsRed(t.right))
              => ~IsRed(u)
<1> DEFINE l == t.left
           r == t.right
           h == HeightOf[l]
<1>0. /\ h \in Nat /\ HeightOf[r] = h /\ l \in Forest /\ r \in Forest
      /\ HeightOf[t] = Raised(t, h)
  BY NodeHeight, NodeFields DEF Raised
<1>1. CASE ~IsRed(r) /\ Strict(l)
  <2>1. u = t
    BY <1>1 DEF Balance, Strict
  <2>2. Shaped(t)
    BY <1>1, NodeShaped DEF Strict
  <2>3. QED BY <1>0, <1>1, <2>1, <2>2 DEF Strict
<1>2. CASE ~IsRed(r) /\ ~Strict(l)
  <2>1. IsRed(l) /\ IsRed(l.left) /\ l \in Node /\ l.left \in Node
    BY <1>0, <1>2, Colors, NodeFields DEF Strict
  <2> DEFINE b == RotateRight(t)
             d == b.right
  <2>2. /\ b \in Node /\ b.color = t.color /\ b.left = l.left
        /\ d \in Node /\ d.color = RED /\ d.left = l.right /\ d.right = r
    BY <2>1, RotatedRight
  <2>3. u = FlipColors(b)
    <3>1. IsRed(b.left) /\ IsRed(b.right)
      BY <2>1, <2>2, Colors
    <3>2. QED BY <1>2, <2>1, <3>1 DEF Balance
  <2> HIDE DEF b
  <2>4. /\ u \in Node /\ u.color = Other(t.color)
        /\ u.left \in Node /\ u.left.color = BLACK
        /\ u.left.left = l.left.left /\ u.left.right = l.left.right
        /\ u.right \in Node /\ u.right.color = BLACK
        /\ u.right.left = l.right /\ u.right.right = r
    <3>1. l.left.color = RED
      BY <2>1, Colors
    <3>2. QED BY <2>1, <2>2, <2>3, <3>1, Flipped, Colors
  <2>5. /\ HeightOf[l.left] = h /\ HeightOf[l.right] = h /\ ~IsRed(l.right)
        /\ Shaped(l.left) /\ Shaped(l.right)
    BY <2>1, NodeShaped, NodeHeight
  <2>6. HeightOf[l.left.left] = h
    BY <2>1, <2>5, NodeHeight
  <2>7. Shaped(u.left) /\ HeightOf[u.left] = h + 1
    <3>1. HeightOf[u.left] = h + 1
      BY <2>4, <2>6, NodeHeight, Colors
    <3>2. QED BY <2>1, <2>4, <2>5, <3>1, NodeShaped
  <2>8. Shaped(u.right) /\ HeightOf[u.right] = h + 1
    <3>1. HeightOf[u.right] = h + 1
      BY <2>4, <2>5, NodeHeight, Colors
    <3>2. QED BY <1>0, <1>2, <2>4, <2>5, <3>1, NodeShaped
  <2>9. ~IsRed(u.left) /\ ~IsRed(u.right)
    BY <2>4, Colors
  <2>10. Shaped(u) /\ Strict(u)
    BY <2>4, <2>7, <2>8, <2>9, NodeShaped DEF Strict
  <2>11. ~IsRed(t) => HeightOf[u] = h + 1
    BY <1>0, <2>4, <2>7, NodeHeight, Colors
  <2>12. QED BY <1>2, <2>1, <2>10, <2>11 DEF Strict, Raised
<1>3. CASE IsRed(r)
  <2> DEFINE a == RotateLeft(t)
             d == a.left
  <2>1. r \in Node /\ ~IsRed(r.left) /\ ~IsRed(r.right)
    BY <1>0, <1>3, Colors, NodeShaped DEF Strict
  <2>2. /\ a \in Node /\ a.color = t.color /\ a.right = r.right
        /\ d \in Node /\ d.color = RED /\ d.left = l /\ d.right = r.left
    BY <2>1, RotatedLeft
  <2>3. /\ HeightOf[r.left] = h /\ HeightOf[r.right] = h
        /\ Shaped(r.left) /\ Shaped(r.right)
    BY <1>0, <1>3, <2>1, NodeShaped, NodeHeight
  <2>4. CASE ~IsRed(l)
    <3>1. u = a
      BY <1>3, <2>1, <2>2, <2>4 DEF Balance
    <3> HIDE DEF a
    <3>2. Shaped(d)
      BY <1>0, <2>1, <2>2, <2>3, <2>4, NodeShaped, Colors
    <3>3. HeightOf[d] = h /\ IsRed(d)
      BY <1>0, <2>2, NodeHeight, Colors
    <3>4. Shaped(a)
      BY <2>1, <2>2, <2>3, <2>4, <3>2, <3>3, NodeShaped
    <3>5. (IsRed(a) <=> IsRed(t)) /\ HeightOf[a] = Raised(t, h)
      BY <2>2, <3>3, NodeHeight, Colors DEF Raised
    <3>6. QED BY <1>3, <2>4, <3>1, <3>4, <3>5 DEF Strict
  <2>5. CASE IsRed(l)
    <3> DEFINE b == RotateRight(a)
               e == b.right
    <3>0. l \in Node
      BY <1>0, <2>5, Colors
    <3>1. /\ b \in Node /\ b.color = t.color /\ b.left = l
          /\ e \in Node /\ e.color = RED /\ e.left = r.left /\ e.right = r.right
      <4> HIDE DEF a
      <4>1. QED BY <2>2, RotatedRight
    <3>2. u = FlipColors(b)
      <4>1. IsRed(a.left) /\ IsRed(a.left.left)
        BY <2>2, <2>5, Colors
      <4>2. IsRed(b.left) /\ IsRed(b.right)
        BY <2>5, <3>1, Colors
      <4>3. QED BY <1>3, <4>1, <4>2 DEF Balance
    <3> HIDE DEF a, b
    <3>3. /\ u \in Node /\ u.color = Other(t.color)
          /\ u.left \in Node /\ u.left.color = BLACK
          /\ u.left.left = l.left /\ u.left.right = l.right
          /\ u.right \in Node /\ u.right.color = BLACK
          /\ u.right.left = r.left /\ u.right.right = r.right
      <4>1. l.color = RED
        BY <2>5, <3>0, Colors
      <4>2. QED BY <3>0, <3>1, <3>2, <4>1, Flipped, Colors
    <3>4. Shaped(u.left) /\ HeightOf[u.left] = h + 1
      <4>1. HeightOf[l.left] = h
        BY <2>5, <3>0, NodeHeight
      <4>2. HeightOf[u.left] = h + 1
        BY <3>3, <4>1, NodeHeight, Colors
      <4>3. QED BY <3>0, <3>3, <4>2, NodeShaped
    <3>5. Shaped(u.right) /\ HeightOf[u.right] = h + 1
      <4>1. HeightOf[u.right] = h + 1
        BY <2>3, <3>3, NodeHeight, Colors
      <4>2. QED BY <2>1, <2>3, <3>3, <4>1, NodeShaped
    <3>6. ~IsRed(u.left) /\ ~IsRed(u.right)
      BY <3>3, Colors
    <3>7. Shaped(u) /\ Strict(u)
      BY <3>3, <3>4, <3>5, <3>6, NodeShaped DEF Strict
    <3>8. ~IsRed(t) => HeightOf[u] = h + 1
      BY <1>0, <3>3, <3>4, NodeHeight, Colors
    <3>9. QED BY <1>3, <2>5, <3>7, <3>8 DEF Raised
  <2>6. QED BY <2>4, <2>5
<1>4. QED BY <1>1, <1>2, <1>3

-----------------------------------------------------------------------------
(* rbt_insert.                                                             *)

\* A node of a tree of at most N levels is a node, and its subtrees have at
\* most N levels.
LEMMA TreeFields ==
  /\ Null \in Tree
  /\ \A t \in Tree : t \in Forest /\ (t = Null \/ t \in Node)
  /\ \A t \in Tree \ {Null} : t \in Node /\ t.left \in Tree /\ t.right \in Tree
<1>1. Null \in Tree /\ Tree \subseteq {Null} \cup Branch(Tree)
  BY TreeInductive DEF Inductive
<1>2. \A t \in Tree : t \in Forest /\ (t = Null \/ t \in Node)
  BY TreeInForest, TreeOrNull
<1>3. \A t \in Tree \ {Null} : t.left \in Tree /\ t.right \in Tree
  BY <1>1, BranchFields
<1>4. QED BY <1>1, <1>2, <1>3

\* rbt_insert_rec, one call.
LEMMA InsertRecDef ==
  ASSUME NEW new \in Node
  PROVE  /\ InsertRec(Null, new) = new
         /\ \A t \in Tree \ {Null} :
              InsertRec(t, new)
                = Balance(IF new.key < t.key
                          THEN [t EXCEPT !.left  = InsertRec(t.left, new)]
                          ELSE [t EXCEPT !.right = InsertRec(t.right, new)])
         /\ \A t \in Tree : InsertRec(t, new) \in Forest
<1> DEFINE On(t, u, v) == Balance(IF new.key < t.key THEN [t EXCEPT !.left  = u]
                                                     ELSE [t EXCEPT !.right = v])
           step == [p \in Tree \X Forest \X Forest |-> On(p[1], p[2], p[3])]
           Is(f) == f = [t \in Tree |-> IF t = Null THEN new
                                        ELSE On(t, f[t.left], f[t.right])]
<1>1. ASSUME NEW t \in Tree \ {Null}, NEW u \in Forest, NEW v \in Forest
      PROVE  On(t, u, v) \in Forest
  <2>1. t \in Node
    BY TreeFields
  <2>2. [t EXCEPT !.left = u] \in Node /\ [t EXCEPT !.right = v] \in Node
    BY <2>1, WithLeft, WithRight
  <2>3. QED BY <2>2, BalanceAlike, NodeFields
<1> HIDE DEF On
<1>2. ASSUME NEW t \in Tree, NEW u \in Forest, NEW v \in Forest
      PROVE  step[<<t, u, v>>] = On(t, u, v)
  OBVIOUS
<1> HIDE DEF step
<1>3. PICK f \in [Tree -> Forest] : IsFold(f, Tree, new, step)
  <2>1. \A t \in Tree \ {Null} : \A u, v \in Forest : step[<<t, u, v>>] \in Forest
    BY <1>1, <1>2
  <2>2. new \in Forest
    BY NodeFields
  <2>3. QED BY <2>1, <2>2, TreeInductive, FoldExists
<1>4. Is(f)
  <2>1. ASSUME NEW t \in Tree \ {Null}
        PROVE  step[<<t, f[t.left], f[t.right]>>] = On(t, f[t.left], f[t.right])
    BY <1>2, TreeFields
  <2>2. QED BY <1>3, <2>1 DEF IsFold
<1> DEFINE g == CHOOSE g : Is(g)
<1>5. Is(g)
  <2> HIDE DEF Is
  <2>1. QED BY <1>4
<1>6. \A t : InsertRec(t, new) = g[t]
  BY DEF InsertRec, On
<1> HIDE DEF g
<1>7. g[Null] = new
  BY <1>5, TreeFields
<1>8. \A t \in Tree \ {Null} : g[t] = On(t, g[t.left], g[t.right])
  BY <1>5
<1>9. \A t \in Tree : g[t] \in Forest
  <2> DEFINE P == {t \in Tree : g[t] \in Forest}
  <2>1. Null \in P
    BY <1>7, TreeFields, NodeFields
  <2>2. ASSUME NEW t \in Tree \ {Null}, t.left \in P, t.right \in P PROVE t \in P
    BY <1>1, <1>8, <2>2
  <2>3. P = Tree
    <3>1. P \in SUBSET Tree
      OBVIOUS
    <3> HIDE DEF P
    <3>2. QED BY <2>1, <2>2, <3>1, TreeInductive DEF Inductive
  <2>4. QED BY <2>3
<1>10. QED BY <1>6, <1>7, <1>8, <1>9 DEF On

\* u is t with the node new in it, and as well shaped as it was.
Extended(t, new, u) ==
  /\ u \in Node
  /\ IdsIn(u) = IdsIn(t) \cup {new.id} /\ KeysIn(u) = KeysIn(t) \cup {new.key}
  /\ PairsIn(u) = PairsIn(t) \cup {<<new.key, new.val>>}
  /\ Ordered(u)
  /\ Apart(t) /\ new.id \notin IdsIn(t) => Apart(u)
  /\ Shaped(u)
  /\ Strict(t) => HeightOf[u] = HeightOf[t] /\ (~IsRed(t) => Strict(u))

\* A tree with a new node as another tree's left subtree.
LEMMA ExtendedLeft ==
  ASSUME NEW t \in Node, Ordered(t), Shaped(t), NEW new \in Node, new.key < t.key,
         NEW s, Extended(t.left, new, s),
         NEW u, u = Balance([t EXCEPT !.left = s])
  PROVE  Extended(t, new, u)
<1> DEFINE w == [t EXCEPT !.left = s]
<1>1. /\ w \in Node /\ w.left = s /\ w.right = t.right /\ w.color = t.color
      /\ w.id = t.id /\ w.key = t.key /\ w.val = t.val
  BY WithLeft, NodeFields DEF Extended
<1>2. u = Balance(w)
  OBVIOUS
<1> HIDE DEF w
<1>3. u \in Node /\ Alike(w, u)
  BY <1>1, <1>2, BalanceAlike
<1>4. /\ IdsIn(w) = IdsIn(t) \cup {new.id} /\ KeysIn(w) = KeysIn(t) \cup {new.key}
      /\ PairsIn(w) = PairsIn(t) \cup {<<new.key, new.val>>}
  BY <1>1, NodeHolds DEF Extended
<1>5. Ordered(w)
  BY <1>1, NodeOrdered DEF Extended
<1>6. ASSUME Apart(t), new.id \notin IdsIn(t) PROVE Apart(w)
  BY <1>1, <1>6, NodeApart, NodeHolds DEF Extended
<1>7. /\ Shaped(t.left) /\ Shaped(t.right) /\ HeightOf[t.left] = HeightOf[t.right]
      /\ ~IsRed(t.right) /\ Strict(t.left)
  BY NodeShaped DEF Strict
<1>8. Shaped(s) /\ HeightOf[s] = HeightOf[t.left] /\ (~IsRed(t.left) => Strict(s))
  BY <1>7 DEF Extended
<1>9. /\ Shaped(u)
      /\ ~IsRed(t) \/ Strict(s) => HeightOf[u] = Raised(w, HeightOf[s])
      /\ ~IsRed(t) => Strict(u)
  <2>1. Shaped(w.left) /\ Shaped(w.right) /\ HeightOf[w.left] = HeightOf[w.right]
        /\ Strict(w.right) /\ ~IsRed(w.right) /\ (IsRed(w) <=> IsRed(t))
    BY <1>1, <1>7, <1>8, Colors DEF Strict
  <2>2. QED BY <1>1, <1>2, <2>1, BalanceShaped
<1>10. Raised(w, HeightOf[s]) = HeightOf[t]
  BY <1>1, <1>8, NodeHeight, Colors DEF Raised
<1>11. Strict(t) /\ IsRed(t) => Strict(s)
  BY <1>8 DEF Strict
<1>12. QED BY <1>3, <1>4, <1>5, <1>6, <1>9, <1>10, <1>11 DEF Extended, Alike

\* And as another tree's right subtree.
LEMMA ExtendedRight ==
  ASSUME NEW t \in Node, Ordered(t), Shaped(t), NEW new \in Node, new.key > t.key,
         NEW s, Extended(t.right, new, s),
         NEW u, u = Balance([t EXCEPT !.right = s])
  PROVE  Extended(t, new, u)
<1> DEFINE w == [t EXCEPT !.right = s]
<1>1. /\ w \in Node /\ w.right = s /\ w.left = t.left /\ w.color = t.color
      /\ w.id = t.id /\ w.key = t.key /\ w.val = t.val
  BY WithRight, NodeFields DEF Extended
<1>2. u = Balance(w)
  OBVIOUS
<1> HIDE DEF w
<1>3. u \in Node /\ Alike(w, u)
  BY <1>1, <1>2, BalanceAlike
<1>4. /\ IdsIn(w) = IdsIn(t) \cup {new.id} /\ KeysIn(w) = KeysIn(t) \cup {new.key}
      /\ PairsIn(w) = PairsIn(t) \cup {<<new.key, new.val>>}
  BY <1>1, NodeHolds DEF Extended
<1>5. Ordered(w)
  BY <1>1, NodeOrdered DEF Extended
<1>6. ASSUME Apart(t), new.id \notin IdsIn(t) PROVE Apart(w)
  BY <1>1, <1>6, NodeApart, NodeHolds DEF Extended
<1>7. /\ Shaped(t.left) /\ Shaped(t.right) /\ HeightOf[t.left] = HeightOf[t.right]
      /\ ~IsRed(t.right) /\ Strict(t.left) /\ Strict(t.right)
  BY NodeShaped DEF Strict
<1>8. Shaped(s) /\ HeightOf[s] = HeightOf[t.left] /\ Strict(s)
  BY <1>7 DEF Extended
<1>9. /\ Shaped(u)
      /\ ~IsRed(t) \/ ~IsRed(t.left) => HeightOf[u] = Raised(w, HeightOf[s])
      /\ ~IsRed(t) => Strict(u)
  <2>1. Shaped(w.left) /\ Shaped(w.right) /\ HeightOf[w.left] = HeightOf[w.right]
        /\ Strict(w.right) /\ (IsRed(w) <=> IsRed(t))
    BY <1>1, <1>7, <1>8, Colors
  <2>2. /\ Shaped(u) /\ (~IsRed(w) => Strict(u))
        /\ ~IsRed(w) \/ ~IsRed(w.left) => HeightOf[u] = Raised(w, HeightOf[w.left])
    BY <1>1, <1>2, <2>1, BalanceShaped
  <2>3. QED BY <1>1, <1>8, <2>1, <2>2
<1>10. Raised(w, HeightOf[s]) = HeightOf[t]
  BY <1>1, <1>8, NodeHeight, Colors DEF Raised
<1>11. Strict(t) /\ IsRed(t) => ~IsRed(t.left)
  BY DEF Strict
<1>12. QED BY <1>3, <1>4, <1>5, <1>6, <1>9, <1>10, <1>11 DEF Extended, Alike

\* rbt_insert puts the new node into a tree without its key and changes
\* nothing else the tree holds; the tree stays ordered and well shaped.
LEMMA InsertRecEffect ==
  ASSUME NEW new \in Node, new.left = Null, new.right = Null, new.color = RED,
         NEW t \in Tree, Ordered(t), Shaped(t), new.key \notin KeysIn(t)
  PROVE  Extended(t, new, InsertRec(t, new))
<1> DEFINE P == {x \in Tree : Ordered(x) /\ Shaped(x) /\ new.key \notin KeysIn(x)
                                => Extended(x, new, InsertRec(x, new))}
<1>1. Null \in P
  <2>1. InsertRec(Null, new) = new /\ IsRed(new) /\ ~IsRed(Null)
    BY InsertRecDef, Colors
  <2>2. /\ IdsIn(new) = {new.id} /\ KeysIn(new) = {new.key}
        /\ PairsIn(new) = {<<new.key, new.val>>}
    BY NodeHolds, NullHolds
  <2>3. Ordered(new) /\ Apart(new)
    BY NodeOrdered, NodeApart, NullHolds
  <2>4. Shaped(new) /\ HeightOf[new] = 0 /\ HeightOf[Null] = 0 /\ Strict(new)
    BY <2>1, NodeShaped, NodeHeight, NullHolds, HeightOfDef DEF Strict
  <2>5. Extended(Null, new, new)
    BY <2>2, <2>3, <2>4, NullHolds DEF Extended
  <2>6. QED BY <2>1, <2>5, TreeFields
<1>2. ASSUME NEW x \in Tree \ {Null}, x.left \in P, x.right \in P PROVE x \in P
  <2> SUFFICES ASSUME Ordered(x), Shaped(x), new.key \notin KeysIn(x)
               PROVE  Extended(x, new, InsertRec(x, new))
    OBVIOUS
  <2>1. x \in Node /\ new.key \in Int /\ x.key \in Int
    BY TreeFields, NodeFields
  <2>2. /\ new.key # x.key /\ new.key \notin KeysIn(x.left) /\ new.key \notin KeysIn(x.right)
        /\ Ordered(x.left) /\ Ordered(x.right) /\ Shaped(x.left) /\ Shaped(x.right)
    BY <2>1, NodeHolds, NodeOrdered, NodeShaped
  <2>3. /\ Extended(x.left, new, InsertRec(x.left, new))
        /\ Extended(x.right, new, InsertRec(x.right, new))
    BY <1>2, <2>2
  <2>4. CASE new.key < x.key
    <3>1. InsertRec(x, new) = Balance([x EXCEPT !.left = InsertRec(x.left, new)])
      BY <2>4, InsertRecDef
    <3>2. QED BY <2>1, <2>3, <2>4, <3>1, ExtendedLeft
  <2>5. CASE new.key > x.key
    <3>1. ~(new.key < x.key)
      BY <2>1, <2>5
    <3>2. InsertRec(x, new) = Balance([x EXCEPT !.right = InsertRec(x.right, new)])
      BY <3>1, InsertRecDef
    <3>3. QED BY <2>1, <2>3, <2>5, <3>2, ExtendedRight
  <2>6. QED BY <2>1, <2>2, <2>4, <2>5
<1>3. P = Tree
  <2>1. P \in SUBSET Tree
    OBVIOUS
  <2> HIDE DEF P
  <2>2. QED BY <1>1, <1>2, <2>1, TreeInductive DEF Inductive
<1>4. QED BY <1>3

-----------------------------------------------------------------------------
(* rbt_find, and what arbt_modify writes.                                  *)

\* rbt_find, one turn of its loop.
LEMMA FindDef ==
  ASSUME NEW key
  PROVE  /\ Find(Null, key) = Null
         /\ \A t \in Tree \ {Null} :
              Find(t, key) = IF t.key = key THEN t
                             ELSE IF key < t.key THEN Find(t.left, key)
                                                 ELSE Find(t.right, key)
<1> DEFINE On(t, u, v) == IF t.key = key THEN t ELSE IF key < t.key THEN u ELSE v
           step == [p \in Tree \X Forest \X Forest |-> On(p[1], p[2], p[3])]
           Is(f) == f = [t \in Tree |-> IF t = Null \/ t.key = key THEN t
                                        ELSE f[IF key < t.key THEN t.left ELSE t.right]]
<1>1. ASSUME NEW t \in Tree, NEW u \in Forest, NEW v \in Forest
      PROVE  step[<<t, u, v>>] = On(t, u, v) /\ On(t, u, v) \in Forest
  BY TreeFields
<1> HIDE DEF step
<1>2. PICK f \in [Tree -> Forest] : IsFold(f, Tree, Null, step)
  <2>1. \A t \in Tree \ {Null} : \A u, v \in Forest : step[<<t, u, v>>] \in Forest
    <3> HIDE DEF On
    <3>1. QED BY <1>1
  <2>2. Null \in Forest
    BY TreeOrNull
  <2>3. QED BY <2>1, <2>2, TreeInductive, FoldExists
<1>3. Is(f)
  <2>1. ASSUME NEW t \in Tree \ {Null}
        PROVE  step[<<t, f[t.left], f[t.right]>>] = On(t, f[t.left], f[t.right])
    <3> HIDE DEF On
    <3>1. QED BY <1>1, TreeFields
  <2>2. ASSUME NEW t \in Tree
        PROVE  f[t] = IF t = Null \/ t.key = key THEN t
                      ELSE f[IF key < t.key THEN t.left ELSE t.right]
    BY <1>2, <2>1 DEF IsFold
  <2>3. QED BY <1>2, <2>2
<1> DEFINE g == CHOOSE g : Is(g)
<1>4. Is(g)
  <2> HIDE DEF Is
  <2>1. QED BY <1>3
<1>5. \A t : Find(t, key) = g[t]
  BY DEF Find
<1> HIDE DEF g
<1>6. g[Null] = Null
  BY <1>4, TreeFields
<1>7. ASSUME NEW t \in Tree \ {Null}
      PROVE  g[t] = IF t.key = key THEN t ELSE IF key < t.key THEN g[t.left] ELSE g[t.right]
  BY <1>4
<1>8. QED BY <1>5, <1>6, <1>7

\* A search from the root finds the node with the key, if there is one.
LEMMA FindEffect ==
  ASSUME NEW key \in Key, NEW t \in Tree, Ordered(t)
  PROVE  /\ key \in KeysIn(t) => Find(t, key) \in NodesIn[t] /\ Find(t, key).key = key
         /\ key \notin KeysIn(t) => Find(t, key) = Null
<1> DEFINE Claim(x) ==
             /\ key \in KeysIn(x) => Find(x, key) \in NodesIn[x] /\ Find(x, key).key = key
             /\ key \notin KeysIn(x) => Find(x, key) = Null
           P == {x \in Tree : Ordered(x) => Claim(x)}
<1>1. Null \in P
  BY FindDef, NullHolds, TreeFields
<1>2. ASSUME NEW x \in Tree \ {Null}, x.left \in P, x.right \in P PROVE x \in P
  <2> SUFFICES ASSUME Ordered(x) PROVE Claim(x)
    OBVIOUS
  <2>1. x \in Node /\ x.key \in Int /\ key \in Int
    BY TreeFields, NodeFields, KeyAssumption
  <2>2. Claim(x.left) /\ Claim(x.right)
    BY <1>2, <2>1, NodeOrdered
  <2>3. /\ NodesIn[x] = {x} \cup NodesIn[x.left] \cup NodesIn[x.right]
        /\ KeysIn(x) = {x.key} \cup KeysIn(x.left) \cup KeysIn(x.right)
        /\ \A k \in KeysIn(x.left) : k < x.key
        /\ \A k \in KeysIn(x.right) : k > x.key
    BY <2>1, NodesInDef, NodeHolds, NodeOrdered
  <2>4. CASE key = x.key
    BY <2>3, <2>4, FindDef
  <2>5. CASE key < x.key
    <3>1. Find(x, key) = Find(x.left, key)
      BY <2>1, <2>5, FindDef
    <3>2. key \in KeysIn(x) <=> key \in KeysIn(x.left)
      BY <2>1, <2>3, <2>5
    <3>3. QED BY <2>2, <2>3, <3>1, <3>2
  <2>6. CASE key > x.key
    <3>1. ~(key = x.key) /\ ~(key < x.key)
      BY <2>1, <2>6
    <3>2. Find(x, key) = Find(x.right, key)
      BY <3>1, FindDef
    <3>3. key \in KeysIn(x) <=> key \in KeysIn(x.right)
      BY <2>1, <2>3, <2>6
    <3>4. QED BY <2>2, <2>3, <3>2, <3>3
  <2>7. QED BY <2>1, <2>4, <2>5, <2>6
<1>3. P = Tree
  <2>1. P \in SUBSET Tree
    OBVIOUS
  <2> HIDE DEF P
  <2>2. QED BY <1>1, <1>2, <2>1, TreeInductive DEF Inductive
<1>4. QED BY <1>3

\* Writing to the node a search found, one turn.
LEMMA WriteDef ==
  ASSUME NEW key \in Key, NEW val \in Val
  PROVE  \A t \in Tree \ {Null} :
           /\ key = t.key => Write(t, key, val) = [t EXCEPT !.val = val]
           /\ key < t.key
                => Write(t, key, val) = [t EXCEPT !.left = Write(t.left, key, val)]
           /\ key > t.key
                => Write(t, key, val) = [t EXCEPT !.right = Write(t.right, key, val)]
<1> DEFINE On(t, u, v) == IF t.key = key THEN [t EXCEPT !.val = val]
                          ELSE IF key < t.key THEN [t EXCEPT !.left = u]
                                              ELSE [t EXCEPT !.right = v]
           step == [p \in Tree \X Forest \X Forest |-> On(p[1], p[2], p[3])]
           Is(f) == f = [t \in Tree |->
                 IF t = Null THEN t ELSE On(t, f[t.left], f[t.right])]
<1>0. ASSUME NEW t \in Tree \ {Null}, NEW u, NEW v
      PROVE  /\ t \in Node /\ t.key \in Int /\ key \in Int
             /\ key = t.key => On(t, u, v) = [t EXCEPT !.val = val]
             /\ key < t.key => On(t, u, v) = [t EXCEPT !.left = u]
             /\ key > t.key => On(t, u, v) = [t EXCEPT !.right = v]
  <2>1. t \in Node /\ t.key \in Int /\ key \in Int
    BY TreeFields, NodeFields, KeyAssumption
  <2>2. QED BY <2>1
<1>1. ASSUME NEW t \in Tree \ {Null}, NEW u \in Forest, NEW v \in Forest
      PROVE  On(t, u, v) \in Forest
  <2> HIDE DEF On
  <2>1. t \in Node /\ t.key \in Int /\ key \in Int
    BY <1>0
  <2>2. [t EXCEPT !.left = u] \in Node /\ [t EXCEPT !.right = v] \in Node
    BY <2>1, WithLeft, WithRight
  <2>3. [t EXCEPT !.val = val] \in Node
    BY <2>1 DEF Node, Branch
  <2>4. QED BY <1>0, <2>1, <2>2, <2>3, NodeFields
<1>2. ASSUME NEW t \in Tree, NEW u \in Forest, NEW v \in Forest
      PROVE  step[<<t, u, v>>] = On(t, u, v)
  OBVIOUS
<1> HIDE DEF step
<1>3. PICK f \in [Tree -> Forest] : IsFold(f, Tree, Null, step)
  <2> HIDE DEF On
  <2>1. \A t \in Tree \ {Null} : \A u, v \in Forest : step[<<t, u, v>>] \in Forest
    BY <1>1, <1>2
  <2>2. Null \in Forest
    BY TreeOrNull
  <2>3. QED BY <2>1, <2>2, TreeInductive, FoldExists
<1>4. Is(f)
  <2> HIDE DEF On
  <2>1. ASSUME NEW t \in Tree \ {Null}
        PROVE  step[<<t, f[t.left], f[t.right]>>] = On(t, f[t.left], f[t.right])
    BY <1>2, TreeFields
  <2>2. ASSUME NEW t \in Tree
        PROVE  f[t] = IF t = Null THEN t ELSE On(t, f[t.left], f[t.right])
    BY <1>3, <2>1 DEF IsFold
  <2>3. QED BY <1>3, <2>2
<1> DEFINE g == CHOOSE g : Is(g)
<1>5. Is(g)
  <2> HIDE DEF Is
  <2>1. QED BY <1>4
<1>6. \A t : Write(t, key, val) = g[t]
  BY DEF Write
<1> HIDE DEF g
<1>7. ASSUME NEW t \in Tree \ {Null} PROVE g[t] = On(t, g[t.left], g[t.right])
  <2> HIDE DEF On
  <2>1. QED BY <1>5
<1> HIDE DEF On
<1>8. QED BY <1>0, <1>6, <1>7

\* u is t with another value at the key.
Rewritten(t, key, val, u) ==
  /\ u \in Node /\ (IsRed(u) <=> IsRed(t)) /\ (IsRed(u.left) <=> IsRed(t.left))
  /\ HeightOf[u] = HeightOf[t]
  /\ IdsIn(u) = IdsIn(t) /\ KeysIn(u) = KeysIn(t)
  /\ PairsIn(u) = {p \in PairsIn(t) : p[1] # key} \cup {<<key, val>>}
  /\ Ordered(u) /\ Shaped(u)
  /\ Apart(t) => Apart(u)

\* arbt_modify changes the value at its key and nothing else.
LEMMA WriteEffect ==
  ASSUME NEW key \in Key, NEW val \in Val,
         NEW t \in Tree, Ordered(t), Shaped(t), key \in KeysIn(t)
  PROVE  Rewritten(t, key, val, Write(t, key, val))
<1> DEFINE P == {x \in Tree : Ordered(x) /\ Shaped(x) /\ key \in KeysIn(x)
                                => Rewritten(x, key, val, Write(x, key, val))}
<1>1. Null \in P
  BY NullHolds, TreeFields
<1>2. ASSUME NEW x \in Tree \ {Null}, x.left \in P, x.right \in P PROVE x \in P
  <2> SUFFICES ASSUME Ordered(x), Shaped(x), key \in KeysIn(x)
               PROVE  Rewritten(x, key, val, Write(x, key, val))
    OBVIOUS
  <2> DEFINE u == Write(x, key, val)
  <2>1. /\ x \in Node /\ x.key \in Int /\ key \in Int /\ x.key \in Key
        /\ x.left \in Forest /\ x.right \in Forest /\ x.id \in Nat
        /\ x.color \in {RED, BLACK}
    BY TreeFields, NodeFields, KeyAssumption
  <2>2. /\ Ordered(x.left) /\ Shaped(x.left) /\ Ordered(x.right) /\ Shaped(x.right)
        /\ \A k \in KeysIn(x.left) : k < x.key
        /\ \A k \in KeysIn(x.right) : k > x.key
    BY <2>1, NodeOrdered, NodeShaped
  <2>3. /\ HeightOf[x.left] = HeightOf[x.right] /\ ~IsRed(x.right)
        /\ IsRed(x.left) => ~IsRed(x.left.left)
        /\ HeightOf[x] = Raised(x, HeightOf[x.left])
    BY <2>1, NodeShaped, NodeHeight DEF Raised
  <2>4. /\ KeysIn(x) = {x.key} \cup KeysIn(x.left) \cup KeysIn(x.right)
        /\ PairsIn(x) = {<<x.key, x.val>>} \cup PairsIn(x.left) \cup PairsIn(x.right)
        /\ IdsIn(x) = {x.id} \cup IdsIn(x.left) \cup IdsIn(x.right)
    BY <2>1, NodeHolds
  <2>5. /\ \A p \in PairsIn(x.left) : p[1] \in KeysIn(x.left)
        /\ \A p \in PairsIn(x.right) : p[1] \in KeysIn(x.right)
    BY <2>1, HoldsTyped
  <2>6. /\ \A p \in PairsIn(x.left) : p[1] < x.key
        /\ \A p \in PairsIn(x.right) : p[1] > x.key
    BY <2>2, <2>5
  <2>7. KeysIn(x.left) \subseteq Int /\ KeysIn(x.right) \subseteq Int
    BY <2>1, KeysAreInts
  <2>8. /\ \A p \in PairsIn(x.left) : p[1] \in Int
        /\ \A p \in PairsIn(x.right) : p[1] \in Int
    BY <2>5, <2>7
  <2>9. CASE key = x.key
    <3>1. u = [x EXCEPT !.val = val]
      BY <2>9, WriteDef
    <3>2. /\ u \in Node /\ u.id = x.id /\ u.key = x.key /\ u.val = val
          /\ u.color = x.color /\ u.left = x.left /\ u.right = x.right
      BY <2>1, <3>1 DEF Node, Branch
    <3> HIDE DEF u
    <3>3. (IsRed(u) <=> IsRed(x)) /\ HeightOf[u] = HeightOf[x]
      BY <2>1, <2>3, <3>2, NodeHeight, Colors DEF Raised
    <3>4. /\ IdsIn(u) = IdsIn(x) /\ KeysIn(u) = KeysIn(x)
          /\ PairsIn(u) = {<<key, val>>} \cup PairsIn(x.left) \cup PairsIn(x.right)
      BY <2>4, <2>9, <3>2, NodeHolds
    <3>5. PairsIn(u) = {p \in PairsIn(x) : p[1] # key} \cup {<<key, val>>}
      <4>1. /\ \A p \in PairsIn(x.left) : p[1] # key
            /\ \A p \in PairsIn(x.right) : p[1] # key
        BY <2>1, <2>6, <2>8, <2>9
      <4>2. <<x.key, x.val>>[1] = key
        BY <2>9
      <4>3. QED BY <2>4, <3>4, <4>1, <4>2
    <3>6. Ordered(u) /\ Shaped(u)
      BY <2>1, <2>2, <2>3, <3>2, NodeOrdered, NodeShaped
    <3>7. Apart(x) => Apart(u)
      BY <2>1, <3>2, NodeApart
    <3>8. QED BY <3>2, <3>3, <3>4, <3>5, <3>6, <3>7 DEF Rewritten, u
  <2>10. CASE key < x.key
    <3> DEFINE s == Write(x.left, key, val)
    <3>1. u = [x EXCEPT !.left = s]
      BY <2>10, WriteDef
    <3>2. key \in KeysIn(x.left)
      BY <2>1, <2>2, <2>4, <2>10
    <3>3. Rewritten(x.left, key, val, s)
      BY <1>2, <2>2, <3>2
    <3>4. s \in Forest
      BY <3>3, NodeFields DEF Rewritten
    <3> HIDE DEF s
    <3>5. /\ u \in Node /\ u.id = x.id /\ u.key = x.key /\ u.val = x.val
          /\ u.color = x.color /\ u.left = s /\ u.right = x.right
      BY <2>1, <3>1, <3>4, WithLeft
    <3> HIDE DEF u
    <3>6. (IsRed(u) <=> IsRed(x)) /\ (IsRed(u.left) <=> IsRed(x.left))
      BY <2>1, <3>3, <3>5, Colors DEF Rewritten
    <3>7. HeightOf[u] = HeightOf[x]
      BY <2>3, <3>3, <3>5, <3>6, NodeHeight DEF Rewritten, Raised
    <3>8. /\ IdsIn(u) = IdsIn(x) /\ KeysIn(u) = KeysIn(x)
          /\ PairsIn(u) = {<<x.key, x.val>>} \cup PairsIn(s) \cup PairsIn(x.right)
      BY <2>4, <3>3, <3>5, NodeHolds DEF Rewritten
    <3>9. PairsIn(u) = {p \in PairsIn(x) : p[1] # key} \cup {<<key, val>>}
      <4>1. <<x.key, x.val>>[1] # key
        BY <2>1, <2>10
      <4>2. \A p \in PairsIn(x.right) : p[1] # key
        BY <2>1, <2>6, <2>8, <2>10
      <4>3. PairsIn(s) = {p \in PairsIn(x.left) : p[1] # key} \cup {<<key, val>>}
        BY <3>3 DEF Rewritten
      <4>4. QED BY <2>4, <3>8, <4>1, <4>2, <4>3
    <3>10. Ordered(u)
      BY <2>2, <3>3, <3>5, NodeOrdered DEF Rewritten
    <3>11. Shaped(u)
      BY <2>2, <2>3, <3>3, <3>5, NodeShaped DEF Rewritten
    <3>12. Apart(x) => Apart(u)
      BY <2>1, <3>3, <3>5, NodeApart DEF Rewritten
    <3>13. QED BY <3>5, <3>6, <3>7, <3>8, <3>9, <3>10, <3>11, <3>12 DEF Rewritten, u
  <2>11. CASE key > x.key
    <3> DEFINE s == Write(x.right, key, val)
    <3>1. u = [x EXCEPT !.right = s]
      BY <2>11, WriteDef
    <3>2. key \in KeysIn(x.right)
      BY <2>1, <2>2, <2>4, <2>11
    <3>3. Rewritten(x.right, key, val, s)
      BY <1>2, <2>2, <3>2
    <3>4. s \in Forest
      BY <3>3, NodeFields DEF Rewritten
    <3> HIDE DEF s
    <3>5. /\ u \in Node /\ u.id = x.id /\ u.key = x.key /\ u.val = x.val
          /\ u.color = x.color /\ u.right = s /\ u.left = x.left
      BY <2>1, <3>1, <3>4, WithRight
    <3> HIDE DEF u
    <3>6. (IsRed(u) <=> IsRed(x)) /\ (IsRed(u.left) <=> IsRed(x.left))
      BY <2>1, <3>5, Colors
    <3>7. HeightOf[u] = HeightOf[x]
      BY <2>3, <3>5, <3>6, NodeHeight DEF Raised
    <3>8. /\ IdsIn(u) = IdsIn(x) /\ KeysIn(u) = KeysIn(x)
          /\ PairsIn(u) = {<<x.key, x.val>>} \cup PairsIn(x.left) \cup PairsIn(s)
      BY <2>4, <3>3, <3>5, NodeHolds DEF Rewritten
    <3>9. PairsIn(u) = {p \in PairsIn(x) : p[1] # key} \cup {<<key, val>>}
      <4>1. <<x.key, x.val>>[1] # key
        BY <2>1, <2>11
      <4>2. \A p \in PairsIn(x.left) : p[1] # key
        BY <2>1, <2>6, <2>8, <2>11
      <4>3. PairsIn(s) = {p \in PairsIn(x.right) : p[1] # key} \cup {<<key, val>>}
        BY <3>3 DEF Rewritten
      <4>4. QED BY <2>4, <3>8, <4>1, <4>2, <4>3
    <3>10. Ordered(u)
      BY <2>2, <3>3, <3>5, NodeOrdered DEF Rewritten
    <3>11. Shaped(u)
      BY <2>2, <2>3, <3>3, <3>5, NodeShaped DEF Rewritten
    <3>12. Apart(x) => Apart(u)
      BY <2>1, <3>3, <3>5, NodeApart DEF Rewritten
    <3>13. QED BY <3>5, <3>6, <3>7, <3>8, <3>9, <3>10, <3>11, <3>12 DEF Rewritten, u
  <2>12. QED BY <2>1, <2>9, <2>10, <2>11
<1>3. P = Tree
  <2>1. P \in SUBSET Tree
    OBVIOUS
  <2> HIDE DEF P
  <2>2. QED BY <1>1, <1>2, <2>1, TreeInductive DEF Inductive
<1>4. QED BY <1>3

-----------------------------------------------------------------------------
(* rbt_delete: the red link carried down, and the repairs on the way up.   *)

\* What a deletion goes down into: a well-shaped tree with a red link at its
\* root to spare, in it or to its left.
Ready(t) == t \in Node /\ Shaped(t) /\ Strict(t) /\ (IsRed(t) \/ IsRed(t.left))

\* Or one whose red link leans to the right, into which it goes right.
LeansRight(t) ==
  /\ t \in Node /\ Shaped(t.left) /\ Shaped(t.right) /\ HeightOf[t.left] = HeightOf[t.right]
  /\ ~IsRed(t) /\ ~IsRed(t.left) /\ IsRed(t.right) /\ Strict(t.right)

\* What it leaves there: a tree of the same height, with no red link its parent
\* does not expect.
Repaired(t, u) ==
  u \in Forest /\ Shaped(u) /\ Strict(u) /\ HeightOf[u] = HeightOf[t] /\ (IsRed(u) => IsRed(t))

\* A tree without black nodes on its way down, and not red, is Null.
LEMMA NoHeightNoTree ==
  ASSUME NEW t \in Forest, HeightOf[t] = 0, ~IsRed(t)
  PROVE  t = Null
<1>1. SUFFICES ASSUME t \in Node PROVE FALSE
  BY TreeOrNull
<1>2. HeightOf[t] = HeightOf[t.left] + 1 /\ HeightOf[t.left] \in Nat
  BY <1>1, NodeHeight
<1>3. QED BY <1>2

\* A balanced node over a repaired left subtree.
LEMMA RepairLeft ==
  ASSUME NEW a \in Node, Shaped(a.left), Shaped(a.right), Strict(a.right),
         HeightOf[a.left] = HeightOf[a.right],
         NEW s, Repaired(a.left, s), NEW u, u = Balance([a EXCEPT !.left = s])
  PROVE  /\ u \in Forest /\ Shaped(u)
         /\ ~IsRed(a) \/ (~IsRed(a.left) /\ ~IsRed(a.right))
              => Strict(u) /\ HeightOf[u] = Raised(a, HeightOf[a.left])
         /\ ~IsRed(a) /\ ~IsRed(a.right) => ~IsRed(u)
<1> DEFINE x == [a EXCEPT !.left = s]
<1>1. x \in Node /\ x.left = s /\ x.right = a.right /\ x.color = a.color
  BY WithLeft DEF Repaired
<1>2. u = Balance(x)
  OBVIOUS
<1> HIDE DEF x
<1>3. /\ Shaped(x.left) /\ Shaped(x.right) /\ Strict(x.right) /\ Strict(x.left)
      /\ HeightOf[x.left] = HeightOf[x.right] /\ HeightOf[x.left] = HeightOf[a.left]
      /\ (IsRed(x) <=> IsRed(a)) /\ (IsRed(x.left) => IsRed(a.left))
  BY <1>1, Colors DEF Repaired
<1>4. u \in Forest
  BY <1>1, <1>2, BalanceAlike, NodeFields
<1>5. /\ Shaped(u)
      /\ ~IsRed(x) \/ ~IsRed(x.left) => HeightOf[u] = Raised(x, HeightOf[x.left])
      /\ ~IsRed(x) \/ (~IsRed(x.left) /\ ~IsRed(x.right)) => Strict(u)
      /\ ~IsRed(x) /\ Strict(x.left) /\ ~IsRed(x.right) => ~IsRed(u)
  BY <1>1, <1>2, <1>3, BalanceShaped
<1>6. Raised(x, HeightOf[x.left]) = Raised(a, HeightOf[a.left])
  BY <1>3 DEF Raised
<1>7. QED BY <1>1, <1>3, <1>4, <1>5, <1>6

\* A balanced node over a repaired right subtree, whatever data it took over.
LEMMA RepairRight ==
  ASSUME NEW b \in Node, Shaped(b.left), Strict(b.left),
         HeightOf[b.left] = HeightOf[b.right],
         NEW s, Repaired(b.right, s),
         NEW x \in Node, x.left = b.left, x.right = s, x.color = b.color,
         NEW u, u = Balance(x)
  PROVE  /\ u \in Forest /\ Shaped(u)
         /\ ~IsRed(b) \/ (~IsRed(b.left) /\ ~IsRed(b.right))
              => Strict(u) /\ HeightOf[u] = Raised(b, HeightOf[b.left])
         /\ ~IsRed(b) /\ ~IsRed(b.left) => ~IsRed(u)
         /\ ~IsRed(b.left) => HeightOf[u] = Raised(b, HeightOf[b.left])
<1>3. /\ Shaped(x.left) /\ Shaped(x.right) /\ Strict(x.right) /\ Strict(x.left)
      /\ HeightOf[x.left] = HeightOf[x.right] /\ HeightOf[x.left] = HeightOf[b.left]
      /\ (IsRed(x) <=> IsRed(b)) /\ (IsRed(x.right) => IsRed(b.right))
  BY Colors DEF Repaired
<1>4. u \in Forest
  BY BalanceAlike, NodeFields
<1>5. /\ Shaped(u)
      /\ ~IsRed(x) \/ ~IsRed(x.left) => HeightOf[u] = Raised(x, HeightOf[x.left])
      /\ ~IsRed(x) \/ (~IsRed(x.left) /\ ~IsRed(x.right)) => Strict(u)
      /\ ~IsRed(x) /\ Strict(x.left) /\ ~IsRed(x.left) => ~IsRed(u)
  BY <1>3, BalanceShaped
<1>6. Raised(x, HeightOf[x.left]) = Raised(b, HeightOf[b.left])
  BY <1>3 DEF Raised
<1>7. QED BY <1>3, <1>4, <1>5, <1>6

\* What rbt_move_red_left makes where the left subtree has no red link.
LEMMA MovedRedLeft ==
  ASSUME NEW t \in Node, Shaped(t), Thin(t.left), NEW a, a = MoveRedLeft(t)
  PROVE  /\ a \in Node /\ Alike(t, a) /\ Ready(a.left) /\ Shaped(a.right) /\ Strict(a.right)
         /\ HeightOf[a.left] = HeightOf[a.right]
         /\ a.key = t.key \/ a.key \in KeysIn(t.right)
         /\ IsRed(t) => /\ Raised(a, HeightOf[a.left]) = HeightOf[t]
                        /\ ~IsRed(a) \/ (~IsRed(a.left) /\ ~IsRed(a.right))
<1> DEFINE l == t.left
           r == t.right
           h == HeightOf[l.left]
           f == FlipColors(t)
<1>1. /\ l \in Node /\ ~IsRed(l) /\ ~IsRed(l.left) /\ l.color = BLACK
      /\ Shaped(l) /\ Shaped(r) /\ HeightOf[l] = HeightOf[r] /\ ~IsRed(r)
  BY NodeFields, TreeOrNull, NodeShaped, Colors DEF Thin
<1>2. h \in Nat /\ HeightOf[l] = h + 1 /\ HeightOf[t] = Raised(t, h + 1)
  BY <1>1, NodeHeight DEF Raised
<1>3. r \in Node /\ r.color = BLACK
  <2>1. HeightOf[r] # 0
    BY <1>1, <1>2
  <2>2. r # Null
    BY <2>1, HeightOfDef
  <2>3. QED BY <1>1, <2>2, NodeFields, TreeOrNull, Colors
<1>4. /\ HeightOf[l.right] = h /\ HeightOf[r.left] = h /\ HeightOf[r.right] = h
      /\ Shaped(r.left) /\ Shaped(r.right) /\ ~IsRed(r.right)
      /\ IsRed(r.left) => ~IsRed(r.left.left)
  <2>1. HeightOf[r] = HeightOf[r.left] + 1 /\ HeightOf[r.left] \in Nat
    BY <1>1, <1>3, NodeHeight
  <2>2. QED BY <1>1, <1>2, <1>3, <2>1, NodeShaped
<1>5. /\ f \in Node /\ f.color = Other(t.color) /\ f.key = t.key
      /\ f.left \in Node /\ f.left.color = RED
      /\ f.left.left = l.left /\ f.left.right = l.right
      /\ f.right \in Node /\ f.right.color = RED
      /\ f.right.left = r.left /\ f.right.right = r.right
      /\ Alike(t, f)
  BY <1>1, <1>3, Flipped, FlipAlike, Colors
<1>6. Shaped(f.left) /\ HeightOf[f.left] = h /\ IsRed(f.left) /\ ~IsRed(f.left.left)
  BY <1>1, <1>2, <1>5, NodeShaped, NodeHeight, Colors
<1>7. IsRed(t) <=> ~IsRed(f)
  BY <1>5, Colors, NodeFields
<1>8. CASE ~IsRed(r.left)
  <2>1. a = f
    BY <1>5, <1>8 DEF MoveRedLeft
  <2>2. Shaped(f.right) /\ HeightOf[f.right] = h /\ Strict(f.right)
    BY <1>3, <1>4, <1>5, <1>8, NodeShaped, NodeHeight, Colors DEF Strict
  <2>3. Ready(f.left)
    BY <1>5, <1>6 DEF Ready, Strict
  <2>4. IsRed(t) => Raised(f, h) = HeightOf[t]
    BY <1>2, <1>7 DEF Raised
  <2>5. QED BY <1>5, <1>6, <1>7, <2>1, <2>2, <2>3, <2>4
<1>9. CASE IsRed(r.left)
  <2> DEFINE y == RotateRight(f.right)
             g == [f EXCEPT !.right = y]
             z == RotateLeft(g)
  <2>1. a = FlipColors(z)
    <3>1. f.right # Null /\ IsRed(f.right.left)
      BY <1>5, <1>9, NodeFields
    <3>2. QED BY <3>1 DEF MoveRedLeft
  <2>2. r.left \in Node /\ r.left.color = RED
    BY <1>3, <1>9, NodeFields, Colors
  <2>3. /\ y \in Node /\ y.color = RED /\ y.left = r.left.left /\ y.key = r.left.key
        /\ y.right \in Node /\ y.right.color = RED
        /\ y.right.left = r.left.right /\ y.right.right = r.right
        /\ Alike(f.right, y)
    BY <1>5, <2>2, RotatedRight, RotateRightAlike
  <2> HIDE DEF f, y
  <2>4. /\ g \in Node /\ g.color = f.color /\ g.left = f.left /\ g.right = y
        /\ g.id = f.id /\ g.key = f.key /\ g.val = f.val
    BY <1>5, <2>3, WithRight, NodeFields
  <2> HIDE DEF g
  <2>5. Alike(f, g)
    BY <1>5, <2>3, <2>4, NodesAlike, AlikeItself
  <2>6. /\ z \in Node /\ z.color = f.color /\ z.right = y.right /\ z.key = y.key
        /\ z.left \in Node /\ z.left.color = RED
        /\ z.left.left = f.left /\ z.left.right = r.left.left
        /\ Alike(g, z)
    BY <2>3, <2>4, RotatedLeft, RotateLeftAlike
  <2> HIDE DEF z
  <2>7. /\ a \in Node /\ a.color = Other(f.color) /\ a.key = z.key
        /\ a.left \in Node /\ a.left.color = BLACK
        /\ a.left.left = f.left /\ a.left.right = r.left.left
        /\ a.right \in Node /\ a.right.color = BLACK
        /\ a.right.left = r.left.right /\ a.right.right = r.right
        /\ Alike(z, a)
    BY <2>1, <2>3, <2>6, Flipped, FlipAlike, Colors
  <2>8. Alike(t, a)
    BY <1>5, <2>5, <2>6, <2>7, AlikeInTurn
  <2>9. /\ HeightOf[r.left.left] = h /\ HeightOf[r.left.right] = h
        /\ Shaped(r.left.left) /\ Shaped(r.left.right) /\ ~IsRed(r.left.right)
        /\ ~IsRed(r.left.left)
    <3>1. HeightOf[r.left] = HeightOf[r.left.left]
      BY <1>9, <2>2, NodeHeight
    <3>2. QED BY <1>4, <1>9, <2>2, <3>1, NodeShaped
  <2>10. Ready(a.left) /\ HeightOf[a.left] = h + 1 /\ ~IsRed(a.left)
    <3>1. ~IsRed(a.left)
      BY <2>7, Colors
    <3>2. Shaped(a.left)
      BY <1>6, <2>7, <2>9, NodeShaped
    <3>3. HeightOf[a.left] = h + 1
      BY <1>6, <2>7, <3>1, NodeHeight
    <3>4. QED BY <1>6, <2>7, <3>1, <3>2, <3>3 DEF Ready, Strict
  <2>11. Shaped(a.right) /\ HeightOf[a.right] = h + 1 /\ ~IsRed(a.right)
    <3>1. ~IsRed(a.right)
      BY <2>7, Colors
    <3>2. Shaped(a.right)
      BY <1>4, <2>7, <2>9, NodeShaped
    <3>3. HeightOf[a.right] = h + 1
      BY <2>7, <2>9, <3>1, NodeHeight
    <3>4. QED BY <3>1, <3>2, <3>3
  <2>12. IsRed(t) => Raised(a, h + 1) = HeightOf[t]
    <3>1. IsRed(a) <=> IsRed(t)
      BY <1>5, <2>7, Colors, NodeFields
    <3>2. QED BY <1>2, <3>1 DEF Raised
  <2>13. a.key \in KeysIn(r)
    BY <1>3, <2>2, <2>3, <2>6, <2>7, NodeHolds
  <2>14. QED BY <2>7, <2>8, <2>10, <2>11, <2>12, <2>13 DEF Strict
<1>10. QED BY <1>8, <1>9

\* What rbt_move_red_right makes where the right subtree has no red link: a red
\* right subtree, or one whose own right subtree is red and whose root is the
\* node the deletion came from.
LEMMA MovedRedRight ==
  ASSUME NEW t \in Node, Shaped(t), Thin(t.right), ~IsRed(t.left),
         NEW b, b = MoveRedRight(t)
  PROVE  /\ b \in Node /\ Alike(t, b) /\ Shaped(b.left) /\ Strict(b.left)
         /\ HeightOf[b.left] = HeightOf[b.right] /\ Shaped(t.right)
         /\ \/ Ready(b.right) /\ b.key = t.key
            \/ LeansRight(b.right) /\ b.right.key = t.key /\ b.key = t.left.key
         /\ IsRed(t) => /\ Raised(b, HeightOf[b.left]) = HeightOf[t]
                        /\ ~IsRed(b) \/ (~IsRed(b.left) /\ ~IsRed(b.right))
<1> DEFINE l == t.left
           r == t.right
           h == HeightOf[l.left]
           f == FlipColors(t)
<1>1. /\ r \in Node /\ ~IsRed(r) /\ ~IsRed(r.left) /\ r.color = BLACK
      /\ Shaped(l) /\ Shaped(r) /\ HeightOf[l] = HeightOf[r] /\ l \in Forest
  BY NodeFields, TreeOrNull, NodeShaped, Colors DEF Thin
<1>2. l \in Node /\ l.color = BLACK
  <2>1. HeightOf[r] = HeightOf[r.left] + 1 /\ HeightOf[r.left] \in Nat
    BY <1>1, NodeHeight
  <2>2. l # Null
    BY <1>1, <2>1, HeightOfDef
  <2>3. QED BY <1>1, <2>2, TreeOrNull, Colors
<1>3. /\ h \in Nat /\ HeightOf[l] = h + 1 /\ HeightOf[t] = Raised(t, h + 1)
      /\ HeightOf[l.right] = h /\ ~IsRed(l.right) /\ Shaped(l.left) /\ Shaped(l.right)
      /\ IsRed(l.left) => ~IsRed(l.left.left)
  BY <1>1, <1>2, NodeHeight, NodeShaped DEF Raised
<1>4. HeightOf[r.left] = h /\ HeightOf[r.right] = h /\ Shaped(r.left) /\ Shaped(r.right)
      /\ ~IsRed(r.right)
  <2>1. HeightOf[r] = HeightOf[r.left] + 1 /\ HeightOf[r.left] \in Nat
    BY <1>1, NodeHeight
  <2>2. QED BY <1>1, <1>3, <2>1, NodeShaped
<1>5. /\ f \in Node /\ f.color = Other(t.color) /\ f.key = t.key
      /\ f.left \in Node /\ f.left.color = RED /\ f.left.key = l.key
      /\ f.left.left = l.left /\ f.left.right = l.right
      /\ f.right \in Node /\ f.right.color = RED
      /\ f.right.left = r.left /\ f.right.right = r.right
      /\ Alike(t, f)
  BY <1>1, <1>2, Flipped, FlipAlike, Colors
<1>6. Shaped(f.right) /\ HeightOf[f.right] = h /\ IsRed(f.right) /\ ~IsRed(f.right.left)
  BY <1>1, <1>4, <1>5, NodeShaped, NodeHeight, Colors
<1>7. IsRed(t) <=> ~IsRed(f)
  BY <1>5, Colors, NodeFields
<1>8. CASE ~IsRed(l.left)
  <2>1. b = f
    BY <1>5, <1>8 DEF MoveRedRight
  <2>2. Shaped(f.left) /\ HeightOf[f.left] = h /\ Strict(f.left)
    BY <1>3, <1>5, <1>8, NodeShaped, NodeHeight, Colors DEF Strict
  <2>3. Ready(f.right)
    BY <1>5, <1>6 DEF Ready, Strict
  <2>4. IsRed(t) => Raised(f, h) = HeightOf[t]
    BY <1>3, <1>7 DEF Raised
  <2>5. QED BY <1>1, <1>5, <1>6, <1>7, <2>1, <2>2, <2>3, <2>4
<1>9. CASE IsRed(l.left)
  <2> DEFINE z == RotateRight(f)
  <2>1. b = FlipColors(z)
    <3>1. f.left # Null /\ IsRed(f.left.left)
      BY <1>5, <1>9, NodeFields
    <3>2. QED BY <3>1 DEF MoveRedRight
  <2>2. l.left \in Node /\ l.left.color = RED
    BY <1>2, <1>9, NodeFields, Colors
  <2> HIDE DEF f
  <2>3. /\ z \in Node /\ z.color = f.color /\ z.left = l.left /\ z.key = l.key
        /\ z.right \in Node /\ z.right.color = RED /\ z.right.key = t.key
        /\ z.right.left = l.right /\ z.right.right = f.right
        /\ Alike(f, z)
    BY <1>5, RotatedRight, RotateRightAlike
  <2> HIDE DEF z
  <2>4. /\ b \in Node /\ b.color = Other(f.color) /\ b.key = l.key
        /\ b.left \in Node /\ b.left.color = BLACK
        /\ b.left.left = l.left.left /\ b.left.right = l.left.right
        /\ b.right \in Node /\ b.right.color = BLACK /\ b.right.key = t.key
        /\ b.right.left = l.right /\ b.right.right = f.right
        /\ Alike(z, b)
    BY <2>1, <2>2, <2>3, Flipped, FlipAlike, Colors
  <2>5. Alike(t, b)
    BY <1>5, <2>3, <2>4, AlikeInTurn
  <2>6. /\ HeightOf[l.left] = h /\ HeightOf[l.left.left] = h
    BY <1>9, <2>2, NodeHeight
  <2>7. Shaped(b.left) /\ HeightOf[b.left] = h + 1 /\ ~IsRed(b.left)
    <3>1. ~IsRed(b.left)
      BY <2>4, Colors
    <3>2. Shaped(b.left)
      BY <1>3, <2>2, <2>4, NodeShaped
    <3>3. HeightOf[b.left] = h + 1
      BY <2>4, <2>6, <3>1, NodeHeight
    <3>4. QED BY <3>1, <3>2, <3>3
  <2>8. LeansRight(b.right) /\ HeightOf[b.right] = h + 1 /\ ~IsRed(b.right)
    <3>1. ~IsRed(b.right)
      BY <2>4, Colors
    <3>2. HeightOf[b.right] = h + 1
      BY <1>3, <2>4, <3>1, NodeHeight
    <3>3. QED BY <1>3, <1>6, <2>4, <3>1, <3>2 DEF LeansRight, Strict
  <2>9. IsRed(t) => Raised(b, h + 1) = HeightOf[t]
    <3>1. IsRed(b) <=> IsRed(t)
      BY <1>5, <2>4, Colors, NodeFields
    <3>2. QED BY <1>3, <3>1 DEF Raised
  <2>10. QED BY <1>1, <2>4, <2>5, <2>7, <2>8, <2>9 DEF Strict
<1>10. QED BY <1>8, <1>9

\* One step of a deletion to the left: what it goes down into, and what comes of
\* the tree once that is repaired.
LEMMA StepLeft ==
  ASSUME NEW t \in Node, Shaped(t), t.left \in Node,
         NEW a, a = IF Thin(t.left) THEN MoveRedLeft(t) ELSE t
  PROVE  /\ a \in Node /\ Alike(t, a) /\ Ready(a.left)
         /\ a.key = t.key \/ a.key \in KeysIn(t.right)
         /\ \A s : Repaired(a.left, s) =>
              LET u == Balance([a EXCEPT !.left = s])
              IN  u \in Forest /\ Shaped(u) /\ (Ready(t) => Repaired(t, u))
<1>1. /\ Shaped(t.left) /\ Shaped(t.right) /\ HeightOf[t.left] = HeightOf[t.right]
      /\ ~IsRed(t.right) /\ (IsRed(t.left) => ~IsRed(t.left.left))
      /\ HeightOf[t] = Raised(t, HeightOf[t.left])
  BY NodeShaped, NodeHeight DEF Raised
<1>2. CASE Thin(t.left)
  <2>1. a = MoveRedLeft(t)
    BY <1>2
  <2>2. /\ a \in Node /\ Alike(t, a) /\ Ready(a.left) /\ Shaped(a.right) /\ Strict(a.right)
        /\ HeightOf[a.left] = HeightOf[a.right]
        /\ a.key = t.key \/ a.key \in KeysIn(t.right)
        /\ IsRed(t) => /\ Raised(a, HeightOf[a.left]) = HeightOf[t]
                       /\ ~IsRed(a) \/ (~IsRed(a.left) /\ ~IsRed(a.right))
    BY <1>2, <2>1, MovedRedLeft
  <2>3. Ready(t) => IsRed(t)
    BY <1>2 DEF Ready, Thin
  <2>4. ASSUME NEW s, Repaired(a.left, s), NEW u, u = Balance([a EXCEPT !.left = s])
        PROVE  u \in Forest /\ Shaped(u) /\ (Ready(t) => Repaired(t, u))
    <3>1. /\ u \in Forest /\ Shaped(u)
          /\ ~IsRed(a) \/ (~IsRed(a.left) /\ ~IsRed(a.right))
               => Strict(u) /\ HeightOf[u] = Raised(a, HeightOf[a.left])
      BY <2>2, <2>4, RepairLeft DEF Ready
    <3>2. QED BY <2>2, <2>3, <3>1 DEF Repaired
  <2>5. QED BY <2>2, <2>4
<1>3. CASE ~Thin(t.left)
  <2>1. a = t
    BY <1>3
  <2>2. Ready(t.left)
    BY <1>1, <1>3, NodeFields DEF Thin, Ready, Strict
  <2>3. ASSUME NEW s, Repaired(t.left, s), NEW u, u = Balance([t EXCEPT !.left = s])
        PROVE  u \in Forest /\ Shaped(u) /\ (Ready(t) => Repaired(t, u))
    <3>1. /\ u \in Forest /\ Shaped(u)
          /\ ~IsRed(t) \/ (~IsRed(t.left) /\ ~IsRed(t.right))
               => Strict(u) /\ HeightOf[u] = Raised(t, HeightOf[t.left])
          /\ ~IsRed(t) /\ ~IsRed(t.right) => ~IsRed(u)
      BY <1>1, <2>3, RepairLeft DEF Strict
    <3>2. Ready(t) => ~IsRed(t) \/ ~IsRed(t.left)
      BY DEF Ready, Strict
    <3>3. QED BY <1>1, <3>1, <3>2 DEF Repaired
  <2>4. QED BY <2>1, <2>2, <2>3, AlikeItself
<1>4. QED BY <1>2, <1>3

\* One step to the right, from a root whose key is no larger than the one
\* looked for.
LEMMA StepRight ==
  ASSUME NEW t \in Node, Shaped(t) \/ LeansRight(t), IsRed(t.left) \/ t.right \in Node,
         NEW a, a = IF IsRed(t.left) THEN RotateRight(t) ELSE t,
         NEW b, b = IF Thin(a.right) THEN MoveRedRight(a) ELSE a
  PROVE  /\ b \in Node /\ Alike(t, b) /\ a.right # Null
         /\ \/ Ready(b.right) /\ b.right.key = t.key /\ b.key = t.left.key /\ t.left \in Node
            \/ Ready(b.right) /\ b.key = t.key
            \/ /\ LeansRight(b.right) /\ b.right.key = t.key
               /\ b.key = t.left.key /\ t.left \in Node
         /\ a.key = t.key \/ (a.key = t.left.key /\ t.left \in Node)
         /\ \A s : Repaired(b.right, s) =>
              \A x \in Node : x.left = b.left /\ x.right = s /\ x.color = b.color =>
                LET u == Balance(x)
                IN  /\ u \in Forest /\ Shaped(u)
                    /\ Ready(t) \/ LeansRight(t) => Repaired(t, u)
<1>1. /\ Shaped(t.left) /\ Shaped(t.right) /\ HeightOf[t.left] = HeightOf[t.right]
      /\ HeightOf[t] = Raised(t, HeightOf[t.left])
      /\ IsRed(t.left) => ~LeansRight(t) /\ Shaped(t) /\ ~IsRed(t.right)
                          /\ ~IsRed(t.left.left)
  BY NodeShaped, NodeHeight DEF LeansRight, Raised
<1>2. CASE IsRed(t.left)
  <2>1. t.left \in Node
    BY <1>2, NodeFields, Colors
  <2>2. /\ a \in Node /\ Alike(t, a) /\ a.color = t.color /\ a.key = t.left.key
        /\ a.left = t.left.left /\ a.right \in Node /\ a.right.color = RED
        /\ a.right.left = t.left.right /\ a.right.right = t.right /\ a.right.key = t.key
    BY <1>2, <2>1, RotatedRight, RotateRightAlike
  <2>3. b = a /\ IsRed(a.right) /\ a.right # Null /\ (IsRed(a) <=> IsRed(t))
    BY <2>2, Colors, NodeFields DEF Thin
  <2>4. /\ Shaped(t.left.left) /\ Shaped(t.left.right) /\ ~IsRed(t.left.right)
        /\ HeightOf[t.left.left] = HeightOf[t.left]
        /\ HeightOf[t.left.right] = HeightOf[t.left]
    BY <1>1, <1>2, <2>1, NodeShaped, NodeHeight
  <2>5. Ready(a.right) /\ HeightOf[a.right] = HeightOf[t.left]
    <3>1. Shaped(a.right)
      BY <1>1, <1>2, <2>2, <2>4, NodeShaped
    <3>2. HeightOf[a.right] = HeightOf[t.left]
      BY <2>2, <2>3, <2>4, NodeHeight
    <3>3. QED BY <2>2, <2>3, <2>4, <3>1, <3>2 DEF Ready, Strict
  <2>6. ASSUME NEW s, Repaired(a.right, s),
               NEW x \in Node, x.left = a.left, x.right = s, x.color = a.color,
               NEW u, u = Balance(x)
        PROVE  u \in Forest /\ Shaped(u) /\ (Ready(t) \/ LeansRight(t) => Repaired(t, u))
    <3>1. ~IsRed(a.left) /\ Strict(a.left) /\ Shaped(a.left) /\ Shaped(a.right)
          /\ HeightOf[a.left] = HeightOf[a.right]
      BY <1>1, <1>2, <2>2, <2>4, <2>5 DEF Strict, Ready
    <3>2. /\ u \in Forest /\ Shaped(u)
          /\ ~IsRed(a) => Strict(u) /\ HeightOf[u] = Raised(a, HeightOf[a.left])
          /\ ~IsRed(a) => ~IsRed(u)
      BY <2>2, <2>6, <3>1, RepairRight
    <3>3. Ready(t) => ~IsRed(t)
      BY <1>2 DEF Ready, Strict
    <3>4. ~IsRed(t) => Raised(a, HeightOf[a.left]) = HeightOf[t]
      BY <1>1, <2>2, <2>3, <2>4 DEF Raised
    <3>5. QED BY <1>1, <1>2, <2>3, <3>2, <3>3, <3>4 DEF Repaired
  <2>7. QED BY <2>1, <2>2, <2>3, <2>5, <2>6
<1>3. CASE ~IsRed(t.left) /\ Thin(t.right)
  <2>1. a = t /\ b = MoveRedRight(t) /\ Shaped(t) /\ ~LeansRight(t) /\ a.right # Null
    BY <1>3 DEF LeansRight, Thin
  <2>2. /\ b \in Node /\ Alike(t, b) /\ Shaped(b.left) /\ Strict(b.left)
        /\ HeightOf[b.left] = HeightOf[b.right]
        /\ \/ Ready(b.right) /\ b.key = t.key
           \/ LeansRight(b.right) /\ b.right.key = t.key /\ b.key = t.left.key
        /\ IsRed(t) => /\ Raised(b, HeightOf[b.left]) = HeightOf[t]
                       /\ ~IsRed(b) \/ (~IsRed(b.left) /\ ~IsRed(b.right))
    BY <1>3, <2>1, MovedRedRight
  <2>3. t.left \in Node
    <3>1. t.right \in Node /\ ~IsRed(t.right)
      BY <1>3, NodeFields, TreeOrNull DEF Thin
    <3>2. HeightOf[t.right] = HeightOf[t.right.left] + 1 /\ HeightOf[t.right.left] \in Nat
      BY <3>1, NodeHeight
    <3>3. t.left # Null
      BY <1>1, <3>2, HeightOfDef
    <3>4. QED BY <3>3, NodeFields, TreeOrNull
  <2>4. ASSUME NEW s, Repaired(b.right, s),
               NEW x \in Node, x.left = b.left, x.right = s, x.color = b.color,
               NEW u, u = Balance(x)
        PROVE  u \in Forest /\ Shaped(u) /\ (Ready(t) => Repaired(t, u))
    <3>1. /\ u \in Forest /\ Shaped(u)
          /\ ~IsRed(b) \/ (~IsRed(b.left) /\ ~IsRed(b.right))
               => Strict(u) /\ HeightOf[u] = Raised(b, HeightOf[b.left])
      BY <2>2, <2>4, RepairRight
    <3>2. Ready(t) => IsRed(t)
      BY <1>3 DEF Ready
    <3>3. (IsRed(t) => Repaired(t, u))
      BY <2>2, <3>1 DEF Repaired
    <3>4. QED BY <3>1, <3>2, <3>3
  <2>5. QED BY <2>1, <2>2, <2>3, <2>4
<1>4. CASE ~IsRed(t.left) /\ ~Thin(t.right)
  <2>1. a = t /\ b = t /\ t.right \in Node /\ t.right # Null
    BY <1>4, NodeFields DEF Thin
  <2>2. Ready(t.right)
    <3>1. Strict(t.right)
      BY NodeShaped DEF Strict, LeansRight
    <3>2. IsRed(t.right) \/ IsRed(t.right.left)
      BY <1>4, <2>1 DEF Thin
    <3>3. QED BY <1>1, <2>1, <3>1, <3>2 DEF Ready
  <2>3. ASSUME NEW s, Repaired(t.right, s),
               NEW x \in Node, x.left = t.left, x.right = s, x.color = t.color,
               NEW u, u = Balance(x)
        PROVE  u \in Forest /\ Shaped(u) /\ (Ready(t) \/ LeansRight(t) => Repaired(t, u))
    <3>1. /\ u \in Forest /\ Shaped(u)
          /\ ~IsRed(t) \/ (~IsRed(t.left) /\ ~IsRed(t.right))
               => Strict(u) /\ HeightOf[u] = Raised(t, HeightOf[t.left])
          /\ ~IsRed(t) /\ ~IsRed(t.left) => ~IsRed(u)
      BY <1>1, <1>4, <2>3, RepairRight DEF Strict
    <3>2. Ready(t) => ~IsRed(t.right)
      BY NodeShaped DEF Ready
    <3>3. LeansRight(t) => ~IsRed(t)
      BY DEF LeansRight
    <3>4. QED BY <1>1, <1>4, <3>1, <3>2, <3>3 DEF Repaired
  <2>4. QED BY <2>1, <2>2, <2>3, AlikeItself
<1>5. QED BY <1>2, <1>3, <1>4

-----------------------------------------------------------------------------
(* rbt_delete: what is cut off.                                            *)

\* A search tree holds a key with one value.
LEMMA PairsOnce ==
  ASSUME NEW t \in Forest, Ordered(t)
  PROVE  \A p, q \in PairsIn(t) : p[1] = q[1] => p = q
<1> DEFINE Claim(x) == \A p, q \in PairsIn(x) : p[1] = q[1] => p = q
           P == {x \in Forest : Ordered(x) => Claim(x)}
<1>1. Null \in P
  BY NullHolds, TreeOrNull
<1>2. ASSUME NEW x \in Node, x.left \in P, x.right \in P PROVE x \in P
  <2> SUFFICES ASSUME Ordered(x) PROVE Claim(x)
    BY NodeFields
  <2>1. Claim(x.left) /\ Claim(x.right)
    BY <1>2, NodeOrdered
  <2>2. PairsIn(x) = {<<x.key, x.val>>} \cup PairsIn(x.left) \cup PairsIn(x.right)
    BY NodeHolds
  <2>3. /\ \A p \in PairsIn(x.left) : p[1] < x.key /\ p[1] \in Int
        /\ \A p \in PairsIn(x.right) : p[1] > x.key /\ p[1] \in Int
    <3>1. /\ \A p \in PairsIn(x.left) : p[1] \in KeysIn(x.left)
          /\ \A p \in PairsIn(x.right) : p[1] \in KeysIn(x.right)
      BY NodeFields, HoldsTyped
    <3>2. KeysIn(x.left) \subseteq Int /\ KeysIn(x.right) \subseteq Int
      BY NodeFields, KeysAreInts
    <3>3. QED BY <3>1, <3>2, NodeOrdered
  <2>4. x.key \in Int /\ <<x.key, x.val>>[1] = x.key
    BY NodeFields
  <2>5. ASSUME NEW p \in PairsIn(x), NEW q \in PairsIn(x), p[1] = q[1] PROVE p = q
    <3>1. CASE p = <<x.key, x.val>>
      <4>1. q \notin PairsIn(x.left) /\ q \notin PairsIn(x.right)
        BY <2>3, <2>4, <2>5, <3>1
      <4>2. QED BY <2>2, <3>1, <4>1
    <3>2. CASE p \in PairsIn(x.left)
      <4>1. q # <<x.key, x.val>> /\ q \notin PairsIn(x.right)
        BY <2>3, <2>4, <2>5, <3>2
      <4>2. QED BY <2>1, <2>2, <2>5, <3>2, <4>1
    <3>3. CASE p \in PairsIn(x.right)
      <4>1. q # <<x.key, x.val>> /\ q \notin PairsIn(x.left)
        BY <2>3, <2>4, <2>5, <3>3
      <4>2. QED BY <2>1, <2>2, <2>5, <3>3, <4>1
    <3>4. QED BY <2>2, <3>1, <3>2, <3>3
  <2>6. QED BY <2>5
<1>3. P = Forest
  <2>1. P \in SUBSET Forest
    OBVIOUS
  <2> HIDE DEF P
  <2>2. QED BY <1>1, <1>2, <2>1, TreeInduction
<1>4. QED BY <1>3

\* What is cut off t is one of its blocks, and what is left holds all that t
\* held but the key.
Without(t, key, cut) ==
  /\ cut.node \in Forest /\ cut.removed \in Node
  /\ KeysIn(cut.node) = KeysIn(t) \ {key}
  /\ PairsIn(cut.node) = {p \in PairsIn(t) : p[1] # key}
  /\ Ordered(cut.node)
  /\ Apart(t) => /\ Apart(cut.node) /\ cut.removed.id \in IdsIn(t)
                 /\ IdsIn(cut.node) = IdsIn(t) \ {cut.removed.id}

\* It is as well cut off a tree that holds the same.
LEMMA WithoutAlike ==
  ASSUME NEW t, NEW a, Alike(t, a), NEW key, NEW cut, Without(a, key, cut)
  PROVE  Without(t, key, cut)
BY DEF Alike, Without

\* And what is left may be balanced.
LEMMA WithoutBalanced ==
  ASSUME NEW t, NEW key, NEW x \in Node, NEW removed, Without(t, key, Cut(x, removed))
  PROVE  Without(t, key, Cut(Balance(x), removed))
<1> DEFINE u == Balance(x)
<1>1. u \in Node /\ Alike(x, u)
  BY BalanceAlike
<1> HIDE DEF u
<1>2. u \in Forest
  BY <1>1, NodeFields
<1>3. Without(t, key, Cut(u, removed))
  BY <1>1, <1>2 DEF Without, Cut, Alike
<1>4. QED BY <1>3 DEF u

\* The key is cut off the left subtree of a node with a larger key.
LEMMA WithoutLeft ==
  ASSUME NEW a \in Node, Ordered(a), NEW key \in Key, key < a.key,
         NEW cut, Without(a.left, key, cut)
  PROVE  Without(a, key, Cut(Balance([a EXCEPT !.left = cut.node]), cut.removed))
<1> DEFINE x == [a EXCEPT !.left = cut.node]
<1>1. /\ x \in Node /\ x.left = cut.node /\ x.right = a.right
      /\ x.id = a.id /\ x.key = a.key /\ x.val = a.val
  BY WithLeft DEF Without
<1> HIDE DEF x
<1>2. /\ Ordered(a.left) /\ Ordered(a.right)
      /\ \A k \in KeysIn(a.left) : k < a.key
      /\ \A k \in KeysIn(a.right) : k > a.key
  BY NodeOrdered
<1>3. key \in Int /\ a.key \in Int /\ KeysIn(a.right) \subseteq Int
      /\ a.right \in Forest
  BY NodeFields, KeysAreInts, KeyAssumption
<1>4. a.key # key /\ key \notin KeysIn(a.right)
  BY <1>2, <1>3
<1>5. KeysIn(x) = KeysIn(a) \ {key}
  <2>1. KeysIn(x) = {a.key} \cup KeysIn(cut.node) \cup KeysIn(a.right)
    BY <1>1, NodeHolds
  <2>2. KeysIn(a) = {a.key} \cup KeysIn(a.left) \cup KeysIn(a.right)
    BY NodeHolds
  <2>3. QED BY <1>4, <2>1, <2>2 DEF Without
<1>6. PairsIn(x) = {p \in PairsIn(a) : p[1] # key}
  <2>1. PairsIn(x) = {<<a.key, a.val>>} \cup PairsIn(cut.node) \cup PairsIn(a.right)
    BY <1>1, NodeHolds
  <2>2. PairsIn(a) = {<<a.key, a.val>>} \cup PairsIn(a.left) \cup PairsIn(a.right)
    BY NodeHolds
  <2>3. \A p \in PairsIn(a.right) : p[1] # key
    BY <1>3, <1>4, HoldsTyped
  <2>4. <<a.key, a.val>>[1] # key
    BY <1>4
  <2>5. QED BY <2>1, <2>2, <2>3, <2>4 DEF Without
<1>7. Ordered(x)
  <2>1. \A k \in KeysIn(cut.node) : k < a.key
    BY <1>2 DEF Without
  <2>2. QED BY <1>1, <1>2, <2>1, NodeOrdered DEF Without
<1>8. ASSUME Apart(a)
      PROVE  /\ Apart(x) /\ cut.removed.id \in IdsIn(a)
             /\ IdsIn(x) = IdsIn(a) \ {cut.removed.id}
  <2>1. /\ Apart(a.left) /\ Apart(a.right)
        /\ a.id \notin IdsIn(a.left) /\ a.id \notin IdsIn(a.right)
        /\ IdsIn(a.left) \cap IdsIn(a.right) = {}
    BY <1>8, NodeApart
  <2>2. /\ Apart(cut.node) /\ cut.removed.id \in IdsIn(a.left)
        /\ IdsIn(cut.node) = IdsIn(a.left) \ {cut.removed.id}
    BY <2>1 DEF Without
  <2>3. /\ IdsIn(x) = {a.id} \cup IdsIn(cut.node) \cup IdsIn(a.right)
        /\ IdsIn(a) = {a.id} \cup IdsIn(a.left) \cup IdsIn(a.right)
    BY <1>1, NodeHolds
  <2>4. Apart(x)
    BY <1>1, <2>1, <2>2, NodeApart
  <2>5. QED BY <2>1, <2>2, <2>3, <2>4
<1>9. Without(a, key, Cut(x, cut.removed))
  <2>1. Cut(x, cut.removed).node = x /\ Cut(x, cut.removed).removed = cut.removed
    BY DEF Cut
  <2>2. x \in Forest /\ cut.removed \in Node
    BY <1>1, NodeFields DEF Without
  <2>3. QED BY <1>5, <1>6, <1>7, <1>8, <2>1, <2>2 DEF Without
<1>10. Without(a, key, Cut(Balance(x), cut.removed))
  BY <1>1, <1>9, WithoutBalanced
<1>11. QED BY <1>10 DEF x

\* Or off the right subtree of a node with a smaller key.
LEMMA WithoutRight ==
  ASSUME NEW a \in Node, Ordered(a), NEW key \in Key, key > a.key,
         NEW cut, Without(a.right, key, cut)
  PROVE  Without(a, key, Cut(Balance([a EXCEPT !.right = cut.node]), cut.removed))
<1> DEFINE x == [a EXCEPT !.right = cut.node]
<1>1. /\ x \in Node /\ x.right = cut.node /\ x.left = a.left
      /\ x.id = a.id /\ x.key = a.key /\ x.val = a.val
  BY WithRight DEF Without
<1> HIDE DEF x
<1>2. /\ Ordered(a.left) /\ Ordered(a.right)
      /\ \A k \in KeysIn(a.left) : k < a.key
      /\ \A k \in KeysIn(a.right) : k > a.key
  BY NodeOrdered
<1>3. key \in Int /\ a.key \in Int /\ KeysIn(a.left) \subseteq Int
      /\ a.left \in Forest
  BY NodeFields, KeysAreInts, KeyAssumption
<1>4. a.key # key /\ key \notin KeysIn(a.left)
  BY <1>2, <1>3
<1>5. KeysIn(x) = KeysIn(a) \ {key}
  <2>1. KeysIn(x) = {a.key} \cup KeysIn(a.left) \cup KeysIn(cut.node)
    BY <1>1, NodeHolds
  <2>2. KeysIn(a) = {a.key} \cup KeysIn(a.left) \cup KeysIn(a.right)
    BY NodeHolds
  <2>3. QED BY <1>4, <2>1, <2>2 DEF Without
<1>6. PairsIn(x) = {p \in PairsIn(a) : p[1] # key}
  <2>1. PairsIn(x) = {<<a.key, a.val>>} \cup PairsIn(a.left) \cup PairsIn(cut.node)
    BY <1>1, NodeHolds
  <2>2. PairsIn(a) = {<<a.key, a.val>>} \cup PairsIn(a.left) \cup PairsIn(a.right)
    BY NodeHolds
  <2>3. \A p \in PairsIn(a.left) : p[1] # key
    BY <1>3, <1>4, HoldsTyped
  <2>4. <<a.key, a.val>>[1] # key
    BY <1>4
  <2>5. QED BY <2>1, <2>2, <2>3, <2>4 DEF Without
<1>7. Ordered(x)
  <2>1. \A k \in KeysIn(cut.node) : k > a.key
    BY <1>2 DEF Without
  <2>2. QED BY <1>1, <1>2, <2>1, NodeOrdered DEF Without
<1>8. ASSUME Apart(a)
      PROVE  /\ Apart(x) /\ cut.removed.id \in IdsIn(a)
             /\ IdsIn(x) = IdsIn(a) \ {cut.removed.id}
  <2>1. /\ Apart(a.left) /\ Apart(a.right)
        /\ a.id \notin IdsIn(a.left) /\ a.id \notin IdsIn(a.right)
        /\ IdsIn(a.left) \cap IdsIn(a.right) = {}
    BY <1>8, NodeApart
  <2>2. /\ Apart(cut.node) /\ cut.removed.id \in IdsIn(a.right)
        /\ IdsIn(cut.node) = IdsIn(a.right) \ {cut.removed.id}
    BY <2>1 DEF Without
  <2>3. /\ IdsIn(x) = {a.id} \cup IdsIn(a.left) \cup IdsIn(cut.node)
        /\ IdsIn(a) = {a.id} \cup IdsIn(a.left) \cup IdsIn(a.right)
    BY <1>1, NodeHolds
  <2>4. Apart(x)
    BY <1>1, <2>1, <2>2, NodeApart
  <2>5. QED BY <2>1, <2>2, <2>3, <2>4
<1>9. Without(a, key, Cut(x, cut.removed))
  <2>1. Cut(x, cut.removed).node = x /\ Cut(x, cut.removed).removed = cut.removed
    BY DEF Cut
  <2>2. x \in Forest /\ cut.removed \in Node
    BY <1>1, NodeFields DEF Without
  <2>3. QED BY <1>5, <1>6, <1>7, <1>8, <2>1, <2>2 DEF Without
<1>10. Without(a, key, Cut(Balance(x), cut.removed))
  BY <1>1, <1>9, WithoutBalanced
<1>11. QED BY <1>10 DEF x

\* The least key of t, with its value, is in the node cut off.
LeastCut(t, cut) ==
  /\ Without(t, cut.removed.key, cut)
  /\ <<cut.removed.key, cut.removed.val>> \in PairsIn(t)
  /\ \A k \in KeysIn(t) : cut.removed.key <= k

\* The node with the key takes over the least key and value of its right
\* subtree, and the node that held them is cut off.
LEMMA WithoutTaken ==
  ASSUME NEW b \in Node, Ordered(b), NEW cut, LeastCut(b.right, cut),
         NEW x, x = [TakeOver(b, cut.removed) EXCEPT !.right = cut.node]
  PROVE  /\ x \in Node /\ x.left = b.left /\ x.right = cut.node /\ x.color = b.color
         /\ Without(b, b.key, Cut(Balance(x), cut.removed))
<1> DEFINE m == cut.removed
<1>0. m \in Node /\ cut.node \in Forest /\ m.key \in Key /\ m.val \in Val /\ m.key \in Int
  BY NodeFields DEF LeastCut, Without
<1>1. /\ x \in Node /\ x.right = cut.node /\ x.left = b.left /\ x.color = b.color
      /\ x.id = b.id /\ x.key = m.key /\ x.val = m.val
  <2>1. TakeOver(b, m) = [b EXCEPT !.key = m.key, !.val = m.val]
    BY DEF TakeOver
  <2>2. QED BY <1>0, <2>1 DEF Node, Branch
<1>2. /\ Ordered(b.left) /\ Ordered(b.right)
      /\ \A k \in KeysIn(b.left) : k < b.key
      /\ \A k \in KeysIn(b.right) : k > b.key
  BY NodeOrdered
<1>3. /\ b.key \in Int /\ KeysIn(b.left) \subseteq Int /\ KeysIn(b.right) \subseteq Int
      /\ b.left \in Forest /\ b.right \in Forest
  BY NodeFields, KeysAreInts
<1>4. /\ m.key \in KeysIn(b.right) /\ m.key > b.key
      /\ b.key \notin KeysIn(b.left) /\ b.key \notin KeysIn(b.right)
  <2>1. <<m.key, m.val>>[1] = m.key
    OBVIOUS
  <2>2. m.key \in KeysIn(b.right)
    BY <1>3, <2>1, HoldsTyped DEF LeastCut
  <2>3. QED BY <1>2, <1>3, <2>2
<1>5. /\ KeysIn(cut.node) = KeysIn(b.right) \ {m.key} /\ Ordered(cut.node)
      /\ PairsIn(cut.node) = {p \in PairsIn(b.right) : p[1] # m.key}
  BY DEF LeastCut, Without
<1>6. KeysIn(x) = KeysIn(b) \ {b.key}
  <2>1. KeysIn(x) = {m.key} \cup KeysIn(b.left) \cup KeysIn(cut.node)
    BY <1>1, NodeHolds
  <2>2. KeysIn(b) = {b.key} \cup KeysIn(b.left) \cup KeysIn(b.right)
    BY NodeHolds
  <2>3. QED BY <1>4, <1>5, <2>1, <2>2
<1>7. PairsIn(x) = {p \in PairsIn(b) : p[1] # b.key}
  <2>1. PairsIn(x) = {<<m.key, m.val>>} \cup PairsIn(b.left) \cup PairsIn(cut.node)
    BY <1>1, NodeHolds
  <2>2. PairsIn(b) = {<<b.key, b.val>>} \cup PairsIn(b.left) \cup PairsIn(b.right)
    BY NodeHolds
  <2>3. /\ \A p \in PairsIn(b.left) : p[1] # b.key
        /\ \A p \in PairsIn(b.right) : p[1] # b.key
    BY <1>3, <1>4, HoldsTyped
  <2>4. PairsIn(b.right) = {<<m.key, m.val>>} \cup PairsIn(cut.node)
    <3>1. <<m.key, m.val>> \in PairsIn(b.right) /\ <<m.key, m.val>>[1] = m.key
      BY DEF LeastCut
    <3>2. \A p \in PairsIn(b.right) : p[1] = m.key => p = <<m.key, m.val>>
      BY <1>2, <1>3, <3>1, PairsOnce
    <3>3. QED BY <1>5, <3>1, <3>2
  <2>5. <<b.key, b.val>>[1] = b.key
    OBVIOUS
  <2>6. QED BY <2>1, <2>2, <2>3, <2>4, <2>5
<1>8. Ordered(x)
  <2>1. \A k \in KeysIn(b.left) : k < m.key
    BY <1>0, <1>2, <1>3, <1>4
  <2>2. \A k \in KeysIn(cut.node) : k > m.key
    <3>1. \A k \in KeysIn(b.right) : m.key <= k
      BY DEF LeastCut
    <3>2. QED BY <1>0, <1>3, <1>5, <3>1
  <2>3. QED BY <1>1, <1>2, <1>5, <2>1, <2>2, NodeOrdered
<1>9. ASSUME Apart(b)
      PROVE  /\ Apart(x) /\ m.id \in IdsIn(b) /\ IdsIn(x) = IdsIn(b) \ {m.id}
  <2>1. /\ Apart(b.left) /\ Apart(b.right)
        /\ b.id \notin IdsIn(b.left) /\ b.id \notin IdsIn(b.right)
        /\ IdsIn(b.left) \cap IdsIn(b.right) = {}
    BY <1>9, NodeApart
  <2>2. /\ Apart(cut.node) /\ m.id \in IdsIn(b.right)
        /\ IdsIn(cut.node) = IdsIn(b.right) \ {m.id}
    BY <2>1 DEF LeastCut, Without
  <2>3. /\ IdsIn(x) = {b.id} \cup IdsIn(b.left) \cup IdsIn(cut.node)
        /\ IdsIn(b) = {b.id} \cup IdsIn(b.left) \cup IdsIn(b.right)
    BY <1>1, NodeHolds
  <2>4. Apart(x)
    BY <1>1, <2>1, <2>2, NodeApart
  <2>5. QED BY <2>1, <2>2, <2>3, <2>4
<1>10. Without(b, b.key, Cut(x, m))
  <2>1. Cut(x, m).node = x /\ Cut(x, m).removed = m
    BY DEF Cut
  <2>2. x \in Forest
    BY <1>1, NodeFields
  <2>3. QED BY <1>0, <1>6, <1>7, <1>8, <1>9, <2>1, <2>2 DEF Without
<1>11. Without(b, b.key, Cut(Balance(x), m))
  BY <1>1, <1>10, WithoutBalanced
<1>12. QED BY <1>1, <1>11

-----------------------------------------------------------------------------
(* rbt_delete: its calls.                                                  *)

\* rbt_delete_min, one call, with calls for what it calls itself.
MinCall(calls, t) ==
  IF t.left = Null THEN Cut(Null, t)
  ELSE LET a   == IF Thin(t.left) THEN MoveRedLeft(t) ELSE t
           cut == calls[a.left]
       IN  Cut(Balance([a EXCEPT !.left = cut.node]), cut.removed)

\* rbt_delete_rec, one call.
RecCall(calls, key, t) ==
  IF key < t.key
  THEN LET a   == IF Thin(t.left) THEN MoveRedLeft(t) ELSE t
           cut == calls[a.left]
       IN  Cut(Balance([a EXCEPT !.left = cut.node]), cut.removed)
  ELSE LET a == IF IsRed(t.left) THEN RotateRight(t) ELSE t
           b == IF Thin(a.right) THEN MoveRedRight(a) ELSE a
       IN  IF key = a.key /\ a.right = Null THEN Cut(a.left, a)
           ELSE IF key = b.key
           THEN LET cut == DeleteMin(b.right)
                IN  Cut(Balance([TakeOver(b, cut.removed) EXCEPT
                                   !.right = cut.node]), cut.removed)
           ELSE LET cut == calls[b.right]
                IN  Cut(Balance([b EXCEPT !.right = cut.node]), cut.removed)

\* The calls of rbt_delete_min of depth n are made of those of depth n - 1.
LEMMA DeleteMinCalls ==
  \E calls : /\ \A t : DeleteMin(t) = calls[N][t]
             /\ \A n \in 1 .. N : \A t \in Tree : calls[n][t] = MinCall(calls[n - 1], t)
<1> DEFINE Row(c) == [t \in Tree |-> MinCall(c, t)]
           Run(f, k) == f = [n \in 0 .. k |-> IF n = 0 THEN << >> ELSE Row(f[n - 1])]
           T == {k \in Nat : \A f : ~Run(f, k)}
<1> HIDE DEF Row
<1>1. T = {}
  <2> SUFFICES ASSUME T # {} PROVE FALSE
    OBVIOUS
  <2>1. T \in SUBSET Nat
    OBVIOUS
  <2> HIDE DEF T
  <2>2. PICK m \in T : \A k \in T : m <= k
    BY <2>1, LeastElement
  <2>3. m - 1 \notin T
    BY <2>1, <2>2
  <2> USE DEF T
  <2>4. m \in Nat /\ m # 0
    <3>1. Run([i \in 0 .. 0 |-> << >>], 0)
      OBVIOUS
    <3>2. QED BY <2>2, <3>1
  <2>5. PICK f : Run(f, m - 1)
    BY <2>3, <2>4
  <2> DEFINE g == [i \in 0 .. m |-> IF i = m THEN Row(f[m - 1]) ELSE f[i]]
  <2>6. ASSUME NEW i \in 0 .. m
        PROVE  g[i] = IF i = 0 THEN << >> ELSE Row(g[i - 1])
    <3>1. CASE i = m
      <4>1. m - 1 \in 0 .. m /\ m - 1 # m
        BY <2>4
      <4>2. QED BY <2>4, <3>1, <4>1
    <3>2. CASE i # m
      <4>1. i \in 0 .. m - 1 /\ (i # 0 => i - 1 \in 0 .. m /\ i - 1 # m)
        BY <2>4, <3>2
      <4>2. f[i] = IF i = 0 THEN << >> ELSE Row(f[i - 1])
        BY <2>5, <4>1
      <4>3. QED BY <3>2, <4>1, <4>2
    <3>3. QED BY <3>1, <3>2
  <2>7. Run(g, m)
    BY <2>6
  <2>8. QED BY <2>2, <2>7
<1>2. \E f : Run(f, N)
  BY <1>1, NAssumption
<1> DEFINE calls == CHOOSE f : Run(f, N)
<1>3. Run(calls, N)
  <2> HIDE DEF Run
  <2>1. QED BY <1>2
<1>4. \A t : DeleteMin(t) = calls[N][t]
  BY DEF DeleteMin, Row, MinCall
<1> HIDE DEF calls
<1>5. ASSUME NEW n \in 1 .. N, NEW t \in Tree
      PROVE  calls[n][t] = MinCall(calls[n - 1], t)
  <2>1. n \in 0 .. N /\ n # 0
    OBVIOUS
  <2>2. calls[n] = Row(calls[n - 1])
    BY <1>3, <2>1
  <2>3. QED BY <2>2 DEF Row
<1>6. QED BY <1>4, <1>5

\* And so are those of rbt_delete_rec.
LEMMA DeleteRecCalls ==
  ASSUME NEW key
  PROVE  \E calls :
           /\ \A t : DeleteRec(t, key) = calls[N][t]
           /\ \A n \in 1 .. N : \A t \in Tree : calls[n][t] = RecCall(calls[n - 1], key, t)
<1> DEFINE Row(c) == [t \in Tree |-> RecCall(c, key, t)]
           Run(f, k) == f = [n \in 0 .. k |-> IF n = 0 THEN << >> ELSE Row(f[n - 1])]
           T == {k \in Nat : \A f : ~Run(f, k)}
<1> HIDE DEF Row
<1>1. T = {}
  <2> SUFFICES ASSUME T # {} PROVE FALSE
    OBVIOUS
  <2>1. T \in SUBSET Nat
    OBVIOUS
  <2> HIDE DEF T
  <2>2. PICK m \in T : \A k \in T : m <= k
    BY <2>1, LeastElement
  <2>3. m - 1 \notin T
    BY <2>1, <2>2
  <2> USE DEF T
  <2>4. m \in Nat /\ m # 0
    <3>1. Run([i \in 0 .. 0 |-> << >>], 0)
      OBVIOUS
    <3>2. QED BY <2>2, <3>1
  <2>5. PICK f : Run(f, m - 1)
    BY <2>3, <2>4
  <2> DEFINE g == [i \in 0 .. m |-> IF i = m THEN Row(f[m - 1]) ELSE f[i]]
  <2>6. ASSUME NEW i \in 0 .. m
        PROVE  g[i] = IF i = 0 THEN << >> ELSE Row(g[i - 1])
    <3>1. CASE i = m
      <4>1. m - 1 \in 0 .. m /\ m - 1 # m
        BY <2>4
      <4>2. QED BY <2>4, <3>1, <4>1
    <3>2. CASE i # m
      <4>1. i \in 0 .. m - 1 /\ (i # 0 => i - 1 \in 0 .. m /\ i - 1 # m)
        BY <2>4, <3>2
      <4>2. f[i] = IF i = 0 THEN << >> ELSE Row(f[i - 1])
        BY <2>5, <4>1
      <4>3. QED BY <3>2, <4>1, <4>2
    <3>3. QED BY <3>1, <3>2
  <2>7. Run(g, m)
    BY <2>6
  <2>8. QED BY <2>2, <2>7
<1>2. \E f : Run(f, N)
  BY <1>1, NAssumption
<1> DEFINE calls == CHOOSE f : Run(f, N)
<1>3. Run(calls, N)
  <2> HIDE DEF Run
  <2>1. QED BY <1>2
<1>4. \A t : DeleteRec(t, key) = calls[N][t]
  BY DEF DeleteRec, Row, RecCall
<1> HIDE DEF calls
<1>5. ASSUME NEW n \in 1 .. N, NEW t \in Tree
      PROVE  calls[n][t] = RecCall(calls[n - 1], key, t)
  <2>1. n \in 0 .. N /\ n # 0
    OBVIOUS
  <2>2. calls[n] = Row(calls[n - 1])
    BY <1>3, <2>1
  <2>3. QED BY <2>2 DEF Row
<1>6. QED BY <1>4, <1>5

\* A node with no subtrees is cut off whole.
LEMMA LoneCut ==
  ASSUME NEW t \in Node, t.left = Null, t.right = Null, NEW cut, cut = Cut(Null, t)
  PROVE  /\ Without(t, t.key, cut) /\ LeastCut(t, cut) /\ Shaped(cut.node)
         /\ IsRed(t) => Repaired(t, cut.node)
<1>1. cut.node = Null /\ cut.removed = t /\ Null \in Forest
  BY TreeOrNull DEF Cut
<1>2. /\ IdsIn(t) = {t.id} /\ KeysIn(t) = {t.key} /\ PairsIn(t) = {<<t.key, t.val>>}
  BY NodeHolds, NullHolds
<1>3. t.key \in Int
  BY NodeFields
<1>4. Without(t, t.key, cut)
  BY <1>1, <1>2, NullHolds DEF Without
<1>5. LeastCut(t, cut)
  BY <1>1, <1>2, <1>3, <1>4 DEF LeastCut
<1>6. ASSUME IsRed(t) PROVE Repaired(t, Null)
  <2>1. HeightOf[t] = 0 /\ HeightOf[Null] = 0
    BY <1>6, NodeHeight, HeightOfDef
  <2>2. QED BY <1>1, <2>1, NullHolds, Colors DEF Repaired, Strict
<1>7. QED BY <1>1, <1>4, <1>5, <1>6, NullHolds

\* The subtrees of a search tree of few keys have one key less, and are of few
\* levels.
LEMMA SmallerSubtrees ==
  ASSUME NEW t \in Forest, NEW a \in Node, Alike(t, a), Ordered(t),
         NEW n \in 1 .. N, Cardinality(KeysIn(t)) <= n
  PROVE  /\ Ordered(a) /\ n - 1 \in 0 .. N
         /\ a.left \in Tree /\ Ordered(a.left) /\ Cardinality(KeysIn(a.left)) <= n - 1
         /\ a.right \in Tree /\ Ordered(a.right) /\ Cardinality(KeysIn(a.right)) <= n - 1
<1>1. Ordered(a) /\ KeysIn(a) = KeysIn(t)
  BY DEF Alike
<1>2. /\ a \in Forest /\ a.left \in Forest /\ a.right \in Forest
      /\ Ordered(a.left) /\ Ordered(a.right)
  BY <1>1, NodeFields, NodeOrdered
<1>3. /\ Cardinality(KeysIn(a.left)) < Cardinality(KeysIn(a))
      /\ Cardinality(KeysIn(a.right)) < Cardinality(KeysIn(a))
  BY <1>1, FewerKeys
<1>4. /\ Cardinality(KeysIn(a.left)) \in Nat /\ Cardinality(KeysIn(a.right)) \in Nat
      /\ Cardinality(KeysIn(a)) \in Nat
  BY <1>2, HoldsTyped
<1>5. /\ Cardinality(KeysIn(a.left)) <= n - 1 /\ Cardinality(KeysIn(a.right)) <= n - 1
      /\ Cardinality(KeysIn(a.left)) <= N /\ Cardinality(KeysIn(a.right)) <= N
  BY <1>1, <1>3, <1>4, NAssumption
<1>6. a.left \in Tree /\ a.right \in Tree
  BY <1>2, <1>5, FewKeysFewLevels, NAssumption DEF Tree
<1>7. QED BY <1>1, <1>2, <1>5, <1>6, NAssumption

\* A node has a key.
LEMMA SomeKeys ==
  ASSUME NEW t \in Node
  PROVE  Cardinality(KeysIn(t)) # 0
<1>1. t.key \in KeysIn(t) /\ IsFiniteSet(KeysIn(t))
  BY NodeHolds, HoldsTyped, NodeFields
<1>2. QED BY <1>1, FS_EmptySet

\* rbt_delete_min cuts the least key off a tree made ready for it, and leaves
\* a repaired one.
LEMMA DeleteMinEffect ==
  ASSUME NEW t \in Tree, Ready(t), Ordered(t), Cardinality(KeysIn(t)) <= N
  PROVE  LeastCut(t, DeleteMin(t)) /\ Repaired(t, DeleteMin(t).node)
<1>1. PICK calls :
        /\ \A x : DeleteMin(x) = calls[N][x]
        /\ \A n \in 1 .. N : \A x \in Tree : calls[n][x] = MinCall(calls[n - 1], x)
  BY DeleteMinCalls
<1> DEFINE Claim(n) == \A x \in Tree :
                         Ready(x) /\ Ordered(x) /\ Cardinality(KeysIn(x)) <= n
                           => LeastCut(x, calls[n][x]) /\ Repaired(x, calls[n][x].node)
           T == {n \in 0 .. N : ~Claim(n)}
<1>2. ASSUME NEW n \in 1 .. N, Claim(n - 1) PROVE Claim(n)
  <2> SUFFICES ASSUME NEW x \in Tree, Ready(x), Ordered(x), Cardinality(KeysIn(x)) <= n
               PROVE  LeastCut(x, calls[n][x]) /\ Repaired(x, calls[n][x].node)
    OBVIOUS
  <2>0. x \in Node /\ x \in Forest /\ Shaped(x)
    BY TreeFields DEF Ready
  <2>1. calls[n][x] = MinCall(calls[n - 1], x)
    BY <1>1
  <2>2. CASE x.left = Null
    <3>1. calls[n][x] = Cut(Null, x)
      BY <2>1, <2>2 DEF MinCall
    <3>2. IsRed(x)
      BY <2>2, Colors DEF Ready
    <3>3. x.right = Null
      BY <2>0, <2>2, NodeShaped, NodeFields, HeightOfDef, NoHeightNoTree
    <3>4. QED BY <2>0, <2>2, <3>1, <3>2, <3>3, LoneCut
  <2>3. CASE x.left # Null
    <3> DEFINE a == IF Thin(x.left) THEN MoveRedLeft(x) ELSE x
               cut == calls[n - 1][a.left]
               u == Balance([a EXCEPT !.left = cut.node])
    <3>1. calls[n][x] = Cut(u, cut.removed)
      BY <2>1, <2>3 DEF MinCall
    <3>2. x.left \in Node
      BY <2>0, <2>3, NodeFields, TreeOrNull
    <3>3. /\ a \in Node /\ Alike(x, a) /\ Ready(a.left)
          /\ \A s : Repaired(a.left, s) =>
               LET w == Balance([a EXCEPT !.left = s])
               IN  w \in Forest /\ Shaped(w) /\ (Ready(x) => Repaired(x, w))
      BY <2>0, <3>2, StepLeft
    <3> HIDE DEF a
    <3>4. /\ Ordered(a) /\ n - 1 \in 0 .. N
          /\ a.left \in Tree /\ Ordered(a.left) /\ Cardinality(KeysIn(a.left)) <= n - 1
      BY <2>0, <3>3, SmallerSubtrees
    <3>5. LeastCut(a.left, cut) /\ Repaired(a.left, cut.node)
      BY <1>2, <3>3, <3>4
    <3> HIDE DEF cut
    <3>6. Repaired(x, u)
      BY <3>3, <3>5
    <3>7. /\ cut.removed \in Node /\ cut.removed.key \in Key /\ cut.removed.key \in Int
          /\ cut.removed.key \in KeysIn(a.left) /\ Without(a.left, cut.removed.key, cut)
          /\ \A k \in KeysIn(a.left) : cut.removed.key <= k
      <4>1. <<cut.removed.key, cut.removed.val>>[1] = cut.removed.key
        OBVIOUS
      <4>2. cut.removed.key \in KeysIn(a.left)
        BY <3>3, <3>5, <4>1, NodeFields, HoldsTyped DEF LeastCut
      <4>3. QED BY <3>5, <4>2, NodeFields DEF LeastCut, Without
    <3>8. /\ \A k \in KeysIn(a.left) : k < a.key
          /\ \A k \in KeysIn(a.right) : k > a.key
          /\ a.key \in Int /\ KeysIn(a.right) \subseteq Int
          /\ KeysIn(a) = {a.key} \cup KeysIn(a.left) \cup KeysIn(a.right)
          /\ PairsIn(a.left) \subseteq PairsIn(a)
      BY <3>3, <3>4, NodeOrdered, NodeFields, KeysAreInts, NodeHolds
    <3>9. Without(a, cut.removed.key, Cut(u, cut.removed))
      BY <3>3, <3>4, <3>7, <3>8, WithoutLeft
    <3>10. Without(x, cut.removed.key, Cut(u, cut.removed))
      BY <3>3, <3>9, WithoutAlike
    <3>11. \A k \in KeysIn(x) : cut.removed.key <= k
      <4>1. KeysIn(x) = KeysIn(a)
        BY <3>3 DEF Alike
      <4>2. cut.removed.key < a.key
        BY <3>7, <3>8
      <4>3. \A k \in KeysIn(a.right) : cut.removed.key <= k
        BY <3>7, <3>8, <4>2
      <4>4. QED BY <3>7, <3>8, <4>1, <4>2, <4>3
    <3>12. <<cut.removed.key, cut.removed.val>> \in PairsIn(x)
      BY <3>3, <3>5, <3>8 DEF LeastCut, Alike
    <3> HIDE DEF u
    <3>13. Cut(u, cut.removed).node = u /\ Cut(u, cut.removed).removed = cut.removed
      BY DEF Cut
    <3>14. QED BY <3>1, <3>6, <3>10, <3>11, <3>12, <3>13 DEF LeastCut
  <2>4. QED BY <2>2, <2>3
<1>3. Claim(0)
  <2>1. ASSUME NEW x \in Tree, Ready(x) PROVE ~(Cardinality(KeysIn(x)) <= 0)
    <3>1. Cardinality(KeysIn(x)) # 0 /\ Cardinality(KeysIn(x)) \in Nat
      BY <2>1, SomeKeys, TreeFields, HoldsTyped DEF Ready
    <3>2. QED BY <3>1
  <2>2. QED BY <2>1
<1>4. T = {}
  <2> HIDE DEF Claim
  <2> SUFFICES ASSUME T # {} PROVE FALSE
    OBVIOUS
  <2>1. T \in SUBSET Nat
    OBVIOUS
  <2>2. PICK m \in T : \A k \in T : m <= k
    BY <2>1, LeastElement
  <2>3. m \in 1 .. N /\ m - 1 \in 0 .. N
    <3>1. m \in 0 .. N /\ ~Claim(m)
      OBVIOUS
    <3>2. m # 0
      BY <1>3, <3>1, Zenon
    <3>3. QED BY <3>1, <3>2, NAssumption
  <2>4. Claim(m - 1)
    BY <2>2, <2>3
  <2>5. QED BY <1>2, <2>2, <2>3, <2>4
<1>5. Claim(N)
  <2> HIDE DEF Claim
  <2>1. QED BY <1>4, NAssumption
<1>6. QED BY <1>1, <1>5

\* rbt_delete cuts its key off a well-shaped search tree that holds it, and
\* leaves one.
LEMMA DeleteRecEffect ==
  ASSUME NEW key \in Key, NEW t \in Tree, Ordered(t), Shaped(t), key \in KeysIn(t),
         Cardinality(KeysIn(t)) <= N
  PROVE  Without(t, key, DeleteRec(t, key)) /\ Shaped(DeleteRec(t, key).node)
<1>1. PICK calls :
        /\ \A x : DeleteRec(x, key) = calls[N][x]
        /\ \A n \in 1 .. N : \A x \in Tree : calls[n][x] = RecCall(calls[n - 1], key, x)
  BY DeleteRecCalls
<1> DEFINE Left(x, cut) == /\ Without(x, key, cut) /\ Shaped(cut.node)
                           /\ Ready(x) \/ LeansRight(x) => Repaired(x, cut.node)
           Asked(x) == /\ Ordered(x) /\ key \in KeysIn(x)
                       /\ Shaped(x) \/ (LeansRight(x) /\ key >= x.key)
           Claim(n) == \A x \in Tree :
                         Asked(x) /\ Cardinality(KeysIn(x)) <= n => Left(x, calls[n][x])
           T == {n \in 0 .. N : ~Claim(n)}
<1> HIDE DEF Left
<1>2. ASSUME NEW n \in 1 .. N, Claim(n - 1) PROVE Claim(n)
  <2> SUFFICES ASSUME NEW x \in Tree, Ordered(x), key \in KeysIn(x),
                      Cardinality(KeysIn(x)) <= n,
                      Shaped(x) \/ (LeansRight(x) /\ key >= x.key)
               PROVE  Left(x, calls[n][x])
    OBVIOUS
  <2> USE DEF Left
  <2>0. /\ x \in Node /\ x \in Forest /\ x.key \in Int /\ key \in Int
        /\ x.left \in Forest /\ x.right \in Forest
        /\ LeansRight(x) => ~Shaped(x)
    <3>1. x # Null
      BY NullHolds
    <3>2. x \in Node /\ x \in Forest
      BY <3>1, TreeFields
    <3>3. QED BY <3>2, NodeFields, NodeShaped, KeyAssumption DEF LeansRight
  <2>1. calls[n][x] = RecCall(calls[n - 1], key, x)
    BY <1>1
  <2>2. /\ \A k \in KeysIn(x.left) : k < x.key
        /\ \A k \in KeysIn(x.right) : k > x.key
        /\ KeysIn(x.left) \subseteq Int /\ KeysIn(x.right) \subseteq Int
        /\ KeysIn(x) = {x.key} \cup KeysIn(x.left) \cup KeysIn(x.right)
    BY <2>0, NodeOrdered, NodeHolds, KeysAreInts
  <2>3. CASE key < x.key
    <3> DEFINE a == IF Thin(x.left) THEN MoveRedLeft(x) ELSE x
               cut == calls[n - 1][a.left]
               u == Balance([a EXCEPT !.left = cut.node])
    <3>1. calls[n][x] = Cut(u, cut.removed)
      BY <2>1, <2>3 DEF RecCall
    <3>2. Shaped(x) /\ ~LeansRight(x) /\ x.left \in Node
      <4>1. ~(key >= x.key) /\ key \in KeysIn(x.left)
        BY <2>0, <2>2, <2>3
      <4>2. x.left # Null
        BY <4>1, NullHolds
      <4>3. QED BY <2>0, <4>1, <4>2, TreeOrNull
    <3>3. /\ a \in Node /\ Alike(x, a) /\ Ready(a.left)
          /\ a.key = x.key \/ a.key \in KeysIn(x.right)
          /\ \A s : Repaired(a.left, s) =>
               LET w == Balance([a EXCEPT !.left = s])
               IN  w \in Forest /\ Shaped(w) /\ (Ready(x) => Repaired(x, w))
      BY <2>0, <3>2, StepLeft
    <3> HIDE DEF a
    <3>4. /\ Ordered(a) /\ n - 1 \in 0 .. N
          /\ a.left \in Tree /\ Ordered(a.left) /\ Cardinality(KeysIn(a.left)) <= n - 1
      BY <2>0, <3>3, SmallerSubtrees
    <3>5. key < a.key /\ key \in KeysIn(a.left)
      <4>1. a.key \in Int /\ key < a.key
        BY <2>0, <2>2, <2>3, <3>3, NodeFields
      <4>2. \A k \in KeysIn(a.right) : k > a.key
        BY <3>3, <3>4, NodeOrdered
      <4>3. key \notin KeysIn(a.right) /\ key # a.key
        BY <2>0, <4>1, <4>2
      <4>4. KeysIn(x) = {a.key} \cup KeysIn(a.left) \cup KeysIn(a.right)
        BY <3>3, NodeHolds DEF Alike
      <4>5. QED BY <4>1, <4>3, <4>4
    <3>6. Without(a.left, key, cut) /\ Repaired(a.left, cut.node)
      BY <1>2, <3>3, <3>4, <3>5 DEF Ready
    <3> HIDE DEF cut
    <3>7. Shaped(u) /\ (Ready(x) => Repaired(x, u))
      BY <3>3, <3>6
    <3>8. Without(x, key, Cut(u, cut.removed))
      BY <3>3, <3>4, <3>5, <3>6, WithoutLeft, WithoutAlike
    <3> HIDE DEF u
    <3>9. Cut(u, cut.removed).node = u
      BY DEF Cut
    <3>10. QED BY <3>1, <3>2, <3>7, <3>8, <3>9
  <2>4. CASE ~(key < x.key) /\ ~IsRed(x.left) /\ x.right = Null
    <3>1. key = x.key
      BY <2>0, <2>2, <2>4, NullHolds
    <3>2. calls[n][x] = Cut(x.left, x)
      <4>1. ~Thin(x.right)
        BY <2>4 DEF Thin
      <4>2. QED BY <2>1, <2>4, <3>1, <4>1 DEF RecCall
    <3>3. Shaped(x) /\ ~LeansRight(x)
      BY <2>0, <2>4, Colors DEF LeansRight
    <3>4. x.left = Null
      <4>1. HeightOf[x.left] = 0
        BY <2>0, <2>4, <3>3, NodeShaped, HeightOfDef
      <4>2. QED BY <2>0, <2>4, <4>1, NoHeightNoTree
    <3>5. Ready(x) => IsRed(x)
      BY <2>4 DEF Ready
    <3>6. QED BY <2>0, <2>4, <3>1, <3>2, <3>3, <3>4, <3>5, LoneCut
  <2>5. CASE ~(key < x.key) /\ (IsRed(x.left) \/ x.right # Null)
    <3> DEFINE a == IF IsRed(x.left) THEN RotateRight(x) ELSE x
               b == IF Thin(a.right) THEN MoveRedRight(a) ELSE a
               min == DeleteMin(b.right)
               cut == calls[n - 1][b.right]
    <3>1. calls[n][x] = IF key = a.key /\ a.right = Null THEN Cut(a.left, a)
                        ELSE IF key = b.key
                        THEN Cut(Balance([TakeOver(b, min.removed) EXCEPT
                                            !.right = min.node]), min.removed)
                        ELSE Cut(Balance([b EXCEPT !.right = cut.node]), cut.removed)
      BY <2>1, <2>5 DEF RecCall
    <3>2. IsRed(x.left) \/ x.right \in Node
      BY <2>0, <2>5, TreeOrNull
    <3>3. /\ b \in Node /\ Alike(x, b) /\ a.right # Null
          /\ \/ Ready(b.right) /\ b.right.key = x.key /\ b.key = x.left.key /\ x.left \in Node
             \/ Ready(b.right) /\ b.key = x.key
             \/ /\ LeansRight(b.right) /\ b.right.key = x.key
                /\ b.key = x.left.key /\ x.left \in Node
          /\ \A s : Repaired(b.right, s) =>
               \A y \in Node : y.left = b.left /\ y.right = s /\ y.color = b.color =>
                 LET u == Balance(y)
                 IN  /\ u \in Forest /\ Shaped(u)
                     /\ Ready(x) \/ LeansRight(x) => Repaired(x, u)
      BY <2>0, <3>2, StepRight
    <3> HIDE DEF a, b
    <3>4. /\ Ordered(b) /\ n - 1 \in 0 .. N
          /\ b.right \in Tree /\ Ordered(b.right) /\ Cardinality(KeysIn(b.right)) <= n - 1
      BY <2>0, <3>3, SmallerSubtrees
    <3>5. /\ \A k \in KeysIn(b.left) : k < b.key
          /\ b.key \in Int /\ key \in {b.key} \cup KeysIn(b.left) \cup KeysIn(b.right)
      <4>1. KeysIn(x) = {b.key} \cup KeysIn(b.left) \cup KeysIn(b.right)
        BY <3>3, NodeHolds DEF Alike
      <4>2. QED BY <3>3, <3>4, <4>1, NodeOrdered, NodeFields
    <3>6. b.key <= key /\ (b.key = key => Ready(b.right))
      <4>1. x.left \in Node => x.left.key < x.key /\ x.left.key \in Int
        BY <2>2, NodeHolds, NodeFields
      <4>2. QED BY <2>0, <2>5, <3>3, <4>1
    <3>7. CASE key = b.key
      <4> DEFINE y == [TakeOver(b, min.removed) EXCEPT !.right = min.node]
                 u == Balance(y)
      <4>1. calls[n][x] = Cut(u, min.removed)
        BY <3>1, <3>3, <3>7
      <4>2. LeastCut(b.right, min) /\ Repaired(b.right, min.node)
        <5>1. Cardinality(KeysIn(b.right)) \in Nat
          BY <3>4, TreeFields, HoldsTyped
        <5>2. Cardinality(KeysIn(b.right)) <= N
          BY <3>4, <5>1, NAssumption
        <5>3. QED BY <3>4, <3>6, <3>7, <5>2, DeleteMinEffect
      <4> HIDE DEF min
      <4>3. /\ y \in Node /\ y.left = b.left /\ y.right = min.node /\ y.color = b.color
            /\ Without(b, b.key, Cut(u, min.removed))
        BY <3>3, <3>4, <4>2, WithoutTaken
      <4> HIDE DEF y
      <4>4. Shaped(u) /\ (Ready(x) \/ LeansRight(x) => Repaired(x, u))
        BY <3>3, <4>2, <4>3
      <4>5. Without(x, key, Cut(u, min.removed))
        BY <3>3, <3>7, <4>3, WithoutAlike
      <4> HIDE DEF u
      <4>6. Cut(u, min.removed).node = u
        BY DEF Cut
      <4>7. QED BY <4>1, <4>4, <4>5, <4>6
    <3>8. CASE key # b.key
      <4> DEFINE y == [b EXCEPT !.right = cut.node]
                 u == Balance(y)
      <4>1. calls[n][x] = Cut(u, cut.removed)
        BY <3>1, <3>3, <3>8
      <4>2. key > b.key /\ key \in KeysIn(b.right)
        BY <2>0, <3>5, <3>6, <3>8
      <4>3. Shaped(b.right) \/ (LeansRight(b.right) /\ key >= b.right.key)
        BY <2>0, <2>5, <3>3 DEF Ready
      <4>4. Without(b.right, key, cut) /\ Repaired(b.right, cut.node)
        BY <1>2, <3>3, <3>4, <4>2, <4>3
      <4> HIDE DEF cut
      <4>5. y \in Node /\ y.left = b.left /\ y.right = cut.node /\ y.color = b.color
        BY <3>3, <4>4, WithRight DEF Repaired
      <4>6. Without(b, key, Cut(u, cut.removed))
        BY <3>3, <3>4, <4>2, <4>4, WithoutRight
      <4> HIDE DEF y
      <4>7. Shaped(u) /\ (Ready(x) \/ LeansRight(x) => Repaired(x, u))
        BY <3>3, <4>4, <4>5
      <4>8. Without(x, key, Cut(u, cut.removed))
        BY <3>3, <4>6, WithoutAlike
      <4> HIDE DEF u
      <4>9. Cut(u, cut.removed).node = u
        BY DEF Cut
      <4>10. QED BY <4>1, <4>7, <4>8, <4>9
    <3>9. QED BY <3>7, <3>8
  <2>6. QED BY <2>3, <2>4, <2>5
<1>3. Claim(0)
  <2>1. ASSUME NEW x \in Tree, key \in KeysIn(x) PROVE ~(Cardinality(KeysIn(x)) <= 0)
    <3>1. IsFiniteSet(KeysIn(x)) /\ Cardinality(KeysIn(x)) \in Nat
      BY TreeFields, HoldsTyped
    <3>2. Cardinality(KeysIn(x)) # 0
      BY <2>1, <3>1, FS_EmptySet
    <3>3. QED BY <3>1, <3>2
  <2>2. QED BY <2>1
<1>4. T = {}
  <2> HIDE DEF Claim
  <2> SUFFICES ASSUME T # {} PROVE FALSE
    OBVIOUS
  <2>1. T \in SUBSET Nat
    OBVIOUS
  <2>2. PICK m \in T : \A k \in T : m <= k
    BY <2>1, LeastElement
  <2>3. m \in 1 .. N /\ m - 1 \in 0 .. N
    <3>1. m \in 0 .. N /\ ~Claim(m)
      OBVIOUS
    <3>2. m # 0
      BY <1>3, <3>1, Zenon
    <3>3. QED BY <3>1, <3>2, NAssumption
  <2>4. Claim(m - 1)
    BY <2>2, <2>3
  <2>5. QED BY <1>2, <2>2, <2>3, <2>4
<1>5. Claim(N)
  <2> HIDE DEF Claim
  <2>1. QED BY <1>4, NAssumption
<1>6. QED BY <1>1, <1>5 DEF Left

-----------------------------------------------------------------------------
(* The model's own formulas.                                               *)

\* Nodes is NodesIn for the trees of at most N levels.
LEMMA NodesAre == \A t \in Tree : Nodes(t) = NodesIn[t]
<1> DEFINE Is(f) == f = [t \in Tree |->
                          IF t = Null THEN {} ELSE {t} \cup f[t.left] \cup f[t.right]]
           h == [t \in Tree |-> NodesIn[t]]
           g == CHOOSE f : Is(f)
<1>1. Is(h)
  <2>1. ASSUME NEW t \in Tree
        PROVE  h[t] = IF t = Null THEN {} ELSE {t} \cup h[t.left] \cup h[t.right]
    <3>1. CASE t = Null
      BY <3>1, NodesInDef
    <3>2. CASE t # Null
      <4>1. t \in Node /\ t.left \in Tree /\ t.right \in Tree
        BY <3>2, TreeFields
      <4>2. QED BY <3>2, <4>1, NodesInDef
    <3>3. QED BY <3>1, <3>2
  <2> HIDE DEF h
  <2>2. h = [t \in Tree |-> h[t]]
    BY DEF h
  <2>3. QED BY <2>1, <2>2
<1>2. Is(g)
  <2> HIDE DEF Is, h
  <2>1. QED BY <1>1
<1>3. \A t : Nodes(t) = g[t]
  BY DEF Nodes
<1> HIDE DEF g
<1> DEFINE P == {t \in Tree : g[t] = NodesIn[t]}
<1>4. Null \in P
  BY <1>2, TreeFields, NodesInDef
<1>5. ASSUME NEW t \in Tree \ {Null}, t.left \in P, t.right \in P PROVE t \in P
  <2>1. NodesIn[t] = {t} \cup NodesIn[t.left] \cup NodesIn[t.right]
    BY TreeFields, NodesInDef
  <2>2. g[t] = {t} \cup g[t.left] \cup g[t.right]
    BY <1>2
  <2>3. QED BY <1>5, <2>1, <2>2
<1>6. P = Tree
  <2>1. P \in SUBSET Tree
    OBVIOUS
  <2> HIDE DEF P
  <2>2. QED BY <1>4, <1>5, <2>1, TreeInductive DEF Inductive
<1>7. QED BY <1>3, <1>6

\* BlackHeight is HeightOf.
LEMMA BlackHeightIs == \A t \in Tree : BlackHeight(t) = HeightOf[t]
<1> DEFINE Is(f) == f = [t \in Tree |->
                          IF t = Null THEN 0 ELSE f[t.left] + IF IsRed(t) THEN 0 ELSE 1]
           h == [t \in Tree |-> HeightOf[t]]
           g == CHOOSE f : Is(f)
<1>1. Is(h)
  <2>1. ASSUME NEW t \in Tree
        PROVE  h[t] = IF t = Null THEN 0 ELSE h[t.left] + IF IsRed(t) THEN 0 ELSE 1
    <3>1. CASE t = Null
      BY <3>1, HeightOfDef
    <3>2. CASE t # Null
      <4>1. t \in Node /\ t.left \in Tree
        BY <3>2, TreeFields
      <4>2. QED BY <3>2, <4>1, HeightOfDef
    <3>3. QED BY <3>1, <3>2
  <2> HIDE DEF h
  <2>2. h = [t \in Tree |-> h[t]]
    BY DEF h
  <2>3. QED BY <2>1, <2>2
<1>2. Is(g)
  <2> HIDE DEF Is, h
  <2>1. QED BY <1>1
<1>3. \A t : BlackHeight(t) = g[t]
  BY DEF BlackHeight
<1> HIDE DEF g
<1> DEFINE P == {t \in Tree : g[t] = HeightOf[t]}
<1>4. Null \in P
  BY <1>2, TreeFields, HeightOfDef
<1>5. ASSUME NEW t \in Tree \ {Null}, t.left \in P, t.right \in P PROVE t \in P
  <2>1. HeightOf[t] = HeightOf[t.left] + IF IsRed(t) THEN 0 ELSE 1
    BY TreeFields, HeightOfDef
  <2>2. g[t] = g[t.left] + IF IsRed(t) THEN 0 ELSE 1
    BY <1>2
  <2>3. QED BY <1>5, <2>1, <2>2
<1>6. P = Tree
  <2>1. P \in SUBSET Tree
    OBVIOUS
  <2> HIDE DEF P
  <2>2. QED BY <1>4, <1>5, <2>1, TreeInductive DEF Inductive
<1>7. QED BY <1>3, <1>6

\* The nodes of a tree of at most N levels have subtrees of at most N levels.
LEMMA NodesInTree ==
  ASSUME NEW t \in Tree, NEW n \in NodesIn[t]
  PROVE  n.left \in Tree /\ n.right \in Tree
<1> DEFINE P == {x \in Tree : \A m \in NodesIn[x] : m.left \in Tree /\ m.right \in Tree}
<1>1. Null \in P
  BY TreeFields, NodesInDef
<1>2. ASSUME NEW x \in Tree \ {Null}, x.left \in P, x.right \in P PROVE x \in P
  <2>1. NodesIn[x] = {x} \cup NodesIn[x.left] \cup NodesIn[x.right]
    BY TreeFields, NodesInDef
  <2>2. QED BY <1>2, <2>1, TreeFields
<1>3. P = Tree
  <2>1. P \in SUBSET Tree
    OBVIOUS
  <2> HIDE DEF P
  <2>2. QED BY <1>1, <1>2, <2>1, TreeInductive DEF Inductive
<1>4. QED BY <1>3

\* So the model's formulas say of such a tree what is shown above of all.
LEMMA TreeSays ==
  ASSUME NEW t \in Tree
  PROVE  /\ Keys(t) = KeysIn(t)
         /\ Sorted(t) <=> Ordered(t)
         /\ RedBlack(t) <=> Shaped(t)
<1>1. Nodes(t) = NodesIn[t]
  BY NodesAre
<1>2. \A x \in Tree : Keys(x) = KeysIn(x)
  BY NodesAre DEF Keys, KeysIn
<1>3. \A n \in NodesIn[t] : Keys(n.left) = KeysIn(n.left) /\ Keys(n.right) = KeysIn(n.right)
  BY <1>2, NodesInTree
<1>4. \A n \in NodesIn[t] : /\ BlackHeight(n.left) = HeightOf[n.left]
                            /\ BlackHeight(n.right) = HeightOf[n.right]
  BY BlackHeightIs, NodesInTree
<1>5. Sorted(t) <=> Ordered(t)
  BY <1>1, <1>3 DEF Sorted, Ordered
<1>6. RedBlack(t) <=> Shaped(t)
  BY <1>1, <1>4 DEF RedBlack, Shaped
<1>7. QED BY <1>2, <1>5, <1>6

-----------------------------------------------------------------------------
(* rbt.c and a caller that keeps its rules.                                *)

\* An rbt_t whose tree is a search tree, well shaped, and of as many keys as
\* its size says.
WellKept(r) ==
  /\ r \in [size : Nat, root : Tree]
  /\ Ordered(r.root) /\ Shaped(r.root)
  /\ r.size = Cardinality(KeysIn(r.root)) /\ r.size <= N

\* A search tree of no more than N keys is one of at most N levels.
LEMMA FewKeysTree ==
  ASSUME NEW t \in Forest, Ordered(t), Cardinality(KeysIn(t)) <= N
  PROVE  t \in Tree
BY FewKeysFewLevels, NAssumption DEF Tree

\* rbt_init.
LEMMA InitKept ==
  /\ WellKept(RbtInit) /\ Apart(RbtInit.root) /\ RbtInit.root = Null /\ RbtInit.size = 0
  /\ KeysIn(RbtInit.root) = {} /\ PairsIn(RbtInit.root) = {} /\ IdsIn(RbtInit.root) = {}
<1>1. RbtInit.root = Null /\ RbtInit.size = 0 /\ RbtInit \in [size : Nat, root : Tree]
  BY TreeFields DEF RbtInit
<1>2. Cardinality({}) = 0
  BY FS_EmptySet
<1>3. QED BY <1>1, <1>2, NullHolds, NAssumption DEF WellKept

\* s is r with a node more.
Inserted(r, id, key, val, s) ==
  /\ WellKept(s) /\ s.size = r.size + 1
  /\ KeysIn(s.root) = KeysIn(r.root) \cup {key}
  /\ PairsIn(s.root) = PairsIn(r.root) \cup {<<key, val>>}
  /\ IdsIn(s.root) = IdsIn(r.root) \cup {id}
  /\ Apart(r.root) /\ id \notin IdsIn(r.root) => Apart(s.root)

\* rbt_insert of a key that is not in the tree.
LEMMA InsertKept ==
  ASSUME NEW r, WellKept(r), r.size < N,
         NEW id \in Nat, NEW key \in Key, key \notin KeysIn(r.root), NEW val \in Val,
         NEW s, s = RbtInsert(r, InitNode(id, key, val))
  PROVE  Inserted(r, id, key, val, s)
<1> DEFINE new == InitNode(id, key, val)
<1>1. /\ new \in Node /\ new.left = Null /\ new.right = Null /\ new.color = RED
      /\ new.id = id /\ new.key = key /\ new.val = val
  BY TreeOrNull DEF InitNode, Node, Branch
<1> HIDE DEF new
<1>2. /\ r.root \in Tree /\ r.root \in Forest /\ r.size \in Nat
      /\ Ordered(r.root) /\ Shaped(r.root) /\ r.size = Cardinality(KeysIn(r.root))
  BY TreeFields DEF WellKept
<1>3. s.size = r.size + 1 /\ s.root = InsertRec(r.root, new) /\ s = [size |-> s.size, root |-> s.root]
  BY DEF RbtInsert, new
<1>4. Extended(r.root, new, s.root)
  BY <1>1, <1>2, <1>3, InsertRecEffect
<1>5. Cardinality(KeysIn(s.root)) = Cardinality(KeysIn(r.root)) + 1
  <2>1. KeysIn(s.root) = KeysIn(r.root) \cup {key} /\ IsFiniteSet(KeysIn(r.root))
    BY <1>1, <1>2, <1>4, HoldsTyped DEF Extended
  <2>2. QED BY <2>1, FS_AddElement
<1>6. s.size \in Nat /\ s.size <= N /\ Cardinality(KeysIn(s.root)) <= N
  BY <1>2, <1>3, <1>5, NAssumption
<1>7. s.root \in Tree
  BY <1>4, <1>6, NodeFields, FewKeysTree DEF Extended
<1>8. s \in [size : Nat, root : Tree]
  BY <1>3, <1>6, <1>7
<1>9. WellKept(s)
  BY <1>2, <1>3, <1>4, <1>5, <1>6, <1>8 DEF WellKept, Extended
<1>10. QED BY <1>1, <1>3, <1>4, <1>9 DEF Extended, Inserted

\* rbt_delete of a key that is in it.
LEMMA DeleteKept ==
  ASSUME NEW r, WellKept(r), NEW key \in Key, key \in KeysIn(r.root),
         NEW s, s = RbtDelete(r, key)
  PROVE  /\ WellKept(s) /\ s.size = r.size - 1 /\ r.size > 0
         /\ Without(r.root, key, Cut(s.root, RbtDeleted(r, key)))
<1>1. /\ r.root \in Tree /\ r.root \in Forest /\ r.size \in Nat /\ r.size <= N
      /\ Ordered(r.root) /\ Shaped(r.root) /\ r.size = Cardinality(KeysIn(r.root))
  BY TreeFields DEF WellKept
<1> DEFINE cut == DeleteRec(r.root, key)
<1>2. s.size = r.size - 1 /\ s.root = cut.node /\ s = [size |-> s.size, root |-> s.root]
      /\ RbtDeleted(r, key) = cut.removed
  BY DEF RbtDelete, RbtDeleted
<1>3. Without(r.root, key, cut) /\ Shaped(s.root)
  BY <1>1, <1>2, DeleteRecEffect
<1> HIDE DEF cut
<1>4. IsFiniteSet(KeysIn(r.root))
  BY <1>1, HoldsTyped
<1>5. Cardinality(KeysIn(s.root)) = Cardinality(KeysIn(r.root)) - 1
  <2>1. KeysIn(s.root) = KeysIn(r.root) \ {key}
    BY <1>2, <1>3 DEF Without
  <2>2. QED BY <1>4, <2>1, FS_RemoveElement
<1>6. r.size # 0
  BY <1>1, <1>4, FS_EmptySet
<1>7. s.size \in Nat /\ s.size <= N /\ Cardinality(KeysIn(s.root)) <= N /\ r.size > 0
  BY <1>1, <1>2, <1>5, <1>6, NAssumption
<1>8. s.root \in Tree
  BY <1>2, <1>3, <1>7, FewKeysTree DEF Without
<1>9. s \in [size : Nat, root : Tree]
  BY <1>2, <1>7, <1>8
<1>10. WellKept(s)
  BY <1>1, <1>2, <1>3, <1>5, <1>7, <1>9 DEF WellKept, Without
<1>11. /\ Cut(s.root, RbtDeleted(r, key)).node = cut.node
       /\ Cut(s.root, RbtDeleted(r, key)).removed = cut.removed
  BY <1>2 DEF Cut
<1>12. Without(r.root, key, Cut(s.root, RbtDeleted(r, key)))
  BY <1>3, <1>11 DEF Without
<1>13. QED BY <1>2, <1>7, <1>10, <1>12

\* s is r with another value at the key.
Modified(r, key, val, s) ==
  /\ WellKept(s) /\ s.size = r.size
  /\ KeysIn(s.root) = KeysIn(r.root) /\ IdsIn(s.root) = IdsIn(r.root)
  /\ PairsIn(s.root) = {p \in PairsIn(r.root) : p[1] # key} \cup {<<key, val>>}
  /\ Apart(r.root) => Apart(s.root)

\* A write to the node a search found.
LEMMA WriteKept ==
  ASSUME NEW r, WellKept(r), NEW key \in Key, key \in KeysIn(r.root), NEW val \in Val,
         NEW s, s = [r EXCEPT !.root = Write(r.root, key, val)]
  PROVE  Modified(r, key, val, s)
<1>1. /\ r.root \in Tree /\ r.size \in Nat /\ r.size <= N
      /\ Ordered(r.root) /\ Shaped(r.root) /\ r.size = Cardinality(KeysIn(r.root))
  BY DEF WellKept
<1> DEFINE u == Write(r.root, key, val)
<1>2. Rewritten(r.root, key, val, u)
  BY <1>1, WriteEffect
<1> HIDE DEF u
<1>3. u \in Tree
  BY <1>1, <1>2, NodeFields, FewKeysTree DEF Rewritten
<1>4. s \in [size : Nat, root : Tree] /\ s.root = u /\ s.size = r.size
  BY <1>3 DEF WellKept, u
<1>5. QED BY <1>1, <1>2, <1>4 DEF WellKept, Rewritten, Modified

\* rbt_find of a key.
LEMMA FindKept ==
  ASSUME NEW r, WellKept(r), NEW key \in Key
  PROVE  /\ RbtFind(r, key) # Null <=> key \in KeysIn(r.root)
         /\ key \in KeysIn(r.root) => <<key, RbtFind(r, key).val>> \in PairsIn(r.root)
<1>1. r.root \in Tree /\ r.root \in Forest /\ Ordered(r.root)
  BY TreeFields DEF WellKept
<1> DEFINE n == Find(r.root, key)
<1>2. /\ key \in KeysIn(r.root) => n \in NodesIn[r.root] /\ n.key = key
      /\ key \notin KeysIn(r.root) => n = Null
  BY <1>1, FindEffect
<1>3. RbtFind(r, key) = n
  BY DEF RbtFind
<1> HIDE DEF n
<1>4. NodesIn[r.root] \subseteq Node
  BY <1>1, HoldsTyped
<1>5. n \in NodesIn[r.root] => n # Null
  BY <1>4, NodeFields
<1>6. QED BY <1>2, <1>3, <1>5 DEF PairsIn

-----------------------------------------------------------------------------

\* What the caller of RbtUse has inserted and not deleted is in the tree.
UseInv ==
  WellKept(tree) /\ present \in SUBSET Key /\ KeysIn(tree.root) = present

\* rbt_init leaves nothing in the tree.
LEMMA UseInvInit == UseInit => UseInv
BY InitKept DEF UseInit, UseInv

\* Every call keeps the invariant.
LEMMA UseInvStep == UseInv /\ [UseNext]_useVars => UseInv'
<1> SUFFICES ASSUME UseInv, [UseNext]_useVars PROVE UseInv'
  OBVIOUS
<1>0. tree.size = Cardinality(present)
  BY DEF UseInv, WellKept
<1>1. ASSUME NEW key \in Key \ present, NEW val \in Val, UseInsert(key, val) PROVE UseInv'
  <2>1. WellKept(tree') /\ KeysIn(tree'.root) = present \cup {key}
    <3>1. /\ tree' = RbtInsert(tree, InitNode(0, key, val)) /\ WellKept(tree)
          /\ tree.size < N /\ key \in Key /\ key \notin KeysIn(tree.root)
          /\ KeysIn(tree.root) = present
      BY <1>0, <1>1 DEF UseInv, UseInsert
    <3>2. Inserted(tree, 0, key, val, tree')
      BY <3>1, InsertKept
    <3>3. QED BY <3>1, <3>2 DEF Inserted
  <2>2. QED BY <1>1, <2>1 DEF UseInv, UseInsert
<1>2. ASSUME NEW key \in present, UseDelete(key) PROVE UseInv'
  <2>1. WellKept(tree') /\ Without(tree.root, key, Cut(tree'.root, RbtDeleted(tree, key)))
    BY <1>2, DeleteKept DEF UseInv, UseDelete
  <2>2. KeysIn(tree'.root) = present \ {key}
    BY <2>1 DEF UseInv, Without, Cut
  <2>3. QED BY <1>2, <2>1, <2>2 DEF UseInv, UseDelete
<1>3. CASE UNCHANGED useVars
  BY <1>3 DEF useVars, UseInv
<1>4. QED BY <1>1, <1>2, <1>3 DEF UseNext

\* It holds in every state.
LEMMA UseInvAlways == UseSpec => []UseInv
BY UseInvInit, UseInvStep, PTL DEF UseSpec

\* In whatever order keys are inserted and deleted, the tree holds the keys
\* that were inserted and not deleted, counts them, and a search from the root
\* finds each of them and no other.
THEOREM KeysAlwaysFound == UseSpec => []KeysFound
<1>1. UseInv => KeysFound
  <2> SUFFICES ASSUME UseInv PROVE KeysFound
    OBVIOUS
  <2>1. Keys(tree.root) = present /\ tree.size = Cardinality(present)
    BY TreeSays DEF UseInv, WellKept
  <2>2. \A key \in Key : RbtFind(tree, key) # Null <=> key \in present
    BY FindKept DEF UseInv
  <2>3. QED BY <2>1, <2>2 DEF KeysFound
<1>2. QED BY <1>1, UseInvAlways, PTL

\* Every insertion and every deletion leaves a search tree whose paths down
\* all have as many black nodes and whose red links lean left, one at a time.
THEOREM AlwaysBalanced == UseSpec => []Balanced
<1>1. UseInv => Balanced
  BY TreeSays DEF UseInv, WellKept, Balanced
<1>2. QED BY <1>1, UseInvAlways, PTL

-----------------------------------------------------------------------------
(* array_rbt.c: nodes and blocks.                                          *)

\* The tree is well kept, and its nodes are the blocks the allocator has
\* handed out.
ArbtInv ==
  /\ WellKept(rbt) /\ Apart(rbt.root)
  /\ node_allocator \in FbType(N) /\ FbExact(node_allocator)
  /\ IdsIn(rbt.root) = {b \in Blocks : node_allocator.full_blocks[b] = 1}
  /\ Cardinality(IdsIn(rbt.root)) = rbt.size
  /\ FbAvailable(node_allocator) = N - rbt.size

\* A new allocator has all its blocks.
LEMMA FreshAvailable ==
  ASSUME NEW a, a = FbFresh(N)
  PROVE  /\ a \in FbType(N) /\ FbExact(a) /\ FbAvailable(a) = N
         /\ {b \in Blocks : a.full_blocks[b] = 1} = {}
<1>1. /\ a \in FbType(N) /\ FbExact(a) /\ a.full_blocks = [b \in FbBlocks(N) |-> 0]
  BY NAssumption, FbFreshExact
<1>2. FbAvailable(a) = N
  BY DEF FbFresh, Allocator, Ring, FbAvailable, RbSize
<1>3. QED BY <1>1, <1>2 DEF Blocks

\* A block handed out is one more that is full, and one less to hand out.
LEMMA MallocAvailable ==
  ASSUME NEW a \in FbType(N), FbExact(a), FbAvailable(a) > 0,
         NEW b, b = FbMallocIndex(a), NEW m, m = FbMalloc(a)
  PROVE  /\ m \in FbType(N) /\ FbExact(m) /\ FbAvailable(m) = FbAvailable(a) - 1
         /\ b \in Blocks /\ b \in Nat /\ a.full_blocks[b] = 0
         /\ {x \in Blocks : m.full_blocks[x] = 1}
              = {x \in Blocks : a.full_blocks[x] = 1} \cup {b}
<1>1. RbSize(a.flist_rb) # 0 /\ a.flist_rb \in RingType(N) /\ ~RbEmpty(a.flist_rb)
      /\ a.full_blocks \in [Blocks -> {0, 1}]
  BY NAssumption, FbFields DEF FbAvailable, RbSize, RbEmpty, Blocks
<1>2. /\ b \in Blocks /\ a.full_blocks[b] = 0 /\ m \in FbType(N) /\ FbExact(m)
      /\ m.full_blocks = [a.full_blocks EXCEPT ![b] = 1]
  BY <1>1, NAssumption, FbMallocEffect DEF Blocks
<1>3. m.flist_rb = RbPopFront(a.flist_rb)
  BY <1>1 DEF FbMalloc, Allocator
<1>4. FbAvailable(m) = FbAvailable(a) - 1
  BY <1>1, <1>3, NAssumption, PopFrontEffect DEF FbAvailable, RbSize
<1>5. b \in Nat
  BY <1>2, NAssumption DEF Blocks, FbBlocks
<1>6. QED BY <1>1, <1>2, <1>4, <1>5

\* And the other way round.
LEMMA FreeAvailable ==
  ASSUME NEW a \in FbType(N), FbExact(a), NEW b \in Blocks, a.full_blocks[b] = 1,
         NEW m, m = FbFreeIndex(a, b)
  PROVE  /\ m \in FbType(N) /\ FbExact(m) /\ FbAvailable(m) = FbAvailable(a) + 1
         /\ {x \in Blocks : m.full_blocks[x] = 1}
              = {x \in Blocks : a.full_blocks[x] = 1} \ {b}
<1>1. a.flist_rb \in RingType(N) /\ a.full_blocks \in [Blocks -> {0, 1}]
  BY NAssumption, FbFields DEF Blocks
<1>2. ~RbFull(a.flist_rb)
  BY NAssumption, FbRoomToFree DEF Blocks
<1>3. /\ m \in FbType(N) /\ FbExact(m) /\ m.full_blocks = [a.full_blocks EXCEPT ![b] = 0]
  BY NAssumption, FbFreeEffect DEF Blocks
<1>4. m.flist_rb = RbPushFront(a.flist_rb)
  BY DEF FbFreeIndex, Allocator
<1>5. FbAvailable(m) = FbAvailable(a) + 1
  BY <1>1, <1>2, <1>4, NAssumption, PushFrontEffect DEF FbAvailable, RbSize
<1>6. QED BY <1>1, <1>3, <1>5

-----------------------------------------------------------------------------

\* arbt_new, and arbt_clear.
LEMMA FreshTree ==
  ASSUME rbt' = RbtInit, node_allocator' = FbFresh(N)
  PROVE  ArbtInv' /\ PairsIn(rbt'.root) = {}
<1>1. Cardinality({}) = 0
  BY FS_EmptySet
<1>2. FbAvailable(node_allocator') = N /\ N - 0 = N
  BY FreshAvailable, NAssumption
<1>3. QED BY <1>1, <1>2, InitKept, FreshAvailable DEF ArbtInv, Blocks

\* It holds of what arbt_new makes.
LEMMA ArbtInvInit == Init => ArbtInv
<1> SUFFICES ASSUME Init PROVE ArbtInv
  OBVIOUS
<1>1. rbt = RbtInit /\ node_allocator = FbFresh(N)
  BY DEF Init, FbInit
<1>2. Cardinality({}) = 0
  BY FS_EmptySet
<1>3. FbAvailable(node_allocator) = N /\ N - 0 = N
  BY <1>1, FreshAvailable, NAssumption
<1>4. QED BY <1>1, <1>2, <1>3, InitKept, FreshAvailable DEF ArbtInv

\* arbt_insert.
LEMMA InsertStep ==
  ASSUME ArbtInv, NEW key \in Key, NEW val \in Val, Insert(key, val)
  PROVE  /\ ArbtInv' /\ key \notin KeysIn(rbt.root) /\ rbt.size < N
         /\ PairsIn(rbt'.root) = PairsIn(rbt.root) \cup {<<key, val>>}
         /\ KeysIn(rbt'.root) = KeysIn(rbt.root) \cup {key}
<1> DEFINE b == FbMallocIndex(node_allocator)
<1>1. /\ node_allocator' \in FbType(N) /\ FbExact(node_allocator')
      /\ FbAvailable(node_allocator') = FbAvailable(node_allocator) - 1
      /\ b \in Blocks /\ b \in Nat /\ node_allocator.full_blocks[b] = 0
      /\ {x \in Blocks : node_allocator'.full_blocks[x] = 1}
           = {x \in Blocks : node_allocator.full_blocks[x] = 1} \cup {b}
  BY MallocAvailable DEF ArbtInv, Insert
<1>2. rbt' = RbtInsert(rbt, InitNode(b, key, val))
  BY DEF Insert
<1> HIDE DEF b
<1>3. key \notin KeysIn(rbt.root)
  BY FindKept DEF ArbtInv, Insert
<1>4. rbt.size \in Nat /\ rbt.size < N
  BY NAssumption DEF ArbtInv, Insert, WellKept
<1>5. b \notin IdsIn(rbt.root)
  BY <1>1 DEF ArbtInv
<1>6. /\ WellKept(rbt') /\ rbt'.size = rbt.size + 1 /\ Apart(rbt'.root)
      /\ KeysIn(rbt'.root) = KeysIn(rbt.root) \cup {key}
      /\ PairsIn(rbt'.root) = PairsIn(rbt.root) \cup {<<key, val>>}
      /\ IdsIn(rbt'.root) = IdsIn(rbt.root) \cup {b}
  <2>1. WellKept(rbt) /\ Apart(rbt.root)
    BY DEF ArbtInv
  <2>2. b \in Nat
    BY <1>1
  <2>3. Inserted(rbt, b, key, val, rbt')
    BY <1>2, <1>3, <1>4, <2>1, <2>2, InsertKept
  <2>4. QED BY <1>5, <2>1, <2>3 DEF Inserted
<1>7. Cardinality(IdsIn(rbt'.root)) = rbt'.size
  <2>1. IsFiniteSet(IdsIn(rbt.root))
    <3>1. IdsIn(rbt.root) \subseteq 0 .. N - 1
      BY DEF ArbtInv, Blocks, FbBlocks
    <3>2. IsFiniteSet(0 .. N - 1)
      BY NAssumption, FS_Interval
    <3>3. QED BY <3>1, <3>2, FS_Subset
  <2>2. Cardinality(IdsIn(rbt.root)) = rbt.size
    BY DEF ArbtInv
  <2> DEFINE S == IdsIn(rbt.root)
  <2>3. Cardinality(S \cup {b}) = Cardinality(S) + 1
    <3> HIDE DEF S
    <3>1. IsFiniteSet(S) /\ b \notin S
      BY <1>5, <2>1 DEF S
    <3>2. QED BY <3>1, FS_AddElement
  <2>4. QED BY <1>6, <2>2, <2>3
<1>8. FbAvailable(node_allocator') = N - rbt'.size
  BY <1>1, <1>4, <1>6, NAssumption DEF ArbtInv
<1>9. ArbtInv'
  BY <1>1, <1>6, <1>7, <1>8 DEF ArbtInv, Blocks
<1>10. QED BY <1>3, <1>4, <1>6, <1>9

\* arbt_delete: the block it frees is the one the tree has given up.
LEMMA DeleteStep ==
  ASSUME ArbtInv, NEW key \in Key, Delete(key)
  PROVE  /\ ArbtInv' /\ key \in KeysIn(rbt.root)
         /\ PairsIn(rbt'.root) = {p \in PairsIn(rbt.root) : p[1] # key}
         /\ KeysIn(rbt'.root) = KeysIn(rbt.root) \ {key}
<1> DEFINE b == Deleted(key).id
<1>1. key \in KeysIn(rbt.root)
  BY FindKept DEF ArbtInv, Delete
<1>2. rbt' = RbtDelete(rbt, key) /\ node_allocator' = FbFreeIndex(node_allocator, b)
  BY DEF Delete
<1>3. /\ WellKept(rbt') /\ rbt'.size = rbt.size - 1 /\ rbt.size > 0
      /\ Without(rbt.root, key, Cut(rbt'.root, RbtDeleted(rbt, key)))
  BY <1>1, <1>2, DeleteKept DEF ArbtInv
<1>4. /\ Apart(rbt'.root) /\ b \in IdsIn(rbt.root)
      /\ IdsIn(rbt'.root) = IdsIn(rbt.root) \ {b}
      /\ PairsIn(rbt'.root) = {p \in PairsIn(rbt.root) : p[1] # key}
      /\ KeysIn(rbt'.root) = KeysIn(rbt.root) \ {key}
  BY <1>3 DEF ArbtInv, Without, Cut, Deleted
<1> HIDE DEF b
<1>5. b \in Blocks /\ node_allocator.full_blocks[b] = 1
  BY <1>4 DEF ArbtInv
<1>6. /\ node_allocator' \in FbType(N) /\ FbExact(node_allocator')
      /\ FbAvailable(node_allocator') = FbAvailable(node_allocator) + 1
      /\ {x \in Blocks : node_allocator'.full_blocks[x] = 1}
           = {x \in Blocks : node_allocator.full_blocks[x] = 1} \ {b}
  BY <1>2, <1>5, FreeAvailable DEF ArbtInv
<1>7. Cardinality(IdsIn(rbt'.root)) = rbt'.size
  <2>1. IsFiniteSet(IdsIn(rbt.root))
    <3>1. IdsIn(rbt.root) \subseteq 0 .. N - 1
      BY DEF ArbtInv, Blocks, FbBlocks
    <3>2. IsFiniteSet(0 .. N - 1)
      BY NAssumption, FS_Interval
    <3>3. QED BY <3>1, <3>2, FS_Subset
  <2>2. Cardinality(IdsIn(rbt.root)) = rbt.size
    BY DEF ArbtInv
  <2>3. QED BY <1>3, <1>4, <2>1, <2>2, FS_RemoveElement
<1>8. FbAvailable(node_allocator') = N - rbt'.size
  <2>1. rbt.size \in Nat
    BY DEF ArbtInv, WellKept
  <2>2. QED BY <1>3, <1>6, <2>1, NAssumption DEF ArbtInv
<1>9. ArbtInv'
  BY <1>3, <1>4, <1>6, <1>7, <1>8 DEF ArbtInv, Blocks
<1>10. QED BY <1>1, <1>4, <1>9

\* arbt_modify.
LEMMA ModifyStep ==
  ASSUME ArbtInv, NEW key \in Key, NEW val \in Val, Modify(key, val)
  PROVE  /\ ArbtInv' /\ key \in KeysIn(rbt.root) /\ KeysIn(rbt'.root) = KeysIn(rbt.root)
         /\ PairsIn(rbt'.root)
              = {p \in PairsIn(rbt.root) : p[1] # key} \cup {<<key, val>>}
<1>1. key \in KeysIn(rbt.root)
  BY FindKept DEF ArbtInv, Modify
<1>2. rbt' = [rbt EXCEPT !.root = Write(rbt.root, key, val)]
      /\ UNCHANGED node_allocator
  BY DEF Modify
<1>3. /\ WellKept(rbt') /\ rbt'.size = rbt.size /\ Apart(rbt'.root)
      /\ KeysIn(rbt'.root) = KeysIn(rbt.root) /\ IdsIn(rbt'.root) = IdsIn(rbt.root)
      /\ PairsIn(rbt'.root)
           = {p \in PairsIn(rbt.root) : p[1] # key} \cup {<<key, val>>}
  <2>1. WellKept(rbt) /\ Apart(rbt.root)
    BY DEF ArbtInv
  <2>2. Modified(rbt, key, val, rbt')
    BY <1>1, <1>2, <2>1, WriteKept
  <2>3. QED BY <2>1, <2>2 DEF Modified
<1>4. ArbtInv'
  BY <1>2, <1>3 DEF ArbtInv, Blocks
<1>5. QED BY <1>1, <1>3, <1>4

\* arbt_clear.
LEMMA ClearStep ==
  ASSUME ArbtInv, Clear
  PROVE  ArbtInv' /\ PairsIn(rbt'.root) = {} /\ rbt'.root = Null
<1>1. node_allocator' = FbFresh(N) /\ rbt' = RbtInit
  BY NAssumption, FbFields DEF Clear, ArbtInv, FbClear
<1>2. QED BY <1>1, FreshTree, InitKept

\* Every call keeps the invariant.
LEMMA ArbtInvStep == ArbtInv /\ [Next]_vars => ArbtInv'
<1> SUFFICES ASSUME ArbtInv, [Next]_vars PROVE ArbtInv'
  OBVIOUS
<1>1. ASSUME NEW key \in Key, NEW val \in Val, Insert(key, val) PROVE ArbtInv'
  BY <1>1, InsertStep
<1>2. ASSUME NEW key \in Key, NEW val \in Val, Modify(key, val) PROVE ArbtInv'
  BY <1>2, ModifyStep
<1>3. ASSUME NEW key \in Key, Delete(key) PROVE ArbtInv'
  BY <1>3, DeleteStep
<1>4. ASSUME NEW key \in Key, Get(key) PROVE ArbtInv'
  BY <1>4 DEF Get, ArbtInv
<1>5. ASSUME NEW key \in Key, ContainsKey(key) PROVE ArbtInv'
  BY <1>5 DEF ContainsKey, ArbtInv
<1>6. CASE Clear
  BY <1>6, ClearStep
<1>7. CASE UNCHANGED vars
  BY <1>7 DEF vars, ArbtInv
<1>8. QED BY <1>1, <1>2, <1>3, <1>4, <1>5, <1>6, <1>7 DEF Next

\* It holds in every state.
LEMMA ArbtInvAlways == Spec => []ArbtInv
BY ArbtInvInit, ArbtInvStep, PTL DEF Spec

\* The blocks handed out are the nodes of the tree, one block to a node, in
\* every state: arbt_delete frees the block the tree gave up, although the key
\* may have been in another one, so no block leaks and none is freed in use.
THEOREM NodesAlwaysBlocks == Spec => []NodesAreBlocks
<1>1. ArbtInv => NodesAreBlocks
  <2> SUFFICES ASSUME ArbtInv PROVE NodesAreBlocks
    OBVIOUS
  <2>1. {n.id : n \in Nodes(rbt.root)} = IdsIn(rbt.root)
    BY NodesAre DEF ArbtInv, WellKept, IdsIn
  <2>2. QED BY <2>1 DEF ArbtInv, NodesAreBlocks
<1>2. QED BY <1>1, ArbtInvAlways, PTL

-----------------------------------------------------------------------------
(* array_rbt.c is a bounded map.                                           *)

\* The map a tree is.
MapOf(t) == [k \in Keys(t) |-> (CHOOSE n \in Nodes(t) : n.key = k).val]

\* In a search tree the map has the keys of the tree and agrees with its pairs,
\* and is the only function that does.
LEMMA MapOfPairs ==
  ASSUME NEW t \in Tree, Ordered(t)
  PROVE  /\ MapOf(t) = [k \in KeysIn(t) |-> MapOf(t)[k]]
         /\ \A k \in KeysIn(t) : <<k, MapOf(t)[k]>> \in PairsIn(t)
         /\ \A p \in PairsIn(t) : MapOf(t)[p[1]] = p[2]
<1>1. t \in Forest /\ Keys(t) = KeysIn(t) /\ Nodes(t) = NodesIn[t]
  BY TreeFields, TreeSays, NodesAre
<1> DEFINE m == MapOf(t)
<1>2. m = [k \in KeysIn(t) |-> (CHOOSE n \in NodesIn[t] : n.key = k).val]
  BY <1>1 DEF MapOf
<1> HIDE DEF m
<1>3. m = [k \in KeysIn(t) |-> m[k]]
  BY <1>2
<1>4. ASSUME NEW k \in KeysIn(t) PROVE <<k, m[k]>> \in PairsIn(t)
  <2> DEFINE n == CHOOSE n \in NodesIn[t] : n.key = k
  <2>1. n \in NodesIn[t] /\ n.key = k
    BY <1>4 DEF KeysIn
  <2>2. m[k] = n.val
    BY <1>2
  <2> HIDE DEF n
  <2>3. QED BY <2>1, <2>2 DEF PairsIn
<1>5. ASSUME NEW p \in PairsIn(t) PROVE m[p[1]] = p[2]
  <2>1. p[1] \in KeysIn(t)
    BY <1>1, HoldsTyped
  <2>2. <<p[1], m[p[1]]>> \in PairsIn(t) /\ <<p[1], m[p[1]]>>[1] = p[1]
    BY <1>4, <2>1
  <2>3. <<p[1], m[p[1]]>> = p
    BY <1>1, <2>2, PairsOnce
  <2>4. <<p[1], m[p[1]]>>[2] = p[2]
    BY <2>3
  <2>5. QED BY <2>4
<1>6. QED BY <1>3, <1>4, <1>5 DEF m

\* A function with the keys of a search tree that agrees with its pairs is its
\* map.
LEMMA MapKnown ==
  ASSUME NEW t \in Tree, Ordered(t), NEW f, f = [k \in KeysIn(t) |-> f[k]],
         \A k \in KeysIn(t) : <<k, f[k]>> \in PairsIn(t)
  PROVE  MapOf(t) = f
<1> DEFINE m == MapOf(t)
<1>1. m = [k \in KeysIn(t) |-> m[k]] /\ \A p \in PairsIn(t) : m[p[1]] = p[2]
  BY MapOfPairs
<1> HIDE DEF m
<1>2. ASSUME NEW k \in KeysIn(t) PROVE m[k] = f[k]
  <2>1. m[<<k, f[k]>>[1]] = <<k, f[k]>>[2]
    BY <1>1
  <2>2. QED BY <2>1
<1>3. m = f
  BY <1>1, <1>2
<1>4. QED BY <1>3 DEF m

\* The map of the state and of the next one.
LEMMA PairsAre ==
  /\ Pairs = MapOf(rbt.root)
  /\ Pairs' = MapOf(rbt'.root)
BY DEF Pairs, MapOf

\* A tree without keys is the empty map.
LEMMA EmptyMap == MapOf(Null) = << >>
<1>1. Keys(Null) = {}
  BY TreeFields, TreeSays, NullHolds
<1>2. QED BY <1>1 DEF MapOf

\* Every call is a call of the abstract map, or changes nothing.
LEMMA MapStep == ArbtInv /\ [Next]_vars => [Map!Next]_Map!vars
<1> SUFFICES ASSUME ArbtInv, Next \/ UNCHANGED vars
             PROVE  Map!Next \/ UNCHANGED Map!vars
  BY DEF vars
<1> DEFINE keys == KeysIn(rbt.root)
<1>0. /\ WellKept(rbt) /\ rbt.root \in Tree /\ Ordered(rbt.root) /\ rbt.size = Cardinality(keys)
      /\ ArbtInv' => WellKept(rbt') /\ rbt'.root \in Tree /\ Ordered(rbt'.root)
  BY DEF ArbtInv, WellKept
<1>1. /\ Pairs = [k \in keys |-> Pairs[k]]
      /\ \A k \in keys : <<k, Pairs[k]>> \in PairsIn(rbt.root)
      /\ \A p \in PairsIn(rbt.root) : Pairs[p[1]] = p[2]
  BY <1>0, PairsAre, MapOfPairs
<1>2. DOMAIN Pairs = keys
  BY <1>1
<1>3. ASSUME ArbtInv', NEW f, f = [k \in KeysIn(rbt'.root) |-> f[k]],
             \A k \in KeysIn(rbt'.root) : <<k, f[k]>> \in PairsIn(rbt'.root)
      PROVE  Pairs' = f
  BY <1>0, <1>3, PairsAre, MapKnown
<1> HIDE DEF keys
<1>4. ASSUME NEW key \in Key, NEW val \in Val, Insert(key, val) PROVE Map!Next
  <2>1. /\ ArbtInv' /\ key \notin keys /\ rbt.size < N
        /\ PairsIn(rbt'.root) = PairsIn(rbt.root) \cup {<<key, val>>}
        /\ KeysIn(rbt'.root) = keys \cup {key}
    BY <1>4, InsertStep DEF keys
  <2> DEFINE f == [x \in keys \cup {key} |-> IF x = key THEN val ELSE Pairs[x]]
  <2>2. \A k \in keys \cup {key} : <<k, f[k]>> \in PairsIn(rbt'.root)
    BY <1>1, <2>1
  <2>3. f = [k \in keys \cup {key} |-> f[k]]
    OBVIOUS
  <2> HIDE DEF f
  <2>4. Pairs' = f
    BY <1>3, <2>1, <2>2, <2>3
  <2>5. ret' = Null
    BY <1>4 DEF Insert
  <2>6. Map!Insert(key, val)
    <3>1. key \notin DOMAIN Pairs /\ Cardinality(DOMAIN Pairs) < N
      BY <1>0, <1>2, <2>1 DEF keys
    <3>2. Pairs' = [x \in DOMAIN Pairs \cup {key} |-> IF x = key THEN val ELSE Pairs[x]]
      BY <1>2, <2>4 DEF f
    <3>3. Map!Cardinality(DOMAIN Pairs) = Cardinality(DOMAIN Pairs)
      BY Zenon DEF Cardinality, Map!Cardinality
    <3>4. QED BY <2>5, <3>1, <3>2, <3>3 DEF Map!Insert
  <2>7. QED BY <2>6 DEF Map!Next
<1>5. ASSUME NEW key \in Key, NEW val \in Val, Modify(key, val) PROVE Map!Next
  <2>1. /\ ArbtInv' /\ key \in keys /\ KeysIn(rbt'.root) = keys
        /\ PairsIn(rbt'.root)
             = {p \in PairsIn(rbt.root) : p[1] # key} \cup {<<key, val>>}
    BY <1>5, ModifyStep DEF keys
  <2> DEFINE f == [Pairs EXCEPT ![key] = val]
  <2>2. \A k \in keys : <<k, f[k]>> \in PairsIn(rbt'.root)
    <3>1. ASSUME NEW k \in keys, k # key PROVE <<k, Pairs[k]>> \in PairsIn(rbt'.root)
      <4>1. <<k, Pairs[k]>> \in PairsIn(rbt.root) /\ <<k, Pairs[k]>>[1] # key
        BY <1>1, <3>1
      <4>2. QED BY <2>1, <4>1
    <3>2. f[key] = val /\ \A k \in keys \ {key} : f[k] = Pairs[k]
      BY <1>1, <2>1
    <3> HIDE DEF f
    <3>3. QED BY <2>1, <3>1, <3>2
  <2>3. f = [k \in keys |-> f[k]]
    BY <1>1
  <2> HIDE DEF f
  <2>4. Pairs' = f
    BY <1>3, <2>1, <2>2, <2>3
  <2>5. ret' = Null
    BY <1>5 DEF Modify
  <2>6. Map!Modify(key, val)
    BY <1>2, <2>1, <2>4, <2>5 DEF Map!Modify, f
  <2>7. QED BY <2>6 DEF Map!Next
<1>6. ASSUME NEW key \in Key, Delete(key) PROVE Map!Next
  <2>1. /\ ArbtInv' /\ key \in keys /\ KeysIn(rbt'.root) = keys \ {key}
        /\ PairsIn(rbt'.root) = {p \in PairsIn(rbt.root) : p[1] # key}
    BY <1>6, DeleteStep DEF keys
  <2> DEFINE f == [x \in keys \ {key} |-> Pairs[x]]
  <2>2. ASSUME NEW k \in keys \ {key} PROVE <<k, f[k]>> \in PairsIn(rbt'.root)
    <3>1. <<k, Pairs[k]>> \in PairsIn(rbt.root) /\ <<k, Pairs[k]>>[1] # key
      BY <1>1
    <3>2. QED BY <2>1, <3>1
  <2>3. f = [k \in keys \ {key} |-> f[k]]
    OBVIOUS
  <2> HIDE DEF f
  <2>4. Pairs' = f
    BY <1>3, <2>1, <2>2, <2>3
  <2>5. ret' = Null
    BY <1>6 DEF Delete
  <2>6. Map!Delete(key)
    BY <1>2, <2>1, <2>4, <2>5 DEF Map!Delete, f
  <2>7. QED BY <2>6 DEF Map!Next
<1>7. ASSUME NEW key \in Key, Get(key) PROVE Map!Next
  <2>1. key \in keys /\ <<key, RbtFind(rbt, key).val>> \in PairsIn(rbt.root)
    BY <1>0, <1>7, FindKept DEF Get, keys
  <2>2. RbtFind(rbt, key).val = Pairs[key]
    <3> DEFINE v == RbtFind(rbt, key).val
    <3> HIDE DEF v
    <3>1. Pairs[<<key, v>>[1]] = <<key, v>>[2]
      BY <1>1, <2>1 DEF v
    <3>2. QED BY <3>1 DEF v
  <2>3. UNCHANGED Pairs
    BY <1>7, PairsAre DEF Get
  <2>4. Map!Get(key)
    BY <1>2, <1>7, <2>1, <2>2, <2>3 DEF Get, Map!Get
  <2>5. QED BY <2>4 DEF Map!Next
<1>8. ASSUME NEW key \in Key, ContainsKey(key) PROVE Map!Next
  <2>1. RbtFind(rbt, key) # Null <=> key \in keys
    BY <1>0, FindKept DEF keys
  <2>2. UNCHANGED Pairs
    BY <1>8, PairsAre DEF ContainsKey
  <2>3. Map!Contains(key)
    BY <1>2, <1>8, <2>1, <2>2 DEF ContainsKey, Map!Contains
  <2>4. QED BY <2>3 DEF Map!Next
<1>9. CASE Clear
  <2>1. Pairs' = << >>
    BY <1>9, ClearStep, PairsAre, EmptyMap
  <2>2. Map!Clear
    BY <1>9, <2>1 DEF Clear, Map!Clear
  <2>3. QED BY <2>2 DEF Map!Next
<1>10. CASE UNCHANGED vars
  BY <1>10, PairsAre DEF vars, Map!vars
<1>11. QED BY <1>4, <1>5, <1>6, <1>7, <1>8, <1>9, <1>10 DEF Next

\* The tree in its array is a bounded map: arbt_get and arbt_contains answer
\* what was inserted or modified last, arbt_insert finds room as long as there
\* are fewer than N keys, and arbt_delete takes away its key and no other, for
\* every set of keys and any number of nodes.
THEOREM RefinesKeyMap == Spec => MapSpec
<1>1. Init => Map!Init
  <2> SUFFICES ASSUME Init PROVE Map!Init
    OBVIOUS
  <2>1. Pairs = << >> /\ ret = Null
    BY InitKept, PairsAre, EmptyMap DEF Init
  <2>2. QED BY <2>1 DEF Map!Init
<1>2. QED BY <1>1, ArbtInvInit, ArbtInvStep, MapStep, PTL DEF Spec, MapSpec, Map!Spec
=============================================================================
