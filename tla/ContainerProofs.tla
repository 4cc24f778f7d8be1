--------------------------- MODULE ContainerProofs ---------------------------
(***************************************************************************)
(* Facts about the containers, for every capacity, that the proofs about   *)
(* the machines cite: what the operations on a ring do to the slots in     *)
(* use, what those on an allocator do to its free list and those on a      *)
(* linked list to the sequence it holds.  Before them, what a proof needs  *)
(* to know of a loop and of a sequence without repetition.                 *)
(***************************************************************************)
EXTENDS RingFbaa, SequencesExt, FiniteSetTheorems, SequenceTheorems,
        WellFoundedInduction, TLAPS

-----------------------------------------------------------------------------
(* Loops.  A loop is a function of its turns, defined by what one turn     *)
(* makes of the turn before.                                               *)

\* A set of natural numbers has a least one.
LEMMA LeastElement ==
  ASSUME NEW T \in SUBSET Nat, T # {}
  PROVE  \E m \in T : \A k \in T : m <= k
<1> DEFINE R == OpToRel(<, Nat)
<1>1. PICK m \in T : \A k \in T : <<k, m>> \notin R
  <2>1. IsWellFoundedOn(R, Nat)
    BY NatLessThanWellFounded
  <2> HIDE DEF R
  <2>2. QED BY <2>1, WFMin
<1>2. ASSUME NEW k \in T PROVE m <= k
  <2>1. <<k, m>> \in Nat \X Nat
    OBVIOUS
  <2>2. ~(k < m)
    BY <1>1, <2>1 DEF OpToRel
  <2>3. QED BY <2>2
<1>3. QED BY <1>2

\* What one turn carries on holds after every turn.
LEMMA LoopRange ==
  ASSUME NEW n \in Nat, NEW G, NEW f, f[0] \in G[0],
         \A i \in 1 .. n : f[i - 1] \in G[i - 1] => f[i] \in G[i]
  PROVE  \A i \in 0 .. n : f[i] \in G[i]
<1> SUFFICES ASSUME NEW i \in 0 .. n, f[i] \notin G[i] PROVE FALSE
  OBVIOUS
<1> DEFINE T == {k \in 0 .. n : f[k] \notin G[k]}
<1>1. T \in SUBSET Nat /\ T # {}
  OBVIOUS
<1>2. PICK m \in T : \A k \in T : m <= k
  BY <1>1, LeastElement
<1>3. m \in 1 .. n /\ m - 1 \in 0 .. n
  OBVIOUS
<1>4. f[m - 1] \in G[m - 1]
  BY <1>2, <1>3
<1>5. QED BY <1>3, <1>4

\* f tells the state after every turn of a loop of n turns.
IsCourse(f, n, start, step) ==
  /\ f = [i \in 0 .. n |-> f[i]] /\ f[0] = start
  /\ \A i \in 1 .. n : f[i] = step[i][f[i - 1]]

\* A loop that one turn carries from a state of G[i - 1] to one of G[i] has
\* a course.
LEMMA LoopExists ==
  ASSUME NEW n \in Nat, NEW G, NEW start \in G[0], NEW step,
         \A i \in 1 .. n : \A x \in G[i - 1] : step[i][x] \in G[i]
  PROVE  \E f : IsCourse(f, n, start, step) /\ \A i \in 0 .. n : f[i] \in G[i]
<1> DEFINE U == UNION {G[i] : i \in 0 .. n}
           Run(f, k) == /\ f[0] = start
                        /\ \A i \in 1 .. k : f[i] = step[i][f[i - 1]]
                        /\ \A i \in 0 .. k : f[i] \in G[i]
           T == {k \in 0 .. n : \A f \in [0 .. k -> U] : ~Run(f, k)}
<1>1. ASSUME NEW m \in 1 .. n, m - 1 \notin T PROVE m \notin T
  <2>1. m - 1 \in 0 .. n /\ m \in 0 .. n
    OBVIOUS
  <2>2. PICK f \in [0 .. m - 1 -> U] : Run(f, m - 1)
    BY <1>1, <2>1
  <2> DEFINE g == [i \in 0 .. m |-> IF i = m THEN step[m][f[m - 1]] ELSE f[i]]
  <2>3. f[m - 1] \in G[m - 1]
    BY <2>1, <2>2
  <2>4. step[m][f[m - 1]] \in G[m]
    BY <2>3
  <2>5. g \in [0 .. m -> U]
    <3>1. ASSUME NEW i \in 0 .. m PROVE g[i] \in U
      <4>1. CASE i = m
        BY <2>1, <2>4, <4>1
      <4>2. CASE i # m
        <5>1. i \in 0 .. m - 1
          BY <4>2
        <5>2. QED BY <4>2, <5>1
      <4>3. QED BY <4>1, <4>2
    <3>2. QED BY <3>1
  <2>6. Run(g, m)
    <3>1. ASSUME NEW i \in 1 .. m PROVE g[i] = step[i][g[i - 1]]
      <4>1. CASE i = m
        BY <4>1
      <4>2. CASE i # m
        <5>1. i \in 1 .. m - 1 /\ i \in 0 .. m /\ i - 1 \in 0 .. m /\ i - 1 # m
          BY <4>2
        <5>2. g[i] = f[i] /\ g[i - 1] = f[i - 1]
          BY <4>2, <5>1
        <5>3. QED BY <2>2, <5>1, <5>2
      <4>3. QED BY <4>1, <4>2
    <3>2. ASSUME NEW i \in 0 .. m PROVE g[i] \in G[i]
      <4>1. CASE i = m
        BY <2>4, <4>1
      <4>2. CASE i # m
        <5>1. i \in 0 .. m - 1
          BY <4>2
        <5>2. QED BY <2>2, <4>2, <5>1
      <4>3. QED BY <4>1, <4>2
    <3>3. g[0] = start
      BY <2>2
    <3>4. QED BY <3>1, <3>2, <3>3
  <2>7. QED BY <2>5, <2>6
<1>2. 0 \notin T
  <2> DEFINE g == [i \in 0 .. 0 |-> start]
  <2>1. g \in [0 .. 0 -> U] /\ Run(g, 0)
    OBVIOUS
  <2>2. QED BY <2>1
<1>3. T = {}
  <2> SUFFICES ASSUME T # {} PROVE FALSE
    OBVIOUS
  <2>1. T \in SUBSET Nat
    OBVIOUS
  <2> HIDE DEF T
  <2>2. PICK m \in T : \A k \in T : m <= k
    BY <2>1, LeastElement
  <2>3. m \in 0 .. n
    BY DEF T
  <2>4. m # 0 /\ m \in 1 .. n
    BY <1>2, <2>3
  <2>5. m - 1 \notin T
    BY <2>2, <2>3
  <2>6. QED BY <1>1, <2>4, <2>5
<1>4. PICK f \in [0 .. n -> U] : Run(f, n)
  <2>1. n \in 0 .. n
    OBVIOUS
  <2>2. ~(n \in T)
    <3> HIDE DEF T
    <3>1. QED BY <1>3
  <2>3. QED BY <2>1, <2>2
<1>5. IsCourse(f, n, start, step)
  BY <1>4 DEF IsCourse
<1>6. QED BY <1>4, <1>5

-----------------------------------------------------------------------------
(* Sequences without repetition, as free lists are.                        *)

\* A free number put in front of distinct ones leaves them distinct.
LEMMA PushFree ==
  ASSUME NEW S, NEW q \in Seq(S), IsInjective(q), NEW x \in S, x \notin Range(q)
  PROVE  /\ <<x>> \o q \in Seq(S) /\ IsInjective(<<x>> \o q)
         /\ Range(<<x>> \o q) = Range(q) \cup {x}
<1> DEFINE p == <<x>> \o q
<1>1. /\ p \in Seq(S) /\ DOMAIN p = 1 .. Len(q) + 1 /\ p[1] = x
      /\ DOMAIN q = 1 .. Len(q) /\ Len(q) \in Nat
      /\ \A i \in 2 .. Len(q) + 1 : i - 1 \in DOMAIN q /\ p[i] = q[i - 1]
      /\ \A i \in DOMAIN q : i + 1 \in DOMAIN p /\ p[i + 1] = q[i]
  OBVIOUS
<1> HIDE DEF p
<1>2. \A i \in DOMAIN q : q[i] # x
  BY DEF Range
<1>3. ASSUME NEW i \in DOMAIN p, NEW j \in DOMAIN p, p[i] = p[j] PROVE i = j
  <2>0. \A k \in DOMAIN p : k # 1 => k \in 2 .. Len(q) + 1 /\ p[k] # x
    <3>1. \A k \in DOMAIN p : k # 1 => k \in 2 .. Len(q) + 1
      BY <1>1
    <3>2. QED BY <1>1, <1>2, <3>1
  <2>1. CASE i = 1 \/ j = 1
    <3>1. p[1] = x
      BY <1>1
    <3>2. QED BY <1>3, <2>0, <2>1, <3>1
  <2>2. CASE i # 1 /\ j # 1
    <3>1. i \in 2 .. Len(q) + 1 /\ j \in 2 .. Len(q) + 1
      BY <2>0, <2>2
    <3>2. /\ i - 1 \in DOMAIN q /\ j - 1 \in DOMAIN q
          /\ q[i - 1] = q[j - 1]
      BY <1>1, <1>3, <3>1
    <3>3. i - 1 = j - 1
      BY <3>2 DEF IsInjective
    <3>4. QED BY <3>1, <3>3
  <2>3. QED BY <2>1, <2>2
<1>4. \A y : y \in Range(p) <=> y \in Range(q) \cup {x}
  <2>1. ASSUME NEW i \in DOMAIN p PROVE p[i] \in Range(q) \cup {x}
    <3>1. CASE i = 1
      BY <1>1, <3>1
    <3>2. CASE i # 1
      <4>1. i \in 2 .. Len(q) + 1
        BY <1>1, <3>2
      <4>2. i - 1 \in DOMAIN q /\ p[i] = q[i - 1]
        BY <1>1, <4>1
      <4>3. QED BY <4>2 DEF Range
    <3>3. QED BY <3>1, <3>2
  <2>2. ASSUME NEW i \in DOMAIN q PROVE q[i] \in Range(p)
    <3>1. i + 1 \in DOMAIN p /\ p[i + 1] = q[i]
      BY <1>1
    <3>2. QED BY <3>1 DEF Range
  <2>3. x \in Range(p)
    <3>1. 1 \in DOMAIN p
      BY <1>1
    <3>2. QED BY <1>1, <3>1 DEF Range
  <2>4. QED BY <2>1, <2>2, <2>3 DEF Range
<1>5. QED BY <1>1, <1>3, <1>4 DEF p, IsInjective

\* The first of distinct numbers is not among the rest.
LEMMA PopFree ==
  ASSUME NEW S, NEW q \in Seq(S), IsInjective(q), q # <<>>
  PROVE  /\ Tail(q) \in Seq(S) /\ IsInjective(Tail(q))
         /\ Head(q) \in S /\ Head(q) \in Range(q)
         /\ Range(Tail(q)) = Range(q) \ {Head(q)}
<1> DEFINE p == Tail(q)
<1>1. /\ p \in Seq(S) /\ DOMAIN p = 1 .. Len(q) - 1 /\ Head(q) = q[1]
      /\ DOMAIN q = 1 .. Len(q) /\ Len(q) \in Nat /\ 1 \in DOMAIN q
      /\ \A i \in DOMAIN p : i + 1 \in DOMAIN q /\ p[i] = q[i + 1]
      /\ \A i \in DOMAIN q \ {1} : i - 1 \in DOMAIN p /\ p[i - 1] = q[i]
  OBVIOUS
<1> HIDE DEF p
<1>2. ASSUME NEW i \in DOMAIN p, NEW j \in DOMAIN p, p[i] = p[j] PROVE i = j
  <2>1. i + 1 = j + 1
    BY <1>1, <1>2 DEF IsInjective
  <2>2. QED BY <1>1, <2>1
<1>3. ASSUME NEW i \in DOMAIN p PROVE p[i] \in Range(q) \ {q[1]}
  <2>1. i + 1 # 1 /\ i + 1 \in DOMAIN q /\ 1 \in DOMAIN q /\ p[i] = q[i + 1]
    BY <1>1
  <2>2. q[i + 1] # q[1]
    BY <2>1 DEF IsInjective
  <2>3. q[i + 1] \in Range(q)
    BY <2>1 DEF Range
  <2>4. QED BY <2>1, <2>2, <2>3
<1>4. ASSUME NEW i \in DOMAIN q, q[i] # q[1] PROVE q[i] \in Range(p)
  BY <1>1, <1>4 DEF Range
<1>5. Range(p) = Range(q) \ {q[1]}
  BY <1>3, <1>4 DEF Range
<1>6. Head(q) \in S /\ Head(q) \in Range(q)
  BY <1>1 DEF Range
<1>7. IsInjective(p)
  BY <1>2 DEF IsInjective
<1>8. QED BY <1>1, <1>5, <1>6, <1>7 DEF p

\* The pigeonhole: no more free blocks than there are.
LEMMA FreeBound ==
  ASSUME NEW n \in Nat, NEW q \in Seq(0 .. n - 1), IsInjective(q)
  PROVE  q \in SeqOf(0 .. n - 1, n)
<1>1. Len(q) \in Nat /\ DOMAIN q = 1 .. Len(q) /\ q \in [1 .. Len(q) -> 0 .. n - 1]
  OBVIOUS
<1>2. Len(q) <= n
  <2>1. SUFFICES ASSUME Len(q) > n PROVE FALSE
    BY <1>1
  <2>2. /\ IsFiniteSet(1 .. Len(q)) /\ Cardinality(1 .. Len(q)) = Len(q)
        /\ IsFiniteSet(0 .. n - 1) /\ Cardinality(0 .. n - 1) = n
    <3>1. /\ IsFiniteSet(1 .. Len(q))
          /\ Cardinality(1 .. Len(q)) = IF 1 > Len(q) THEN 0 ELSE Len(q) - 1 + 1
      <4>1. Len(q) \in Int /\ 1 \in Int
        BY <1>1
      <4>2. QED BY ONLY <4>1, FS_Interval
    <3>2. /\ IsFiniteSet(0 .. n - 1)
          /\ Cardinality(0 .. n - 1) = IF 0 > n - 1 THEN 0 ELSE n - 1 - 0 + 1
      <4>1. n - 1 \in Int /\ 0 \in Int
        OBVIOUS
      <4>2. QED BY ONLY <4>1, FS_Interval
    <3>3. QED BY <1>1, <3>1, <3>2
  <2>3. \E x, y \in 1 .. Len(q) : x # y /\ q[x] = q[y]
    BY <1>1, <2>1, <2>2, FS_PigeonHole
  <2>4. QED BY <1>1, <2>3 DEF IsInjective
<1>3. Len(q) \in 0 .. n
  BY <1>1, <1>2
<1>4. [1 .. Len(q) -> 0 .. n - 1] \in {[1 .. m -> 0 .. n - 1] : m \in 0 .. n}
  BY <1>3
<1>5. QED BY <1>1, <1>4 DEF SeqOf

-----------------------------------------------------------------------------
(* Rings.                                                                 *)

\* The wrap-around the code writes as % max, without the division.
LEMMA ModWrap ==
  ASSUME NEW max \in Nat \ {0}, NEW a \in 0 .. max - 1, NEW i \in 0 .. max
  PROVE  (a + i) % max = IF a + i < max THEN a + i ELSE a + i - max
OBVIOUS

\* One slot on, as every push to the back and pop of the front moves.
LEMMA ModNext ==
  ASSUME NEW max \in Nat \ {0}, NEW a \in 0 .. max - 1
  PROVE  (a + 1) % max = IF a = max - 1 THEN 0 ELSE a + 1
OBVIOUS

\* One slot back, as the other two operations move.
LEMMA ModPrev ==
  ASSUME NEW max \in Nat \ {0}, NEW a \in 0 .. max - 1
  PROVE  (a + max - 1) % max = IF a = 0 THEN max - 1 ELSE a - 1
OBVIOUS

\* The fields of a ring.
LEMMA RingFields ==
  ASSUME NEW max \in Nat \ {0}, NEW rb \in RingType(max)
  PROVE  /\ rb.front \in 0 .. max - 1 /\ rb.back \in 0 .. max - 1
         /\ rb.size \in 0 .. max /\ rb.max = max
BY DEF RingType, RingSlots

-----------------------------------------------------------------------------

\* The slot i steps from the front, without the division.
LEMMA SlotWrap ==
  ASSUME NEW max \in Nat \ {0}, NEW rb \in RingType(max), NEW i \in 0 .. max
  PROVE  /\ RbSlot(rb, i) = IF rb.front + i < max THEN rb.front + i
                                                  ELSE rb.front + i - max
         /\ RbSlot(rb, i) \in RingSlots(max)
<1>1. rb.front \in 0 .. max - 1 /\ rb.max = max
  BY RingFields
<1>2. (rb.front + i) % max = IF rb.front + i < max THEN rb.front + i
                                                   ELSE rb.front + i - max
  BY <1>1
<1>3. QED BY <1>1, <1>2 DEF RbSlot, RingSlots

\* Fewer than max steps from the front never meet the same slot twice.
LEMMA SlotsDistinct ==
  ASSUME NEW max \in Nat \ {0}, NEW rb \in RingType(max),
         NEW i \in 0 .. max - 1, NEW j \in 0 .. max - 1,
         RbSlot(rb, i) = RbSlot(rb, j)
  PROVE  i = j
<1>1. rb.front \in 0 .. max - 1
  BY DEF RingType, RingSlots
<1>2. i \in 0 .. max /\ j \in 0 .. max
  OBVIOUS
<1>3. QED BY <1>1, <1>2, SlotWrap

\* The slot just past the ones in use is free, unless the ring is full.
LEMMA SlotPastEnd ==
  ASSUME NEW max \in Nat \ {0}, NEW rb \in RingType(max), ~RbFull(rb)
  PROVE  \A i \in 0 .. rb.size - 1 : RbSlot(rb, i) # RbSlot(rb, rb.size)
<1>1. rb.size \in 0 .. max - 1
  BY DEF RingType, RbFull
<1>2. QED BY <1>1, SlotsDistinct

-----------------------------------------------------------------------------

\* rb_push_back advances the back and leaves the front.
LEMMA PushBackEffect ==
  ASSUME NEW max \in Nat \ {0}, NEW rb \in RingType(max), ~RbFull(rb)
  PROVE  /\ RbPushBack(rb) \in RingType(max)
         /\ RbPushBack(rb).size = rb.size + 1
         /\ RbPushBack(rb).back = IF rb.back = max - 1 THEN 0 ELSE rb.back + 1
         /\ \A i : RbSlot(RbPushBack(rb), i) = RbSlot(rb, i)
<1>1. (rb.back + 1) % max = IF rb.back = max - 1 THEN 0 ELSE rb.back + 1
  BY RingFields, ModNext
<1>2. rb.size + 1 \in 0 .. max /\ (rb.back + 1) % max \in 0 .. max - 1
  BY <1>1, RingFields DEF RbFull
<1>3. RbPushBack(rb) = Ring(rb.front, (rb.back + 1) % max, rb.size + 1, max)
  BY RingFields DEF RbPushBack
<1>4. QED BY <1>1, <1>2, <1>3, RingFields DEF RbSlot, Ring, RingType, RingSlots

\* rb_push_front puts the new slot in front of the ones in use.
LEMMA PushFrontEffect ==
  ASSUME NEW max \in Nat \ {0}, NEW rb \in RingType(max), ~RbFull(rb)
  PROVE  /\ RbPushFront(rb) \in RingType(max)
         /\ RbPushFront(rb).size = rb.size + 1
         /\ RbPushFront(rb).back = rb.back
         /\ RbPushFrontSlot(rb) = RbSlot(RbPushFront(rb), 0)
         /\ \A i \in 0 .. rb.size - 1 :
              RbSlot(RbPushFront(rb), i + 1) = RbSlot(rb, i)
<1> DEFINE base == RbPushFrontBase(rb)
           f == (base + max - 1) % max
<1>1. base \in 0 .. max - 1 /\ (rb.size # 0 => base = rb.front)
  BY RingFields, ModNext DEF RbPushFrontBase, RbEmpty
<1>2. f = IF base = 0 THEN max - 1 ELSE base - 1
  BY <1>1, ModPrev
<1>3. f \in 0 .. max - 1 /\ rb.size + 1 \in 0 .. max
  BY <1>1, <1>2, RingFields DEF RbFull
<1>4. RbPushFront(rb) = Ring(f, rb.back, rb.size + 1, max)
  BY RingFields DEF RbPushFront
<1>5. /\ RbPushFront(rb) \in RingType(max)
      /\ RbPushFront(rb).front = f
      /\ RbPushFront(rb).size = rb.size + 1
      /\ RbPushFront(rb).back = rb.back
  BY <1>3, <1>4, RingFields DEF Ring, RingType, RingSlots
<1>6. RbPushFrontSlot(rb) = RbSlot(RbPushFront(rb), 0)
  <2>1. RbSlot(RbPushFront(rb), 0) = f
    BY <1>3, <1>5, SlotWrap
  <2>2. QED BY <1>5, <2>1 DEF RbPushFrontSlot
<1>7. ASSUME NEW i \in 0 .. rb.size - 1
      PROVE  RbSlot(RbPushFront(rb), i + 1) = RbSlot(rb, i)
  <2>1. i \in 0 .. max /\ i + 1 \in 0 .. max /\ rb.size # 0
    BY RingFields
  <2>2. f = IF rb.front = 0 THEN max - 1 ELSE rb.front - 1
    BY <1>1, <1>2, <2>1
  <2>3. RbSlot(RbPushFront(rb), i + 1) =
          IF f + (i + 1) < max THEN f + (i + 1) ELSE f + (i + 1) - max
    BY <1>5, <2>1, SlotWrap
  <2>4. RbSlot(rb, i) =
          IF rb.front + i < max THEN rb.front + i ELSE rb.front + i - max
    BY <2>1, SlotWrap
  <2> HIDE DEF f
  <2>5. QED BY <2>1, <2>2, <2>3, <2>4, RingFields
<1>8. QED BY <1>5, <1>6, <1>7

\* rb_pop_front drops the first slot in use and no other.
LEMMA PopFrontEffect ==
  ASSUME NEW max \in Nat \ {0}, NEW rb \in RingType(max), ~RbEmpty(rb)
  PROVE  /\ RbPopFront(rb) \in RingType(max)
         /\ RbPopFront(rb).size = rb.size - 1
         /\ RbPopFront(rb).back = rb.back
         /\ RbFront(rb) = RbSlot(rb, 0)
         /\ \A i \in 0 .. rb.size - 1 :
              RbSlot(RbPopFront(rb), i) = RbSlot(rb, i + 1)
<1> DEFINE f == (rb.front + 1) % max
<1>1. f = IF rb.front = max - 1 THEN 0 ELSE rb.front + 1
  BY RingFields, ModNext
<1>2. f \in 0 .. max - 1 /\ rb.size - 1 \in 0 .. max
  BY <1>1, RingFields DEF RbEmpty
<1>3. RbPopFront(rb) = Ring(f, rb.back, rb.size - 1, max)
  BY RingFields DEF RbPopFront
<1>4. /\ RbPopFront(rb) \in RingType(max)
      /\ RbPopFront(rb).front = f
      /\ RbPopFront(rb).size = rb.size - 1
      /\ RbPopFront(rb).back = rb.back
  BY <1>2, <1>3, RingFields DEF Ring, RingType, RingSlots
<1>5. RbFront(rb) = RbSlot(rb, 0)
  BY RingFields, SlotWrap DEF RbFront
<1>6. ASSUME NEW i \in 0 .. rb.size - 1
      PROVE  RbSlot(RbPopFront(rb), i) = RbSlot(rb, i + 1)
  <2>1. i \in 0 .. max /\ i + 1 \in 0 .. max
    BY RingFields
  <2>2. RbSlot(RbPopFront(rb), i) = IF f + i < max THEN f + i ELSE f + i - max
    BY <1>4, <2>1, SlotWrap
  <2>3. RbSlot(rb, i + 1) = IF rb.front + (i + 1) < max THEN rb.front + (i + 1)
                            ELSE rb.front + (i + 1) - max
    BY <2>1, SlotWrap
  <2> HIDE DEF f
  <2>4. QED BY <1>1, <2>1, <2>2, <2>3, RingFields
<1>7. QED BY <1>4, <1>5, <1>6

\* rb_pop_back draws the back in and leaves the front.
LEMMA PopBackEffect ==
  ASSUME NEW max \in Nat \ {0}, NEW rb \in RingType(max), ~RbEmpty(rb)
  PROVE  /\ RbPopBack(rb) \in RingType(max)
         /\ RbPopBack(rb).size = rb.size - 1
         /\ RbPopBack(rb).back = IF rb.back = 0 THEN max - 1 ELSE rb.back - 1
         /\ \A i : RbSlot(RbPopBack(rb), i) = RbSlot(rb, i)
<1> DEFINE b == (rb.back + max - 1) % max
<1>1. b = IF rb.back = 0 THEN max - 1 ELSE rb.back - 1
  BY RingFields, ModPrev
<1>2. b \in 0 .. max - 1 /\ rb.size - 1 \in 0 .. max
  BY <1>1, RingFields DEF RbEmpty
<1>3. RbPopBack(rb) = Ring(rb.front, b, rb.size - 1, max)
  BY RingFields DEF RbPopBack
<1>4. QED BY <1>1, <1>2, <1>3, RingFields DEF RbSlot, Ring, RingType, RingSlots

\* A new or cleared ring is well formed and empty.
LEMMA InitEffect ==
  ASSUME NEW max \in Nat \ {0}
  PROVE  /\ RbInit(max) = Ring(0, 0, 0, max)
         /\ RbInit(max) \in RingType(max)
         /\ \A rb \in RingType(max) : RbClear(rb) = RbInit(max)
BY RingFields DEF RbInit, RbClear, Ring, RingType, RingSlots

-----------------------------------------------------------------------------
(* Block allocators.                                                      *)

\* The parts of an allocator.
LEMMA FbFields ==
  ASSUME NEW n \in Nat \ {0}, NEW a \in FbType(n)
  PROVE  /\ a.size = n /\ a.flist_rb \in RingType(n)
         /\ a.flist_mem \in [RingSlots(n) -> FbBlocks(n)]
         /\ a.full_blocks \in [FbBlocks(n) -> {0, 1}]
         /\ a.flist_rb.size \in 0 .. n
BY RingFields DEF FbType

\* Each entry of the free list is the number of a block.
LEMMA FbFreeAtTyped ==
  ASSUME NEW n \in Nat \ {0}, NEW a \in FbType(n), NEW i \in 0 .. n
  PROVE  FbFreeAt(a, i) \in FbBlocks(n)
BY FbFields, SlotWrap DEF FbFreeAt

\* The pigeonhole that keeps fbaa_free_index from pushing to a full ring: a
\* full free list holds every block, so no caller has one to give back.
LEMMA FbRoomToFree ==
  ASSUME NEW n \in Nat \ {0}, NEW a \in FbType(n), FbExact(a),
         NEW b \in FbBlocks(n), a.full_blocks[b] = 1
  PROVE  ~RbFull(a.flist_rb)
<1> SUFFICES ASSUME RbFull(a.flist_rb) PROVE FALSE
  OBVIOUS
<1> DEFINE f == [i \in 0 .. n - 1 |-> FbFreeAt(a, i)]
<1>1. FbFreePositions(a) = 0 .. n - 1
  BY FbFields, RingFields DEF FbFreePositions, RbFull
<1>2. f \in [0 .. n - 1 -> 0 .. n - 1]
  BY FbFreeAtTyped DEF FbBlocks
<1>3. f \in Injection(0 .. n - 1, 0 .. n - 1)
  <2>1. \A i, j \in 0 .. n - 1 : f[i] = f[j] => i = j
    BY <1>1 DEF FbExact
  <2> HIDE DEF f
  <2>2. DOMAIN f = 0 .. n - 1
    BY <1>2
  <2>3. IsInjective(f)
    BY <2>1, <2>2 DEF IsInjective
  <2>4. QED BY <1>2, <2>3 DEF Injection
<1>4. IsFiniteSet(0 .. n - 1)
  <2>1. 0 \in Int /\ n - 1 \in Int
    OBVIOUS
  <2>2. QED BY ONLY <2>1, FS_Interval
<1>5. f \in Surjection(0 .. n - 1, 0 .. n - 1)
  BY <1>3, <1>4, FS_Injection
<1>6. PICK i \in 0 .. n - 1 : f[i] = b
  BY <1>5 DEF Surjection, FbBlocks
<1>7. a.full_blocks[b] = 0
  BY <1>1, <1>6, FbFields DEF FbExact
<1>8. QED BY <1>7

\* fbaa_malloc_index fails only when a caller has every block.
LEMMA FbEmptyIsAllOut ==
  ASSUME NEW n \in Nat \ {0}, NEW a \in FbType(n), FbExact(a)
  PROVE  /\ RbSize(a.flist_rb) = 0 => \A b \in FbBlocks(n) : a.full_blocks[b] = 1
         /\ RbSize(a.flist_rb) # 0 => \E b \in FbBlocks(n) : a.full_blocks[b] = 0
<1>1. ASSUME RbSize(a.flist_rb) = 0, NEW b \in FbBlocks(n)
      PROVE  a.full_blocks[b] = 1
  <2>1. FbFreePositions(a) = {}
    BY <1>1 DEF FbFreePositions, RbSize
  <2>2. QED BY <1>1, <2>1, FbFields DEF FbExact
<1>2. ASSUME RbSize(a.flist_rb) # 0
      PROVE  \E b \in FbBlocks(n) : a.full_blocks[b] = 0
  <2>1. 0 \in FbFreePositions(a) /\ 0 \in 0 .. n
    BY <1>2, FbFields DEF FbFreePositions, RbSize
  <2>2. QED BY <2>1, FbFields, FbFreeAtTyped DEF FbExact
<1>3. QED BY <1>1, <1>2

\* After fbaa_init every block is free and listed once.
LEMMA FbFreshExact ==
  ASSUME NEW n \in Nat \ {0}
  PROVE  /\ FbFresh(n) \in FbType(n) /\ FbExact(FbFresh(n))
         /\ FbFresh(n).full_blocks = [b \in FbBlocks(n) |-> 0]
<1> DEFINE a == FbFresh(n)
<1>1. /\ a.size = n /\ a.flist_rb = Ring(0, 0, n, n)
      /\ a.flist_mem = [i \in RingSlots(n) |-> i]
      /\ a.full_blocks = [b \in FbBlocks(n) |-> 0]
  BY DEF FbFresh, Allocator
<1>2. Ring(0, 0, n, n) \in RingType(n)
  BY DEF Ring, RingType, RingSlots
<1>3. a \in FbType(n)
  BY <1>2 DEF FbFresh, Allocator, FbType, RingSlots, FbBlocks
<1>4. FbFreePositions(a) = 0 .. n - 1
  BY <1>1 DEF FbFreePositions, Ring
<1>5. ASSUME NEW i \in 0 .. n - 1 PROVE FbFreeAt(a, i) = i
  <2>1. RbSlot(a.flist_rb, i) = i
    BY <1>1, <1>2, SlotWrap DEF Ring
  <2>2. QED BY <1>1, <2>1 DEF FbFreeAt, RingSlots
<1>6. FbExact(a)
  BY <1>1, <1>4, <1>5 DEF FbExact, FbBlocks
<1>7. QED BY <1>1, <1>3, <1>6

\* fbaa_malloc_index hands out a block nobody has and marks it full.
LEMMA FbMallocEffect ==
  ASSUME NEW n \in Nat \ {0}, NEW a \in FbType(n), FbExact(a),
         RbSize(a.flist_rb) # 0
  PROVE  /\ FbMallocIndex(a) \in FbBlocks(n)
         /\ a.full_blocks[FbMallocIndex(a)] = 0
         /\ FbMalloc(a) \in FbType(n)
         /\ FbExact(FbMalloc(a))
         /\ FbMalloc(a).full_blocks
              = [a.full_blocks EXCEPT ![FbMallocIndex(a)] = 1]
<1> DEFINE rb == a.flist_rb
           c  == FbMallocIndex(a)
           m  == FbMalloc(a)
<1>1. /\ rb \in RingType(n) /\ ~RbEmpty(rb) /\ rb.size \in 1 .. n
      /\ a.size = n /\ a.full_blocks \in [FbBlocks(n) -> {0, 1}]
  BY FbFields DEF RbEmpty, RbSize
<1>2. /\ RbPopFront(rb) \in RingType(n)
      /\ RbPopFront(rb).size = rb.size - 1
      /\ RbFront(rb) = RbSlot(rb, 0)
      /\ \A i \in 0 .. rb.size - 1 : RbSlot(RbPopFront(rb), i) = RbSlot(rb, i + 1)
  BY <1>1, PopFrontEffect
<1>3. c = FbFreeAt(a, 0)
  BY <1>2 DEF FbMallocIndex, FbFreeAt
<1>4. 0 \in FbFreePositions(a) /\ 0 \in 0 .. n
  BY <1>1 DEF FbFreePositions
<1>5. c \in FbBlocks(n) /\ a.full_blocks[c] = 0
  BY <1>1, <1>3, <1>4, FbFreeAtTyped DEF FbExact
<1>6. /\ m.size = n /\ m.flist_rb = RbPopFront(rb) /\ m.flist_mem = a.flist_mem
      /\ m.full_blocks = [a.full_blocks EXCEPT ![c] = 1]
  BY <1>1 DEF FbMalloc, Allocator
<1>7. m \in FbType(n)
  <2>1. m = Allocator(n, RbPopFront(rb), a.flist_mem,
                      [a.full_blocks EXCEPT ![c] = 1])
    BY <1>1 DEF FbMalloc
  <2>2. [a.full_blocks EXCEPT ![c] = 1] \in [FbBlocks(n) -> {0, 1}]
    BY <1>1
  <2> HIDE DEF m
  <2>3. QED BY <1>2, <2>1, <2>2, FbFields DEF Allocator, FbType
<1>8. FbFreePositions(m) = 0 .. rb.size - 2
  BY <1>1, <1>2, <1>6 DEF FbFreePositions
<1>9. ASSUME NEW i \in 0 .. rb.size - 2
      PROVE  FbFreeAt(m, i) = FbFreeAt(a, i + 1) /\ i + 1 \in FbFreePositions(a)
  <2>1. i \in 0 .. rb.size - 1 /\ i + 1 \in 0 .. rb.size - 1
    BY <1>1
  <2>2. QED BY <1>2, <1>6, <2>1 DEF FbFreeAt, FbFreePositions
<1>10. ASSUME NEW i \in FbFreePositions(m), NEW j \in FbFreePositions(m),
              FbFreeAt(m, i) = FbFreeAt(m, j)
       PROVE  i = j
  <2>1. i + 1 = j + 1
    BY <1>8, <1>9, <1>10 DEF FbExact
  <2>2. QED BY <1>8, <2>1
<1>11. ASSUME NEW b \in FbBlocks(n)
       PROVE  m.full_blocks[b] = 0 <=> \E i \in FbFreePositions(m) : FbFreeAt(m, i) = b
  <2>1. ASSUME m.full_blocks[b] = 0
        PROVE  \E i \in FbFreePositions(m) : FbFreeAt(m, i) = b
    <3>1. b # c /\ a.full_blocks[b] = 0
      BY <1>1, <1>5, <1>6, <2>1
    <3>2. PICK k \in FbFreePositions(a) : FbFreeAt(a, k) = b
      BY <1>1, <3>1 DEF FbExact
    <3>3. k - 1 \in 0 .. rb.size - 2 /\ (k - 1) + 1 = k
      BY <1>1, <1>3, <3>1, <3>2 DEF FbFreePositions
    <3>4. QED BY <1>8, <1>9, <3>2, <3>3
  <2>2. ASSUME NEW i \in FbFreePositions(m), FbFreeAt(m, i) = b
        PROVE  m.full_blocks[b] = 0
    <3>1. FbFreeAt(a, i + 1) = b /\ i + 1 \in FbFreePositions(a) /\ i + 1 # 0
      BY <1>8, <1>9, <2>2
    <3>2. b # c /\ a.full_blocks[b] = 0
      BY <1>1, <1>3, <1>4, <3>1 DEF FbExact
    <3>3. QED BY <1>1, <1>6, <3>2
  <2>3. QED BY <2>1, <2>2
<1>12. FbExact(m)
  BY <1>6, <1>10, <1>11 DEF FbExact
<1>13. QED BY <1>5, <1>6, <1>7, <1>12

\* fbaa_free_index of a block a caller has puts it on the free list once.
LEMMA FbFreeEffect ==
  ASSUME NEW n \in Nat \ {0}, NEW a \in FbType(n), FbExact(a),
         NEW c \in FbBlocks(n), a.full_blocks[c] = 1
  PROVE  /\ FbFreeIndex(a, c) \in FbType(n)
         /\ FbExact(FbFreeIndex(a, c))
         /\ FbFreeIndex(a, c).full_blocks = [a.full_blocks EXCEPT ![c] = 0]
<1> DEFINE rb == a.flist_rb
           s  == RbPushFrontSlot(rb)
           m  == FbFreeIndex(a, c)
<1>1. /\ rb \in RingType(n) /\ ~RbFull(rb) /\ rb.size \in 0 .. n - 1
      /\ a.size = n /\ a.full_blocks \in [FbBlocks(n) -> {0, 1}]
      /\ a.flist_mem \in [RingSlots(n) -> FbBlocks(n)]
  BY FbFields, FbRoomToFree, RingFields DEF RbFull
<1>2. /\ RbPushFront(rb) \in RingType(n)
      /\ RbPushFront(rb).size = rb.size + 1
      /\ s = RbSlot(RbPushFront(rb), 0)
      /\ \A i \in 0 .. rb.size - 1 : RbSlot(RbPushFront(rb), i + 1) = RbSlot(rb, i)
  BY <1>1, PushFrontEffect
<1>3. s \in RingSlots(n)
  BY <1>2, SlotWrap
<1>4. m = Allocator(n, RbPushFront(rb), [a.flist_mem EXCEPT ![s] = c],
                    [a.full_blocks EXCEPT ![c] = 0])
  BY <1>1 DEF FbFreeIndex
<1> HIDE DEF m
<1>5. /\ m.size = n /\ m.flist_rb = RbPushFront(rb)
      /\ m.flist_mem = [a.flist_mem EXCEPT ![s] = c]
      /\ m.full_blocks = [a.full_blocks EXCEPT ![c] = 0]
  BY <1>4 DEF Allocator
<1>6. m \in FbType(n)
  <2>1. /\ [a.full_blocks EXCEPT ![c] = 0] \in [FbBlocks(n) -> {0, 1}]
        /\ [a.flist_mem EXCEPT ![s] = c] \in [RingSlots(n) -> FbBlocks(n)]
    BY <1>1
  <2>2. QED BY <1>2, <1>4, <2>1 DEF Allocator, FbType
<1>7. FbFreePositions(m) = 0 .. rb.size
  BY <1>1, <1>2, <1>5 DEF FbFreePositions
<1>8. FbFreeAt(m, 0) = c
  BY <1>1, <1>2, <1>3, <1>5 DEF FbFreeAt
<1>9. ASSUME NEW i \in 1 .. rb.size
      PROVE  FbFreeAt(m, i) = FbFreeAt(a, i - 1) /\ i - 1 \in FbFreePositions(a)
  <2>1. /\ i - 1 \in 0 .. rb.size - 1 /\ (i - 1) + 1 = i
        /\ i \in 0 .. n - 1 /\ 0 \in 0 .. n - 1 /\ i # 0 /\ i - 1 \in 0 .. n
    BY <1>1
  <2>2. RbSlot(m.flist_rb, i) = RbSlot(rb, i - 1)
    BY <1>2, <1>5, <2>1
  <2>3. RbSlot(m.flist_rb, i) # s /\ RbSlot(rb, i - 1) \in RingSlots(n)
    BY <1>1, <1>2, <1>5, <2>1, SlotsDistinct, SlotWrap
  <2>4. m.flist_mem[RbSlot(rb, i - 1)] = a.flist_mem[RbSlot(rb, i - 1)]
    BY <1>1, <1>5, <2>2, <2>3
  <2>5. QED BY <2>1, <2>2, <2>4 DEF FbFreeAt, FbFreePositions
<1>10. ASSUME NEW i \in 1 .. rb.size PROVE FbFreeAt(m, i) # c
  <2>1. a.full_blocks[FbFreeAt(a, i - 1)] = 0
    <3>1. i - 1 \in 0 .. n
      BY <1>1
    <3>2. QED BY <1>1, <1>9, <3>1, FbFreeAtTyped DEF FbExact
  <2>2. QED BY <1>9, <2>1
<1>11. ASSUME NEW i \in FbFreePositions(m), NEW j \in FbFreePositions(m),
              FbFreeAt(m, i) = FbFreeAt(m, j)
       PROVE  i = j
  <2>1. CASE i = 0 \/ j = 0
    BY <1>1, <1>7, <1>8, <1>10, <1>11, <2>1
  <2>2. CASE i # 0 /\ j # 0
    <3>1. i \in 1 .. rb.size /\ j \in 1 .. rb.size
      BY <1>1, <1>7, <2>2
    <3>2. i - 1 = j - 1
      BY <1>9, <1>11, <3>1 DEF FbExact
    <3>3. QED BY <3>1, <3>2
  <2>3. QED BY <2>1, <2>2
<1>12. ASSUME NEW b \in FbBlocks(n)
       PROVE  m.full_blocks[b] = 0 <=> \E i \in FbFreePositions(m) : FbFreeAt(m, i) = b
  <2>1. CASE b = c
    <3>1. m.full_blocks[b] = 0 /\ 0 \in FbFreePositions(m)
      BY <1>1, <1>5, <1>7, <2>1
    <3>2. QED BY <1>8, <2>1, <3>1
  <2>2. CASE b # c
    <3>1. m.full_blocks[b] = a.full_blocks[b]
      BY <1>1, <1>5, <2>2
    <3>2. ASSUME NEW i \in FbFreePositions(m), FbFreeAt(m, i) = b
          PROVE  \E k \in FbFreePositions(a) : FbFreeAt(a, k) = b
      <4>1. i \in 1 .. rb.size
        BY <1>1, <1>7, <1>8, <2>2, <3>2
      <4>2. QED BY <1>9, <3>2, <4>1
    <3>3. ASSUME NEW k \in FbFreePositions(a), FbFreeAt(a, k) = b
          PROVE  \E i \in FbFreePositions(m) : FbFreeAt(m, i) = b
      <4>1. k \in 0 .. rb.size - 1
        BY DEF FbFreePositions
      <4>2. k + 1 \in 1 .. rb.size /\ (k + 1) - 1 = k /\ k + 1 \in 0 .. rb.size
        BY <1>1, <4>1
      <4>3. QED BY <1>7, <1>9, <3>3, <4>2
    <3>4. QED BY <1>1, <3>1, <3>2, <3>3 DEF FbExact
  <2>3. QED BY <2>1, <2>2
<1>13. FbExact(m)
  BY <1>5, <1>11, <1>12 DEF FbExact
<1>14. QED BY <1>5, <1>6, <1>13 DEF m

\* The conversions between block numbers and addresses are inverses, and an
\* address inside a block leads back to that block.
LEMMA AddressOfABlock ==
  ASSUME NEW n \in Nat, NEW size \in Nat \ {0}, NEW b \in FbBlocks(n)
  PROVE  FbAddress(b, size) \div size = b /\ FbAddress(b, size) \in Nat
<1>1. b \in Nat
  BY DEF FbBlocks
<1>2. (b * size) \div size = b /\ b * size \in Nat
  BY <1>1
<1>3. QED BY <1>2 DEF FbAddress

\* An address inside the memory of n blocks is divided into the number of one of them.
LEMMA BlockOfAnAddress ==
  ASSUME NEW n \in Nat, NEW size \in Nat \ {0}, NEW mem \in 0 .. n * size - 1
  PROVE  FbBlockAt(mem, size) \in FbBlocks(n)
<1>1. mem \div size \in 0 .. n - 1
  OBVIOUS
<1>2. QED BY <1>1 DEF FbBlockAt, FbBlocks

-----------------------------------------------------------------------------
(* Sequences with an element more and with one less.                       *)

\* t is s with n in the k-th place; t is s without its k-th place.
PlacedIn(s, t, m, k, n) ==
  \A j \in 1 .. m + 1 : t[j] = IF j < k THEN s[j] ELSE IF j = k THEN n ELSE s[j - 1]
TakenOut(s, t, m, k) ==
  \A j \in 1 .. m - 1 : t[j] = IF j < k THEN s[j] ELSE s[j + 1]

\* InsertAt puts e at place k and moves what stood from there on up by one.
LEMMA InsertAtEffect ==
  ASSUME NEW S, NEW s \in Seq(S), NEW k \in 1 .. Len(s) + 1, NEW e \in S
  PROVE  /\ InsertAt(s, k, e) \in Seq(S) /\ Len(InsertAt(s, k, e)) = Len(s) + 1
         /\ PlacedIn(s, InsertAt(s, k, e), Len(s), k, e)
<1> DEFINE a == SubSeq(s, 1, k - 1)
           b == SubSeq(s, k, Len(s))
           c == a \o <<e>>
           t == c \o b
<1>1. Len(s) \in Nat /\ k \in Nat /\ k >= 1 /\ k <= Len(s) + 1
  OBVIOUS
<1>2. /\ a \in Seq(S) /\ Len(a) = k - 1 /\ \A j \in 1 .. k - 1 : a[j] = s[j]
  BY <1>1
<1>3. /\ b \in Seq(S) /\ Len(b) = Len(s) - k + 1
      /\ \A j \in 1 .. Len(s) - k + 1 : b[j] = s[k + j - 1]
  BY <1>1
<1> HIDE DEF a, b
<1>4. /\ c \in Seq(S) /\ Len(c) = k /\ c[k] = e /\ \A j \in 1 .. k - 1 : c[j] = a[j]
  BY <1>1, <1>2
<1> HIDE DEF c
<1>5. /\ t \in Seq(S) /\ Len(t) = Len(s) + 1 /\ \A j \in 1 .. k : t[j] = c[j]
      /\ \A j \in k + 1 .. Len(s) + 1 : t[j] = b[j - k]
  BY <1>1, <1>3, <1>4
<1>6. InsertAt(s, k, e) = t
  BY DEF InsertAt, a, b, c
<1> HIDE DEF t
<1>7. ASSUME NEW j \in k + 1 .. Len(s) + 1 PROVE t[j] = s[j - 1]
  <2>1. j - k \in 1 .. Len(s) - k + 1 /\ k + (j - k) - 1 = j - 1
    BY <1>1
  <2>2. QED BY <1>3, <1>5, <2>1
<1>8. ASSUME NEW j \in 1 .. Len(s) + 1
      PROVE  t[j] = IF j < k THEN s[j] ELSE IF j = k THEN e ELSE s[j - 1]
  BY <1>1, <1>2, <1>4, <1>5, <1>7
<1>9. QED BY <1>5, <1>6, <1>8 DEF PlacedIn

\* RemoveAt takes place k out and moves what stood behind it down by one.
LEMMA RemoveAtEffect ==
  ASSUME NEW S, NEW s \in Seq(S), NEW k \in 1 .. Len(s)
  PROVE  /\ RemoveAt(s, k) \in Seq(S) /\ Len(RemoveAt(s, k)) = Len(s) - 1
         /\ TakenOut(s, RemoveAt(s, k), Len(s), k)
<1> DEFINE a == SubSeq(s, 1, k - 1)
           b == SubSeq(s, k + 1, Len(s))
           t == a \o b
<1>1. Len(s) \in Nat /\ k \in Nat /\ k >= 1 /\ k <= Len(s)
  OBVIOUS
<1>2. /\ a \in Seq(S) /\ Len(a) = k - 1 /\ \A j \in 1 .. k - 1 : a[j] = s[j]
  BY <1>1
<1>3. /\ b \in Seq(S) /\ Len(b) = Len(s) - k
      /\ \A j \in 1 .. Len(s) - k : b[j] = s[k + j]
  BY <1>1
<1> HIDE DEF a, b
<1>4. /\ t \in Seq(S) /\ Len(t) = Len(a) + Len(b)
      /\ \A j \in 1 .. Len(a) + Len(b) : t[j] = IF j <= Len(a) THEN a[j] ELSE b[j - Len(a)]
  BY <1>2, <1>3, ConcatProperties
<1>5. RemoveAt(s, k) = t
  BY DEF RemoveAt, a, b
<1> HIDE DEF t
<1>6. ASSUME NEW j \in k .. Len(s) - 1 PROVE t[j] = s[j + 1]
  <2>1. /\ j - (k - 1) \in 1 .. Len(s) - k /\ k + (j - (k - 1)) = j + 1
        /\ j \in 1 .. Len(a) + Len(b) /\ ~(j <= Len(a))
    BY <1>1, <1>2, <1>3
  <2>2. t[j] = b[j - (k - 1)]
    BY <1>2, <1>4, <2>1
  <2>3. QED BY <1>3, <2>1, <2>2
<1>7. ASSUME NEW j \in 1 .. Len(s) - 1 PROVE t[j] = IF j < k THEN s[j] ELSE s[j + 1]
  <2>1. CASE j < k
    <3>1. j \in 1 .. k - 1 /\ j \in 1 .. Len(a) + Len(b) /\ j <= Len(a)
      BY <1>1, <1>2, <1>3, <2>1
    <3>2. QED BY <1>2, <1>4, <2>1, <3>1
  <2>2. CASE ~(j < k)
    BY <1>1, <1>6, <2>2
  <2>3. QED BY <2>1, <2>2
<1>8. Len(t) = Len(s) - 1
  BY <1>1, <1>2, <1>3, <1>4
<1>9. QED BY <1>4, <1>5, <1>7, <1>8 DEF TakenOut

\* The two ends.
LEMMA InsertAtEnds ==
  ASSUME NEW S, NEW s \in Seq(S), NEW e \in S
  PROVE  /\ InsertAt(s, Len(s) + 1, e) = Append(s, e)
         /\ InsertAt(s, 1, e) = <<e>> \o s
<1>1. Len(s) \in Nat /\ Len(s) + 1 \in 1 .. Len(s) + 1 /\ 1 \in 1 .. Len(s) + 1
  OBVIOUS
<1>2. ASSUME NEW k \in 1 .. Len(s) + 1, NEW u \in Seq(S), Len(u) = Len(s) + 1,
             PlacedIn(s, u, Len(s), k, e)
      PROVE  InsertAt(s, k, e) = u
  <2> DEFINE t == InsertAt(s, k, e)
  <2>1. t \in Seq(S) /\ Len(t) = Len(s) + 1 /\ PlacedIn(s, t, Len(s), k, e)
    BY InsertAtEffect
  <2> HIDE DEF t
  <2>2. \A j \in 1 .. Len(t) : t[j] = u[j]
    BY <1>2, <2>1 DEF PlacedIn
  <2>3. t = u
    BY <1>2, <2>1, <2>2, SeqEqual
  <2>4. QED BY <2>3 DEF t
<1>3. /\ Append(s, e) \in Seq(S) /\ Len(Append(s, e)) = Len(s) + 1
      /\ PlacedIn(s, Append(s, e), Len(s), Len(s) + 1, e)
  BY <1>1 DEF PlacedIn
<1>4. /\ <<e>> \o s \in Seq(S) /\ Len(<<e>> \o s) = Len(s) + 1
      /\ PlacedIn(s, <<e>> \o s, Len(s), 1, e)
  BY <1>1 DEF PlacedIn
<1>5. QED BY <1>1, <1>2, <1>3, <1>4

\* What a sequence without repetition holds with one more and with one less.
LEMMA AppendedRange ==
  ASSUME NEW S, NEW s \in Seq(S), NEW e \in S
  PROVE  Range(Append(s, e)) = Range(s) \cup {e}
<1> DEFINE t == Append(s, e)
<1>1. /\ DOMAIN s = 1 .. Len(s) /\ DOMAIN t = 1 .. Len(s) + 1 /\ Len(s) \in Nat
      /\ \A j \in 1 .. Len(s) : t[j] = s[j]
      /\ t[Len(s) + 1] = e
  OBVIOUS
<1> HIDE DEF t
<1>2. Range(t) \subseteq Range(s) \cup {e}
  BY <1>1 DEF Range
<1>3. Range(s) \subseteq Range(t) /\ e \in Range(t)
  BY <1>1 DEF Range
<1>4. QED BY <1>2, <1>3 DEF t

\* Of distinct elements, RemoveAt takes away the one at place k and no other.
LEMMA RemovedRange ==
  ASSUME NEW S, NEW s \in Seq(S), NEW k \in 1 .. Len(s),
         \A i, j \in 1 .. Len(s) : s[i] = s[j] => i = j
  PROVE  Range(RemoveAt(s, k)) = Range(s) \ {s[k]}
<1> DEFINE t == RemoveAt(s, k)
<1>1. t \in Seq(S) /\ Len(t) = Len(s) - 1 /\ TakenOut(s, t, Len(s), k)
  BY RemoveAtEffect
<1> HIDE DEF t
<1>2. /\ Len(s) \in Nat /\ DOMAIN s = 1 .. Len(s) /\ DOMAIN t = 1 .. Len(s) - 1
  BY <1>1
<1>3. ASSUME NEW j \in 1 .. Len(s) - 1 PROVE t[j] \in Range(s) /\ t[j] # s[k]
  <2>1. \E i \in 1 .. Len(s) : i # k /\ t[j] = s[i]
    <3>1. CASE j < k
      <4>1. j \in 1 .. Len(s) /\ j # k /\ t[j] = s[j]
        BY <1>1, <1>2, <3>1 DEF TakenOut
      <4>2. QED BY <4>1
    <3>2. CASE ~(j < k)
      <4>1. j + 1 \in 1 .. Len(s) /\ j + 1 # k /\ t[j] = s[j + 1]
        BY <1>1, <1>2, <3>2 DEF TakenOut
      <4>2. QED BY <4>1
    <3>3. QED BY <3>1, <3>2
  <2>2. QED BY <1>2, <2>1 DEF Range
<1>4. ASSUME NEW i \in 1 .. Len(s), i # k PROVE \E j \in 1 .. Len(s) - 1 : t[j] = s[i]
  <2>1. CASE i < k
    <3>1. i \in 1 .. Len(s) - 1 /\ t[i] = s[i]
      BY <1>1, <1>2, <2>1 DEF TakenOut
    <3>2. QED BY <3>1
  <2>2. CASE i > k
    <3>1. i - 1 \in 1 .. Len(s) - 1 /\ t[i - 1] = s[i]
      BY <1>1, <1>2, <2>2 DEF TakenOut
    <3>2. QED BY <3>1
  <2>3. QED BY <1>4, <2>1, <2>2
<1>5. Range(t) \subseteq Range(s) \ {s[k]}
  BY <1>2, <1>3 DEF Range
<1>6. ASSUME NEW x \in Range(s), x # s[k] PROVE x \in Range(t)
  <2>1. PICK i \in 1 .. Len(s) : s[i] = x
    BY <1>2 DEF Range
  <2>2. PICK j \in 1 .. Len(s) - 1 : t[j] = x
    BY <1>4, <1>6, <2>1
  <2>3. QED BY <1>2, <2>2 DEF Range
<1>7. QED BY <1>5, <1>6 DEF t

\* Sequences without repetition that have nothing in common, one after the
\* other, and one with an element that is new to it or without one it had.
LEMMA JoinedInjective ==
  ASSUME NEW S, NEW p \in Seq(S), NEW q \in Seq(S), IsInjective(p), IsInjective(q),
         Range(p) \cap Range(q) = {}
  PROVE  IsInjective(p \o q)
<1> DEFINE t == p \o q
<1>1. /\ DOMAIN p = 1 .. Len(p) /\ DOMAIN q = 1 .. Len(q) /\ Len(p) \in Nat /\ Len(q) \in Nat
      /\ DOMAIN t = 1 .. Len(p) + Len(q)
      /\ \A i \in 1 .. Len(p) : t[i] = p[i]
      /\ \A i \in Len(p) + 1 .. Len(p) + Len(q) :
           i - Len(p) \in 1 .. Len(q) /\ t[i] = q[i - Len(p)]
  OBVIOUS
<1> HIDE DEF t
<1>2. \A i \in 1 .. Len(p), j \in 1 .. Len(q) : p[i] # q[j]
  BY <1>1 DEF Range
<1>3. ASSUME NEW i \in DOMAIN t, NEW j \in DOMAIN t, t[i] = t[j] PROVE i = j
  <2>1. CASE i <= Len(p) /\ j <= Len(p)
    BY <1>1, <1>3, <2>1 DEF IsInjective
  <2>2. CASE i > Len(p) /\ j > Len(p)
    <3>1. q[i - Len(p)] = q[j - Len(p)] /\ i - Len(p) \in 1 .. Len(q) /\ j - Len(p) \in 1 .. Len(q)
      BY <1>1, <1>3, <2>2
    <3>2. i - Len(p) = j - Len(p)
      BY <1>1, <3>1 DEF IsInjective
    <3>3. QED BY <1>1, <3>2
  <2>3. CASE i <= Len(p) /\ j > Len(p)
    BY <1>1, <1>2, <1>3, <2>3
  <2>4. CASE i > Len(p) /\ j <= Len(p)
    <3>1. p[j] = q[i - Len(p)] /\ j \in 1 .. Len(p) /\ i - Len(p) \in 1 .. Len(q)
      BY <1>1, <1>3, <2>4
    <3>2. QED BY <1>2, <3>1
  <2>5. QED BY <1>1, <2>1, <2>2, <2>3, <2>4
<1>4. IsInjective(t)
  BY <1>3 DEF IsInjective
<1>5. QED BY <1>4 DEF t

\* Distinct elements stay distinct when a new one is appended.
LEMMA LengthenedInjective ==
  ASSUME NEW S, NEW q \in Seq(S), IsInjective(q), NEW e \in S, e \notin Range(q)
  PROVE  Append(q, e) \in Seq(S) /\ IsInjective(Append(q, e))
<1> DEFINE t == Append(q, e)
<1>1. /\ t \in Seq(S) /\ DOMAIN q = 1 .. Len(q) /\ DOMAIN t = 1 .. Len(q) + 1
      /\ Len(q) \in Nat /\ t[Len(q) + 1] = e /\ \A i \in 1 .. Len(q) : t[i] = q[i]
  OBVIOUS
<1> HIDE DEF t
<1>2. \A i \in 1 .. Len(q) : q[i] # e
  BY <1>1 DEF Range
<1>3. ASSUME NEW i \in DOMAIN t, NEW j \in DOMAIN t, t[i] = t[j] PROVE i = j
  <2>1. CASE i \in 1 .. Len(q) /\ j \in 1 .. Len(q)
    BY <1>1, <1>3, <2>1 DEF IsInjective
  <2>2. CASE i = Len(q) + 1 \/ j = Len(q) + 1
    BY <1>1, <1>2, <1>3, <2>2
  <2>3. QED BY <1>1, <2>1, <2>2
<1>4. t \in Seq(S) /\ IsInjective(t)
  BY <1>1, <1>3 DEF IsInjective
<1>5. QED BY <1>4 DEF t

\* Distinct elements stay distinct when one is taken out.
LEMMA ShortenedInjective ==
  ASSUME NEW S, NEW s \in Seq(S), IsInjective(s), NEW k \in 1 .. Len(s)
  PROVE  IsInjective(RemoveAt(s, k))
<1> DEFINE t == RemoveAt(s, k)
<1>1. /\ t \in Seq(S) /\ Len(t) = Len(s) - 1 /\ TakenOut(s, t, Len(s), k)
  BY RemoveAtEffect
<1> HIDE DEF t
<1>2. DOMAIN s = 1 .. Len(s) /\ DOMAIN t = 1 .. Len(s) - 1 /\ Len(s) \in Nat
  BY <1>1
<1>3. ASSUME NEW i \in DOMAIN t
      PROVE  \/ i < k /\ i \in DOMAIN s /\ t[i] = s[i]
             \/ i >= k /\ i + 1 \in DOMAIN s /\ t[i] = s[i + 1]
  BY <1>1, <1>2 DEF TakenOut
<1>4. ASSUME NEW i \in DOMAIN t, NEW j \in DOMAIN t, t[i] = t[j] PROVE i = j
  <2>1. i \in Int /\ j \in Int
    BY <1>2
  <2>2. QED BY <1>3, <1>4, <2>1 DEF IsInjective
<1>5. QED BY <1>4 DEF IsInjective, t

\* Taking the first element out leaves the tail.
LEMMA RemoveAtFront ==
  ASSUME NEW S, NEW s \in Seq(S), s # <<>>
  PROVE  RemoveAt(s, 1) = Tail(s)
<1> DEFINE t == RemoveAt(s, 1)
           u == Tail(s)
<1>1. 1 \in 1 .. Len(s) /\ Len(s) \in Nat
  OBVIOUS
<1>2. t \in Seq(S) /\ Len(t) = Len(s) - 1 /\ TakenOut(s, t, Len(s), 1)
  BY <1>1, RemoveAtEffect
<1>3. u \in Seq(S) /\ Len(u) = Len(s) - 1 /\ \A j \in 1 .. Len(s) - 1 : u[j] = s[j + 1]
  OBVIOUS
<1> HIDE DEF t, u
<1>4. \A j \in 1 .. Len(t) : t[j] = u[j]
  BY <1>1, <1>2, <1>3 DEF TakenOut
<1>5. t = u
  BY <1>2, <1>3, <1>4, SeqEqual
<1>6. QED BY <1>5 DEF t, u

-----------------------------------------------------------------------------
(* Linked lists.                                                           *)

\* Along the m nodes of s the pointers lead from each to its neighbours.
Chained(prev, next, s, m) ==
  /\ \A j \in 1 .. m : prev[s[j]] = IF j = 1 THEN NoNode ELSE s[j - 1]
  /\ \A j \in 1 .. m : next[s[j]] = IF j = m THEN NoNode ELSE s[j + 1]
  /\ \A i, j \in 1 .. m : s[i] = s[j] => i = j

\* Only the pointers that surround n are other than they were.
WovenIn(prev, next, prev2, next2, nodes, left, n, right) ==
  /\ prev2[n] = left /\ (right # NoNode => prev2[right] = n)
  /\ \A p \in nodes \ {n, right} : prev2[p] = prev[p]
  /\ next2[n] = right /\ (left # NoNode => next2[left] = n)
  /\ \A p \in nodes \ {n, left} : next2[p] = next[p]
WovenOut(prev, next, prev2, next2, nodes, left, right) ==
  /\ right # NoNode => prev2[right] = left
  /\ \A p \in nodes \ {right} : prev2[p] = prev[p]
  /\ left # NoNode => next2[left] = right
  /\ \A p \in nodes \ {left} : next2[p] = next[p]

\* A node that is linked in behind the k-th, or before the first if k is 0.
LEMMA LinkIn ==
  ASSUME NEW m \in Nat, NEW nodes \in SUBSET Nat, NEW s \in [1 .. m -> nodes],
         NEW n \in nodes, \A j \in 1 .. m : s[j] # n, NEW prev, NEW next,
         Chained(prev, next, s, m), NEW k \in 0 .. m,
         NEW left, left = IF k = 0 THEN NoNode ELSE s[k],
         NEW right, right = IF k = m THEN NoNode ELSE s[k + 1],
         NEW prev2, NEW next2, WovenIn(prev, next, prev2, next2, nodes, left, n, right),
         NEW t, PlacedIn(s, t, m, k + 1, n)
  PROVE  Chained(prev2, next2, t, m + 1)
<1> USE DEF WovenIn, PlacedIn
<1>0. \A j \in 1 .. m : s[j] \in nodes /\ s[j] # NoNode
  BY DEF NoNode
<1>1. ASSUME NEW j \in 1 .. m + 1
      PROVE  prev2[t[j]] = IF j = 1 THEN NoNode ELSE t[j - 1]
  <2>1. CASE j <= k
    <3>1. j \in 1 .. m /\ t[j] = s[j] /\ (j # 1 => t[j - 1] = s[j - 1])
      BY <2>1
    <3>2. s[j] # right
      BY <1>0, <2>1, <3>1 DEF Chained
    <3>3. prev2[s[j]] = prev[s[j]]
      BY <1>0, <3>1, <3>2
    <3>4. QED BY <3>1, <3>3 DEF Chained
  <2>2. CASE j = k + 1
    <3>1. t[j] = n /\ (j # 1 => t[j - 1] = s[k])
      BY <2>2
    <3>2. QED BY <2>2, <3>1
  <2>3. CASE j = k + 2
    <3>1. t[j] = right /\ right # NoNode /\ t[j - 1] = n /\ j # 1
      BY <1>0, <2>3
    <3>2. QED BY <3>1
  <2>4. CASE j > k + 2
    <3>1. j - 1 \in 1 .. m /\ t[j] = s[j - 1] /\ t[j - 1] = s[j - 2] /\ j # 1 /\ j - 1 # 1
      BY <2>4
    <3>2. s[j - 1] # right
      BY <1>0, <2>4, <3>1 DEF Chained
    <3>3. prev2[s[j - 1]] = prev[s[j - 1]]
      BY <1>0, <3>1, <3>2
    <3>4. prev[s[j - 1]] = s[j - 2]
      BY <3>1 DEF Chained
    <3>5. QED BY <3>1, <3>3, <3>4
  <2>5. QED BY <2>1, <2>2, <2>3, <2>4
<1>2. ASSUME NEW j \in 1 .. m + 1
      PROVE  next2[t[j]] = IF j = m + 1 THEN NoNode ELSE t[j + 1]
  <2>1. CASE j < k
    <3>1. j \in 1 .. m /\ t[j] = s[j] /\ t[j + 1] = s[j + 1] /\ j # m /\ j # m + 1
      BY <2>1
    <3>2. s[j] # left
      BY <1>0, <2>1, <3>1 DEF Chained
    <3>3. next2[s[j]] = next[s[j]]
      BY <1>0, <3>1, <3>2
    <3>4. QED BY <3>1, <3>3 DEF Chained
  <2>2. CASE j = k
    <3>1. t[j] = left /\ left # NoNode /\ t[j + 1] = n /\ j # m + 1
      BY <1>0, <2>2
    <3>2. QED BY <3>1
  <2>3. CASE j = k + 1
    <3>1. t[j] = n /\ (j # m + 1 => t[j + 1] = s[j])
      BY <2>3
    <3>2. QED BY <2>3, <3>1
  <2>4. CASE j > k + 1
    <3>1. j - 1 \in 1 .. m /\ t[j] = s[j - 1] /\ (j # m + 1 => t[j + 1] = s[j])
      BY <2>4
    <3>2. s[j - 1] # left
      BY <1>0, <2>4, <3>1 DEF Chained
    <3>3. next2[s[j - 1]] = next[s[j - 1]]
      BY <1>0, <3>1, <3>2
    <3>4. next[s[j - 1]] = IF j - 1 = m THEN NoNode ELSE s[j]
      BY <3>1 DEF Chained
    <3>5. QED BY <3>1, <3>3, <3>4
  <2>5. QED BY <2>1, <2>2, <2>3, <2>4
<1>3. ASSUME NEW i \in 1 .. m + 1, NEW j \in 1 .. m + 1, t[i] = t[j] PROVE i = j
  <2>1. ASSUME NEW a \in 1 .. m + 1
        PROVE  \/ a < k + 1 /\ a \in 1 .. m /\ t[a] = s[a]
               \/ a = k + 1 /\ t[a] = n
               \/ a > k + 1 /\ a - 1 \in 1 .. m /\ t[a] = s[a - 1]
    OBVIOUS
  <2>2. QED BY <1>3, <2>1 DEF Chained
<1>4. QED BY <1>1, <1>2, <1>3 DEF Chained

\* The k-th node is linked out.
LEMMA LinkOut ==
  ASSUME NEW m \in Nat, NEW nodes \in SUBSET Nat, NEW s \in [1 .. m -> nodes],
         NEW prev, NEW next, Chained(prev, next, s, m), NEW k \in 1 .. m,
         NEW left, left = IF k = 1 THEN NoNode ELSE s[k - 1],
         NEW right, right = IF k = m THEN NoNode ELSE s[k + 1],
         NEW prev2, NEW next2, WovenOut(prev, next, prev2, next2, nodes, left, right),
         NEW t, TakenOut(s, t, m, k)
  PROVE  Chained(prev2, next2, t, m - 1)
<1> USE DEF WovenOut, TakenOut
<1>0. \A j \in 1 .. m : s[j] \in nodes /\ s[j] # NoNode
  BY DEF NoNode
<1>1. ASSUME NEW j \in 1 .. m - 1
      PROVE  prev2[t[j]] = IF j = 1 THEN NoNode ELSE t[j - 1]
  <2>1. CASE j < k
    <3>1. j \in 1 .. m /\ t[j] = s[j] /\ (j # 1 => t[j - 1] = s[j - 1])
      BY <2>1
    <3>2. s[j] # right
      BY <1>0, <2>1, <3>1 DEF Chained
    <3>3. prev2[s[j]] = prev[s[j]]
      BY <1>0, <3>1, <3>2
    <3>4. QED BY <3>1, <3>3 DEF Chained
  <2>2. CASE j = k
    <3>1. t[j] = right /\ right # NoNode /\ (j # 1 => t[j - 1] = s[k - 1])
      BY <1>0, <2>2
    <3>2. QED BY <2>2, <3>1
  <2>3. CASE j > k
    <3>1. j + 1 \in 1 .. m /\ t[j] = s[j + 1] /\ t[j - 1] = s[j] /\ j # 1 /\ j + 1 # 1
      BY <2>3
    <3>2. s[j + 1] # right
      BY <1>0, <2>3, <3>1 DEF Chained
    <3>3. prev2[s[j + 1]] = prev[s[j + 1]]
      BY <1>0, <3>1, <3>2
    <3>4. prev[s[j + 1]] = s[j]
      BY <3>1 DEF Chained
    <3>5. QED BY <3>1, <3>3, <3>4
  <2>4. QED BY <2>1, <2>2, <2>3
<1>2. ASSUME NEW j \in 1 .. m - 1
      PROVE  next2[t[j]] = IF j = m - 1 THEN NoNode ELSE t[j + 1]
  <2>1. CASE j < k - 1
    <3>1. j \in 1 .. m /\ t[j] = s[j] /\ t[j + 1] = s[j + 1] /\ j # m /\ j # m - 1
      BY <2>1
    <3>2. s[j] # left
      BY <1>0, <2>1, <3>1 DEF Chained
    <3>3. next2[s[j]] = next[s[j]]
      BY <1>0, <3>1, <3>2
    <3>4. QED BY <3>1, <3>3 DEF Chained
  <2>2. CASE j = k - 1
    <3>1. t[j] = left /\ left # NoNode /\ (j # m - 1 => t[j + 1] = s[k + 1])
      BY <1>0, <2>2
    <3>2. QED BY <2>2, <3>1
  <2>3. CASE j > k - 1
    <3>1. j + 1 \in 1 .. m /\ t[j] = s[j + 1] /\ (j # m - 1 => t[j + 1] = s[j + 2])
      BY <2>3
    <3>2. s[j + 1] # left
      BY <1>0, <2>3, <3>1 DEF Chained
    <3>3. next2[s[j + 1]] = next[s[j + 1]]
      BY <1>0, <3>1, <3>2
    <3>4. next[s[j + 1]] = IF j + 1 = m THEN NoNode ELSE s[j + 2]
      BY <3>1 DEF Chained
    <3>5. QED BY <3>1, <3>3, <3>4
  <2>4. QED BY <2>1, <2>2, <2>3
<1>3. ASSUME NEW i \in 1 .. m - 1, NEW j \in 1 .. m - 1, t[i] = t[j] PROVE i = j
  <2>1. ASSUME NEW a \in 1 .. m - 1
        PROVE  \/ a < k /\ a \in 1 .. m /\ t[a] = s[a]
               \/ a >= k /\ a + 1 \in 1 .. m /\ t[a] = s[a + 1]
    OBVIOUS
  <2>2. \A a, b \in 1 .. m : s[a] = s[b] => a = b
    BY DEF Chained
  <2>3. \/ i < k /\ i \in 1 .. m /\ t[i] = s[i]
        \/ i >= k /\ i + 1 \in 1 .. m /\ t[i] = s[i + 1]
    BY <2>1
  <2>4. \/ j < k /\ j \in 1 .. m /\ t[j] = s[j]
        \/ j >= k /\ j + 1 \in 1 .. m /\ t[j] = s[j + 1]
    BY <2>1
  <2>5. QED BY <1>3, <2>2, <2>3, <2>4
<1>4. QED BY <1>1, <1>2, <1>3 DEF Chained

\* What Represents says, place by place.
LEMMA RepresentsParts ==
  ASSUME NEW nodes \in SUBSET Nat, NEW l, NEW s \in Seq(nodes)
  PROVE  /\ Len(s) \in Nat /\ s \in [1 .. Len(s) -> nodes] /\ DOMAIN s = 1 .. Len(s)
         /\ Represents(l, s) <=>
              /\ l.size = Len(s) /\ Chained(l.prev, l.next, s, Len(s))
              /\ l.first = IF Len(s) = 0 THEN NoNode ELSE s[1]
              /\ l.last = IF Len(s) = 0 THEN NoNode ELSE s[Len(s)]
<1>1. /\ Len(s) \in Nat /\ s \in [1 .. Len(s) -> nodes] /\ DOMAIN s = 1 .. Len(s)
      /\ s = <<>> <=> Len(s) = 0
  OBVIOUS
<1>2. QED BY <1>1 DEF Represents, Chained

\* The fields of a list.
LEMMA LlFields ==
  ASSUME NEW nodes, NEW l \in LlType(nodes)
  PROVE  /\ l.size \in Nat /\ l.first \in nodes \cup {NoNode} /\ l.last \in nodes \cup {NoNode}
         /\ l.prev \in [nodes -> nodes \cup {NoNode, Wild}]
         /\ l.next \in [nodes -> nodes \cup {NoNode, Wild}]
BY DEF LlType

\* r is l with n linked in between left and right, and counted.
GrownBy(l, r, nodes, left, n, right) ==
  /\ r.size = l.size + 1
  /\ r.first = IF left = NoNode THEN n ELSE l.first
  /\ r.last = IF right = NoNode THEN n ELSE l.last
  /\ WovenIn(l.prev, l.next, r.prev, r.next, nodes, left, n, right)

\* A list whose pointers are set as GrownBy says has the new node between its neighbours.
LEMMA LinkedIn ==
  ASSUME NEW nodes \in SUBSET Nat, NEW l, NEW s \in Seq(nodes), Represents(l, s),
         NEW n \in nodes, n \notin Range(s), NEW k \in 0 .. Len(s),
         NEW left, left = IF k = 0 THEN NoNode ELSE s[k],
         NEW right, right = IF k = Len(s) THEN NoNode ELSE s[k + 1],
         NEW r, GrownBy(l, r, nodes, left, n, right)
  PROVE  Represents(r, InsertAt(s, k + 1, n))
<1> DEFINE m == Len(s)
           t == InsertAt(s, k + 1, n)
<1>1. /\ m \in Nat /\ s \in [1 .. m -> nodes] /\ DOMAIN s = 1 .. m
      /\ l.size = m /\ Chained(l.prev, l.next, s, m)
      /\ l.first = IF m = 0 THEN NoNode ELSE s[1]
      /\ l.last = IF m = 0 THEN NoNode ELSE s[m]
  BY RepresentsParts
<1>2. t \in Seq(nodes) /\ Len(t) = m + 1 /\ PlacedIn(s, t, m, k + 1, n)
  <2>1. Len(s) \in Nat
    OBVIOUS
  <2>2. k + 1 \in 1 .. Len(s) + 1
    BY <2>1
  <2>3. QED BY <2>2, InsertAtEffect
<1>3. \A j \in 1 .. m : s[j] # n
  BY <1>1 DEF Range
<1>4. k \in 0 .. m /\ right = IF k = m THEN NoNode ELSE s[k + 1]
  OBVIOUS
<1>5. r.size = l.size + 1 /\ WovenIn(l.prev, l.next, r.prev, r.next, nodes, left, n, right)
  BY DEF GrownBy
<1> HIDE DEF m, t
<1>6. Chained(r.prev, r.next, t, m + 1)
  BY <1>1, <1>2, <1>3, <1>4, <1>5, LinkIn
<1>7. r.first = t[1] /\ r.last = t[m + 1]
  <2>1. \A j \in 1 .. m : s[j] # NoNode
    BY <1>1 DEF NoNode
  <2>2. left = NoNode <=> k = 0
    BY <1>4, <2>1
  <2>3. right = NoNode <=> k = m
    BY <1>1, <1>4, <2>1
  <2>4. t[1] = IF k = 0 THEN n ELSE s[1]
    BY <1>1, <1>2, <1>4 DEF PlacedIn
  <2>5. t[m + 1] = IF k = m THEN n ELSE s[m]
    BY <1>1, <1>2, <1>4 DEF PlacedIn
  <2>6. k # 0 => m # 0
    BY <1>1, <1>4
  <2>7. k # m => m # 0
    BY <1>1, <1>4
  <2>8. QED BY <1>1, <2>2, <2>3, <2>4, <2>5, <2>6, <2>7 DEF GrownBy
<1>8. Represents(r, t)
  <2>1. m + 1 # 0 /\ r.size = m + 1
    BY <1>1, <1>5
  <2>2. QED BY <1>2, <1>6, <1>7, <2>1, RepresentsParts
<1>9. QED BY <1>8 DEF t

\* ll_insert_after: the node comes behind the i-th.
LEMMA InsertAfterEffect ==
  ASSUME NEW nodes \in SUBSET Nat, NEW l \in LlType(nodes), NEW s \in Seq(nodes),
         Represents(l, s), NEW i \in 1 .. Len(s), NEW n \in nodes, n \notin Range(s)
  PROVE  /\ LlInsertAfter(l, s[i], n) \in LlType(nodes)
         /\ Represents(LlInsertAfter(l, s[i], n), InsertAt(s, i + 1, n))
<1> DEFINE node == s[i]
           next == l.next[node]
           r == LlInsertAfter(l, node, n)
<1>1. /\ node \in nodes /\ node # n /\ next = IF i = Len(s) THEN NoNode ELSE s[i + 1]
      /\ next \in nodes \cup {NoNode} /\ next # n /\ node # NoNode
      /\ i \in 0 .. Len(s) /\ i # 0
  <2>1. /\ Len(s) \in Nat /\ s \in [1 .. Len(s) -> nodes] /\ DOMAIN s = 1 .. Len(s)
        /\ Chained(l.prev, l.next, s, Len(s))
    BY RepresentsParts
  <2>2. next = IF i = Len(s) THEN NoNode ELSE s[i + 1]
    BY <2>1 DEF Chained
  <2>3. \A j \in 1 .. Len(s) : s[j] # n /\ s[j] # NoNode
    <3>1. \A j \in 1 .. Len(s) : s[j] \in Range(s)
      BY <2>1 DEF Range
    <3>2. NoNode \notin nodes
      BY DEF NoNode
    <3>3. QED BY <2>1, <3>1, <3>2
  <2>4. Len(s) \in Nat /\ n # NoNode
    BY DEF NoNode
  <2>5. (i # Len(s) => i + 1 \in 1 .. Len(s)) /\ i \in 0 .. Len(s) /\ i # 0
    BY <2>4
  <2>6. node \in nodes /\ node # n /\ node # NoNode
    BY <2>1, <2>3
  <2>7. i # Len(s) => s[i + 1] \in nodes /\ s[i + 1] # n
    BY <2>1, <2>3, <2>5
  <2> HIDE DEF node, next
  <2>8. QED BY <2>2, <2>4, <2>5, <2>6, <2>7
<1> HIDE DEF next
<1>2. r = List(l.size + 1, l.first, IF next = NoNode THEN n ELSE l.last,
               [Point(l.prev, next, n) EXCEPT ![n] = node],
               [l.next EXCEPT ![n] = next, ![node] = n])
  BY DEF LlInsertAfter, next
<1> HIDE DEF node, r
<1>3. /\ r.size = l.size + 1 /\ r.first = l.first
      /\ r.last = IF next = NoNode THEN n ELSE l.last
      /\ r.prev = [Point(l.prev, next, n) EXCEPT ![n] = node]
      /\ r.next = [l.next EXCEPT ![n] = next, ![node] = n]
  BY <1>2 DEF List
<1>4. /\ r.prev[n] = node
      /\ next # NoNode => r.prev[next] = n
      /\ \A p \in nodes \ {n, next} : r.prev[p] = l.prev[p]
      /\ r.prev \in [nodes -> nodes \cup {NoNode, Wild}]
  <2>1. CASE next = NoNode
    BY <1>1, <1>3, <2>1, LlFields DEF Point
  <2>2. CASE next # NoNode
    <3>1. /\ r.prev = [[l.prev EXCEPT ![next] = n] EXCEPT ![n] = node]
          /\ l.prev \in [nodes -> nodes \cup {NoNode, Wild}] /\ next \in nodes
      BY <1>1, <1>3, <2>2, LlFields DEF Point
    <3>2. node \in nodes /\ next # n
      BY <1>1
    <3>3. r.prev[n] = node /\ r.prev[next] = n
      BY <3>1, <3>2
    <3>4. \A p \in nodes \ {n, next} : r.prev[p] = l.prev[p]
      BY <3>1
    <3>5. r.prev \in [nodes -> nodes \cup {NoNode, Wild}]
      BY <3>1, <3>2
    <3>6. QED BY <3>3, <3>4, <3>5
  <2>3. QED BY <2>1, <2>2
<1>5. /\ r.next[n] = next /\ r.next[node] = n
      /\ \A p \in nodes \ {n, node} : r.next[p] = l.next[p]
      /\ r.next \in [nodes -> nodes \cup {NoNode, Wild}]
  BY <1>1, <1>3, LlFields
<1>6. r \in LlType(nodes)
  BY <1>1, <1>2, <1>3, <1>4, <1>5, LlFields DEF LlType, List
<1>7. Represents(r, InsertAt(s, i + 1, n))
  <2>1. node = IF i = 0 THEN NoNode ELSE s[i]
    BY <1>1 DEF node
  <2>2. r.first = IF node = NoNode THEN n ELSE l.first
    BY <1>1, <1>3
  <2>3. GrownBy(l, r, nodes, node, n, next)
    BY <1>3, <1>4, <1>5, <2>2 DEF GrownBy, WovenIn
  <2>4. QED BY <1>1, <2>1, <2>3, LinkedIn
<1>8. QED BY <1>6, <1>7 DEF r, node

\* ll_insert_before: the node comes before the i-th.
LEMMA InsertBeforeEffect ==
  ASSUME NEW nodes \in SUBSET Nat, NEW l \in LlType(nodes), NEW s \in Seq(nodes),
         Represents(l, s), NEW i \in 1 .. Len(s), NEW n \in nodes, n \notin Range(s)
  PROVE  /\ LlInsertBefore(l, s[i], n) \in LlType(nodes)
         /\ Represents(LlInsertBefore(l, s[i], n), InsertAt(s, i, n))
<1> DEFINE node == s[i]
           prev == l.prev[node]
           r == LlInsertBefore(l, node, n)
           k == i - 1
<1>1. /\ node \in nodes /\ node # n /\ prev = IF k = 0 THEN NoNode ELSE s[k]
      /\ prev \in nodes \cup {NoNode} /\ prev # n /\ node # NoNode
      /\ k \in 0 .. Len(s) /\ k # Len(s) /\ k + 1 = i
  <2>1. /\ Len(s) \in Nat /\ s \in [1 .. Len(s) -> nodes] /\ DOMAIN s = 1 .. Len(s)
        /\ Chained(l.prev, l.next, s, Len(s))
    BY RepresentsParts
  <2>2. prev = IF i = 1 THEN NoNode ELSE s[i - 1]
    BY <2>1 DEF Chained
  <2>3. \A j \in 1 .. Len(s) : s[j] # n /\ s[j] # NoNode
    <3>1. \A j \in 1 .. Len(s) : s[j] \in Range(s)
      BY <2>1 DEF Range
    <3>2. NoNode \notin nodes
      BY DEF NoNode
    <3>3. QED BY <2>1, <3>1, <3>2
  <2>4. i # 1 => i - 1 \in 1 .. Len(s)
    BY <2>1
  <2>5. n # NoNode
    BY DEF NoNode
  <2>6. k \in 0 .. Len(s) /\ k # Len(s) /\ k + 1 = i /\ (k = 0 <=> i = 1)
    BY <2>1
  <2>7. QED BY <2>1, <2>2, <2>3, <2>4, <2>5, <2>6
<1> HIDE DEF prev, k
<1>2. r = List(l.size + 1, IF prev = NoNode THEN n ELSE l.first, l.last,
               [l.prev EXCEPT ![n] = prev, ![node] = n],
               [Point(l.next, prev, n) EXCEPT ![n] = node])
  BY DEF LlInsertBefore, prev
<1> HIDE DEF node, r
<1>3. /\ r.size = l.size + 1 /\ r.last = l.last
      /\ r.first = IF prev = NoNode THEN n ELSE l.first
      /\ r.next = [Point(l.next, prev, n) EXCEPT ![n] = node]
      /\ r.prev = [l.prev EXCEPT ![n] = prev, ![node] = n]
  BY <1>2 DEF List
<1>4. /\ r.next[n] = node
      /\ prev # NoNode => r.next[prev] = n
      /\ \A p \in nodes \ {n, prev} : r.next[p] = l.next[p]
      /\ r.next \in [nodes -> nodes \cup {NoNode, Wild}]
  <2>1. CASE prev = NoNode
    BY <1>1, <1>3, <2>1, LlFields DEF Point
  <2>2. CASE prev # NoNode
    <3>1. /\ r.next = [[l.next EXCEPT ![prev] = n] EXCEPT ![n] = node]
          /\ l.next \in [nodes -> nodes \cup {NoNode, Wild}] /\ prev \in nodes
      BY <1>1, <1>3, <2>2, LlFields DEF Point
    <3>2. node \in nodes /\ prev # n
      BY <1>1
    <3>3. r.next[n] = node /\ r.next[prev] = n
      BY <3>1, <3>2
    <3>4. \A p \in nodes \ {n, prev} : r.next[p] = l.next[p]
      BY <3>1
    <3>5. r.next \in [nodes -> nodes \cup {NoNode, Wild}]
      BY <3>1, <3>2
    <3>6. QED BY <3>3, <3>4, <3>5
  <2>3. QED BY <2>1, <2>2
<1>5. /\ r.prev[n] = prev /\ r.prev[node] = n
      /\ \A p \in nodes \ {n, node} : r.prev[p] = l.prev[p]
      /\ r.prev \in [nodes -> nodes \cup {NoNode, Wild}]
  <2>1. /\ r.prev = [[l.prev EXCEPT ![n] = prev] EXCEPT ![node] = n]
        /\ l.prev \in [nodes -> nodes \cup {NoNode, Wild}]
    BY <1>3, LlFields
  <2>2. node \in nodes /\ node # n /\ prev \in nodes \cup {NoNode}
    BY <1>1
  <2>3. r.prev[n] = prev /\ r.prev[node] = n
    BY <2>1, <2>2
  <2>4. \A p \in nodes \ {n, node} : r.prev[p] = l.prev[p]
    BY <2>1
  <2>5. r.prev \in [nodes -> nodes \cup {NoNode, Wild}]
    BY <2>1, <2>2
  <2>6. QED BY <2>3, <2>4, <2>5
<1>6. r \in LlType(nodes)
  <2>1. /\ l.size + 1 \in Nat /\ l.last \in nodes \cup {NoNode}
        /\ (IF prev = NoNode THEN n ELSE l.first) \in nodes \cup {NoNode}
    BY LlFields
  <2>2. r = [size |-> r.size, first |-> r.first, last |-> r.last,
             prev |-> r.prev, next |-> r.next]
    BY <1>2 DEF List
  <2>3. QED BY <1>3, <1>4, <1>5, <2>1, <2>2 DEF LlType
<1>7. Represents(r, InsertAt(s, k + 1, n))
  <2>1. node = IF k = Len(s) THEN NoNode ELSE s[k + 1]
    BY <1>1 DEF node
  <2>2. r.last = IF node = NoNode THEN n ELSE l.last
    BY <1>1, <1>3
  <2>3. GrownBy(l, r, nodes, prev, n, node)
    BY <1>3, <1>4, <1>5, <2>2 DEF GrownBy, WovenIn
  <2>4. QED BY <1>1, <2>1, <2>3, LinkedIn
<1>8. QED BY <1>1, <1>6, <1>7 DEF r, node

\* The first node of an empty list.
LEMMA AddFirstEffect ==
  ASSUME NEW nodes \in SUBSET Nat, NEW l \in LlType(nodes), NEW s \in Seq(nodes),
         Represents(l, s), Len(s) = 0, NEW n \in nodes
  PROVE  /\ LlAddFirst(l, n) \in LlType(nodes)
         /\ Represents(LlAddFirst(l, n), InsertAt(s, 1, n))
<1> DEFINE r == LlAddFirst(l, n)
<1>1. r = List(l.size + 1, n, n, [l.prev EXCEPT ![n] = NoNode], [l.next EXCEPT ![n] = NoNode])
  BY DEF LlAddFirst
<1> HIDE DEF r
<1>2. /\ r.size = l.size + 1 /\ r.first = n /\ r.last = n
      /\ r.prev = [l.prev EXCEPT ![n] = NoNode]
      /\ r.next = [l.next EXCEPT ![n] = NoNode]
  BY <1>1 DEF List
<1>3. /\ r.prev[n] = NoNode /\ \A p \in nodes \ {n, NoNode} : r.prev[p] = l.prev[p]
      /\ r.prev \in [nodes -> nodes \cup {NoNode, Wild}]
  BY <1>2, LlFields
<1>4. /\ r.next[n] = NoNode /\ \A p \in nodes \ {n, NoNode} : r.next[p] = l.next[p]
      /\ r.next \in [nodes -> nodes \cup {NoNode, Wild}]
  BY <1>2, LlFields
<1>5. r \in LlType(nodes)
  BY <1>1, <1>2, <1>3, <1>4, LlFields DEF LlType, List
<1>6. 0 \in 0 .. Len(s) /\ n \notin Range(s) /\ 0 + 1 = 1
  <2>1. DOMAIN s = {}
    OBVIOUS
  <2>2. QED BY <2>1 DEF Range
<1>7. Represents(r, InsertAt(s, 0 + 1, n))
  <2>1. GrownBy(l, r, nodes, NoNode, n, NoNode)
    BY <1>2, <1>3, <1>4 DEF GrownBy, WovenIn
  <2>2. QED BY <1>6, <2>1, LinkedIn
<1>8. QED BY <1>5, <1>6, <1>7 DEF r

\* ll_push_back, to an empty list too.
LEMMA LlPushBackEffect ==
  ASSUME NEW nodes \in SUBSET Nat, NEW l \in LlType(nodes), NEW s \in Seq(nodes),
         Represents(l, s), NEW n \in nodes, n \notin Range(s)
  PROVE  /\ LlPushBack(l, n) \in LlType(nodes)
         /\ Represents(LlPushBack(l, n), Append(s, n))
<1>1. /\ Len(s) \in Nat /\ s \in [1 .. Len(s) -> nodes]
      /\ l.last = IF Len(s) = 0 THEN NoNode ELSE s[Len(s)]
  BY RepresentsParts
<1>2. CASE Len(s) # 0
  <2>1. Len(s) \in 1 .. Len(s) /\ l.last # NoNode
    BY <1>1, <1>2 DEF NoNode
  <2>2. LlPushBack(l, n) = LlInsertAfter(l, s[Len(s)], n)
    BY <1>1, <1>2, <2>1 DEF LlPushBack
  <2>3. QED BY <2>1, <2>2, InsertAfterEffect, InsertAtEnds
<1>3. CASE Len(s) = 0
  <2>1. LlPushBack(l, n) = LlAddFirst(l, n)
    BY <1>1, <1>3 DEF LlPushBack
  <2>2. InsertAt(s, 1, n) = Append(s, n)
    <3>1. InsertAt(s, Len(s) + 1, n) = Append(s, n)
      BY InsertAtEnds
    <3>2. Len(s) + 1 = 1
      BY <1>3
    <3>3. QED BY <3>1, <3>2
  <2>3. QED BY <1>3, <2>1, <2>2, AddFirstEffect
<1>4. QED BY <1>2, <1>3

\* ll_push_front, to an empty list too.
LEMMA LlPushFrontEffect ==
  ASSUME NEW nodes \in SUBSET Nat, NEW l \in LlType(nodes), NEW s \in Seq(nodes),
         Represents(l, s), NEW n \in nodes, n \notin Range(s)
  PROVE  /\ LlPushFront(l, n) \in LlType(nodes)
         /\ Represents(LlPushFront(l, n), <<n>> \o s)
<1>1. /\ Len(s) \in Nat /\ s \in [1 .. Len(s) -> nodes]
      /\ l.first = IF Len(s) = 0 THEN NoNode ELSE s[1]
  BY RepresentsParts
<1>2. CASE Len(s) # 0
  <2>1. 1 \in 1 .. Len(s) /\ l.first # NoNode
    BY <1>1, <1>2 DEF NoNode
  <2>2. LlPushFront(l, n) = LlInsertBefore(l, s[1], n)
    BY <1>1, <1>2, <2>1 DEF LlPushFront
  <2>3. QED BY <2>1, <2>2, InsertBeforeEffect, InsertAtEnds
<1>3. CASE Len(s) = 0
  <2>1. LlPushFront(l, n) = LlAddFirst(l, n)
    BY <1>1, <1>3 DEF LlPushFront
  <2>2. QED BY <1>3, <2>1, InsertAtEnds, AddFirstEffect
<1>4. QED BY <1>2, <1>3

\* ll_delete of the i-th node.
LEMMA LlDeleteEffect ==
  ASSUME NEW nodes \in SUBSET Nat, NEW l \in LlType(nodes), NEW s \in Seq(nodes),
         Represents(l, s), NEW i \in 1 .. Len(s)
  PROVE  /\ LlDelete(l, s[i]) \in LlType(nodes)
         /\ Represents(LlDelete(l, s[i]), RemoveAt(s, i))
<1> DEFINE m == Len(s)
           prev == l.prev[s[i]]
           next == l.next[s[i]]
           r == LlDelete(l, s[i])
           t == RemoveAt(s, i)
<1>1. /\ m \in Nat /\ s \in [1 .. m -> nodes] /\ l.size = m
      /\ Chained(l.prev, l.next, s, m)
      /\ l.first = IF m = 0 THEN NoNode ELSE s[1]
      /\ l.last = IF m = 0 THEN NoNode ELSE s[m]
  BY RepresentsParts
<1>2. t \in Seq(nodes) /\ Len(t) = m - 1 /\ TakenOut(s, t, m, i)
  BY RemoveAtEffect
<1> HIDE DEF t, m
<1>3. i \in 1 .. m
  BY DEF m
<1>4. /\ prev = IF i = 1 THEN NoNode ELSE s[i - 1]
      /\ next = IF i = m THEN NoNode ELSE s[i + 1]
  BY <1>1, <1>3 DEF Chained
<1>5. /\ prev \in nodes \cup {NoNode} /\ next \in nodes \cup {NoNode}
      /\ prev = NoNode <=> i = 1
      /\ next = NoNode <=> i = m
  <2>1. \A j \in 1 .. m : s[j] \in nodes /\ s[j] # NoNode
    BY <1>1 DEF NoNode
  <2>2. (i # 1 => i - 1 \in 1 .. m) /\ (i # m => i + 1 \in 1 .. m)
    BY <1>1, <1>3
  <2>3. QED BY <1>4, <2>1, <2>2
<1> HIDE DEF prev, next
<1>6. r = List(l.size - 1, IF prev = NoNode THEN next ELSE l.first,
               IF next = NoNode THEN prev ELSE l.last,
               Point(l.prev, next, prev), Point(l.next, prev, next))
  BY DEF LlDelete, prev, next
<1> HIDE DEF r
<1>7. /\ r.size = l.size - 1 /\ r.first = IF prev = NoNode THEN next ELSE l.first
      /\ r.last = IF next = NoNode THEN prev ELSE l.last
      /\ r.prev = Point(l.prev, next, prev) /\ r.next = Point(l.next, prev, next)
  BY <1>6 DEF List
<1>8. /\ next # NoNode => r.prev[next] = prev
      /\ \A p \in nodes \ {next} : r.prev[p] = l.prev[p]
      /\ r.prev \in [nodes -> nodes \cup {NoNode, Wild}]
  BY <1>5, <1>7, LlFields DEF Point
<1>9. /\ prev # NoNode => r.next[prev] = next
      /\ \A p \in nodes \ {prev} : r.next[p] = l.next[p]
      /\ r.next \in [nodes -> nodes \cup {NoNode, Wild}]
  BY <1>5, <1>7, LlFields DEF Point
<1>10. r \in LlType(nodes)
  BY <1>1, <1>3, <1>5, <1>6, <1>7, <1>8, <1>9, LlFields DEF LlType, List
<1>11. Chained(r.prev, r.next, t, m - 1)
  <2>1. WovenOut(l.prev, l.next, r.prev, r.next, nodes, prev, next)
    BY <1>8, <1>9 DEF WovenOut
  <2>2. QED BY <1>1, <1>2, <1>3, <1>4, <2>1, LinkOut
<1>12. /\ r.first = IF m - 1 = 0 THEN NoNode ELSE t[1]
       /\ r.last = IF m - 1 = 0 THEN NoNode ELSE t[m - 1]
  <2>1. CASE m = 1
    BY <1>1, <1>3, <1>4, <1>5, <1>7, <2>1
  <2>2. CASE m # 1
    <3>1. t[1] = IF i = 1 THEN s[2] ELSE s[1]
      BY <1>1, <1>2, <1>3, <2>2 DEF TakenOut
    <3>2. t[m - 1] = IF i = m THEN s[m - 1] ELSE s[m]
      BY <1>1, <1>2, <1>3, <2>2 DEF TakenOut
    <3>3. i = 1 => i # m
      BY <2>2
    <3>4. QED BY <1>1, <1>3, <1>4, <1>5, <1>7, <2>2, <3>1, <3>2, <3>3
  <2>3. QED BY <2>1, <2>2
<1>13. Represents(r, t)
  BY <1>1, <1>2, <1>7, <1>11, <1>12, RepresentsParts
<1>14. QED BY <1>10, <1>13 DEF r, t

\* ll_init.
LEMMA LlInitEffect ==
  ASSUME NEW nodes \in SUBSET Nat, NEW l,
         l.prev \in [nodes -> nodes \cup {NoNode, Wild}],
         l.next \in [nodes -> nodes \cup {NoNode, Wild}]
  PROVE  LlInit(l) \in LlType(nodes) /\ Represents(LlInit(l), <<>>)
<1>1. LlInit(l) \in LlType(nodes)
  BY DEF LlInit, List, LlType
<1>2. Represents(LlInit(l), <<>>)
  BY DEF LlInit, List, Represents
<1>3. QED BY <1>1, <1>2

\* A list has one order.
LEMMA OneOrder ==
  ASSUME NEW nodes \in SUBSET Nat, NEW l, NEW s \in Seq(nodes), NEW t \in Seq(nodes),
         Represents(l, s), Represents(l, t)
  PROVE  s = t
<1>1. /\ Len(s) \in Nat /\ Len(t) = Len(s)
      /\ Chained(l.prev, l.next, s, Len(s)) /\ Chained(l.prev, l.next, t, Len(t))
      /\ Len(s) # 0 => s[1] = t[1]
  BY RepresentsParts
<1> DEFINE T == {k \in 1 .. Len(s) : s[k] # t[k]}
<1>2. T = {}
  <2> SUFFICES ASSUME T # {} PROVE FALSE
    OBVIOUS
  <2>1. T \in SUBSET Nat
    BY <1>1
  <2> HIDE DEF T
  <2>2. PICK k \in T : \A j \in T : k <= j
    BY <2>1, LeastElement
  <2>3. k \in 1 .. Len(s) /\ s[k] # t[k]
    BY DEF T
  <2>4. k # 1 /\ k - 1 \in 1 .. Len(s) /\ k - 1 # Len(s) /\ (k - 1) + 1 = k
    BY <1>1, <2>3
  <2>5. k - 1 \notin T
    BY <2>2, <2>4
  <2>6. s[k - 1] = t[k - 1]
    BY <2>4, <2>5 DEF T
  <2>7. l.next[s[k - 1]] = s[k] /\ l.next[t[k - 1]] = t[k]
    BY <1>1, <2>4 DEF Chained
  <2>8. QED BY <2>3, <2>6, <2>7
<1>3. \A k \in 1 .. Len(s) : s[k] = t[k]
  BY <1>2
<1>4. QED BY <1>1, <1>3, SeqEqual
=============================================================================
