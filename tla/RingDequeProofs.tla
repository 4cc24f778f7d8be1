-------------------------- MODULE RingDequeProofs ---------------------------
(***************************************************************************)
(* RingDeque for every capacity and every set of elements: the indices     *)
(* stay inside the array, and as long as the owner never pushes to the     *)
(* front of an empty ring the two ends delimit the same elements.          *)
(***************************************************************************)
EXTENDS RingDeque, ContainerProofs

\* The caller's store stays inside the array.
LEMMA StoreTyped ==
  ASSUME NEW slot \in RingSlots(N) \cup {NoSlot}, NEW e \in Elem, TypeOK, Store(slot, e)
  PROVE  slots' \in [RingSlots(N) -> Elem]
BY DEF Store, TypeOK

\* A push into a full ring, or a pop from an empty one, changes nothing.
LEMMA FullOrEmpty ==
  /\ RbFull(rb) => RbPushBack(rb) = rb /\ RbPushFront(rb) = rb
  /\ RbEmpty(rb) => RbPopBack(rb) = rb /\ RbPopFront(rb) = rb
BY DEF RbPushBack, RbPushFront, RbPopBack, RbPopFront

\* Every call keeps the indices inside the ring.
LEMMA TypeStep == TypeOK /\ [Next]_vars => TypeOK'
<1> SUFFICES ASSUME TypeOK, [Next]_vars PROVE TypeOK'
  OBVIOUS
<1> USE NAssumption
<1>0. rb \in RingType(N) /\ slots \in [RingSlots(N) -> Elem]
  BY DEF TypeOK
<1>1. ASSUME NEW e \in Elem, PushBack(e) PROVE TypeOK'
  <2>1. RbPushBackSlot(rb) \in RingSlots(N) \cup {NoSlot}
    BY <1>0, RingFields DEF RbPushBackSlot, RingSlots
  <2>2. rb' \in RingType(N)
    BY <1>0, <1>1, FullOrEmpty, PushBackEffect DEF PushBack
  <2>3. QED BY <1>1, <2>1, <2>2, StoreTyped DEF PushBack, TypeOK
<1>2. ASSUME NEW e \in Elem, PushFront(e) PROVE TypeOK'
  <2>1. RbPushFront(rb) \in RingType(N)
    BY <1>0, FullOrEmpty, PushFrontEffect
  <2>2. RbPushFrontSlot(rb) \in RingSlots(N) \cup {NoSlot}
    BY <2>1, RingFields DEF RbPushFrontSlot, RingSlots
  <2>3. QED BY <1>2, <2>1, <2>2, StoreTyped DEF PushFront, TypeOK
<1>3. CASE PopBack
  BY <1>0, <1>3, FullOrEmpty, PopBackEffect DEF PopBack, TypeOK
<1>4. CASE PopFront
  BY <1>0, <1>4, FullOrEmpty, PopFrontEffect DEF PopFront, TypeOK
<1>5. CASE Clear
  BY <1>0, <1>5, InitEffect DEF Clear, TypeOK
<1>6. CASE UNCHANGED vars
  BY <1>0, <1>6 DEF vars, TypeOK
<1>7. QED BY <1>1, <1>2, <1>3, <1>4, <1>5, <1>6 DEF Next

\* Whatever the owner does, no operation leaves an index outside the array.
THEOREM TypeCorrect == Spec => []TypeOK
<1>1. Init => TypeOK
  BY NAssumption, InitEffect DEF Init, TypeOK
<1>2. QED BY <1>1, TypeStep, PTL DEF Spec

-----------------------------------------------------------------------------

\* The back is size slots from the front: what EndsAgree says of the struct.
EndsMeet(r) == r.back = RbSlot(r, r.size)

\* The slot of rb_back is then the one before.
LEMMA BackSlot ==
  ASSUME NEW r \in RingType(N), ~RbEmpty(r), EndsMeet(r)
  PROVE  RbBack(r) = RbSlot(r, r.size - 1)
<1> USE NAssumption
<1>1. r.size \in 0 .. N /\ r.size - 1 \in 0 .. N /\ r.max = N
  BY RingFields DEF RbEmpty
<1>2. RbBack(r) = IF r.back = 0 THEN N - 1 ELSE r.back - 1
  BY <1>1, RingFields, ModPrev DEF RbBack
<1>3. RbSlot(r, r.size) = IF r.front + r.size < N THEN r.front + r.size
                          ELSE r.front + r.size - N
  BY <1>1, SlotWrap
<1>4. RbSlot(r, r.size - 1) = IF r.front + (r.size - 1) < N
                              THEN r.front + (r.size - 1)
                              ELSE r.front + (r.size - 1) - N
  BY <1>1, SlotWrap
<1>5. QED BY <1>1, <1>2, <1>3, <1>4, RingFields DEF EndsMeet

\* Every call, but a push to the front of an empty ring, keeps the ends size slots apart.
LEMMA EndsStep ==
  ~FrontIntoEmpty /\ TypeOK /\ EndsMeet(rb) /\ [Next]_vars => EndsMeet(rb')
<1> SUFFICES ASSUME ~FrontIntoEmpty, TypeOK, EndsMeet(rb), [Next]_vars
             PROVE  EndsMeet(rb')
  OBVIOUS
<1> USE NAssumption
<1>0. /\ rb \in RingType(N) /\ rb.size \in 0 .. N /\ rb.max = N
      /\ rb.front \in 0 .. N - 1 /\ rb.back \in 0 .. N - 1
      /\ rb.back = IF rb.front + rb.size < N THEN rb.front + rb.size
                                             ELSE rb.front + rb.size - N
  BY RingFields, SlotWrap DEF TypeOK, EndsMeet
<1>1. ASSUME NEW e \in Elem, PushBack(e), ~RbFull(rb) PROVE EndsMeet(rb')
  <2>1. rb.size + 1 \in 0 .. N
    BY <1>0, <1>1 DEF RbFull
  <2>2. RbSlot(rb, rb.size + 1) = IF rb.front + (rb.size + 1) < N
          THEN rb.front + (rb.size + 1) ELSE rb.front + (rb.size + 1) - N
    BY <1>0, <2>1, SlotWrap
  <2>3. /\ rb' \in RingType(N) /\ rb'.size = rb.size + 1
        /\ rb'.back = IF rb.back = N - 1 THEN 0 ELSE rb.back + 1
        /\ RbSlot(rb', rb.size + 1) = RbSlot(rb, rb.size + 1)
    BY <1>0, <1>1, PushBackEffect DEF PushBack
  <2>4. QED BY <1>0, <2>1, <2>2, <2>3 DEF EndsMeet
<1>2. ASSUME NEW e \in Elem, PushFront(e), ~RbFull(rb) PROVE EndsMeet(rb')
  <2>1. /\ rb' \in RingType(N) /\ rb'.size = rb.size + 1 /\ rb'.back = rb.back
        /\ \A i \in 0 .. rb.size - 1 : RbSlot(rb', i + 1) = RbSlot(rb, i)
    BY <1>0, <1>2, PushFrontEffect DEF PushFront
  <2>2. rb.size - 1 \in 0 .. rb.size - 1 /\ ~RbEmpty(rb)
    BY <1>0, <1>2 DEF PushFront, RbEmpty
  <2>3. RbSlot(rb', rb.size) = RbSlot(rb, rb.size - 1)
    BY <1>0, <2>1, <2>2
  <2>4. rb.size - 1 \in 0 .. N /\ rb.size + 1 \in 0 .. N
    BY <1>0, <1>2, <2>2 DEF RbFull, RbEmpty
  <2>5. rb'.front \in 0 .. N - 1
    BY <2>1, RingFields
  <2>6. RbSlot(rb', rb.size) = IF rb'.front + rb.size < N
          THEN rb'.front + rb.size ELSE rb'.front + rb.size - N
    BY <1>0, <2>1, SlotWrap
  <2>7. RbSlot(rb', rb.size + 1) = IF rb'.front + (rb.size + 1) < N
          THEN rb'.front + (rb.size + 1) ELSE rb'.front + (rb.size + 1) - N
    BY <2>1, <2>4, SlotWrap
  <2>8. RbSlot(rb, rb.size - 1) = IF rb.front + (rb.size - 1) < N
          THEN rb.front + (rb.size - 1) ELSE rb.front + (rb.size - 1) - N
    BY <1>0, <2>4, SlotWrap
  <2>9. QED BY <1>0, <2>1, <2>3, <2>4, <2>5, <2>6, <2>7, <2>8 DEF EndsMeet
<1>3. CASE PopBack /\ ~RbEmpty(rb)
  <2>1. rb.size - 1 \in 0 .. N
    BY <1>0, <1>3 DEF RbEmpty
  <2>2. RbSlot(rb, rb.size - 1) = IF rb.front + (rb.size - 1) < N
          THEN rb.front + (rb.size - 1) ELSE rb.front + (rb.size - 1) - N
    BY <1>0, <2>1, SlotWrap
  <2>3. /\ rb' \in RingType(N) /\ rb'.size = rb.size - 1
        /\ rb'.back = IF rb.back = 0 THEN N - 1 ELSE rb.back - 1
        /\ RbSlot(rb', rb.size - 1) = RbSlot(rb, rb.size - 1)
    BY <1>0, <1>3, PopBackEffect DEF PopBack
  <2>4. QED BY <1>0, <2>1, <2>2, <2>3 DEF EndsMeet
<1>4. CASE PopFront /\ ~RbEmpty(rb)
  <2>1. /\ rb'.size = rb.size - 1 /\ rb'.back = rb.back
        /\ RbSlot(rb', rb.size - 1) = RbSlot(rb, (rb.size - 1) + 1)
    BY <1>0, <1>4, PopFrontEffect DEF PopFront, RbEmpty
  <2>2. (rb.size - 1) + 1 = rb.size
    BY <1>0
  <2>3. QED BY <2>1, <2>2 DEF EndsMeet
<1>5. CASE Clear
  <2>1. rb' = Ring(0, 0, 0, N) /\ rb' \in RingType(N)
    BY <1>0, <1>5, InitEffect DEF Clear
  <2>2. RbSlot(rb', 0) = 0 /\ rb'.size = 0 /\ rb'.back = 0
    BY <2>1, SlotWrap DEF Ring
  <2>3. QED BY <2>2 DEF EndsMeet
<1>6. CASE UNCHANGED rb
  BY <1>6 DEF EndsMeet, RbSlot
<1>7. ASSUME Next PROVE EndsMeet(rb') \/ UNCHANGED rb
  BY <1>1, <1>2, <1>3, <1>4, <1>5, <1>7, FullOrEmpty
     DEF Next, PushBack, PushFront, PopBack, PopFront
<1>8. QED BY <1>6, <1>7 DEF vars

\* A new ring is typed and its ends meet.
LEMMA InitInvariant == Init => TypeOK /\ EndsMeet(rb)
<1> SUFFICES ASSUME Init PROVE EndsMeet(rb) /\ TypeOK
  OBVIOUS
<1>1. rb = Ring(0, 0, 0, N) /\ rb \in RingType(N)
  BY NAssumption, InitEffect DEF Init
<1>2. RbSlot(rb, 0) = 0 /\ rb.size = 0 /\ rb.back = 0
  BY <1>1, NAssumption, SlotWrap DEF Ring
<1>3. QED BY <1>1, <1>2 DEF EndsMeet, TypeOK, Init

\* An owner that pushes to the front only of a ring that holds something sees
\* both ends delimit the same elements forever.
THEOREM EndsAlwaysAgree ==
  ASSUME ~FrontIntoEmpty PROVE Spec => []EndsAgree
<1> DEFINE IInv == TypeOK /\ EndsMeet(rb)
<1>1. Init => IInv
  BY InitInvariant
<1>2. IInv /\ [Next]_vars => IInv'
  BY TypeStep, EndsStep DEF EndsMeet, RbSlot
<1>3. IInv => EndsAgree
  BY BackSlot DEF EndsAgree, EndsMeet, TypeOK
<1> HIDE DEF IInv
<1>4. QED BY <1>1, <1>2, <1>3, PTL DEF Spec

-----------------------------------------------------------------------------

\* The elements as a sequence.
LEMMA ContentsSeq ==
  ASSUME TypeOK
  PROVE  /\ Contents \in Seq(Elem) /\ Len(Contents) = rb.size
         /\ \A k \in 1 .. rb.size : Contents[k] = slots[RbSlot(rb, k - 1)]
<1>1. rb.size \in 0 .. N /\ rb.size \in Nat
  BY NAssumption, RingFields DEF TypeOK
<1>2. ASSUME NEW k \in 1 .. rb.size
      PROVE  slots[RbSlot(rb, k - 1)] \in Elem
  <2>1. k - 1 \in 0 .. N
    BY <1>1, NAssumption
  <2>2. QED BY <2>1, NAssumption, SlotWrap DEF TypeOK
<1>3. QED BY <1>1, <1>2 DEF Contents

\* Each step of the ring is a step of the deque or changes no element.
LEMMA DequeStep ==
  ~FrontIntoEmpty /\ TypeOK /\ TypeOK' /\ EndsMeet(rb) /\ [Next]_vars
     => [Abstract!Next]_Contents
<1> SUFFICES ASSUME ~FrontIntoEmpty, TypeOK, TypeOK', EndsMeet(rb), [Next]_vars
             PROVE  Abstract!Next \/ Contents' = Contents
  OBVIOUS
<1> USE NAssumption
<1>0. /\ rb \in RingType(N) /\ rb.size \in 0 .. N /\ rb.max = N
      /\ rb' \in RingType(N)
      /\ slots \in [RingSlots(N) -> Elem]
  BY RingFields DEF TypeOK
<1>1. /\ Contents \in Seq(Elem) /\ Len(Contents) = rb.size
      /\ \A k \in 1 .. rb.size : Contents[k] = slots[RbSlot(rb, k - 1)]
  BY ContentsSeq
<1>2. /\ Contents' \in Seq(Elem) /\ Len(Contents') = rb'.size
      /\ \A k \in 1 .. rb'.size : Contents'[k] = slots'[RbSlot(rb', k - 1)]
  <2>1. (Contents \in Seq(Elem) /\ Len(Contents) = rb.size
         /\ \A k \in 1 .. rb.size : Contents[k] = slots[RbSlot(rb, k - 1)])'
    BY ContentsSeq, PTL
  <2>2. QED BY <2>1 DEF RbSlot
<1>3. ASSUME NEW e \in Elem, PushBack(e), ~RbFull(rb) PROVE Abstract!Next
  <2>1. /\ rb.size < N /\ rb'.size = rb.size + 1
        /\ \A i : RbSlot(rb', i) = RbSlot(rb, i)
    BY <1>0, <1>3, PushBackEffect DEF PushBack, RbFull
  <2>2. rb.back \in RingSlots(N) /\ slots' = [slots EXCEPT ![rb.back] = e]
    BY <1>0, <1>3, RingFields DEF PushBack, Store, RbPushBackSlot, NoSlot, RingSlots
  <2>3. ASSUME NEW k \in 1 .. rb.size PROVE Contents'[k] = Contents[k]
    <3>1. RbSlot(rb, k - 1) # rb.back
      BY <1>0, <1>3, SlotPastEnd DEF EndsMeet
    <3>2. RbSlot(rb, k - 1) \in RingSlots(N)
      BY <1>0, SlotWrap
    <3>3. k \in 1 .. rb'.size
      BY <1>0, <2>1
    <3>4. QED BY <1>0, <1>1, <1>2, <2>1, <2>2, <3>1, <3>2, <3>3
  <2>4. Contents'[rb.size + 1] = e
    <3>1. rb.size + 1 \in 1 .. rb'.size /\ (rb.size + 1) - 1 = rb.size
      BY <1>0, <2>1
    <3>2. QED BY <1>0, <1>2, <2>1, <2>2, <3>1 DEF EndsMeet
  <2>5. Contents' = Append(Contents, e)
    BY <1>0, <1>1, <1>2, <2>1, <2>3, <2>4
  <2>6. QED BY <1>1, <2>1, <2>5 DEF Abstract!Next, Abstract!PushBack
<1>4. ASSUME NEW e \in Elem, PushFront(e), ~RbFull(rb) PROVE Abstract!Next
  <2>1. /\ rb.size < N /\ rb'.size = rb.size + 1
        /\ RbPushFrontSlot(rb) = RbSlot(rb', 0)
        /\ \A i \in 0 .. rb.size - 1 : RbSlot(rb', i + 1) = RbSlot(rb, i)
    BY <1>0, <1>4, PushFrontEffect DEF PushFront, RbFull
  <2>2. /\ RbSlot(rb', 0) \in RingSlots(N)
        /\ slots' = [slots EXCEPT ![RbSlot(rb', 0)] = e]
    BY <1>0, <1>4, <2>1, SlotWrap DEF PushFront, Store, NoSlot, RingSlots
  <2>3. ASSUME NEW k \in 1 .. rb.size PROVE Contents'[k + 1] = Contents[k]
    <3>1. /\ k \in 0 .. N - 1 /\ k # 0 /\ 0 \in 0 .. N - 1
          /\ k - 1 \in 0 .. rb.size - 1 /\ (k - 1) + 1 = k
          /\ k + 1 \in 1 .. rb'.size /\ (k + 1) - 1 = k /\ k - 1 \in 0 .. N
      BY <1>0, <2>1
    <3>2. RbSlot(rb', k) # RbSlot(rb', 0)
      BY <1>0, <3>1, SlotsDistinct
    <3>3. RbSlot(rb', k) = RbSlot(rb, k - 1) /\ RbSlot(rb, k - 1) \in RingSlots(N)
      BY <1>0, <2>1, <3>1, SlotWrap
    <3>4. QED BY <1>0, <1>1, <1>2, <2>2, <3>1, <3>2, <3>3
  <2>4. Contents'[1] = e
    <3>1. 1 \in 1 .. rb'.size /\ 1 - 1 = 0
      BY <1>0, <2>1
    <3>2. QED BY <1>0, <1>2, <2>2, <3>1
  <2>5. Contents' = <<e>> \o Contents
    BY <1>0, <1>1, <1>2, <2>1, <2>3, <2>4
  <2>6. QED BY <1>1, <2>1, <2>5 DEF Abstract!Next, Abstract!PushFront
<1>5. CASE PopBack /\ ~RbEmpty(rb)
  <2>1. /\ rb.size # 0 /\ rb'.size = rb.size - 1 /\ slots' = slots
        /\ \A i : RbSlot(rb', i) = RbSlot(rb, i)
    BY <1>0, <1>5, PopBackEffect DEF PopBack, RbEmpty
  <2>2. ASSUME NEW k \in 1 .. rb.size - 1 PROVE Contents'[k] = Contents[k]
    <3>1. k \in 1 .. rb'.size /\ k \in 1 .. rb.size
      BY <1>0, <2>1
    <3>2. QED BY <1>1, <1>2, <2>1, <3>1
  <2>3. Contents' = SubSeq(Contents, 1, Len(Contents) - 1) /\ Contents # <<>>
    BY <1>0, <1>1, <1>2, <2>1, <2>2
  <2>4. QED BY <2>3 DEF Abstract!Next, Abstract!PopBack
<1>6. CASE PopFront /\ ~RbEmpty(rb)
  <2>1. /\ rb.size # 0 /\ rb'.size = rb.size - 1 /\ slots' = slots
        /\ \A i \in 0 .. rb.size - 1 : RbSlot(rb', i) = RbSlot(rb, i + 1)
    BY <1>0, <1>6, PopFrontEffect DEF PopFront, RbEmpty
  <2>2. ASSUME NEW k \in 1 .. rb.size - 1 PROVE Contents'[k] = Contents[k + 1]
    <3>1. /\ k \in 1 .. rb'.size /\ k + 1 \in 1 .. rb.size
          /\ k - 1 \in 0 .. rb.size - 1 /\ (k - 1) + 1 = (k + 1) - 1
      BY <1>0, <2>1
    <3>2. Contents'[k] = slots[RbSlot(rb', k - 1)]
      BY <1>2, <2>1, <3>1
    <3>3. RbSlot(rb', k - 1) = RbSlot(rb, (k + 1) - 1)
      BY <2>1, <3>1
    <3>4. Contents[k + 1] = slots[RbSlot(rb, (k + 1) - 1)]
      BY <1>1, <3>1
    <3>5. QED BY <3>2, <3>3, <3>4
  <2>3. Contents' = Tail(Contents) /\ Contents # <<>>
    BY <1>0, <1>1, <1>2, <2>1, <2>2
  <2>4. QED BY <2>3 DEF Abstract!Next, Abstract!PopFront
<1>7. CASE Clear
  <2>1. rb'.size = 0
    BY <1>0, <1>7, InitEffect DEF Clear, Ring
  <2>2. Contents' = <<>>
    BY <1>2, <2>1
  <2>3. QED BY <2>2 DEF Abstract!Next, Abstract!Clear
<1>8. CASE UNCHANGED vars
  BY <1>8 DEF vars, Contents, RbSlot
<1>9. ASSUME Next
      PROVE  Abstract!Next \/ Contents' = Contents \/ UNCHANGED vars
  <2>1. ASSUME NEW e \in Elem, PushBack(e), RbFull(rb) PROVE UNCHANGED vars
    BY <2>1, FullOrEmpty DEF PushBack, Store, RbPushBackSlot, vars
  <2>2. ASSUME NEW e \in Elem, PushFront(e), RbFull(rb) PROVE UNCHANGED vars
    BY <2>2, FullOrEmpty DEF PushFront, Store, RbPushFrontSlot, vars
  <2>3. ASSUME RbEmpty(rb), PopBack \/ PopFront PROVE UNCHANGED vars
    BY <2>3, FullOrEmpty DEF PopBack, PopFront, vars
  <2>4. QED BY <1>3, <1>4, <1>5, <1>6, <1>7, <1>9, <2>1, <2>2, <2>3 DEF Next
<1>10. QED BY <1>8, <1>9

\* Used so, the ring is a deque: no push overwrites an element that is in it,
\* and no pop removes another element than the one at its end.
THEOREM RefinesDeque ==
  ASSUME ~FrontIntoEmpty PROVE Spec => DequeSpec
<1> DEFINE IInv == TypeOK /\ EndsMeet(rb)
<1>1. Init => IInv
  BY InitInvariant
<1>2. IInv /\ [Next]_vars => IInv'
  BY TypeStep, EndsStep DEF EndsMeet, RbSlot
<1>3. Init => Abstract!Init
  <2> SUFFICES ASSUME Init PROVE Contents = <<>>
    BY DEF Abstract!Init
  <2>1. TypeOK /\ rb.size = 0
    BY InitInvariant, NAssumption, InitEffect DEF Init, Ring
  <2>2. QED BY <2>1, ContentsSeq
<1>4. IInv /\ IInv' /\ [Next]_vars => [Abstract!Next]_Contents
  BY DequeStep
<1> HIDE DEF IInv
<1>5. QED BY <1>1, <1>2, <1>3, <1>4, PTL DEF Spec, DequeSpec, Abstract!Spec
=============================================================================
