----------------------------- MODULE RingDeque ------------------------------
(***************************************************************************)
(* A ring_buffer_t used as the README says it can be used: as a deque over *)
(* an array its owner keeps.  The owner writes an element to the slot a    *)
(* push returns and reads elements from the front on.                      *)
(*                                                                         *)
(* rb_push_front is right only on a ring that is not empty.  The constant  *)
(* FrontIntoEmpty says whether the owner may also call it on an empty one. *)
(***************************************************************************)
EXTENDS RingBuffer, Sequences

CONSTANTS N,              \* capacity of the ring
          Elem,           \* what the array holds
          FrontIntoEmpty  \* may the owner push to the front of an empty ring?

ASSUME NAssumption == N \in Nat \ {0}
ASSUME FrontAssumption == FrontIntoEmpty \in BOOLEAN

VARIABLES rb,     \* the ring_buffer_t
          slots   \* the owner's array

vars == <<rb, slots>>

\* The array starts uninitialised.
Init == rb = RbInit(N) /\ slots \in [RingSlots(N) -> Elem]

\* The owner's write to the slot a push returned, if it returned one.
Store(slot, e) ==
  slots' = IF slot = NoSlot THEN slots ELSE [slots EXCEPT ![slot] = e]

PushBack(e)  == rb' = RbPushBack(rb) /\ Store(RbPushBackSlot(rb), e)

PushFront(e) ==
  /\ FrontIntoEmpty \/ ~RbEmpty(rb)
  /\ rb' = RbPushFront(rb)
  /\ Store(RbPushFrontSlot(rb), e)

PopBack  == rb' = RbPopBack(rb)  /\ UNCHANGED slots
PopFront == rb' = RbPopFront(rb) /\ UNCHANGED slots
Clear    == rb' = RbClear(rb)    /\ UNCHANGED slots

Next == \/ \E e \in Elem : PushBack(e) \/ PushFront(e)
        \/ PopBack
        \/ PopFront
        \/ Clear

Spec == Init /\ [][Next]_vars

-----------------------------------------------------------------------------

\* The indices stay inside the array the owner allocated for them.
TypeOK == rb \in RingType(N) /\ slots \in [RingSlots(N) -> Elem]

\* The two ends delimit the same elements: rb_back names the slot of the last
\* element counted from the front, and rb_push_back will use the slot after it,
\* whatever mixture of pushes and pops moved the ends.
EndsAgree ==
  /\ rb.back = RbSlot(rb, rb.size)
  /\ ~RbEmpty(rb) => RbBack(rb) = RbSlot(rb, rb.size - 1)

\* The elements from the front on.
Contents == [i \in 1 .. rb.size |-> slots[RbSlot(rb, i - 1)]]

Abstract == INSTANCE Deque WITH items <- Contents, Capacity <- N

\* The ring behaves as a deque: no push overwrites an element that is in it,
\* no pop returns another element than the one at its end.
DequeSpec == Abstract!Spec
=============================================================================
