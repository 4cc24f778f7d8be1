----------------------------- MODULE RingBuffer -----------------------------
(***************************************************************************)
(* ring_buffer.c: the index arithmetic of a ring.  A ring_buffer_t holds   *)
(* no elements, it tells its owner which array slot to use.  The record    *)
(* below is the struct; an operation that both changes the struct and      *)
(* returns a slot is two operators, the new struct and the returned slot,  *)
(* both functions of the struct before the call.                           *)
(***************************************************************************)
EXTENDS Integers

RingSlots(max) == 0 .. max - 1

\* The values a ring_buffer_t of capacity max may take.
RingType(max) ==
  [front : RingSlots(max), back : RingSlots(max), size : 0 .. max, max : {max}]

\* The struct with these fields.
Ring(front, back, size, max) ==
  [front |-> front, back |-> back, size |-> size, max |-> max]

RbClear(rb) == Ring(0, 0, 0, rb.max)

RbInit(max) == RbClear(Ring(0, 0, 0, max))

RbFull(rb)  == rb.size = rb.max
RbEmpty(rb) == rb.size = 0

\* What a push returns instead of a slot when the ring is full.
NoSlot == -1

-----------------------------------------------------------------------------
(* Wrong variants of the operations, for the mutation checks.              *)

\* The front is not moved back, so two elements share a slot.
RbPushFrontInPlace(rb) ==
  IF RbFull(rb) THEN rb ELSE Ring(rb.front, rb.back, rb.size + 1, rb.max)

\* The front steps back as (front - 1) % max, which in C is -1 from slot 0.
RbPushFrontNegative(rb) ==
  IF RbFull(rb) THEN rb
  ELSE Ring(IF RbEmpty(rb) THEN rb.front ELSE rb.front - 1, rb.back,
            rb.size + 1, rb.max)

\* The back of the ring is never moved.
RbPopBackSizeOnly(rb) ==
  IF RbEmpty(rb) THEN rb ELSE Ring(rb.front, rb.back, rb.size - 1, rb.max)

\* The size is not checked before the front moves.
RbPopFrontUnchecked(rb) ==
  Ring((rb.front + 1) % rb.max, rb.back, rb.size - 1, rb.max)

-----------------------------------------------------------------------------

RbPushBackSlot(rb) == IF RbFull(rb) THEN NoSlot ELSE rb.back

RbPushBack(rb) ==
  IF RbFull(rb) THEN rb
  ELSE Ring(rb.front, (rb.back + 1) % rb.max, rb.size + 1, rb.max)

\* An empty ring first steps its front forward, so that the element goes to
\* the slot the front already was at.
RbPushFrontBase(rb) ==
  IF RbEmpty(rb) THEN (rb.front + 1) % rb.max ELSE rb.front

RbPushFront(rb) ==
  IF RbFull(rb) THEN rb
  ELSE Ring((RbPushFrontBase(rb) + (rb.max - 1)) % rb.max, rb.back,
            rb.size + 1, rb.max)

RbPushFrontSlot(rb) == IF RbFull(rb) THEN NoSlot ELSE RbPushFront(rb).front

RbPopBack(rb) ==
  IF RbEmpty(rb) THEN rb
  ELSE Ring(rb.front, (rb.back + rb.max - 1) % rb.max, rb.size - 1, rb.max)

RbPopFront(rb) ==
  IF RbEmpty(rb) THEN rb
  ELSE Ring((rb.front + 1) % rb.max, rb.back, rb.size - 1, rb.max)

\* The slots of the last and of the first element; garbage if there is none.
RbBack(rb)  == (rb.back + rb.max - 1) % rb.max
RbFront(rb) == rb.front
RbSize(rb)  == rb.size

-----------------------------------------------------------------------------

\* The i-th slot from the front, i = 0 being the front itself.
RbSlot(rb, i) == (rb.front + i) % rb.max

\* The slots in use, as the front and the size say it.
RbWindow(rb) == {RbSlot(rb, i) : i \in 0 .. rb.size - 1}
=============================================================================
