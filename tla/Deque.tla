------------------------------- MODULE Deque --------------------------------
(***************************************************************************)
(* What a bounded double-ended queue promises.  A push into a full queue   *)
(* and a pop from an empty one do nothing.                                 *)
(***************************************************************************)
EXTENDS Naturals, Sequences

CONSTANTS Elem, Capacity

VARIABLE items

Init == items = <<>>

PushBack(e)  == Len(items) < Capacity /\ items' = Append(items, e)
PushFront(e) == Len(items) < Capacity /\ items' = <<e>> \o items
PopFront     == items # <<>> /\ items' = Tail(items)
PopBack      == items # <<>> /\ items' = SubSeq(items, 1, Len(items) - 1)
Clear        == items' = <<>>

Next == \/ \E e \in Elem : PushBack(e) \/ PushFront(e)
        \/ PopFront
        \/ PopBack
        \/ Clear

Spec == Init /\ [][Next]_items
=============================================================================
