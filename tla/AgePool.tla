------------------------------ MODULE AgePool -------------------------------
(***************************************************************************)
(* What a block pool that tracks age promises: the blocks callers have are *)
(* in the order they were allocated or last renewed, oldest first; a block *)
(* is handed out to one caller at a time and an allocation fails only when *)
(* every block is out.                                                     *)
(***************************************************************************)
EXTENDS Integers, SequencesExt

CONSTANTS Blocks, None

VARIABLES age,  \* the blocks callers have, oldest first
          ret   \* the block the last operation returned, or None

vars == <<age, ret>>

Init == age = <<>> /\ ret = None

Malloc ==
  \/ \E b \in Blocks \ ToSet(age) : age' = Append(age, b) /\ ret' = b
  \/ ToSet(age) = Blocks /\ ret' = None /\ UNCHANGED age

Free(b) ==
  /\ \/ b \notin ToSet(age) /\ UNCHANGED age
     \/ \E i \in DOMAIN age : age[i] = b /\ age' = RemoveAt(age, i)
  /\ ret' = None

Oldest ==
  /\ ret' = IF age = <<>> THEN None ELSE Head(age)
  /\ UNCHANGED age

FreeOldest ==
  /\ age' = IF age = <<>> THEN <<>> ELSE Tail(age)
  /\ ret' = None

Renew(b) ==
  /\ \/ b \notin ToSet(age) /\ UNCHANGED age
     \/ \E i \in DOMAIN age : age[i] = b /\ age' = Append(RemoveAt(age, i), b)
  /\ ret' = None

Clear == age' = <<>> /\ ret' = None

Next == \/ Malloc
        \/ Oldest
        \/ FreeOldest
        \/ \E b \in Blocks : Free(b) \/ Renew(b)
        \/ Clear

Spec == Init /\ [][Next]_vars
=============================================================================
