----------------------------- MODULE BlockPool ------------------------------
(***************************************************************************)
(* What a pool of fixed blocks promises its callers: a block is handed out *)
(* to one caller at a time, an allocation fails only when every block is   *)
(* out, and giving back a block that is not out does nothing.              *)
(***************************************************************************)
EXTENDS Integers

CONSTANTS Blocks, None

VARIABLES live,  \* the blocks callers have
          ret    \* the block the last operation returned, or None

vars == <<live, ret>>

Init == live = {} /\ ret = None

Malloc ==
  \/ \E b \in Blocks \ live : live' = live \cup {b} /\ ret' = b
  \/ live = Blocks /\ ret' = None /\ UNCHANGED live

Free(b) == live' = live \ {b} /\ ret' = None

Clear == live' = {} /\ ret' = None

Next == Malloc \/ (\E b \in Blocks : Free(b)) \/ Clear

Spec == Init /\ [][Next]_vars
=============================================================================
