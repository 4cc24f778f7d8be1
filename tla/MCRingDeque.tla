---------------------------- MODULE MCRingDeque -----------------------------
(* Instances of RingDeque for TLC.  Elements are only ever moved, so they   *)
(* are interchangeable.                                                     *)
EXTENDS RingDeque, TLC

Symmetry == Permutations(Elem)
=============================================================================
