---------------------------- MODULE MCServerLife ----------------------------
(* Instances of ServerLife for TLC: clients are interchangeable, and so are *)
(* the values of their data.                                               *)
EXTENDS ServerLife

Symmetry == Permutations(Clients) \cup Permutations(Data)
=============================================================================
