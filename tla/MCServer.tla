------------------------------ MODULE MCServer ------------------------------
(* Instances of Server for TLC: accounts are interchangeable.              *)
EXTENDS Server

Symmetry == Permutations(Account)
=============================================================================
