------------------------------- MODULE KeyMap -------------------------------
(***************************************************************************)
(* What a bounded map from keys to values promises.                        *)
(***************************************************************************)
EXTENDS Naturals, FiniteSets

CONSTANTS Key, Val, Capacity, None

VARIABLES map,  \* a function from the keys the map has
          ret   \* what the last operation answered, or None

vars == <<map, ret>>

Init == map = << >> /\ ret = None

Insert(k, v) ==
  /\ k \notin DOMAIN map /\ Cardinality(DOMAIN map) < Capacity
  /\ map' = [x \in DOMAIN map \cup {k} |-> IF x = k THEN v ELSE map[x]]
  /\ ret' = None

Modify(k, v) ==
  k \in DOMAIN map /\ map' = [map EXCEPT ![k] = v] /\ ret' = None

Delete(k) ==
  /\ k \in DOMAIN map
  /\ map' = [x \in DOMAIN map \ {k} |-> map[x]]
  /\ ret' = None

Get(k) == k \in DOMAIN map /\ ret' = <<"get", k, map[k]>> /\ UNCHANGED map

Contains(k) ==
  /\ ret' = <<"contains", k, IF k \in DOMAIN map THEN 1 ELSE 0>>
  /\ UNCHANGED map

Clear == map' = << >> /\ ret' = None

Next == \/ \E k \in Key, v \in Val : Insert(k, v) \/ Modify(k, v)
        \/ \E k \in Key : Delete(k) \/ Get(k) \/ Contains(k)
        \/ Clear

Spec == Init /\ [][Next]_vars
=============================================================================
