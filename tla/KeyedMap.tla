----------------------------- MODULE KeyedMap -----------------------------
(***************************************************************************)
(* What a dictionary (dictionary.h) promises: a map from keys to values    *)
(* that changes at one key at a time.                                      *)
(***************************************************************************)
CONSTANTS Keys, Values, Absent

VARIABLE map

TypeOK == map \in [Keys -> Values \cup {Absent}]

Init == map = [k \in Keys |-> Absent]

Put(k, v) == map' = [map EXCEPT ![k] = v]
Remove(k) == map' = [map EXCEPT ![k] = Absent]

Next == \E k \in Keys : Remove(k) \/ \E v \in Values : Put(k, v)

Spec == Init /\ [][Next]_map
=============================================================================
