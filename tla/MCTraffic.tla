------------------------------ MODULE MCTraffic ------------------------------
(* Small instances of Traffic for TLC. *)
EXTENDS Traffic, TLC

\* Two views of the only day that can age within the calendar, one of the next.
Views == [d \in 0..LastDay |-> IF d = 0 THEN 2 ELSE IF d = 1 THEN 1 ELSE 0]

Symmetry == Permutations(Beacons) \cup Permutations(Jobs)
=============================================================================
