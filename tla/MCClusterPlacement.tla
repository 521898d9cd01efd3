------------------------- MODULE MCClusterPlacement -------------------------
(* Instances of ClusterPlacement for TLC.                                  *)
EXTENDS ClusterPlacement

CONSTANTS a, b

\* Both leases are placed by selectors, or a names target 1.
Named == [l \in Leases |-> IF l = a THEN 1 ELSE Nil]
Refs == {[l \in Leases |-> Nil], Named}
NamedOnly == {Named}

\* The UIDs of both leases lead to the first of two candidates.
Hashes == [l \in Leases |-> IF l = a THEN 0 ELSE 2]

\* Selection puts one lease on 1, one on 2 and none on 3.
Capacity == [t \in Targets |-> IF t = 3 THEN 0 ELSE 1]
=============================================================================
