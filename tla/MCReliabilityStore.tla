------------------------- MODULE MCReliabilityStore -------------------------
(* Instances of ReliabilityStore: two clusters, the seeded id and one or   *)
(* two more of each kind, two concurrent requests.                         *)
EXTENDS ReliabilityStore, TLC

CONSTANTS k1, i1, r1, r2

MCCluster == {LocalDev, k1}
MCID      == {DefaultID, i1}
Slots     == Permutations({r1, r2})
=============================================================================
