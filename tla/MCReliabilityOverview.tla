----------------------- MODULE MCReliabilityOverview -----------------------
(* One SLI with up to two SLOs, one of which may be on an SLI that the     *)
(* cluster does not have, one SLA, and the rates of the report.            *)
EXTENDS ReliabilityOverview, TLC

CONSTANTS s1, o1, o2, a1

(* Nothing tells the two SLOs apart.                                       *)
Symmetry == Permutations(SLO)
=============================================================================
