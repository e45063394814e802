------------------------- MODULE MCClusterRequests -------------------------
(* Three ids (the local one and two generated ones) and two API servers:   *)
(* enough for a deletion to leave a choice of successors, for an id to     *)
(* come back with another API server, and for a request to be overtaken by *)
(* both.  The second API server may be any.                                *)
EXTENDS ClusterRequests, TLC

CONSTANTS c1, c2, apiB, r1

MCClusterID == {LocalDev, c1, c2}
MCEndpoint  == {LocalEndpoint, apiB}
MCRequest   == {r1}
Generated   == Permutations({c1, c2})
=============================================================================
