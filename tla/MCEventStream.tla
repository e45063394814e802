--------------------------- MODULE MCEventStream ---------------------------
(* Two watches of two resources, and two dashboards.                       *)
EXTENDS EventStream

CONSTANTS pods, events, c1, c2

Bounds == [w \in {pods, events} |-> IF w = pods THEN 2 ELSE 1]
=============================================================================
