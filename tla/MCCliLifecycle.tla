--------------------------- MODULE MCCliLifecycle ---------------------------
(* Three commands: one would start a server that comes up too late, and    *)
(* one a server that has to be killed.                                     *)
EXTENDS CliLifecycle

CONSTANTS p1, hung, late
=============================================================================
