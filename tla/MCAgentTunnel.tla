--------------------------- MODULE MCAgentTunnel ---------------------------
(* One cluster with an agent beside local-dev, and two connection slots:   *)
(* an old connection and the one that replaces it.                         *)
EXTENDS AgentTunnel

CONSTANT k1

MCClusterID == {LocalDev, k1}
MCEndpoint  == {LocalEndpoint}
=============================================================================
