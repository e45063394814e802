---------------------------- MODULE MCAlertStore ----------------------------
(* Two clusters with an alert each; one receiver names its cluster and the *)
(* other leaves it to the selection.  Two episodes let an alert fire again.*)
EXTENDS AlertStore, TLC

CONSTANTS k1, a1, a2, sample, h1, h2

MCCluster == {LocalDev, k1}
MCAlert   == {a1, a2}
MCSource  == a1 :> k1 @@ a2 :> LocalDev

(* Alertmanager sends a fingerprint with every alert.                      *)
Fingerprinted == a1 :> {h1} @@ a2 :> {h2}
=============================================================================
