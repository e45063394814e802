-------------------------- MODULE ClusterSelection --------------------------
(***************************************************************************)
(* What the cluster directory promises to the rest of Garund: a set of     *)
(* members and one selected member.  Members join and leave; the selection *)
(* is made by the first to join or by an explicit choice, survives every   *)
(* other change, and falls to some other member when its own leaves.       *)
(* ClusterManager implements this specification.                           *)
(***************************************************************************)
CONSTANTS ID, NoID

VARIABLES members, selected

selectionVars == <<members, selected>>

Init ==
    /\ members = {}
    /\ selected = NoID

Join(id) ==
    /\ members' = members \cup {id}
    /\ selected' = IF selected = NoID THEN id ELSE selected

Choose(id) ==
    /\ id \in members
    /\ selected' = id
    /\ UNCHANGED members

Leave(id) ==
    /\ id \in members
    /\ members' = members \ {id}
    /\ \/ selected # id /\ UNCHANGED selected
       \/ selected = id /\ members' # {} /\ selected' \in members'
       \/ selected = id /\ members' = {} /\ selected' = NoID

Next == \E id \in ID : Join(id) \/ Choose(id) \/ Leave(id)

Spec == Init /\ [][Next]_selectionVars
=============================================================================
