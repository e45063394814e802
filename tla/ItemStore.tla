------------------------------ MODULE ItemStore ------------------------------
(***************************************************************************)
(* What the reliability store promises to the routes and, through restarts *)
(* of the server, to the operators: a map from the ids of each kind of     *)
(* item to items, changed one item at a time, in which an item never       *)
(* passes from one cluster to another.  The default items come back when   *)
(* no SLI is left.  Every change is kept for the next start of the server, *)
(* so that restarts are no steps, unless saves may fail.  Then a change    *)
(* may not be kept, a failure may lose what was, and a restart goes back   *)
(* to what is kept.                                                        *)
(* ReliabilityStore implements this specification when clients leave the   *)
(* choice of ids to the store and no restart interrupts a save.            *)
(***************************************************************************)
CONSTANTS
    Kind, ID, Item, Absent, DefaultID, DefaultItem, DefaultKind,
    MayFail         \* whether a save may fail

VARIABLES
    store,          \* the items
    kept            \* the items that a restart finds

itemVars == <<store, kept>>

Empty == [kind \in Kind |-> [id \in ID |-> Absent]]

Init ==
    /\ store = Empty
    /\ kept = Empty

Keep ==
    \/ kept' = store'
    \/ MayFail /\ UNCHANGED kept

Put(kind, id, item) ==
    /\ store[kind][id] # Absent => store[kind][id].cluster = item.cluster
    /\ store' = [store EXCEPT ![kind][id] = item]
    /\ Keep

Remove(kind, id) ==
    /\ store[kind][id] # Absent
    /\ store' = [store EXCEPT ![kind][id] = Absent]
    /\ Keep

Reseed ==
    /\ \A id \in ID : store["sli"][id] = Absent
    /\ store' = [kind \in Kind |->
                    IF kind \in DefaultKind
                    THEN [store[kind] EXCEPT ![DefaultID] = DefaultItem[kind]]
                    ELSE store[kind]]
    /\ Keep

(* A save fails half-way: nothing readable is left.                        *)
Lose ==
    /\ MayFail
    /\ kept' = Empty
    /\ UNCHANGED store

Restart ==
    /\ store' = kept
    /\ UNCHANGED kept

Next ==
    \/ \E kind \in Kind, id \in ID :
          \/ \E item \in Item : Put(kind, id, item)
          \/ Remove(kind, id)
    \/ Reseed \/ Lose \/ Restart

Spec == Init /\ [][Next]_itemVars
=============================================================================
