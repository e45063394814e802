----------------------------- MODULE AlertStore -----------------------------
(***************************************************************************)
(* The alerts Garund shows (AlertStore in internal/server/alertmanager.go) *)
(* and the Alertmanagers that report them through the webhook routes of    *)
(* internal/server/reliability.go.  The store is kept in memory only and   *)
(* its operations hold one lock.                                           *)
(*                                                                         *)
(* External: an Alertmanager sends the state of an alert when it changes   *)
(* and, while the alert fires, again and again; it has one notification of *)
(* an alert on its way at a time and sends again what was not answered.    *)
(* A notification or its answer may be lost.  Some cluster is selected:    *)
(* local-dev was discovered, and it cannot be deleted.                     *)
(*                                                                         *)
(* Abstracted: an alert is reported alone, and its texts, severity and     *)
(* service are left out; times are numbers of the episode they belong to,  *)
(* 0 being the zero time.  An alert sent without a fingerprint is stored   *)
(* under a hash of its labels in the order of a Go map: under any of Keys. *)
(***************************************************************************)
EXTENDS Naturals

CONSTANTS
    Cluster, LocalDev,
    Alert,          \* alerts the Alertmanagers know
    Source,         \* the cluster of each alert
    Scoped,         \* alerts whose receiver names the cluster in the URL
    Sample,         \* fingerprints of the two sample alerts
    Keys,           \* fingerprints an alert may be stored under
    Absent, NoNote,
    MaxEpisode      \* bound: times an alert starts firing

Key == Sample \cup UNION {Keys[a] : a \in Alert}

ASSUME AlertAssumption ==
    /\ LocalDev \in Cluster
    /\ Source \in [Alert -> Cluster]
    /\ Scoped \subseteq Alert
    /\ \A a \in Alert : Keys[a] # {} /\ Keys[a] \cap Sample = {}
    /\ \A a, b \in Alert : a # b => Keys[a] \cap Keys[b] = {}
    /\ MaxEpisode \in Nat \ {0}

Status == {"firing", "resolved"}
Time   == 0..MaxEpisode
Record == [cluster : Cluster, status : Status, startsAt : Time, endsAt : Time]
Note   == [status : Status, startsAt : Time, endsAt : Time]

VARIABLES
    alerts,         \* s.alerts: fingerprint -> alert
    active,         \* the selected cluster of ClusterManager
    am,             \* external: state of each alert
    due,            \* external: alerts whose state is still to be answered
    wire            \* external: the notification on its way

vars == <<alerts, active, am, due, wire>>

(* The store of a new process: two sample alerts that fire.                *)
Seeded == [key \in Key |->
    IF key \in Sample
    THEN [cluster |-> LocalDev, status |-> "firing", startsAt |-> 0, endsAt |-> 0]
    ELSE Absent]

Init ==
    /\ alerts = Seeded
    /\ active \in Cluster
    /\ am = [a \in Alert |-> [status |-> "resolved", episode |-> 0]]
    /\ due = [a \in Alert |-> FALSE]
    /\ wire = [a \in Alert |-> NoNote]

-----------------------------------------------------------------------------
(* The store.                                                              *)

(* Mutant: an alert that is known already is left as it is.                *)
IngestNewOnly(k, key, n) ==
    alerts' = [alerts EXCEPT ![key] =
        IF @ # Absent THEN @
        ELSE [cluster |-> k, status |-> n.status,
              startsAt |-> n.startsAt, endsAt |-> n.endsAt]]

(* Mutant: an alert that was resolved does not fire again.                 *)
IngestUntilResolved(k, key, n) ==
    alerts' = [alerts EXCEPT ![key] =
        IF @ # Absent
        THEN [@ EXCEPT !.status = IF @ = "resolved" THEN @ ELSE n.status,
                       !.endsAt = IF n.status = "resolved" THEN n.endsAt ELSE @]
        ELSE [cluster |-> k, status |-> n.status,
              startsAt |-> n.startsAt, endsAt |-> n.endsAt]]

(* Mutant: the end of an alert that is known already is not stored.        *)
IngestWithoutEnd(k, key, n) ==
    alerts' = [alerts EXCEPT ![key] =
        IF @ # Absent THEN [@ EXCEPT !.status = n.status]
        ELSE [cluster |-> k, status |-> n.status,
              startsAt |-> n.startsAt, endsAt |-> n.endsAt]]

(* IngestWebhook: an alert that is known keeps its cluster and its start;  *)
(* its end is replaced only by another end.                                *)
Ingest(k, key, n) ==
    LET stored == alerts[key]
        Ended  == n.status = "resolved" /\ n.endsAt # 0
        update == [stored EXCEPT !.status = n.status,
                                 !.endsAt = IF Ended THEN n.endsAt ELSE stored.endsAt]
        insert == [cluster |-> k, status |-> n.status,
                   startsAt |-> n.startsAt, endsAt |-> n.endsAt]
    IN  alerts' = [alerts EXCEPT ![key] = IF stored # Absent THEN update ELSE insert]

(* ListAlerts.                                                             *)
ListAlerts(k, status) ==
    {key \in Key : /\ alerts[key] # Absent
                   /\ alerts[key].cluster = k
                   /\ alerts[key].status = status}

(* Mutant: without a cluster in the URL the alert gets none.               *)
GivenCluster(a) == IF a \in Scoped THEN Source[a] ELSE "none"

(* The cluster the webhook routes store an alert for: the one in the URL,  *)
(* or the one selected at that moment.                                     *)
WebhookCluster(a) == IF a \in Scoped THEN Source[a] ELSE active

SwitchCluster(k) ==
    /\ active' = k
    /\ UNCHANGED <<alerts, am, due, wire>>

(* The process is replaced: its alerts are gone, the samples are back.     *)
Restart ==
    /\ alerts' = Seeded
    /\ UNCHANGED <<active, am, due, wire>>

-----------------------------------------------------------------------------
(* The Alertmanagers and the network.                                      *)

Fire(a) ==
    /\ am[a].status = "resolved" /\ am[a].episode < MaxEpisode
    /\ am' = [am EXCEPT ![a] = [status |-> "firing", episode |-> @.episode + 1]]
    /\ due' = [due EXCEPT ![a] = TRUE]
    /\ UNCHANGED <<alerts, active, wire>>

Resolve(a) ==
    /\ am[a].status = "firing"
    /\ am' = [am EXCEPT ![a].status = "resolved"]
    /\ due' = [due EXCEPT ![a] = TRUE]
    /\ UNCHANGED <<alerts, active, wire>>

(* repeat_interval has passed.                                             *)
Repeat(a) ==
    /\ am[a].status = "firing" /\ ~due[a]
    /\ due' = [due EXCEPT ![a] = TRUE]
    /\ UNCHANGED <<alerts, active, am, wire>>

NoteOf(a) == [status |-> am[a].status, startsAt |-> am[a].episode,
              endsAt |-> IF am[a].status = "resolved" THEN am[a].episode ELSE 0]

Notify(a) ==
    /\ due[a] /\ wire[a] = NoNote
    /\ wire' = [wire EXCEPT ![a] = NoteOf(a)]
    /\ UNCHANGED <<alerts, active, am, due>>

(* The webhook arrives.  When the answer does, too, nothing is due unless  *)
(* the alert has changed in the meantime.                                  *)
Deliver(a) ==
    /\ wire[a] # NoNote
    /\ \E key \in Keys[a] : Ingest(WebhookCluster(a), key, wire[a])
    /\ wire' = [wire EXCEPT ![a] = NoNote]
    /\ \/ due' = [due EXCEPT ![a] = wire[a] # NoteOf(a)]
       \/ UNCHANGED due
    /\ UNCHANGED <<active, am>>

Lose(a) ==
    /\ wire[a] # NoNote
    /\ wire' = [wire EXCEPT ![a] = NoNote]
    /\ UNCHANGED <<alerts, active, am, due>>

Next ==
    \/ Restart
    \/ \E k \in Cluster : SwitchCluster(k)
    \/ \E a \in Alert :
          \/ Fire(a) \/ Resolve(a) \/ Repeat(a)
          \/ Notify(a) \/ Deliver(a) \/ Lose(a)

(* Alertmanager keeps its promises, and the network does not lose every    *)
(* notification.  Garund adds nothing: its part runs when called.          *)
Fairness ==
    \A a \in Alert : /\ WF_vars(Repeat(a))
                     /\ WF_vars(Notify(a))
                     /\ SF_vars(Deliver(a))

Spec == Init /\ [][Next]_vars
FairSpec == Spec /\ Fairness

-----------------------------------------------------------------------------
(* Properties.                                                             *)

(* The types of the store and of what the Alertmanagers and the network    *)
(* hold: an alert of the store names a cluster.                            *)
TypeOK ==
    /\ alerts \in [Key -> Record \cup {Absent}]
    /\ active \in Cluster
    /\ am \in [Alert -> [status : Status, episode : Time]]
    /\ due \in [Alert -> BOOLEAN]
    /\ wire \in [Alert -> Note \cup {NoNote}]

ShownFiring(a) == \E k \in Cluster : Keys[a] \cap ListAlerts(k, "firing") # {}

(* What an Alertmanager was told is stored is what the alert's record      *)
(* says, for every loss and repetition; only a restart forgets it.         *)
AnsweredIsStored ==
    \A a \in Alert : ~due[a] =>
        \A key \in Keys[a] :
            alerts[key] # Absent => alerts[key].status = am[a].status

(* A resolved alert ended, and not before it started, also when it fired   *)
(* several times or was first heard of when it was over.                   *)
ResolvedHasEnd ==
    \A key \in Key \ Sample :
        alerts[key] # Absent /\ alerts[key].status = "resolved" =>
            /\ alerts[key].endsAt # 0
            /\ alerts[key].endsAt >= alerts[key].startsAt

(* An alert that is over does not stay on the list of active alerts.       *)
ResolvedClears ==
    \A a \in Alert :
        <>[](am[a].status = "resolved") => <>[](~ShownFiring(a))

(* An alert that keeps firing is shown again and again, under its own      *)
(* cluster when its receiver names it, however often a restart forgets it. *)
FiringShown ==
    \A a \in Alert :
        <>[](am[a].status = "firing") =>
            []<>(/\ ShownFiring(a)
                 /\ a \in Scoped => Keys[a] \cap ListAlerts(Source[a], "firing") # {})
=============================================================================
