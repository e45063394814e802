-------------------------- MODULE AlertStoreProofs --------------------------
(* Proofs about AlertStore, for any number of alerts and episodes.         *)
EXTENDS AlertStore, TLAPS

-----------------------------------------------------------------------------
(* The inductive invariant.                                                *)

(* What an Alertmanager has to tell is never before the first episode.     *)
EpisodesCount ==
    \A a \in Alert : am[a].status = "firing" \/ due[a] => am[a].episode >= 1

(* A notification on its way is about an alert whose answer is still       *)
(* awaited: it is of this episode or an earlier one, and a resolved one    *)
(* has the end of its episode.                                             *)
WireIsDue ==
    \A a \in Alert : wire[a] # NoNote =>
        /\ due[a]
        /\ wire[a].startsAt >= 1
        /\ wire[a].startsAt <= am[a].episode
        /\ wire[a].status = "resolved" => wire[a].endsAt = wire[a].startsAt

(* The start that is stored is not after that of anything still to come.   *)
StoredIsEarlier ==
    \A a \in Alert : \A key \in Keys[a] : alerts[key] # Absent =>
        /\ alerts[key].startsAt <= am[a].episode
        /\ wire[a] # NoNote => alerts[key].startsAt <= wire[a].startsAt

(* An alert whose receiver names its cluster is stored for that cluster,   *)
(* whatever is selected when its notifications arrive.                     *)
ScopedKeepCluster ==
    \A a \in Scoped : \A key \in Keys[a] :
        alerts[key] # Absent => alerts[key].cluster = Source[a]

StoreInv ==
    /\ TypeOK
    /\ EpisodesCount
    /\ WireIsDue
    /\ StoredIsEarlier
    /\ ResolvedHasEnd
    /\ ScopedKeepCluster

-----------------------------------------------------------------------------
(* Lemmas.                                                                 *)

LEMMA KeysAreKeys ==
    /\ \A a \in Alert : Keys[a] \subseteq Key \ Sample
    /\ \A key \in Key \ Sample : \E a \in Alert : key \in Keys[a]
  BY AlertAssumption DEF Key

LEMMA NoteIsNote == ASSUME TypeOK, NEW a \in Alert PROVE NoteOf(a) \in Note
<1>1. 0 \in Time /\ am[a].status \in Status /\ am[a].episode \in Time
  BY AlertAssumption DEF Time, TypeOK
<1>2. QED
  BY <1>1 DEF NoteOf, Note

LEMMA WebhookClusterType ==
    ASSUME TypeOK, NEW a \in Alert PROVE WebhookCluster(a) \in Cluster
  BY AlertAssumption DEF WebhookCluster, TypeOK

(* IngestWebhook, field by field.                                          *)
LEMMA Ingested ==
    ASSUME TypeOK, NEW k \in Cluster, NEW key \in Key, NEW n \in Note,
           Ingest(k, key, n)
    PROVE  /\ alerts' \in [Key -> Record \cup {Absent}]
           /\ \A other \in Key : other # key => alerts'[other] = alerts[other]
           /\ alerts'[key].status = n.status
           /\ alerts[key] # Absent =>
                 /\ alerts'[key].cluster = alerts[key].cluster
                 /\ alerts'[key].startsAt = alerts[key].startsAt
                 /\ n.status = "resolved" /\ n.endsAt # 0 => alerts'[key].endsAt = n.endsAt
           /\ alerts[key] = Absent =>
                 /\ alerts'[key].cluster = k
                 /\ alerts'[key].startsAt = n.startsAt
                 /\ alerts'[key].endsAt = n.endsAt
<1> DEFINE known == [alerts[key] EXCEPT
                        !.status = n.status,
                        !.endsAt = IF n.status = "resolved" /\ n.endsAt # 0
                                   THEN n.endsAt ELSE alerts[key].endsAt]
           new   == [cluster |-> k, status |-> n.status,
                     startsAt |-> n.startsAt, endsAt |-> n.endsAt]
<1>1. /\ alerts \in [Key -> Record \cup {Absent}]
      /\ n.status \in Status /\ n.startsAt \in Time /\ n.endsAt \in Time
  BY DEF TypeOK, Note
<1>2. new \in Record
  BY <1>1 DEF Record
<1>3. ASSUME alerts[key] # Absent
      PROVE  /\ known \in Record
             /\ known.status = n.status
             /\ known.cluster = alerts[key].cluster
             /\ known.startsAt = alerts[key].startsAt
             /\ n.status = "resolved" /\ n.endsAt # 0 => known.endsAt = n.endsAt
  <2>1. alerts[key] \in Record
    BY <1>1, <1>3
  <2>2. QED
    BY <1>1, <2>1 DEF Record
<1>4. alerts' = [alerts EXCEPT ![key] = IF alerts[key] # Absent THEN known ELSE new]
  BY DEF Ingest
<1>5. /\ alerts'[key] = IF alerts[key] # Absent THEN known ELSE new
      /\ \A other \in Key : other # key => alerts'[other] = alerts[other]
  BY <1>1, <1>4
<1> HIDE DEF known
<1>6. alerts' \in [Key -> Record \cup {Absent}]
  BY <1>1, <1>2, <1>3, <1>4
<1>7. QED
  BY <1>3, <1>5, <1>6

LEMMA StoreInit == Init => StoreInv /\ AnsweredIsStored
<1> SUFFICES ASSUME Init PROVE StoreInv /\ AnsweredIsStored
  OBVIOUS
<1>1. 0 \in Time /\ LocalDev \in Cluster
  BY AlertAssumption DEF Time
<1>2. Seeded \in [Key -> Record \cup {Absent}]
  BY <1>1 DEF Seeded, Record, Status
<1>3. TypeOK
  BY <1>1, <1>2 DEF Init, TypeOK, Status
<1>4. \A key \in Key \ Sample : alerts[key] = Absent
  BY DEF Init, Seeded
<1>5. \A a \in Alert : /\ wire[a] = NoNote
                       /\ ~due[a] /\ am[a].status = "resolved"
  BY DEF Init
<1>6. QED
  BY <1>3, <1>4, <1>5, KeysAreKeys, AlertAssumption
     DEF StoreInv, EpisodesCount, WireIsDue, StoredIsEarlier, ResolvedHasEnd,
         ScopedKeepCluster, AnsweredIsStored

-----------------------------------------------------------------------------
(* Every step but a delivery.                                              *)

LEMMA TypeStep == TypeOK /\ [Next]_vars => TypeOK'
<1> SUFFICES ASSUME TypeOK, [Next]_vars PROVE TypeOK'
  OBVIOUS
<1>1. CASE UNCHANGED vars
  BY <1>1 DEF vars, TypeOK
<1>2. CASE Restart
  <2>1. Seeded \in [Key -> Record \cup {Absent}]
    BY AlertAssumption DEF Seeded, Record, Status, Time
  <2>2. QED
    BY <1>2, <2>1 DEF Restart, TypeOK
<1>3. ASSUME NEW k \in Cluster, SwitchCluster(k) PROVE TypeOK'
  BY <1>3 DEF SwitchCluster, TypeOK
<1>4. ASSUME NEW a \in Alert, Fire(a) PROVE TypeOK'
  <2>1. am[a].episode + 1 \in Time /\ "firing" \in Status
    BY <1>4, AlertAssumption DEF Fire, TypeOK, Time, Status
  <2>2. [status |-> "firing", episode |-> am[a].episode + 1]
            \in [status : Status, episode : Time]
    BY <2>1
  <2>3. QED
    BY <1>4, <2>2 DEF Fire, TypeOK
<1>5. ASSUME NEW a \in Alert, Resolve(a) PROVE TypeOK'
  BY <1>5 DEF Resolve, TypeOK, Status
<1>6. ASSUME NEW a \in Alert, Repeat(a) PROVE TypeOK'
  BY <1>6 DEF Repeat, TypeOK
<1>7. ASSUME NEW a \in Alert, Notify(a) PROVE TypeOK'
  BY <1>7, NoteIsNote DEF Notify, TypeOK
<1>8. ASSUME NEW a \in Alert, Deliver(a) PROVE TypeOK'
  <2>1. wire[a] \in Note /\ WebhookCluster(a) \in Cluster /\ Keys[a] \subseteq Key
    BY <1>8, WebhookClusterType, KeysAreKeys DEF Deliver, TypeOK
  <2>2. PICK key \in Keys[a] : Ingest(WebhookCluster(a), key, wire[a])
    BY <1>8 DEF Deliver
  <2>3. alerts' \in [Key -> Record \cup {Absent}]
    BY <2>1, <2>2, Ingested
  <2>4. due' \in [Alert -> BOOLEAN] /\ wire' \in [Alert -> Note \cup {NoNote}]
    BY <1>8 DEF Deliver, TypeOK
  <2>5. QED
    BY <1>8, <2>3, <2>4 DEF Deliver, TypeOK
<1>9. ASSUME NEW a \in Alert, Lose(a) PROVE TypeOK'
  BY <1>9 DEF Lose, TypeOK
<1>10. QED
  BY <1>1, <1>2, <1>3, <1>4, <1>5, <1>6, <1>7, <1>8, <1>9 DEF Next

(* What the Alertmanagers and the network hold.                            *)
LEMMA WireStep ==
    TypeOK /\ EpisodesCount /\ WireIsDue /\ [Next]_vars => EpisodesCount' /\ WireIsDue'
<1> SUFFICES ASSUME TypeOK, EpisodesCount, WireIsDue, [Next]_vars
             PROVE  EpisodesCount' /\ WireIsDue'
  OBVIOUS
<1> USE DEF EpisodesCount, WireIsDue
<1>t. \A b \in Alert : am[b].episode \in Nat /\ (wire[b] # NoNote => wire[b].startsAt \in Nat)
  BY DEF TypeOK, Time, Note
<1>1. CASE UNCHANGED <<am, due, wire>>
  BY <1>1
<1>2. ASSUME NEW a \in Alert, Fire(a) PROVE EpisodesCount' /\ WireIsDue'
  <2>1. /\ am'[a].episode = am[a].episode + 1 /\ due'[a] /\ wire' = wire
        /\ \A b \in Alert : b # a => am'[b] = am[b] /\ due'[b] = due[b]
    BY <1>2 DEF Fire, TypeOK
  <2>2. QED
    BY <1>t, <2>1
<1>3. ASSUME NEW a \in Alert, Resolve(a) PROVE EpisodesCount' /\ WireIsDue'
  <2>1. /\ am[a].status = "firing"
        /\ am'[a].episode = am[a].episode /\ due'[a] /\ wire' = wire
        /\ \A b \in Alert : b # a => am'[b] = am[b] /\ due'[b] = due[b]
    BY <1>3 DEF Resolve, TypeOK
  <2>2. QED
    BY <1>t, <2>1
<1>4. ASSUME NEW a \in Alert, Repeat(a) PROVE EpisodesCount' /\ WireIsDue'
  BY <1>4 DEF Repeat, TypeOK
<1>5. ASSUME NEW a \in Alert, Notify(a) PROVE EpisodesCount' /\ WireIsDue'
  <2>1. /\ due[a] /\ wire'[a] = NoteOf(a) /\ am' = am /\ due' = due
        /\ \A b \in Alert : b # a => wire'[b] = wire[b]
    BY <1>5 DEF Notify, TypeOK
  <2>2. /\ NoteOf(a).startsAt = am[a].episode
        /\ NoteOf(a).status = "resolved" => NoteOf(a).endsAt = am[a].episode
    BY DEF NoteOf
  <2>3. QED
    BY <1>t, <2>1, <2>2
<1>6. ASSUME NEW a \in Alert, Deliver(a) \/ Lose(a) PROVE EpisodesCount' /\ WireIsDue'
  <2>1. /\ am' = am /\ wire'[a] = NoNote
        /\ due[a]
        /\ \A b \in Alert : b # a => wire'[b] = wire[b] /\ due'[b] = due[b]
    BY <1>6 DEF Deliver, Lose, TypeOK
  <2>2. QED
    BY <2>1
<1>7. ASSUME NEW k \in Cluster, SwitchCluster(k) PROVE UNCHANGED <<am, due, wire>>
  BY <1>7 DEF SwitchCluster
<1>8. (Restart \/ UNCHANGED vars) => UNCHANGED <<am, due, wire>>
  BY DEF Restart, vars
<1>9. QED
  BY <1>1, <1>2, <1>3, <1>4, <1>5, <1>6, <1>7, <1>8 DEF Next

-----------------------------------------------------------------------------
(* The store.                                                              *)

(* A delivery changes one record, of its own alert, by IngestWebhook.      *)
LEMMA Delivered ==
    ASSUME TypeOK, NEW a \in Alert, Deliver(a)
    PROVE  /\ wire[a] \in Note
           /\ am' = am
           /\ wire'[a] = NoNote
           /\ \A b \in Alert : b # a => wire'[b] = wire[b] /\ due'[b] = due[b]
           /\ \E key \in Keys[a] :
                 /\ Ingest(WebhookCluster(a), key, wire[a])
                 /\ \A b \in Alert, other \in Key :
                       other \in Keys[b] /\ (b # a \/ other # key) =>
                           other # key /\ alerts'[other] = alerts[other]
<1>1. /\ wire[a] \in Note /\ am' = am /\ wire'[a] = NoNote
      /\ \A b \in Alert : b # a => wire'[b] = wire[b] /\ due'[b] = due[b]
  BY DEF Deliver, TypeOK
<1>2. PICK key \in Keys[a] : Ingest(WebhookCluster(a), key, wire[a])
  BY DEF Deliver
<1>3. key \in Key /\ WebhookCluster(a) \in Cluster
  BY KeysAreKeys, WebhookClusterType
<1>4. \A other \in Key : other # key => alerts'[other] = alerts[other]
  BY <1>1, <1>2, <1>3, Ingested
<1>5. \A b \in Alert, other \in Key :
          other \in Keys[b] /\ (b # a \/ other # key) => other # key
  BY AlertAssumption
<1>6. QED
  BY <1>1, <1>2, <1>4, <1>5

(* The invariants of one record: as long as it and what is known of its    *)
(* alert stay, they stay.                                                  *)
Earlier(a, key) ==
    alerts[key] # Absent =>
        /\ alerts[key].startsAt <= am[a].episode
        /\ wire[a] # NoNote => alerts[key].startsAt <= wire[a].startsAt

Ends(key) ==
    alerts[key] # Absent /\ alerts[key].status = "resolved" =>
        /\ alerts[key].endsAt # 0
        /\ alerts[key].endsAt >= alerts[key].startsAt

LEMMA ByRecord ==
    /\ StoredIsEarlier <=> \A a \in Alert : \A key \in Keys[a] : Earlier(a, key)
    /\ ResolvedHasEnd <=> \A a \in Alert : \A key \in Keys[a] : Ends(key)
  BY KeysAreKeys DEF StoredIsEarlier, ResolvedHasEnd, Earlier, Ends

LEMMA RecordTimes ==
    ASSUME TypeOK, NEW a \in Alert, NEW key \in Key
    PROVE  /\ am[a].episode \in Nat
           /\ wire[a] # NoNote => wire[a].startsAt \in Nat /\ wire[a].endsAt \in Nat
           /\ alerts[key] # Absent => alerts[key].startsAt \in Nat /\ alerts[key].endsAt \in Nat
  BY DEF TypeOK, Record, Note, Time

(* What IngestWebhook makes of a record has an end when it is resolved,    *)
(* and starts no later than its alert's present episode.                   *)
LEMMA IngestKeeps ==
    ASSUME TypeOK, WireIsDue, NEW a \in Alert, NEW key \in Keys[a],
           wire[a] # NoNote, Earlier(a, key), Ends(key),
           Ingest(WebhookCluster(a), key, wire[a])
    PROVE  /\ alerts'[key].startsAt <= am[a].episode
           /\ Ends(key)'
<1> DEFINE n == wire[a]
<1>1. /\ n \in Note /\ key \in Key /\ WebhookCluster(a) \in Cluster
  BY KeysAreKeys, WebhookClusterType DEF TypeOK
<1>2. /\ n.startsAt >= 1 /\ n.startsAt <= am[a].episode
      /\ n.status = "resolved" => n.endsAt = n.startsAt
  BY DEF WireIsDue
<1>3. /\ am[a].episode \in Nat /\ n.startsAt \in Nat /\ n.endsAt \in Nat
      /\ alerts[key] # Absent => alerts[key].startsAt \in Nat
  BY <1>1, RecordTimes
<1>4. /\ alerts'[key].status = n.status
      /\ alerts[key] # Absent =>
            /\ alerts'[key].startsAt = alerts[key].startsAt
            /\ n.status = "resolved" /\ n.endsAt # 0 => alerts'[key].endsAt = n.endsAt
      /\ alerts[key] = Absent => /\ alerts'[key].startsAt = n.startsAt
                                 /\ alerts'[key].endsAt = n.endsAt
  BY <1>1, Ingested
<1>5. CASE alerts[key] # Absent
  <2>1. /\ alerts[key].startsAt <= am[a].episode
        /\ alerts[key].startsAt <= n.startsAt
    BY <1>5 DEF Earlier
  <2>2. n.status = "resolved" => n.endsAt # 0
    BY <1>2, <1>3
  <2>3. n.status = "resolved" =>
            /\ alerts'[key].endsAt = n.startsAt
            /\ alerts'[key].startsAt = alerts[key].startsAt
    BY <1>2, <1>4, <1>5, <2>2
  <2>4. QED
    BY <1>2, <1>3, <1>4, <1>5, <2>1, <2>3 DEF Ends
<1>6. CASE alerts[key] = Absent
  BY <1>2, <1>3, <1>4, <1>6 DEF Ends
<1>7. QED
  BY <1>5, <1>6

LEMMA RecordsStep ==
    TypeOK /\ WireIsDue /\ StoredIsEarlier /\ ResolvedHasEnd /\ [Next]_vars =>
        StoredIsEarlier' /\ ResolvedHasEnd'
<1> SUFFICES ASSUME TypeOK, WireIsDue, StoredIsEarlier, ResolvedHasEnd, [Next]_vars
             PROVE  StoredIsEarlier' /\ ResolvedHasEnd'
  OBVIOUS
<1>e. \A b \in Alert : \A other \in Keys[b] : Earlier(b, other) /\ Ends(other)
  BY ByRecord
<1>t. \A b \in Alert : /\ am[b].episode \in Nat
                       /\ wire[b] # NoNote => wire[b].startsAt \in Nat
                       /\ \A other \in Keys[b] :
                             alerts[other] # Absent => alerts[other].startsAt \in Nat
  <2>1. \A b \in Alert : /\ am[b].episode \in Nat
                         /\ wire[b] # NoNote => wire[b].startsAt \in Nat
    BY DEF TypeOK, Note, Time
  <2>2. \A other \in Key : alerts[other] # Absent => alerts[other].startsAt \in Nat
    BY DEF TypeOK, Record, Time
  <2>3. QED
    BY <2>1, <2>2, KeysAreKeys
<1>1. ASSUME UNCHANGED alerts,
             \A b \in Alert : am'[b].episode \in Nat /\ am'[b].episode >= am[b].episode,
             \A b \in Alert :
                 wire'[b] \in {wire[b], NoNote} \/ wire'[b].startsAt = am[b].episode
      PROVE  StoredIsEarlier' /\ ResolvedHasEnd'
  <2>1. ASSUME NEW b \in Alert, NEW other \in Keys[b]
        PROVE  Earlier(b, other)'
    BY <1>1, <1>e, <1>t DEF Earlier
  <2>2. StoredIsEarlier'
    BY <2>1 DEF StoredIsEarlier, Earlier
  <2>3. ResolvedHasEnd'
    BY <1>1 DEF ResolvedHasEnd
  <2>4. QED
    BY <2>2, <2>3
<1>2. CASE Restart
  <2>1. \A key \in Key \ Sample : alerts'[key] = Absent
    BY <1>2 DEF Restart, Seeded
  <2>2. QED
    BY <2>1, KeysAreKeys DEF StoredIsEarlier, ResolvedHasEnd
<1>3. ASSUME NEW a \in Alert, Deliver(a) PROVE StoredIsEarlier' /\ ResolvedHasEnd'
  <2>1. /\ wire[a] # NoNote /\ am' = am /\ wire'[a] = NoNote
        /\ \A b \in Alert : b # a => wire'[b] = wire[b]
    BY <1>3, Delivered DEF Deliver
  <2>2. PICK key \in Keys[a] :
            /\ Ingest(WebhookCluster(a), key, wire[a])
            /\ \A b \in Alert, other \in Key :
                  other \in Keys[b] /\ (b # a \/ other # key) =>
                      other # key /\ alerts'[other] = alerts[other]
    BY <1>3, Delivered
  <2>3. alerts'[key].startsAt <= am[a].episode /\ Ends(key)'
    BY <1>e, <2>1, <2>2, IngestKeeps
  <2>4. ASSUME NEW b \in Alert, NEW other \in Keys[b]
        PROVE  Earlier(b, other)' /\ Ends(other)'
    <3>1. other \in Key
      BY KeysAreKeys
    <3>2. CASE b = a /\ other = key
      BY <2>1, <2>3, <3>2 DEF Earlier
    <3>3. CASE b # a \/ other # key
      <4>1. alerts'[other] = alerts[other]
        BY <2>2, <3>1, <3>3
      <4>2. wire'[b] = wire[b] \/ wire'[b] = NoNote
        BY <2>1
      <4>3. Earlier(b, other) /\ Ends(other)
        BY <1>e
      <4>4. QED
        BY <2>1, <4>1, <4>2, <4>3 DEF Earlier, Ends
    <3>4. QED
      BY <3>2, <3>3
  <2>5. StoredIsEarlier'
    BY <2>4 DEF StoredIsEarlier, Earlier
  <2>6. ResolvedHasEnd'
    BY <2>4, KeysAreKeys DEF ResolvedHasEnd, Ends
  <2>7. QED
    BY <2>5, <2>6
<1>4. ASSUME NEW a \in Alert, Fire(a) PROVE StoredIsEarlier' /\ ResolvedHasEnd'
  <2>1. /\ am'[a].episode = am[a].episode + 1 /\ UNCHANGED <<alerts, wire>>
        /\ \A b \in Alert : b # a => am'[b] = am[b]
    BY <1>4 DEF Fire, TypeOK
  <2>2. QED
    BY <1>1, <1>t, <2>1
<1>5. ASSUME NEW a \in Alert, Resolve(a) PROVE StoredIsEarlier' /\ ResolvedHasEnd'
  <2>1. /\ am'[a].episode = am[a].episode /\ UNCHANGED <<alerts, wire>>
        /\ \A b \in Alert : b # a => am'[b] = am[b]
    BY <1>5 DEF Resolve, TypeOK
  <2>2. QED
    BY <1>1, <1>t, <2>1
<1>6. ASSUME NEW a \in Alert, Notify(a) PROVE StoredIsEarlier' /\ ResolvedHasEnd'
  <2>1. /\ wire'[a] = NoteOf(a) /\ UNCHANGED <<alerts, am>>
        /\ \A b \in Alert : b # a => wire'[b] = wire[b]
    BY <1>6 DEF Notify, TypeOK
  <2>2. NoteOf(a).startsAt = am[a].episode
    BY DEF NoteOf
  <2>3. QED
    BY <1>1, <1>t, <2>1, <2>2
<1>7. ASSUME NEW a \in Alert, Lose(a) PROVE StoredIsEarlier' /\ ResolvedHasEnd'
  <2>1. /\ UNCHANGED <<alerts, am>>
        /\ \A b \in Alert : wire'[b] \in {wire[b], NoNote}
    BY <1>7 DEF Lose, TypeOK
  <2>2. QED
    BY <1>1, <1>t, <2>1
<1>8. ASSUME UNCHANGED <<alerts, am, wire>> PROVE StoredIsEarlier' /\ ResolvedHasEnd'
  BY <1>1, <1>t, <1>8
<1>9. ASSUME (\E k \in Cluster : SwitchCluster(k)) \/ (\E a \in Alert : Repeat(a))
                 \/ UNCHANGED vars
      PROVE  UNCHANGED <<alerts, am, wire>>
  BY <1>9 DEF SwitchCluster, Repeat, vars
<1>10. QED
  BY <1>2, <1>3, <1>4, <1>5, <1>6, <1>7, <1>8, <1>9 DEF Next

LEMMA ScopedStep == TypeOK /\ ScopedKeepCluster /\ [Next]_vars => ScopedKeepCluster'
<1> SUFFICES ASSUME TypeOK, ScopedKeepCluster, [Next]_vars PROVE ScopedKeepCluster'
  OBVIOUS
<1>1. CASE UNCHANGED alerts
  BY <1>1 DEF ScopedKeepCluster
<1>2. CASE Restart
  <2>1. \A key \in Key \ Sample : alerts'[key] = Absent
    BY <1>2 DEF Restart, Seeded
  <2>2. QED
    BY <2>1, KeysAreKeys, AlertAssumption DEF ScopedKeepCluster
<1>3. ASSUME NEW a \in Alert, Deliver(a) PROVE ScopedKeepCluster'
  <2>1. wire[a] \in Note /\ WebhookCluster(a) \in Cluster
    BY <1>3, Delivered, WebhookClusterType
  <2>2. PICK key \in Keys[a] :
            /\ Ingest(WebhookCluster(a), key, wire[a])
            /\ \A b \in Alert, other \in Key :
                  other \in Keys[b] /\ (b # a \/ other # key) =>
                      other # key /\ alerts'[other] = alerts[other]
    BY <1>3, Delivered
  <2>3. key \in Key
    BY KeysAreKeys
  <2>4. alerts'[key].cluster = IF alerts[key] # Absent THEN alerts[key].cluster
                                                       ELSE WebhookCluster(a)
    BY <2>1, <2>2, <2>3, Ingested
  <2>5. ASSUME NEW b \in Scoped, NEW other \in Keys[b], alerts'[other] # Absent
        PROVE  alerts'[other].cluster = Source[b]
    <3>1. b \in Alert /\ other \in Key
      BY KeysAreKeys, AlertAssumption
    <3>2. CASE b = a /\ other = key
      BY <2>4, <3>2 DEF ScopedKeepCluster, WebhookCluster
    <3>3. CASE b # a \/ other # key
      <4>1. alerts'[other] = alerts[other]
        BY <2>2, <3>1, <3>3
      <4>2. QED
        BY <2>5, <4>1 DEF ScopedKeepCluster
    <3>4. QED
      BY <3>2, <3>3
  <2>6. QED
    BY <2>5 DEF ScopedKeepCluster
<1>4. ASSUME ~Restart, \A a \in Alert : ~Deliver(a) PROVE UNCHANGED alerts
  BY <1>4 DEF Next, SwitchCluster, Fire, Resolve, Repeat, Notify, Lose, vars
<1>5. QED
  BY <1>1, <1>2, <1>3, <1>4

-----------------------------------------------------------------------------
(* Theorems.                                                               *)

LEMMA StoreStep == StoreInv /\ [Next]_vars => StoreInv'
  BY TypeStep, WireStep, RecordsStep, ScopedStep DEF StoreInv

THEOREM StoreKeeps == Spec => []StoreInv
<1>1. Init => StoreInv
  BY StoreInit
<1>2. QED
  BY <1>1, StoreStep, PTL DEF Spec

(* The store, the selection and what the Alertmanagers and the network     *)
(* hold have their types, whatever is delivered, lost or repeated.         *)
THEOREM TypeCorrect == Spec => []TypeOK
<1>1. StoreInv => TypeOK
  BY DEF StoreInv
<1>2. QED
  BY <1>1, StoreKeeps, PTL

(* IngestWebhook stores the end of every resolved alert, and never one     *)
(* before the start it keeps.                                              *)
THEOREM ResolvedAlertsEnded == Spec => []ResolvedHasEnd
<1>1. StoreInv => ResolvedHasEnd
  BY DEF StoreInv
<1>2. QED
  BY <1>1, StoreKeeps, PTL

(* The cluster in the URL of the webhook decides, for every notification.  *)
THEOREM ScopedAlertsStay == Spec => []ScopedKeepCluster
<1>1. StoreInv => ScopedKeepCluster
  BY DEF StoreInv
<1>2. QED
  BY <1>1, StoreKeeps, PTL

-----------------------------------------------------------------------------
(* An Alertmanager sends a fingerprint with every alert; without one an    *)
(* alert may have a record under each of its hashes, and only one of them  *)
(* is of its last notification.                                            *)
Fingerprinted == \A a \in Alert : \A key, other \in Keys[a] : key = other

LEMMA AnswerStep ==
    ASSUME Fingerprinted, StoreInv, AnsweredIsStored, [Next]_vars
    PROVE  AnsweredIsStored'
<1>i. TypeOK /\ WireIsDue
  BY DEF StoreInv
<1>1. CASE UNCHANGED <<alerts, am, due>>
  BY <1>1 DEF AnsweredIsStored
<1>2. CASE Restart
  <2>1. \A key \in Key \ Sample : alerts'[key] = Absent
    BY <1>2 DEF Restart, Seeded
  <2>2. QED
    BY <2>1, KeysAreKeys DEF AnsweredIsStored
<1>3. ASSUME NEW a \in Alert, Fire(a) \/ Resolve(a) \/ Repeat(a)
      PROVE  AnsweredIsStored'
  <2>1. /\ due'[a] /\ alerts' = alerts
        /\ \A b \in Alert : b # a => am'[b] = am[b] /\ due'[b] = due[b]
    BY <1>3, <1>i DEF Fire, Resolve, Repeat, TypeOK
  <2>2. QED
    BY <2>1 DEF AnsweredIsStored
<1>4. ASSUME NEW a \in Alert, Deliver(a) PROVE AnsweredIsStored'
  <2>1. /\ wire[a] \in Note /\ am' = am
        /\ \A b \in Alert : b # a => due'[b] = due[b]
    BY <1>4, <1>i, Delivered
  <2>2. PICK key \in Keys[a] :
            /\ Ingest(WebhookCluster(a), key, wire[a])
            /\ \A b \in Alert, other \in Key :
                  other \in Keys[b] /\ (b # a \/ other # key) =>
                      other # key /\ alerts'[other] = alerts[other]
    BY <1>4, <1>i, Delivered
  <2>3. alerts'[key].status = wire[a].status
    BY <1>i, <2>1, <2>2, Ingested, KeysAreKeys, WebhookClusterType
  <2>4. ~due'[a] => wire[a] = NoteOf(a)
    <3>1. due[a]
      BY <1>4, <1>i DEF Deliver, WireIsDue
    <3>2. QED
      BY <1>4, <1>i, <3>1 DEF Deliver, TypeOK
  <2>5. ASSUME NEW b \in Alert, ~due'[b], NEW other \in Keys[b], alerts'[other] # Absent
        PROVE  alerts'[other].status = am'[b].status
    <3>1. CASE b = a
      <4>1. other = key
        BY <3>1 DEF Fingerprinted
      <4>2. wire[a].status = am[a].status
        BY <2>4, <2>5, <3>1 DEF NoteOf
      <4>3. QED
        BY <2>1, <2>3, <3>1, <4>1, <4>2
    <3>2. CASE b # a
      <4>1. alerts'[other] = alerts[other] /\ ~due[b]
        BY <2>1, <2>2, <2>5, <3>2, KeysAreKeys
      <4>2. QED
        BY <2>1, <2>5, <4>1 DEF AnsweredIsStored
    <3>3. QED
      BY <3>1, <3>2
  <2>6. QED
    BY <2>5 DEF AnsweredIsStored
<1>5. ASSUME (\E k \in Cluster : SwitchCluster(k))
                 \/ (\E a \in Alert : Notify(a) \/ Lose(a)) \/ UNCHANGED vars
      PROVE  UNCHANGED <<alerts, am, due>>
  BY <1>5 DEF SwitchCluster, Notify, Lose, vars
<1>6. QED
  BY <1>1, <1>2, <1>3, <1>4, <1>5 DEF Next

(* What an Alertmanager has had an answer for is in the store, however     *)
(* often notifications or answers were lost before and the alert changed   *)
(* under way.                                                              *)
THEOREM AnswersAreStored == ASSUME Fingerprinted PROVE Spec => []AnsweredIsStored
<1>1. Init => AnsweredIsStored
  BY StoreInit
<1>2. StoreInv /\ AnsweredIsStored /\ [Next]_vars => AnsweredIsStored'
  BY AnswerStep
<1>3. QED
  BY <1>1, <1>2, StoreKeeps, PTL DEF Spec
=============================================================================
