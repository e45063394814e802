-------------------------- MODULE ReliabilityStore --------------------------
(***************************************************************************)
(* The reliability configuration of Garund: the items kept in memory and   *)
(* in one JSON file by internal/server/reliability_store.go, and the HTTP  *)
(* handlers of internal/server/reliability.go that create, update and      *)
(* delete them.  SLIs, SLOs, SLAs, alert policies and destinations have    *)
(* the same operations, written once per kind in the code and once for all *)
(* kinds here; what differs is that an SLO may refer to an SLI, that only  *)
(* the PATCH of an SLI merges, and that destinations have no defaults.     *)
(*                                                                         *)
(* A handler takes the store's lock once per call, and a request is        *)
(* between two calls in one of the phases below.  A save holds the lock    *)
(* while os.WriteFile truncates and rewrites the file, so that a save is   *)
(* two steps, either of which may fail; the callers drop the error, and    *)
(* answer as if the item were saved.  The server may stop at any step: the *)
(* process exits on SIGTERM without waiting for its requests.              *)
(*                                                                         *)
(* Abstracted: the three seeded SLIs are one; the fields of an item are    *)
(* its cluster, its reference and the members of Field; a request whose    *)
(* body is refused changes nothing and is no step.  Not modelled: the      *)
(* Prometheus and Alertmanager URLs, which are saved in the same way.      *)
(***************************************************************************)
EXTENDS Naturals

CONSTANTS
    Cluster, LocalDev,
    Kind,           \* the kinds of items a run has, "sli" among them
    ID, DefaultID,  \* ids of items; DefaultID is the seeded one of its kind
    NewID,          \* no id in the body of a POST
    Field, Value,   \* the mutable fields of an item
    DefaultValue,
    NoRef, Absent, Nobody, Unreadable, NoRequest, Free,
    Req,            \* slots for concurrent requests
    ClientIDs,      \* whether clients put ids of their own in a POST
    StopInSave,     \* whether the server may stop while it writes the file
    MaxFailures     \* bound: saves whose opening or writing fails

ASSUME StoreAssumption ==
    /\ LocalDev \in Cluster
    /\ "sli" \in Kind /\ Kind \subseteq {"sli", "slo", "sla", "policy", "destination"}
    /\ DefaultID \in ID /\ NewID \notin ID
    /\ DefaultValue \in Value
    /\ NoRef \notin ID
    /\ Nobody \notin Cluster
    /\ Free \notin Req
    /\ ClientIDs \in BOOLEAN /\ StopInSave \in BOOLEAN /\ MaxFailures \in Nat

Item == [cluster : Cluster, ref : ID \cup {NoRef}, fields : [Field -> Value]]
Data == [Kind -> [ID -> Item \cup {Absent}]]
Request == [op : {"POST", "PUT", "PATCH", "DELETE"}, kind : Kind,
            id : ID \cup {NewID}, item : Item,
            phase : {"check", "write", "saving"}]

ASSUME MarkAssumption ==
    /\ Absent \notin Item
    /\ Unreadable \notin Data
    /\ NoRequest \notin Request

VARIABLES
    data,           \* s.data
    file,           \* the JSON file; Unreadable when missing or truncated
    mu,             \* the request that holds the store's lock
    server,         \* "down", "seeding" or "up"
    req,            \* what each request slot is about to do
    acked,          \* history: the items as of the last answered change
    firstOwner,     \* history: the cluster an id was first used for
    unsaved,        \* history: whether the last save failed
    failures        \* bound: the saves that have failed

errors == <<unsaved, failures>>
vars   == <<data, file, mu, server, req, acked, firstOwner, errors>>

Empty == [kind \in Kind |-> [id \in ID |-> Absent]]

DefaultKind == Kind \ {"destination"}
DefaultItem == [kind \in DefaultKind |->
    [cluster |-> LocalDev,
     ref |-> IF kind = "slo" THEN DefaultID ELSE NoRef,
     fields |-> [f \in Field |-> DefaultValue]]]

Init ==
    /\ data = Empty
    /\ file = Unreadable
    /\ mu = Free
    /\ server = "down"
    /\ req = [r \in Req |-> NoRequest]
    /\ acked = Empty
    /\ firstOwner = [kind \in Kind |-> [id \in ID |->
          IF kind \in DefaultKind /\ id = DefaultID THEN LocalDev ELSE Nobody]]
    /\ unsaved = FALSE
    /\ failures = 0

-----------------------------------------------------------------------------
(* The two steps of saveLocked.  os.WriteFile opens the file, which        *)
(* truncates it, or fails to and leaves it as it was.                      *)
OpenFile ==
    \/ file' = Unreadable
    \/ failures < MaxFailures /\ UNCHANGED file

(* A file that was opened is written, or, when the write fails, remains    *)
(* truncated or half written; one that was not opened remains what it was. *)
WriteBack ==
    \/ /\ file = Unreadable
       /\ file' = data
       /\ unsaved' = FALSE
       /\ UNCHANGED failures
    \/ /\ failures < MaxFailures
       /\ unsaved' = TRUE
       /\ failures' = failures + 1
       /\ UNCHANGED file

-----------------------------------------------------------------------------
(* Start and stop.                                                         *)

NoSLI(d) == \A id \in ID : d["sli"][id] = Absent

(* Mutant: the defaults replace whatever else the file held.               *)
SeededOnly(d) == [kind \in Kind |->
    IF kind \in DefaultKind
    THEN [Empty[kind] EXCEPT ![DefaultID] = DefaultItem[kind]]
    ELSE Empty[kind]]

Seeded(d) == [kind \in Kind |->
    IF kind \in DefaultKind
    THEN [d[kind] EXCEPT ![DefaultID] = DefaultItem[kind]]
    ELSE d[kind]]

(* What load finds: a file that is missing or does not parse leaves the    *)
(* store empty.                                                            *)
Loaded == IF file = Unreadable THEN Empty ELSE file

(* NewReliabilityStore: load, and seed the defaults when there is no SLI.  *)
Start ==
    /\ server = "down"
    /\ \/ /\ NoSLI(Loaded)
          /\ data' = Seeded(Loaded)
          /\ OpenFile
          /\ server' = "seeding"
          /\ UNCHANGED errors
       \/ /\ ~NoSLI(Loaded)
          /\ data' = Loaded
          /\ server' = "up"
          /\ unsaved' = FALSE
          /\ UNCHANGED <<file, failures>>
    /\ UNCHANGED <<mu, req, acked, firstOwner>>

FinishSeeding ==
    /\ server = "seeding"
    /\ WriteBack
    /\ server' = "up"
    /\ UNCHANGED <<data, mu, req, acked, firstOwner>>

(* The process exits, with whatever the file holds at that moment.         *)
Stop ==
    /\ server # "down"
    /\ ~StopInSave => server = "up" /\ mu = Free
    /\ server' = "down"
    /\ data' = Empty
    /\ mu' = Free
    /\ req' = [r \in Req |-> NoRequest]
    /\ UNCHANGED <<file, acked, firstOwner, errors>>

-----------------------------------------------------------------------------
(* The requests.                                                           *)

Accepts(r) == server = "up" /\ req[r] = NoRequest
Unlocked   == server = "up" /\ mu = Free

(* The first phase of a save: only an SLO that names an SLI is checked.    *)
FirstPhase(kind, item) ==
    IF kind = "slo" /\ item.ref # NoRef THEN "check" ELSE "write"

Begin(r, op, kind, id, item, phase) ==
    req' = [req EXCEPT ![r] = [op |-> op, kind |-> kind, id |-> id,
                               item |-> item, phase |-> phase]]

Respond(r) == req' = [req EXCEPT ![r] = NoRequest]

(* The bodies a request to cluster k may carry.                            *)
Body(k, kind) ==
    {item \in Item : item.cluster = k /\ (kind # "slo" => item.ref = NoRef)}

OwnedByAnyone(k, kind, id) == data[kind][id] # Absent  \* Mutant: no owner check

(* An item that the routes of cluster k may see.                           *)
Owned(k, kind, id) ==
    /\ data[kind][id] # Absent
    /\ data[kind][id].cluster = k

Post(r, k, kind, id) ==
    /\ Accepts(r)
    /\ id # NewID => ClientIDs
    /\ \E item \in Body(k, kind) :
          Begin(r, "POST", kind, id, item, FirstPhase(kind, item))
    /\ UNCHANGED <<data, file, mu, server, acked, firstOwner, errors>>

(* PUT, and PATCH of the kinds other than SLI, replace the whole item.     *)
Put(r, k, kind, id) ==
    /\ Accepts(r) /\ Unlocked
    /\ Owned(k, kind, id)
    /\ \E item \in Body(k, kind) :
          Begin(r, "PUT", kind, id, item, FirstPhase(kind, item))
    /\ UNCHANGED <<data, file, mu, server, acked, firstOwner, errors>>

(* PATCH of an SLI merges the body into the item as it is read here.       *)
Patch(r, k, id, f, v) ==
    /\ Accepts(r) /\ Unlocked
    /\ Owned(k, "sli", id)
    /\ Begin(r, "PATCH", "sli", id, [data["sli"][id] EXCEPT !.fields[f] = v], "write")
    /\ UNCHANGED <<data, file, mu, server, acked, firstOwner, errors>>

(* Mutant: a DELETE does not look the item up first.                       *)
DeleteBlindly(r, k, kind, id) ==
    /\ Accepts(r) /\ Unlocked
    /\ Begin(r, "DELETE", kind, id, data[kind][id], "write")
    /\ UNCHANGED <<data, file, mu, server, acked, firstOwner, errors>>

Delete(r, k, kind, id) ==
    /\ Accepts(r) /\ Unlocked
    /\ Owned(k, kind, id)
    /\ Begin(r, "DELETE", kind, id, data[kind][id], "write")
    /\ UNCHANGED <<data, file, mu, server, acked, firstOwner, errors>>

(* Mutant: the SLI may belong to another cluster.                          *)
CheckExistence(r) ==
    /\ Unlocked
    /\ req[r] # NoRequest /\ req[r].phase = "check"
    /\ \/ /\ OwnedByAnyone(req[r].item.cluster, "sli", req[r].item.ref)
          /\ req' = [req EXCEPT ![r].phase = "write"]
       \/ /\ ~OwnedByAnyone(req[r].item.cluster, "sli", req[r].item.ref)
          /\ Respond(r)
    /\ UNCHANGED <<data, file, mu, server, acked, firstOwner, errors>>

(* An SLO is refused unless the SLI it names is one of its cluster.        *)
CheckReference(r) ==
    /\ Unlocked
    /\ req[r] # NoRequest /\ req[r].phase = "check"
    /\ \/ /\ Owned(req[r].item.cluster, "sli", req[r].item.ref)
          /\ req' = [req EXCEPT ![r].phase = "write"]
       \/ /\ ~Owned(req[r].item.cluster, "sli", req[r].item.ref)
          /\ Respond(r)
    /\ UNCHANGED <<data, file, mu, server, acked, firstOwner, errors>>

(* The id under which a request saves: SaveX makes one from the clock, so  *)
(* never one that was used before, unless the item has one.                *)
SaveID(q) ==
    IF q.id = NewID THEN {id \in ID : firstOwner[q.kind][id] = Nobody} ELSE {q.id}

(* SaveX: the item is replaced and the file opened, under the lock.        *)
Save(r) ==
    /\ Unlocked
    /\ req[r] # NoRequest /\ req[r].phase = "write" /\ req[r].op # "DELETE"
    /\ \E id \in SaveID(req[r]) :
          /\ data' = [data EXCEPT ![req[r].kind][id] = req[r].item]
          /\ firstOwner' = [firstOwner EXCEPT ![req[r].kind][id] =
                               IF @ = Nobody THEN req[r].item.cluster ELSE @]
    /\ OpenFile
    /\ mu' = r
    /\ req' = [req EXCEPT ![r].phase = "saving"]
    /\ UNCHANGED <<server, acked, errors>>

Deleting(r) ==
    /\ Unlocked
    /\ req[r] # NoRequest /\ req[r].phase = "write" /\ req[r].op = "DELETE"

(* Mutant: a deletion is not saved.                                        *)
RemoveUnsaved(r) ==
    /\ Deleting(r)
    /\ data' = [data EXCEPT ![req[r].kind][req[r].id] = Absent]
    /\ Respond(r)
    /\ UNCHANGED <<file, mu, server, acked, firstOwner, errors>>

(* DeleteX: nothing is saved when the item is gone already.                *)
Remove(r) ==
    /\ Deleting(r)
    /\ \/ /\ data[req[r].kind][req[r].id] # Absent
          /\ data' = [data EXCEPT ![req[r].kind][req[r].id] = Absent]
          /\ OpenFile
          /\ mu' = r
          /\ req' = [req EXCEPT ![r].phase = "saving"]
       \/ /\ data[req[r].kind][req[r].id] = Absent
          /\ Respond(r)
          /\ UNCHANGED <<data, file, mu>>
    /\ UNCHANGED <<server, acked, firstOwner, errors>>

(* The file is written, the lock released and the request answered, with   *)
(* the item and without a word of an error.                                *)
WriteFile(r) ==
    /\ server = "up" /\ mu = r
    /\ WriteBack
    /\ mu' = Free
    /\ acked' = data
    /\ Respond(r)
    /\ UNCHANGED <<data, server, firstOwner>>

RequestStep(r) ==
    \/ \E k \in Cluster, kind \in Kind :
          \/ \E id \in ID \cup {NewID} : Post(r, k, kind, id)
          \/ \E id \in ID : Put(r, k, kind, id) \/ Delete(r, k, kind, id)
    \/ \E k \in Cluster, id \in ID, f \in Field, v \in Value : Patch(r, k, id, f, v)
    \/ CheckReference(r)
    \/ Save(r) \/ Remove(r) \/ WriteFile(r)

Next ==
    \/ Start \/ FinishSeeding \/ Stop
    \/ \E r \in Req : RequestStep(r)

Spec == Init /\ [][Next]_vars

-----------------------------------------------------------------------------
(* Properties.                                                             *)

(* The variables keep their types: what a request saves is an item, never  *)
(* the absence of the one it read.                                         *)
TypeOK ==
    /\ data \in Data
    /\ file \in Data \cup {Unreadable}
    /\ mu \in Req \cup {Free}
    /\ server \in {"down", "seeding", "up"}
    /\ req \in [Req -> Request \cup {NoRequest}]
    /\ acked \in Data
    /\ firstOwner \in [Kind -> [ID -> Cluster \cup {Nobody}]]
    /\ unsaved \in BOOLEAN
    /\ failures \in 0..MaxFailures

(* Whenever nobody holds the lock the file says what memory says, unless   *)
(* the last save failed, which nobody is told: no operation and no restart *)
(* leaves a change behind that the code does not try to save, and one save *)
(* that succeeds makes up for all that failed before it.                   *)
FileFollowsMemory == Unlocked /\ ~unsaved => file = data

(* An id belongs to the cluster it was first saved for, for good: neither  *)
(* a request that read the item before a concurrent change, nor a deletion *)
(* and a late update that brings the item back, nor a restart moves it.    *)
OwnershipFixed ==
    \A kind \in Kind, id \in ID :
        data[kind][id] # Absent => data[kind][id].cluster = firstOwner[kind][id]

(* An SLO never refers to an SLI of another cluster, although the check    *)
(* and the save are two critical sections and the SLI may go in between    *)
(* and come back.                                                          *)
SloWithinCluster ==
    \A id \in ID :
        LET slo == data["slo"][id]
        IN  slo # Absent /\ slo.ref # NoRef /\ data["sli"][slo.ref] # Absent =>
                data["sli"][slo.ref].cluster = slo.cluster

Persistent == IF server = "down" THEN Loaded ELSE data

(* What a restart will find if the save under way succeeds.                *)
Saving == server = "seeding" \/ (server = "up" /\ mu # Free)
OnDisk == IF Saving /\ file = Unreadable THEN data ELSE Loaded

Items == INSTANCE ItemStore
         WITH store <- Persistent, kept <- OnDisk, MayFail <- MaxFailures > 0

(* The store and what outlives the process implement ItemStore: a step     *)
(* puts or removes one item or brings the defaults back, in both of them   *)
(* or, if saves may fail, in the first; a save that fails leaves behind    *)
(* what was kept before or nothing; and a restart takes what was kept.     *)
ItemStoreSpec == Items!Spec

(* A PATCH of one field of an SLI preserves the others, as the repository's *)
(* test of partial updates says.                                           *)
PatchPreserves ==
    [][\A r \in Req :
          Save(r) /\ req[r].op = "PATCH" /\ data["sli"][req[r].id] # Absent =>
              \E f \in Field : \A g \in Field \ {f} :
                  data'["sli"][req[r].id].fields[g] = data["sli"][req[r].id].fields[g]
      ]_vars

(* A restart is graceful: what was answered before is there afterwards.    *)
AcknowledgedKept ==
    Unlocked =>
        \A kind \in Kind, id \in ID :
            acked[kind][id] # Absent => data[kind][id] = acked[kind][id]
=============================================================================
