----------------------- MODULE ReliabilityStoreProofs -----------------------
(* Proofs about ReliabilityStore, for any clusters, kinds, ids, fields and *)
(* values, and any number of concurrent requests.                          *)
EXTENDS ReliabilityStore, TLAPS

-----------------------------------------------------------------------------
(* Type correctness.                                                       *)

LEMMA EmptyType == Empty \in Data
  BY DEF Empty, Data

LEMMA DefaultItemType ==
    ASSUME NEW kind \in DefaultKind
    PROVE  /\ DefaultItem[kind] \in Item
           /\ DefaultItem[kind].cluster = LocalDev
           /\ DefaultItem[kind].ref = IF kind = "slo" THEN DefaultID ELSE NoRef
  BY StoreAssumption DEF DefaultItem, Item

LEMMA SeededType ==
    ASSUME NEW d \in Data
    PROVE  /\ Seeded(d) \in Data
           /\ \A kind \in Kind, id \in ID :
                 Seeded(d)[kind][id] =
                     IF kind \in DefaultKind /\ id = DefaultID
                     THEN DefaultItem[kind] ELSE d[kind][id]
<1>1. \A kind \in Kind : d[kind] \in [ID -> Item \cup {Absent}]
  BY DEF Data
<1>2. \A kind \in Kind :
         Seeded(d)[kind] = IF kind \in DefaultKind
                           THEN [d[kind] EXCEPT ![DefaultID] = DefaultItem[kind]]
                           ELSE d[kind]
  BY DEF Seeded
<1>3. \A kind \in Kind : Seeded(d)[kind] \in [ID -> Item \cup {Absent}]
  BY <1>1, <1>2, DefaultItemType
<1>4. \A kind \in Kind, id \in ID :
         Seeded(d)[kind][id] = IF kind \in DefaultKind /\ id = DefaultID
                               THEN DefaultItem[kind] ELSE d[kind][id]
  BY <1>1, <1>2
<1>5. Seeded(d) = [kind \in Kind |-> Seeded(d)[kind]]
  BY DEF Seeded
<1>6. QED
  BY <1>3, <1>4, <1>5 DEF Data

LEMMA LoadedType ==
    ASSUME TypeOK
    PROVE  /\ Loaded \in Data
           /\ ~NoSLI(Loaded) => file # Unreadable /\ Loaded = file
  BY EmptyType, StoreAssumption DEF TypeOK, Loaded, NoSLI, Empty

(* Opening the file truncates it or leaves it be; without failures, only   *)
(* the former.                                                             *)
LEMMA OpenEffect ==
    ASSUME TypeOK, OpenFile
    PROVE  /\ file' \in {Unreadable, file}
           /\ MaxFailures = 0 => file' = Unreadable
  BY StoreAssumption DEF OpenFile, TypeOK

(* Writing it leaves what memory holds or what was there; without          *)
(* failures, only the former.                                              *)
LEMMA WriteEffect ==
    ASSUME TypeOK, WriteBack
    PROVE  /\ unsaved' \in BOOLEAN
           /\ failures' \in 0..MaxFailures
           /\ file' = data \/ (file' = file /\ MaxFailures > 0)
           /\ ~unsaved' => file' = data
           /\ MaxFailures = 0 => ~unsaved'
<1>1. MaxFailures \in Nat /\ failures \in 0..MaxFailures
  BY StoreAssumption DEF TypeOK
<1>2. CASE file' = data /\ unsaved' = FALSE /\ UNCHANGED failures
  BY <1>1, <1>2
<1>3. CASE /\ failures < MaxFailures
           /\ unsaved' = TRUE /\ failures' = failures + 1 /\ UNCHANGED file
  <2>1. failures' \in 0..MaxFailures /\ MaxFailures > 0
    BY <1>1, <1>3
  <2>2. MaxFailures # 0
    BY <2>1
  <2>3. QED
    BY <1>3, <2>1, <2>2, Zenon
<1>4. QED
  BY <1>2, <1>3, Zenon DEF WriteBack

(* A request that begins has a well typed record and disturbs no other.    *)
LEMMA BeginType ==
    ASSUME TypeOK, NEW r \in Req, NEW kind \in Kind, NEW id \in ID \cup {NewID},
           NEW item \in Item, NEW op \in {"POST", "PUT", "PATCH", "DELETE"},
           NEW phase \in {"check", "write", "saving"},
           Begin(r, op, kind, id, item, phase)
    PROVE  /\ req' \in [Req -> Request \cup {NoRequest}]
           /\ req'[r] # NoRequest
           /\ req'[r].op = op /\ req'[r].kind = kind /\ req'[r].id = id
           /\ req'[r].item = item /\ req'[r].phase = phase
           /\ \A s \in Req \ {r} : req'[s] = req[s]
  BY MarkAssumption DEF TypeOK, Begin, Request

(* What begins a request: everything but the record of its slot is kept.   *)
LEMMA BeginCases ==
    ASSUME TypeOK, NEW r \in Req, NEW k \in Cluster, NEW kind \in Kind,
           \/ \E id \in ID \cup {NewID} : Post(r, k, kind, id)
           \/ \E id \in ID : Put(r, k, kind, id) \/ Delete(r, k, kind, id)
           \/ \E id \in ID, f \in Field, v \in Value : Patch(r, k, id, f, v)
    PROVE  /\ UNCHANGED <<data, file, mu, server, acked, firstOwner, errors>>
           /\ \E op \in {"POST", "PUT", "PATCH", "DELETE"}, kd \in Kind,
                 id \in ID \cup {NewID}, item \in Item, phase \in {"check", "write"} :
                 /\ Begin(r, op, kd, id, item, phase)
                 /\ op = "POST" /\ id # NewID => ClientIDs
                 /\ op # "POST" => /\ id \in ID
                                   /\ data[kd][id] # Absent
                                   /\ data[kd][id].cluster = item.cluster
                 /\ kd = "slo" /\ item.ref # NoRef /\ phase = "write" =>
                       op = "DELETE" /\ data[kd][id] = item
<1>1. ASSUME NEW id \in ID \cup {NewID}, Post(r, k, kind, id)
      PROVE  \E item \in Item, phase \in {"check", "write"} :
                /\ Begin(r, "POST", kind, id, item, phase)
                /\ ~(kind = "slo" /\ item.ref # NoRef /\ phase = "write")
  BY <1>1 DEF Post, Body, FirstPhase
<1>2. ASSUME NEW id \in ID, Put(r, k, kind, id)
      PROVE  /\ data[kind][id] # Absent
             /\ \E item \in Item, phase \in {"check", "write"} :
                   /\ Begin(r, "PUT", kind, id, item, phase)
                   /\ data[kind][id].cluster = item.cluster
                   /\ ~(kind = "slo" /\ item.ref # NoRef /\ phase = "write")
  BY <1>2 DEF Put, Owned, Body, FirstPhase
<1>3. ASSUME NEW id \in ID, Delete(r, k, kind, id)
      PROVE  /\ data[kind][id] # Absent /\ data[kind][id] \in Item
             /\ Begin(r, "DELETE", kind, id, data[kind][id], "write")
  BY <1>3 DEF Delete, Owned, TypeOK, Data
<1>4. ASSUME NEW id \in ID, NEW f \in Field, NEW v \in Value, Patch(r, k, id, f, v)
      PROVE  /\ data["sli"][id] # Absent
             /\ \E item \in Item :
                   /\ Begin(r, "PATCH", "sli", id, item, "write")
                   /\ data["sli"][id].cluster = item.cluster
  <2>1. data["sli"][id] # Absent /\ data["sli"][id] \in Item
    BY <1>4, StoreAssumption DEF Patch, Owned, TypeOK, Data
  <2> DEFINE item == [data["sli"][id] EXCEPT !.fields[f] = v]
  <2>2. item \in Item /\ item.cluster = data["sli"][id].cluster
    BY <2>1 DEF Item
  <2>3. Begin(r, "PATCH", "sli", id, item, "write")
    BY <1>4 DEF Patch
  <2>4. QED
    BY <2>1, <2>2, <2>3
<1>5. UNCHANGED <<data, file, mu, server, acked, firstOwner, errors>>
  BY DEF Post, Put, Delete, Patch
<1>6. \A id \in ID \cup {NewID} : (Post(r, k, kind, id) /\ id # NewID) => ClientIDs
  BY DEF Post
<1>7. "sli" \in Kind
  BY StoreAssumption
<1>8. CASE \E id \in ID \cup {NewID} : Post(r, k, kind, id)
  BY <1>1, <1>5, <1>6, <1>8
<1>9. CASE \E id \in ID : Put(r, k, kind, id)
  BY <1>2, <1>5, <1>9
<1>10. CASE \E id \in ID : Delete(r, k, kind, id)
  BY <1>3, <1>5, <1>10
<1>11. CASE \E id \in ID, f \in Field, v \in Value : Patch(r, k, id, f, v)
  BY <1>4, <1>5, <1>7, <1>11
<1>12. QED
  BY <1>8, <1>9, <1>10, <1>11

LEMMA SaveEffect ==
    ASSUME TypeOK, NEW r \in Req, Save(r)
    PROVE  /\ req[r] \in Request
           /\ \E id \in SaveID(req[r]) :
                 /\ id \in ID \cup {NewID}
                 /\ data' = [data EXCEPT ![req[r].kind][id] = req[r].item]
                 /\ data' \in Data
                 /\ firstOwner' = [firstOwner EXCEPT ![req[r].kind][id] =
                                      IF @ = Nobody THEN req[r].item.cluster ELSE @]
                 /\ firstOwner' \in [Kind -> [ID -> Cluster \cup {Nobody}]]
           /\ req' \in [Req -> Request \cup {NoRequest}]
           /\ \A s \in Req : s # r => req'[s] = req[s]
           /\ req'[r] = [req[r] EXCEPT !.phase = "saving"]
<1>1. req[r] \in Request
  BY DEF TypeOK, Save
<1>2. PICK id \in SaveID(req[r]) :
         /\ data' = [data EXCEPT ![req[r].kind][id] = req[r].item]
         /\ firstOwner' = [firstOwner EXCEPT ![req[r].kind][id] =
                              IF @ = Nobody THEN req[r].item.cluster ELSE @]
  BY DEF Save
<1>3. id \in ID \cup {NewID}
  BY <1>1 DEF SaveID, Request
<1>4. /\ req[r].item \in Item /\ req[r].kind \in Kind
      /\ req[r].item.cluster \in Cluster
  BY <1>1 DEF Request, Item
<1>5. data' \in Data
  BY <1>2, <1>4 DEF TypeOK, Data
<1>6. firstOwner' \in [Kind -> [ID -> Cluster \cup {Nobody}]]
  BY <1>2, <1>4 DEF TypeOK
<1>7. [req[r] EXCEPT !.phase = "saving"] \in Request
  BY <1>1 DEF Request
<1>8. req' = [req EXCEPT ![r] = [req[r] EXCEPT !.phase = "saving"]]
  BY DEF Save
<1>9. QED
  BY <1>1, <1>2, <1>3, <1>5, <1>6, <1>7, <1>8 DEF TypeOK

LEMMA RemoveEffect ==
    ASSUME TypeOK, NEW r \in Req, Remove(r)
    PROVE  /\ req[r] \in Request
           /\ data' \in Data
           /\ req' \in [Req -> Request \cup {NoRequest}]
           /\ \A s \in Req : s # r => req'[s] = req[s]
           /\ \/ /\ req'[r] = [req[r] EXCEPT !.phase = "saving"]
                 /\ data' = [data EXCEPT ![req[r].kind][req[r].id] = Absent]
                 /\ OpenFile /\ mu' = r
                 /\ data[req[r].kind][req[r].id] # Absent
              \/ req'[r] = NoRequest /\ UNCHANGED <<data, file, mu>>
<1>1. req[r] \in Request
  BY DEF TypeOK, Remove, Deleting
<1>2. [req[r] EXCEPT !.phase = "saving"] \in Request
  BY <1>1 DEF Request
<1>3. CASE /\ data' = [data EXCEPT ![req[r].kind][req[r].id] = Absent]
           /\ OpenFile /\ mu' = r
           /\ data[req[r].kind][req[r].id] # Absent
           /\ req' = [req EXCEPT ![r].phase = "saving"]
  <2>1. data' \in Data
    BY <1>1, <1>3 DEF TypeOK, Data, Request
  <2>2. req' = [req EXCEPT ![r] = [req[r] EXCEPT !.phase = "saving"]]
    BY <1>3
  <2>3. QED
    BY <1>1, <1>2, <1>3, <2>1, <2>2 DEF TypeOK
<1>4. CASE Respond(r) /\ UNCHANGED <<data, file, mu>>
  BY <1>1, <1>4 DEF TypeOK, Respond
<1>5. QED
  BY <1>3, <1>4 DEF Remove

LEMMA CheckEffect ==
    ASSUME TypeOK, NEW r \in Req, CheckReference(r)
    PROVE  /\ req[r] \in Request
           /\ req' \in [Req -> Request \cup {NoRequest}]
           /\ \A s \in Req : s # r => req'[s] = req[s]
           /\ \/ /\ req'[r] = [req[r] EXCEPT !.phase = "write"]
                 /\ Owned(req[r].item.cluster, "sli", req[r].item.ref)
              \/ req'[r] = NoRequest
<1>1. req[r] \in Request
  BY DEF TypeOK, CheckReference
<1>2. [req[r] EXCEPT !.phase = "write"] \in Request
  BY <1>1 DEF Request
<1>3. CASE /\ req' = [req EXCEPT ![r].phase = "write"]
           /\ Owned(req[r].item.cluster, "sli", req[r].item.ref)
  <2>1. req' = [req EXCEPT ![r] = [req[r] EXCEPT !.phase = "write"]]
    BY <1>3
  <2>2. QED
    BY <1>1, <1>2, <1>3, <2>1 DEF TypeOK
<1>4. CASE Respond(r)
  BY <1>1, <1>4 DEF TypeOK, Respond
<1>5. QED
  BY <1>3, <1>4 DEF CheckReference

LEMMA StoreTypeInit == Init => TypeOK
<1>1. ASSUME Init PROVE TypeOK
  <2>1. firstOwner \in [Kind -> [ID -> Cluster \cup {Nobody}]]
    BY <1>1, StoreAssumption DEF Init
  <2>2. failures \in 0..MaxFailures
    BY <1>1, StoreAssumption DEF Init
  <2>3. QED
    BY <1>1, <2>1, <2>2, EmptyType DEF Init, TypeOK
<1>2. QED
  BY <1>1

LEMMA StoreTypeStep == TypeOK /\ [Next]_vars => TypeOK'
<1> SUFFICES ASSUME TypeOK, [Next]_vars PROVE TypeOK'
  OBVIOUS
<1>1. CASE Start
  BY <1>1, LoadedType, SeededType, OpenEffect DEF Start, TypeOK, errors
<1>2. CASE FinishSeeding
  BY <1>2, WriteEffect DEF FinishSeeding, TypeOK
<1>3. CASE Stop
  BY <1>3, EmptyType DEF Stop, TypeOK, errors
<1>4. ASSUME NEW r \in Req, NEW k \in Cluster, NEW kind \in Kind,
             \/ \E id \in ID \cup {NewID} : Post(r, k, kind, id)
             \/ \E id \in ID : Put(r, k, kind, id) \/ Delete(r, k, kind, id)
             \/ \E id \in ID, f \in Field, v \in Value : Patch(r, k, id, f, v)
      PROVE  TypeOK'
  <2>1. UNCHANGED <<data, file, mu, server, acked, firstOwner, errors>>
    BY <1>4, BeginCases
  <2>2. PICK op \in {"POST", "PUT", "PATCH", "DELETE"}, kd \in Kind,
             id \in ID \cup {NewID}, item \in Item, phase \in {"check", "write"} :
             Begin(r, op, kd, id, item, phase)
    BY <1>4, BeginCases
  <2>3. req' \in [Req -> Request \cup {NoRequest}]
    BY <2>2, BeginType
  <2>4. QED
    BY <2>1, <2>3 DEF TypeOK, errors
<1>5. ASSUME NEW r \in Req, CheckReference(r) PROVE TypeOK'
  BY <1>5, CheckEffect DEF CheckReference, TypeOK, errors
<1>6. ASSUME NEW r \in Req, Save(r) PROVE TypeOK'
  BY <1>6, SaveEffect, OpenEffect DEF Save, TypeOK, errors
<1>7. ASSUME NEW r \in Req, Remove(r) PROVE TypeOK'
  BY <1>7, RemoveEffect, OpenEffect DEF Remove, TypeOK, errors
<1>8. ASSUME NEW r \in Req, WriteFile(r) PROVE TypeOK'
  BY <1>8, WriteEffect DEF WriteFile, Respond, TypeOK
<1>9. CASE UNCHANGED vars
  BY <1>9 DEF vars, TypeOK, errors
<1>10. "sli" \in Kind
  BY StoreAssumption
<1>11. QED
  BY <1>1, <1>2, <1>3, <1>4, <1>5, <1>6, <1>7, <1>8, <1>9, <1>10
     DEF Next, RequestStep

(* The items, the requests and the file stay well typed, whatever stops,   *)
(* starts and interleaves (reliability_store.go 106-352).                  *)
THEOREM StoreTypeCorrect == Spec => []TypeOK
<1>1. QED
  BY StoreTypeInit, StoreTypeStep, PTL DEF Spec

-----------------------------------------------------------------------------
(* Ownership.  What TypeOK and OwnershipFixed leave out, and a step needs: *)
(* the file obeys ownership too, or a restart would bring back what memory *)
(* never held; and so does every pending request, since between its lookup *)
(* and its save it holds an item that memory may have lost.  References    *)
(* are followed to the owner of the id, not to the SLI, which may be gone. *)

Owns(d) ==
    \A kind \in Kind, id \in ID :
        d[kind][id] # Absent => d[kind][id].cluster = firstOwner[kind][id]

RefersWithin(d) ==
    \A id \in ID :
        "slo" \in Kind /\ d["slo"][id] # Absent /\ d["slo"][id].ref # NoRef =>
            firstOwner["sli"][d["slo"][id].ref] = d["slo"][id].cluster

Sound(d) == Owns(d) /\ RefersWithin(d)

PendingSound ==
    \A r \in Req : req[r] # NoRequest =>
        /\ req[r].op # "POST" <=> req[r].id \in ID
        /\ req[r].id \in ID =>
               firstOwner[req[r].kind][req[r].id] = req[r].item.cluster
        /\ req[r].kind = "slo" /\ req[r].phase # "check" /\ req[r].item.ref # NoRef =>
               firstOwner["sli"][req[r].item.ref] = req[r].item.cluster

DefaultsOwned ==
    \A kind \in DefaultKind : firstOwner[kind][DefaultID] = LocalDev

OwnerInv ==
    /\ TypeOK
    /\ DefaultsOwned
    /\ Sound(data)
    /\ file # Unreadable => Sound(file)
    /\ PendingSound

(* No step takes an id from the cluster it was first used for.             *)
OwnersKept ==
    \A kind \in Kind, id \in ID :
        firstOwner[kind][id] # Nobody => firstOwner'[kind][id] = firstOwner[kind][id]

LEMMA OwnersKeptSound ==
    ASSUME TypeOK, TypeOK', OwnersKept, NEW d \in Data, Sound(d)
    PROVE  Owns(d)' /\ RefersWithin(d)'
<1>1. \A kind \in Kind, id \in ID : d[kind][id] # Absent =>
         d[kind][id].cluster \in Cluster
  BY DEF Data, Item
<1>2. Owns(d)'
  BY <1>1, StoreAssumption DEF Sound, Owns, OwnersKept
<1>3. ASSUME NEW id \in ID, "slo" \in Kind, d["slo"][id] # Absent, d["slo"][id].ref # NoRef
      PROVE  firstOwner'["sli"][d["slo"][id].ref] = d["slo"][id].cluster
  <2>1. d["slo"][id].ref \in ID /\ d["slo"][id].cluster \in Cluster
    BY <1>3 DEF Data, Item
  <2>2. firstOwner["sli"][d["slo"][id].ref] = d["slo"][id].cluster
    BY <1>3 DEF Sound, RefersWithin
  <2>3. QED
    BY <2>1, <2>2, StoreAssumption DEF OwnersKept
<1>4. QED
  BY <1>2, <1>3 DEF RefersWithin

LEMMA SeededSound ==
    ASSUME TypeOK, DefaultsOwned, NEW d \in Data, Sound(d)
    PROVE  Sound(Seeded(d))
<1>1. Owns(Seeded(d))
  BY SeededType, DefaultItemType DEF Sound, Owns, DefaultsOwned
<1>2. ASSUME NEW id \in ID, "slo" \in Kind, Seeded(d)["slo"][id] # Absent,
             Seeded(d)["slo"][id].ref # NoRef
      PROVE  firstOwner["sli"][Seeded(d)["slo"][id].ref] = Seeded(d)["slo"][id].cluster
  <2>1. CASE id = DefaultID
    BY <1>2, <2>1, SeededType, DefaultItemType, StoreAssumption
       DEF DefaultsOwned, DefaultKind
  <2>2. CASE id # DefaultID
    BY <1>2, <2>2, SeededType DEF Sound, RefersWithin
  <2>3. QED
    BY <2>1, <2>2
<1>3. QED
  BY <1>1, <1>2 DEF Sound, RefersWithin

LEMMA OwnerInit == Init => OwnerInv
<1> SUFFICES ASSUME Init PROVE OwnerInv
  OBVIOUS
<1>1. TypeOK
  BY StoreTypeInit
<1>2. Sound(Empty)
  BY StoreAssumption DEF Sound, Owns, RefersWithin, Empty
<1>3. DefaultsOwned
  BY StoreAssumption DEF Init, DefaultsOwned, DefaultKind
<1>4. PendingSound
  BY DEF Init, PendingSound
<1>5. QED
  BY <1>1, <1>2, <1>3, <1>4 DEF Init, OwnerInv

(* A step of one request keeps the others sound.                           *)
LEMMA OthersSound ==
    ASSUME OwnerInv, OwnersKept, NEW s \in Req, req[s] # NoRequest, req'[s] = req[s]
    PROVE  /\ req'[s].op # "POST" <=> req'[s].id \in ID
           /\ req'[s].id \in ID =>
                  firstOwner'[req'[s].kind][req'[s].id] = req'[s].item.cluster
           /\ req'[s].kind = "slo" /\ req'[s].phase # "check" /\ req'[s].item.ref # NoRef =>
                  firstOwner'["sli"][req'[s].item.ref] = req'[s].item.cluster
<1>1. req[s] \in Request
  BY DEF OwnerInv, TypeOK
<1>2. /\ req[s].item.cluster \in Cluster /\ req[s].kind \in Kind
      /\ req[s].item.ref \in ID \cup {NoRef}
  BY <1>1 DEF Request, Item
<1>3. /\ req[s].op # "POST" <=> req[s].id \in ID
      /\ req[s].id \in ID =>
             firstOwner[req[s].kind][req[s].id] = req[s].item.cluster
      /\ req[s].kind = "slo" /\ req[s].phase # "check" /\ req[s].item.ref # NoRef =>
             firstOwner["sli"][req[s].item.ref] = req[s].item.cluster
  BY DEF OwnerInv, PendingSound
<1>4. req[s].id \in ID => firstOwner'[req[s].kind][req[s].id] = req[s].item.cluster
  BY <1>2, <1>3, StoreAssumption DEF OwnersKept
<1>5. req[s].kind = "slo" /\ req[s].phase # "check" /\ req[s].item.ref # NoRef =>
         firstOwner'["sli"][req[s].item.ref] = req[s].item.cluster
  BY <1>2, <1>3, StoreAssumption DEF OwnersKept
<1>6. QED
  BY <1>3, <1>4, <1>5

LEMMA BeginSound ==
    ASSUME OwnerInv, ~ClientIDs, TypeOK',
           NEW r \in Req, NEW k \in Cluster, NEW kind \in Kind,
           \/ \E id \in ID \cup {NewID} : Post(r, k, kind, id)
           \/ \E id \in ID : Put(r, k, kind, id) \/ Delete(r, k, kind, id)
           \/ \E id \in ID, f \in Field, v \in Value : Patch(r, k, id, f, v)
    PROVE  OwnerInv'
<1>1. UNCHANGED <<data, file, mu, server, acked, firstOwner, errors>>
  BY BeginCases DEF OwnerInv
<1>2. PICK op \in {"POST", "PUT", "PATCH", "DELETE"}, kd \in Kind,
           id \in ID \cup {NewID}, item \in Item, phase \in {"check", "write"} :
           /\ Begin(r, op, kd, id, item, phase)
           /\ op = "POST" /\ id # NewID => ClientIDs
           /\ op # "POST" => /\ id \in ID
                             /\ data[kd][id] # Absent
                             /\ data[kd][id].cluster = item.cluster
           /\ kd = "slo" /\ item.ref # NoRef /\ phase = "write" =>
                 op = "DELETE" /\ data[kd][id] = item
  BY BeginCases DEF OwnerInv
<1>3. /\ req'[r].op = op /\ req'[r].kind = kd /\ req'[r].id = id
      /\ req'[r].item = item /\ req'[r].phase = phase
      /\ \A s \in Req \ {r} : req'[s] = req[s]
  BY <1>2, BeginType DEF OwnerInv
<1>4. OwnersKept
  BY <1>1 DEF OwnersKept
<1>5. op # "POST" <=> id \in ID
  BY <1>2, StoreAssumption
<1>6. id \in ID => firstOwner[kd][id] = item.cluster
  BY <1>2, <1>5 DEF OwnerInv, Sound, Owns
<1>7. kd = "slo" /\ phase # "check" /\ item.ref # NoRef =>
         firstOwner["sli"][item.ref] = item.cluster
  BY <1>2 DEF OwnerInv, Sound, RefersWithin
<1>8. PendingSound'
  BY <1>1, <1>3, <1>4, <1>5, <1>6, <1>7, OthersSound DEF PendingSound
<1>9. QED
  BY <1>1, <1>8 DEF OwnerInv, Sound, Owns, RefersWithin, DefaultsOwned

LEMMA CheckSound ==
    ASSUME OwnerInv, TypeOK', NEW r \in Req, CheckReference(r)
    PROVE  OwnerInv'
<1>1. UNCHANGED <<data, file, firstOwner>> /\ OwnersKept
  BY DEF CheckReference, OwnersKept
<1>2. /\ req[r] \in Request
      /\ \A s \in Req : s # r => req'[s] = req[s]
      /\ \/ /\ req'[r] = [req[r] EXCEPT !.phase = "write"]
            /\ Owned(req[r].item.cluster, "sli", req[r].item.ref)
         \/ req'[r] = NoRequest
  BY CheckEffect DEF OwnerInv
<1>3. /\ req[r].op # "POST" <=> req[r].id \in ID
      /\ req[r].id \in ID =>
             firstOwner[req[r].kind][req[r].id] = req[r].item.cluster
  BY <1>2, MarkAssumption DEF OwnerInv, PendingSound
<1>4. ASSUME req'[r] # NoRequest
      PROVE  /\ req'[r].op # "POST" <=> req'[r].id \in ID
             /\ req'[r].id \in ID =>
                    firstOwner[req'[r].kind][req'[r].id] = req'[r].item.cluster
             /\ req'[r].kind = "slo" /\ req'[r].item.ref # NoRef =>
                    firstOwner["sli"][req'[r].item.ref] = req'[r].item.cluster
  <2>1. /\ req'[r].op = req[r].op /\ req'[r].id = req[r].id
        /\ req'[r].kind = req[r].kind /\ req'[r].item = req[r].item
    BY <1>2, <1>4 DEF Request
  <2>2. req[r].item.ref # NoRef =>
           firstOwner["sli"][req[r].item.ref] = req[r].item.cluster
    <3>1. req[r].item.ref \in ID \cup {NoRef}
      BY <1>2 DEF Request, Item
    <3>2. Owned(req[r].item.cluster, "sli", req[r].item.ref)
      BY <1>2, <1>4
    <3>3. QED
      BY <3>1, <3>2, StoreAssumption DEF Owned, OwnerInv, Sound, Owns
  <2>3. QED
    BY <1>3, <2>1, <2>2
<1>5. PendingSound'
  BY <1>1, <1>2, <1>4, OthersSound DEF PendingSound
<1>6. QED
  BY <1>1, <1>5 DEF OwnerInv, Sound, Owns, RefersWithin, DefaultsOwned

LEMMA SaveSound ==
    ASSUME OwnerInv, TypeOK', NEW r \in Req, Save(r)
    PROVE  OwnerInv'
<1> DEFINE q == req[r]
<1>1. /\ q \in Request
      /\ \A s \in Req : s # r => req'[s] = req[s]
      /\ req'[r] = [q EXCEPT !.phase = "saving"]
  BY SaveEffect DEF OwnerInv
<1>2. PICK id \in SaveID(q) :
         /\ data' = [data EXCEPT ![q.kind][id] = q.item]
         /\ firstOwner' = [firstOwner EXCEPT ![q.kind][id] =
                              IF @ = Nobody THEN q.item.cluster ELSE @]
  BY SaveEffect DEF OwnerInv
<1>3. /\ q.phase = "write" /\ q # NoRequest
      /\ file' \in {Unreadable, file}
  BY OpenEffect DEF Save, OwnerInv
<1>4. /\ q.kind \in Kind /\ q.item \in Item /\ q.item.cluster \in Cluster
      /\ q.id \in ID \cup {NewID}
      /\ q.item.ref \in ID \cup {NoRef}
  BY <1>1 DEF Request, Item
<1> HIDE DEF q
<1>5. id \in ID
  BY <1>2, <1>3, <1>4 DEF SaveID, Save, OwnerInv, PendingSound, q
<1>6. firstOwner[q.kind][id] \in {Nobody, q.item.cluster}
  BY <1>2, <1>3, <1>5 DEF SaveID, OwnerInv, PendingSound, q
<1>7. /\ OwnersKept
      /\ firstOwner'[q.kind][id] = q.item.cluster
  BY <1>2, <1>4, <1>5, <1>6 DEF OwnersKept, OwnerInv, TypeOK
<1>8. \A kd \in Kind, i \in ID :
         data'[kd][i] = IF kd = q.kind /\ i = id THEN q.item ELSE data[kd][i]
  BY <1>2, <1>4, <1>5 DEF OwnerInv, TypeOK, Data
<1>9. data \in Data /\ TypeOK /\ Sound(data)
  BY DEF OwnerInv, TypeOK
<1>10. Owns(data)' /\ RefersWithin(data)'
  <2>1. \A kd \in Kind, i \in ID : data[kd][i] # Absent =>
           data[kd][i].cluster \in Cluster /\ data[kd][i].ref \in ID \cup {NoRef}
    BY <1>9 DEF Data, Item
  <2>2. \A kd \in Kind, i \in ID : data'[kd][i] # Absent =>
           data'[kd][i].cluster = firstOwner'[kd][i]
    BY <1>7, <1>8, <1>9, <2>1, StoreAssumption DEF Sound, Owns, OwnersKept
  <2>3. q.kind = "slo" /\ q.item.ref # NoRef =>
           firstOwner'["sli"][q.item.ref] = q.item.cluster
    <3>1. q.kind = "slo" /\ q.item.ref # NoRef =>
             firstOwner["sli"][q.item.ref] = q.item.cluster
      BY <1>3 DEF OwnerInv, PendingSound, q
    <3>2. QED
      BY <1>4, <1>7, <3>1, StoreAssumption DEF OwnersKept
  <2>4. ASSUME NEW i \in ID, "slo" \in Kind, data'["slo"][i] # Absent,
               data'["slo"][i].ref # NoRef
        PROVE  firstOwner'["sli"][data'["slo"][i].ref] = data'["slo"][i].cluster
    <3>1. CASE q.kind = "slo" /\ i = id
      BY <1>8, <2>3, <2>4, <3>1
    <3>2. CASE ~(q.kind = "slo" /\ i = id)
      <4>1. data'["slo"][i] = data["slo"][i]
        BY <1>8, <2>4, <3>2
      <4>2. firstOwner["sli"][data["slo"][i].ref] = data["slo"][i].cluster
        BY <1>9, <2>4, <4>1 DEF Sound, RefersWithin
      <4>3. QED
        BY <1>7, <2>1, <2>4, <4>1, <4>2, StoreAssumption DEF OwnersKept
    <3>3. QED
      BY <3>1, <3>2
  <2>5. QED
    BY <2>2, <2>4 DEF Owns, RefersWithin
<1>11. DefaultsOwned'
  BY <1>7, StoreAssumption DEF OwnerInv, DefaultsOwned, OwnersKept, DefaultKind
<1>12. PendingSound'
  <2>1. /\ req'[r].op = q.op /\ req'[r].id = q.id
        /\ req'[r].kind = q.kind /\ req'[r].item = q.item
    BY <1>1 DEF Request
  <2>2. /\ q.op # "POST" <=> q.id \in ID
        /\ q.id \in ID => firstOwner[q.kind][q.id] = q.item.cluster
        /\ q.kind = "slo" /\ q.item.ref # NoRef =>
               firstOwner["sli"][q.item.ref] = q.item.cluster
    BY <1>3 DEF OwnerInv, PendingSound, q
  <2>3. /\ q.id \in ID => firstOwner'[q.kind][q.id] = q.item.cluster
        /\ q.kind = "slo" /\ q.item.ref # NoRef =>
               firstOwner'["sli"][q.item.ref] = q.item.cluster
    BY <1>4, <1>7, <2>2, StoreAssumption DEF OwnersKept
  <2>4. QED
    BY <1>1, <1>7, <2>1, <2>2, <2>3, OthersSound DEF PendingSound
<1>13. file' # Unreadable => Sound(file)'
  <2> SUFFICES ASSUME file' # Unreadable PROVE Sound(file)'
    OBVIOUS
  <2>1. file' = file /\ file \in Data /\ Sound(file)
    BY <1>3 DEF OwnerInv, TypeOK
  <2>2. Owns(file)' /\ RefersWithin(file)'
    BY <1>7, <1>9, <2>1, OwnersKeptSound DEF Owns, RefersWithin
  <2>3. QED
    BY <2>2 DEF Sound
<1>14. QED
  BY <1>10, <1>11, <1>12, <1>13 DEF OwnerInv, Sound

LEMMA RemoveSound ==
    ASSUME OwnerInv, TypeOK', NEW r \in Req, Remove(r)
    PROVE  OwnerInv'
<1>1. /\ req[r] \in Request
      /\ \A s \in Req : s # r => req'[s] = req[s]
      /\ \/ /\ req'[r] = [req[r] EXCEPT !.phase = "saving"]
            /\ data' = [data EXCEPT ![req[r].kind][req[r].id] = Absent]
            /\ file' \in {Unreadable, file}
         \/ req'[r] = NoRequest /\ UNCHANGED <<data, file>>
  BY RemoveEffect, OpenEffect DEF OwnerInv
<1>2. UNCHANGED firstOwner /\ OwnersKept
  BY DEF Remove, OwnersKept
<1>3. \A kd \in Kind, i \in ID : data'[kd][i] \in {Absent, data[kd][i]}
  <2>1. data \in [Kind -> [ID -> Item \cup {Absent}]]
    BY DEF OwnerInv, TypeOK, Data
  <2>2. CASE data' = [data EXCEPT ![req[r].kind][req[r].id] = Absent]
    BY <2>1, <2>2
  <2>3. QED
    BY <1>1, <2>2
<1>4. Owns(data)' /\ RefersWithin(data)'
  BY <1>2, <1>3 DEF OwnerInv, Sound, Owns, RefersWithin
<1>5. file' # Unreadable => file' = file
  BY <1>1
<1>6. PendingSound'
  <2>1. ASSUME req'[r] # NoRequest
        PROVE  /\ req'[r].op = req[r].op /\ req'[r].id = req[r].id
               /\ req'[r].kind = req[r].kind /\ req'[r].item = req[r].item
    BY <1>1, <2>1 DEF Request
  <2>2. req[r] # NoRequest /\ req[r].phase = "write"
    BY DEF Remove, Deleting
  <2>3. /\ req[r].op # "POST" <=> req[r].id \in ID
        /\ req[r].id \in ID =>
               firstOwner[req[r].kind][req[r].id] = req[r].item.cluster
        /\ req[r].kind = "slo" /\ req[r].item.ref # NoRef =>
               firstOwner["sli"][req[r].item.ref] = req[r].item.cluster
    BY <2>2 DEF OwnerInv, PendingSound
  <2>4. QED
    BY <1>1, <1>2, <2>1, <2>3, OthersSound DEF PendingSound
<1>7. QED
  BY <1>2, <1>4, <1>5, <1>6
     DEF OwnerInv, Sound, Owns, RefersWithin, DefaultsOwned

LEMMA OwnerStep ==
    ASSUME ~ClientIDs
    PROVE  OwnerInv /\ [Next]_vars => OwnerInv'
<1> SUFFICES ASSUME OwnerInv, [Next]_vars PROVE OwnerInv'
  OBVIOUS
<1>1. TypeOK'
  BY StoreTypeStep DEF OwnerInv
<1>2. CASE Start
  <2>1. UNCHANGED <<req, firstOwner>>
    BY <1>2 DEF Start
  <2>2. Sound(Empty)
    BY StoreAssumption DEF Sound, Owns, RefersWithin, Empty
  <2>3. Loaded \in Data /\ Sound(Loaded)
    BY <2>2, LoadedType DEF Loaded, OwnerInv
  <2>4. data' \in {Seeded(Loaded), Loaded}
    BY <1>2 DEF Start
  <2>5. Sound(data')
    BY <2>3, <2>4, SeededSound DEF OwnerInv
  <2>6. file' # Unreadable => file' = file
    BY <1>2, OpenEffect DEF Start, OwnerInv
  <2>7. QED
    BY <1>1, <2>1, <2>5, <2>6
       DEF OwnerInv, Sound, Owns, RefersWithin, DefaultsOwned, PendingSound
<1>3. CASE FinishSeeding
  <2>1. /\ UNCHANGED <<data, req, firstOwner>>
        /\ file' = data \/ file' = file
    BY <1>3, WriteEffect DEF FinishSeeding, OwnerInv
  <2>2. QED
    BY <1>1, <2>1 DEF OwnerInv, Sound, Owns, RefersWithin, DefaultsOwned,
                      PendingSound
<1>4. CASE Stop
  <2>1. Sound(Empty)
    BY StoreAssumption DEF Sound, Owns, RefersWithin, Empty
  <2>2. QED
    BY <1>1, <1>4, <2>1 DEF Stop, OwnerInv, Sound, Owns, RefersWithin,
                            DefaultsOwned, PendingSound
<1>5. ASSUME NEW r \in Req, NEW k \in Cluster, NEW kind \in Kind,
             \/ \E id \in ID \cup {NewID} : Post(r, k, kind, id)
             \/ \E id \in ID : Put(r, k, kind, id) \/ Delete(r, k, kind, id)
             \/ \E id \in ID, f \in Field, v \in Value : Patch(r, k, id, f, v)
      PROVE  OwnerInv'
  BY <1>1, <1>5, BeginSound
<1>6. ASSUME NEW r \in Req, CheckReference(r) PROVE OwnerInv'
  BY <1>1, <1>6, CheckSound
<1>7. ASSUME NEW r \in Req, Save(r) PROVE OwnerInv'
  BY <1>1, <1>7, SaveSound
<1>8. ASSUME NEW r \in Req, Remove(r) PROVE OwnerInv'
  BY <1>1, <1>8, RemoveSound
<1>9. ASSUME NEW r \in Req, WriteFile(r) PROVE OwnerInv'
  <2>1. UNCHANGED <<data, firstOwner>> /\ (file' = data \/ file' = file)
    BY <1>9, WriteEffect DEF WriteFile, OwnerInv
  <2>2. PendingSound'
    BY <1>9, <2>1 DEF WriteFile, Respond, OwnerInv, TypeOK, PendingSound
  <2>3. QED
    BY <1>1, <2>1, <2>2 DEF OwnerInv, Sound, Owns, RefersWithin, DefaultsOwned
<1>10. CASE UNCHANGED vars
  BY <1>1, <1>10 DEF vars, OwnerInv, Sound, Owns, RefersWithin, DefaultsOwned,
                     PendingSound
<1>11. "sli" \in Kind
  BY StoreAssumption
<1>12. QED
  BY <1>2, <1>3, <1>4, <1>5, <1>6, <1>7, <1>8, <1>9, <1>10, <1>11
     DEF Next, RequestStep

LEMMA OwnerInvariant ==
    ASSUME ~ClientIDs
    PROVE  Spec => []OwnerInv
<1>1. OwnerInv /\ [Next]_vars => OwnerInv'
  BY OwnerStep
<1>2. QED
  BY <1>1, OwnerInit, PTL DEF Spec

(* While clients leave the ids to the store, an id belongs to one cluster  *)
(* for good, through races of updates with deletions and through restarts. *)
THEOREM OwnershipNeverMoves ==
    ASSUME ~ClientIDs
    PROVE  Spec => []OwnershipFixed
<1>1. OwnerInv => OwnershipFixed
  BY DEF OwnerInv, Sound, Owns, OwnershipFixed
<1>2. QED
  BY <1>1, OwnerInvariant, PTL

(* Under the same condition no SLO ever refers to an SLI of another        *)
(* cluster, although the check and the save are separate critical sections.*)
THEOREM ReferencesStayWithin ==
    ASSUME ~ClientIDs, "slo" \in Kind
    PROVE  Spec => []SloWithinCluster
<1>1. ASSUME OwnerInv PROVE SloWithinCluster
  <2> SUFFICES ASSUME NEW id \in ID, data["slo"][id] # Absent,
                      data["slo"][id].ref # NoRef,
                      data["sli"][data["slo"][id].ref] # Absent
               PROVE  data["sli"][data["slo"][id].ref].cluster = data["slo"][id].cluster
    BY DEF SloWithinCluster
  <2>1. data["slo"][id].ref \in ID
    BY <1>1 DEF OwnerInv, TypeOK, Data, Item
  <2>2. QED
    BY <1>1, <2>1, StoreAssumption DEF OwnerInv, Sound, Owns, RefersWithin
<1>2. OwnerInv => SloWithinCluster
  BY <1>1
<1>3. QED
  BY <1>2, OwnerInvariant, PTL

-----------------------------------------------------------------------------
(* Durability.                                                             *)

FileInv == TypeOK /\ FileFollowsMemory

LEMMA FileStep == FileInv /\ [Next]_vars => FileInv'
<1> SUFFICES ASSUME FileInv, [Next]_vars PROVE FileInv'
  OBVIOUS
<1>1. TypeOK'
  BY StoreTypeStep DEF FileInv
<1>2. CASE Start
  BY <1>1, <1>2, LoadedType DEF Start, FileInv, FileFollowsMemory, Unlocked
<1>3. CASE FinishSeeding
  BY <1>1, <1>3, WriteEffect DEF FinishSeeding, FileInv, FileFollowsMemory
<1>4. CASE Stop
  BY <1>1, <1>4 DEF Stop, FileInv, FileFollowsMemory, Unlocked
<1>5. ASSUME NEW r \in Req, NEW k \in Cluster, NEW kind \in Kind,
             \/ \E id \in ID \cup {NewID} : Post(r, k, kind, id)
             \/ \E id \in ID : Put(r, k, kind, id) \/ Delete(r, k, kind, id)
             \/ \E id \in ID, f \in Field, v \in Value : Patch(r, k, id, f, v)
      PROVE  FileInv'
  <2>1. UNCHANGED <<data, file, mu, server, errors>>
    BY <1>5, BeginCases DEF FileInv
  <2>2. QED
    BY <1>1, <2>1 DEF FileInv, FileFollowsMemory, Unlocked, errors
<1>6. ASSUME NEW r \in Req, CheckReference(r) PROVE FileInv'
  BY <1>1, <1>6 DEF CheckReference, FileInv, FileFollowsMemory, Unlocked, errors
<1>7. ASSUME NEW r \in Req, Save(r) PROVE FileInv'
  BY <1>1, <1>7, StoreAssumption DEF Save, FileInv, FileFollowsMemory, Unlocked
<1>8. ASSUME NEW r \in Req, Remove(r) PROVE FileInv'
  <2>1. mu' = r \/ UNCHANGED <<data, file, mu>>
    BY <1>8 DEF Remove
  <2>2. UNCHANGED <<server, unsaved>>
    BY <1>8 DEF Remove, errors
  <2>3. QED
    BY <1>1, <2>1, <2>2, StoreAssumption DEF FileInv, FileFollowsMemory, Unlocked
<1>9. ASSUME NEW r \in Req, WriteFile(r) PROVE FileInv'
  BY <1>1, <1>9, WriteEffect DEF WriteFile, FileInv, FileFollowsMemory
<1>10. CASE UNCHANGED vars
  BY <1>1, <1>10 DEF vars, FileInv, FileFollowsMemory, Unlocked, errors
<1>11. "sli" \in Kind
  BY StoreAssumption
<1>12. QED
  BY <1>2, <1>3, <1>4, <1>5, <1>6, <1>7, <1>8, <1>9, <1>10, <1>11
     DEF Next, RequestStep

(* Whenever the lock is free and the last save succeeded the file says     *)
(* what memory says, however many saves failed before it, and even in runs *)
(* where the server dies while it writes.                                  *)
THEOREM FileAlwaysFollows == Spec => []FileFollowsMemory
<1>1. Init => FileInv
  BY StoreTypeInit DEF Init, FileInv, FileFollowsMemory, Unlocked
<1>2. FileInv => FileFollowsMemory
  BY DEF FileInv
<1>3. QED
  BY <1>1, <1>2, FileStep, PTL DEF Spec

(* The lock is only held while the server is up.                           *)
IdleDown == server # "up" => mu = Free

LEMMA IdleDownStep == TypeOK /\ IdleDown /\ [Next]_vars => IdleDown'
<1> SUFFICES ASSUME TypeOK, IdleDown, [Next]_vars PROVE IdleDown'
  OBVIOUS
<1>1. ASSUME NEW r \in Req, NEW k \in Cluster, NEW kind \in Kind,
             \/ \E id \in ID \cup {NewID} : Post(r, k, kind, id)
             \/ \E id \in ID : Put(r, k, kind, id) \/ Delete(r, k, kind, id)
             \/ \E id \in ID, f \in Field, v \in Value : Patch(r, k, id, f, v)
      PROVE  IdleDown'
  BY <1>1, BeginCases DEF IdleDown
<1>2. ASSUME NEW r \in Req,
             CheckReference(r) \/ Save(r) \/ Remove(r) \/ WriteFile(r)
      PROVE  IdleDown'
  BY <1>2 DEF CheckReference, Save, Remove, Deleting, WriteFile, Unlocked, IdleDown
<1>3. CASE Start \/ FinishSeeding \/ Stop
  BY <1>3 DEF Start, FinishSeeding, Stop, IdleDown
<1>4. CASE UNCHANGED vars
  BY <1>4 DEF vars, IdleDown
<1>5. "sli" \in Kind
  BY StoreAssumption
<1>6. QED
  BY <1>1, <1>2, <1>3, <1>4, <1>5 DEF Next, RequestStep

(* A step that changes neither what the store has nor what a restart finds *)
(* is no step of ItemStore.                                                *)
LEMMA ItemsKept ==
    ASSUME UNCHANGED <<data, file, mu, server>>
    PROVE  UNCHANGED Items!itemVars
  BY DEF Items!itemVars, Persistent, OnDisk, Saving, Loaded

(* The two steps of a save, seen from ItemStore: a save that opens the     *)
(* file keeps what memory has now, one that does not keeps what it had.    *)
LEMMA OpenKeeps ==
    ASSUME TypeOK, Saving', OpenFile, ~Saving
    PROVE  OnDisk' = data' \/ (MaxFailures > 0 /\ UNCHANGED OnDisk)
<1>1. CASE file' = Unreadable
  BY <1>1 DEF OnDisk
<1>2. CASE failures < MaxFailures /\ file' = file /\ file # Unreadable
  <2>1. MaxFailures > 0
    BY <1>2, StoreAssumption DEF TypeOK
  <2>2. OnDisk = file /\ OnDisk' = file
    BY <1>2 DEF OnDisk, Loaded
  <2>3. QED
    BY <2>1, <2>2
<1>3. QED
  BY <1>1, <1>2 DEF OpenFile

LEMMA WriteKeeps ==
    ASSUME TypeOK, Saving, ~Saving', WriteBack, UNCHANGED data
    PROVE  \/ UNCHANGED OnDisk
           \/ MaxFailures > 0 /\ OnDisk' = Empty
<1>1. data # Unreadable
  BY MarkAssumption DEF TypeOK
<1>2. CASE file = Unreadable /\ file' = data
  BY <1>1, <1>2 DEF OnDisk, Loaded
<1>3. CASE failures < MaxFailures /\ file' = file
  <2>1. MaxFailures > 0
    BY <1>3, StoreAssumption DEF TypeOK
  <2>2. CASE file = Unreadable
    BY <1>3, <2>1, <2>2 DEF OnDisk, Loaded
  <2>3. CASE file # Unreadable
    BY <1>3, <2>3 DEF OnDisk, Loaded
  <2>4. QED
    BY <2>2, <2>3
<1>4. QED
  BY <1>2, <1>3 DEF WriteBack

LEMMA ItemsStep ==
    ASSUME ~StopInSave, OwnerInv, FileInv, IdleDown, [Next]_vars
    PROVE  [Items!Next]_Items!itemVars
<1> USE DEF IdleDown
<1>0. TypeOK
  BY DEF FileInv
<1>1. CASE Start
  <2>1. /\ Persistent = Loaded /\ Persistent' = data' /\ ~Saving
        /\ OnDisk = Loaded
    BY <1>1 DEF Start, Persistent, Saving, OnDisk
  <2>2. CASE NoSLI(Loaded) /\ data' = Seeded(Loaded) /\ OpenFile /\ server' = "seeding"
    <3>1. OnDisk' = data' \/ (MaxFailures > 0 /\ UNCHANGED OnDisk)
      BY <1>0, <2>1, <2>2, OpenKeeps DEF Saving
    <3>2. Items!Reseed
      BY <2>1, <2>2, <3>1 DEF Items!Reseed, Items!Keep, NoSLI, Seeded
    <3>3. QED
      BY <3>2 DEF Items!Next
  <2>3. CASE ~NoSLI(Loaded) /\ data' = Loaded /\ server' = "up" /\ UNCHANGED file
    <3>1. mu' = mu /\ mu = Free
      BY <1>1 DEF Start
    <3>2. ~Saving' /\ Loaded' = Loaded
      BY <2>3, <3>1 DEF Saving, Loaded
    <3>3. UNCHANGED Items!itemVars
      BY <2>1, <2>3, <3>2 DEF Items!itemVars, OnDisk
    <3>4. QED
      BY <3>3
  <2>4. QED
    BY <1>1, <2>2, <2>3 DEF Start
<1>2. CASE FinishSeeding
  <2>1. /\ Saving /\ ~Saving' /\ WriteBack /\ UNCHANGED data
        /\ Persistent = data /\ Persistent' = data
    BY <1>2 DEF FinishSeeding, Saving, Persistent
  <2>2. QED
    BY <1>0, <2>1, WriteKeeps
       DEF Items!Next, Items!Lose, Items!itemVars, Items!Empty, Empty
<1>3. CASE Stop
  <2>1. /\ server = "up" /\ mu = Free /\ server' = "down" /\ UNCHANGED file
    BY <1>3 DEF Stop
  <2>2. OnDisk = Loaded /\ OnDisk' = Loaded /\ Persistent' = Loaded
    BY <2>1 DEF OnDisk, Saving, Persistent, Loaded
  <2>3. QED
    BY <2>2 DEF Items!Next, Items!Restart
<1>4. ASSUME NEW r \in Req, NEW k \in Cluster, NEW kind \in Kind,
             \/ \E id \in ID \cup {NewID} : Post(r, k, kind, id)
             \/ \E id \in ID : Put(r, k, kind, id) \/ Delete(r, k, kind, id)
             \/ \E id \in ID, f \in Field, v \in Value : Patch(r, k, id, f, v)
      PROVE  UNCHANGED Items!itemVars
  BY <1>0, <1>4, BeginCases, ItemsKept
<1>5. ASSUME NEW r \in Req, CheckReference(r)
      PROVE  UNCHANGED Items!itemVars
  BY <1>5, ItemsKept DEF CheckReference
<1>6. ASSUME NEW r \in Req, WriteFile(r)
      PROVE  Items!Next \/ UNCHANGED Items!itemVars
  <2>1. /\ Saving /\ ~Saving' /\ WriteBack /\ UNCHANGED data
        /\ Persistent = data /\ Persistent' = data
    BY <1>6, StoreAssumption DEF WriteFile, Saving, Persistent
  <2>2. QED
    BY <1>0, <2>1, WriteKeeps
       DEF Items!Next, Items!Lose, Items!itemVars, Items!Empty, Empty
<1>7. ASSUME NEW r \in Req, Save(r)
      PROVE  Items!Next
  <2> DEFINE q == req[r]
  <2>1. Persistent = data /\ Persistent' = data'
    BY <1>7 DEF Save, Unlocked, Persistent
  <2>2. q \in Request /\ q # NoRequest
    BY <1>7 DEF Save, FileInv, TypeOK
  <2>3. PICK id \in SaveID(q) : data' = [data EXCEPT ![q.kind][id] = q.item]
    BY <1>7 DEF Save
  <2>4. q.kind \in Kind /\ q.item \in Item /\ q.item.cluster \in Cluster
    BY <2>2 DEF Request, Item
  <2> HIDE DEF q
  <2>5. id \in ID /\ firstOwner[q.kind][id] \in {Nobody, q.item.cluster}
    BY <1>7, <2>2, <2>3 DEF SaveID, Save, OwnerInv, PendingSound, Request, q
  <2>6. data[q.kind][id] # Absent =>
            /\ data[q.kind][id].cluster = firstOwner[q.kind][id]
            /\ data[q.kind][id].cluster \in Cluster
    BY <2>4, <2>5 DEF OwnerInv, Sound, Owns, TypeOK, Data, Item
  <2>7. data[q.kind][id] # Absent => data[q.kind][id].cluster = q.item.cluster
    BY <2>5, <2>6, StoreAssumption
  <2>8. OnDisk' = data' \/ (MaxFailures > 0 /\ UNCHANGED OnDisk)
    <3>1. OpenFile /\ ~Saving /\ Saving'
      BY <1>7, StoreAssumption DEF Save, Unlocked, Saving
    <3>2. QED
      BY <1>0, <3>1, OpenKeeps
  <2>9. Items!Put(q.kind, id, q.item)
    BY <2>1, <2>3, <2>7, <2>8 DEF Items!Put, Items!Keep
  <2>10. QED
    BY <2>4, <2>5, <2>9 DEF Items!Next
<1>8. ASSUME NEW r \in Req, Remove(r)
      PROVE  Items!Next \/ UNCHANGED Items!itemVars
  <2>1. Persistent = data /\ Persistent' = data'
    BY <1>8 DEF Remove, Deleting, Unlocked, Persistent
  <2>2. /\ req[r] \in Request /\ req[r] # NoRequest /\ req[r].op = "DELETE"
    BY <1>8, RemoveEffect DEF Remove, Deleting, FileInv
  <2>3. req[r].kind \in Kind /\ req[r].id \in ID
    BY <2>2 DEF OwnerInv, PendingSound, Request
  <2>4. CASE /\ data' = [data EXCEPT ![req[r].kind][req[r].id] = Absent]
             /\ data[req[r].kind][req[r].id] # Absent
             /\ OpenFile /\ mu' = r
    <3>1. ~Saving /\ Saving'
      BY <1>8, <2>4, StoreAssumption DEF Remove, Deleting, Unlocked, Saving
    <3>2. OnDisk' = data' \/ (MaxFailures > 0 /\ UNCHANGED OnDisk)
      BY <1>0, <2>4, <3>1, OpenKeeps
    <3>3. Items!Remove(req[r].kind, req[r].id)
      BY <2>1, <2>4, <3>2 DEF Items!Remove, Items!Keep
    <3>4. QED
      BY <2>3, <3>3 DEF Items!Next
  <2>5. CASE UNCHANGED <<data, file, mu>>
    BY <1>8, <2>5, ItemsKept DEF Remove
  <2>6. QED
    BY <1>8, <2>4, <2>5, RemoveEffect DEF FileInv
<1>9. CASE UNCHANGED vars
  BY <1>9, ItemsKept DEF vars
<1>10. "sli" \in Kind
  BY StoreAssumption
<1>11. QED
  BY <1>1, <1>2, <1>3, <1>4, <1>5, <1>6, <1>7, <1>8, <1>9, <1>10
     DEF Next, RequestStep

(* Seen through restarts the store is a map changed one item at a time, in *)
(* which no item passes from one cluster to another: requests are atomic,  *)
(* and restarts are invisible except that the defaults come back, or that, *)
(* where saves fail, they go back to what a save left behind.              *)
THEOREM ImplementsItemStore ==
    ASSUME ~ClientIDs, ~StopInSave
    PROVE  Spec => ItemStoreSpec
<1>1. Init => Items!Init
  BY DEF Init, Items!Init, Items!Empty, Empty, Persistent, OnDisk, Saving, Loaded
<1>2. OwnerInv /\ FileInv /\ IdleDown /\ [Next]_vars => [Items!Next]_Items!itemVars
  BY ItemsStep
<1>3. Spec => []FileInv
  <2>1. Init => FileInv
    BY StoreTypeInit DEF Init, FileInv, FileFollowsMemory, Unlocked
  <2>2. QED
    BY <2>1, FileStep, PTL DEF Spec
<1>4. Spec => []IdleDown
  <2>1. Init => IdleDown
    BY DEF Init, IdleDown
  <2>2. QED
    BY <1>3, <2>1, IdleDownStep, PTL DEF Spec, FileInv
<1>5. QED
  BY <1>1, <1>2, <1>3, <1>4, OwnerInvariant, PTL DEF Spec, ItemStoreSpec, Items!Spec

-----------------------------------------------------------------------------
(* Graceful restarts.                                                      *)

(* What a store d has of the changes that were answered: all of them and   *)
(* nothing else, except that the defaults are back where no SLI was left.  *)
Kept(d) == d = acked \/ (NoSLI(acked) /\ d = Seeded(acked))

(* While nobody holds the lock the store has that; while the server is     *)
(* down the file has it; and defaults are only seeded where no SLI is left.*)
RestartInv ==
    /\ FileInv
    /\ ~unsaved
    /\ Unlocked => Kept(data)
    /\ server = "down" => Kept(Loaded)
    /\ server = "seeding" => NoSLI(acked) /\ data = Seeded(acked)

(* Where the defaults are there is an SLI.                                 *)
LEMMA SeededHasSLI ==
    ASSUME NEW d \in Data PROVE ~NoSLI(Seeded(d))
<1>1. "sli" \in DefaultKind /\ DefaultID \in ID /\ "sli" \in Kind
  BY StoreAssumption DEF DefaultKind
<1>2. DefaultItem["sli"] # Absent
  BY <1>1, DefaultItemType, MarkAssumption
<1>3. QED
  BY <1>1, <1>2, SeededType DEF NoSLI

(* Initially nothing was answered, and there is nothing.                   *)
LEMMA RestartInit == Init => RestartInv
<1>1. Init => FileInv
  BY StoreTypeInit DEF Init, FileInv, FileFollowsMemory, Unlocked
<1>2. QED
  BY <1>1 DEF Init, RestartInv, Unlocked, Kept, Loaded

(* Every step keeps the invariant, if the server does not stop while it    *)
(* writes the file and no save fails.                                      *)
LEMMA RestartStep ==
    ASSUME ~StopInSave, MaxFailures = 0
    PROVE  RestartInv /\ [Next]_vars => RestartInv'
<1> SUFFICES ASSUME RestartInv, [Next]_vars PROVE RestartInv'
  OBVIOUS
<1>1. FileInv' /\ FileInv /\ TypeOK /\ acked \in Data
  BY FileStep DEF RestartInv, FileInv, TypeOK
<1>u. ~unsaved /\ ~unsaved'
  <2>1. ~unsaved
    BY DEF RestartInv
  <2>2. WriteBack => ~unsaved'
    BY <1>1, WriteEffect
  <2>3. ASSUME NEW r \in Req, NEW k \in Cluster, NEW kind \in Kind,
               \/ \E id \in ID \cup {NewID} : Post(r, k, kind, id)
               \/ \E id \in ID : Put(r, k, kind, id) \/ Delete(r, k, kind, id)
               \/ \E id \in ID, f \in Field, v \in Value : Patch(r, k, id, f, v)
        PROVE  ~unsaved'
    BY <1>1, <2>1, <2>3, BeginCases DEF errors
  <2>4. ASSUME NEW r \in Req,
               CheckReference(r) \/ Save(r) \/ Remove(r) \/ WriteFile(r)
        PROVE  ~unsaved'
    BY <2>1, <2>2, <2>4 DEF CheckReference, Save, Remove, WriteFile, errors
  <2>5. CASE Start \/ FinishSeeding \/ Stop
    BY <2>1, <2>2, <2>5 DEF Start, FinishSeeding, Stop, errors
  <2>6. CASE UNCHANGED vars
    BY <2>1, <2>6 DEF vars, errors
  <2>7. "sli" \in Kind
    BY StoreAssumption
  <2>8. QED
    BY <2>1, <2>3, <2>4, <2>5, <2>6, <2>7 DEF Next, RequestStep
<1>2. CASE Start
  <2>1. /\ Kept(Loaded) /\ acked' = acked /\ server = "down"
    BY <1>2 DEF RestartInv, Start
  <2>2. CASE NoSLI(Loaded) /\ data' = Seeded(Loaded) /\ server' = "seeding"
    <3>1. Loaded = acked
      BY <1>1, <2>1, <2>2, SeededHasSLI DEF Kept
    <3>2. NoSLI(acked)' /\ data' = Seeded(acked')
      BY <2>1, <2>2, <3>1 DEF NoSLI
    <3>3. QED
      BY <1>u, <1>1, <2>2, <3>2 DEF RestartInv, Unlocked, Seeded, Empty
  <2>3. CASE data' = Loaded /\ server' = "up"
    <3>1. Kept(data')
      BY <2>1, <2>3
    <3>2. Kept(data)'
      BY <2>1, <3>1 DEF Kept
    <3>3. QED
      BY <1>u, <1>1, <2>3, <3>2 DEF RestartInv
  <2>4. QED
    BY <1>2, <2>2, <2>3 DEF Start
<1>3. CASE FinishSeeding
  <2>1. /\ NoSLI(acked) /\ data = Seeded(acked)
        /\ data' = data /\ acked' = acked /\ server' = "up"
    BY <1>3 DEF FinishSeeding, RestartInv
  <2>2. Kept(data)'
    BY <2>1 DEF Kept
  <2>3. QED
    BY <1>u, <1>1, <2>1, <2>2 DEF RestartInv
<1>4. CASE Stop
  <2>1. /\ Unlocked /\ file = data /\ file' = file /\ acked' = acked
        /\ server' = "down"
    BY <1>1, <1>u, <1>4 DEF Stop, Unlocked, FileInv, FileFollowsMemory
  <2>2. file # Unreadable
    BY <1>1, <2>1, MarkAssumption DEF FileInv, TypeOK
  <2>3. Kept(data) /\ Loaded' = data
    BY <2>1, <2>2 DEF RestartInv, Loaded
  <2>4. Kept(Loaded)'
    BY <2>1, <2>3 DEF Kept
  <2>5. QED
    BY <1>u, <1>1, <2>1, <2>4 DEF RestartInv, Unlocked
<1>5. ASSUME UNCHANGED <<data, file, mu, server, acked>>
      PROVE  RestartInv'
  BY <1>u, <1>1, <1>5 DEF RestartInv, Unlocked, Kept, Loaded
<1>6. ASSUME NEW r \in Req, NEW k \in Cluster, NEW kind \in Kind,
             \/ \E id \in ID \cup {NewID} : Post(r, k, kind, id)
             \/ \E id \in ID : Put(r, k, kind, id) \/ Delete(r, k, kind, id)
             \/ \E id \in ID, f \in Field, v \in Value : Patch(r, k, id, f, v)
      PROVE  RestartInv'
  BY <1>1, <1>5, <1>6, BeginCases DEF FileInv
<1>7. ASSUME NEW r \in Req, CheckReference(r) PROVE RestartInv'
  BY <1>5, <1>7 DEF CheckReference
<1>8. ASSUME NEW r \in Req, Save(r) PROVE RestartInv'
  <2>1. server' = "up" /\ mu' # Free
    BY <1>8, StoreAssumption DEF Save, Unlocked
  <2>2. QED
    BY <1>u, <1>1, <2>1 DEF RestartInv, Unlocked
<1>9. ASSUME NEW r \in Req, Remove(r) PROVE RestartInv'
  <2>1. CASE mu' = r
    <3>1. server' = "up" /\ mu' # Free
      BY <1>9, <2>1, StoreAssumption DEF Remove, Deleting, Unlocked
    <3>2. QED
      BY <1>u, <1>1, <3>1 DEF RestartInv, Unlocked
  <2>2. CASE UNCHANGED <<data, file, mu>>
    BY <1>5, <1>9, <2>2 DEF Remove
  <2>3. QED
    BY <1>9, <2>1, <2>2 DEF Remove
<1>10. ASSUME NEW r \in Req, WriteFile(r) PROVE RestartInv'
  <2>1. server' = "up" /\ data' = acked'
    BY <1>10 DEF WriteFile
  <2>2. QED
    BY <1>u, <1>1, <2>1 DEF RestartInv, Kept
<1>11. CASE UNCHANGED vars
  BY <1>5, <1>11 DEF vars
<1>12. "sli" \in Kind
  BY StoreAssumption
<1>13. QED
  BY <1>2, <1>3, <1>4, <1>6, <1>7, <1>8, <1>9, <1>10, <1>11, <1>12
     DEF Next, RequestStep

(* While the server never stops inside a save and no save fails, what is   *)
(* there whenever the lock is free, also after restarts, is what was       *)
(* answered, whoever sent it and however the requests interleave. The      *)
(* exception is a restart with no SLI left: it brings the defaults back,   *)
(* also over a default SLO, SLA or policy that was changed since           *)
(* (seedDefaultsIfEmpty).                                                  *)
THEOREM GracefulRestartsKeep ==
    ASSUME ~StopInSave, MaxFailures = 0
    PROVE  Spec => [](Unlocked => Kept(data))
<1>1. RestartInv /\ [Next]_vars => RestartInv'
  BY RestartStep
<1>2. RestartInv => (Unlocked => Kept(data))
  BY DEF RestartInv
<1>3. QED
  BY <1>1, <1>2, RestartInit, PTL DEF Spec

(* So what a graceful restart promises of every acknowledged item holds as *)
(* long as an SLI is left.                                                 *)
THEOREM AcknowledgedKeptGracefully ==
    ASSUME ~StopInSave, MaxFailures = 0
    PROVE  Spec => [](~NoSLI(acked) => AcknowledgedKept)
<1>1. (Unlocked => Kept(data)) => (~NoSLI(acked) => AcknowledgedKept)
  BY DEF Kept, AcknowledgedKept
<1>2. QED
  BY <1>1, GracefulRestartsKeep, PTL

-----------------------------------------------------------------------------
(* Partial updates.                                                        *)

(* No two requests in flight are about one SLI; those that create one have *)
(* no id yet.                                                              *)
Apart ==
    \A r, s \in Req :
        r # s /\ req[r] # NoRequest /\ req[s] # NoRequest =>
            ~(/\ req[r].kind = "sli" /\ req[s].kind = "sli"
              /\ req[r].id = req[s].id /\ req[r].id # NewID)

(* Every id in use is known to have been used.                             *)
Used(d) ==
    \A kind \in Kind, id \in ID : d[kind][id] # Absent => firstOwner[kind][id] # Nobody

(* A PATCH about to be saved differs from the SLI in one field.            *)
Merged(r) ==
    req[r] # NoRequest /\ req[r].op = "PATCH" /\ req[r].phase # "saving" =>
        /\ req[r].phase = "write"
        /\ req[r].kind = "sli" /\ req[r].id \in ID
        /\ data["sli"][req[r].id] # Absent
        /\ \E f \in Field : \A g \in Field \ {f} :
              req[r].item.fields[g] = data["sli"][req[r].id].fields[g]

(* The invariant: requests are only in flight while the server is up, ids  *)
(* in memory and in the file are known, and every PATCH is still current.  *)
PatchInv ==
    /\ TypeOK
    /\ server # "up" => \A r \in Req : req[r] = NoRequest
    /\ \A kind \in DefaultKind : firstOwner[kind][DefaultID] # Nobody
    /\ Used(data)
    /\ file # Unreadable => Used(file)
    /\ \A r \in Req : Merged(r)

(* Initially nothing is there and nothing in flight.                       *)
LEMMA PatchInit == Init => PatchInv
<1> SUFFICES ASSUME Init PROVE PatchInv
  OBVIOUS
<1>1. TypeOK
  BY StoreTypeInit
<1>2. \A kind \in DefaultKind : firstOwner[kind][DefaultID] # Nobody
  BY StoreAssumption DEF Init, DefaultKind
<1>3. Used(data) /\ file = Unreadable /\ \A r \in Req : req[r] = NoRequest
  BY DEF Init, Used, Empty
<1>4. QED
  BY <1>1, <1>2, <1>3 DEF PatchInv, Merged

(* A change of another SLI, or of another kind, leaves a PATCH current.    *)
LEMMA MergedStays ==
    ASSUME NEW r \in Req, Merged(r), req'[r] = req[r],
           req[r] # NoRequest => data'["sli"][req[r].id] = data["sli"][req[r].id]
    PROVE  Merged(r)'
<1>1. CASE req[r] = NoRequest
  BY <1>1 DEF Merged
<1>2. CASE req[r] # NoRequest
  BY <1>2 DEF Merged
<1>3. QED
  BY <1>1, <1>2

(* The request that begins is current if it is a PATCH: it was made from   *)
(* the SLI in the same critical section.                                   *)
LEMMA PatchBegins ==
    ASSUME PatchInv, TypeOK', NEW r \in Req, NEW k \in Cluster, NEW kind \in Kind,
           \/ \E id \in ID \cup {NewID} : Post(r, k, kind, id)
           \/ \E id \in ID : Put(r, k, kind, id) \/ Delete(r, k, kind, id)
           \/ \E id \in ID, f \in Field, v \in Value : Patch(r, k, id, f, v)
    PROVE  PatchInv'
<1>1. UNCHANGED <<data, file, mu, server, acked, firstOwner, errors>> /\ TypeOK
  BY BeginCases DEF PatchInv
<1>2. server = "up"
  BY DEF Post, Put, Delete, Patch, Accepts
<1>3. \A s \in Req : s # r => req'[s] = req[s]
  BY <1>1 DEF Post, Put, Delete, Patch, Begin, TypeOK
<1>4. \A s \in Req : s # r => Merged(s)'
  BY <1>1, <1>3, MergedStays DEF PatchInv
<1>5. Merged(r)'
  <2>1. ASSUME NEW id, NEW item, NEW kd, NEW op \in {"POST", "PUT", "DELETE"},
               NEW phase, Begin(r, op, kd, id, item, phase)
        PROVE  Merged(r)'
    BY <1>1, <2>1 DEF Begin, TypeOK, Merged
  <2>2. ASSUME NEW id \in ID, NEW f \in Field, NEW v \in Value, Patch(r, k, id, f, v)
        PROVE  Merged(r)'
    <3> DEFINE old == data["sli"][id]
               new == [old EXCEPT !.fields[f] = v]
    <3>1. old # Absent /\ old \in Item
      BY <1>1, <2>2, StoreAssumption DEF Patch, Owned, TypeOK, Data
    <3>2. \A g \in Field \ {f} : new.fields[g] = old.fields[g]
      BY <3>1 DEF Item
    <3>3. /\ req'[r].kind = "sli" /\ req'[r].id = id /\ req'[r].item = new
          /\ req'[r].phase = "write"
          /\ data'["sli"][id] = old
      BY <1>1, <2>2 DEF Patch, Begin, TypeOK
    <3> HIDE DEF old, new
    <3>4. QED
      BY <3>1, <3>2, <3>3 DEF Merged
  <2>3. QED
    BY <2>1, <2>2 DEF Post, Put, Delete
<1>6. QED
  BY <1>1, <1>2, <1>4, <1>5 DEF PatchInv, Used

(* A save changes the one item of its request; when no other request is    *)
(* about the same SLI, every pending PATCH stays current.                  *)
LEMMA PatchSaves ==
    ASSUME PatchInv, TypeOK', Apart, NEW r \in Req, Save(r)
    PROVE  PatchInv'
<1> DEFINE q == req[r]
<1>1. /\ q \in Request /\ q # NoRequest /\ server = "up"
      /\ \A s \in Req : s # r => req'[s] = req[s]
      /\ req'[r] = [q EXCEPT !.phase = "saving"]
      /\ server' = server /\ file' \in {Unreadable, file}
  BY SaveEffect, OpenEffect DEF PatchInv, Save, Unlocked, TypeOK
<1>2. PICK id \in SaveID(q) :
         /\ id \in ID \cup {NewID}
         /\ data' = [data EXCEPT ![q.kind][id] = q.item]
         /\ firstOwner' = [firstOwner EXCEPT ![q.kind][id] =
                              IF @ = Nobody THEN q.item.cluster ELSE @]
  BY SaveEffect DEF PatchInv
<1>3. q.kind \in Kind /\ q.item \in Item /\ q.item.cluster \in Cluster
  BY <1>1 DEF Request, Item
<1>4. id \in ID
  BY <1>2, StoreAssumption DEF SaveID
<1>5. \A kind \in Kind, i \in ID :
         data'[kind][i] = IF kind = q.kind /\ i = id THEN q.item ELSE data[kind][i]
  BY <1>2, <1>3, <1>4 DEF PatchInv, TypeOK, Data
<1>6. \A kind \in Kind, i \in ID :
         firstOwner'[kind][i] = IF kind = q.kind /\ i = id /\ firstOwner[kind][i] = Nobody
                                THEN q.item.cluster ELSE firstOwner[kind][i]
  BY <1>2, <1>3, <1>4 DEF PatchInv, TypeOK
<1>7. \A kind \in Kind, i \in ID :
         firstOwner[kind][i] # Nobody => firstOwner'[kind][i] # Nobody
  BY <1>3, <1>6, StoreAssumption
<1>8. firstOwner'[q.kind][id] # Nobody
  BY <1>3, <1>4, <1>6, StoreAssumption
<1>9. Used(data)' /\ (file' # Unreadable => Used(file)')
  BY <1>1, <1>5, <1>7, <1>8 DEF PatchInv, Used
<1>10. \A kind \in DefaultKind : firstOwner'[kind][DefaultID] # Nobody
  BY <1>7, StoreAssumption DEF PatchInv, DefaultKind
<1> HIDE DEF q
<1>11. ASSUME NEW s \in Req, s # r
       PROVE  Merged(s)'
  <2>1. CASE req[s] # NoRequest /\ req[s].op = "PATCH" /\ req[s].phase # "saving"
    <3>1. /\ req[s].kind = "sli" /\ req[s].id \in ID /\ "sli" \in Kind
          /\ data["sli"][req[s].id] # Absent
      BY <2>1, StoreAssumption DEF PatchInv, Merged
    <3>2. firstOwner["sli"][req[s].id] # Nobody
      BY <3>1 DEF PatchInv, Used
    <3>3. ~("sli" = q.kind /\ req[s].id = id)
      <4>1. CASE q.kind = "sli" /\ q.id = NewID
        BY <1>2, <3>2, <4>1 DEF SaveID
      <4>2. CASE q.kind = "sli" /\ q.id # NewID
        <5>1. id = q.id
          BY <1>2, <4>2 DEF SaveID
        <5>2. req[s].id # q.id
          BY <1>1, <1>11, <2>1, <3>1, <4>2 DEF Apart, q
        <5>3. QED
          BY <5>1, <5>2
      <4>3. QED
        BY <4>1, <4>2
    <3>4. data'["sli"][req[s].id] = data["sli"][req[s].id]
      BY <1>5, <3>1, <3>3
    <3>5. QED
      BY <1>1, <1>11, <3>4, MergedStays DEF PatchInv
  <2>2. CASE ~(req[s] # NoRequest /\ req[s].op = "PATCH" /\ req[s].phase # "saving")
    BY <1>1, <1>11, <2>2 DEF Merged
  <2>3. QED
    BY <2>1, <2>2
<1>12. Merged(r)'
  BY <1>1 DEF Merged, Request
<1>13. QED
  BY <1>1, <1>9, <1>10, <1>11, <1>12 DEF PatchInv

(* So does a deletion.                                                     *)
LEMMA PatchRemoves ==
    ASSUME PatchInv, TypeOK', Apart, NEW r \in Req, Remove(r)
    PROVE  PatchInv'
<1>1. /\ req[r] \in Request /\ req[r] # NoRequest /\ server = "up"
      /\ UNCHANGED <<server, firstOwner>>
      /\ \A s \in Req : s # r => req'[s] = req[s]
      /\ req'[r] = NoRequest \/ req'[r] = [req[r] EXCEPT !.phase = "saving"]
      /\ \/ /\ data' = [data EXCEPT ![req[r].kind][req[r].id] = Absent]
            /\ file' \in {Unreadable, file}
         \/ UNCHANGED <<data, file>>
  BY RemoveEffect, OpenEffect DEF PatchInv, Remove, Deleting, Unlocked
<1>2. \A kind \in Kind, i \in ID :
         \/ data'[kind][i] = data[kind][i]
         \/ data'[kind][i] = Absent /\ kind = req[r].kind /\ i = req[r].id
  BY <1>1 DEF PatchInv, TypeOK, Data
<1>3. Used(data)' /\ (file' # Unreadable => Used(file)')
  BY <1>1, <1>2 DEF PatchInv, Used
<1>4. ASSUME NEW s \in Req, s # r
      PROVE  Merged(s)'
  <2>1. CASE req[s] # NoRequest /\ req[s].op = "PATCH" /\ req[s].phase # "saving"
    <3>1. req[s].kind = "sli" /\ req[s].id \in ID /\ "sli" \in Kind
      BY <2>1, StoreAssumption DEF PatchInv, Merged
    <3>2. data'["sli"][req[s].id] = data["sli"][req[s].id]
      BY <1>1, <1>2, <1>4, <2>1, <3>1, StoreAssumption DEF Apart
    <3>3. QED
      BY <1>1, <1>4, <3>2, MergedStays DEF PatchInv
  <2>2. CASE ~(req[s] # NoRequest /\ req[s].op = "PATCH" /\ req[s].phase # "saving")
    BY <1>1, <1>4, <2>2 DEF Merged
  <2>3. QED
    BY <2>1, <2>2
<1>5. Merged(r)'
  BY <1>1 DEF Merged, Request
<1>6. QED
  BY <1>1, <1>3, <1>4, <1>5 DEF PatchInv

(* Every step keeps the invariant while no two requests in flight are      *)
(* about one SLI.                                                          *)
LEMMA PatchStep == PatchInv /\ Apart /\ [Next]_vars => PatchInv'
<1> SUFFICES ASSUME PatchInv, Apart, [Next]_vars PROVE PatchInv'
  OBVIOUS
<1>1. TypeOK'
  BY StoreTypeStep DEF PatchInv
<1>2. CASE Start
  <2>1. /\ UNCHANGED <<req, firstOwner>>
        /\ \A r \in Req : req[r] = NoRequest
    BY <1>2 DEF Start, PatchInv
  <2>2. Used(Loaded) /\ Loaded \in Data
    BY LoadedType DEF Loaded, PatchInv, Used, Empty
  <2>3. Used(Seeded(Loaded))
    BY <2>2, SeededType DEF PatchInv, Used
  <2>4. data' \in {Loaded, Seeded(Loaded)} /\ (file' = Unreadable \/ file' = file)
    BY <1>2, OpenEffect DEF Start, PatchInv
  <2>5. Used(data)' /\ (file' # Unreadable => Used(file)')
    BY <2>1, <2>2, <2>3, <2>4 DEF Used, PatchInv
  <2>6. QED
    BY <1>1, <2>1, <2>5 DEF PatchInv, Merged
<1>3. CASE FinishSeeding
  <2>1. /\ UNCHANGED <<data, req, firstOwner>>
        /\ \A r \in Req : req[r] = NoRequest
        /\ file' = data \/ file' = file
    BY <1>3, WriteEffect DEF FinishSeeding, PatchInv
  <2>2. QED
    BY <1>1, <2>1 DEF PatchInv, Used, Merged
<1>4. CASE Stop
  <2>1. /\ data' = Empty /\ UNCHANGED <<file, firstOwner>>
        /\ \A r \in Req : req'[r] = NoRequest
    BY <1>4 DEF Stop
  <2>2. Used(data)'
    BY <2>1 DEF Used, Empty
  <2>3. QED
    BY <1>1, <2>1, <2>2 DEF PatchInv, Used, Merged
<1>5. ASSUME NEW r \in Req, NEW k \in Cluster, NEW kind \in Kind,
             \/ \E id \in ID \cup {NewID} : Post(r, k, kind, id)
             \/ \E id \in ID : Put(r, k, kind, id) \/ Delete(r, k, kind, id)
             \/ \E id \in ID, f \in Field, v \in Value : Patch(r, k, id, f, v)
      PROVE  PatchInv'
  BY <1>1, <1>5, PatchBegins
<1>6. ASSUME NEW r \in Req, CheckReference(r) PROVE PatchInv'
  <2>1. /\ UNCHANGED <<data, file, server, firstOwner>> /\ server = "up"
        /\ \A s \in Req : s # r => req'[s] = req[s]
    BY <1>6, CheckEffect DEF CheckReference, Unlocked, PatchInv
  <2>2. req'[r] = NoRequest \/ (req'[r] = [req[r] EXCEPT !.phase = "write"]
                                 /\ req[r] \in Request /\ req[r].phase = "check")
    BY <1>6, CheckEffect DEF CheckReference, PatchInv
  <2>3. Merged(r)'
    <3>1. Merged(r)
      BY DEF PatchInv
    <3>2. QED
      BY <2>2, <3>1, MarkAssumption DEF Merged, Request
  <2>4. QED
    BY <1>1, <2>1, <2>3 DEF PatchInv, Used, Merged
<1>7. ASSUME NEW r \in Req, Save(r) PROVE PatchInv'
  BY <1>1, <1>7, PatchSaves
<1>8. ASSUME NEW r \in Req, Remove(r) PROVE PatchInv'
  BY <1>1, <1>8, PatchRemoves
<1>9. ASSUME NEW r \in Req, WriteFile(r) PROVE PatchInv'
  <2>1. /\ UNCHANGED <<data, server, firstOwner>> /\ server = "up"
        /\ file' = data \/ file' = file
        /\ req'[r] = NoRequest /\ \A s \in Req : s # r => req'[s] = req[s]
    BY <1>9, WriteEffect DEF WriteFile, Respond, PatchInv, TypeOK
  <2>2. \A s \in Req : Merged(s)'
    BY <2>1 DEF PatchInv, Merged
  <2>3. Used(data)' /\ (file' # Unreadable => Used(file)')
    BY <2>1 DEF PatchInv, Used
  <2>4. QED
    BY <1>1, <2>1, <2>2, <2>3 DEF PatchInv
<1>10. CASE UNCHANGED vars
  BY <1>1, <1>10 DEF vars, PatchInv, Used, Merged
<1>11. "sli" \in Kind
  BY StoreAssumption
<1>12. QED
  BY <1>2, <1>3, <1>4, <1>5, <1>6, <1>7, <1>8, <1>9, <1>10, <1>11
     DEF Next, RequestStep

(* A PATCH of one field of an SLI preserves its other fields, and never    *)
(* brings back a deleted SLI, as long as no two requests in flight are     *)
(* about one SLI: what the repository's test of partial updates says is    *)
(* true of clients that wait for each other, and the race of two requests  *)
(* is the only way to break it.                                            *)
THEOREM PatchPreservesAlone ==
    Spec /\ []Apart => PatchPreserves /\ [][\A r \in Req :
        Save(r) /\ req[r].op = "PATCH" => data["sli"][req[r].id] # Absent]_vars
<1>1. ASSUME PatchInv, NEW r \in Req, Save(r), req[r].op = "PATCH"
      PROVE  /\ data["sli"][req[r].id] # Absent
             /\ \E f \in Field : \A g \in Field \ {f} :
                   data'["sli"][req[r].id].fields[g] = data["sli"][req[r].id].fields[g]
  <2>1. req[r] # NoRequest /\ req[r].phase = "write"
    BY <1>1 DEF Save
  <2>2. /\ req[r].kind = "sli" /\ req[r].id \in ID
        /\ data["sli"][req[r].id] # Absent
    BY <1>1, <2>1 DEF PatchInv, Merged
  <2>3. PICK f \in Field : \A g \in Field \ {f} :
           req[r].item.fields[g] = data["sli"][req[r].id].fields[g]
    BY <1>1, <2>1 DEF PatchInv, Merged
  <2>4. SaveID(req[r]) = {req[r].id}
    BY <2>2, StoreAssumption DEF SaveID
  <2>5. data' = [data EXCEPT ![req[r].kind][req[r].id] = req[r].item]
    BY <1>1, <2>4 DEF Save
  <2>6. data'["sli"][req[r].id] = req[r].item
    BY <1>1, <2>2, <2>5, StoreAssumption DEF PatchInv, TypeOK, Data
  <2>7. QED
    BY <2>2, <2>3, <2>6
<1>2. PatchInv /\ [Next]_vars =>
         /\ [\A r \in Req :
               Save(r) /\ req[r].op = "PATCH" /\ data["sli"][req[r].id] # Absent =>
                  \E f \in Field : \A g \in Field \ {f} :
                     data'["sli"][req[r].id].fields[g] = data["sli"][req[r].id].fields[g]
             ]_vars
         /\ [\A r \in Req :
               Save(r) /\ req[r].op = "PATCH" => data["sli"][req[r].id] # Absent]_vars
  BY <1>1
<1>3. QED
  BY <1>2, PatchInit, PatchStep, PTL DEF Spec, PatchPreserves

(* In particular a PATCH preserves the other fields when one request is    *)
(* served at a time.                                                       *)
THEOREM PatchPreservesInSequence ==
    ASSUME \A r, s \in Req : r = s
    PROVE  Spec => PatchPreserves
<1>1. Init => Apart
  BY DEF Apart
<1>2. [Next]_vars => Apart'
  BY DEF Apart
<1>3. QED
  BY <1>1, <1>2, PatchPreservesAlone, PTL DEF Spec
=============================================================================
