----------------------- MODULE ClusterRequestsProofs -----------------------
(* Proofs about ClusterManager, for any cluster ids and API servers, and   *)
(* about ClusterRequests, for any number of concurrent requests.           *)
EXTENDS ClusterRequests, TLAPS

-----------------------------------------------------------------------------
(* The directory.                                                          *)

(* Effect of the three registry operations on the set of registered ids.   *)
LEMMA RegisterEffect ==
    ASSUME TypeOK, NEW id \in ClusterID, NEW conn \in Connection,
           NEW client \in Client \cup {NoClient},
           RegisterCluster(id, conn, client)
    PROVE  /\ clusters' \in [ClusterID -> Connection \cup {NotRegistered}]
           /\ clientsets' \in [ClusterID -> Client \cup {NoClient}]
           /\ activeID' \in ClusterID \cup {NoID}
           /\ Registered' = Registered \cup {id}
  BY ClusterAssumption DEF TypeOK, RegisterCluster, Registered

LEMMA UpdateEffect ==
    ASSUME TypeOK, NEW id \in ClusterID, NEW status \in Status,
           UpdateStatus(id, status)
    PROVE  /\ clusters' \in [ClusterID -> Connection \cup {NotRegistered}]
           /\ Registered' = Registered
           /\ \A i \in Registered : /\ clusters'[i].mode = clusters[i].mode
                                    /\ clusters'[i].endpoint = clusters[i].endpoint
  BY ClusterAssumption DEF TypeOK, UpdateStatus, Registered, Connection

LEMMA DeleteEffect ==
    ASSUME TypeOK, NEW id \in ClusterID, DeleteCluster(id)
    PROVE  /\ clusters' \in [ClusterID -> Connection \cup {NotRegistered}]
           /\ clientsets' \in [ClusterID -> Client \cup {NoClient}]
           /\ activeID' \in ClusterID \cup {NoID}
           /\ Registered' = Registered \ {id}
  BY ClusterAssumption DEF TypeOK, DeleteCluster, Deletable, Registered

(* Every step of Next is a registration of a connection with the client    *)
(* built for its own API server or none, a selection, a report or a        *)
(* deletion; only discovery, before the router serves, is of local-dev.    *)
RegisterStep(id) ==
    \E conn \in Connection, client \in Client \cup {NoClient} :
        /\ RegisterCluster(id, conn, client)
        /\ client # NoClient => client.endpoint = conn.endpoint
        /\ id = LocalDev => /\ ~serving /\ serving'
                            /\ conn.mode = "local_kubeconfig"
        /\ id # LocalDev => serving

ReportStep(id) == \E status \in Status : UpdateStatus(id, status)

LEMMA NextCases ==
    ASSUME TypeOK, Next
    PROVE  /\ serving' \in BOOLEAN
           /\ serving => serving'
           /\ \/ \E id \in ClusterID :
                    \/ RegisterStep(id)
                    \/ serving /\ ReportStep(id)
                    \/ serving /\ DeleteCluster(id)
                    \/ serving /\ SetActiveCluster(id)
              \/ ~serving /\ UNCHANGED <<clusters, clientsets, activeID>>
<1>1. CASE AutoDiscoverLocalContexts
  <2>1. /\ ~serving /\ serving'
        /\ serving' \in BOOLEAN
    BY <1>1 DEF AutoDiscoverLocalContexts
  <2>2. CASE UNCHANGED <<clusters, clientsets, activeID>>
    BY <2>1, <2>2
  <2>3. ASSUME NEW status \in {"CONNECTED", "DEGRADED"},
               RegisterCluster(LocalDev,
                 [mode |-> "local_kubeconfig", status |-> status,
                  endpoint |-> LocalEndpoint],
                 [kind |-> "rest", endpoint |-> LocalEndpoint])
        PROVE  RegisterStep(LocalDev)
    <3> DEFINE conn == [mode |-> "local_kubeconfig", status |-> status,
                        endpoint |-> LocalEndpoint]
               client == [kind |-> "rest", endpoint |-> LocalEndpoint]
    <3>1. conn \in Connection /\ client \in Client
      BY ClusterAssumption DEF Connection, Client, Mode, Status
    <3>2. client.endpoint = conn.endpoint /\ conn.mode = "local_kubeconfig"
      OBVIOUS
    <3>3. RegisterCluster(LocalDev, conn, client)
      BY <2>3
    <3> HIDE DEF conn, client
    <3>4. QED
      BY <2>1, <3>1, <3>2, <3>3 DEF RegisterStep
  <2>4. QED
    BY <1>1, <2>1, <2>2, <2>3, ClusterAssumption DEF AutoDiscoverLocalContexts
<1>2. ASSUME NEW id \in ClusterID, NEW mode \in Posted, NEW e \in Endpoint,
             PostCluster(id, mode, e)
      PROVE  serving /\ UNCHANGED serving /\ RegisterStep(id)
  <2>1. serving /\ UNCHANGED serving /\ id # LocalDev
    BY <1>2 DEF PostCluster
  <2>m. mode \in Mode
    BY ClusterAssumption
  <2>2. ASSUME NEW conn \in Connection, NEW client \in Client \cup {NoClient},
               client # NoClient => client.endpoint = conn.endpoint,
               RegisterCluster(id, conn, client)
        PROVE  RegisterStep(id)
    BY <2>1, <2>2 DEF RegisterStep
  <2>3. ASSUME NEW built \in BOOLEAN,
               RegisterCluster(id,
                    [mode |-> mode, endpoint |-> e,
                     status |-> IF built THEN "CONNECTED" ELSE "AUTH_ERROR"],
                    [kind |-> IF built THEN "rest" ELSE "nil", endpoint |-> e])
        PROVE  RegisterStep(id)
    <3> DEFINE conn == [mode |-> mode, endpoint |-> e,
                        status |-> IF built THEN "CONNECTED" ELSE "AUTH_ERROR"]
               client == [kind |-> IF built THEN "rest" ELSE "nil", endpoint |-> e]
    <3>1. conn \in Connection /\ client \in Client
      BY <2>m DEF Connection, Client, Status
    <3>2. client.endpoint = conn.endpoint
      OBVIOUS
    <3>3. RegisterCluster(id, conn, client)
      BY <2>3
    <3> HIDE DEF conn, client
    <3>4. QED
      BY <2>2, <3>1, <3>2, <3>3
  <2>4. ASSUME RegisterCluster(id,
                    [mode |-> mode, status |-> "DISCONNECTED", endpoint |-> e],
                    NoClient)
        PROVE  RegisterStep(id)
    <3>1. [mode |-> mode, status |-> "DISCONNECTED", endpoint |-> e] \in Connection
      BY <2>m DEF Connection, Status
    <3>2. QED
      BY <2>2, <2>4, <3>1
  <2>5. QED
    BY <1>2, <2>1, <2>3, <2>4 DEF PostCluster
<1>3. ASSUME NEW id \in ClusterID, NEW status \in Reported,
             AgentReport(id, status)
      PROVE  serving /\ UNCHANGED serving /\ ReportStep(id)
  BY <1>3, ClusterAssumption DEF AgentReport, ReportStep, Status
<1>4. QED
  BY <1>1, <1>2, <1>3 DEF Next, DeleteClusterRoute, SwitchCluster, TypeOK

-----------------------------------------------------------------------------
(* TypeOK and SelectionValid are proved together.  The conjunct BootEmpty  *)
(* is what LocalDevStays needs: before the router serves nothing is        *)
(* registered, so discovery never replaces a client of local-dev.          *)
BootEmpty == ~serving => Registered = {}

(* local-dev, once there, is the connection that discovery registered.     *)
LocalKind == LocalDev \in Registered => clusters[LocalDev].mode = "local_kubeconfig"

ClusterInv ==
    /\ TypeOK
    /\ BootEmpty
    /\ LocalKind
    /\ SelectionValid

LEMMA ClusterInit == Init => ClusterInv
  BY ClusterAssumption
     DEF Init, ClusterInv, TypeOK, BootEmpty, LocalKind, SelectionValid,
         Registered

LEMMA ClusterStep == ClusterInv /\ [Next]_cmVars => ClusterInv'
<1> SUFFICES ASSUME ClusterInv, [Next]_cmVars PROVE ClusterInv'
  OBVIOUS
<1> USE DEF ClusterInv
<1>1. CASE UNCHANGED cmVars
  BY <1>1 DEF cmVars, TypeOK, BootEmpty, LocalKind, SelectionValid, Registered
<1>2. CASE Next
  <2>0. /\ serving' \in BOOLEAN
        /\ serving => serving'
    BY <1>2, NextCases
  <2>1. ASSUME NEW id \in ClusterID, RegisterStep(id)
        PROVE  ClusterInv'
    <3>1. PICK conn \in Connection, client \in Client \cup {NoClient} :
              /\ RegisterCluster(id, conn, client)
              /\ client # NoClient => client.endpoint = conn.endpoint
              /\ id = LocalDev => /\ ~serving /\ serving'
                                  /\ conn.mode = "local_kubeconfig"
              /\ id # LocalDev => serving
      BY <2>1 DEF RegisterStep
    <3>2. serving'
      BY <2>0, <3>1
    <3>3. /\ clusters' \in [ClusterID -> Connection \cup {NotRegistered}]
          /\ clientsets' \in [ClusterID -> Client \cup {NoClient}]
          /\ activeID' \in ClusterID \cup {NoID}
          /\ Registered' = Registered \cup {id}
      BY <3>1, RegisterEffect
    <3>4. /\ clusters' = [clusters EXCEPT ![id] = conn]
          /\ clientsets' = IF client = NoClient THEN clientsets
                           ELSE [clientsets EXCEPT ![id] = client]
          /\ activeID' = IF activeID = NoID THEN id ELSE activeID
      BY <3>1 DEF RegisterCluster
    <3>5. TypeOK' /\ BootEmpty'
      BY <2>0, <3>2, <3>3 DEF TypeOK, BootEmpty
    <3>6. LocalKind'
      BY <3>1, <3>3, <3>4 DEF LocalKind, TypeOK
    <3>7. SelectionValid'
      BY <3>3, <3>4, ClusterAssumption DEF SelectionValid, TypeOK
    <3>8. QED
      BY <3>5, <3>6, <3>7
  <2>2. ASSUME NEW id \in ClusterID, serving, ReportStep(id)
        PROVE  ClusterInv'
    <3>1. PICK status \in Status : UpdateStatus(id, status)
      BY <2>2 DEF ReportStep
    <3>2. /\ clusters' \in [ClusterID -> Connection \cup {NotRegistered}]
          /\ Registered' = Registered
          /\ \A i \in Registered : /\ clusters'[i].mode = clusters[i].mode
                                   /\ clusters'[i].endpoint = clusters[i].endpoint
      BY <3>1, UpdateEffect
    <3>3. UNCHANGED <<clientsets, activeID>>
      BY <3>1 DEF UpdateStatus
    <3>4. QED
      BY <2>0, <2>2, <3>2, <3>3
         DEF TypeOK, BootEmpty, LocalKind, SelectionValid
  <2>3. ASSUME NEW id \in ClusterID, serving, DeleteCluster(id)
        PROVE  ClusterInv'
    <3>1. /\ clusters' \in [ClusterID -> Connection \cup {NotRegistered}]
          /\ clientsets' \in [ClusterID -> Client \cup {NoClient}]
          /\ activeID' \in ClusterID \cup {NoID}
          /\ Registered' = Registered \ {id}
      BY <2>3, DeleteEffect
    <3>2. /\ clusters' = [clusters EXCEPT ![id] = NotRegistered]
          /\ clientsets' = [clientsets EXCEPT ![id] = NoClient]
      BY <2>3 DEF DeleteCluster
    <3>3. TypeOK' /\ BootEmpty'
      BY <2>0, <2>3, <3>1 DEF TypeOK, BootEmpty
    <3>4. LocalKind'
      BY <3>1, <3>2 DEF LocalKind, TypeOK
    <3>5. SelectionValid'
      <4>1. id \in Registered /\ NoID \notin Registered
        BY <2>3, ClusterAssumption DEF DeleteCluster, Deletable, Registered
      <4>2. CASE activeID # id /\ UNCHANGED activeID
        BY <3>1, <4>1, <4>2 DEF SelectionValid
      <4>3. CASE activeID = id /\ Registered \ {id} = {} /\ activeID' = NoID
        BY <3>1, <4>3 DEF SelectionValid
      <4>4. CASE activeID = id /\ activeID' \in Registered \ {id}
        BY <3>1, <4>1, <4>4 DEF SelectionValid
      <4>5. QED
        BY <2>3, <4>2, <4>3, <4>4 DEF DeleteCluster
    <3>6. QED
      BY <3>3, <3>4, <3>5
  <2>4. ASSUME NEW id \in ClusterID, serving, SetActiveCluster(id)
        PROVE  ClusterInv'
    BY <2>0, <2>4, ClusterAssumption
       DEF SetActiveCluster, TypeOK, BootEmpty, LocalKind, SelectionValid,
           Registered
  <2>5. CASE UNCHANGED <<clusters, clientsets, activeID>>
    BY <2>0, <2>5
       DEF TypeOK, BootEmpty, LocalKind, SelectionValid, Registered
  <2>6. QED
    BY <1>2, <2>1, <2>2, <2>3, <2>4, <2>5, NextCases
<1>3. QED
  BY <1>1, <1>2

(* The directory is type correct in every reachable state.                 *)
THEOREM TypeCorrect == Spec => []TypeOK
<1>1. ClusterInv => TypeOK
  BY DEF ClusterInv
<1>2. QED
  BY <1>1, ClusterInit, ClusterStep, PTL DEF Spec

(* The active selection is always a registered cluster, and is empty only  *)
(* when none is registered.                                                *)
THEOREM SelectionAlwaysValid == Spec => []SelectionValid
<1>1. ClusterInv => SelectionValid
  BY DEF ClusterInv
<1>2. QED
  BY <1>1, ClusterInit, ClusterStep, PTL DEF Spec

(* The discovered local-dev connection and its client outlive every step.  *)
THEOREM LocalDevOutlivesAll == Spec => LocalDevStays
<1> DEFINE Stays == (LocalDev \in Registered) =>
                       /\ LocalDev \in Registered'
                       /\ clusters'[LocalDev].mode = "local_kubeconfig"
                       /\ clientsets'[LocalDev] = clientsets[LocalDev]
<1>1. ASSUME ClusterInv, ClusterInv', [Next]_cmVars
      PROVE  [Stays]_cmVars
  <2>0. USE <1>1 DEF ClusterInv
  <2> SUFFICES ASSUME Next, LocalDev \in Registered
               PROVE  /\ LocalDev \in Registered'
                      /\ clientsets'[LocalDev] = clientsets[LocalDev]
    BY DEF LocalKind
  <2>1. serving
    BY DEF BootEmpty
  <2>2. ASSUME NEW id \in ClusterID, RegisterStep(id)
        PROVE  /\ LocalDev \in Registered'
               /\ clientsets'[LocalDev] = clientsets[LocalDev]
    <3>1. PICK conn \in Connection, client \in Client \cup {NoClient} :
              RegisterCluster(id, conn, client) /\ id # LocalDev
      BY <2>1, <2>2 DEF RegisterStep
    <3>2. LocalDev \in Registered'
      BY <3>1, RegisterEffect
    <3>3. QED
      BY <3>1, <3>2 DEF RegisterCluster, TypeOK
  <2>3. ASSUME NEW id \in ClusterID, ReportStep(id)
        PROVE  /\ LocalDev \in Registered'
               /\ clientsets'[LocalDev] = clientsets[LocalDev]
    BY <2>3, UpdateEffect DEF ReportStep, UpdateStatus
  <2>4. ASSUME NEW id \in ClusterID, DeleteCluster(id)
        PROVE  /\ LocalDev \in Registered'
               /\ clientsets'[LocalDev] = clientsets[LocalDev]
    <3>1. id # LocalDev
      BY <2>4 DEF DeleteCluster, Deletable, LocalKind
    <3>2. LocalDev \in Registered'
      BY <2>4, <3>1, DeleteEffect
    <3>3. QED
      BY <2>4, <3>1, <3>2 DEF DeleteCluster, TypeOK
  <2>5. ASSUME NEW id \in ClusterID, SetActiveCluster(id)
        PROVE  /\ LocalDev \in Registered'
               /\ clientsets'[LocalDev] = clientsets[LocalDev]
    BY <2>5 DEF SetActiveCluster, Registered
  <2>6. QED
    BY <2>1, <2>2, <2>3, <2>4, <2>5, NextCases
<1>2. QED
  BY <1>1, ClusterInit, ClusterStep, PTL DEF Spec, LocalDevStays

-----------------------------------------------------------------------------
(* The directory implements ClusterSelection: registrations are joins,     *)
(* switches are choices, deletions are leaves, and reports are invisible.  *)
THEOREM ImplementsSelection == Spec => SelectionSpec
<1>1. Init => Selection!Init
  BY DEF Init, Selection!Init, Registered
<1>2. ASSUME ClusterInv, [Next]_cmVars
      PROVE  [Selection!Next]_Selection!selectionVars
  <2> USE <1>2 DEF ClusterInv
  <2>1. CASE UNCHANGED cmVars
    BY <2>1 DEF cmVars, Selection!selectionVars, Registered
  <2>2. CASE Next
    <3>1. ASSUME NEW id \in ClusterID, RegisterStep(id)
          PROVE  Selection!Join(id)
      <4>1. PICK conn \in Connection, client \in Client \cup {NoClient} :
                RegisterCluster(id, conn, client)
        BY <3>1 DEF RegisterStep
      <4>2. Registered' = Registered \cup {id}
        BY <4>1, RegisterEffect
      <4>3. QED
        BY <4>1, <4>2 DEF RegisterCluster, Selection!Join
    <3>2. ASSUME NEW id \in ClusterID, ReportStep(id)
          PROVE  UNCHANGED Selection!selectionVars
      BY <3>2, UpdateEffect
         DEF ReportStep, UpdateStatus, Selection!selectionVars
    <3>3. ASSUME NEW id \in ClusterID, DeleteCluster(id)
          PROVE  Selection!Leave(id)
      BY <3>3, DeleteEffect DEF DeleteCluster, Deletable, Selection!Leave
    <3>4. ASSUME NEW id \in ClusterID, SetActiveCluster(id)
          PROVE  Selection!Choose(id)
      BY <3>4 DEF SetActiveCluster, Registered, Selection!Choose
    <3>5. CASE UNCHANGED <<clusters, clientsets, activeID>>
      BY <3>5 DEF Selection!selectionVars, Registered
    <3>6. QED
      BY <2>2, <3>1, <3>2, <3>3, <3>4, <3>5, NextCases DEF Selection!Next
  <2>3. QED
    BY <2>1, <2>2
<1>3. QED
  BY <1>1, <1>2, ClusterInit, ClusterStep, PTL DEF Spec, SelectionSpec, Selection!Spec

-----------------------------------------------------------------------------
(* The requests.                                                           *)

(* Requests only read the directory, so every step is a directory step or  *)
(* leaves it alone, and what is proved of ClusterManager holds here.       *)
LEMMA DirectorySteps == [RequestsNext]_vars => [Next]_cmVars
  BY DEF RequestsNext, vars, DirectoryStep, Resolve, PickClient, Operate, Answer

(* The directory inside the requests is the directory of ClusterManager.   *)
THEOREM ImplementsDirectory == RequestsSpec => Spec
<1>1. RequestsInit => Init
  BY DEF RequestsInit
<1>2. QED
  BY <1>1, DirectorySteps, PTL DEF RequestsSpec, Spec

-----------------------------------------------------------------------------
(* The inductive invariant.  The history of an id holds the server it is   *)
(* registered with; clients are of such histories; a request that has yet  *)
(* to look for its client remembers what its id is now; and the client it  *)
(* found is one it remembers, or the local one where it remembers none.    *)
Noted == \A id \in Registered : clusters[id].endpoint \in since[id]

LooksThere ==
    \A r \in Request :
        request[r].phase = "resolved" =>
            /\ StandsFor(request[r].name) \subseteq led[r]
            /\ Bare(request[r].name) => bare[r]

FoundThere ==
    \A r \in Request :
        request[r].phase \in {"picked", "deleting"} =>
            /\ request[r].client # NoClient
            /\ \/ request[r].client.endpoint \in led[r]
               \/ request[r].client = LocalClient /\ bare[r]

RequestsInv ==
    /\ ClusterInv
    /\ RequestsTypeOK
    /\ Noted
    /\ ClientOfItsCluster
    /\ LooksThere
    /\ FoundThere

LEMMA NameKey ==
    ASSUME TypeOK, since \in [ClusterID -> SUBSET Endpoint], NEW name \in Name
    PROVE  /\ Key(name) \in ClusterID \cup {NoID}
           /\ StandsFor(name) \in SUBSET Endpoint
           /\ Bare(name) \in BOOLEAN
<1>1. Key(name) \in ClusterID \cup {NoID}
  BY DEF Key, Name, TypeOK
<1>2. QED
  BY <1>1 DEF StandsFor, Bare, Registered

(* The client that GetClient finds talks to a server that the name stands  *)
(* for, and it finds none only for a name without a client of its own.     *)
LEMMA ClientLeads ==
    ASSUME ClusterInv, ClientOfItsCluster, NEW name \in Name
    PROVE  /\ GetClient(name) \in Client \cup {NoClient}
           /\ GetClient(name) # NoClient => GetClient(name).endpoint \in StandsFor(name)
           /\ GetClient(name) = NoClient => Bare(name)
<1> DEFINE key == Key(name)
<1>1. TypeOK
  BY DEF ClusterInv
<1>2. CASE key \in ClusterID
  <2>1. GetClient(name) = clientsets[key]
    BY <1>2 DEF GetClient
  <2>2. clientsets[key] \in Client \cup {NoClient}
    BY <1>1, <1>2 DEF TypeOK
  <2>3. clientsets[key] # NoClient => /\ key \in Registered
                                      /\ clientsets[key].endpoint \in since[key]
    BY <1>2 DEF ClientOfItsCluster
  <2>4. QED
    BY <2>1, <2>2, <2>3 DEF StandsFor, Bare
<1>3. CASE key \notin ClusterID
  <2>1. GetClient(name) = NoClient /\ Bare(name)
    BY <1>3 DEF GetClient, Bare
  <2>2. QED
    BY <2>1
<1>4. QED
  BY <1>2, <1>3

LEMMA LocalClientType == LocalClient \in Client /\ LocalClient # NoClient
  BY ClusterAssumption DEF LocalClient, Client

(* What a step that leaves the directory and its history alone keeps.      *)
LEMMA DirectoryKept ==
    ASSUME UNCHANGED <<cmVars, since>>, Noted, ClientOfItsCluster
    PROVE  /\ Noted' /\ ClientOfItsCluster'
           /\ \A name \in Name : /\ StandsFor(name)' = StandsFor(name)
                                 /\ Bare(name)' = Bare(name)
  BY DEF cmVars, Noted, ClientOfItsCluster, StandsFor, Bare, Key, Registered

LEMMA RequestsInitInv == RequestsInit => RequestsInv
<1> SUFFICES ASSUME RequestsInit PROVE RequestsInv
  OBVIOUS
<1>1. ClusterInv /\ Registered = {}
  BY ClusterInit DEF RequestsInit, Init, Registered
<1>2. \A r \in Request : request[r].phase = "idle"
  BY DEF RequestsInit, Free
<1>3. RequestsTypeOK
  BY <1>1 DEF RequestsInit, RequestsTypeOK, ClusterInv, Free, Phase, Name
<1>4. Noted /\ ClientOfItsCluster
  BY <1>1 DEF Noted, ClientOfItsCluster, RequestsInit, Init
<1>5. QED
  BY <1>1, <1>2, <1>3, <1>4 DEF RequestsInv, LooksThere, FoundThere

(* The directory's own step: a client that is there after it was there     *)
(* before or comes with the registration of this step.                     *)
LEMMA HistoryStep ==
    ASSUME RequestsInv, ClusterInv', DirectoryStep
    PROVE  /\ since' \in [ClusterID -> SUBSET Endpoint]
           /\ Noted' /\ ClientOfItsCluster'
<1>1. /\ Next
      /\ since' = [id \in ClusterID |->
                     IF id \in Registered'
                     THEN since[id] \cup {clusters'[id].endpoint} ELSE {}]
  BY DEF DirectoryStep, Observe
<1>2. /\ TypeOK /\ TypeOK' /\ BootEmpty
      /\ since \in [ClusterID -> SUBSET Endpoint]
      /\ ClientOfItsCluster
  BY DEF RequestsInv, ClusterInv, RequestsTypeOK
<1>3. \A id \in Registered' : clusters'[id].endpoint \in Endpoint
  BY <1>2 DEF TypeOK, Registered, Connection
<1>4. since' \in [ClusterID -> SUBSET Endpoint]
  BY <1>1, <1>2, <1>3
<1>5. Noted'
  BY <1>1 DEF Noted, Registered
<1>6. ASSUME NEW i \in ClusterID, clientsets'[i] # NoClient
      PROVE  /\ i \in Registered'
             /\ \/ clientsets'[i] = clientsets[i]
                \/ clientsets'[i].endpoint = clusters'[i].endpoint
  <2>1. ASSUME NEW id \in ClusterID, RegisterStep(id)
        PROVE  /\ i \in Registered'
               /\ \/ clientsets'[i] = clientsets[i]
                  \/ clientsets'[i].endpoint = clusters'[i].endpoint
    <3>1. PICK conn \in Connection, client \in Client \cup {NoClient} :
              /\ RegisterCluster(id, conn, client)
              /\ client # NoClient => client.endpoint = conn.endpoint
      BY <2>1 DEF RegisterStep
    <3>2. Registered' = Registered \cup {id}
      BY <1>2, <3>1, RegisterEffect
    <3>3. CASE i = id
      BY <1>2, <3>1, <3>2, <3>3 DEF RegisterCluster, TypeOK
    <3>4. CASE i # id
      <4>1. clientsets'[i] = clientsets[i]
        BY <1>2, <3>1, <3>4 DEF RegisterCluster, TypeOK
      <4>2. QED
        BY <1>2, <1>6, <3>2, <4>1 DEF ClientOfItsCluster
    <3>5. QED
      BY <3>3, <3>4
  <2>2. ASSUME NEW id \in ClusterID, ReportStep(id)
        PROVE  i \in Registered' /\ clientsets'[i] = clientsets[i]
    <3>1. PICK status \in Status : UpdateStatus(id, status)
      BY <2>2 DEF ReportStep
    <3>2. Registered' = Registered /\ clientsets' = clientsets
      BY <1>2, <3>1, UpdateEffect DEF UpdateStatus
    <3>3. QED
      BY <1>2, <1>6, <3>2 DEF ClientOfItsCluster
  <2>3. ASSUME NEW id \in ClusterID, DeleteCluster(id)
        PROVE  i \in Registered' /\ clientsets'[i] = clientsets[i]
    <3>1. Registered' = Registered \ {id}
      BY <1>2, <2>3, DeleteEffect
    <3>2. i # id /\ clientsets'[i] = clientsets[i]
      BY <1>2, <1>6, <2>3 DEF DeleteCluster, TypeOK
    <3>3. QED
      BY <1>2, <1>6, <3>1, <3>2 DEF ClientOfItsCluster
  <2>4. ASSUME NEW id \in ClusterID, SetActiveCluster(id)
        PROVE  i \in Registered' /\ clientsets'[i] = clientsets[i]
    BY <1>2, <1>6, <2>4 DEF SetActiveCluster, ClientOfItsCluster, Registered
  <2>5. CASE UNCHANGED <<clusters, clientsets, activeID>>
    BY <1>2, <1>6, <2>5 DEF ClientOfItsCluster, Registered
  <2>6. QED
    BY <1>1, <1>2, <2>1, <2>2, <2>3, <2>4, <2>5, NextCases
<1>7. ClientOfItsCluster'
  <2> SUFFICES ASSUME NEW i \in ClusterID, clientsets'[i] # NoClient
               PROVE  /\ i \in Registered'
                      /\ clientsets'[i].endpoint \in since'[i]
    BY DEF ClientOfItsCluster
  <2>1. i \in Registered' /\ since'[i] = since[i] \cup {clusters'[i].endpoint}
    BY <1>1, <1>6
  <2>2. CASE clientsets'[i] = clientsets[i]
    BY <1>2, <2>1, <2>2 DEF ClientOfItsCluster
  <2>3. CASE clientsets'[i].endpoint = clusters'[i].endpoint
    BY <2>1, <2>3
  <2>4. QED
    BY <1>6, <2>2, <2>3
<1>8. QED
  BY <1>4, <1>5, <1>7

LEMMA RequestsStepInv == RequestsInv /\ [RequestsNext]_vars => RequestsInv'
<1> SUFFICES ASSUME RequestsInv, [RequestsNext]_vars PROVE RequestsInv'
  OBVIOUS
<1>0. ClusterInv /\ ClusterInv' /\ TypeOK /\ TypeOK'
  BY DirectorySteps, ClusterStep DEF RequestsInv, ClusterInv
<1>t. /\ request \in [Request -> [phase : Phase, name : Name,
                                  client : Client \cup {NoClient}]]
      /\ since \in [ClusterID -> SUBSET Endpoint]
      /\ led \in [Request -> SUBSET Endpoint]
      /\ bare \in [Request -> BOOLEAN]
      /\ Noted /\ ClientOfItsCluster
  BY DEF RequestsInv, RequestsTypeOK
<1>1. CASE UNCHANGED vars
  <2>1. UNCHANGED <<cmVars, request, since, led, bare>>
    BY <1>1 DEF vars, history
  <2>2. RequestsTypeOK' /\ FoundThere'
    BY <1>0, <1>t, <2>1 DEF RequestsInv, RequestsTypeOK, FoundThere
  <2>3. LooksThere' /\ Noted' /\ ClientOfItsCluster'
    BY <1>t, <2>1, DirectoryKept DEF RequestsInv, LooksThere
  <2>4. QED
    BY <1>0, <2>2, <2>3 DEF RequestsInv
<1>2. CASE DirectoryStep
  <2>1. /\ request' = request
        /\ led' = [r \in Request |->
                     IF request[r].phase = "resolved"
                     THEN led[r] \cup StandsFor(request[r].name)' ELSE led[r]]
        /\ bare' = [r \in Request |->
                      bare[r] \/ /\ request[r].phase = "resolved"
                                 /\ Bare(request[r].name)']
    BY <1>2 DEF DirectoryStep, Observe
  <2>2. /\ since' \in [ClusterID -> SUBSET Endpoint]
        /\ Noted' /\ ClientOfItsCluster'
    BY <1>0, <1>2, HistoryStep
  <2>3. ASSUME NEW r \in Request
        PROVE  StandsFor(request[r].name)' \in SUBSET Endpoint
    <3>1. request[r].name \in Name /\ request'[r].name = request[r].name
      BY <1>t, <2>1
    <3>2. ASSUME NEW name \in Name PROVE StandsFor(name)' \in SUBSET Endpoint
      <4>1. Key(name)' \in ClusterID \cup {NoID}
        BY <1>0 DEF Key, Name, TypeOK
      <4>2. QED
        BY <2>2, <4>1 DEF StandsFor, Registered
    <3>3. QED
      BY <2>1, <3>1, <3>2
  <2>4. RequestsTypeOK'
    BY <1>0, <1>t, <2>1, <2>2, <2>3 DEF RequestsTypeOK
  <2>5. LooksThere'
    BY <2>1 DEF LooksThere
  <2>6. FoundThere'
    BY <1>t, <2>1 DEF RequestsInv, FoundThere
  <2>7. QED
    BY <1>0, <2>2, <2>4, <2>5, <2>6 DEF RequestsInv
<1>3. ASSUME NEW r \in Request, NEW name \in Name, Resolve(r, name)
      PROVE  RequestsInv'
  <2> DEFINE id == IF name = NoID THEN activeID ELSE name
  <2>1. /\ request' = [request EXCEPT ![r].phase = "resolved", ![r].name = id]
        /\ led' = [led EXCEPT ![r] = StandsFor(id)]
        /\ bare' = [bare EXCEPT ![r] = Bare(id)]
        /\ UNCHANGED <<cmVars, since>>
    BY <1>3 DEF Resolve
  <2>2. id \in Name
    BY <1>0 DEF TypeOK, Name
  <2>3. StandsFor(id) \in SUBSET Endpoint /\ Bare(id) \in BOOLEAN
    BY <1>0, <1>t, <2>2, NameKey
  <2> HIDE DEF id
  <2>4. RequestsTypeOK'
    BY <1>0, <1>t, <2>1, <2>2, <2>3 DEF RequestsTypeOK, Phase
  <2>5. /\ Noted' /\ ClientOfItsCluster'
        /\ \A n \in Name : StandsFor(n)' = StandsFor(n) /\ Bare(n)' = Bare(n)
    BY <1>t, <2>1, DirectoryKept
  <2>6. LooksThere'
    <3> SUFFICES ASSUME NEW q \in Request, request'[q].phase = "resolved"
                 PROVE  /\ StandsFor(request[q].name)' \subseteq led'[q]
                        /\ Bare(request[q].name)' => bare'[q]
      BY DEF LooksThere
    <3>1. CASE q = r
      BY <1>t, <2>1, <2>2, <2>5, <3>1
    <3>2. CASE q # r
      <4>1. /\ request'[q] = request[q] /\ led'[q] = led[q] /\ bare'[q] = bare[q]
            /\ request[q].name \in Name
        BY <1>t, <2>1, <3>2
      <4>2. /\ StandsFor(request[q].name) \subseteq led[q]
            /\ Bare(request[q].name) => bare[q]
        BY <4>1 DEF RequestsInv, LooksThere
      <4>3. QED
        BY <2>5, <4>1, <4>2
    <3>3. QED
      BY <3>1, <3>2
  <2>7. FoundThere'
    BY <1>t, <2>1 DEF RequestsInv, FoundThere
  <2>8. QED
    BY <1>0, <2>4, <2>5, <2>6, <2>7 DEF RequestsInv
<1>4. ASSUME NEW r \in Request, PickClient(r)
      PROVE  RequestsInv'
  <2> DEFINE found  == GetClient(request[r].name)
             picked == IF found = NoClient THEN LocalClient ELSE found
  <2>1. /\ request[r].phase = "resolved"
        /\ request' = [request EXCEPT ![r] = [phase |-> "picked", name |-> NoID,
                                              client |-> picked]]
        /\ UNCHANGED <<cmVars, since, led, bare>>
    BY <1>4 DEF PickClient, history
  <2>2. request[r].name \in Name
    BY <1>t
  <2>3. /\ picked \in Client
        /\ picked # NoClient
        /\ \/ picked.endpoint \in StandsFor(request[r].name)
           \/ picked = LocalClient /\ Bare(request[r].name)
    BY <1>0, <1>t, <2>2, ClientLeads, LocalClientType
  <2>4. /\ StandsFor(request[r].name) \subseteq led[r]
        /\ Bare(request[r].name) => bare[r]
    BY <2>1 DEF RequestsInv, LooksThere
  <2> HIDE DEF picked
  <2>5. RequestsTypeOK'
    BY <1>0, <1>t, <2>1, <2>3 DEF RequestsTypeOK, Phase, Name
  <2>6. LooksThere' /\ Noted' /\ ClientOfItsCluster'
    BY <1>t, <2>1, DirectoryKept DEF RequestsInv, LooksThere
  <2>7. FoundThere'
    BY <1>t, <2>1, <2>3, <2>4 DEF RequestsInv, FoundThere
  <2>8. QED
    BY <1>0, <2>5, <2>6, <2>7 DEF RequestsInv
<1>5. ASSUME NEW r \in Request, Operate(r)
      PROVE  RequestsInv'
  <2>1. /\ request[r].phase = "picked"
        /\ request' = [request EXCEPT ![r].phase = "deleting"]
        /\ UNCHANGED <<cmVars, since, led, bare>>
    BY <1>5 DEF Operate, history
  <2>2. RequestsTypeOK'
    BY <1>0, <1>t, <2>1 DEF RequestsTypeOK, Phase
  <2>3. LooksThere' /\ Noted' /\ ClientOfItsCluster'
    BY <1>t, <2>1, DirectoryKept DEF RequestsInv, LooksThere
  <2>4. FoundThere'
    BY <1>t, <2>1 DEF RequestsInv, FoundThere
  <2>5. QED
    BY <1>0, <2>2, <2>3, <2>4 DEF RequestsInv
<1>6. ASSUME NEW r \in Request, Answer(r)
      PROVE  RequestsInv'
  <2>1. /\ request' = [request EXCEPT ![r] = Free]
        /\ led' = [led EXCEPT ![r] = {}]
        /\ bare' = [bare EXCEPT ![r] = FALSE]
        /\ UNCHANGED <<cmVars, since>>
    BY <1>6 DEF Answer
  <2>2. Free \in [phase : Phase, name : Name, client : Client \cup {NoClient}]
    BY DEF Free, Phase, Name
  <2>3. RequestsTypeOK'
    BY <1>0, <1>t, <2>1, <2>2 DEF RequestsTypeOK
  <2>4. LooksThere' /\ Noted' /\ ClientOfItsCluster'
    BY <1>t, <2>1, DirectoryKept DEF RequestsInv, LooksThere, Free
  <2>5. FoundThere'
    BY <1>t, <2>1 DEF RequestsInv, FoundThere, Free
  <2>6. QED
    BY <1>0, <2>3, <2>4, <2>5 DEF RequestsInv
<1>7. QED
  BY <1>1, <1>2, <1>3, <1>4, <1>5, <1>6 DEF RequestsNext

(* Directory and requests are type correct in every reachable state.       *)
THEOREM RequestsTypeCorrect == RequestsSpec => []RequestsTypeOK
<1>1. RequestsInv => RequestsTypeOK
  BY DEF RequestsInv
<1>2. QED
  BY <1>1, RequestsInitInv, RequestsStepInv, PTL DEF RequestsSpec

(* A client is always of a registered cluster and talks to a server that   *)
(* the id was registered with since it was last free, whichever ids        *)
(* collide.                                                                *)
THEOREM ClientsMatch == RequestsSpec => []ClientOfItsCluster
<1>1. RequestsInv => ClientOfItsCluster
  BY DEF RequestsInv
<1>2. QED
  BY <1>1, RequestsInitInv, RequestsStepInv, PTL DEF RequestsSpec

(* No API server is asked to delete a pod for a request whose id did not   *)
(* stand for it, the local server for ids without a client excepted,       *)
(* however many requests and changes of the directory overlap.             *)
THEOREM OperationsStayWhereLed == RequestsSpec => []OperatesWhereLed
<1>1. RequestsInv => OperatesWhereLed
  BY DEF RequestsInv, FoundThere, OperatesWhereLed
<1>2. QED
  BY <1>1, RequestsInitInv, RequestsStepInv, PTL DEF RequestsSpec

=============================================================================
