-------------------------- MODULE ClusterRequests --------------------------
(***************************************************************************)
(* The two workload operations of internal/server/server.go, POST          *)
(* /pod/restart and DELETE /pod, over the cluster directory.  A request    *)
(* names a cluster, or none, and reads the directory in several critical   *)
(* sections (getClientForRequest) before it deletes a pod through the      *)
(* client it ended up with; connections are added, switched and deleted    *)
(* between those sections.  A restart is a deletion: the controller of the *)
(* pod creates it again.                                                   *)
(*                                                                         *)
(* Which API server is asked to delete the pod matters, not whether it has *)
(* the pod or fails: a failed call is answered and changes nothing here.   *)
(* The check of CanOperateWorkloads reads the directory once more after    *)
(* PickClient and always passes, since both places that build a connection *)
(* grant it, so it is part of Operate.  A body or query that does not      *)
(* parse is refused before anything is read.                               *)
(***************************************************************************)
EXTENDS ClusterManager

CONSTANTS
    Request,        \* request slots
    Current         \* the names "active" and "current"

ASSUME RequestAssumption == Current \notin ClusterID \cup {NoID}

VARIABLES
    request,        \* request[r]: its phase, the id it works with, its client
    since,          \* history: the API servers that the registrations of each
                    \* id have named since it was last not registered
    led,            \* history: led[r] the servers that the id of the request
                    \* has stood for since it was resolved, and bare[r]
    bare            \* whether it has been without a client of its own

history == <<since, led, bare>>
vars    == <<cmVars, request, history>>

Name  == ClusterID \cup {NoID, Current}
Phase == {"idle", "resolved", "picked", "deleting"}

(* GetClient reads the empty and the two symbolic names as the selection.  *)
Key(name) == IF name \in {NoID, Current} THEN activeID ELSE name

(* The API servers that a name stands for: none unless it is registered,   *)
(* and more than one only if live ids have collided.                       *)
StandsFor(name) == IF Key(name) \in Registered THEN since[Key(name)] ELSE {}

Bare(name) == Key(name) \in ClusterID => clientsets[Key(name)] = NoClient

LocalClient == [kind |-> "rest", endpoint |-> LocalEndpoint]

Free == [phase |-> "idle", name |-> NoID, client |-> NoClient]

RequestsInit ==
    /\ Init
    /\ request = [r \in Request |-> Free]
    /\ since = [id \in ClusterID |-> {}]
    /\ led = [r \in Request |-> {}]
    /\ bare = [r \in Request |-> FALSE]

-----------------------------------------------------------------------------

(* What a step of the directory adds to the histories: to that of an id,   *)
(* the server it is registered with now, and to those of the requests that *)
(* have yet to look for their client, what their id is then.               *)
Observe ==
    /\ since' = [id \in ClusterID |->
                   IF id \in Registered'
                   THEN since[id] \cup {clusters'[id].endpoint} ELSE {}]
    /\ led' = [r \in Request |->
                 IF request[r].phase = "resolved"
                 THEN led[r] \cup StandsFor(request[r].name)' ELSE led[r]]
    /\ bare' = [r \in Request |->
                  bare[r] \/ /\ request[r].phase = "resolved"
                             /\ Bare(request[r].name)']

DirectoryStep == Next /\ UNCHANGED request /\ Observe

(* The request arrives.  Without a cluster parameter it takes the id that  *)
(* is selected now, which may be empty.                                    *)
Resolve(r, name) ==
    LET id == IF name = NoID THEN activeID ELSE name
    IN  /\ serving
        /\ request[r].phase = "idle"
        /\ request' = [request EXCEPT ![r].phase = "resolved", ![r].name = id]
        /\ led' = [led EXCEPT ![r] = StandsFor(id)]
        /\ bare' = [bare EXCEPT ![r] = Bare(id)]
        /\ UNCHANGED <<cmVars, since>>

(* Mutant: an id without a client of its own gets the selected one's.      *)
GetSelectedClient(name) ==
    LET key == Key(name)
    IN  IF key \in ClusterID /\ clientsets[key] # NoClient THEN clientsets[key]
        ELSE IF activeID \in ClusterID THEN clientsets[activeID] ELSE NoClient

GetClient(name) ==
    LET key == Key(name)
    IN  IF key \in ClusterID THEN clientsets[key] ELSE NoClient

(* GetClient in one critical section.  Its error, for an unknown id as for *)
(* a registered one without a client, selects the local client instead.    *)
(* Nothing that follows depends on the id.                                 *)
PickClient(r) ==
    /\ request[r].phase = "resolved"
    /\ LET found == GetClient(request[r].name)
       IN  request' = [request EXCEPT
                        ![r] = [phase |-> "picked", name |-> NoID,
                                client |-> IF found = NoClient
                                           THEN LocalClient ELSE found]]
    /\ UNCHANGED <<cmVars, history>>

(* DeletePod calls the API server of the client.  A "nil" client panics on *)
(* its first call, which gin recovers into an answer.                      *)
Operate(r) ==
    /\ request[r].phase = "picked"
    /\ request[r].client.kind = "rest"
    /\ request' = [request EXCEPT ![r].phase = "deleting"]
    /\ UNCHANGED <<cmVars, history>>

(* The answer: after the call, whatever came of it, or after the panic.    *)
Answer(r) ==
    /\ \/ request[r].phase = "deleting"
       \/ /\ request[r].phase = "picked"
          /\ request[r].client.kind = "nil"
    /\ request' = [request EXCEPT ![r] = Free]
    /\ led' = [led EXCEPT ![r] = {}]
    /\ bare' = [bare EXCEPT ![r] = FALSE]
    /\ UNCHANGED <<cmVars, since>>

RequestsNext ==
    \/ DirectoryStep
    \/ \E r \in Request :
          \/ \E name \in Name : Resolve(r, name)
          \/ PickClient(r)
          \/ Operate(r)
          \/ Answer(r)

RequestsSpec == RequestsInit /\ [][RequestsNext]_vars

-----------------------------------------------------------------------------
(* Properties.                                                             *)

(* Type correctness of the directory, and the requests.                    *)
RequestsTypeOK ==
    /\ TypeOK
    /\ request \in [Request -> [phase : Phase, name : Name,
                                client : Client \cup {NoClient}]]
    /\ since \in [ClusterID -> SUBSET Endpoint]
    /\ led \in [Request -> SUBSET Endpoint]
    /\ bare \in [Request -> BOOLEAN]

(* A client is kept only for a registered cluster, and talks to an API     *)
(* server that a registration of the id has named since it was last free:  *)
(* deleting a cluster and registering another under its id never hands the *)
(* new one the old client.  Without a collision that is the one server of  *)
(* the present registration.  A collision with a live id does hand it on,  *)
(* unless the new cluster brings a client of its own (RegisterCluster).    *)
ClientOfItsCluster ==
    \A id \in ClusterID :
        clientsets[id] # NoClient =>
            /\ id \in Registered
            /\ clientsets[id].endpoint \in since[id]

(* An API server is asked to delete a pod only for a request whose id      *)
(* stood for that server at some moment between resolving the id and       *)
(* looking for its client.  The client of a deleted registration or of     *)
(* another cluster never gets the deletion, whatever is registered,        *)
(* selected and deleted between the sections.  The one exception is that   *)
(* of the code: the local server gets what is meant for an id that had no  *)
(* client of its own at some such moment, even that of a remote cluster.   *)
OperatesWhereLed ==
    \A r \in Request :
        request[r].phase = "deleting" =>
            \/ request[r].client.endpoint \in led[r]
            \/ request[r].client = LocalClient /\ bare[r]

=============================================================================
