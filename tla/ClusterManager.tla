--------------------------- MODULE ClusterManager ---------------------------
(***************************************************************************)
(* The cluster directory of internal/kubernetes/cluster.go: the registered *)
(* connections, the Kubernetes client of each, and the active selection,   *)
(* all behind one mutex.  Every operation below is one critical section of *)
(* ClusterManager.mu; the HTTP routes of internal/server/server.go and the *)
(* agent handlers call them in any order.  A refused call changes nothing  *)
(* and is therefore no step of its own.                                    *)
(*                                                                         *)
(* Abstracted: names, environments, versions, node counts, latencies and   *)
(* timestamps of a connection; a client is the API server it was built for.*)
(***************************************************************************)
CONSTANTS
    ClusterID,      \* every id a connection may get
    LocalDev,       \* the fixed id "local-dev"
    NoID,           \* the empty string in activeID
    Endpoint,       \* API servers a request may name
    LocalEndpoint,  \* the API server of the local kubeconfig
    NotRegistered,  \* no entry in cm.clusters
    NoClient,       \* no entry in cm.clientsets
    Posted,         \* bound: modes that POST requests ask for
    Reported        \* bound: statuses that agents report

Status == {"CONNECTED", "DEGRADED", "DISCONNECTED", "AUTH_ERROR"}
Mode   == {"local_kubeconfig", "agent", "service_account_token"}

Connection == [mode : Mode, status : Status, endpoint : Endpoint]

(* A client built for an API server; "nil" is the interface value that     *)
(* BuildClientFromToken returns when NewForConfig fails: it wraps a nil    *)
(* pointer and so is not equal to nil.                                     *)
Client == [kind : {"rest", "nil"}, endpoint : Endpoint]

ASSUME ClusterAssumption ==
    /\ LocalDev \in ClusterID
    /\ NoID \notin ClusterID
    /\ LocalEndpoint \in Endpoint
    /\ NotRegistered \notin Connection
    /\ NoClient \notin Client
    /\ Posted \subseteq Mode
    /\ Reported \subseteq {"CONNECTED", "DEGRADED", "DISCONNECTED"}

VARIABLES
    clusters,       \* cm.clusters: id -> connection
    clientsets,     \* cm.clientsets: id -> client
    activeID,       \* cm.activeID
    serving         \* TRUE once the router accepts requests

cmVars == <<clusters, clientsets, activeID, serving>>

Registered == {id \in ClusterID : clusters[id] # NotRegistered}

-----------------------------------------------------------------------------

Init ==
    /\ clusters = [id \in ClusterID |-> NotRegistered]
    /\ clientsets = [id \in ClusterID |-> NoClient]
    /\ activeID = NoID
    /\ serving = FALSE

(* Mutant: a registration takes over the selection.                        *)
RegisterAndSelect(id, conn, client) ==
    /\ clusters' = [clusters EXCEPT ![id] = conn]
    /\ clientsets' = IF client = NoClient
                     THEN clientsets
                     ELSE [clientsets EXCEPT ![id] = client]
    /\ activeID' = id

(* RegisterCluster overwrites the connection, keeps the former client when *)
(* none is given, and selects the id when nothing is selected.             *)
RegisterCluster(id, conn, client) ==
    /\ clusters' = [clusters EXCEPT ![id] = conn]
    /\ clientsets' = IF client = NoClient
                     THEN clientsets
                     ELSE [clientsets EXCEPT ![id] = client]
    /\ activeID' = IF activeID = NoID THEN id ELSE activeID

SetActiveCluster(id) ==
    /\ id \in Registered
    /\ activeID' = id
    /\ UNCHANGED <<clusters, clientsets>>

(* Mutant: a report for an unknown cluster creates a bare entry.           *)
UpdateOrCreate(id, status) ==
    /\ clusters' = [clusters EXCEPT ![id] =
                      [mode |-> "agent", status |-> status, endpoint |-> NoID]]
    /\ UNCHANGED <<clientsets, activeID>>

UpdateStatus(id, status) ==
    /\ clusters' = IF id \in Registered
                   THEN [clusters EXCEPT ![id].status = status]
                   ELSE clusters
    /\ UNCHANGED <<clientsets, activeID>>

(* The local development connection cannot be deleted.  When the active    *)
(* connection goes, the selection moves to whichever remaining id the map  *)
(* iteration yields first, or becomes empty.                               *)
DeletableIfKnown(id) == id \in Registered  \* Mutant: local-dev is not protected

Deletable(id) ==
    /\ id \in Registered
    /\ ~(clusters[id].mode = "local_kubeconfig" /\ id = LocalDev)

(* Mutant: the client of a deleted cluster stays behind.                   *)
DeleteKeepingClient(id) ==
    /\ Deletable(id)
    /\ clusters' = [clusters EXCEPT ![id] = NotRegistered]
    /\ activeID' \in IF activeID # id THEN {activeID}
                     ELSE IF Registered = {id} THEN {NoID} ELSE Registered \ {id}
    /\ UNCHANGED clientsets

(* Mutant: deleting the active cluster empties the selection.              *)
DeleteAndDeselect(id) ==
    /\ Deletable(id)
    /\ clusters' = [clusters EXCEPT ![id] = NotRegistered]
    /\ clientsets' = [clientsets EXCEPT ![id] = NoClient]
    /\ activeID' = IF activeID = id THEN NoID ELSE activeID

DeleteCluster(id) ==
    /\ Deletable(id)
    /\ clusters' = [clusters EXCEPT ![id] = NotRegistered]
    /\ clientsets' = [clientsets EXCEPT ![id] = NoClient]
    /\ \/ /\ activeID # id
          /\ UNCHANGED activeID
       \/ /\ activeID = id
          /\ Registered \ {id} = {}
          /\ activeID' = NoID
       \/ /\ activeID = id
          /\ activeID' \in Registered \ {id}

-----------------------------------------------------------------------------

(* Run discovers the local kubeconfig context once, before the router      *)
(* serves; discovery may fail, and the server then starts with no cluster. *)
AutoDiscoverLocalContexts ==
    /\ ~serving
    /\ serving' = TRUE
    /\ \/ \E status \in {"CONNECTED", "DEGRADED"} :
             RegisterCluster(LocalDev,
                 [mode |-> "local_kubeconfig", status |-> status,
                  endpoint |-> LocalEndpoint],
                 [kind |-> "rest", endpoint |-> LocalEndpoint])
       \/ UNCHANGED <<clusters, clientsets, activeID>>

(* POST /api/clusters: the client is built only for a token connection     *)
(* that gave an endpoint and a token, and its failure is an AUTH_ERROR.    *)
(* The id is drawn, UnixNano modulo one million, and registered without a  *)
(* look at the directory: it may be the id of a cluster that is there.     *)
PostCluster(id, mode, endpoint) ==
    /\ serving
    /\ id # LocalDev
    /\ UNCHANGED serving
    /\ \/ /\ mode = "service_account_token"
          /\ \E built \in BOOLEAN :
                RegisterCluster(id,
                    [mode |-> mode, endpoint |-> endpoint,
                     status |-> IF built THEN "CONNECTED" ELSE "AUTH_ERROR"],
                    [kind |-> IF built THEN "rest" ELSE "nil",
                     endpoint |-> endpoint])
       \/ RegisterCluster(id,
              [mode |-> mode, status |-> "DISCONNECTED", endpoint |-> endpoint],
              NoClient)

DeleteClusterRoute(id) == serving /\ DeleteCluster(id) /\ UNCHANGED serving
SwitchCluster(id)      == serving /\ SetActiveCluster(id) /\ UNCHANGED serving

(* The status reports of an agent handler: see AgentTunnel for the steps   *)
(* that make them.                                                         *)
AgentReport(id, status) ==
    /\ serving
    /\ UpdateStatus(id, status)
    /\ UNCHANGED serving

Next ==
    \/ AutoDiscoverLocalContexts
    \/ \E id \in ClusterID :
          \/ \E mode \in Posted, e \in Endpoint : PostCluster(id, mode, e)
          \/ DeleteClusterRoute(id)
          \/ SwitchCluster(id)
          \/ \E status \in Reported : AgentReport(id, status)

Spec == Init /\ [][Next]_cmVars

-----------------------------------------------------------------------------
(* Properties.                                                             *)

(* Type correctness of the directory.                                      *)
TypeOK ==
    /\ clusters \in [ClusterID -> Connection \cup {NotRegistered}]
    /\ clientsets \in [ClusterID -> Client \cup {NoClient}]
    /\ activeID \in ClusterID \cup {NoID}
    /\ serving \in BOOLEAN

(* The selection never points at a deleted or unknown cluster, and it is   *)
(* empty only when nothing is registered: every request that names no      *)
(* cluster resolves to a connection as soon as there is one.               *)
SelectionValid ==
    /\ activeID # NoID => activeID \in Registered
    /\ activeID = NoID => Registered = {}

(* No step removes the discovered local-dev connection, or its client, or  *)
(* turns it into a connection of another kind: not a deletion, not an      *)
(* agent that reports under its id.                                        *)
LocalDevStays ==
    [][(LocalDev \in Registered) =>
          /\ LocalDev \in Registered'
          /\ clusters'[LocalDev].mode = "local_kubeconfig"
          /\ clientsets'[LocalDev] = clientsets[LocalDev] ]_cmVars

Selection == INSTANCE ClusterSelection
             WITH ID <- ClusterID, members <- Registered, selected <- activeID

(* The directory implements the selection that the rest of the server      *)
(* relies on: every step is a join, a choice, a leave or invisible.        *)
SelectionSpec == Selection!Spec

=============================================================================
