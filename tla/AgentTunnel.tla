---------------------------- MODULE AgentTunnel ----------------------------
(***************************************************************************)
(* The tunnel between an in-cluster agent (internal/agent/agent.go) and    *)
(* the control plane (internal/agent/agent_handler.go).  The agent dials,  *)
(* sends heartbeats and reconnects; the server runs one handler goroutine  *)
(* per WebSocket, which registers the connection, reports the cluster as   *)
(* connected, reads until an error, and then cleans up.  The steps of a    *)
(* handler that take a lock are separate actions, so the handlers of an    *)
(* old and a new connection of one cluster interleave as in the code.      *)
(*                                                                         *)
(* The directory is the one of ClusterManager; its routes run alongside.   *)
(* A connection is a slot, free again once both ends are gone.  Time is    *)
(* counted in heartbeat periods (10 s), of which Deadline make up the      *)
(* handler's read deadline (60 s).                                         *)
(*                                                                         *)
(* Not modelled: token validation (the agent of a cluster presents the     *)
(* token the cluster was created with, which always passes), failed        *)
(* upgrades (the agent dials again), and the figures in a heartbeat.       *)
(***************************************************************************)
EXTENDS Naturals

CONSTANTS
    ClusterID, LocalDev, NoID, Endpoint, LocalEndpoint, NotRegistered, NoClient,
    Conn,           \* connection slots
    NoConn,         \* no entry in AgentRegistry.connections
    Deadline,       \* heartbeat periods in the read deadline
    MaxInFlight,    \* bound: heartbeats on the wire of one connection
    Faults          \* whether links break and agents restart or die

VARIABLES
    clusters, clientsets, activeID, serving,
    connections,    \* AgentRegistry.connections
    handler,        \* phase of the handler goroutine of each slot
    owner,          \* the cluster a slot's connection is for
    age,            \* periods since the handler set the read deadline
    inbox,          \* heartbeats sent and not yet read
    link,           \* FALSE once the network silently drops the connection
    agentEnd,       \* whether the agent's socket is open
    agent           \* phase of the agent of each cluster

CM == INSTANCE ClusterManager
      WITH Posted <- {"agent"}, Reported <- {"CONNECTED", "DISCONNECTED"}

ASSUME TunnelAssumption ==
    /\ LocalDev \in ClusterID
    /\ NoID \notin ClusterID
    /\ LocalEndpoint \in Endpoint
    /\ NotRegistered \notin CM!Connection
    /\ NoClient \notin CM!Client
    /\ NoConn \notin Conn
    /\ Deadline \in Nat \ {0}
    /\ MaxInFlight \in Nat \ {0}
    /\ Faults \in BOOLEAN

directory == <<clusters, clientsets, activeID, serving>>
socket    == <<link, agentEnd, inbox>>
vars == <<directory, connections, handler, owner, age, socket, agent>>

Phase == {"idle", "upgraded", "registered", "reading",
          "closing", "unregistered", "closed"}
AgentPhase == {"absent", "dialing", "connected", "dead"}

(* A handler whose socket is still open at the server.                     *)
Open == {"upgraded", "registered", "reading", "closing", "unregistered"}

(* What the agent sends on c arrives.                                      *)
Arrives(c) == agentEnd[c] /\ link[c] /\ handler[c] \in Open

Init ==
    /\ CM!Init
    /\ connections = [k \in ClusterID |-> NoConn]
    /\ handler = [c \in Conn |-> "idle"]
    /\ owner = [c \in Conn |-> LocalDev]
    /\ age = [c \in Conn |-> 0]
    /\ inbox = [c \in Conn |-> 0]
    /\ link = [c \in Conn |-> TRUE]
    /\ agentEnd = [c \in Conn |-> FALSE]
    /\ agent = [k \in ClusterID |-> "absent"]

Becomes(c, from, to) ==
    /\ handler[c] = from
    /\ handler' = [handler EXCEPT ![c] = to]

-----------------------------------------------------------------------------
(* The agent.                                                              *)

(* Applying the manifest of an agent connection starts its agent.          *)
DeployAgent(k) ==
    /\ k \in CM!Registered /\ clusters[k].mode = "agent"
    /\ agent[k] = "absent"
    /\ agent' = [agent EXCEPT ![k] = "dialing"]
    /\ UNCHANGED <<directory, connections, handler, owner, age, socket>>

(* The dial succeeds and the server starts a handler for the connection.   *)
Dial(k, c) ==
    /\ serving
    /\ agent[k] = "dialing"
    /\ handler[c] = "idle" /\ ~agentEnd[c]
    /\ handler' = [handler EXCEPT ![c] = "upgraded"]
    /\ owner' = [owner EXCEPT ![c] = k]
    /\ link' = [link EXCEPT ![c] = TRUE]
    /\ inbox' = [inbox EXCEPT ![c] = 0]
    /\ agentEnd' = [agentEnd EXCEPT ![c] = TRUE]
    /\ agent' = [agent EXCEPT ![k] = "connected"]
    /\ UNCHANGED <<directory, connections, age>>

(* The agent's end of the current connection: an open one it owns.         *)
Holds(k, c) == agent[k] = "connected" /\ owner[c] = k /\ agentEnd[c]

(* Mutant: the read loop waits for a close frame and never gives up on a   *)
(* connection that the network dropped.                                    *)
AgentLosesClosedOnly(k, c) ==
    /\ Holds(k, c)
    /\ handler[c] \notin Open /\ link[c]
    /\ agentEnd' = [agentEnd EXCEPT ![c] = FALSE]
    /\ agent' = [agent EXCEPT ![k] = "dialing"]
    /\ UNCHANGED <<directory, connections, handler, owner, age, link, inbox>>

(* The read loop fails, because the server closed or the link is gone; the *)
(* agent closes its end and goes back to dialling.                         *)
AgentLosesConnection(k, c) ==
    /\ Holds(k, c)
    /\ handler[c] \notin Open \/ ~link[c]
    /\ agentEnd' = [agentEnd EXCEPT ![c] = FALSE]
    /\ agent' = [agent EXCEPT ![k] = "dialing"]
    /\ UNCHANGED <<directory, connections, handler, owner, age, link, inbox>>

(* The agent's pod is replaced, or goes for good; the kernel closes its    *)
(* socket either way.                                                      *)
AgentProcessEnds(k, phase) ==
    /\ Faults
    /\ agent[k] \in {"dialing", "connected"}
    /\ agent' = [agent EXCEPT ![k] = phase]
    /\ agentEnd' = [c \in Conn |-> agentEnd[c] /\ owner[c] # k]
    /\ UNCHANGED <<directory, connections, handler, owner, age, link, inbox>>

RestartAgent(k) == agent[k] = "connected" /\ AgentProcessEnds(k, "dialing")
AgentDies(k)    == AgentProcessEnds(k, "dead")

(* The network drops the connection without telling either end.            *)
CutLink(c) ==
    /\ Faults
    /\ handler[c] \in Open /\ link[c]
    /\ link' = [link EXCEPT ![c] = FALSE]
    /\ UNCHANGED <<directory, connections, handler, owner, age, inbox, agentEnd, agent>>

-----------------------------------------------------------------------------
(* The handler goroutine of connection c.                                  *)

RegisterConnection(c) ==
    /\ Becomes(c, "upgraded", "registered")
    /\ connections' = [connections EXCEPT ![owner[c]] = c]
    /\ UNCHANGED <<directory, owner, age, socket, agent>>

MarkConnected(c) ==
    /\ Becomes(c, "registered", "reading")
    /\ CM!UpdateStatus(owner[c], "CONNECTED")
    /\ age' = [age EXCEPT ![c] = 0]
    /\ UNCHANGED <<serving, connections, owner, socket, agent>>

Readable(c) == handler[c] = "reading" /\ inbox[c] > 0 /\ age[c] < Deadline

(* A heartbeat refreshes the status but not the read deadline.             *)
ReadHeartbeat(c) ==
    /\ Readable(c)
    /\ inbox' = [inbox EXCEPT ![c] = @ - 1]
    /\ CM!UpdateStatus(owner[c], "CONNECTED")
    /\ UNCHANGED <<serving, connections, handler, owner, age, link, agentEnd, agent>>

(* Mutant: no read deadline is set.                                        *)
ReadFailsOnCloseOnly(c) ==
    /\ Becomes(c, "reading", "closing")
    /\ ~agentEnd[c] /\ link[c] /\ inbox[c] = 0
    /\ UNCHANGED <<directory, connections, owner, age, socket, agent>>

(* The read fails when the agent's close arrives, behind the heartbeats    *)
(* sent before it, or when the deadline has passed.                        *)
ReadFails(c) ==
    /\ Becomes(c, "reading", "closing")
    /\ \/ ~agentEnd[c] /\ link[c] /\ inbox[c] = 0
       \/ age[c] = Deadline
    /\ UNCHANGED <<directory, connections, owner, age, socket, agent>>

(* Mutant: the deferred cleanup forgets the registry.                      *)
UnregisterNothing(c) ==
    /\ Becomes(c, "closing", "unregistered")
    /\ UNCHANGED <<directory, connections, owner, age, socket, agent>>

(* The deferred cleanup: delete the entry of the cluster, whichever        *)
(* connection it holds, close the socket, report the disconnection.        *)
Unregister(c) ==
    /\ Becomes(c, "closing", "unregistered")
    /\ connections' = [connections EXCEPT ![owner[c]] = NoConn]
    /\ UNCHANGED <<directory, owner, age, socket, agent>>

CloseSocket(c) ==
    /\ Becomes(c, "unregistered", "closed")
    /\ UNCHANGED <<directory, connections, owner, age, socket, agent>>

(* Mutant: the handler leaves without reporting the disconnection.         *)
LeaveSilently(c) ==
    /\ Becomes(c, "closed", "idle")
    /\ age' = [age EXCEPT ![c] = 0]
    /\ inbox' = [inbox EXCEPT ![c] = 0]
    /\ UNCHANGED <<directory, connections, owner, link, agentEnd, agent>>

MarkDisconnected(c) ==
    /\ Becomes(c, "closed", "idle")
    /\ CM!UpdateStatus(owner[c], "DISCONNECTED")
    /\ age' = [age EXCEPT ![c] = 0]
    /\ inbox' = [inbox EXCEPT ![c] = 0]
    /\ UNCHANGED <<serving, connections, owner, link, agentEnd, agent>>

(* Mutant: the clock of an expired deadline keeps counting.                *)
TickPastDeadline ==
    /\ \E c \in Conn : handler[c] = "reading"
    /\ \A c \in Conn : ~Readable(c)
    /\ age' = [c \in Conn |-> IF handler[c] = "reading" THEN age[c] + 1 ELSE age[c]]
    /\ UNCHANGED <<directory, connections, handler, owner, socket, agent>>

(* One heartbeat period passes: every agent whose socket is open sends a   *)
(* heartbeat, which a dropped link loses.  Handlers read what has arrived  *)
(* well within a period.                                                   *)
Tick ==
    /\ \E c \in Conn : handler[c] = "reading" /\ age[c] < Deadline
    /\ \A c \in Conn : ~Readable(c)
    /\ age' = [c \in Conn |-> IF handler[c] = "reading" /\ age[c] < Deadline
                              THEN age[c] + 1 ELSE age[c]]
    /\ inbox' = [c \in Conn |-> IF Arrives(c) /\ inbox[c] < MaxInFlight
                                THEN inbox[c] + 1 ELSE inbox[c]]
    /\ UNCHANGED <<directory, connections, handler, owner, link, agentEnd, agent>>

-----------------------------------------------------------------------------
(* The routes that change what a handler reports on: discovery, and agent  *)
(* connections coming and going.  Connections of the other modes have no   *)
(* handler; ClusterManager has them, and the switch of the selection.      *)
Routes ==
    /\ \/ CM!AutoDiscoverLocalContexts
       \/ \E k \in ClusterID :
             \/ \E e \in Endpoint : CM!PostCluster(k, "agent", e)
             \/ CM!DeleteClusterRoute(k)
    /\ UNCHANGED <<connections, handler, owner, age, socket, agent>>

HandlerStep(c) ==
    \/ RegisterConnection(c) \/ MarkConnected(c)
    \/ ReadHeartbeat(c) \/ ReadFails(c)
    \/ Unregister(c) \/ CloseSocket(c) \/ MarkDisconnected(c)

AgentStep(k) ==
    \/ \E c \in Conn : Dial(k, c)
    \/ \E c \in Conn : AgentLosesConnection(k, c)

Next ==
    \/ Routes
    \/ \E k \in ClusterID :
          \/ DeployAgent(k) \/ RestartAgent(k) \/ AgentDies(k)
          \/ AgentStep(k)
    \/ \E c \in Conn : HandlerStep(c) \/ CutLink(c)
    \/ Tick

(* The Go scheduler runs every handler and the agent's loop, and time      *)
(* passes.  Operators, the network and the agent's lifetime promise        *)
(* nothing.                                                                *)
Fairness ==
    /\ \A c \in Conn : WF_vars(HandlerStep(c))
    /\ \A k \in ClusterID : WF_vars(AgentStep(k))
    /\ WF_vars(Tick)

Spec == Init /\ [][Next]_vars
FairSpec == Spec /\ Fairness

-----------------------------------------------------------------------------
(* Properties.                                                             *)

(* The variables keep their types: no read deadline is passed unseen and   *)
(* no socket buffers more than is in flight.                               *)
TypeOK ==
    /\ CM!TypeOK
    /\ connections \in [ClusterID -> Conn \cup {NoConn}]
    /\ handler \in [Conn -> Phase]
    /\ owner \in [Conn -> ClusterID]
    /\ age \in [Conn -> 0..Deadline]
    /\ inbox \in [Conn -> 0..MaxInFlight]
    /\ link \in [Conn -> BOOLEAN]
    /\ agentEnd \in [Conn -> BOOLEAN]
    /\ agent \in [ClusterID -> AgentPhase]

(* The registry never holds the connection of a handler that has cleaned   *)
(* up, nor files a connection under another cluster: whoever takes an      *)
(* entry gets a socket that some handler still reads.                      *)
RegistryServed ==
    \A k \in ClusterID : connections[k] # NoConn =>
        /\ owner[connections[k]] = k
        /\ handler[connections[k]] \in {"registered", "reading", "closing"}

(* A cluster reached through an agent is shown CONNECTED only while some   *)
(* handler of it has yet to report the end of its connection: no order of  *)
(* old and new handlers leaves the status CONNECTED with nobody behind it. *)
ConnectedHasHandler ==
    \A k \in CM!Registered :
        clusters[k].mode = "agent" /\ clusters[k].status = "CONNECTED" =>
            \E c \in Conn :
                /\ owner[c] = k
                /\ handler[c] \in {"reading", "closing", "unregistered", "closed"}

(* When the agent is gone for good, even without a word from the network,  *)
(* the registry forgets it and the cluster stops being shown CONNECTED,    *)
(* for good.                                                               *)
DeadTunnelReported ==
    \A k \in ClusterID :
        agent[k] = "dead" ~>
            [](/\ connections[k] = NoConn
               /\ k \in CM!Registered /\ clusters[k].mode = "agent" =>
                      clusters[k].status # "CONNECTED")

(* A cluster that keeps its agent is shown CONNECTED again and again,      *)
(* whatever was reported in between by the handlers of lost connections.   *)
LiveTunnelReported ==
    \A k \in ClusterID :
        []<>(\/ agent[k] \in {"absent", "dead"}
             \/ k \notin CM!Registered
             \/ clusters[k].status = "CONNECTED")

(* agent.go says the agent maintains its outbound connection: with a       *)
(* network that never fails and an agent that never stops, the registry    *)
(* ends up holding a connection of the agent for good.                     *)
TunnelMaintained ==
    \A k \in ClusterID :
        [](agent[k] = "connected" => <>[](connections[k] # NoConn))
=============================================================================
