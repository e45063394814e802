------------------------- MODULE AgentTunnelProofs -------------------------
(* Proofs about AgentTunnel, for any set of clusters and any number of     *)
(* connections, any deadline and any load on the wire.                     *)
EXTENDS AgentTunnel, TLAPS

(* What a cluster reached through an agent shows while its tunnel is up.   *)
ShownConnected(k) ==
    /\ k \in CM!Registered
    /\ clusters[k].mode = "agent"
    /\ clusters[k].status = "CONNECTED"

(* A report of a handler keeps the directory well typed; it shows only the *)
(* cluster it is for as connected, and only when it says so.               *)
LEMMA ReportEffect ==
    ASSUME CM!TypeOK, NEW id \in ClusterID, NEW status \in CM!Status,
           CM!UpdateStatus(id, status), UNCHANGED serving
    PROVE  /\ CM!TypeOK'
           /\ \A k \in ClusterID \ {id} : ShownConnected(k)' => ShownConnected(k)
           /\ status # "CONNECTED" => ~ShownConnected(id)'
<1>1. CM!TypeOK'
  BY TunnelAssumption
     DEF CM!TypeOK, CM!UpdateStatus, CM!Registered, CM!Connection
<1>2. CASE id \in CM!Registered
  <2>1. clusters' = [clusters EXCEPT ![id].status = status]
    BY <1>2 DEF CM!UpdateStatus
  <2>2. clusters[id] \in CM!Connection
    BY <1>2 DEF CM!TypeOK, CM!Registered
  <2>3. clusters'[id].status = status
    BY <2>1, <2>2 DEF CM!TypeOK, CM!Connection
  <2>4. \A k \in ClusterID \ {id} : clusters'[k] = clusters[k]
    BY <2>1 DEF CM!TypeOK
  <2>5. QED
    BY <1>1, <2>3, <2>4 DEF ShownConnected, CM!Registered
<1>3. CASE id \notin CM!Registered
  <2>1. clusters' = clusters
    BY <1>3 DEF CM!UpdateStatus
  <2>2. QED
    BY <1>1, <1>3, <2>1 DEF ShownConnected, CM!Registered
<1>4. QED
  BY <1>2, <1>3

(* A registration that is not of a connected agent shows nothing new.      *)
LEMMA RegisterEffect ==
    ASSUME CM!TypeOK, NEW id \in ClusterID, NEW conn \in CM!Connection,
           NEW client \in CM!Client \cup {NoClient},
           conn.mode # "agent" \/ conn.status # "CONNECTED",
           CM!RegisterCluster(id, conn, client), serving' \in BOOLEAN
    PROVE  /\ CM!TypeOK'
           /\ \A k \in ClusterID : ShownConnected(k)' => ShownConnected(k)
  BY TunnelAssumption
     DEF CM!TypeOK, CM!RegisterCluster, CM!Registered, ShownConnected

LEMMA DeleteEffect ==
    ASSUME CM!TypeOK, NEW id \in ClusterID, CM!DeleteClusterRoute(id)
    PROVE  /\ CM!TypeOK'
           /\ \A k \in ClusterID : ShownConnected(k)' => ShownConnected(k)
  BY TunnelAssumption
     DEF CM!TypeOK, CM!DeleteClusterRoute, CM!DeleteCluster, CM!Deletable,
         CM!Registered, ShownConnected

(* The routes never show an agent as connected: only its handler does.     *)
LEMMA RoutesEffect ==
    ASSUME CM!TypeOK, Routes
    PROVE  /\ CM!TypeOK'
           /\ \A k \in ClusterID : ShownConnected(k)' => ShownConnected(k)
<1>1. ASSUME CM!AutoDiscoverLocalContexts
      PROVE  /\ CM!TypeOK'
             /\ \A k \in ClusterID : ShownConnected(k)' => ShownConnected(k)
  <2>1. serving' \in BOOLEAN
    BY <1>1 DEF CM!AutoDiscoverLocalContexts
  <2>2. CASE UNCHANGED <<clusters, clientsets, activeID>>
    BY <2>1, <2>2 DEF CM!TypeOK, CM!Registered, ShownConnected
  <2>3. ASSUME NEW status \in {"CONNECTED", "DEGRADED"},
               CM!RegisterCluster(LocalDev,
                 [mode |-> "local_kubeconfig", status |-> status,
                  endpoint |-> LocalEndpoint],
                 [kind |-> "rest", endpoint |-> LocalEndpoint])
        PROVE  /\ CM!TypeOK'
               /\ \A k \in ClusterID : ShownConnected(k)' => ShownConnected(k)
    <3> DEFINE conn == [mode |-> "local_kubeconfig", status |-> status,
                        endpoint |-> LocalEndpoint]
               client == [kind |-> "rest", endpoint |-> LocalEndpoint]
    <3>1. conn \in CM!Connection /\ client \in CM!Client
      BY TunnelAssumption DEF CM!Connection, CM!Client, CM!Mode, CM!Status
    <3>2. conn.mode # "agent"
      OBVIOUS
    <3>3. CM!RegisterCluster(LocalDev, conn, client)
      BY <2>3
    <3> HIDE DEF conn, client
    <3>4. QED
      BY <2>1, <3>1, <3>2, <3>3, RegisterEffect, TunnelAssumption
  <2>4. QED
    BY <1>1, <2>2, <2>3 DEF CM!AutoDiscoverLocalContexts
<1>2. ASSUME NEW id \in ClusterID, NEW e \in Endpoint, CM!PostCluster(id, "agent", e)
      PROVE  /\ CM!TypeOK'
             /\ \A k \in ClusterID : ShownConnected(k)' => ShownConnected(k)
  <2> DEFINE conn == [mode |-> "agent", status |-> "DISCONNECTED", endpoint |-> e]
  <2>1. serving' \in BOOLEAN
    BY <1>2 DEF CM!PostCluster, CM!TypeOK
  <2>2. CM!RegisterCluster(id, conn, NoClient)
    BY <1>2 DEF CM!PostCluster
  <2>3. conn \in CM!Connection
    BY DEF CM!Connection, CM!Mode, CM!Status
  <2>4. conn.status # "CONNECTED"
    OBVIOUS
  <2> HIDE DEF conn
  <2>5. QED
    BY <2>1, <2>2, <2>3, <2>4, RegisterEffect
<1>3. QED
  BY <1>1, <1>2, DeleteEffect DEF Routes

-----------------------------------------------------------------------------
(* The three invariants are inductive together: RegistryServed tells       *)
(* whose entry a handler removes, and a handler that reports CONNECTED is  *)
(* itself the witness of ConnectedHasHandler until it has reported the     *)
(* contrary.                                                               *)
TunnelInv == TypeOK /\ RegistryServed /\ ConnectedHasHandler

LEMMA TunnelInit == Init => TunnelInv
<1> SUFFICES ASSUME Init PROVE TunnelInv
  OBVIOUS
<1>1. CM!TypeOK /\ CM!Registered = {}
  BY TunnelAssumption DEF Init, CM!Init, CM!TypeOK, CM!Registered
<1>2. TypeOK
  BY <1>1, TunnelAssumption DEF Init, TypeOK, Phase, AgentPhase
<1>3. RegistryServed /\ ConnectedHasHandler
  BY <1>1 DEF Init, RegistryServed, ConnectedHasHandler
<1>4. QED
  BY <1>2, <1>3 DEF TunnelInv

(* The steps that leave the directory and the registry alone and move no   *)
(* handler that serves: they can disturb neither invariant.                *)
LEMMA QuietStep ==
    ASSUME TunnelInv, UNCHANGED <<directory, connections>>,
           \A c \in Conn :
              \/ handler[c] \in {"idle", "upgraded"}
              \/ owner'[c] = owner[c] /\ handler'[c] = handler[c]
    PROVE  RegistryServed' /\ ConnectedHasHandler'
<1>1. \A k \in ClusterID : ShownConnected(k)' = ShownConnected(k)
  BY DEF directory, ShownConnected, CM!Registered
<1>2. RegistryServed'
  BY DEF TunnelInv, TypeOK, RegistryServed
<1>3. ConnectedHasHandler'
  BY <1>1 DEF TunnelInv, ConnectedHasHandler, ShownConnected, CM!Registered
<1>4. QED
  BY <1>2, <1>3

LEMMA DirectoryKept ==
    ASSUME CM!TypeOK, UNCHANGED directory
    PROVE  CM!TypeOK'
  BY DEF CM!TypeOK, directory

(* The steps of the network, the clock and a dialling agent.               *)
LEMMA PartyStep ==
    ASSUME TunnelInv, NEW k \in ClusterID, NEW c \in Conn,
           Dial(k, c) \/ AgentLosesConnection(k, c) \/ CutLink(c) \/ Tick
    PROVE  TunnelInv'
<1>1. UNCHANGED <<directory, connections>>
  BY DEF Dial, AgentLosesConnection, CutLink, Tick
<1>2. \A d \in Conn : \/ handler[d] \in {"idle", "upgraded"}
                      \/ owner'[d] = owner[d] /\ handler'[d] = handler[d]
  BY DEF Dial, AgentLosesConnection, CutLink, Tick, TunnelInv, TypeOK
<1>3. CM!TypeOK'
  BY <1>1, DirectoryKept DEF TunnelInv, TypeOK
<1>4. TypeOK'
  <2>1. CASE Dial(k, c)
    BY <1>1, <1>3, <2>1, TunnelAssumption
       DEF Dial, TunnelInv, TypeOK, AgentPhase, Phase
  <2>2. CASE AgentLosesConnection(k, c)
    BY <1>1, <1>3, <2>2 DEF AgentLosesConnection, TunnelInv, TypeOK, AgentPhase
  <2>3. CASE CutLink(c)
    BY <1>1, <1>3, <2>3 DEF CutLink, TunnelInv, TypeOK
  <2>4. CASE Tick
    <3>1. age' \in [Conn -> 0..Deadline]
      BY <2>4, TunnelAssumption DEF Tick, TunnelInv, TypeOK
    <3>2. inbox' \in [Conn -> 0..MaxInFlight]
      BY <2>4, TunnelAssumption DEF Tick, TunnelInv, TypeOK
    <3>3. QED
      BY <1>1, <1>3, <2>4, <3>1, <3>2 DEF Tick, TunnelInv, TypeOK
  <2>5. QED
    BY <2>1, <2>2, <2>3, <2>4
<1>5. QED
  BY <1>1, <1>2, <1>4, QuietStep DEF TunnelInv

-----------------------------------------------------------------------------
(* The steps of the handler of connection c.                               *)
LEMMA HandlerType ==
    ASSUME TunnelInv, NEW c \in Conn, HandlerStep(c)
    PROVE  TypeOK'
<1> USE TunnelAssumption DEF TunnelInv
<1>1. CASE RegisterConnection(c) \/ ReadFails(c) \/ Unregister(c) \/ CloseSocket(c)
  <2>1. CM!TypeOK'
    BY <1>1, DirectoryKept
       DEF RegisterConnection, ReadFails, Unregister, CloseSocket, TypeOK
  <2>2. connections' \in [ClusterID -> Conn \cup {NoConn}]
    BY <1>1 DEF RegisterConnection, ReadFails, Unregister, CloseSocket, TypeOK
  <2>3. handler' \in [Conn -> Phase]
    BY <1>1 DEF RegisterConnection, ReadFails, Unregister, CloseSocket, TypeOK,
                Becomes, Phase
  <2>4. QED
    BY <1>1, <2>1, <2>2, <2>3
       DEF RegisterConnection, ReadFails, Unregister, CloseSocket, TypeOK, socket
<1>2. CASE MarkConnected(c)
  <2>1. CM!TypeOK'
    BY <1>2, ReportEffect DEF MarkConnected, TypeOK, CM!Status
  <2>2. QED
    BY <1>2, <2>1 DEF MarkConnected, Becomes, TypeOK, socket, Phase
<1>3. CASE ReadHeartbeat(c)
  <2>1. CM!TypeOK'
    BY <1>3, ReportEffect DEF ReadHeartbeat, TypeOK, CM!Status
  <2>2. QED
    BY <1>3, <2>1 DEF ReadHeartbeat, Readable, TypeOK
<1>4. CASE MarkDisconnected(c)
  <2>1. CM!TypeOK'
    BY <1>4, ReportEffect DEF MarkDisconnected, TypeOK, CM!Status
  <2>2. QED
    BY <1>4, <2>1 DEF MarkDisconnected, Becomes, TypeOK, Phase
<1>5. QED
  BY <1>1, <1>2, <1>3, <1>4 DEF HandlerStep

LEMMA HandlerRegistry ==
    ASSUME TunnelInv, NEW c \in Conn, HandlerStep(c)
    PROVE  RegistryServed'
<1> USE TunnelAssumption DEF TunnelInv, TypeOK, RegistryServed
<1>1. CASE RegisterConnection(c)
  BY <1>1 DEF RegisterConnection, Becomes, Phase
<1>2. CASE MarkConnected(c)
  BY <1>2 DEF MarkConnected, Becomes, Phase
<1>3. CASE ReadHeartbeat(c)
  BY <1>3 DEF ReadHeartbeat
<1>4. CASE ReadFails(c)
  BY <1>4 DEF ReadFails, Becomes, Phase
<1>5. CASE Unregister(c)
  BY <1>5 DEF Unregister, Becomes, Phase
<1>6. CASE CloseSocket(c)
  BY <1>6 DEF CloseSocket, Becomes, Phase
<1>7. CASE MarkDisconnected(c)
  BY <1>7 DEF MarkDisconnected, Becomes, Phase
<1>8. QED
  BY <1>1, <1>2, <1>3, <1>4, <1>5, <1>6, <1>7 DEF HandlerStep

(* A handler that still has to report the end of its connection.           *)
Behind(k, c) ==
    /\ owner[c] = k
    /\ handler[c] \in {"reading", "closing", "unregistered", "closed"}

LEMMA HandlerConnected ==
    ASSUME TunnelInv, NEW c \in Conn, HandlerStep(c)
    PROVE  ConnectedHasHandler'
<1>1. SUFFICES ASSUME NEW k \in ClusterID, ShownConnected(k)'
               PROVE  \E d \in Conn : Behind(k, d)'
  BY DEF ConnectedHasHandler, ShownConnected, Behind, CM!Registered
<1>2. ShownConnected(k) => \E d \in Conn : Behind(k, d)
  BY DEF TunnelInv, ConnectedHasHandler, ShownConnected, Behind
<1>3. owner[c] \in ClusterID /\ owner' = owner /\ CM!TypeOK
  BY DEF TunnelInv, TypeOK, HandlerStep, RegisterConnection, MarkConnected,
         ReadHeartbeat, ReadFails, Unregister, CloseSocket, MarkDisconnected
<1>4. CASE MarkConnected(c) \/ ReadHeartbeat(c)
  <2>1. handler'[c] = "reading"
    BY <1>4 DEF MarkConnected, ReadHeartbeat, Readable, Becomes, TunnelInv, TypeOK
  <2>2. \A d \in Conn \ {c} : handler'[d] = handler[d]
    BY <1>4 DEF MarkConnected, ReadHeartbeat, Becomes, TunnelInv, TypeOK
  <2>3. CASE k = owner[c]
    BY <1>3, <2>1, <2>3 DEF Behind
  <2>4. CASE k # owner[c]
    <3>1. CM!UpdateStatus(owner[c], "CONNECTED") /\ UNCHANGED serving
      BY <1>4 DEF MarkConnected, ReadHeartbeat
    <3>2. ShownConnected(k)
      BY <1>1, <1>3, <2>4, <3>1, ReportEffect DEF CM!Status
    <3>3. QED
      BY <1>2, <1>3, <2>2, <2>4, <3>2 DEF Behind
  <2>5. QED
    BY <2>3, <2>4
<1>5. CASE MarkDisconnected(c)
  <2>1. CM!UpdateStatus(owner[c], "DISCONNECTED") /\ UNCHANGED serving
    BY <1>5 DEF MarkDisconnected
  <2>2. k # owner[c] /\ ShownConnected(k)
    BY <1>1, <1>3, <2>1, ReportEffect DEF CM!Status
  <2>3. \A d \in Conn \ {c} : handler'[d] = handler[d]
    BY <1>5 DEF MarkDisconnected, Becomes, TunnelInv, TypeOK
  <2>4. QED
    BY <1>2, <1>3, <2>2, <2>3 DEF Behind
<1>6. CASE RegisterConnection(c) \/ ReadFails(c) \/ Unregister(c) \/ CloseSocket(c)
  <2>1. UNCHANGED directory
    BY <1>6 DEF RegisterConnection, ReadFails, Unregister, CloseSocket
  <2>2. ShownConnected(k)
    BY <1>1, <2>1 DEF directory, ShownConnected, CM!Registered
  <2>3. \A d \in Conn : Behind(k, d) => Behind(k, d)'
    BY <1>3, <1>6 DEF RegisterConnection, ReadFails, Unregister, CloseSocket,
                      Becomes, TunnelInv, TypeOK, Behind, Phase
  <2>4. QED
    BY <1>2, <2>2, <2>3
<1>7. QED
  BY <1>4, <1>5, <1>6 DEF HandlerStep

LEMMA RoutesKeep ==
    ASSUME TunnelInv, Routes
    PROVE  TunnelInv'
<1>1. CM!TypeOK' /\ \A k \in ClusterID : ShownConnected(k)' => ShownConnected(k)
  BY RoutesEffect DEF TunnelInv, TypeOK
<1>2. UNCHANGED <<connections, handler, owner, age, socket, agent>>
  BY DEF Routes
<1>3. TypeOK' /\ RegistryServed'
  BY <1>1, <1>2 DEF TunnelInv, TypeOK, RegistryServed, socket
<1>4. ConnectedHasHandler'
  BY <1>1, <1>2 DEF TunnelInv, ConnectedHasHandler, ShownConnected, CM!Registered
<1>5. QED
  BY <1>3, <1>4 DEF TunnelInv

LEMMA TunnelStep == TunnelInv /\ [Next]_vars => TunnelInv'
<1> SUFFICES ASSUME TunnelInv, [Next]_vars PROVE TunnelInv'
  OBVIOUS
<1>1. CASE Routes
  BY <1>1, RoutesKeep
<1>2. ASSUME NEW k \in ClusterID, NEW c \in Conn,
             \/ Dial(k, c) \/ AgentLosesConnection(k, c)
      PROVE  TunnelInv'
  BY <1>2, PartyStep
<1>3. ASSUME NEW k \in ClusterID, DeployAgent(k)
      PROVE  TunnelInv'
  <2>1. UNCHANGED <<directory, connections, handler, owner, age, socket>>
    BY <1>3 DEF DeployAgent
  <2>2. TypeOK'
    BY <1>3, <2>1, DirectoryKept
       DEF DeployAgent, TunnelInv, TypeOK, AgentPhase, socket
  <2>3. QED
    BY <2>1, <2>2, QuietStep DEF TunnelInv
<1>4. ASSUME NEW k \in ClusterID, RestartAgent(k) \/ AgentDies(k)
      PROVE  TunnelInv'
  <2>1. UNCHANGED <<directory, connections, handler, owner, age, link, inbox>>
    BY <1>4 DEF RestartAgent, AgentDies, AgentProcessEnds
  <2>2. TypeOK'
    BY <1>4, <2>1, DirectoryKept
       DEF RestartAgent, AgentDies, AgentProcessEnds, TunnelInv, TypeOK, AgentPhase
  <2>3. QED
    BY <2>1, <2>2, QuietStep DEF TunnelInv
<1>5. ASSUME NEW c \in Conn, HandlerStep(c)
      PROVE  TunnelInv'
  BY <1>5, HandlerType, HandlerRegistry, HandlerConnected DEF TunnelInv
<1>6. ASSUME NEW c \in Conn, CutLink(c)
      PROVE  TunnelInv'
  BY <1>6, PartyStep, TunnelAssumption
<1>7. CASE Tick
  <2>1. PICK c \in Conn : TRUE
    BY <1>7 DEF Tick
  <2>2. QED
    BY <1>7, <2>1, PartyStep, TunnelAssumption
<1>8. CASE UNCHANGED vars
  <2>1. UNCHANGED <<directory, connections, handler, owner, age, socket, agent>>
    BY <1>8 DEF vars
  <2>2. TypeOK'
    BY <2>1, DirectoryKept DEF TunnelInv, TypeOK, socket
  <2>3. QED
    BY <2>1, <2>2, QuietStep DEF TunnelInv
<1>9. QED
  BY <1>1, <1>2, <1>3, <1>4, <1>5, <1>6, <1>7, <1>8 DEF Next, AgentStep

(* TunnelInv in one place.                                                 *)
LEMMA TunnelInvariant == Spec => []TunnelInv
<1>1. QED
  BY TunnelInit, TunnelStep, PTL DEF Spec

(* The directory, the registry and the tunnels stay well typed: the read   *)
(* deadline and the wire bound included (agent_handler.go 68-144).         *)
THEOREM TunnelTypeCorrect == Spec => []TypeOK
<1>1. TunnelInv => TypeOK
  BY DEF TunnelInv
<1>2. QED
  BY <1>1, TunnelInvariant, PTL

(* The registry holds only connections whose handler still runs its read   *)
(* loop, each under its own cluster, for every interleaving of handlers.   *)
THEOREM RegistryAlwaysServed == Spec => []RegistryServed
<1>1. TunnelInv => RegistryServed
  BY DEF TunnelInv
<1>2. QED
  BY <1>1, TunnelInvariant, PTL

(* CONNECTED always has a handler behind it that will report the end.      *)
THEOREM ConnectedNeverOrphaned == Spec => []ConnectedHasHandler
<1>1. TunnelInv => ConnectedHasHandler
  BY DEF TunnelInv
<1>2. QED
  BY <1>1, TunnelInvariant, PTL
=============================================================================
