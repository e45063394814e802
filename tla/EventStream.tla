---------------------------- MODULE EventStream ----------------------------
(***************************************************************************)
(* The live event stream: one goroutine per watched resource               *)
(* (pkg/watcher/pod.go, deployments.go, events.go, services.go) takes      *)
(* events from its Kubernetes watch and broadcasts them to the WebSocket   *)
(* connections of the dashboard; every connection has a handler (the /ws   *)
(* route) that registers it, reads until the read fails, and removes it.   *)
(* One mutex guards the connection map, and Broadcast holds it while it    *)
(* writes to the connections one after the other (pkg/watcher/broadcaster) *)
(*                                                                         *)
(* An event is the pair of its watcher and its number.  Abstracted: what   *)
(* an event says, and what a dashboard sends, which the handler drops.     *)
(***************************************************************************)
EXTENDS Naturals, Sequences

CONSTANTS
    Watcher,        \* the watched resources
    Client,         \* connections, each opened at most once
    Nobody,         \* the holder of a free mutex
    MaxEvents       \* bound: how many events each watch yields

ASSUME StreamAssumption ==
    /\ Nobody \notin Watcher
    /\ MaxEvents \in [Watcher -> Nat]

VARIABLES
    up,             \* whether the server process runs
    emitted,        \* events each watch has put in its channel
    taken,          \* events each watcher has taken from it
    at,             \* where each watcher is
    mutex,          \* the watcher whose Broadcast holds the mutex
    todo,           \* connections each Broadcast has still to write to
    clients,        \* the map of connections
    conn,           \* the state of each connection
    handler,        \* where the handler of each connection is
    inbox,          \* what was written to each connection
    sent,           \* history: the events broadcast, in order
    joined          \* history: how many of them before each registration

watchVars == <<emitted, taken, at>>
lockVars == <<mutex, todo, sent>>
connVars == <<clients, conn, handler, inbox, joined>>
vars == <<up, watchVars, lockVars, connVars>>

Init ==
    /\ up = TRUE
    /\ emitted = [w \in Watcher |-> 0]
    /\ taken = [w \in Watcher |-> 0]
    /\ at = [w \in Watcher |-> "range"]
    /\ mutex = Nobody
    /\ todo = [w \in Watcher |-> {}]
    /\ clients = {}
    /\ conn = [c \in Client |-> "none"]
    /\ handler = [c \in Client |-> "none"]
    /\ inbox = [c \in Client |-> <<>>]
    /\ sent = <<>>
    /\ joined = [c \in Client |-> 0]

-----------------------------------------------------------------------------
(* The Kubernetes API server, the network and the dashboards.              *)

Emit(w) ==
    /\ emitted[w] < MaxEvents[w]
    /\ at[w] # "returned"
    /\ emitted' = [emitted EXCEPT ![w] = @ + 1]
    /\ UNCHANGED <<up, taken, at, lockVars, connVars>>

(* A dashboard stops reading, reads again, or goes away.                   *)
Peer(c) ==
    /\ \/ conn[c] = "open" /\ conn' = [conn EXCEPT ![c] = "stalled"]
       \/ conn[c] = "stalled" /\ conn' = [conn EXCEPT ![c] = "open"]
       \/ conn[c] \in {"open", "stalled"} /\ conn' = [conn EXCEPT ![c] = "broken"]
    /\ UNCHANGED <<up, watchVars, lockVars, clients, handler, inbox, joined>>

-----------------------------------------------------------------------------
(* The handler of a connection.                                            *)

Upgrade(c) ==
    /\ handler[c] = "none"
    /\ handler' = [handler EXCEPT ![c] = "upgraded"]
    /\ conn' = [conn EXCEPT ![c] = "open"]
    /\ UNCHANGED <<up, watchVars, lockVars, clients, inbox, joined>>

AddClient(c) ==
    /\ handler[c] = "upgraded"
    /\ mutex = Nobody
    /\ handler' = [handler EXCEPT ![c] = "reading"]
    /\ clients' = clients \cup {c}
    /\ joined' = [joined EXCEPT ![c] = Len(sent)]
    /\ UNCHANGED <<up, watchVars, lockVars, conn, inbox>>

ReadFails(c) ==
    /\ handler[c] = "reading"
    /\ conn[c] \in {"broken", "closed"}
    /\ handler' = [handler EXCEPT ![c] = "removing"]
    /\ UNCHANGED <<up, watchVars, lockVars, clients, conn, inbox, joined>>

(* Mutant: the connection is closed, and stays in the map.                 *)
RemoveClientCloseOnly(c) ==
    /\ handler[c] = "removing"
    /\ mutex = Nobody
    /\ handler' = [handler EXCEPT ![c] = "done"]
    /\ conn' = [conn EXCEPT ![c] = "closed"]
    /\ UNCHANGED <<up, watchVars, lockVars, clients, inbox, joined>>

RemoveClient(c) ==
    /\ handler[c] = "removing"
    /\ mutex = Nobody
    /\ handler' = [handler EXCEPT ![c] = "done"]
    /\ clients' = clients \ {c}
    /\ conn' = [conn EXCEPT ![c] = "closed"]
    /\ UNCHANGED <<up, watchVars, lockVars, inbox, joined>>

-----------------------------------------------------------------------------
(* The loop of a watcher, and Broadcast.                                   *)

Take(w) ==
    /\ at[w] = "range"
    /\ taken[w] < emitted[w]
    /\ taken' = [taken EXCEPT ![w] = @ + 1]
    /\ at' = [at EXCEPT ![w] = "lock"]
    /\ UNCHANGED <<up, emitted, lockVars, connVars>>

(* The API server ends the watch: the loop drains its channel and returns, *)
(* and nothing watches again.                                              *)
WatchEnds(w) ==
    /\ at[w] = "range"
    /\ taken[w] = emitted[w]
    /\ at' = [at EXCEPT ![w] = "returned"]
    /\ UNCHANGED <<up, emitted, taken, lockVars, connVars>>

(* An error event carries a Status, not the watched type: the assertion on *)
(* event.Object panics in a goroutine that nothing recovers.               *)
ErrorEvent(w) ==
    /\ at[w] = "range"
    /\ taken[w] = emitted[w]
    /\ up' = FALSE
    /\ UNCHANGED <<watchVars, lockVars, connVars>>

(* Mutant: Broadcast does not take the mutex.                              *)
LockNothing(w) ==
    /\ at[w] = "lock"
    /\ mutex' = w
    /\ todo' = [todo EXCEPT ![w] = clients]
    /\ sent' = Append(sent, <<w, taken[w]>>)
    /\ at' = [at EXCEPT ![w] = "write"]
    /\ UNCHANGED <<up, emitted, taken, connVars>>

Lock(w) ==
    /\ at[w] = "lock"
    /\ mutex = Nobody
    /\ mutex' = w
    /\ todo' = [todo EXCEPT ![w] = clients]
    /\ sent' = Append(sent, <<w, taken[w]>>)
    /\ at' = [at EXCEPT ![w] = "write"]
    /\ UNCHANGED <<up, emitted, taken, connVars>>

(* A write returns once the peer's buffer has room; the first ones after   *)
(* the peer has gone may still be taken by the local buffer.  There is no  *)
(* write deadline: a stalled peer holds up the write, and the mutex.       *)
Write(w, c) ==
    /\ at[w] = "write"
    /\ c \in todo[w]
    /\ conn[c] \in {"open", "broken"}
    /\ inbox' = [inbox EXCEPT ![c] = Append(@, <<w, taken[w]>>)]
    /\ todo' = [todo EXCEPT ![w] = @ \ {c}]
    /\ UNCHANGED <<up, watchVars, mutex, sent, clients, conn, handler, joined>>

(* Mutant: the first write that fails ends the loop over the connections.  *)
WriteFailsAndReturns(w, c) ==
    /\ at[w] = "write"
    /\ c \in todo[w]
    /\ conn[c] \in {"broken", "closed"}
    /\ conn' = [conn EXCEPT ![c] = "closed"]
    /\ clients' = clients \ {c}
    /\ todo' = [todo EXCEPT ![w] = {}]
    /\ UNCHANGED <<up, watchVars, mutex, sent, handler, inbox, joined>>

WriteFails(w, c) ==
    /\ at[w] = "write"
    /\ c \in todo[w]
    /\ conn[c] \in {"broken", "closed"}
    /\ conn' = [conn EXCEPT ![c] = "closed"]
    /\ clients' = clients \ {c}
    /\ todo' = [todo EXCEPT ![w] = @ \ {c}]
    /\ UNCHANGED <<up, watchVars, mutex, sent, handler, inbox, joined>>

(* Mutant: the mutex stays locked when Broadcast returns.                  *)
KeepLocked(w) ==
    /\ at[w] = "write"
    /\ todo[w] = {}
    /\ at' = [at EXCEPT ![w] = "range"]
    /\ UNCHANGED <<up, emitted, taken, lockVars, connVars>>

Unlock(w) ==
    /\ at[w] = "write"
    /\ todo[w] = {}
    /\ mutex' = Nobody
    /\ at' = [at EXCEPT ![w] = "range"]
    /\ UNCHANGED <<up, emitted, taken, todo, sent, connVars>>

-----------------------------------------------------------------------------

Serve(c) == AddClient(c) \/ ReadFails(c) \/ RemoveClient(c)

Run(w) ==
    \/ Take(w) \/ Lock(w) \/ Unlock(w)
    \/ \E c \in Client : Write(w, c) \/ WriteFails(w, c)

Next ==
    /\ up
    /\ \/ \E c \in Client : Peer(c) \/ Upgrade(c) \/ Serve(c)
       \/ \E w \in Watcher : Emit(w) \/ WatchEnds(w) \/ ErrorEvent(w) \/ Run(w)

Spec == Init /\ [][Next]_vars

(* Goroutines that can run do.  Nothing is assumed of watches, peers or    *)
(* the network.                                                            *)
FairSpec ==
    /\ Spec
    /\ \A c \in Client : WF_vars(up /\ Serve(c))
    /\ \A w \in Watcher : WF_vars(up /\ Run(w))

-----------------------------------------------------------------------------
(* Properties.                                                             *)

(* The types; the mutex is held by the one watcher that writes, and only a *)
(* registered connection is still to be written to.                        *)
TypeOK ==
    /\ up \in BOOLEAN
    /\ emitted \in [Watcher -> Nat]
    /\ taken \in [Watcher -> Nat]
    /\ at \in [Watcher -> {"range", "lock", "write", "returned"}]
    /\ mutex \in Watcher \cup {Nobody}
    /\ todo \in [Watcher -> SUBSET Client]
    /\ clients \subseteq Client
    /\ conn \in [Client -> {"none", "open", "stalled", "broken", "closed"}]
    /\ handler \in [Client -> {"none", "upgraded", "reading", "removing", "done"}]
    /\ inbox \in [Client -> Seq(Watcher \X Nat)]
    /\ sent \in Seq(Watcher \X Nat)
    /\ joined \in [Client -> Nat]
    /\ \A w \in Watcher : /\ taken[w] <= emitted[w]
                          /\ at[w] = "write" <=> mutex = w
                          /\ todo[w] # {} => at[w] = "write"
                          /\ todo[w] \subseteq clients

(* What a dashboard gets is one stretch of the one sequence of events that *)
(* is broadcast, from its registration on: all dashboards see the events   *)
(* of all watchers in the same order, without a gap or a repetition.       *)
SameStream ==
    \A c \in Client :
        inbox[c] = SubSeq(sent, joined[c] + 1, joined[c] + Len(inbox[c]))

(* A connection in the map has a handler that will remove it, and none is  *)
(* in the map once it is closed: no connection is kept, or written to, for *)
(* ever.                                                                   *)
NoOrphans ==
    \A c \in clients : /\ handler[c] \in {"reading", "removing"}
                       /\ conn[c] # "closed"

(* As long as no dashboard stops reading for good, an event that a watcher *)
(* has yet to take reaches every dashboard then registered and still       *)
(* there, unless the server goes down.                                     *)
Delivered ==
    (\A c \in Client : <>[](conn[c] # "stalled")) =>
        \A c \in Client, w \in Watcher : \A n \in 1 .. MaxEvents[w] :
            c \in clients /\ taken[w] < n /\ n <= emitted[w]
                ~> \/ \E i \in DOMAIN inbox[c] : inbox[c][i] = <<w, n>>
                   \/ c \notin clients
                   \/ ~up
=============================================================================
