# Garund in TLA+

A verification development for Garund, the Kubernetes reliability control plane
in this repository: TLA+ modules of its server-side core, TLC configurations
that check them on small instances, and TLAPS proofs of the main invariants for
every instance. Paths below are relative to the repository root as mapped in
`PROJECT.json` (`src/...`).

    tlc -config MCClusterRequests.cfg MCClusterRequests   # any run
    tlapm ClusterRequestsProofs.tla                       # any *Proofs module

## 1. The system

Garund is one Go process (`src/main.go`, `src/internal`, `src/pkg`) started and
stopped by its own command line, a React dashboard, and small agents that run
in remote clusters and dial in.

| Part | State it keeps | Operations | Talks to |
| --- | --- | --- | --- |
| Cluster directory, `internal/kubernetes/cluster.go` | connections, clients, the selected id, behind one mutex | register, select, report status, delete, discover | the HTTP routes, the agent handlers |
| Agent tunnel, `internal/agent` | registry of WebSocket connections; per handler a read deadline | dial, register, read heartbeats, clean up | cluster directory |
| Reliability store, `server/reliability_store.go` | SLIs, SLOs, SLAs, policies, destinations in memory and in one JSON file | load, seed, save, delete | routes of `server/reliability.go` |
| Alert store, `server/alertmanager.go` | alerts by fingerprint, in memory only | ingest, list | external Alertmanagers, the selected cluster |
| Reliability engine and overview, `server/reliability_engine.go`, `reliability.go` | none of its own | evaluate SLIs, SLOs, SLAs against Prometheus | store, Prometheus |
| Event stream, `pkg/watcher` | map of WebSocket connections behind one mutex | watch, broadcast, add, remove | Kubernetes API, dashboards |
| Process lifecycle, `internal/cli` | PID file, port, signals | start, stop, restart, status | the operating system |
| Workload operations, `server/server.go`, `pkg/actions` | none (a request works with an id, then a client) | pod restart and delete | cluster directory, the API server of the client |
| Workload routes, `server/server.go`, `pkg/analyzer`, `pkg/utils` | none (a request holds the lists it has read) | lists, overview, topology, search, health score, analysis, logs, events | the local cluster; search also the two stores |
| Synthetic probe, `server/synthetic_probe.go` | a ticker and counters | probe | an HTTP endpoint |
| PromQL builder, Prometheus client, SSRF filter, OpenTelemetry, doctor, dashboard | connection status, nothing shared | formatting and I/O | |

`src/backend` is an older copy of the server that the binary does not link.

What is hard in this code, and what the properties are about:

- **Interleavings.** The handlers of the old and the new connection of one
  agent share a registry entry and a status. Requests take the store's lock
  once per call and decide between calls. Broadcasts of four watchers write to
  the same sockets. Commands share a PID file and no lock.
- **Failure and restart.** Links break silently, agents die, notifications get
  lost, the process is terminated while it writes its file, a server ignores
  SIGTERM.
- **Time.** A read deadline, heartbeats, the 15 s readiness and the 5 s stop
  limits, queries of up to 8 s inside one request.
- **Staleness.** The selection after a deletion, a client after a
  re-registration, a client that a request keeps while its cluster is deleted, a
  PID file after a crash, an SLI that is read twice, an answer made of lists of
  different moments.
- **Several rules for one thing.** Whether a pod or a deployment is healthy is
  decided by a rule of its own in the overview, in the topology and search, and
  in the analyzer.

`PROJECT.json` lists each hazard at its line with the properties that cover it.

## 2. Modules

Each component is one module; `MC...` modules give constants values for TLC,
`...Proofs` modules hold theorems.

### ClusterManager (refines ClusterSelection)

`clusters`, `clientsets` and `activeID` are the fields of `ClusterManager`, and
each method that changes them is an operator of the same name and one step, for
the code holds `cm.mu` throughout. `serving` separates the discovery of the
local kubeconfig, which `Run` does first, from the routes. `PostCluster` is the
whole create route: an agent connection starts DISCONNECTED, a token connection
gets a client. `BuildClientFromToken` returns a nil pointer in a non-nil
interface when it fails, and the directory then stores that client: the record
`[kind |-> "nil"]`. The id is the clock modulo one million and nobody looks
whether it is in use, so `PostCluster` may register a live id anew:
`RegisterCluster` then replaces the connection, and the client only if there is
a new one. `Posted` and `Reported` bound the kinds of connections that are posted
and the statuses that are reported.

`ClusterSelection` is what the rest of the server relies on: a set of members
and a selected one, which changes only by an explicit choice, by the first join
and by the departure of the selected member.

### ClusterRequests (extends ClusterManager)

The two operations on workloads over the directory. A request is `resolved` (it
has taken the selected id, if it names none), then `picked` (it has a
client, or the local one in place of none), then `deleting`: one phase per
critical section of `getClientForRequest` and one for the call of
`pkg/actions`, whose outcome changes nothing here. Any step of the directory
may fall between. `Current` stands for the names "active" and "current", which
`GetClient` reads anew as the selection. Three history variables say what an id
means: `since` has the API servers that the registrations of an id have named
since it was last free, which is the one of its present registration unless ids
collide; `led` has what the id of a request has stood for in this sense since it
was resolved; and `bare` says whether it has been without a client of its own.

### AgentTunnel (uses ClusterManager)

The directory is an instance of ClusterManager that shares its variables, so
that routes and handlers run on one state. `handler[c]` is the program counter
of the handler goroutine of connection `c`, with one action per critical
section of `HandleAgentWebSocket`: register, mark connected, read, and the
three steps of the deferred cleanup (delete the registry entry, close, report).
`agent[k]` is the agent process: dialling, connected, or gone. A connection has
a link that may be cut without a word, an agent's end, and heartbeats on the
wire. `Tick` is one heartbeat period of 10 s; `Deadline` periods make up the
60 s read deadline, which a heartbeat does not extend. The directory registers
agent connections only here (`Posted <- {"agent"}`), and its reports are those of
the handlers. An id has one agent process, also when it was drawn twice.

### ReliabilityStore (refines ItemStore)

The five kinds of items have the same operations, written out once per kind in
the code (`reliability_store.go:326-564`, routes in `reliability.go:310-868` and
`1122-1189`); the model has them once, with `Kind` as a parameter. A request is
in a phase between two critical sections: `check` (an SLO that names an SLI),
`write`, `saving`. A save is two steps under the lock, since `os.WriteFile`
truncates the file and then writes it; `file = Unreadable` in between. Either
step may fail (`OpenFile`, `WriteBack`): a file that was not opened stays as it
was, one that was not written stays truncated, and in both cases the request is
answered as if it were saved. `unsaved` remembers that the last save failed, and
`MaxFailures` bounds how many do. `Stop` is the end of the process: `RunStart`
returns on SIGTERM without waiting for requests. `Start` is
`NewReliabilityStore`, which ignores the error of `load` and seeds the defaults
when there is no SLI.

`ItemStore` is the promise: a map changed one item at a time, in which no item
passes from one cluster to another, whose only other change is the return of
the defaults when no SLI is left; and a copy of it, `kept`, which a restart goes
back to. `Keep` says that every change is kept, or, where saves may fail
(`MayFail`), that it may not be; `Lose` is a save that fails half-way. The
refinement mapping reads memory while the server runs and the file while it does
not, and takes for `kept` what the file holds, or will hold when the save under
way succeeds. Without failures `kept` equals the items and a restart is a stutter.

`ClientIDs` says whether clients put ids of their own into a POST (the route
binds the id of the body and `SaveSLI` keeps it). The dashboard does not, and
the properties about ownership are stated for `ClientIDs = FALSE`; a POST with
the id of an existing item replaces it whichever cluster it is of.
`StopInSave` says whether the process may end inside a save.

### AlertStore

`Ingest` is `IngestWebhook` for one alert: a known alert keeps its cluster and
start, takes the new status, and takes a new end only from a resolved one.
`Deliver` is a webhook request, with the cluster of the URL or the one selected
at that moment. External, modelled from the payload the code expects: an
Alertmanager has a state per alert, sends it while it is due, sends it again
while the alert fires, and has one notification per alert on its way. A
notification, or its answer, may be lost. `Restart` forgets everything but the
samples.

### CliLifecycle

Every process is a command, and `pc` says where it is in `RunStart`, `RunStop`,
`RunRestart` or `RunStatus`. The shared state is the PID file, the port, and
the SIGTERMs in signal channels; a process that has not yet called
`signal.Notify` is killed by one. The readiness check asks whoever listens on
the port, so a process may take another's server for its own
(`AnsweredByAnother`, `BindLate`, `ServerError`). A member of `Slow` is not
reachable within 15 s; a member of `Hung` hangs once its server is up: it keeps
the port, in the end neither answers nor handles its signal, and goes only when
it is killed. The check asks with `http.Get`, which has no timeout, and looks at
its 15 s and at the error of its own server between two calls: a process that
asks a hung one (`AskHung`) is `asking` until that one has gone (`AskFails`).
`overlapped` records that a command was given while
another was still under way. The fallback of `main.go` that runs the server
without any command has no PID file and is left out.

### EventStream

One loop per watched resource and one handler per dashboard. `Lock`, `Write`,
`WriteFails` and `Unlock` are `Broadcast`, which holds the mutex while it writes
to one connection after the other, in the order of a Go map (any). A peer may
stall (a write to it does not return), resume or vanish; the write after that
may still succeed. `WatchEnds` is the end of a watch, after which the loop
returns for good, and `ErrorEvent` is the type assertion that panics on an error
event and takes the process down.

### ReliabilityEngine and ReliabilityOverview

`ReliabilityEngine` has the calculations, in exact integers: a percentage or a
latency is a number of thousandths, and what the code rounds to two decimals is
a number of hundredths. A value may also be `NaN`, which `Sscanf` accepts and
which Prometheus answers for the 0 / 0 of an idle service, or `Infinity`, which
is above every threshold: comparisons with NaN fail, so that each calculation
takes the branch the code falls through to. `ReliabilityOverview` has the routes
that evaluate: `route` is the one requested. The overview copies the items,
queries Prometheus once for each SLI, again for the SLI of each SLO, then for
each SLA, and resolves missing SLI targets from the store as it is by then; the
three list routes do one of these parts (`DueSLIs`, `DueSLOs`, `DueSLAs` say
which). The report of `GET /reliability` reads four rates one after the other
(`ReadNext`) and evaluates an SLO and an SLA of its own (`Report`). JSON has no
NaN and no infinity: an answer that holds one (`RowsEncode`, `ReportEncodes`)
ends the request in the phase `unencoded`, with status 200 and no body, and the
properties speak of the answers that are delivered. Between the steps telemetry
moves and SLOs are edited or deleted. Go's map order is the choice of which item
is next and of which SLO lends its target.

### WorkloadHealth, WorkloadSearch, WorkloadViews

`WorkloadHealth` has the rules as operators on records with the fields the
rules read: the health rules (`PodHealth`, ...), the counting rules
(`PodIsHealthy`, ...), the selectors, and the findings of the analyzer. What
Kubernetes guarantees of its reports is external and said in `PodReport` and
`DeploymentReport`. `WorkloadSearch` is the search from the query to the ranked
answer; a name or a term is a sequence of words, and contains another as a run
of whole words. What the search finds is a set of results; the order in which the
lists have them (`Catalog`) only decides between results of one score, as
`sort.SliceStable` does, so the answer is said without an accumulator: a result
comes after exactly those that are better (`Ahead`).

`WorkloadViews` is a request against a cluster that changes. A route is data:
what it lists in which order, and whether an error ends it, is skipped or reads
as an empty list. `List`, `ListFails`, `GetEndpoints` and `GetEndpointsFails`
are the calls of a request, `Move` a change of the cluster between two calls,
and `Answer` ends it. What a request has got of a kind is a set of objects, each
a record of its key and its state (`got`); `missing` has the services whose
endpoints could not be got. The answers themselves (`Overview`, the nodes and
edges of the topology, `SearchAnswer`, the findings) are operators on what was
got. `was` is a history variable: what each object has been during the request.
The properties compare an answer with what was so all the time (`Steady`) and
with what was so at some time (`Ever`).

All these routes read through the client of the local kubeconfig, whatever
cluster is selected; only the operations of ClusterRequests look at the
directory.

## 3. Runs

| Run | Instance and bounds | Properties |
| --- | --- | --- |
| `cluster_directory` | local-dev and 2 generated ids that may be drawn again, 2 API servers, connections with and without a client, 1 request | `SelectionValid`, `ClientOfItsCluster`, `LocalDevStays`, refinement `SelectionSpec`, `OperatesWhereLed` |
| `agent_tunnel` | local-dev and 1 agent cluster, 2 connection slots, deadline of 3 periods, 1 heartbeat on the wire, faults | `RegistryServed`, `ConnectedHasHandler`, `DeadTunnelReported`, `LiveTunnelReported` |
| `agent_deadline` | the same without faults | violates `TunnelMaintained` |
| `reliability_store` | 2 clusters, SLIs and SLOs, 2 ids, 1 field, 2 requests, 1 save that fails | `FileFollowsMemory`, `OwnershipFixed`, `SloWithinCluster`, refinement `ItemStoreSpec` |
| `store_patch` | SLIs only, 2 fields of 2 values, 2 requests | violates `PatchPreserves` |
| `store_restart` | SLIs only, the process may end inside a save | violates `AcknowledgedKept` |
| `alert_store` | 2 clusters, 1 alert each (one whose receiver names its cluster), 2 episodes | `AnsweredIsStored`, `ResolvedHasEnd`, `ResolvedClears`, `FiringShown` |
| `cli_lifecycle` | 3 commands: a normal one, one whose server is late, one whose server hangs | `ServerIsNamed`, `ServiceRestored`, `CommandsEnd` |
| `cli_two_starts` | the same | violates `StopTellsTruth` |
| `event_stream` | 2 watchers with 2 and 1 events, 2 dashboards | `SameStream`, `NoOrphans`, `Delivered` |
| `overview` | 1 SLI, 2 SLOs, 1 SLA, targets 99.9 and 100, readings below, at, just above and far above 99.9, NaN and infinite, rates of the report that amount to none, NaN, less than 99.9, 99.9, 100 and more, one change during the request | `Truthful`, `BudgetMeansTarget`, `BurnWarns`, `SteadyVerdicts`, `PerfectScore` |
| `workload_views` | 2 namespaces, up to 2 objects of a kind, 10 scenes in which 2 or 3 objects vary, 2 changes and 1 failed call during a request, answers of 2 results | `FiguresBracketed`, `EdgesAnchored`, `FoundOrOutranked`, `CleanBill` |

Each passing run also checks the type invariant of its module.

Why the bounds are enough. Two connection slots hold an old handler and the one
that replaces it, the only handlers of a cluster that can disturb each other at
once; a deadline of 3 lets heartbeats be read before it passes. Two requests
make every pair of operations overlap, and two ids let a deleted item come back
while another kind refers to it. Two episodes let an alert fire again. Three
commands are a server, one that replaces it and one that watches or interferes.
Two watchers and two dashboards are enough for different orders. The readings of
`overview` fall on both sides of every threshold of an SLO at 99.9 %. One save
that fails is followed by saves that succeed, by restarts, or by both. A request
of `cluster_directory` reads nothing that other requests write, so one is
enough; the proof has any number. In `workload_views` two namespaces with equal
names tell objects apart that a lookup by name confuses, two changes let an
object go and come back, and a limit of 2 results is exceeded by three hits. The
scenes vary together what a rule or an edge relates: a service with its own
endpoints and those of a namesake, a pod with its replica set and deployment, a
pod with its events. What is proved does not depend on bounds.

Deadlock is checked except where the system ends by itself: after the last
command (`cli_*`), when the server has gone down or every watch has ended
(`event_stream`), and after the answer (`overview`). Symmetry is used for the
generated cluster ids, the request slots and the SLOs of `overview`, in runs
without liveness properties only.

Bounds that appear in guards: `MaxInFlight`, `MaxEpisode`, `MaxEvents`,
`MaxChanges`, `MaxMoves`, `MaxFailures` (of calls in WorkloadViews, of saves in
ReliabilityStore), and the sets `Posted` and `Reported`: an agent connection has
no client, as one without a token has none, and a report changes only a status.
Each limits the environment and never the code.

### Fairness

- AgentTunnel: weak fairness of every handler and of every agent's loop (the Go
  scheduler runs them), and of `Tick` (time passes). None of routes, faults or
  the lifetime of an agent.
- AlertStore: an Alertmanager repeats and sends what is due (weak), and a
  notification that is sent again and again arrives at some time (strong
  fairness of `Deliver`, an assumption about the network). Nothing of Garund.
- CliLifecycle: weak fairness of every process; the waits of the code are
  bounded by 15 s between two questions and by 5 s, and that is what
  `FailToStart` and the kill in `AwaitExit` stand for. The question itself is not
  bounded: `AskFails` is enabled only when the process asked has gone.
- EventStream: weak fairness of handlers and watcher loops while the server is
  up. A write to a stalled peer is not enabled, so `Delivered` says outright
  that no peer stalls for good: there is no write deadline in the code.

### What the violations show

1. `agent_deadline`: the read deadline of an agent connection is extended only
   by pongs, the server sends no pings, and a heartbeat does not extend it.
   Every agent is disconnected a minute after it connected.
2. `store_patch`: two PATCHes of different fields of an SLI that overlap: the
   second to be saved undoes the first.
3. `store_restart`: a restart in the middle of a save loses all acknowledged
   items; the defaults replace them.
4. `cli_two_starts`: of two overlapping starts, the one that fails deletes the
   PID file of the other, and `garund stop` then says that nothing runs.

`PROJECT.json` quotes the line of the repository each of them contradicts.

Met while modelling, without a run of their own:

- A cluster without SLOs has an overall score of 100 although Prometheus cannot
  be reached (`reliability.go:1323`; `README.md:40` of the repository says that
  Garund never defaults to green). `PerfectScore` is stated for clusters with
  SLOs.
- `GET .../slis` asks for another metric than the overview: it passes the type
  of an SLI as the metric (`reliability.go:259`), so that an availability SLI
  without a query of its own is read from a metric named `availability` and
  shows no data, while the overview evaluates `http_requests_total`. The model
  names a query by its SLI and has one route at a time, so `Truthful` is about
  the query that the route makes.
- The history route draws 25 points of 99.95 when Prometheus cannot be reached
  or has no data (`reliability.go:1379-1390`; `README.md:40` of the repository
  says that Garund never fabricates health data). It is left out of the model,
  for `Truthful` cannot hold of it.
- An SLA with a latency target is compliant whatever the latency:
  `EvaluateSLA` takes a latency and does not look at it, and the lists and the
  overview pass none.
- In the report, rates asked for at different moments are divided: the
  availability is cut at 100 %, the error rate is not and may exceed it. A
  service without errors has an empty error rate and shows "unavailable".
- A restart or delete for a registered cluster that has no client, as every
  agent cluster, goes to the pod of that name in the local cluster
  (`server.go:588`). `OperatesWhereLed` names it as the exception: the local
  server, for an id that had no client of its own during the request.
- Two clusters may draw one id (`server.go:700`). The second replaces the first,
  and if it brings no client of its own it keeps the first one's (`cluster.go:109`),
  so that operations meant for it reach the API server of the first.
  `ClientOfItsCluster` bounds this to servers the live id was registered with.
- `garund start` may wait for good, although it says "within 15 seconds"
  (`start.go:140`, `154`), when another process has taken the port between its
  probe and its server and hangs. `CommandsEnd` excepts exactly this (`HeldUp`).
- The default queries of an idle service are 0 / 0 (`promql_builder.go:74`, `99`),
  `prometheus.go:214` reads NaN as a value, and one such SLI leaves the whole
  list, overview or report without a body. The evaluations themselves disagree
  about it: the SLI is critical, its SLO healthy, and an SLA is compliant, which
  the list of SLAs does answer since it shows no value.
- `/health-score` answers 100 when its events cannot be listed
  (`server.go:2311`), and crash loops and restarts lower it only by their
  warning events (`README.md:32` of the repository names all three).
- The topology shows every ExternalName service as critical, for it has no
  endpoints to get, although `serviceIsHealthy` accepts it and the overview
  counts it as healthy (`server.go:1484-1495`, `558-560`).
- The edge of a pod names its replica set without looking whether the set was
  listed: `EdgesAnchored` allows it for a set that came or went meanwhile.
- `/analyze/deployment` puts every warning event of the namespace down to each
  pod of the deployment, and the analyzer calls a completed pod not ready.
- A restart with no SLI left seeds all the defaults, also over a default SLO, SLA
  or policy that was changed since (`reliability_store.go:203`): the emptiness of
  one kind decides about all. `GracefulRestartsKeep` has it as the exception.
- `EvaluateSLO` is given the type of the SLI and does not ask for it: an error
  rate of nothing is a healthy SLI and exhausts every SLO over it
  (`NoErrorsExhaust`), and a growing one fills the budget
  (`BudgetsFollowValues`).
- Ids in the topology are joined with dashes, which names may contain, so that
  objects of two namespaces may share an id (`server.go:1462`).

## 4. Proofs

All theorems are for arbitrary constants, under the `ASSUME`s of the modules.

**ClusterRequestsProofs.** First the directory alone: the inductive invariant
`ClusterInv` adds two parts to the properties: before the router serves nothing
is registered (`BootEmpty`), and local-dev, once registered, is a kubeconfig
connection (`LocalKind`). Without the first, discovery could overwrite a
connection of another API server while its client stays; without the second,
deletion could remove local-dev. `NextCases` reduces every step to a
registration, a report, a deletion or a selection, and one lemma says what each
does to the set of registered ids. From the invariant follow `TypeCorrect`,
`SelectionAlwaysValid`, `LocalDevOutlivesAll`, and `ImplementsSelection`, the
refinement of `ClusterSelection`. Then the requests: `ImplementsDirectory` shows
that a step of a request leaves the directory alone, so that what is proved of
ClusterManager holds under requests. `ClientsMatch` needs that the history of an
id has the server of its present registration and nothing while the id is free
(`Noted`): a client given with a registration is then in the history, and one
that a collision leaves in place was there before. For `OperationsStayWhereLed`
the invariant follows a request through its phases: until it has a client its
history holds what its id stands for now, and whether it has no client
(`LooksThere`), and afterwards where its client points (`FoundThere`). Neither
assumes anything of the ids that are drawn.

**AgentTunnelProofs.** `TunnelInv` is the conjunction of the three invariants,
which is inductive: a registry entry exists only between a handler's
registration and its cleanup, whoever deletes it, and CONNECTED is reported only
by handlers that have yet to clean up. One lemma treats the steps that touch
neither registry nor status, and one each the handler's steps and the routes.
Theorems: `TunnelTypeCorrect`, `RegistryAlwaysServed`, `ConnectedNeverOrphaned`.

**ReliabilityStoreProofs.** `OwnershipFixed` and `SloWithinCluster` need the
requests that are under way: `OwnerInv` says that memory and file are sound (an
item is of the cluster its id was first used for, an SLO refers to an SLI id of
its cluster), that so is every pending request that updates an id
(`PendingSound`), and that default ids are of local-dev (`DefaultsOwned`). The
history variable `firstOwner` remembers ids after their items are deleted,
which is what makes a late update of a deleted item sound. From it follow
`StoreTypeCorrect`; `OwnershipNeverMoves` and `ReferencesStayWithin`, both for
stores whose clients choose no ids; `FileAlwaysFollows`, with any number of saves
that fail and with stops inside of them; and `ImplementsItemStore`, also for any
number of failures, which assumes that no stop interrupts a save (`store_restart`
shows that it fails otherwise).

Two more theorems say how far the properties hold that runs refute. `RestartInv`
follows the history variable `acked`, of what was last answered: memory when the
lock is free, and the file when nothing runs, are what it holds, or that with the
defaults brought back (`Kept`). So `GracefulRestartsKeep`, under any interleaving
of requests and any number of restarts outside of saves, and
`AcknowledgedKeptGracefully`: `AcknowledgedKept` as long as an SLI is left. Both
assume that no save fails (`MaxFailures = 0`), for a failed one is answered too.
`PatchInv` says that a pending PATCH still differs from its SLI in one field
(`Merged`). That is inductive exactly while no two requests in flight are about
one SLI (`Apart`), which is why `PatchPreservesAlone` has it as a hypothesis
about the behaviour; requests about different SLIs may interleave as they like. A
server with one request at a time satisfies it (`PatchPreservesInSequence`).

**ReliabilityOverviewProofs.** `Quotient` and `Rounding` say when a rounded
quotient is at least a number; from them `SoundSLO` follows, which relates
budget, status and burn rate of an SLO for every target below 100 % and every
value, and says of NaN that the SLO is healthy with a value, a budget and a burn
rate that JSON cannot hold; `BudgetsFollowValues`, that a higher value never leaves less, and
`NoErrorsExhaust`, what that means where less is better; and `Percentage`, that
a score of 100 is no rounding. The inductive invariant `OverviewInv` says that
what Prometheus answers now is among what has been witnessed (`Asked`), that
every row rests on something witnessed (`Rows`) and that the answer is made of
the rows and can be encoded when it is delivered (`Answered`). Without the
first, a step that reads would not be known to read something witnessed; without
the last, the SLO of a NaN, healthy with nothing above its target, would refute
`BudgetMeansTarget`. From it follow `VerdictsAreTruthful`, `BudgetsMeanTargets`,
`BurnRatesWarn`, `PerfectScoresAreEarned` and `TypeCorrect`. `VerdictsAgree`
also needs `Steady`: until the first change, every row is what would be
evaluated now. All of them hold for any finite set of SLOs, any items and
targets, readings that are NaN or any natural number, and any number of changes;
the arithmetic is exact, so nothing is said of float64.

**EventStreamProofs.** `SameStream` is not inductive: that two dashboards see
the same events says nothing of the broadcast that is half done. `StreamInv`
places every inbox in the history of all events sent: it repeats that history
from the connection's registration on, and lacks at most the last event, and
that only while the broadcast under way has yet to come to it (`InStep`). For
that the last event sent must be the one its watcher has just taken
(`LastIsTaken`), and a handler that is not registered yet must have a fresh
connection (`Newcomers`). From it `DashboardsAgree` and `NoConnectionLeaks`; and
with `BroadcastOnce`, `EachEventOnce`: a dashboard sees the events of one watcher
in the order they were taken, none twice.

**AlertStoreProofs.** `StoreInv` relates the three places of an alert: what is
on the wire is of this episode or an earlier one and is still owed an answer
(`WireIsDue`), and what is stored began no later than what is on the wire
(`StoredIsEarlier`), without which an update could give a resolved alert an end
before its start. Theorems: `TypeCorrect`, `ResolvedAlertsEnded`,
`ScopedAlertsStay` (an alert whose receiver names a cluster is stored for that
cluster, whatever is selected meanwhile). `AnswersAreStored` assumes that an
alert has one key (`Fingerprinted`), which is so whenever Alertmanager sends its
fingerprint, as it always does. Without one, `alertmanager.go:215` hashes the
labels in the order of a Go map, so that an update may go to another key.

**CliLifecycleProofs.** While commands do not overlap, `Orderly` describes the
one that runs and the one server there may be: no server is signalled before the
command that stops it has it in mind, and past the look at the PID file none is
left that the command does not know of (`CommandKnows`); a process that starts a
server has its name in the file and, once it listens, the port (`StarterNamed`),
also while its question is held up. Commands that do overlap break this
(`cli_two_starts`), hence the invariant `~overlapped => Orderly`. Theorems:
`TypeCorrect`, `ServerAlwaysNamed`, and `AloneStopTellsTruth`: the action
property that `cli_two_starts` refutes holds of every step until commands
overlap.

**WorkloadViewsProofs.** An answer is made of lists of different moments; what
it says is true of the time the request took. The invariant `ViewsInv` brackets
what was got: everything in it was there at some time of the request (`Sound`),
and what was there all the time and is selected is in it once its kind has been
listed (`Complete`). Both speak of the history of the request, which always
contains the present (`Remembered`). `Complete` alone is not inductive: the pods
of an analysed deployment are selected by the deployment that was got, so that
it must have been got before and stay the same, which `TodoInOrder` says.
`RouteFacts` states what all routes have in common (no kind is listed twice,
only a search and a health score go on after a failed list). Theorems, for any
objects and scenes, any number of changes and of failures: `TypeCorrect`;
`TopologyHolds`, that is `EdgesAnchored`; `FiguresHold`, that is
`FiguresBracketed`, where an injection from objects to their keys bounds a count
from above and one from keys to objects bounds it from below; and
`CleanBillsAreDeserved`, that is `CleanBill`; and `SearchesFind`, that is
`FoundOrOutranked`. The analyses rest on how the rules
relate for all reports and counts: `CleanPod` (a pod without findings is healthy
by both other rules), `HealthyDeployment` and its partial converse
`CleanDeployment`, which needs that there is no surplus and nothing unavailable:
there the views do disagree. The search rests on its order: `Ordered` shows that
`Better` is a strict total order on results, where the place in a list decides
last, and `Ranked` that the number of better results is then an injection onto
`0 .. n - 1`, so that the answer has every result once, at the place of its rank,
and a result that is cut off has as many better ones before it as the answer may
have. What was there all the time is got (`Complete`), is the result it was
(`MatchIsHit`), and is either answered or outranked. Neither needs induction over
the text of a name: the theorem holds whatever a score is, as long as it is a
number. Of the instance, `ViewsAssumption` asks that the
catalog has every key an object or an owner may have, that endpoints are named
as their services, and what Kubernetes guarantees of its reports, the five
phases of a pod among it.

Only model-checked are the liveness properties, which TLAPS does not prove under
fairness: `DeadTunnelReported`, `LiveTunnelReported`, `ResolvedClears`,
`FiringShown`, `ServiceRestored`, `CommandsEnd`, `Delivered`. What a word or a
name is matched to (`Within`, `Join`) is defined over sequences, which TLC
evaluates and no proof looks into.

## 5. Plan

Done, in this order: the directory with its refinement; the tunnel composed with
it; the store with its refinement; alerts; the command line; the stream; the
engine with the overview, the lists and the report; the workload operations
composed with the directory; the workload rules, search and routes. Every safety
property that a passing run checks is proved, and of those that runs refute, the
safety properties are proved under the condition that excludes the refutation
(section 4).

Next, to model:

1. The Prometheus and Alertmanager URLs in ReliabilityStore.
2. The synthetic probe.

Next, to prove, with a lemma about sequences that a prover for induction could
check: what `SearchScore` gives a name that a term is part of.

## 6. Not modelled

- Pure I/O and formatting: the Prometheus client and PromQL builder, delivery of
  notifications with the SSRF filter, telemetry export, `doctor`, `logs`,
  `version`, generation of Prometheus rules and agent manifests.
- The dashboard (`src/frontend`), which keeps no state the server relies on, and
  `src/backend`, which is not linked.
- The history route, which draws a curve from a range query or makes one up
  (section 3).
- Requests of the workload routes that lack a parameter, fields that are passed
  through to the dashboard, and operators without a caller
  (`MatchDeploymentToPods`, `DeploymentNameFromPod`, `DescribePod`).
- Reuse of PIDs by the operating system, and notifications of one alert that
  overtake each other.
- Negative readings and negative infinity, which no query of the code yields by
  itself.
- Floating-point representation: the engine is exact here, so that verdicts for
  values within rounding error of a threshold are not covered.
