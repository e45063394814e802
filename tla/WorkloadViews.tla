--------------------------- MODULE WorkloadViews ---------------------------
(***************************************************************************)
(* The routes of server.go that show the workloads of the local cluster.   *)
(* A request lists one kind after the other, each in a call of its own,    *)
(* and answers from the lists; the cluster changes between the calls, so   *)
(* the lists of one answer may be of different moments.  All routes read   *)
(* through the client of the local kubeconfig, whatever cluster is         *)
(* selected.                                                               *)
(*                                                                         *)
(* A route is what it lists, in which order, and what an error of a list   *)
(* does: "fail" answers 500, "skip" goes on without the kind (search) and  *)
(* "empty" as if the list were empty (health-score).  "single" routes get  *)
(* the object they are asked about first, and answer 404 without it.       *)
(*                                                                         *)
(* Left out: fields that are passed through to the dashboard, tracing, and *)
(* requests that lack a parameter.                                         *)
(***************************************************************************)
EXTENDS WorkloadSearch

CONSTANTS
    Objects,        \* per kind, the objects there may be: a key in some state
    Absent,         \* in place of an object that does not exist
    Usual,          \* the object at each item that does not vary
    Scene,          \* a sequence of what is looked at together: the requests
                    \* that are made (asks) and what each item that varies may
                    \* become (vary)
    AnyNs,          \* no namespace parameter
    MaxMoves,       \* bound: changes of the cluster during a request
    MaxFailures     \* bound: calls of a request that fail

Kind == {"Pod", "Service", "Deployment", "ReplicaSet", "Namespace", "Node",
         "StatefulSet", "DaemonSet", "Event", "Endpoints", "SLO", "SLI", "Alert"}

ClusterScoped == {"Namespace", "Node"}
InProcess     == {"SLO", "SLI", "Alert"}    \* read from Garund's own stores

Text == Seq(STRING)
Key  == [ns : Text, name : Text]

KeyOf(o) == [ns |-> o.ns, name |-> o.name]

Keys == [kind \in Kind |-> {Catalog[kind][i] : i \in DOMAIN Catalog[kind]}]
Item == UNION {{kind} \X Keys[kind] : kind \in Kind}

MayBecome(item) == {o \in Objects[item[1]] : KeyOf(o) = item[2]} \cup {Absent}

(* The parameters, as definitions that TLC evaluates once.                 *)
Still == Usual
Stage == Scene

VARIABLES
    scene,          \* the index of the scene, for good
    world,          \* the object at each item that varies
    was,            \* history: the objects that were there in the request
    request         \* what is asked, what is left to read, what was read

vars == <<scene, world, was, request>>

Vary        == DOMAIN Stage[scene].vary
MayBe(item) == Stage[scene].vary[item]

-----------------------------------------------------------------------------
(* The routes.                                                             *)

Route(name, reads, onError) ==
    [name |-> name, reads |-> reads, onError |-> onError, single |-> FALSE]

PodsRoute          == Route("pods", <<"Pod">>, "fail")
NamespacesRoute    == Route("namespaces", <<"Namespace">>, "fail")
DeploymentsRoute   == Route("deployments", <<"Deployment">>, "fail")
ServicesRoute      == Route("services", <<"Service">>, "fail")
ReplicaSetsRoute   == Route("replicasets", <<"ReplicaSet">>, "fail")
NodesRoute         == Route("nodes", <<"Node">>, "fail")
EventsRoute        == Route("events", <<"Event">>, "fail")
NamespaceListRoute == Route("namespace-list", <<"Namespace">>, "fail")

OverviewRoute ==
    Route("overview", <<"Pod", "Deployment", "ReplicaSet", "Node", "Service",
                        "Event", "Namespace", "Endpoints">>, "fail")

(* "Backends" stands for one Get of the endpoints of each listed service.  *)
TopologyRoute ==
    Route("topology", <<"Service", "Deployment", "ReplicaSet", "Pod", "Backends">>,
          "fail")

SearchRoute      == Route("search", SearchOrder, "skip")
HealthScoreRoute == Route("health-score", <<"Event">>, "empty")

Single(name, reads) ==
    [name |-> name, reads |-> reads, onError |-> "fail", single |-> TRUE]

ResourceRoute(kind)    == Single("resource", <<kind>>)
LogsRoute              == Single("logs", <<"Pod">>)
ResourceEventsRoute    == Route("resource-events", <<"Event">>, "fail")
AnalyzePodRoute        == Single("analyze/pod", <<"Pod", "Event">>)
AnalyzeDeploymentRoute == Single("analyze/deployment",
                                 <<"Deployment", "Pod", "Event">>)

Routes ==
    {PodsRoute, NamespacesRoute, DeploymentsRoute, ServicesRoute, ReplicaSetsRoute,
     NodesRoute, EventsRoute, NamespaceListRoute, OverviewRoute, TopologyRoute,
     SearchRoute, HealthScoreRoute, LogsRoute, ResourceEventsRoute, AnalyzePodRoute,
     AnalyzeDeploymentRoute} \cup {ResourceRoute(kind) : kind \in Kind}

Ask == [route : Routes, ns : {AnyNs} \cup Text, subject : Key, query : Seq(Text)]

Container == [ready : BOOLEAN, restarts : Nat, waiting : STRING]
PodPhase  == {"Pending", "Running", "Succeeded", "Failed", "Unknown"}

(* The endpoints of a service have its name, and the replica set that owns *)
(* a pod is one there may be.                                              *)
ASSUME ViewsAssumption ==
    /\ MaxMoves \in Nat /\ MaxFailures \in Nat
    /\ \A kind \in Kind :
          /\ Catalog[kind] \in Seq(Key)
          /\ \A o \in Objects[kind] : o # Absent /\ KeyOf(o) \in Keys[kind]
    /\ Keys["Service"] \subseteq Keys["Endpoints"]
    /\ \A item \in Item : Usual[item] \in MayBecome(item)
    /\ \A i \in DOMAIN Scene :
          /\ Scene[i].asks \subseteq Ask
          /\ DOMAIN Scene[i].vary \subseteq Item
          /\ \A item \in DOMAIN Scene[i].vary :
                Scene[i].vary[item] \subseteq MayBecome(item)
    /\ \A pod \in Objects["Pod"] :
          /\ PodReport(pod) /\ pod.containers \subseteq Container /\ pod.phase \in PodPhase
          /\ pod.owner # <<>> =>
                [ns |-> pod.ns, name |-> pod.owner] \in Keys["ReplicaSet"]
    /\ \A d \in Objects["Deployment"] : DeploymentReport(d)
    /\ \A svc \in Objects["Service"] : svc.external \in BOOLEAN

-----------------------------------------------------------------------------
(* Requests.                                                               *)

Nothing == [kind \in Kind |-> {}]
Idle    == [todo |-> <<>>]

(* The lists a request reads: a search for a kind leaves out the others,   *)
(* but not those of the stores.                                            *)
Reads(ask) ==
    LET type == ParseSearchQuery(ask.query).type
    IN  IF ask.route = SearchRoute /\ type # ""
        THEN <<type, "SLO", "SLI", "Alert">>
        ELSE ask.route.reads

(* The object of a single route, once it was got.                          *)
The(kind) == CHOOSE o \in request.got[kind] : TRUE

InNamespace(kind, key) ==
    request.ns = AnyNs \/ kind \in ClusterScoped \/ key.ns = request.ns

(* What a call selects: by namespace; a single route by name, and its      *)
(* events by the name they are about; the pods of an analysed deployment   *)
(* by its selector.                                                        *)
Selects(kind, o) ==
    /\ InNamespace(kind, KeyOf(o))
    /\ request.route.single /\ kind = request.route.reads[1] =>
          KeyOf(o) = request.subject
    /\ request.route \in {AnalyzePodRoute, ResourceEventsRoute} /\ kind = "Event" =>
          o.about = request.subject.name
    /\ request.route = AnalyzeDeploymentRoute /\ kind = "Pod" =>
          LabelsMatch(The("Deployment").selector, o.labels)

Present(item) == IF item \in Vary THEN world[item] ELSE Still[item]

(* The order of a list matters to nothing but the ties of a search.        *)
Listing(kind) ==
    {o \in {Present(<<kind, key>>) : key \in Keys[kind]} \ {Absent} : Selects(kind, o)}

Init ==
    /\ scene \in DOMAIN Stage
    /\ world \in {varied \in [Vary -> UNION {MayBe(item) : item \in Vary}] :
                    \A item \in Vary : varied[item] \in MayBe(item)}
    /\ was = [item \in Vary |-> {}]
    /\ request = Idle

Begin(ask) ==
    /\ request = Idle
    /\ request' = [route |-> ask.route, ns |-> ask.ns, subject |-> ask.subject,
                   query |-> ask.query, todo |-> Reads(ask), got |-> Nothing,
                   failed |-> {}, missing |-> {}, moves |-> 0]
    /\ was' = [item \in Vary |-> {world[item]}]
    /\ UNCHANGED <<scene, world>>

End ==
    /\ request' = Idle
    /\ was' = [item \in Vary |-> {}]

(* A list or get call.  A single route ends with 404 without its object.   *)
List(kind) ==
    /\ request # Idle
    /\ request.todo # <<>> /\ kind = Head(request.todo) /\ kind # "Backends"
    /\ IF request.route.single /\ kind = request.route.reads[1] /\ Listing(kind) = {}
       THEN End
       ELSE /\ request' = [request EXCEPT !.todo = Tail(@),
                                          !.got[kind] = Listing(kind)]
            /\ UNCHANGED was
    /\ UNCHANGED <<scene, world>>

Failures == Cardinality(request.failed) + Cardinality(request.missing)

(* Mutant: the error of a list is dropped on every route.                  *)
ListFailsQuietly(kind) ==
    /\ request # Idle
    /\ Failures < MaxFailures
    /\ request.todo # <<>> /\ kind = Head(request.todo)
    /\ kind \notin InProcess \cup {"Backends"}
    /\ request' = [request EXCEPT !.todo = Tail(@), !.failed = @ \cup {kind}]
    /\ UNCHANGED <<scene, world, was>>

ListFails(kind) ==
    /\ request # Idle
    /\ Failures < MaxFailures
    /\ request.todo # <<>> /\ kind = Head(request.todo)
    /\ kind \notin InProcess \cup {"Backends"}
    /\ IF request.route.onError = "fail"
       THEN End
       ELSE /\ request' = [request EXCEPT !.todo = Tail(@), !.failed = @ \cup {kind}]
            /\ UNCHANGED was
    /\ UNCHANGED <<scene, world>>

(* The services whose endpoints the topology has yet to get.               *)
Unresolved ==
    {KeyOf(svc) : svc \in request.got["Service"]}
        \ ({KeyOf(e) : e \in request.got["Endpoints"]} \cup request.missing)

AtBackends == request # Idle /\ request.todo = <<"Backends">>

(* One Get of endpoints, in the list order or, here, in any.  An error,    *)
(* and so a missing endpoints object, leaves the service critical.         *)
GetEndpoints(key) ==
    /\ AtBackends
    /\ key \in Unresolved
    /\ Present(<<"Endpoints", key>>) # Absent
    /\ request' = [request EXCEPT !.got["Endpoints"] =
                                     @ \cup {Present(<<"Endpoints", key>>)}]
    /\ UNCHANGED <<scene, world, was>>

GetEndpointsFails(key) ==
    /\ AtBackends
    /\ key \in Unresolved
    /\ \/ Present(<<"Endpoints", key>>) = Absent
       \/ Failures < MaxFailures
    /\ request' = [request EXCEPT !.missing = @ \cup {key}]
    /\ UNCHANGED <<scene, world, was>>

(* Everything is read: the answer is made from request.got.                *)
Answering ==
    /\ request # Idle
    /\ \/ request.todo = <<>>
       \/ AtBackends /\ Unresolved = {}

Answer == Answering /\ End /\ UNCHANGED <<scene, world>>

(* External: an object appears, disappears or changes during a request.    *)
Move(item, o) ==
    /\ request # Idle
    /\ request.moves < MaxMoves
    /\ o # world[item]
    /\ world' = [world EXCEPT ![item] = o]
    /\ was' = [was EXCEPT ![item] = @ \cup {o}]
    /\ request' = [request EXCEPT !.moves = @ + 1]
    /\ UNCHANGED scene

Next ==
    \/ \E ask \in Stage[scene].asks : Begin(ask)
    \/ \E kind \in Kind : List(kind) \/ ListFails(kind)
    \/ \E key \in Keys["Endpoints"] : GetEndpoints(key) \/ GetEndpointsFails(key)
    \/ \E item \in Vary : \E o \in MayBe(item) : Move(item, o)
    \/ Answer

Spec == Init /\ [][Next]_vars

-----------------------------------------------------------------------------
(* The answers, from the lists of the request.                             *)

Got(kind) == request.got[kind]

Tally(list, Healthy(_)) ==
    [healthy |-> Cardinality({o \in list : Healthy(o)}), total |-> Cardinality(list)]

(* Mutant: endpoints are looked up by name only.                           *)
EndpointsOfName(svc) == {e \in Got("Endpoints") : e.name = svc.name}

EndpointsOf(svc) == {e \in Got("Endpoints") : KeyOf(e) = KeyOf(svc)}

(* GET /overview: how many objects of a kind are healthy, and how many     *)
(* there are; of the namespaces, only the selected one is counted.         *)
Overview ==
    LET Selected == {ns \in Got("Namespace") : request.ns \in {AnyNs, ns.name}}
    IN  [Pod        |-> Tally(Got("Pod"), PodIsHealthy),
         Deployment |-> Tally(Got("Deployment"), DeploymentIsHealthy),
         ReplicaSet |-> Tally(Got("ReplicaSet"), ReplicaSetIsHealthy),
         Namespace  |-> Tally(Selected, NamespaceIsHealthy),
         Service    |-> Tally(Got("Service"),
                              LAMBDA svc : ServiceIsHealthy(svc, EndpointsOf(svc)))]

(* GET /topology.  Ids are joined with dashes, which names may contain.    *)
Id(kind, ns, name) == <<kind>> \o ns \o name

Verdict(healthy) == IF healthy THEN "healthy" ELSE "critical"

Node(kind, o, health) == [id |-> Id(kind, o.ns, o.name), health |-> health]

ServiceNodes ==
    {Node("Service", svc,
          Verdict(/\ KeyOf(svc) \notin request.missing
                  /\ ServiceIsHealthy(svc, EndpointsOf(svc)))) :
        svc \in Got("Service")}

DeploymentNodes ==
    {Node("Deployment", d, Verdict(DeploymentIsHealthy(d))) : d \in Got("Deployment")}

ReplicaSetNodes ==
    {Node("ReplicaSet", rs, Verdict(ReplicaSetIsHealthy(rs))) : rs \in Got("ReplicaSet")}

PodNodes == {Node("Pod", pod, PodHealth(pod)) : pod \in Got("Pod")}

Nodes == ServiceNodes \cup DeploymentNodes \cup ReplicaSetNodes \cup PodNodes

Edge(source, target) == [source |-> source, target |-> target]

DeploymentEdges ==
    UNION {{Edge(Id("Deployment", d.ns, d.name), Id("ReplicaSet", rs.ns, rs.name)) :
                d \in DeploymentsOfReplicaSet(rs, Got("Deployment"))} :
              rs \in Got("ReplicaSet")}

ServiceEdges ==
    UNION {{Edge(Id("Service", svc.ns, svc.name), Id("Pod", pod.ns, pod.name)) :
                pod \in MatchServiceToPods(svc, Got("Pod"))} :
              svc \in Got("Service")}

(* The owner of a pod is not looked up among the listed replica sets.      *)
PodEdges ==
    {Edge(Id("ReplicaSet", pod.ns, pod.owner), Id("Pod", pod.ns, pod.name)) :
        pod \in {pod \in Got("Pod") : pod.owner # <<>>}}

(* GET /health-score: ten points less for each warning event.              *)
HealthScore(warnings) == IF warnings >= 10 THEN 0 ELSE 100 - 10 * warnings

Warning(e) == e.type = "Warning"

(* The analysis of a pod or a deployment; it is healthy without findings.  *)
PodFindings == AnalyzePod(The("Pod"), Got("Event"))
DeploymentFindings == AnalyzeDeployment(The("Deployment"), Got("Pod"), Got("Event"))

-----------------------------------------------------------------------------
(* Properties.                                                             *)

Request ==
    [route : Routes, ns : {AnyNs} \cup Text, subject : Key, query : Seq(Text),
     todo : Seq(Kind \cup {"Backends"}),
     got : [Kind -> SUBSET UNION {Objects[kind] : kind \in Kind}],
     failed : SUBSET Kind, missing : SUBSET Keys["Endpoints"], moves : 0..MaxMoves]

(* Type correctness: lists hold objects of their kind in states they may   *)
(* have, no object twice, and only a search, a health score or a topology  *)
(* goes on after a call that failed.                                       *)
TypeOK ==
    /\ scene \in DOMAIN Stage
    /\ DOMAIN world = Vary /\ DOMAIN was = Vary
    /\ \A item \in Vary : world[item] \in MayBe(item) /\ was[item] \subseteq MayBe(item)
    /\ request # Idle =>
          /\ request \in Request
          /\ request.failed # {} => request.route \in {SearchRoute, HealthScoreRoute}
          /\ request.missing # {} => request.route = TopologyRoute
          /\ \A kind \in Kind :
                /\ request.got[kind] \subseteq Objects[kind]
                /\ \A o, p \in request.got[kind] : KeyOf(o) = KeyOf(p) => o = p

Had(item) == IF item \in Vary THEN was[item] ELSE {Still[item]}

(* The items of a kind in the scope of the request that have been as P     *)
(* says all the time, and those that have at some time.                    *)
InScope(kind) == {key \in Keys[kind] :
                     \/ request.ns = AnyNs
                     \/ request.ns = IF kind = "Namespace" THEN key.name ELSE key.ns}
Steady(kind, P(_)) ==
    {key \in InScope(kind) :
        \A o \in Had(<<kind, key>>) : o # Absent /\ P(o)}
Ever(kind, P(_)) ==
    {key \in InScope(kind) :
        \E o \in Had(<<kind, key>>) : o # Absent /\ P(o)}

Between(steady, n, ever) == Cardinality(steady) <= n /\ n <= Cardinality(ever)

(* The endpoints that a service has had, as sets of at most one.           *)
Backends(key) == {{e} \ {Absent} : e \in Had(<<"Endpoints", key>>)}

(* Every figure of an overview lies between what was so all the time and   *)
(* what was so at some time of the request, for its healthy and for its    *)
(* unhealthy objects: nothing is counted that was not there, or with the   *)
(* endpoints of something else, whatever changes between the eight lists.  *)
(* A health score lies between the warnings there were, if it was told.    *)
FiguresBracketed ==
    Answering =>
        /\ request.route = OverviewRoute =>
              /\ \A kind \in {"Pod", "Deployment", "ReplicaSet", "Namespace"} :
                    LET Healthy(o) ==
                            CASE kind = "Pod"        -> PodIsHealthy(o)
                              [] kind = "Deployment" -> DeploymentIsHealthy(o)
                              [] kind = "ReplicaSet" -> ReplicaSetIsHealthy(o)
                              [] kind = "Namespace"  -> NamespaceIsHealthy(o)
                        Sick(o) == ~Healthy(o)
                        count == Overview[kind]
                    IN  /\ Between(Steady(kind, Healthy), count.healthy,
                                   Ever(kind, Healthy))
                        /\ Between(Steady(kind, Sick), count.total - count.healthy,
                                   Ever(kind, Sick))
              /\ LET Served(key) ==
                        {ServiceIsHealthy(svc, endpoints) :
                            svc \in Had(<<"Service", key>>) \ {Absent},
                            endpoints \in Backends(key)}
                     There == Steady("Service", LAMBDA svc : TRUE)
                     count == Overview["Service"]
                 IN  /\ Between({key \in There : Served(key) = {TRUE}}, count.healthy,
                                {key \in InScope("Service") : TRUE \in Served(key)})
                     /\ Between({key \in There : Served(key) = {FALSE}},
                                count.total - count.healthy,
                                {key \in InScope("Service") : FALSE \in Served(key)})
        /\ request.route = HealthScoreRoute /\ request.failed = {} =>
              LET score == HealthScore(Cardinality({e \in Got("Event") : Warning(e)}))
              IN  /\ score <= HealthScore(Cardinality(Steady("Event", Warning)))
                  /\ score >= HealthScore(Cardinality(Ever("Event", Warning)))

(* Every edge of the topology joins two nodes of one namespace, but for    *)
(* the edge of a pod from a replica set that did not exist all the time;   *)
(* and an edge is drawn for every relation between objects that have been  *)
(* the same all the time.                                                  *)
EdgesAnchored ==
    Answering /\ request.route = TopologyRoute =>
        LET ids == {node.id : node \in Nodes}
            Now(kind) == {o \in Objects[kind] : /\ KeyOf(o) \in InScope(kind)
                                                /\ Had(<<kind, KeyOf(o)>>) = {o}}
            Fleeting == {key \in Keys["ReplicaSet"] : Absent \in Had(<<"ReplicaSet", key>>)}
        IN  /\ \A e \in DeploymentEdges \cup ServiceEdges \cup PodEdges :
                  /\ e.target \in ids
                  /\ \/ e.source \in ids
                     \/ \E key \in Fleeting : e.source = Id("ReplicaSet", key.ns, key.name)
                  /\ \E ns \in {key.ns : key \in Keys["Pod"] \cup Keys["ReplicaSet"]} :
                        /\ SubSeq(e.source, 2, 1 + Len(ns)) = ns
                        /\ SubSeq(e.target, 2, 1 + Len(ns)) = ns
            /\ \A pod \in Now("Pod") :
                  /\ pod.owner # <<>> =>
                        Edge(Id("ReplicaSet", pod.ns, pod.owner),
                             Id("Pod", pod.ns, pod.name)) \in PodEdges
                  /\ \A svc \in Now("Service") :
                        svc.ns = pod.ns /\ LabelsMatch(svc.selector, pod.labels) =>
                            Edge(Id("Service", svc.ns, svc.name),
                                 Id("Pod", pod.ns, pod.name)) \in ServiceEdges
            /\ \A rs \in Now("ReplicaSet"), d \in Now("Deployment") :
                  d.ns = rs.ns /\ d.name = rs.owner =>
                      Edge(Id("Deployment", d.ns, d.name),
                           Id("ReplicaSet", rs.ns, rs.name)) \in DeploymentEdges

(* A search finds every object that has matched the query all the time (by *)
(* its name, namespace or kind, or by its health, a pod also by its phase),*)
(* unless the list of its kind failed or the answer is full of results     *)
(* that match no worse; it shows the best first, and nothing that was not  *)
(* there as it is shown.                                                   *)
FoundOrOutranked ==
    Answering /\ request.route = SearchRoute =>
        LET query   == ParseSearchQuery(request.query)
            term    == query.term
            results == SearchAnswer(request.got, query)
            Health(kind, o) == CASE kind = "Pod"         -> PodHealth(o)
                                 [] kind = "Deployment"  -> DeploymentHealth(o)
                                 [] kind = "ReplicaSet"  -> ReplicaSetHealth(o)
                                 [] kind = "Node"        -> NodeHealth(o)
                                 [] kind = "StatefulSet" -> StatefulSetHealth(o)
                                 [] kind = "DaemonSet"   -> DaemonSetHealth(o)
            Rated == {"Pod", "Deployment", "ReplicaSet", "Node", "StatefulSet", "DaemonSet"}
            Matches(kind, key) ==
                /\ kind \in InProcess \/ Wants(query, kind)
                /\ IF term \in StatusTerms /\ kind \notin InProcess
                   THEN /\ kind \in Rated
                        /\ \A o \in Had(<<kind, key>>) :
                              \/ Health(kind, o) = term[1]
                              \/ kind = "Pod" /\ o.phase = term[1]
                   ELSE SearchMatches(key.name, key.ns, kind, term)
        IN  /\ \A i, j \in DOMAIN results : i < j => results[i].score >= results[j].score
            /\ \A r \in ToSet(results) :
                  \E o \in Had(<<r.kind, [ns |-> r.ns, name |-> r.name]>>) \ {Absent} :
                      r.kind \in Rated => r.health = Health(r.kind, o)
            /\ \A kind \in ToSet(SearchOrder) \ request.failed :
                  \A key \in Steady(kind, LAMBDA o : TRUE) :
                      Matches(kind, key) =>
                          \/ \E r \in ToSet(results) :
                                r.kind = kind /\ r.name = key.name /\ r.ns = key.ns
                          \/ /\ Len(results) = MaxResults
                             /\ \A r \in ToSet(results) :
                                   r.score >= SearchScore(key.name, key.ns, kind, term)

(* When the analysis of a pod finds nothing, every other view shows the    *)
(* pod as healthy, and no warning about it was there all the time.  When   *)
(* that of a deployment finds nothing, none of its pods has been anything  *)
(* but healthy, and it had its replicas; a warning event of its namespace  *)
(* is blamed on it as soon as it has a pod.                                *)
CleanBill ==
    Answering =>
        /\ request.route = AnalyzePodRoute /\ PodFindings = {} =>
              /\ PodHealth(The("Pod")) = "healthy"
              /\ PodIsHealthy(The("Pod"))
              /\ \A key \in Steady("Event", Warning) :
                    \E e \in Had(<<"Event", key>>) : e.about # request.subject.name
        /\ request.route = AnalyzeDeploymentRoute /\ DeploymentFindings = {} =>
              /\ DeploymentHealth(The("Deployment")) # "warning"
              /\ \A key \in Steady("Pod", LAMBDA pod : LabelsMatch(
                        The("Deployment").selector, pod.labels)) :
                    \E pod \in Had(<<"Pod", key>>) : PodHealth(pod) = "healthy"
              /\ Got("Pod") # {} => Steady("Event", Warning) = {}

=============================================================================
