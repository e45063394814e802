-------------------------- MODULE MCWorkloadViews --------------------------
(* Two namespaces in which everything has the same names, a few objects of *)
(* each kind, and scenes in which up to three of them vary.                *)
EXTENDS WorkloadViews

CONSTANTS absent, anyNs

Shop == <<"shop">>
Bank == <<"bank">>
Web  == <<"web">>
Web1 == <<"web", "1">>
Web0 == <<"web", "0">>

Name(ns, name) == [ns |-> ns, name |-> name]
Both(name)     == <<Name(Bank, name), Name(Shop, name)>>
Alone(name)    == <<Name(<<>>, name)>>

MCCatalog ==
    [Pod |-> Both(Web1), Service |-> Both(Web), Endpoints |-> Both(Web),
     Deployment |-> Both(Web), ReplicaSet |-> Both(Web0),
     Namespace |-> Alone(Bank) \o Alone(Shop), Node |-> Alone(<<"n1">>),
     StatefulSet |-> <<Name(Shop, <<"db">>)>>, DaemonSet |-> <<Name(Shop, <<"log">>)>>,
     Event |-> <<Name(Shop, <<"e1">>), Name(Shop, <<"e2">>)>>,
     SLO |-> Alone(Web), SLI |-> Alone(Web), Alert |-> Alone(<<"a1">>)]

-----------------------------------------------------------------------------
(* Pods.                                                                   *)
Box(ready, restarts, waiting) ==
    {[ready |-> ready, restarts |-> restarts, waiting |-> waiting]}

Pod(phase, boxes, ready, scheduled) ==
    [phase |-> phase, containers |-> boxes, ready |-> ready, scheduled |-> scheduled,
     labels |-> [app |-> "web"], owner |-> Web0]

Fine        == Pod("Running", Box(TRUE, 0, "none"), "True", "True")
Flaky       == Pod("Running", Box(TRUE, 5, "none"), "True", "True")
Gated       == Pod("Running", Box(TRUE, 0, "none"), "False", "True")
Crashing    == Pod("Running", Box(TRUE, 0, "none") \cup Box(FALSE, 1, "CrashLoopBackOff"),
                   "False", "True")
Unscheduled == Pod("Pending", {}, "none", "False")
Turned      == Pod("Failed", {}, "none", "none")
Done        == Pod("Succeeded", Box(FALSE, 0, "none"), "False", "True")
Lost        == Pod("Unknown", Box(TRUE, 0, "none"), "Unknown", "True")
Stray       == [Fine EXCEPT !.labels = [app |-> "db"], !.owner = <<>>]

-----------------------------------------------------------------------------
(* The other kinds.                                                        *)
Deploy(desired, ready, available, unavailable) ==
    [desired |-> desired, ready |-> ready, available |-> available,
     unavailable |-> unavailable, selector |-> [app |-> "web"]]
Replica(desired, ready, available) ==
    [desired |-> desired, ready |-> ready, available |-> available, owner |-> Web]
Svc(type, external, selector) ==
    [type |-> type, external |-> external, selector |-> selector]
Evt(type, about) == [type |-> type, reason |-> "BackOff", about |-> about]

MCStates ==
    [Pod         |-> {Fine, Flaky, Gated, Crashing, Unscheduled, Turned, Done, Lost, Stray},
     Deployment  |-> {Deploy(1, 1, 1, 0), Deploy(1, 2, 2, 0), Deploy(1, 0, 0, 1),
                      Deploy(1, 1, 0, 1), Deploy(1, 0, 0, 0), Deploy(0, 0, 0, 0)},
     ReplicaSet  |-> {Replica(1, 1, 1), Replica(1, 1, 0), Replica(1, 0, 0),
                      [Replica(1, 1, 1) EXCEPT !.owner = <<>>]},
     Service     |-> {Svc("ClusterIP", FALSE, [app |-> "web"]),
                      Svc("ClusterIP", FALSE, <<>>), Svc("ExternalName", TRUE, <<>>)},
     Endpoints   |-> {[addresses |-> 0], [addresses |-> 1]},
     Namespace   |-> {[phase |-> "Active"], [phase |-> "Terminating"]},
     Node        |-> {[ready |-> "True"], [ready |-> "Unknown"], [ready |-> "none"]},
     StatefulSet |-> {[desired |-> 1, ready |-> 1], [desired |-> 1, ready |-> 0]},
     DaemonSet   |-> {[desired |-> 1, ready |-> 1, unavailable |-> 0],
                      [desired |-> 1, ready |-> 0, unavailable |-> 1]},
     Event       |-> {Evt("Warning", Web1), Evt("Warning", Web0), Evt("Normal", Web1)},
     SLO         |-> {[type |-> "availability"]},
     SLI         |-> {[type |-> "latency"]},
     Alert       |-> {[status |-> "firing", summary |-> <<"web", "down">>]}]

(* By default one object of each kind is there and well, in shop; nothing  *)
(* is in bank, and there are no events.                                    *)
Well ==
    [Pod |-> Fine, Deployment |-> Deploy(1, 1, 1, 0), ReplicaSet |-> Replica(1, 1, 1),
     Service |-> Svc("ClusterIP", FALSE, [app |-> "web"]), Endpoints |-> [addresses |-> 1],
     Namespace |-> [phase |-> "Active"], Node |-> [ready |-> "True"],
     StatefulSet |-> [desired |-> 1, ready |-> 1],
     DaemonSet |-> [desired |-> 1, ready |-> 1, unavailable |-> 0],
     SLO |-> [type |-> "availability"], SLI |-> [type |-> "latency"],
     Alert |-> [status |-> "firing", summary |-> <<"web", "down">>]]

MCObjects ==
    [kind \in Kind |-> {key @@ state : key \in Keys[kind], state \in MCStates[kind]}]

MCUsual ==
    [item \in Item |-> IF item[1] = "Event" \/ item[2].ns = Bank
                       THEN absent ELSE item[2] @@ Well[item[1]]]

-----------------------------------------------------------------------------
(* The scenes.                                                             *)
AskIn(route, ns) ==
    [route |-> route, ns |-> ns, subject |-> Name(<<>>, <<>>), query |-> <<>>]
AskFor(route, ns, name) == [AskIn(route, ns) EXCEPT !.subject = Name(ns, name)]
Query(fields)           == [AskIn(SearchRoute, anyNs) EXCEPT !.query = fields]

InShop(kind, name) == <<kind, Name(Shop, name)>>
InBank(kind, name) == <<kind, Name(Bank, name)>>
Event1 == InShop("Event", <<"e1">>)
Event2 == InShop("Event", <<"e2">>)

Scn(asks, vary) == [asks |-> asks, vary |-> vary]

Overviews  == {AskIn(OverviewRoute, anyNs), AskIn(OverviewRoute, Shop)}
Topologies == {AskIn(TopologyRoute, anyNs), AskIn(TopologyRoute, Shop)}

(* What an item may become, by the states it may be in.                    *)
Becomes(item, states) ==
    item :> ({item[2] @@ state : state \in states \ {absent}} \cup (states \cap {absent}))

AllOf(kind)       == MCStates[kind] \cup {absent}
ThereOrNot(state) == {state, absent}
Typical           == {Fine, Crashing, Unscheduled, absent}
Rollouts          == {Deploy(1, 1, 1, 0), Deploy(1, 1, 0, 1), Deploy(1, 0, 0, 0), absent}
WebService        == Svc("ClusterIP", FALSE, [app |-> "web"])

MCScene ==
    <<Scn(Overviews, Becomes(InShop("Pod", Web1), Typical)
                     @@ Becomes(InBank("Pod", Web1), Typical)),
      Scn(Overviews, Becomes(InShop("Service", Web), AllOf("Service"))
                     @@ Becomes(InShop("Endpoints", Web), AllOf("Endpoints"))
                     @@ Becomes(InBank("Endpoints", Web), AllOf("Endpoints"))),
      Scn(Overviews, Becomes(InShop("Deployment", Web), Rollouts \cup {Deploy(1, 2, 2, 0)})
                     @@ Becomes(InShop("ReplicaSet", Web0), AllOf("ReplicaSet"))
                     @@ Becomes(<<"Namespace", Name(<<>>, Bank)>>, AllOf("Namespace"))),
      Scn(Topologies, Becomes(InShop("Pod", Web1), {Fine, Flaky, Stray, absent})
                      @@ Becomes(InShop("ReplicaSet", Web0), AllOf("ReplicaSet"))
                      @@ Becomes(InShop("Deployment", Web), ThereOrNot(Deploy(1, 1, 1, 0)))),
      Scn(Topologies, Becomes(InBank("Service", Web), AllOf("Service"))
                      @@ Becomes(InBank("Endpoints", Web), AllOf("Endpoints"))
                      @@ Becomes(InShop("Pod", Web1), {Fine, Stray, absent})),
      Scn({Query(<<>>), Query(<<Web>>), Query(<<<<"1">>>>), Query(<<<<"Pod">>>>),
           Query(<<<<"po">>, Web>>), Query(<<<<"critical">>>>),
           Query(<<<<"Running">>>>), Query(<<<<"down">>>>)},
          Becomes(InShop("Pod", Web1), {Fine, Crashing, Lost, absent})
          @@ Becomes(InBank("Pod", Web1), ThereOrNot(Fine))),
      Scn({Query(<<Web>>), Query(<<<<"critical">>>>), Query(<<<<"svc">>, Web>>),
           Query(<<<<"po">>, <<"Pending">>>>), Query(<<Shop>>)},
          Becomes(InBank("Deployment", Web), Rollouts)
          @@ Becomes(InShop("Service", Web), ThereOrNot(WebService))),
      Scn({AskFor(AnalyzePodRoute, Shop, Web1), AskFor(LogsRoute, Shop, Web1),
           AskFor(ResourceEventsRoute, Shop, Web1), AskIn(HealthScoreRoute, anyNs),
           AskIn(EventsRoute, anyNs)},
          Becomes(InShop("Pod", Web1), AllOf("Pod")) @@ Becomes(Event1, AllOf("Event"))
          @@ Becomes(Event2, ThereOrNot(Evt("Warning", Web1)))),
      Scn({AskFor(AnalyzeDeploymentRoute, Shop, Web)},
          Becomes(InShop("Pod", Web1), AllOf("Pod"))
          @@ Becomes(InShop("Deployment", Web), Rollouts)
          @@ Becomes(Event1, ThereOrNot(Evt("Warning", Web0)))),
      Scn({AskIn(PodsRoute, Shop), AskIn(NamespacesRoute, anyNs),
           AskIn(DeploymentsRoute, anyNs), AskIn(ServicesRoute, Shop),
           AskIn(ReplicaSetsRoute, anyNs), AskIn(NodesRoute, anyNs),
           AskIn(NamespaceListRoute, anyNs),
           AskFor(ResourceRoute("Deployment"), Shop, Web),
           AskFor(ResourceRoute("Pod"), Shop, Web1)},
          Becomes(InShop("Pod", Web1), Typical)
          @@ Becomes(InShop("Deployment", Web), AllOf("Deployment")))>>

=============================================================================
