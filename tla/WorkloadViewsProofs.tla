------------------------ MODULE WorkloadViewsProofs ------------------------
(***************************************************************************)
(* WorkloadViews, proved: whatever changes between the calls of a request, *)
(* its answer is true of the time it took.  An inductive invariant says    *)
(* that what was got lies between what was there all the time and what was *)
(* there at some time; the topology, the figures of the overview, the      *)
(* searches and the clean analyses follow, the latter with how the         *)
(* verdicts of WorkloadHealth relate for every report of Kubernetes.       *)
(***************************************************************************)
EXTENDS WorkloadViews, FiniteSetTheorems, TLAPS

(* What a route may call: the list of a kind, or the endpoints of          *)
(* services.                                                               *)
Called == Kind \cup {"Backends"}

(* No kind is listed twice.                                                *)
ReadOnce(reads) == \A i, j \in DOMAIN reads : reads[i] = reads[j] => i = j

(* What the routes of server.go have in common: each lists a kind at most  *)
(* once, only the topology gets endpoints one by one, only a search and a  *)
(* health score go on after a failed list, and a route about one object    *)
(* gets that object first.                                                 *)
LEMMA RouteFacts ==
    ASSUME NEW r \in Routes
    PROVE  /\ r.reads \in Seq(Called)
           /\ ReadOnce(r.reads)
           /\ \A i \in DOMAIN r.reads : r.reads[i] = "Backends" => r = TopologyRoute
           /\ r.onError # "fail" => r \in {SearchRoute, HealthScoreRoute}
           /\ r.single \in BOOLEAN
           /\ r.single => r.reads # <<>> /\ r.reads[1] \in Kind
<1> USE DEF Route, Single, Called, Kind, ReadOnce
<1>1. CASE r = PodsRoute
  BY <1>1 DEF PodsRoute
<1>2. CASE r = NamespacesRoute
  BY <1>2 DEF NamespacesRoute
<1>3. CASE r = DeploymentsRoute
  BY <1>3 DEF DeploymentsRoute
<1>4. CASE r = ServicesRoute
  BY <1>4 DEF ServicesRoute
<1>5. CASE r = ReplicaSetsRoute
  BY <1>5 DEF ReplicaSetsRoute
<1>6. CASE r = NodesRoute
  BY <1>6 DEF NodesRoute
<1>7. CASE r = EventsRoute
  BY <1>7 DEF EventsRoute
<1>8. CASE r = NamespaceListRoute
  BY <1>8 DEF NamespaceListRoute
<1>9. CASE r = OverviewRoute
  BY <1>9 DEF OverviewRoute
<1>10. CASE r = TopologyRoute
  BY <1>10 DEF TopologyRoute
<1>11. CASE r = SearchRoute
  BY <1>11 DEF SearchRoute, SearchOrder
<1>12. CASE r = HealthScoreRoute
  BY <1>12 DEF HealthScoreRoute
<1>13. CASE r = LogsRoute
  BY <1>13 DEF LogsRoute
<1>14. CASE r = ResourceEventsRoute
  BY <1>14 DEF ResourceEventsRoute
<1>15. CASE r = AnalyzePodRoute
  BY <1>15 DEF AnalyzePodRoute
<1>16. CASE r = AnalyzeDeploymentRoute
  BY <1>16 DEF AnalyzeDeploymentRoute
<1>17. ASSUME NEW kind \in Kind, r = ResourceRoute(kind)
       PROVE  /\ r.reads \in Seq(Called)
              /\ ReadOnce(r.reads)
              /\ \A i \in DOMAIN r.reads : r.reads[i] = "Backends" => r = TopologyRoute
              /\ r.onError # "fail" => r \in {SearchRoute, HealthScoreRoute}
              /\ r.single \in BOOLEAN
              /\ r.single => r.reads # <<>> /\ r.reads[1] \in Kind
  BY <1>17 DEF ResourceRoute
<1>18. QED
  BY <1>1, <1>2, <1>3, <1>4, <1>5, <1>6, <1>7, <1>8, <1>9, <1>10, <1>11, <1>12, <1>13,
     <1>14, <1>15, <1>16, <1>17 DEF Routes

(* Every alias of the search names a kind of the cluster, or none.         *)
LEMMA AliasKind == \A text : Alias(text) \in (Kind \ InProcess) \cup {""}
  BY DEF Alias, Kind, InProcess

(* So does the type of every parsed query.                                 *)
LEMMA QueryType ==
    \A fields : ParseSearchQuery(fields).type \in (Kind \ InProcess) \cup {""}
  BY AliasKind DEF ParseSearchQuery

(* The lists that a request starts with keep what RouteFacts says, also    *)
(* when a search leaves out all kinds but one.                             *)
LEMMA ReadsFacts ==
    ASSUME NEW ask \in Ask
    PROVE  /\ Reads(ask) \in Seq(Called)
           /\ ReadOnce(Reads(ask))
           /\ \A i \in DOMAIN Reads(ask) :
                 Reads(ask)[i] = "Backends" => ask.route = TopologyRoute
           /\ ask.route # SearchRoute => Reads(ask) = ask.route.reads
<1> DEFINE type == ParseSearchQuery(ask.query).type
<1>1. CASE ask.route = SearchRoute /\ type # ""
  <2>1. type \in Kind \ InProcess
    BY <1>1, QueryType
  <2>2. Reads(ask) = <<type, "SLO", "SLI", "Alert">>
    BY <1>1 DEF Reads
  <2>3. type \in Called /\ type \notin {"SLO", "SLI", "Alert", "Backends"}
    BY <2>1 DEF Called, Kind, InProcess
  <2> HIDE DEF type
  <2>4. <<type, "SLO", "SLI", "Alert">> \in Seq(Called)
    BY <2>3 DEF Called, Kind
  <2>5. ReadOnce(<<type, "SLO", "SLI", "Alert">>)
    BY <2>3 DEF ReadOnce
  <2>6. \A i \in DOMAIN <<type, "SLO", "SLI", "Alert">> :
           <<type, "SLO", "SLI", "Alert">>[i] # "Backends"
    BY <2>3
  <2>7. QED
    BY <1>1, <2>2, <2>4, <2>5, <2>6
<1>2. CASE ~(ask.route = SearchRoute /\ type # "")
  <2>1. Reads(ask) = ask.route.reads
    BY <1>2 DEF Reads
  <2>2. ask.route \in Routes
    BY DEF Ask
  <2>3. QED
    BY <2>1, <2>2, RouteFacts
<1>3. QED
  BY <1>1, <1>2

-----------------------------------------------------------------------------
(* The inductive invariant.                                                *)

(* The request has yet to list the kind.                                   *)
Unread(kind) == \E i \in DOMAIN request.todo : request.todo[i] = kind

(* What is left to read is the end of what the route reads. A route about  *)
(* one object has it, once it is past the first call: the analysis of a    *)
(* deployment has its selector before it lists the pods.                   *)
TodoInOrder ==
    request # Idle =>
        /\ ReadOnce(request.todo)
        /\ Unread("Backends") => request.route = TopologyRoute
        /\ request.route.single =>
              LET first == request.route.reads[1]
              IN  IF Unread(first) THEN request.todo = request.route.reads
                                   ELSE request.got[first] # {}

(* The history of a request has what is there now.                         *)
Remembered ==
    request # Idle => \A item \in Vary : world[item] \in was[item]

(* What was got was there at some time of the request, in its namespace,   *)
(* and is the object the request is about where there is one.              *)
Sound ==
    request # Idle =>
        \A kind \in Kind : \A o \in request.got[kind] :
            /\ o \in Had(<<kind, KeyOf(o)>>)
            /\ InNamespace(kind, KeyOf(o))
            /\ request.route.single /\ kind = request.route.reads[1] =>
                  KeyOf(o) = request.subject

(* At some time of the request the object was not there, or not one that   *)
(* the call selects.                                                       *)
Missed(kind, key) ==
    \E o \in Had(<<kind, key>>) : o # Absent => ~Selects(kind, o)

(* What the request reads, from its begin to its end.                      *)
Due == Reads(request)

(* What was there all the time, as an object that the call selects, has    *)
(* been got once its kind was listed.                                      *)
Complete ==
    request # Idle =>
        \A i \in DOMAIN Due : LET kind == Due[i] IN
            kind \in Kind \ request.failed /\ ~Unread(kind) =>
                \A key \in Keys[kind] :
                    \/ \E o \in request.got[kind] : KeyOf(o) = key
                    \/ Missed(kind, key)

(* The invariant: what was got is bracketed, at every step, by what was    *)
(* there at some time and what was there all the time. The counts, the     *)
(* edges and the analyses of the answers follow from it.                   *)
ViewsInv == TypeOK /\ TodoInOrder /\ Remembered /\ Sound /\ Complete

-----------------------------------------------------------------------------
(* Lemmas.                                                                 *)

(* A key of a kind is an item.                                             *)
LEMMA ItemOf ==
    ASSUME NEW kind \in Kind, NEW key \in Keys[kind]
    PROVE  <<kind, key>> \in Item
  BY DEF Item

(* What an item is and was is what it may become.                          *)
LEMMA HadType ==
    ASSUME TypeOK, NEW item \in Item
    PROVE  Had(item) \subseteq MayBecome(item) /\ Present(item) \in MayBecome(item)
<1>1. CASE item \in Vary
  <2>1. MayBe(item) \subseteq MayBecome(item)
    BY <1>1, ViewsAssumption DEF TypeOK, Vary, MayBe, Stage
  <2>2. QED
    BY <1>1, <2>1 DEF TypeOK, Had, Present
<1>2. CASE item \notin Vary
  BY <1>2, ViewsAssumption DEF Had, Present, Still
<1>3. QED
  BY <1>1, <1>2

(* What is there now was there in the request.                             *)
LEMMA PresentIsHad ==
    ASSUME Remembered, request # Idle, NEW item
    PROVE  Present(item) \in Had(item)
  BY DEF Remembered, Present, Had

(* What a list call returns: objects of the kind that are there and        *)
(* selected, and all of them.                                              *)
LEMMA ListingFacts ==
    ASSUME TypeOK, Remembered, request # Idle, NEW kind \in Kind
    PROVE  /\ Listing(kind) \subseteq Objects[kind]
           /\ \A o \in Listing(kind) : /\ KeyOf(o) \in Keys[kind]
                                       /\ o = Present(<<kind, KeyOf(o)>>)
                                       /\ o \in Had(<<kind, KeyOf(o)>>)
                                       /\ Selects(kind, o)
           /\ \A key \in Keys[kind] :
                 \/ \E o \in Listing(kind) : KeyOf(o) = key
                 \/ Missed(kind, key)
<1>1. ASSUME NEW key \in Keys[kind]
      PROVE  LET o == Present(<<kind, key>>)
             IN  /\ o \in Had(<<kind, key>>)
                 /\ o # Absent => o \in Objects[kind] /\ KeyOf(o) = key
  <2>1. Present(<<kind, key>>) \in MayBecome(<<kind, key>>)
    BY ItemOf, HadType
  <2>2. QED
    BY <2>1, PresentIsHad DEF MayBecome
<1>2. ASSUME NEW o \in Listing(kind)
      PROVE  /\ o \in Objects[kind]
             /\ KeyOf(o) \in Keys[kind]
             /\ o = Present(<<kind, KeyOf(o)>>)
             /\ o \in Had(<<kind, KeyOf(o)>>)
             /\ Selects(kind, o)
  <2>1. PICK key \in Keys[kind] : o = Present(<<kind, key>>)
    BY DEF Listing
  <2>2. o # Absent /\ Selects(kind, o)
    BY DEF Listing
  <2>3. QED
    BY <1>1, <2>1, <2>2
<1>3. ASSUME NEW key \in Keys[kind]
      PROVE  \/ \E o \in Listing(kind) : KeyOf(o) = key
             \/ Missed(kind, key)
  <2> DEFINE o == Present(<<kind, key>>)
  <2>1. CASE o # Absent /\ Selects(kind, o)
    BY <1>1, <2>1 DEF Listing
  <2>2. CASE ~(o # Absent /\ Selects(kind, o))
    BY <1>1, <2>2 DEF Missed
  <2>3. QED
    BY <2>1, <2>2
<1>4. QED
  BY <1>2, <1>3

(* Dropping the head of the calls to make drops that call and no other.    *)
LEMMA Taking ==
    ASSUME TypeOK, TodoInOrder, request # Idle,
           request.todo # <<>>, request'.todo = Tail(request.todo)
    PROVE  /\ request'.todo \in Seq(Called)
           /\ ReadOnce(request'.todo)
           /\ Unread(Head(request.todo))
           /\ \A kind : Unread(kind)' <=> Unread(kind) /\ kind # Head(request.todo)
<1> DEFINE todo == request.todo
           rest == request'.todo
<1>1. todo \in Seq(Called) /\ ReadOnce(todo)
  BY DEF TypeOK, Request, Called, TodoInOrder
<1>2. /\ rest \in Seq(Called)
      /\ Len(rest) = Len(todo) - 1
      /\ \A i \in 1 .. Len(rest) : rest[i] = todo[i + 1]
      /\ Len(todo) \in Nat \ {0} /\ todo[1] = Head(todo)
      /\ DOMAIN todo = 1 .. Len(todo) /\ DOMAIN rest = 1 .. Len(rest)
  BY <1>1
<1> HIDE DEF todo, rest
<1>3. ASSUME NEW i \in DOMAIN rest
      PROVE  i + 1 \in DOMAIN todo /\ rest[i] = todo[i + 1]
  BY <1>2
<1>4. ASSUME NEW kind
      PROVE  (\E i \in DOMAIN rest : rest[i] = kind) <=>
                (\E i \in DOMAIN todo : todo[i] = kind) /\ kind # Head(todo)
  <2>1. ASSUME NEW i \in DOMAIN rest, rest[i] = kind
        PROVE  (\E j \in DOMAIN todo : todo[j] = kind) /\ kind # Head(todo)
    <3>1. i + 1 \in DOMAIN todo /\ todo[i + 1] = kind /\ i + 1 # 1 /\ 1 \in DOMAIN todo
      BY <1>2, <1>3, <2>1
    <3>2. todo[i + 1] # todo[1]
      BY <1>1, <3>1 DEF ReadOnce
    <3>3. QED
      BY <1>2, <3>1, <3>2
  <2>2. ASSUME NEW i \in DOMAIN todo, todo[i] = kind, kind # Head(todo)
        PROVE  \E j \in DOMAIN rest : rest[j] = kind
    <3>1. i - 1 \in DOMAIN rest /\ rest[i - 1] = kind
      BY <1>2, <2>2
    <3>2. QED
      BY <3>1
  <2>3. QED
    BY <2>1, <2>2
<1>5. \E i \in DOMAIN todo : todo[i] = Head(todo)
  BY <1>2
<1>6. ReadOnce(rest)
  <2>1. ASSUME NEW i \in DOMAIN rest, NEW j \in DOMAIN rest, rest[i] = rest[j]
        PROVE  i = j
    <3>1. i + 1 = j + 1
      BY <1>1, <1>3, <2>1 DEF ReadOnce
    <3>2. QED
      BY <1>2, <3>1
  <2>2. QED
    BY <2>1 DEF ReadOnce
<1>7. QED
  BY <1>2, <1>4, <1>5, <1>6 DEF Unread, todo, rest

(* Whether a call selects an object depends on what stays the same for the *)
(* rest of a request.                                                      *)
SameAsk ==
    /\ request # Idle
    /\ request'.route = request.route
    /\ request'.ns = request.ns
    /\ request'.subject = request.subject
    /\ request'.query = request.query

(* So does what it reads.                                                  *)
LEMMA DueStays == SameAsk => Due' = Due
  BY DEF SameAsk, Due, Reads

(* A call selects the same objects before and after a step of a request;   *)
(* those of an analysed deployment as long as the deployment is the one    *)
(* got.                                                                    *)
LEMMA SelectsStays ==
    ASSUME SameAsk, NEW kind, NEW o,
           kind = "Pod" /\ request.route = AnalyzeDeploymentRoute =>
              request'.got["Deployment"] = request.got["Deployment"]
    PROVE  Selects(kind, o)' <=> Selects(kind, o)
<1>1. InNamespace(kind, KeyOf(o))' <=> InNamespace(kind, KeyOf(o))
  BY DEF SameAsk, InNamespace
<1>2. CASE kind = "Pod" /\ request.route = AnalyzeDeploymentRoute
  <2>1. The("Deployment")' = The("Deployment")
    BY <1>2 DEF The
  <2>2. QED
    BY <1>1, <2>1 DEF SameAsk, Selects
<1>3. CASE ~(kind = "Pod" /\ request.route = AnalyzeDeploymentRoute)
  BY <1>1, <1>3 DEF SameAsk, Selects
<1>4. QED
  BY <1>2, <1>3

(* Without a change of the cluster the history of an item stays.           *)
LEMMA HadStays ==
    ASSUME UNCHANGED <<scene, was>>, NEW item PROVE Had(item)' = Had(item)
  BY DEF Had, Vary

-----------------------------------------------------------------------------
(* The steps.                                                              *)

(* Initially there is no request.                                          *)
LEMMA InitInv == Init => ViewsInv
<1> SUFFICES ASSUME Init PROVE ViewsInv
  OBVIOUS
<1>1. TypeOK
  BY DEF Init, TypeOK
<1>2. QED
  BY <1>1 DEF Init, ViewsInv, TodoInOrder, Remembered, Sound, Complete

(* A request that begins has read nothing, and everything is left to read. *)
LEMMA BeginStep ==
    ASSUME ViewsInv, NEW ask \in Stage[scene].asks, Begin(ask) PROVE ViewsInv'
<1>1. ask \in Ask
  BY ViewsAssumption DEF ViewsInv, TypeOK, Stage
<1>2. /\ UNCHANGED <<scene, world>> /\ Vary' = Vary
      /\ was' = [item \in Vary |-> {world[item]}]
      /\ request'.route = ask.route /\ request'.todo = Reads(ask)
      /\ request'.got = Nothing /\ request'.failed = {} /\ request'.missing = {}
  BY DEF Begin, Vary
<1>3. TypeOK'
  <2>1. Nothing \in [Kind -> SUBSET UNION {Objects[kind] : kind \in Kind}]
    BY DEF Nothing
  <2>2. Reads(ask) \in Seq(Called)
    BY <1>1, ReadsFacts
  <2>3. 0 \in 0 .. MaxMoves
    BY ViewsAssumption
  <2>4. request' \in Request
    BY <1>1, <2>1, <2>2, <2>3 DEF Begin, Request, Ask, Called
  <2>5. \A kind \in Kind : request'.got[kind] = {}
    BY <1>2 DEF Nothing
  <2>6. \A item : MayBe(item)' = MayBe(item)
    BY <1>2 DEF MayBe
  <2>7. QED
    BY <1>2, <2>4, <2>5, <2>6 DEF ViewsInv, TypeOK, MayBe
<1>4. TodoInOrder'
  <2>1. /\ ReadOnce(request'.todo)
        /\ \A i \in DOMAIN request'.todo : request'.todo[i] = "Backends" =>
              request'.route = TopologyRoute
    BY <1>1, <1>2, ReadsFacts
  <2>2. ASSUME request'.route.single
        PROVE  request'.todo = request'.route.reads /\ Unread(request.route.reads[1])'
    <3>1. ask.route \in Routes /\ ask.route # SearchRoute
      BY <1>1, <1>2, <2>2 DEF Ask, SearchRoute, Route
    <3>2. /\ request'.todo = request'.route.reads
          /\ request'.todo \in Seq(Called) /\ request'.todo # <<>>
      BY <1>1, <1>2, <2>2, <3>1, ReadsFacts, RouteFacts
    <3>3. 1 \in DOMAIN request'.todo
      BY <3>2
    <3>4. QED
      BY <3>2, <3>3 DEF Unread
  <2>3. QED
    BY <2>1, <2>2 DEF TodoInOrder, Unread
<1>5. Remembered'
  BY <1>2 DEF Remembered
<1>6. Sound'
  BY <1>2 DEF Sound, Nothing
<1>7. Complete'
  <2>1. Due' = request'.todo
    BY <1>2 DEF Begin, Due, Reads
  <2>2. QED
    BY <2>1 DEF Complete, Unread
<1>8. QED
  BY <1>3, <1>4, <1>5, <1>6, <1>7 DEF ViewsInv

(* A request that is answered, or ends with an error, leaves nothing       *)
(* behind.                                                                 *)
LEMMA EndStep ==
    ASSUME ViewsInv, End, UNCHANGED <<scene, world>> PROVE ViewsInv'
<1>1. request' = Idle /\ was' = [item \in Vary |-> {}] /\ Vary' = Vary
  BY DEF End, Vary
<1>2. TypeOK'
  BY <1>1 DEF ViewsInv, TypeOK, MayBe
<1>3. Idle' = Idle
  BY DEF Idle
<1>4. QED
  BY <1>1, <1>2, <1>3 DEF ViewsInv, TodoInOrder, Remembered, Sound, Complete

(* A list that is answered: the kind is no longer to be read, and what was *)
(* got of it is what is there now.                                         *)
LEMMA ListStep ==
    ASSUME ViewsInv, NEW kind \in Kind, request # Idle,
           request.todo # <<>>, kind = Head(request.todo),
           request' = [request EXCEPT !.todo = Tail(@), !.got[kind] = Listing(kind)],
           request.route.single /\ kind = request.route.reads[1] => Listing(kind) # {},
           UNCHANGED <<scene, world, was>>
    PROVE  ViewsInv'
<1>1. /\ TypeOK /\ TodoInOrder /\ Remembered /\ Sound /\ Complete
      /\ request \in Request /\ request.route \in Routes
  BY DEF ViewsInv, TypeOK, Request
<1>2. /\ SameAsk /\ request'.todo = Tail(request.todo)
      /\ request'.got = [request.got EXCEPT ![kind] = Listing(kind)]
      /\ request'.failed = request.failed /\ request'.missing = request.missing
      /\ request'.query = request.query /\ request'.moves = request.moves
  BY <1>1 DEF SameAsk, Request
<1>3. /\ request'.got[kind] = Listing(kind)
      /\ \A k \in Kind : k # kind => request'.got[k] = request.got[k]
  BY <1>1, <1>2 DEF Request
<1>4. /\ request'.todo \in Seq(Called) /\ ReadOnce(request'.todo) /\ Unread(kind)
      /\ \A k : Unread(k)' <=> Unread(k) /\ k # kind
  BY <1>1, <1>2, Taking
<1>5. /\ Listing(kind) \subseteq Objects[kind]
      /\ \A o \in Listing(kind) : /\ KeyOf(o) \in Keys[kind]
                                  /\ o = Present(<<kind, KeyOf(o)>>)
                                  /\ o \in Had(<<kind, KeyOf(o)>>)
                                  /\ Selects(kind, o)
      /\ \A key \in Keys[kind] :
            \/ \E o \in Listing(kind) : KeyOf(o) = key
            \/ Missed(kind, key)
  BY <1>1, ListingFacts
<1>6. \A item : Had(item)' = Had(item)
  BY HadStays
(* The pods of a deployment are listed after it.                           *)
<1>7. \A k, o : ~Unread(k)' /\ k \in Kind => (Selects(k, o)' <=> Selects(k, o))
  <2> SUFFICES ASSUME NEW k \in Kind, NEW o, ~Unread(k)'
               PROVE  Selects(k, o)' <=> Selects(k, o)
    OBVIOUS
  <2>1. ASSUME k = "Pod", request.route = AnalyzeDeploymentRoute
        PROVE  request'.got["Deployment"] = request.got["Deployment"]
    <3>1. /\ request.route.single /\ request.route.reads = <<"Deployment", "Pod", "Event">>
      BY <2>1 DEF AnalyzeDeploymentRoute, Single
    <3>2. CASE kind = "Deployment"
      <4>1. request.todo = <<"Deployment", "Pod", "Event">>
        BY <1>1, <1>4, <3>1, <3>2 DEF TodoInOrder
      <4>2. Unread("Pod")
        BY <4>1 DEF Unread
      <4>3. QED
        BY <1>4, <2>1, <3>2, <4>2
    <3>3. CASE kind # "Deployment"
      BY <1>3, <3>3 DEF Kind
    <3>4. QED
      BY <3>2, <3>3
  <2>2. QED
    BY <1>2, <2>1, SelectsStays
<1>8. TypeOK'
  <2>1. request'.got \in [Kind -> SUBSET UNION {Objects[k] : k \in Kind}]
    BY <1>1, <1>2, <1>5 DEF Request
  <2>2. request' \in Request
    BY <1>1, <1>4, <2>1 DEF Request, Called
  <2>3. ASSUME NEW k \in Kind
        PROVE  /\ request'.got[k] \subseteq Objects[k]
               /\ \A o, p \in request'.got[k] : KeyOf(o) = KeyOf(p) => o = p
    <3>1. CASE k = kind
      <4>1. ASSUME NEW o \in Listing(kind), NEW p \in Listing(kind), KeyOf(o) = KeyOf(p)
            PROVE  o = p
        <5>1. o = Present(<<kind, KeyOf(o)>>) /\ p = Present(<<kind, KeyOf(p)>>)
          BY <1>5
        <5>2. QED
          BY <4>1, <5>1
      <4>2. QED
        BY <1>3, <1>5, <3>1, <4>1
    <3>2. CASE k # kind
      BY <1>1, <1>3, <3>2 DEF TypeOK
    <3>3. QED
      BY <3>1, <3>2
  <2>4. QED
    BY <1>1, <1>2, <2>2, <2>3 DEF TypeOK, Vary, MayBe, SameAsk
<1>9. TodoInOrder'
  <2>1. ASSUME request.route.single
        PROVE  LET first == request.route.reads[1]
               IN  /\ Unread(first)' => request'.todo = request.route.reads
                   /\ ~Unread(first)' => request'.got[first] # {}
    <3> DEFINE first == request.route.reads[1]
    <3>1. first \in Kind
      BY <1>1, <2>1, RouteFacts
    <3>2. ~Unread(first)'
      <4>1. CASE Unread(first)
        <5>1. request.todo = request.route.reads
          BY <1>1, <2>1, <4>1 DEF TodoInOrder
        <5>2. kind = first
          BY <5>1, <1>1 DEF Request
        <5>3. QED
          BY <1>4, <5>2
      <4>2. CASE ~Unread(first)
        BY <1>4, <4>2
      <4>3. QED
        BY <4>1, <4>2
    <3>3. request'.got[first] # {}
      <4>1. CASE kind = first
        BY <1>3, <2>1, <4>1
      <4>2. CASE kind # first
        <5>1. ~Unread(first)
          BY <1>4, <3>2, <4>2
        <5>2. request.got[first] # {}
          BY <1>1, <2>1, <5>1 DEF TodoInOrder
        <5>3. QED
          BY <1>3, <3>1, <4>2, <5>2
      <4>3. QED
        BY <4>1, <4>2
    <3>4. QED
      BY <3>2, <3>3
  <2>2. Unread("Backends")' => request.route = TopologyRoute
    BY <1>1, <1>4 DEF TodoInOrder
  <2>3. QED
    BY <1>2, <1>4, <2>1, <2>2 DEF TodoInOrder, SameAsk
<1>10. Remembered'
  BY <1>1 DEF Remembered, Vary, ViewsInv
<1>11. Sound'
  <2> SUFFICES ASSUME NEW k \in Kind, NEW o \in request'.got[k]
               PROVE  /\ o \in Had(<<k, KeyOf(o)>>)
                      /\ InNamespace(k, KeyOf(o))'
                      /\ request.route.single /\ k = request.route.reads[1] =>
                            KeyOf(o) = request.subject
    BY <1>2, <1>6 DEF Sound, SameAsk
  <2>1. InNamespace(k, KeyOf(o))' <=> InNamespace(k, KeyOf(o))
    BY <1>2 DEF InNamespace, SameAsk
  <2>2. CASE k = kind
    BY <1>3, <1>5, <2>1, <2>2 DEF Selects
  <2>3. CASE k # kind
    BY <1>1, <1>2, <1>3, <2>1, <2>3 DEF Sound, SameAsk
  <2>4. QED
    BY <2>2, <2>3
<1>12. Complete'
  <2> SUFFICES ASSUME NEW i \in DOMAIN Due,
                      NEW k \in Kind \ request.failed, k = Due[i],
                      ~Unread(k)',
                      NEW key \in Keys[k]
               PROVE  \/ \E o \in request'.got[k] : KeyOf(o) = key
                      \/ Missed(k, key)'
    BY <1>2, DueStays DEF Complete, SameAsk
  <2>1. Missed(k, key)' <=> Missed(k, key)
    BY <1>6, <1>7 DEF Missed
  <2>2. CASE k = kind
    BY <1>3, <1>5, <2>1, <2>2
  <2>3. CASE k # kind
    <3>1. ~Unread(k)
      BY <1>4, <2>3
    <3>2. QED
      BY <1>1, <1>2, <1>3, <2>1, <2>3, <3>1 DEF Complete, SameAsk
  <2>4. QED
    BY <2>2, <2>3
<1>13. QED
  BY <1>8, <1>9, <1>10, <1>11, <1>12 DEF ViewsInv

(* A list that fails and is passed over.                                   *)
LEMMA SkipStep ==
    ASSUME ViewsInv, NEW kind \in Kind, request # Idle,
           request.todo # <<>>, kind = Head(request.todo),
           request.route.onError # "fail",
           request' = [request EXCEPT !.todo = Tail(@), !.failed = @ \cup {kind}],
           UNCHANGED <<scene, world, was>>
    PROVE  ViewsInv'
<1>1. /\ TypeOK /\ TodoInOrder /\ Remembered /\ Sound /\ Complete
      /\ request \in Request /\ request.route \in Routes
  BY DEF ViewsInv, TypeOK, Request
<1>2. /\ SameAsk /\ request'.todo = Tail(request.todo)
      /\ request'.got = request.got /\ request'.failed = request.failed \cup {kind}
      /\ request'.missing = request.missing
  BY <1>1 DEF SameAsk, Request
<1>3. /\ request'.todo \in Seq(Called) /\ ReadOnce(request'.todo)
      /\ \A k : Unread(k)' <=> Unread(k) /\ k # kind
  BY <1>1, <1>2, Taking
<1>4. request.route \in {SearchRoute, HealthScoreRoute} /\ ~request.route.single
  BY <1>1, RouteFacts DEF SearchRoute, HealthScoreRoute, Route
<1>5. \A item : Had(item)' = Had(item)
  BY HadStays
<1>6. \A k, o : Selects(k, o)' <=> Selects(k, o)
  BY <1>2, SelectsStays
<1>7. TypeOK'
  <2>1. request' \in Request
    BY <1>1, <1>3 DEF Request, Called
  <2>2. QED
    BY <1>1, <1>2, <1>4, <2>1 DEF TypeOK, Vary, MayBe, SameAsk
<1>8. TodoInOrder'
  BY <1>1, <1>2, <1>3, <1>4 DEF TodoInOrder, SameAsk
<1>9. Remembered'
  BY <1>1 DEF Remembered, Vary
<1>10. Sound'
  BY <1>1, <1>2, <1>5 DEF Sound, SameAsk, InNamespace
<1>11. Complete'
  <2> SUFFICES ASSUME NEW i \in DOMAIN Due,
                      NEW k \in Kind \ request'.failed, k = Due[i],
                      ~Unread(k)',
                      NEW key \in Keys[k]
               PROVE  \/ \E o \in request.got[k] : KeyOf(o) = key
                      \/ Missed(k, key)'
    BY <1>2, DueStays DEF Complete, SameAsk
  <2>1. Missed(k, key)' <=> Missed(k, key)
    BY <1>5, <1>6 DEF Missed
  <2>2. k \in Kind \ request.failed /\ ~Unread(k)
    BY <1>2, <1>3
  <2>3. QED
    BY <1>1, <1>2, <2>1, <2>2 DEF Complete, SameAsk
<1>12. QED
  BY <1>7, <1>8, <1>9, <1>10, <1>11 DEF ViewsInv

(* Only the topology gets endpoints one by one.                            *)
LEMMA BackendsOfTopology ==
    ASSUME ViewsInv, AtBackends
    PROVE  request.route = TopologyRoute /\ request # Idle /\ request \in Request
  BY DEF ViewsInv, TypeOK, AtBackends, TodoInOrder, Unread

(* The endpoints of one more service are got: they are those there now.    *)
LEMMA GetEndpointsStep ==
    ASSUME ViewsInv, NEW key \in Keys["Endpoints"], GetEndpoints(key) PROVE ViewsInv'
<1> DEFINE e == Present(<<"Endpoints", key>>)
<1>1. /\ TypeOK /\ TodoInOrder /\ Remembered /\ Sound /\ Complete
      /\ request \in Request /\ request # Idle /\ request.route = TopologyRoute
  BY BackendsOfTopology DEF ViewsInv, GetEndpoints
<1>2. /\ SameAsk /\ request'.todo = request.todo
      /\ request'.got = [request.got EXCEPT !["Endpoints"] = @ \cup {e}]
      /\ request'.failed = request.failed /\ request'.missing = request.missing
      /\ UNCHANGED <<scene, world, was>>
  BY <1>1 DEF GetEndpoints, SameAsk, Request
<1>3. /\ request'.got["Endpoints"] = request.got["Endpoints"] \cup {e}
      /\ \A k \in Kind : k # "Endpoints" => request'.got[k] = request.got[k]
  BY <1>1, <1>2 DEF Request, Kind
<1>4. "Endpoints" \in Kind /\ <<"Endpoints", key>> \in Item
  BY ItemOf DEF Kind
<1>5. /\ e \in Objects["Endpoints"] /\ KeyOf(e) = key
      /\ e \in Had(<<"Endpoints", KeyOf(e)>>)
  <2>1. e \in MayBecome(<<"Endpoints", key>>) /\ e # Absent
    BY <1>1, <1>4, HadType DEF GetEndpoints
  <2>2. e \in Had(<<"Endpoints", key>>)
    BY <1>1, PresentIsHad
  <2>3. QED
    BY <2>1, <2>2 DEF MayBecome
<1>6. /\ InNamespace("Endpoints", key)
      /\ \A o \in request.got["Endpoints"] : KeyOf(o) # key
  <2>1. PICK svc \in request.got["Service"] : key = KeyOf(svc)
    BY DEF GetEndpoints, Unresolved
  <2>2. InNamespace("Service", key)
    BY <1>1, <2>1 DEF Sound, Kind
  <2>3. QED
    BY <2>2 DEF GetEndpoints, Unresolved, InNamespace, ClusterScoped
<1>7. ~request.route.single /\ request.route # AnalyzeDeploymentRoute
  BY <1>1 DEF TopologyRoute, Route, AnalyzeDeploymentRoute, Single
<1>8. \A item : Had(item)' = Had(item)
  BY <1>2, HadStays
<1>9. \A k, o : Selects(k, o)' <=> Selects(k, o)
  BY <1>2, <1>7, SelectsStays
<1>10. TypeOK'
  <2>1. request'.got \in [Kind -> SUBSET UNION {Objects[k] : k \in Kind}]
    BY <1>1, <1>2, <1>4, <1>5 DEF Request
  <2>2. request' \in Request
    BY <1>1, <2>1 DEF Request, GetEndpoints
  <2>3. ASSUME NEW k \in Kind
        PROVE  /\ request'.got[k] \subseteq Objects[k]
               /\ \A o, p \in request'.got[k] : KeyOf(o) = KeyOf(p) => o = p
    <3>1. CASE k = "Endpoints"
      BY <1>1, <1>3, <1>5, <1>6, <3>1 DEF TypeOK
    <3>2. CASE k # "Endpoints"
      BY <1>1, <1>3, <3>2 DEF TypeOK
    <3>3. QED
      BY <3>1, <3>2
  <2>4. QED
    BY <1>1, <1>2, <2>2, <2>3 DEF TypeOK, Vary, MayBe, SameAsk
<1>11. TodoInOrder'
  BY <1>1, <1>2, <1>7 DEF TodoInOrder, Unread, SameAsk
<1>12. Remembered'
  BY <1>1, <1>2 DEF Remembered, Vary
<1>13. Sound'
  <2> SUFFICES ASSUME NEW k \in Kind, NEW o \in request'.got[k]
               PROVE  o \in Had(<<k, KeyOf(o)>>) /\ InNamespace(k, KeyOf(o))
    BY <1>2, <1>7, <1>8 DEF Sound, SameAsk, InNamespace
  <2>1. CASE o \in request.got[k]
    BY <1>1, <2>1 DEF Sound
  <2>2. CASE k = "Endpoints" /\ o = e
    BY <1>5, <1>6, <2>2
  <2>3. QED
    BY <1>3, <2>1, <2>2
<1>14. Complete'
  <2> SUFFICES ASSUME NEW i \in DOMAIN Due,
                      NEW k \in Kind \ request.failed, k = Due[i],
                      ~Unread(k),
                      NEW key2 \in Keys[k]
               PROVE  \/ \E o \in request'.got[k] : KeyOf(o) = key2
                      \/ Missed(k, key2)'
    BY <1>2, DueStays DEF Complete, SameAsk, Unread
  <2>1. Missed(k, key2)' <=> Missed(k, key2)
    BY <1>8, <1>9 DEF Missed
  <2>2. k # "Endpoints"
    <3>1. request.route # SearchRoute
      BY <1>1 DEF TopologyRoute, SearchRoute, Route
    <3>2. Due = request.route.reads
      BY <3>1 DEF Due, Reads
    <3>3. request.route.reads = <<"Service", "Deployment", "ReplicaSet", "Pod", "Backends">>
      BY <1>1 DEF TopologyRoute, Route
    <3>4. QED
      BY <3>2, <3>3
  <2>3. QED
    BY <1>1, <1>3, <2>1, <2>2 DEF Complete
<1>15. QED
  BY <1>10, <1>11, <1>12, <1>13, <1>14 DEF ViewsInv

(* The endpoints of one more service are given up.                         *)
LEMMA GetEndpointsFailsStep ==
    ASSUME ViewsInv, NEW key \in Keys["Endpoints"], GetEndpointsFails(key) PROVE ViewsInv'
<1>1. /\ TypeOK /\ TodoInOrder /\ Remembered /\ Sound /\ Complete
      /\ request \in Request /\ request # Idle /\ request.route = TopologyRoute
  BY BackendsOfTopology DEF ViewsInv, GetEndpointsFails
<1>2. /\ SameAsk /\ request'.todo = request.todo /\ request'.got = request.got
      /\ request'.failed = request.failed /\ UNCHANGED <<scene, world, was>>
  BY <1>1 DEF GetEndpointsFails, SameAsk, Request
<1>3. \A item : Had(item)' = Had(item)
  BY <1>2, HadStays
<1>4. \A k, o : Selects(k, o)' <=> Selects(k, o)
  BY <1>2, SelectsStays
<1>5. TypeOK'
  <2>1. request' \in Request
    BY <1>1 DEF Request, GetEndpointsFails
  <2>2. QED
    BY <1>1, <1>2, <2>1 DEF TypeOK, Vary, MayBe, SameAsk
<1>6. TodoInOrder'
  BY <1>1, <1>2 DEF TodoInOrder, Unread, SameAsk
<1>7. Remembered'
  BY <1>1, <1>2 DEF Remembered, Vary
<1>8. Sound'
  BY <1>1, <1>2, <1>3 DEF Sound, SameAsk, InNamespace
<1>9. Complete'
  BY <1>1, <1>2, <1>3, <1>4, DueStays DEF Complete, SameAsk, Unread, Missed
<1>10. QED
  BY <1>5, <1>6, <1>7, <1>8, <1>9 DEF ViewsInv

(* The cluster changes: what has been there so far stays on record.        *)
LEMMA MoveStep ==
    ASSUME ViewsInv, NEW item \in Vary, NEW o \in MayBe(item), Move(item, o)
    PROVE  ViewsInv'
<1>1. /\ TypeOK /\ TodoInOrder /\ Remembered /\ Sound /\ Complete
      /\ request \in Request /\ request # Idle
  BY DEF ViewsInv, TypeOK, Move
<1>2. /\ SameAsk /\ request'.todo = request.todo /\ request'.got = request.got
      /\ request'.failed = request.failed /\ request'.missing = request.missing
      /\ scene' = scene /\ Vary' = Vary
      /\ world' = [world EXCEPT ![item] = o]
      /\ was' = [was EXCEPT ![item] = @ \cup {o}]
  BY <1>1 DEF Move, SameAsk, Request, Vary
<1>3. \A it : Had(it) \subseteq Had(it)'
  BY <1>1, <1>2 DEF Had, TypeOK, Still
<1>4. \A k, x : Selects(k, x)' <=> Selects(k, x)
  BY <1>2, SelectsStays
<1>5. TypeOK'
  <2>1. request' \in Request
    <3>1. request.moves + 1 \in 0 .. MaxMoves
      BY <1>1, ViewsAssumption DEF Move, Request
    <3>2. QED
      BY <1>1, <3>1 DEF Request, Move
  <2>2. QED
    BY <1>1, <1>2, <2>1 DEF TypeOK, MayBe, SameAsk
<1>6. TodoInOrder'
  BY <1>1, <1>2 DEF TodoInOrder, Unread, SameAsk
<1>7. Remembered'
  BY <1>1, <1>2 DEF Remembered, TypeOK
<1>8. Sound'
  BY <1>1, <1>2, <1>3 DEF Sound, SameAsk, InNamespace
<1>9. Complete'
  <2>1. \A k, key : Missed(k, key) => Missed(k, key)'
    BY <1>3, <1>4 DEF Missed
  <2>2. QED
    BY <1>1, <1>2, <2>1, DueStays DEF Complete, SameAsk, Unread
<1>10. QED
  BY <1>5, <1>6, <1>7, <1>8, <1>9 DEF ViewsInv

(* The invariant holds in every state, however the calls of a request,     *)
(* their failures and the changes of the cluster interleave.               *)
THEOREM ViewsKeep == Spec => []ViewsInv
<1>1. ViewsInv /\ [Next]_vars => ViewsInv'
  <2> SUFFICES ASSUME ViewsInv, [Next]_vars PROVE ViewsInv'
    OBVIOUS
  <2>1. ASSUME NEW ask \in Stage[scene].asks, Begin(ask) PROVE ViewsInv'
    BY <2>1, BeginStep
  <2>2. ASSUME NEW kind \in Kind, List(kind) PROVE ViewsInv'
    <3>1. CASE request.route.single /\ kind = request.route.reads[1] /\ Listing(kind) = {}
      BY <2>2, <3>1, EndStep DEF List
    <3>2. CASE ~(request.route.single /\ kind = request.route.reads[1] /\ Listing(kind) = {})
      BY <2>2, <3>2, ListStep DEF List
    <3>3. QED
      BY <3>1, <3>2
  <2>3. ASSUME NEW kind \in Kind, ListFails(kind) PROVE ViewsInv'
    <3>1. CASE request.route.onError = "fail"
      BY <2>3, <3>1, EndStep DEF ListFails
    <3>2. CASE request.route.onError # "fail"
      BY <2>3, <3>2, SkipStep DEF ListFails
    <3>3. QED
      BY <3>1, <3>2
  <2>4. ASSUME NEW key \in Keys["Endpoints"], GetEndpoints(key) PROVE ViewsInv'
    BY <2>4, GetEndpointsStep
  <2>5. ASSUME NEW key \in Keys["Endpoints"], GetEndpointsFails(key) PROVE ViewsInv'
    BY <2>5, GetEndpointsFailsStep
  <2>6. ASSUME NEW item \in Vary, NEW o \in MayBe(item), Move(item, o) PROVE ViewsInv'
    BY <2>6, MoveStep
  <2>7. CASE Answer
    BY <2>7, EndStep DEF Answer
  <2>8. CASE UNCHANGED vars
    <3>1. UNCHANGED <<scene, world, was, request>>
      BY <2>8 DEF vars
    <3>2. Due' = Due
      BY <3>1 DEF Due, Reads
    <3>3. TypeOK' /\ TodoInOrder' /\ Remembered' /\ Sound'
      BY <3>1 DEF ViewsInv, TypeOK, TodoInOrder, Remembered, Sound, Vary, MayBe, Unread,
                  Had, InNamespace
    <3>4. \A kind, key : Missed(kind, key)' <=> Missed(kind, key)
      BY <3>1 DEF Missed, Selects, The, InNamespace, Had, Vary
    <3>5. Complete'
      BY <3>1, <3>2, <3>4 DEF ViewsInv, Complete, Unread
    <3>6. QED
      BY <3>3, <3>5 DEF ViewsInv
  <2>9. QED
    BY <2>1, <2>2, <2>3, <2>4, <2>5, <2>6, <2>7, <2>8 DEF Next
<1>2. QED
  BY InitInv, <1>1, PTL DEF Spec

(* Type correctness: in particular no list of a request holds two objects  *)
(* of one key, and a request that goes on after a failed call is a search, *)
(* a health score or a topology.                                           *)
THEOREM TypeCorrect == Spec => []TypeOK
<1>1. ViewsInv => TypeOK
  BY DEF ViewsInv
<1>2. QED
  BY <1>1, ViewsKeep, PTL

-----------------------------------------------------------------------------
(* Answers.                                                                *)

(* Objects have keys of their kind, and keys are texts.                    *)
LEMMA KeyTypes ==
    /\ \A kind \in Kind : Keys[kind] \subseteq Key
    /\ \A kind \in Kind : \A o \in Objects[kind] :
          o # Absent /\ KeyOf(o) \in Keys[kind] /\ o.ns \in Text /\ o.name \in Text
<1>1. \A kind \in Kind : Keys[kind] \subseteq Key
  BY ViewsAssumption DEF Keys
<1>2. ASSUME NEW kind \in Kind, NEW o \in Objects[kind]
      PROVE  o # Absent /\ KeyOf(o) \in Keys[kind] /\ o.ns \in Text /\ o.name \in Text
  <2>1. o # Absent /\ KeyOf(o) \in Keys[kind]
    BY ViewsAssumption
  <2>2. KeyOf(o) \in Key
    BY <1>1, <2>1
  <2>3. QED
    BY <2>1, <2>2 DEF KeyOf, Key
<1>3. QED
  BY <1>1, <1>2

(* When it answers, a request has read everything.                         *)
LEMMA AllRead ==
    ASSUME ViewsInv, Answering
    PROVE  /\ request # Idle /\ request \in Request
           /\ \A kind \in Kind : ~Unread(kind)
           /\ \A kind \in Kind : \A o \in request.got[kind] :
                 /\ o \in Objects[kind] /\ KeyOf(o) \in Keys[kind]
                 /\ o \in Had(<<kind, KeyOf(o)>>)
                 /\ InNamespace(kind, KeyOf(o))
           /\ \A i \in DOMAIN Due :
                 LET kind == Due[i] IN
                 kind \in Kind \ request.failed =>
                    \A key \in Keys[kind] :
                        \/ \E o \in request.got[kind] : KeyOf(o) = key
                        \/ Missed(kind, key)
           /\ request.route # SearchRoute => Due = request.route.reads
<1>1. request # Idle /\ request \in Request
  BY DEF ViewsInv, TypeOK, Answering
<1>2. request.todo = <<>> \/ request.todo = <<"Backends">>
  BY DEF Answering, AtBackends
<1>3. \A kind \in Kind : ~Unread(kind)
  BY <1>2 DEF Unread, Kind
<1>4. \A kind \in Kind : \A o \in request.got[kind] :
         /\ o \in Objects[kind] /\ KeyOf(o) \in Keys[kind]
         /\ o \in Had(<<kind, KeyOf(o)>>)
         /\ InNamespace(kind, KeyOf(o))
  BY <1>1, KeyTypes DEF ViewsInv, TypeOK, Sound
<1>5. QED
  BY <1>1, <1>3, <1>4 DEF ViewsInv, Complete, Due, Reads

(* A route that is not about one object selects by namespace only.         *)
LEMMA PlainSelects ==
    ASSUME request.route \in {OverviewRoute, TopologyRoute, SearchRoute, HealthScoreRoute},
           NEW kind, NEW o
    PROVE  Selects(kind, o) <=> InNamespace(kind, KeyOf(o))
<1>1. /\ ~request.route.single
      /\ request.route \notin {AnalyzePodRoute, ResourceEventsRoute, AnalyzeDeploymentRoute}
  BY DEF OverviewRoute, TopologyRoute, SearchRoute, HealthScoreRoute, Route, AnalyzePodRoute,
         ResourceEventsRoute, AnalyzeDeploymentRoute, Single
<1>2. QED
  BY <1>1 DEF Selects

(* The kinds whose lists the topology draws.                               *)
TopologyKind == {"Service", "Deployment", "ReplicaSet", "Pod"}

(* An object of a kind that the topology reads is in the answer, unless    *)
(* it, or what was there before, was absent for a while.                   *)
LEMMA TopologyComplete ==
    ASSUME ViewsInv, Answering, request.route = TopologyRoute,
           NEW kind \in TopologyKind, NEW key \in Keys[kind], InNamespace(kind, key)
    PROVE  \/ \E o \in Got(kind) : KeyOf(o) = key
           \/ Absent \in Had(<<kind, key>>)
<1>1. kind \in Kind /\ <<kind, key>> \in Item
  BY ItemOf DEF TopologyKind, Kind
<1>2. request.failed = {} /\ request # Idle
  BY AllRead DEF ViewsInv, TypeOK, TopologyRoute, SearchRoute, HealthScoreRoute, Route
<1>3. PICK i \in DOMAIN request.route.reads : request.route.reads[i] = kind
  <2>1. request.route.reads = <<"Service", "Deployment", "ReplicaSet", "Pod", "Backends">>
    BY DEF TopologyRoute, Route
  <2>2. QED
    BY <2>1 DEF TopologyKind
<1>4. request.route # SearchRoute
  BY DEF TopologyRoute, SearchRoute, Route
<1>5. (\E o \in Got(kind) : KeyOf(o) = key) \/ Missed(kind, key)
  BY <1>1, <1>2, <1>3, <1>4, AllRead DEF Got
<1>6. ASSUME Missed(kind, key)
      PROVE  Absent \in Had(<<kind, key>>)
  <2>1. PICK o \in Had(<<kind, key>>) : o # Absent => ~Selects(kind, o)
    BY <1>6 DEF Missed
  <2>2. o # Absent => KeyOf(o) = key
    BY <1>1, HadType DEF MayBecome, ViewsInv
  <2>3. QED
    BY <2>1, <2>2, PlainSelects
<1>7. QED
  BY <1>5, <1>6

(* What has been the same all the time is in the answer as it is.          *)
LEMMA ConstantGot ==
    ASSUME ViewsInv, Answering, request.route = TopologyRoute,
           NEW kind \in TopologyKind, NEW o \in Objects[kind],
           KeyOf(o) \in InScope(kind), Had(<<kind, KeyOf(o)>>) = {o}
    PROVE  o \in Got(kind)
<1>1. kind \in Kind /\ o # Absent
  BY KeyTypes DEF TopologyKind, Kind
<1>2. KeyOf(o) \in Keys[kind] /\ InNamespace(kind, KeyOf(o))
  BY DEF InScope, InNamespace, TopologyKind
<1>3. PICK p \in Got(kind) : KeyOf(p) = KeyOf(o)
  BY <1>1, <1>2, TopologyComplete
<1>4. p \in Had(<<kind, KeyOf(o)>>)
  BY <1>1, <1>3, AllRead DEF Got
<1>5. QED
  BY <1>3, <1>4

(* Where the namespace is in an id.                                        *)
LEMMA NamespaceOfId ==
    ASSUME NEW kind, NEW ns \in Text, NEW name \in Text
    PROVE  SubSeq(Id(kind, ns, name), 2, 1 + Len(ns)) = ns
  BY DEF Id, Text

(* An edge ends at a node, starts at a node unless at a replica set that   *)
(* was absent for a while, and both are of one namespace.                  *)
LEMMA Anchors ==
    ASSUME ViewsInv, Answering, request.route = TopologyRoute,
           NEW e \in DeploymentEdges \cup ServiceEdges \cup PodEdges
    PROVE  LET ids == {node.id : node \in Nodes}
               Fleeting == {key \in Keys["ReplicaSet"] : Absent \in Had(<<"ReplicaSet", key>>)}
           IN  /\ e.target \in ids
               /\ \/ e.source \in ids
                  \/ \E key \in Fleeting : e.source = Id("ReplicaSet", key.ns, key.name)
               /\ \E ns \in {key.ns : key \in Keys["Pod"] \cup Keys["ReplicaSet"]} :
                     /\ SubSeq(e.source, 2, 1 + Len(ns)) = ns
                     /\ SubSeq(e.target, 2, 1 + Len(ns)) = ns
<1> DEFINE ids == {node.id : node \in Nodes}
           Fleeting == {key \in Keys["ReplicaSet"] : Absent \in Had(<<"ReplicaSet", key>>)}
           spaces == {key.ns : key \in Keys["Pod"] \cup Keys["ReplicaSet"]}
<1>1. \A kind \in TopologyKind : \A o \in Got(kind) : Id(kind, o.ns, o.name) \in ids
  <2>1. ASSUME NEW kind, NEW o, NEW health, Node(kind, o, health) \in Nodes
        PROVE  Id(kind, o.ns, o.name) \in ids
    <3>1. Node(kind, o, health).id = Id(kind, o.ns, o.name)
      BY DEF Node
    <3>2. QED
      BY <2>1, <3>1
  <2> HIDE DEF ids
  <2>2. ASSUME NEW o \in Got("Service") PROVE Id("Service", o.ns, o.name) \in ids
    <3>1. \E health : Node("Service", o, health) \in Nodes
      BY DEF Nodes, ServiceNodes
    <3>2. QED
      BY <2>1, <3>1
  <2>3. ASSUME NEW o \in Got("Deployment") PROVE Id("Deployment", o.ns, o.name) \in ids
    <3>1. \E health : Node("Deployment", o, health) \in Nodes
      BY DEF Nodes, DeploymentNodes
    <3>2. QED
      BY <2>1, <3>1
  <2>4. ASSUME NEW o \in Got("ReplicaSet") PROVE Id("ReplicaSet", o.ns, o.name) \in ids
    <3>1. \E health : Node("ReplicaSet", o, health) \in Nodes
      BY DEF Nodes, ReplicaSetNodes
    <3>2. QED
      BY <2>1, <3>1
  <2>5. ASSUME NEW o \in Got("Pod") PROVE Id("Pod", o.ns, o.name) \in ids
    <3>1. \E health : Node("Pod", o, health) \in Nodes
      BY DEF Nodes, PodNodes
    <3>2. QED
      BY <2>1, <3>1
  <2>6. QED
    BY <2>2, <2>3, <2>4, <2>5 DEF TopologyKind
<1>2. \A kind \in TopologyKind : \A o \in Got(kind) :
         /\ o \in Objects[kind] /\ KeyOf(o) \in Keys[kind]
         /\ o.ns \in Text /\ o.name \in Text
         /\ InNamespace(kind, KeyOf(o))
  BY AllRead, KeyTypes DEF Got, TopologyKind, Kind
<1>3. \A kind \in {"Pod", "ReplicaSet"} : \A o \in Got(kind) : o.ns \in spaces
  <2>1. ASSUME NEW kind \in {"Pod", "ReplicaSet"}, NEW o \in Got(kind)
        PROVE  o.ns \in spaces
    <3>1. KeyOf(o) \in Keys["Pod"] \cup Keys["ReplicaSet"] /\ KeyOf(o).ns = o.ns
      BY <1>2 DEF TopologyKind, KeyOf
    <3>2. QED
      BY <3>1
  <2>2. QED
    BY <2>1
<1> HIDE DEF ids, Fleeting, spaces
<1>4. ASSUME NEW kind \in TopologyKind, NEW kind2 \in TopologyKind,
             NEW ns \in Text, NEW name \in Text, NEW name2 \in Text, ns \in spaces,
             e.source = Id(kind, ns, name), e.target = Id(kind2, ns, name2)
      PROVE  \E n \in spaces : /\ SubSeq(e.source, 2, 1 + Len(n)) = n
                               /\ SubSeq(e.target, 2, 1 + Len(n)) = n
  <2>2. SubSeq(e.source, 2, 1 + Len(ns)) = ns
    BY <1>4, NamespaceOfId
  <2>3. SubSeq(e.target, 2, 1 + Len(ns)) = ns
    BY <1>4, NamespaceOfId
  <2>4. QED
    BY <1>4, <2>2, <2>3
<1>5. CASE e \in DeploymentEdges
  <2>1. PICK rs \in Got("ReplicaSet") :
             \E d \in DeploymentsOfReplicaSet(rs, Got("Deployment")) :
                e = Edge(Id("Deployment", d.ns, d.name), Id("ReplicaSet", rs.ns, rs.name))
    BY <1>5 DEF DeploymentEdges
  <2>9. PICK d \in DeploymentsOfReplicaSet(rs, Got("Deployment")) :
           e = Edge(Id("Deployment", d.ns, d.name), Id("ReplicaSet", rs.ns, rs.name))
    BY <2>1
  <2>2. d \in Got("Deployment") /\ d.ns = rs.ns
    BY DEF DeploymentsOfReplicaSet
  <2>3. /\ e.source = Id("Deployment", rs.ns, d.name)
        /\ e.target = Id("ReplicaSet", rs.ns, rs.name)
    BY <2>9, <2>2 DEF Edge
  <2>4. e.source \in ids /\ e.target \in ids
    BY <1>1, <2>2, <2>3 DEF TopologyKind
  <2>5. /\ rs.ns \in Text /\ rs.name \in Text /\ d.name \in Text /\ rs.ns \in spaces
    BY <1>2, <1>3, <2>2 DEF TopologyKind
  <2>6. \E n \in spaces : /\ SubSeq(e.source, 2, 1 + Len(n)) = n
                          /\ SubSeq(e.target, 2, 1 + Len(n)) = n
    BY <1>4, <2>3, <2>5 DEF TopologyKind
  <2>7. QED
    BY <2>4, <2>6 DEF ids, spaces
<1>6. CASE e \in ServiceEdges
  <2>1. PICK svc \in Got("Service") :
             \E pod \in MatchServiceToPods(svc, Got("Pod")) :
                e = Edge(Id("Service", svc.ns, svc.name), Id("Pod", pod.ns, pod.name))
    BY <1>6 DEF ServiceEdges
  <2>9. PICK pod \in MatchServiceToPods(svc, Got("Pod")) :
           e = Edge(Id("Service", svc.ns, svc.name), Id("Pod", pod.ns, pod.name))
    BY <2>1
  <2>2. pod \in Got("Pod") /\ svc.ns = pod.ns
    BY DEF MatchServiceToPods
  <2>3. /\ e.source = Id("Service", pod.ns, svc.name)
        /\ e.target = Id("Pod", pod.ns, pod.name)
    BY <2>9, <2>2 DEF Edge
  <2>4. e.source \in ids /\ e.target \in ids
    BY <1>1, <2>2, <2>3 DEF TopologyKind
  <2>5. /\ pod.ns \in Text /\ pod.name \in Text /\ svc.name \in Text /\ pod.ns \in spaces
    BY <1>2, <1>3, <2>2 DEF TopologyKind
  <2>6. \E n \in spaces : /\ SubSeq(e.source, 2, 1 + Len(n)) = n
                          /\ SubSeq(e.target, 2, 1 + Len(n)) = n
    BY <1>4, <2>3, <2>5 DEF TopologyKind
  <2>7. QED
    BY <2>4, <2>6 DEF ids, spaces
<1>7. CASE e \in PodEdges
  <2>1. PICK pod \in Got("Pod") :
           /\ pod.owner # <<>>
           /\ e = Edge(Id("ReplicaSet", pod.ns, pod.owner), Id("Pod", pod.ns, pod.name))
    BY <1>7 DEF PodEdges
  <2> DEFINE key == [ns |-> pod.ns, name |-> pod.owner]
  <2>2. /\ e.source = Id("ReplicaSet", pod.ns, pod.owner)
        /\ e.target = Id("Pod", pod.ns, pod.name)
    BY <2>1 DEF Edge
  <2>3. pod \in Objects["Pod"] /\ InNamespace("Pod", KeyOf(pod))
    BY <1>2 DEF TopologyKind
  <2>4. /\ pod.ns \in Text /\ pod.name \in Text /\ pod.ns \in spaces
    BY <1>2, <1>3 DEF TopologyKind
  <2>5. key \in Keys["ReplicaSet"]
    BY <2>1, <2>3, ViewsAssumption
  <2>6. pod.owner \in Text
    BY <2>5, KeyTypes DEF Key, Kind
  <2>7. InNamespace("ReplicaSet", key)
    BY <2>3 DEF InNamespace, KeyOf, ClusterScoped
  <2>8. \/ e.source \in ids
        \/ \E k \in Fleeting : e.source = Id("ReplicaSet", k.ns, k.name)
    <3>1. \/ \E rs \in Got("ReplicaSet") : KeyOf(rs) = key
          \/ Absent \in Had(<<"ReplicaSet", key>>)
      BY <2>5, <2>7, TopologyComplete DEF TopologyKind
    <3>2. ASSUME NEW rs \in Got("ReplicaSet"), KeyOf(rs) = key
          PROVE  e.source \in ids
      <4>1. rs.ns = pod.ns /\ rs.name = pod.owner
        BY <3>2 DEF KeyOf
      <4>2. QED
        BY <1>1, <2>2, <4>1 DEF TopologyKind
    <3>3. ASSUME Absent \in Had(<<"ReplicaSet", key>>)
          PROVE  \E k \in Fleeting : e.source = Id("ReplicaSet", k.ns, k.name)
      <4>1. key \in Fleeting /\ e.source = Id("ReplicaSet", key.ns, key.name)
        BY <2>2, <2>5, <3>3 DEF Fleeting
      <4>2. QED
        BY <4>1
    <3>4. QED
      BY <3>1, <3>2, <3>3
  <2>9. e.target \in ids
    BY <1>1, <2>2 DEF TopologyKind
  <2>10. \E n \in spaces : /\ SubSeq(e.source, 2, 1 + Len(n)) = n
                           /\ SubSeq(e.target, 2, 1 + Len(n)) = n
    BY <1>4, <2>2, <2>4, <2>6 DEF TopologyKind
  <2>11. QED
    BY <2>8, <2>9, <2>10 DEF ids, Fleeting, spaces
<1>8. QED
  BY <1>5, <1>6, <1>7

(* Objects that stay the same and are related have their edge.             *)
LEMMA RelationsDrawn ==
    ASSUME ViewsInv, Answering, request.route = TopologyRoute
    PROVE  LET Now(kind) == {o \in Objects[kind] : /\ KeyOf(o) \in InScope(kind)
                                                   /\ Had(<<kind, KeyOf(o)>>) = {o}}
           IN  /\ \A pod \in Now("Pod") :
                     /\ pod.owner # <<>> =>
                           Edge(Id("ReplicaSet", pod.ns, pod.owner),
                                Id("Pod", pod.ns, pod.name)) \in PodEdges
                     /\ \A svc \in Now("Service") :
                           svc.ns = pod.ns /\ LabelsMatch(svc.selector, pod.labels) =>
                               Edge(Id("Service", svc.ns, svc.name),
                                    Id("Pod", pod.ns, pod.name)) \in ServiceEdges
               /\ \A rs \in Now("ReplicaSet"), d \in Now("Deployment") :
                     d.ns = rs.ns /\ d.name = rs.owner =>
                         Edge(Id("Deployment", d.ns, d.name),
                              Id("ReplicaSet", rs.ns, rs.name)) \in DeploymentEdges
<1> DEFINE Now(kind) == {o \in Objects[kind] : /\ KeyOf(o) \in InScope(kind)
                                               /\ Had(<<kind, KeyOf(o)>>) = {o}}
<1>1. \A kind \in TopologyKind : Now(kind) \subseteq Got(kind)
  BY ConstantGot
<1>2. /\ Now("Pod") \subseteq Got("Pod") /\ Now("Service") \subseteq Got("Service")
      /\ Now("ReplicaSet") \subseteq Got("ReplicaSet")
      /\ Now("Deployment") \subseteq Got("Deployment")
  BY <1>1 DEF TopologyKind
<1> HIDE DEF Now
<1>3. ASSUME NEW pod \in Now("Pod"), pod.owner # <<>>
      PROVE  Edge(Id("ReplicaSet", pod.ns, pod.owner),
                  Id("Pod", pod.ns, pod.name)) \in PodEdges
  BY <1>2, <1>3 DEF PodEdges
<1>4. ASSUME NEW pod \in Now("Pod"), NEW svc \in Now("Service"),
             svc.ns = pod.ns, LabelsMatch(svc.selector, pod.labels)
      PROVE  Edge(Id("Service", svc.ns, svc.name),
                  Id("Pod", pod.ns, pod.name)) \in ServiceEdges
  BY <1>2, <1>4 DEF ServiceEdges, MatchServiceToPods
<1>5. ASSUME NEW rs \in Now("ReplicaSet"), NEW d \in Now("Deployment"),
             d.ns = rs.ns, d.name = rs.owner
      PROVE  Edge(Id("Deployment", d.ns, d.name), Id("ReplicaSet", rs.ns, rs.name))
                \in DeploymentEdges
  BY <1>2, <1>5 DEF DeploymentEdges, DeploymentsOfReplicaSet
<1>6. QED
  BY <1>3, <1>4, <1>5 DEF Now

(* The edges of every topology that is answered join nodes of one          *)
(* namespace, and those between constant objects are all there.            *)
THEOREM TopologyHolds == Spec => []EdgesAnchored
<1>1. ViewsInv => EdgesAnchored
  BY Anchors, RelationsDrawn DEF EdgesAnchored
<1>2. QED
  BY <1>1, ViewsKeep, PTL

-----------------------------------------------------------------------------
(* Counts.                                                                 *)

(* There are finitely many keys of a kind.                                 *)
LEMMA KeysFinite == \A kind \in Kind : IsFiniteSet(Keys[kind])
<1> SUFFICES ASSUME NEW kind \in Kind PROVE IsFiniteSet(Keys[kind])
  OBVIOUS
<1>1. Catalog[kind] \in Seq(Key)
  BY ViewsAssumption
<1> DEFINE f == [i \in 1 .. Len(Catalog[kind]) |-> Catalog[kind][i]]
<1>2. Len(Catalog[kind]) \in Nat /\ DOMAIN Catalog[kind] = 1 .. Len(Catalog[kind])
  BY <1>1
<1>3. IsFiniteSet(1 .. Len(Catalog[kind]))
  BY <1>2, FS_Interval
<1>4. Keys[kind] = {Catalog[kind][i] : i \in 1 .. Len(Catalog[kind])}
  BY <1>2 DEF Keys
<1>5. f \in Surjection(1 .. Len(Catalog[kind]), Keys[kind])
  BY <1>4 DEF Surjection
<1> HIDE DEF f
<1>6. QED
  BY <1>3, <1>5, FS_Surjection

(* Objects with different keys are at most as many as the keys.            *)
LEMMA CountAtMost ==
    ASSUME NEW S, NEW K, IsFiniteSet(K),
           \A o \in S : KeyOf(o) \in K,
           \A o, p \in S : KeyOf(o) = KeyOf(p) => o = p
    PROVE  IsFiniteSet(S) /\ Cardinality(S) <= Cardinality(K)
<1> DEFINE f == [o \in S |-> KeyOf(o)]
<1>1. f \in Injection(S, K)
  BY DEF Injection, IsInjective
<1> HIDE DEF f
<1>2. QED
  BY <1>1, FS_Injection

(* Where each key has an object there are at least as many objects.        *)
LEMMA CountAtLeast ==
    ASSUME NEW S, NEW K, IsFiniteSet(S),
           \A key \in K : \E o \in S : KeyOf(o) = key
    PROVE  IsFiniteSet(K) /\ Cardinality(K) <= Cardinality(S)
<1> DEFINE f == [key \in K |-> CHOOSE o \in S : KeyOf(o) = key]
<1>1. \A key \in K : f[key] \in S /\ KeyOf(f[key]) = key
  OBVIOUS
<1>2. f \in [K -> S]
  BY <1>1
<1>3. DOMAIN f = K
  OBVIOUS
<1> HIDE DEF f
<1>4. f \in Injection(K, S)
  BY <1>1, <1>2, <1>3 DEF Injection, IsInjective
<1>5. QED
  BY <1>4, FS_Injection

(* The number of the selected objects S of a list lies between the sizes   *)
(* of L and U when each key of L has an object in S, and each object in S  *)
(* its key in U.                                                           *)
LEMMA Bracket ==
    ASSUME ViewsInv, Answering, NEW kind \in Kind,
           NEW S \in SUBSET Got(kind), NEW L, NEW U \in SUBSET Keys[kind],
           \A key \in L : \E o \in S : KeyOf(o) = key,
           \A o \in S : KeyOf(o) \in U
    PROVE  IsFiniteSet(S) /\ Between(L, Cardinality(S), U)
<1>1. IsFiniteSet(U)
  BY KeysFinite, FS_Subset
<1>2. \A o, p \in S : KeyOf(o) = KeyOf(p) => o = p
  BY AllRead DEF ViewsInv, TypeOK, Got
<1>3. IsFiniteSet(S) /\ Cardinality(S) <= Cardinality(U)
  BY <1>1, <1>2, CountAtMost
<1>4. Cardinality(L) <= Cardinality(S)
  BY <1>3, CountAtLeast
<1>5. QED
  BY <1>3, <1>4 DEF Between

(* The objects that are not in a part are the whole less the part.         *)
LEMMA CountSplit ==
    ASSUME NEW S, IsFiniteSet(S), NEW T \in SUBSET S
    PROVE  Cardinality(S) - Cardinality(T) = Cardinality(S \ T)
<1>1. S \cap T = T
  OBVIOUS
<1>2. Cardinality(S \ T) = Cardinality(S) - Cardinality(S \cap T)
  BY FS_Difference
<1>3. QED
  BY <1>1, <1>2

(* The keys in scope whose objects have been in H all the time, and those  *)
(* whose objects have been in H at some time.                              *)
Throughout(kind, H) ==
    {key \in InScope(kind) : \A o \in Had(<<kind, key>>) : o # Absent /\ o \in H}
AtSomeTime(kind, H) ==
    {key \in InScope(kind) : \E o \in Had(<<kind, key>>) : o # Absent /\ o \in H}

(* The kinds an overview counts by their own state.                        *)
CountedKind == {"Pod", "Deployment", "ReplicaSet", "Namespace"}

(* What the overview counts of a kind.                                     *)
Counted(kind) ==
    IF kind = "Namespace" THEN {ns \in Got("Namespace") : request.ns \in {AnyNs, ns.name}}
                          ELSE Got(kind)

(* Of a route that reads by namespace only and fails with its lists.       *)
LEMMA PlainComplete ==
    ASSUME ViewsInv, Answering,
           request.route \in {OverviewRoute, HealthScoreRoute}, request.failed = {},
           NEW i \in DOMAIN request.route.reads, NEW kind \in Kind,
           kind = request.route.reads[i],
           NEW key \in Keys[kind], InNamespace(kind, key)
    PROVE  \/ \E o \in Got(kind) : KeyOf(o) = key /\ o \in Had(<<kind, key>>)
           \/ Absent \in Had(<<kind, key>>)
<1>1. request.route # SearchRoute
  BY DEF OverviewRoute, HealthScoreRoute, SearchRoute, Route
<1>2. (\E o \in Got(kind) : KeyOf(o) = key) \/ Missed(kind, key)
  BY <1>1, AllRead DEF Got
<1>3. ASSUME NEW o \in Got(kind), KeyOf(o) = key
      PROVE  o \in Had(<<kind, key>>)
  BY <1>3, AllRead DEF Got
<1>4. ASSUME Missed(kind, key)
      PROVE  Absent \in Had(<<kind, key>>)
  <2>1. PICK o \in Had(<<kind, key>>) : o # Absent => ~Selects(kind, o)
    BY <1>4 DEF Missed
  <2>2. o # Absent => KeyOf(o) = key
    BY ItemOf, HadType DEF MayBecome, ViewsInv
  <2>3. QED
    BY <2>1, <2>2, PlainSelects
<1>5. QED
  BY <1>2, <1>3, <1>4

(* An overview that answers has listed every kind that it counts.          *)
LEMMA OverviewReads ==
    ASSUME ViewsInv, Answering, request.route = OverviewRoute
    PROVE  /\ request.failed = {}
           /\ \A kind \in CountedKind \cup {"Service", "Endpoints"} :
                 /\ kind \in Kind
                 /\ \E i \in DOMAIN request.route.reads : request.route.reads[i] = kind
<1>1. request.failed = {}
  BY AllRead DEF ViewsInv, TypeOK, OverviewRoute, SearchRoute, HealthScoreRoute, Route
<1>2. request.route.reads =
        <<"Pod", "Deployment", "ReplicaSet", "Node", "Service", "Event", "Namespace",
          "Endpoints">>
  BY DEF OverviewRoute, Route
<1>3. QED
  BY <1>1, <1>2 DEF CountedKind, Kind

(* The count of the objects of a kind that are in a set H lies between     *)
(* those that were in H all the time and those that were at some time.     *)
LEMMA Figure ==
    ASSUME ViewsInv, Answering, request.route = OverviewRoute,
           NEW kind \in CountedKind, NEW H
    PROVE  /\ IsFiniteSet(Counted(kind))
           /\ Between(Throughout(kind, H), Cardinality({o \in Counted(kind) : o \in H}),
                      AtSomeTime(kind, H))
<1> DEFINE S == {o \in Counted(kind) : o \in H}
<1>1. /\ kind \in Kind /\ request.failed = {}
      /\ \E i \in DOMAIN request.route.reads : request.route.reads[i] = kind
  BY OverviewReads
<1>2. Counted(kind) \subseteq Got(kind) /\ S \subseteq Got(kind)
  BY DEF Counted
<1>3. ASSUME NEW o \in Counted(kind)
      PROVE  /\ KeyOf(o) \in InScope(kind) /\ o # Absent
             /\ o \in Had(<<kind, KeyOf(o)>>)
  <2>1. /\ KeyOf(o) \in Keys[kind] /\ o # Absent /\ o \in Had(<<kind, KeyOf(o)>>)
        /\ InNamespace(kind, KeyOf(o))
    BY <1>1, <1>2, AllRead, KeyTypes DEF Got
  <2>2. KeyOf(o) \in InScope(kind)
    <3>1. CASE kind = "Namespace"
      BY <2>1, <3>1 DEF InScope, Counted, KeyOf
    <3>2. CASE kind # "Namespace"
      BY <2>1, <3>2 DEF InScope, InNamespace, ClusterScoped, CountedKind
    <3>3. QED
      BY <3>1, <3>2
  <2>3. QED
    BY <2>1, <2>2
<1>4. \A o \in S : KeyOf(o) \in AtSomeTime(kind, H)
  BY <1>3 DEF AtSomeTime
<1>5. ASSUME NEW key \in Throughout(kind, H)
      PROVE  \E o \in S : KeyOf(o) = key
  <2>1. /\ key \in InScope(kind) /\ key \in Keys[kind] /\ InNamespace(kind, key)
        /\ Absent \notin Had(<<kind, key>>) /\ \A o \in Had(<<kind, key>>) : o \in H
    BY DEF Throughout, InScope, InNamespace, ClusterScoped, CountedKind
  <2>2. PICK o \in Got(kind) : KeyOf(o) = key /\ o \in Had(<<kind, key>>)
    BY <1>1, <2>1, PlainComplete
  <2>3. o \in Counted(kind)
    BY <2>1, <2>2 DEF Counted, InScope, KeyOf
  <2>4. QED
    BY <2>1, <2>2, <2>3
<1>6. AtSomeTime(kind, H) \subseteq Keys[kind]
  BY DEF AtSomeTime, InScope
<1>7. Between(Throughout(kind, H), Cardinality(S), AtSomeTime(kind, H))
  BY <1>1, <1>2, <1>4, <1>5, <1>6, Bracket
<1>8. IsFiniteSet(Counted(kind))
  <2>1. \A o \in Counted(kind) : KeyOf(o) \in Keys[kind]
    BY <1>3 DEF InScope
  <2>2. \A o, p \in Counted(kind) : KeyOf(o) = KeyOf(p) => o = p
    BY <1>1, <1>2, AllRead DEF ViewsInv, TypeOK, Got
  <2>3. QED
    BY <1>1, <2>1, <2>2, KeysFinite, CountAtMost
<1>9. QED
  BY <1>7, <1>8

(* So the healthy and the unhealthy of each kind are bracketed.            *)
LEMMA FigureOfKind ==
    ASSUME ViewsInv, Answering, request.route = OverviewRoute, NEW kind \in CountedKind
    PROVE  LET Healthy(o) ==
                   CASE kind = "Pod"        -> PodIsHealthy(o)
                     [] kind = "Deployment" -> DeploymentIsHealthy(o)
                     [] kind = "ReplicaSet" -> ReplicaSetIsHealthy(o)
                     [] kind = "Namespace"  -> NamespaceIsHealthy(o)
               Sick(o) == ~Healthy(o)
               count == Overview[kind]
           IN  /\ Between(Steady(kind, Healthy), count.healthy, Ever(kind, Healthy))
               /\ Between(Steady(kind, Sick), count.total - count.healthy, Ever(kind, Sick))
<1> DEFINE Healthy(o) ==
               CASE kind = "Pod"        -> PodIsHealthy(o)
                 [] kind = "Deployment" -> DeploymentIsHealthy(o)
                 [] kind = "ReplicaSet" -> ReplicaSetIsHealthy(o)
                 [] kind = "Namespace"  -> NamespaceIsHealthy(o)
           Sick(o) == ~Healthy(o)
           list == Counted(kind)
           H == {o \in Objects[kind] : Healthy(o)}
           G == {o \in Objects[kind] : Sick(o)}
<1>1. /\ Overview[kind].healthy = Cardinality({o \in list : Healthy(o)})
      /\ Overview[kind].total = Cardinality(list)
  <2>1. CASE kind = "Pod"
    BY <2>1 DEF Overview, Tally, Counted
  <2>2. CASE kind = "Deployment"
    BY <2>2 DEF Overview, Tally, Counted
  <2>3. CASE kind = "ReplicaSet"
    BY <2>3 DEF Overview, Tally, Counted
  <2>4. CASE kind = "Namespace"
    BY <2>4 DEF Overview, Tally, Counted
  <2>5. QED
    BY <2>1, <2>2, <2>3, <2>4 DEF CountedKind
<1> HIDE DEF Healthy
<1>2. kind \in Kind /\ list \subseteq Objects[kind]
  BY AllRead DEF Counted, CountedKind, Kind, Got
<1>3. {o \in list : Healthy(o)} = {o \in list : o \in H}
      /\ list \ {o \in list : Healthy(o)} = {o \in list : o \in G}
  BY <1>2
<1>4. \A key \in InScope(kind) : \A o \in Had(<<kind, key>>) :
         o # Absent => o \in Objects[kind]
  BY <1>2, ItemOf, HadType DEF ViewsInv, MayBecome, InScope
<1>5. /\ Steady(kind, Healthy) = Throughout(kind, H)
      /\ Ever(kind, Healthy) = AtSomeTime(kind, H)
  BY <1>4 DEF Steady, Ever, Throughout, AtSomeTime
<1>6. /\ Steady(kind, Sick) = Throughout(kind, G)
      /\ Ever(kind, Sick) = AtSomeTime(kind, G)
  BY <1>4 DEF Steady, Ever, Throughout, AtSomeTime
<1>7. /\ IsFiniteSet(list)
      /\ Between(Throughout(kind, H), Cardinality({o \in list : o \in H}),
                 AtSomeTime(kind, H))
      /\ Between(Throughout(kind, G), Cardinality({o \in list : o \in G}),
                 AtSomeTime(kind, G))
  BY Figure
<1>8. Cardinality(list) - Cardinality({o \in list : Healthy(o)})
         = Cardinality({o \in list : o \in G})
  BY <1>3, <1>7, CountSplit
<1> HIDE DEF list, H, G, Sick
<1>9. /\ Between(Steady(kind, Healthy), Overview[kind].healthy, Ever(kind, Healthy))
      /\ Between(Steady(kind, Sick), Overview[kind].total - Overview[kind].healthy,
                 Ever(kind, Sick))
  BY <1>1, <1>3, <1>5, <1>6, <1>7, <1>8
<1>10. QED
  BY <1>9 DEF Healthy, Sick

(* The endpoints that an overview goes by are those that the service had   *)
(* at some time.                                                           *)
LEMMA EndpointsWereThere ==
    ASSUME ViewsInv, Answering, request.route = OverviewRoute, NEW svc \in Got("Service")
    PROVE  EndpointsOf(svc) \in Backends(KeyOf(svc))
<1> DEFINE key == KeyOf(svc)
<1>1. /\ request.failed = {} /\ "Endpoints" \in Kind /\ "Service" \in Kind
      /\ \E i \in DOMAIN request.route.reads : request.route.reads[i] = "Endpoints"
  BY OverviewReads
<1>2. key \in Keys["Endpoints"] /\ InNamespace("Endpoints", key)
  <2>1. key \in Keys["Service"] /\ InNamespace("Service", key)
    BY <1>1, AllRead DEF Got
  <2>2. QED
    BY <2>1, ViewsAssumption DEF InNamespace, ClusterScoped
<1> HIDE DEF key
<1>3. CASE \E e \in Got("Endpoints") : KeyOf(e) = key
  <2>1. PICK e \in Got("Endpoints") : KeyOf(e) = key
    BY <1>3
  <2>2. \A o \in Got("Endpoints") : KeyOf(o) = key => o = e
    BY <1>1, <2>1, AllRead DEF ViewsInv, TypeOK, Got
  <2>3. EndpointsOf(svc) = {e}
    BY <2>1, <2>2 DEF EndpointsOf, key
  <2>4. e \in Had(<<"Endpoints", key>>) /\ e # Absent
    BY <1>1, <2>1, AllRead, KeyTypes DEF Got
  <2>5. {e} = {e} \ {Absent}
    BY <2>4
  <2>6. {e} \in Backends(key)
    BY <2>4, <2>5 DEF Backends
  <2>7. QED
    BY <2>3, <2>6 DEF key
<1>4. CASE ~\E e \in Got("Endpoints") : KeyOf(e) = key
  <2>1. EndpointsOf(svc) = {}
    BY <1>4 DEF EndpointsOf, key
  <2>2. Absent \in Had(<<"Endpoints", key>>)
    BY <1>1, <1>2, <1>4, PlainComplete
  <2>3. {} = {Absent} \ {Absent}
    OBVIOUS
  <2>4. {} \in Backends(key)
    BY <2>2, <2>3 DEF Backends
  <2>5. QED
    BY <2>1, <2>4 DEF key
<1>5. QED
  BY <1>3, <1>4

(* The verdicts a service may get: of each of its states with each of the  *)
(* endpoints that there were.                                              *)
Served(key) ==
    {ServiceIsHealthy(svc, endpoints) :
        svc \in Had(<<"Service", key>>) \ {Absent}, endpoints \in Backends(key)}

(* A listed service gets one of those verdicts.                            *)
LEMMA ServiceVerdicts ==
    ASSUME ViewsInv, Answering, request.route = OverviewRoute, NEW svc \in Got("Service")
    PROVE  /\ ServiceIsHealthy(svc, EndpointsOf(svc)) \in BOOLEAN
           /\ ServiceIsHealthy(svc, EndpointsOf(svc)) \in Served(KeyOf(svc))
           /\ KeyOf(svc) \in InScope("Service")
<1>1. /\ svc \in Objects["Service"] /\ svc # Absent
      /\ svc \in Had(<<"Service", KeyOf(svc)>>)
      /\ KeyOf(svc) \in Keys["Service"] /\ InNamespace("Service", KeyOf(svc))
  BY AllRead, KeyTypes DEF Got, Kind
<1>2. EndpointsOf(svc) \in Backends(KeyOf(svc))
  BY EndpointsWereThere
<1>3. svc.external \in BOOLEAN
  BY <1>1, ViewsAssumption
<1>4. ServiceIsHealthy(svc, EndpointsOf(svc)) \in BOOLEAN
  BY <1>3 DEF ServiceIsHealthy
<1>5. ServiceIsHealthy(svc, EndpointsOf(svc)) \in Served(KeyOf(svc))
  BY <1>1, <1>2 DEF Served
<1>6. KeyOf(svc) \in InScope("Service")
  BY <1>1 DEF InScope, InNamespace, ClusterScoped
<1>7. QED
  BY <1>4, <1>5, <1>6

(* The healthy and the unhealthy services are bracketed by those whose     *)
(* verdict could not have been another and those for which it was          *)
(* possible.                                                               *)
LEMMA FigureOfServices ==
    ASSUME ViewsInv, Answering, request.route = OverviewRoute
    PROVE  LET There == Steady("Service", LAMBDA svc : TRUE)
               count == Overview["Service"]
           IN  /\ Between({key \in There : Served(key) = {TRUE}}, count.healthy,
                          {key \in InScope("Service") : TRUE \in Served(key)})
               /\ Between({key \in There : Served(key) = {FALSE}}, count.total - count.healthy,
                          {key \in InScope("Service") : FALSE \in Served(key)})
<1> DEFINE There == Steady("Service", LAMBDA svc : TRUE)
           V(svc) == ServiceIsHealthy(svc, EndpointsOf(svc))
           list == Got("Service")
           S(b) == {svc \in list : V(svc) = b}
<1>1. /\ request.failed = {} /\ "Service" \in Kind
      /\ \E i \in DOMAIN request.route.reads : request.route.reads[i] = "Service"
  BY OverviewReads
<1>2. \A svc \in list : V(svc) \in BOOLEAN /\ V(svc) \in Served(KeyOf(svc))
                            /\ KeyOf(svc) \in InScope("Service")
  BY ServiceVerdicts
<1>3. /\ Overview["Service"].healthy = Cardinality({svc \in list : V(svc)})
      /\ Overview["Service"].total = Cardinality(list)
  BY DEF Overview, Tally
<1>4. ASSUME NEW key \in There
      PROVE  \E svc \in list : KeyOf(svc) = key
  <2>1. key \in Keys["Service"] /\ InNamespace("Service", key)
        /\ Absent \notin Had(<<"Service", key>>)
    BY DEF Steady, InScope, InNamespace
  <2>2. QED
    BY <1>1, <2>1, PlainComplete
<1>5. InScope("Service") \subseteq Keys["Service"]
  BY DEF InScope
<1> HIDE DEF V, list, There
<1>6. ASSUME NEW b \in BOOLEAN
      PROVE  /\ IsFiniteSet(S(b))
             /\ Between({key \in There : Served(key) = {b}}, Cardinality(S(b)),
                        {key \in InScope("Service") : b \in Served(key)})
  <2>1. ASSUME NEW key \in {k \in There : Served(k) = {b}}
        PROVE  \E svc \in S(b) : KeyOf(svc) = key
    BY <1>2, <1>4
  <2>2. \A svc \in S(b) : KeyOf(svc) \in {key \in InScope("Service") : b \in Served(key)}
    BY <1>2
  <2>3. S(b) \subseteq Got("Service")
    BY DEF list
  <2> DEFINE L == {key \in There : Served(key) = {b}}
             U == {key \in InScope("Service") : b \in Served(key)}
             T == S(b)
  <2>4. /\ \A key \in L : \E svc \in T : KeyOf(svc) = key
        /\ \A svc \in T : KeyOf(svc) \in U
        /\ U \subseteq Keys["Service"] /\ T \subseteq Got("Service")
    BY <1>5, <2>1, <2>2, <2>3
  <2> HIDE DEF L, U, T
  <2>5. IsFiniteSet(T) /\ Between(L, Cardinality(T), U)
    BY <1>1, <2>4, Bracket
  <2>6. QED
    BY <2>5 DEF L, U, T
<1>7. /\ {svc \in list : V(svc)} = S(TRUE)
      /\ list \ S(TRUE) = S(FALSE) /\ list = S(TRUE) \cup S(FALSE)
  BY <1>2
<1> HIDE DEF S
<1>8. IsFiniteSet(list)
  <2>1. IsFiniteSet(S(TRUE)) /\ IsFiniteSet(S(FALSE))
    BY <1>6
  <2>2. IsFiniteSet(S(TRUE) \cup S(FALSE))
    BY <2>1, FS_Union
  <2>3. QED
    BY <1>7, <2>2
<1>9. Cardinality(list) - Cardinality(S(TRUE)) = Cardinality(S(FALSE))
  BY <1>7, <1>8, CountSplit
<1>10. QED
  BY <1>3, <1>6, <1>7, <1>9 DEF There

(* The score does not rise with the number of warnings.                    *)
LEMMA ScoreFalls ==
    ASSUME NEW m \in Nat, NEW n \in Nat, m <= n
    PROVE  HealthScore(n) <= HealthScore(m)
  BY DEF HealthScore

(* So it is bracketed as the warnings are.                                 *)
LEMMA WarningsBracketed ==
    ASSUME ViewsInv, Answering, request.route = HealthScoreRoute, request.failed = {}
    PROVE  LET score == HealthScore(Cardinality({e \in Got("Event") : Warning(e)}))
           IN  /\ score <= HealthScore(Cardinality(Steady("Event", Warning)))
               /\ score >= HealthScore(Cardinality(Ever("Event", Warning)))
<1> DEFINE S == {e \in Got("Event") : Warning(e)}
           L == Steady("Event", Warning)
           U == Ever("Event", Warning)
<1>1. /\ "Event" \in Kind
      /\ \E i \in DOMAIN request.route.reads : request.route.reads[i] = "Event"
  BY DEF Kind, HealthScoreRoute, Route
<1>2. ASSUME NEW e \in S
      PROVE  KeyOf(e) \in U
  <2>1. /\ KeyOf(e) \in Keys["Event"] /\ e # Absent /\ e \in Had(<<"Event", KeyOf(e)>>)
        /\ InNamespace("Event", KeyOf(e)) /\ Warning(e)
    BY <1>1, AllRead, KeyTypes DEF Got
  <2>2. QED
    BY <2>1 DEF Ever, InScope, InNamespace, ClusterScoped
<1>3. ASSUME NEW key \in L
      PROVE  \E e \in S : KeyOf(e) = key
  <2>1. /\ key \in Keys["Event"] /\ InNamespace("Event", key)
        /\ \A o \in Had(<<"Event", key>>) : o # Absent /\ Warning(o)
    BY DEF Steady, InScope, InNamespace
  <2>2. PICK e \in Got("Event") : KeyOf(e) = key /\ e \in Had(<<"Event", key>>)
    BY <1>1, <2>1, PlainComplete
  <2>3. QED
    BY <2>1, <2>2
<1>4. S \subseteq Got("Event") /\ U \subseteq Keys["Event"] /\ L \subseteq Keys["Event"]
  BY DEF Steady, Ever, InScope
<1> HIDE DEF S, L, U
<1>5. IsFiniteSet(S) /\ Between(L, Cardinality(S), U)
  BY <1>1, <1>2, <1>3, <1>4, Bracket
<1>6. Cardinality(S) \in Nat /\ Cardinality(L) \in Nat /\ Cardinality(U) \in Nat
  BY <1>1, <1>4, <1>5, KeysFinite, FS_Subset, FS_CardinalityType
<1>7. Cardinality(L) <= Cardinality(S) /\ Cardinality(S) <= Cardinality(U)
  BY <1>5 DEF Between
<1>8. /\ HealthScore(Cardinality(S)) <= HealthScore(Cardinality(L))
      /\ HealthScore(Cardinality(U)) <= HealthScore(Cardinality(S))
  BY <1>6, <1>7, ScoreFalls
<1>9. HealthScore(Cardinality(S)) \in Int /\ HealthScore(Cardinality(U)) \in Int
  BY <1>6 DEF HealthScore
<1>10. QED
  BY <1>8, <1>9 DEF S, L, U

(* Every figure of an overview that is answered lies between what was so   *)
(* all the time and what was so at some time.                              *)
THEOREM FiguresHold == Spec => []FiguresBracketed
<1>1. ASSUME ViewsInv, Answering, request.route = OverviewRoute
      PROVE  \A kind \in {"Pod", "Deployment", "ReplicaSet", "Namespace"} :
                LET Healthy(o) ==
                        CASE kind = "Pod"        -> PodIsHealthy(o)
                          [] kind = "Deployment" -> DeploymentIsHealthy(o)
                          [] kind = "ReplicaSet" -> ReplicaSetIsHealthy(o)
                          [] kind = "Namespace"  -> NamespaceIsHealthy(o)
                    Sick(o) == ~Healthy(o)
                    count == Overview[kind]
                IN  /\ Between(Steady(kind, Healthy), count.healthy, Ever(kind, Healthy))
                    /\ Between(Steady(kind, Sick), count.total - count.healthy,
                               Ever(kind, Sick))
  BY <1>1, FigureOfKind DEF CountedKind
<1>2. ViewsInv => FiguresBracketed
  BY <1>1, FigureOfServices, WarningsBracketed DEF FiguresBracketed, Served
<1>3. QED
  BY <1>2, ViewsKeep, PTL

-----------------------------------------------------------------------------
(* The rules of WorkloadHealth.                                            *)

(* A union is empty when all its parts are.                                *)
LEMMA EmptyUnion ==
    ASSUME NEW A, NEW B, NEW C, NEW D, NEW E, NEW F,
           A \cup B \cup C \cup D \cup E \cup F = {}
    PROVE  A = {} /\ B = {} /\ C = {} /\ D = {} /\ E = {} /\ F = {}
OBVIOUS

(* What follows when the analyzer finds nothing, one finding after the     *)
(* other.                                                                  *)
LEMMA NoFinding ==
    ASSUME NEW pod, NEW events, AnalyzePod(pod, events) = {}
    PROVE  /\ pod.phase \notin {"Failed", "Pending"}
           /\ pod.ready \in {"True", "none"}
           /\ \A c \in pod.containers : ~(c.restarts > 0)
           /\ \A e \in events : e.type # "Warning"
<1>1. /\ When(pod.phase = "Failed", Finding("critical", "PodFailed")) = {}
      /\ When(pod.phase = "Pending", Finding("warning", "PodPending")) = {}
      /\ When(pod.ready \notin {"True", "none"}, Finding("warning", "PodNotReady")) = {}
      /\ UNION {When(c.restarts > 0, Finding("warning", "ContainerRestarts"))
                \cup When(c.waiting \in BadWaits, Finding("critical", c.waiting)) :
                  c \in pod.containers} = {}
      /\ {Finding("warning", e.reason) : e \in {e \in events : e.type = "Warning"}} = {}
  BY EmptyUnion DEF AnalyzePod
<1>2. pod.phase \notin {"Failed", "Pending"}
  BY <1>1 DEF When
<1>3. pod.ready \in {"True", "none"}
  BY <1>1 DEF When
<1>4. ASSUME NEW c \in pod.containers
      PROVE  ~(c.restarts > 0)
  <2> SUFFICES ASSUME c.restarts > 0 PROVE FALSE
    OBVIOUS
  <2>1. Finding("warning", "ContainerRestarts")
            \in When(c.restarts > 0, Finding("warning", "ContainerRestarts"))
    BY DEF When
  <2> QED
    BY <1>1, <2>1
<1>5. ASSUME NEW e \in events
      PROVE  e.type # "Warning"
  BY <1>1
<1> QED
  BY <1>2, <1>3, <1>4, <1>5

(* A pod that the analyzer finds nothing about is healthy by the rule of   *)
(* the topology and the search, and by that of the overview: the routes of *)
(* server.go cannot contradict a clean analysis of the same report.        *)
THEOREM CleanPod ==
    ASSUME NEW pod, NEW events,
           PodReport(pod),
           \A c \in pod.containers : c.ready \in BOOLEAN /\ c.restarts \in Nat,
           AnalyzePod(pod, events) = {}
    PROVE  PodHealth(pod) = "healthy" /\ PodIsHealthy(pod)
<1>1. /\ pod.phase \notin {"Failed", "Pending"}
      /\ pod.ready \in {"True", "none"}
      /\ \A c \in pod.containers : ~(c.restarts > 0)
  BY NoFinding
<1>2. pod.ready = "True"
  BY <1>1 DEF PodReport
<1>3. pod.phase = "Running" /\ pod.containers # {} /\ ~Unready(pod)
  BY <1>2 DEF PodReport
<1>4. ~Flapping(pod)
  BY <1>1 DEF Flapping
<1> QED
  BY <1>3, <1>4 DEF PodHealth, PodIsHealthy

(* A deployment that the overview counts as healthy is healthy everywhere: *)
(* the search shows it so, and the analyzer has nothing to say about its   *)
(* replicas.                                                               *)
THEOREM HealthyDeployment ==
    ASSUME NEW d, NEW events,
           d.desired \in Nat, d.ready \in Nat, d.available \in Nat, d.unavailable \in Nat,
           DeploymentIsHealthy(d)
    PROVE  DeploymentHealth(d) = "healthy" /\ AnalyzeDeployment(d, {}, events) = {}
<1>1. /\ d.unavailable = 0 /\ ~(d.unavailable > 0)
      /\ ~(d.ready < d.desired) /\ ~(d.available < d.desired)
  BY DEF DeploymentIsHealthy
<1>2. DeploymentHealth(d) = "healthy"
  BY <1>1 DEF DeploymentHealth
<1>3. AnalyzeDeployment(d, {}, events) = {}
  BY <1>1 DEF AnalyzeDeployment, When
<1> QED
  BY <1>2, <1>3

(* The converse holds of a deployment that has no more replicas ready than *)
(* it wants and none unavailable: only a surplus, as during a rolling      *)
(* update, or a lagging count makes the views disagree about it.           *)
THEOREM CleanDeployment ==
    ASSUME NEW d, NEW events, NEW pods,
           d.desired \in Nat, d.ready \in Nat, d.available \in Nat, d.unavailable \in Nat,
           DeploymentReport(d),
           d.ready <= d.desired, d.unavailable = 0,
           AnalyzeDeployment(d, pods, events) = {}
    PROVE  DeploymentIsHealthy(d)
<1>1. /\ When(d.available < d.desired, Finding("critical", "DeploymentUnavailable")) = {}
      /\ When(d.ready < d.desired, Finding("warning", "InsufficientReadyReplicas")) = {}
  BY DEF AnalyzeDeployment
<1>2. ~(d.available < d.desired) /\ ~(d.ready < d.desired)
  BY <1>1 DEF When
<1> QED
  BY <1>2 DEF DeploymentIsHealthy, DeploymentReport

(* A clean analysis of a deployment found it ready and its pods clean.     *)
LEMMA CleanParts ==
    ASSUME NEW d, NEW pods, NEW events, AnalyzeDeployment(d, pods, events) = {}
    PROVE  /\ ~(d.ready < d.desired)
           /\ \A pod \in pods : AnalyzePod(pod, events) = {}
<1>1. /\ When(d.ready < d.desired, Finding("warning", "InsufficientReadyReplicas")) = {}
      /\ UNION {AnalyzePod(pod, events) : pod \in pods} = {}
  BY DEF AnalyzeDeployment
<1>2. ~(d.ready < d.desired)
  BY <1>1 DEF When
<1>3. ASSUME NEW pod \in pods
      PROVE  AnalyzePod(pod, events) = {}
  BY <1>1
<1>4. QED
  BY <1>2, <1>3

-----------------------------------------------------------------------------
(* Analyses.                                                               *)

(* An analysis has got every object that was there, and selected, all the  *)
(* time.                                                                   *)
LEMMA AnalysisComplete ==
    ASSUME ViewsInv, Answering,
           request.route \in {AnalyzePodRoute, AnalyzeDeploymentRoute},
           NEW i \in DOMAIN request.route.reads, NEW kind \in Kind,
           kind = request.route.reads[i],
           NEW key \in Keys[kind],
           \A o \in Had(<<kind, key>>) : o # Absent /\ Selects(kind, o)
    PROVE  \E o \in Got(kind) : KeyOf(o) = key /\ o \in Had(<<kind, key>>)
<1>1. request.route # SearchRoute /\ request.failed = {}
  BY AllRead DEF ViewsInv, TypeOK, SearchRoute, HealthScoreRoute, Route, AnalyzePodRoute,
                 AnalyzeDeploymentRoute, Single
<1>2. ~Missed(kind, key)
  BY DEF Missed
<1>3. PICK o \in Got(kind) : KeyOf(o) = key
  BY <1>1, <1>2, AllRead DEF Got
<1>4. QED
  BY <1>3, AllRead DEF Got

(* An analysis that is answered has the object it is about.                *)
LEMMA SubjectGot ==
    ASSUME ViewsInv, Answering, request.route.single, request.route.reads[1] \in Kind
    PROVE  The(request.route.reads[1]) \in Got(request.route.reads[1])
<1>1. request # Idle /\ ~Unread(request.route.reads[1])
  BY AllRead
<1>2. request.got[request.route.reads[1]] # {}
  BY <1>1 DEF ViewsInv, TodoInOrder
<1>3. QED
  BY <1>2 DEF The, Got

(* Every other view agrees with the clean analysis of a listed pod.        *)
LEMMA CleanPodAgrees ==
    ASSUME ViewsInv, Answering, NEW pod \in Got("Pod"), NEW events,
           AnalyzePod(pod, events) = {}
    PROVE  PodHealth(pod) = "healthy" /\ PodIsHealthy(pod)
<1>1. pod \in Objects["Pod"]
  BY AllRead DEF Got, Kind
<1>2. PodReport(pod) /\ pod.containers \subseteq Container
  BY <1>1, ViewsAssumption
<1>3. \A c \in pod.containers : c.ready \in BOOLEAN /\ c.restarts \in Nat
  BY <1>2 DEF Container
<1>4. QED
  BY <1>2, <1>3, CleanPod

(* What the clean analysis of a pod says.                                  *)
LEMMA PodCleanBill ==
    ASSUME ViewsInv, Answering, request.route = AnalyzePodRoute, PodFindings = {}
    PROVE  /\ PodHealth(The("Pod")) = "healthy"
           /\ PodIsHealthy(The("Pod"))
           /\ \A key \in Steady("Event", Warning) :
                 \E e \in Had(<<"Event", key>>) : e.about # request.subject.name
<1>1. /\ request.route.single /\ request.route.reads = <<"Pod", "Event">>
      /\ request.route # AnalyzeDeploymentRoute /\ "Pod" \in Kind /\ "Event" \in Kind
  BY DEF AnalyzePodRoute, AnalyzeDeploymentRoute, Single, Kind
<1>2. The("Pod") \in Got("Pod")
  BY <1>1, SubjectGot
<1>3. AnalyzePod(The("Pod"), Got("Event")) = {}
  BY DEF PodFindings
<1>4. PodHealth(The("Pod")) = "healthy" /\ PodIsHealthy(The("Pod"))
  BY <1>2, <1>3, CleanPodAgrees
<1>5. ASSUME NEW key \in Steady("Event", Warning),
             \A e \in Had(<<"Event", key>>) : e.about = request.subject.name
      PROVE  FALSE
  <2>1. /\ key \in Keys["Event"] /\ InNamespace("Event", key)
        /\ \A e \in Had(<<"Event", key>>) : e # Absent /\ Warning(e)
    BY DEF Steady, InScope, InNamespace
  <2>2. ASSUME NEW e \in Had(<<"Event", key>>)
        PROVE  Selects("Event", e)
    <3>1. KeyOf(e) = key
      BY <1>1, <2>1, ItemOf, HadType DEF MayBecome, ViewsInv
    <3>2. QED
      BY <1>1, <1>5, <2>1, <3>1 DEF Selects
  <2>3. PICK e \in Got("Event") : e \in Had(<<"Event", key>>)
    BY <1>1, <2>1, <2>2, AnalysisComplete
  <2>4. e.type = "Warning"
    BY <2>1, <2>3 DEF Warning
  <2>5. QED
    BY <1>3, <2>4, NoFinding
<1>6. QED
  BY <1>4, <1>5

(* What the clean analysis of a deployment says of it, its pods and the    *)
(* events.                                                                 *)
LEMMA DeploymentCleanBill ==
    ASSUME ViewsInv, Answering, request.route = AnalyzeDeploymentRoute,
           DeploymentFindings = {}
    PROVE  /\ DeploymentHealth(The("Deployment")) # "warning"
           /\ \A key \in Steady("Pod", LAMBDA pod : LabelsMatch(The("Deployment").selector,
                                                                pod.labels)) :
                 \E pod \in Had(<<"Pod", key>>) : PodHealth(pod) = "healthy"
           /\ Got("Pod") # {} => Steady("Event", Warning) = {}
<1>1. /\ request.route.reads = <<"Deployment", "Pod", "Event">>
      /\ request.route \notin {AnalyzePodRoute, ResourceEventsRoute}
      /\ "Pod" \in Kind /\ "Event" \in Kind
  BY DEF AnalyzePodRoute, AnalyzeDeploymentRoute, ResourceEventsRoute, Route, Single, Kind
<1>2. /\ ~(The("Deployment").ready < The("Deployment").desired)
      /\ \A pod \in Got("Pod") : AnalyzePod(pod, Got("Event")) = {}
  BY CleanParts DEF DeploymentFindings
<1>3. DeploymentHealth(The("Deployment")) # "warning"
  BY <1>2 DEF DeploymentHealth
<1>4. ASSUME NEW key \in Steady("Pod", LAMBDA pod : LabelsMatch(The("Deployment").selector,
                                                               pod.labels))
      PROVE  \E pod \in Had(<<"Pod", key>>) : PodHealth(pod) = "healthy"
  <2>1. /\ key \in Keys["Pod"] /\ InNamespace("Pod", key)
        /\ \A pod \in Had(<<"Pod", key>>) :
              pod # Absent /\ LabelsMatch(The("Deployment").selector, pod.labels)
    BY DEF Steady, InScope, InNamespace
  <2>2. ASSUME NEW pod \in Had(<<"Pod", key>>)
        PROVE  Selects("Pod", pod)
    <3>1. KeyOf(pod) = key
      BY <1>1, <2>1, ItemOf, HadType DEF MayBecome, ViewsInv
    <3>2. QED
      BY <1>1, <2>1, <3>1 DEF Selects
  <2>3. PICK pod \in Got("Pod") : pod \in Had(<<"Pod", key>>)
    BY <1>1, <2>1, <2>2, AnalysisComplete
  <2>4. QED
    BY <1>2, <2>3, CleanPodAgrees
<1>5. ASSUME NEW pod \in Got("Pod"), NEW key \in Steady("Event", Warning)
      PROVE  FALSE
  <2>1. /\ key \in Keys["Event"] /\ InNamespace("Event", key)
        /\ \A e \in Had(<<"Event", key>>) : e # Absent /\ Warning(e)
    BY DEF Steady, InScope, InNamespace
  <2>2. ASSUME NEW e \in Had(<<"Event", key>>)
        PROVE  Selects("Event", e)
    <3>1. KeyOf(e) = key
      BY <1>1, <2>1, ItemOf, HadType DEF MayBecome, ViewsInv
    <3>2. QED
      BY <1>1, <2>1, <3>1 DEF Selects
  <2>3. PICK e \in Got("Event") : e \in Had(<<"Event", key>>)
    BY <1>1, <2>1, <2>2, AnalysisComplete
  <2>4. e.type = "Warning"
    BY <2>1, <2>3 DEF Warning
  <2>5. QED
    BY <1>2, <2>4, NoFinding
<1>6. QED
  BY <1>3, <1>4, <1>5

(* What an analysis without findings promises holds of every analysis that *)
(* is answered, however the cluster changes while it is made.              *)
THEOREM CleanBillsAreDeserved == Spec => []CleanBill
<1>1. ViewsInv => CleanBill
  BY PodCleanBill, DeploymentCleanBill DEF CleanBill
<1>2. QED
  BY <1>1, ViewsKeep, PTL

-----------------------------------------------------------------------------
(* The order of a search.                                                  *)

(* When the comparison is a strict total order of the results, the list    *)
(* has each result once, with as many before it as are better.             *)
LEMMA Ordered ==
    ASSUME NEW H, IsFiniteSet(H),
           \A r \in H : ~Better(r, r),
           \A r, s, t \in H : Better(r, s) /\ Better(s, t) => Better(r, t),
           \A r, s \in H : r = s \/ Better(r, s) \/ Better(s, r)
    PROVE  LET list == BestFirst(H)
               n    == Cardinality(H)
           IN  /\ n \in Nat
               /\ list \in [1 .. n -> H]
               /\ \A r \in H : \E i \in 1 .. n : list[i] = r
               /\ \A i, j \in 1 .. n : i < j => Better(list[i], list[j])
<1> DEFINE n == Cardinality(H)
           before == [r \in H |-> Cardinality(Ahead(H, r))]
           list == BestFirst(H)
<1>1. n \in Nat
  BY FS_CardinalityType
<1>2. ASSUME NEW r \in H
      PROVE  /\ IsFiniteSet(Ahead(H, r)) /\ before[r] \in Nat
             /\ before[r] = Cardinality(Ahead(H, r)) /\ before[r] < n
  <2>1. Ahead(H, r) \in SUBSET H /\ r \notin Ahead(H, r)
    BY DEF Ahead
  <2>2. /\ IsFiniteSet(Ahead(H, r)) /\ Cardinality(Ahead(H, r)) <= n
        /\ Cardinality(Ahead(H, r)) # n
    BY <2>1, FS_Subset
  <2>3. Cardinality(Ahead(H, r)) \in Nat
    BY <2>2, FS_CardinalityType
  <2>4. QED
    BY <1>1, <2>2, <2>3
<1>3. ASSUME NEW r \in H, NEW s \in H, Better(r, s)
      PROVE  before[r] < before[s]
  <2>1. Ahead(H, r) \in SUBSET Ahead(H, s) /\ r \in Ahead(H, s) /\ r \notin Ahead(H, r)
    BY <1>3 DEF Ahead
  <2>2. /\ Cardinality(Ahead(H, r)) <= Cardinality(Ahead(H, s))
        /\ Cardinality(Ahead(H, r)) # Cardinality(Ahead(H, s))
    BY <1>2, <2>1, FS_Subset
  <2>3. QED
    BY <1>2, <2>2
<1>4. \A r, s \in H : before[r] = before[s] => r = s
  BY <1>2, <1>3
<1>5. /\ IsFiniteSet(0 .. (n - 1)) /\ Cardinality(0 .. (n - 1)) = n
      /\ before \in [H -> 0 .. (n - 1)]
  <2>1. 0 \in Int /\ n - 1 \in Int /\ (IF 0 > n - 1 THEN 0 ELSE n - 1 - 0 + 1) = n
    BY <1>1
  <2>2. \A r \in H : before[r] \in 0 .. (n - 1)
    BY <1>1, <1>2
  <2>3. QED
    BY <2>1, <2>2, FS_Interval
<1> DEFINE places == 0 .. (n - 1)
<1>6. before \in Surjection(H, places)
  <2>1. DOMAIN before = H
    OBVIOUS
  <2> HIDE DEF before, places
  <2>2. before \in Injection(H, places)
    BY <1>4, <1>5, <2>1 DEF Injection, IsInjective, places
  <2>3. QED
    BY <1>5, <2>2, FS_Injection DEF places
<1>7. ASSUME NEW i \in 1 .. n
      PROVE  list[i] \in H /\ before[list[i]] = i - 1
  <2>1. i - 1 \in places
    BY <1>1
  <2>2. \E r \in H : before[r] = i - 1
    BY <1>6, <2>1 DEF Surjection
  <2>3. list[i] = CHOOSE r \in H : Cardinality(Ahead(H, r)) = i - 1
    BY DEF BestFirst
  <2>4. QED
    BY <2>2, <2>3
<1>8. list \in [1 .. n -> H]
  BY <1>7 DEF BestFirst
<1> HIDE DEF list, before, n, places
<1>9. ASSUME NEW r \in H
      PROVE  \E i \in 1 .. n : list[i] = r
  <2>1. before[r] \in Nat /\ before[r] < n
    BY <1>2
  <2>2. PICK i \in 1 .. n : i - 1 = before[r]
    BY <1>1, <2>1
  <2>3. list[i] \in H /\ before[list[i]] = before[r]
    BY <1>7, <2>2
  <2>4. QED
    BY <1>4, <2>3
<1>10. ASSUME NEW i \in 1 .. n, NEW j \in 1 .. n, i < j
       PROVE  Better(list[i], list[j])
  <2>1. list[i] \in H /\ list[j] \in H /\ before[list[i]] < before[list[j]]
    BY <1>1, <1>7, <1>10
  <2>2. list[i] # list[j] /\ ~Better(list[j], list[i])
    BY <1>2, <1>3, <2>1
  <2>3. QED
    BY <2>1, <2>2
<1>11. QED
  BY <1>1, <1>8, <1>9, <1>10 DEF list, n

(* What the cut leaves of such a list.                                     *)
LEMMA Ranked ==
    ASSUME NEW H, IsFiniteSet(H),
           \A r \in H : r.score \in Nat,
           \A r \in H : ~Better(r, r),
           \A r, s, t \in H : Better(r, s) /\ Better(s, t) => Better(r, t),
           \A r, s \in H : r = s \/ Better(r, s) \/ Better(s, r)
    PROVE  /\ ToSet(Rank(H)) \subseteq H
           /\ \A i, j \in DOMAIN Rank(H) :
                 i < j => Rank(H)[i].score >= Rank(H)[j].score
           /\ \A r \in H \ ToSet(Rank(H)) :
                 /\ Len(Rank(H)) = MaxResults
                 /\ \A s \in ToSet(Rank(H)) : s.score >= r.score
<1> DEFINE n == Cardinality(H)
           list == BestFirst(H)
           rank == Rank(H)
           m == IF n > MaxResults THEN MaxResults ELSE n
<1>1. /\ n \in Nat
      /\ list \in [1 .. n -> H]
      /\ \A r \in H : \E i \in 1 .. n : list[i] = r
      /\ \A i, j \in 1 .. n : i < j => Better(list[i], list[j])
  BY Ordered
<1>2. \A i, j \in 1 .. n : i < j => list[i].score >= list[j].score
  <2>1. \A r, s \in H : Better(r, s) => r.score >= s.score
    BY DEF Better
  <2> HIDE DEF list, n
  <2>2. QED
    BY <1>1, <2>1
<1> HIDE DEF list, n
<1>3. /\ list \in Seq(H) /\ Len(list) = n
      /\ m \in Nat /\ m <= n /\ MaxResults \in Nat
  BY <1>1, SearchAssumption
<1>4. /\ DOMAIN rank = 1 .. m /\ Len(rank) = m
      /\ \A i \in 1 .. m : i \in 1 .. n /\ rank[i] = list[i]
  <2>1. rank = IF n > MaxResults THEN SubSeq(list, 1, MaxResults) ELSE list
    BY <1>3 DEF Rank, Cut, list
  <2>2. QED
    BY <1>1, <1>3, <2>1
<1> HIDE DEF rank
<1>5. ToSet(rank) = {rank[i] : i \in 1 .. m}
  BY <1>4 DEF ToSet
<1>6. ASSUME NEW r \in H \ ToSet(rank)
      PROVE  m = MaxResults /\ \A s \in ToSet(rank) : s.score >= r.score
  <2>1. PICK k \in 1 .. n : list[k] = r
    BY <1>1
  <2>2. k \notin 1 .. m
    BY <1>4, <1>5, <1>6, <2>1
  <2>3. m = MaxResults /\ m < k
    BY <1>1, <1>3, <2>2
  <2>4. ASSUME NEW i \in 1 .. m
        PROVE  rank[i].score >= r.score
    BY <1>2, <1>3, <1>4, <2>1, <2>3, <2>4
  <2>5. QED
    BY <1>5, <2>3, <2>4
<1>7. ToSet(rank) \subseteq H
  BY <1>1, <1>4, <1>5
<1>8. \A i, j \in DOMAIN rank : i < j => rank[i].score >= rank[j].score
  BY <1>2, <1>4
<1> HIDE DEF m
<1>9. QED
  BY <1>4, <1>6, <1>7, <1>8 DEF rank

(* The kinds that a search goes through.                                   *)
SearchKind == ToSet(SearchOrder)

(* What a search shows as the health of an object, and as its status.      *)
HealthShown(kind, o) ==
    CASE kind = "Pod"         -> PodHealth(o)
      [] kind = "Deployment"  -> DeploymentHealth(o)
      [] kind = "ReplicaSet"  -> ReplicaSetHealth(o)
      [] kind = "Node"        -> NodeHealth(o)
      [] kind = "StatefulSet" -> StatefulSetHealth(o)
      [] kind = "DaemonSet"   -> DaemonSetHealth(o)
      [] kind = "Namespace"   -> NamespaceHealth(o)
      [] kind = "Alert"       -> o.status
      [] OTHER                -> "healthy"

RatedKind == {"Pod", "Deployment", "ReplicaSet", "Node", "StatefulSet", "DaemonSet"}

(* The result that an object of a kind makes.                              *)
Shown(kind, o, term) ==
    [kind |-> kind, name |-> o.name, ns |-> o.ns, health |-> HealthShown(kind, o),
     score |-> SearchScore(o.name, o.ns, kind, term)]

(* The objects of a kind that match a query.                               *)
Matched(kind, o, query) ==
    /\ kind \in InProcess \/ Wants(query, kind)
    /\ IF query.term \in StatusTerms /\ kind \notin InProcess
       THEN /\ kind \in RatedKind
            /\ \/ HealthShown(kind, o) = query.term[1]
               \/ kind = "Pod" /\ o.phase = query.term[1]
       ELSE SearchMatches(o.name, o.ns, kind, query.term)

(* The kinds by name.                                                      *)
LEMMA SearchKinds ==
    /\ SearchKind = {"Pod", "Service", "Deployment", "ReplicaSet", "Namespace", "Node",
                     "StatefulSet", "DaemonSet", "SLO", "SLI", "Alert"}
    /\ SearchKind \subseteq Kind
<1>1. DOMAIN SearchOrder = 1 .. 11
  BY DEF SearchOrder
<1>2. SearchKind = {SearchOrder[i] : i \in 1 .. 11}
  BY <1>1 DEF SearchKind, ToSet
<1>3. \A i \in 1 .. 11 : i \in {1, 2, 3, 4, 5, 6, 7, 8, 9, 10, 11}
  OBVIOUS
<1>4. SearchKind = {SearchOrder[i] : i \in {1, 2, 3, 4, 5, 6, 7, 8, 9, 10, 11}}
  BY <1>2, <1>3
<1>5. QED
  BY <1>4 DEF SearchOrder, Kind

(* A score is a number, and at least one.                                  *)
LEMMA ScoreType ==
    ASSUME NEW name, NEW ns, NEW kind, NEW term
    PROVE  SearchScore(name, ns, kind, term) \in Nat
<1>1. ASSUME NEW S \in SUBSET {10, 20, 40, 60, 80, 100}, 10 \in S
      PROVE  Max(S) \in Nat
  <2> DEFINE m == CASE 100 \in S -> 100
                   [] 100 \notin S /\ 80 \in S -> 80
                   [] S \cap {80, 100} = {} /\ 60 \in S -> 60
                   [] S \cap {60, 80, 100} = {} /\ 40 \in S -> 40
                   [] S \cap {40, 60, 80, 100} = {} /\ 20 \in S -> 20
                   [] OTHER -> 10
  <2>1. m \in S /\ \A y \in S : m >= y
    BY <1>1
  <2> HIDE DEF m
  <2>2. Max(S) \in S
    BY <2>1 DEF Max
  <2>3. \A x \in S : x \in Nat
    OBVIOUS
  <2>4. QED
    BY <2>2, <2>3
<1>2. \A condition, n : When(condition, n) \subseteq {n}
  BY DEF When
<1> DEFINE S ==      {10}
                \cup When(term = name, 100)
                \cup When(IsPrefix(term, name), 80)
                \cup When(Within(term, name), 60)
                \cup When(Within(term, ns), 40)
                \cup When(Within(term, <<kind>>), 20)
<1>3. S \in SUBSET {10, 20, 40, 60, 80, 100} /\ 10 \in S
  BY <1>2
<1>4. SearchScore(name, ns, kind, term) = IF term = <<>> THEN 1 ELSE Max(S)
  BY DEF SearchScore
<1> HIDE DEF S
<1>5. Max(S) \in Nat
  BY <1>1, <1>3
<1>6. QED
  BY <1>4, <1>5

(* Every result is that of an object that was got.                         *)
LEMMA HitIsOfObject ==
    ASSUME NEW got, NEW query, NEW r \in AllHits(got, query)
    PROVE  \E kind \in SearchKind : \E o \in got[kind] : r = Shown(kind, o, query.term)
<1> DEFINE term == query.term
           OfKind(kind) == \E o \in got[kind] : r = Shown(kind, o, term)
<1>1. \/ r \in PodHits(got["Pod"], term)
      \/ r \in ServiceHits(got["Service"], term)
      \/ r \in DeploymentHits(got["Deployment"], term)
      \/ r \in ReplicaSetHits(got["ReplicaSet"], term)
      \/ r \in NamespaceHits(got["Namespace"], term)
      \/ r \in NodeHits(got["Node"], term)
      \/ r \in StatefulSetHits(got["StatefulSet"], term)
      \/ r \in DaemonSetHits(got["DaemonSet"], term)
      \/ r \in ReliabilityHits("SLO", got["SLO"], term)
      \/ r \in ReliabilityHits("SLI", got["SLI"], term)
      \/ r \in ReliabilityHits("Alert", got["Alert"], term)
  BY DEF AllHits
<1> USE DEF Results, Hits, NamedHits, Shown, HealthShown
<1>2. CASE r \in PodHits(got["Pod"], term)
  <2>1. OfKind("Pod")
    BY <1>2 DEF PodHits
  <2>2. QED
    BY <2>1, SearchKinds
<1>3. CASE r \in ServiceHits(got["Service"], term)
  <2>1. OfKind("Service")
    BY <1>3 DEF ServiceHits
  <2>2. QED
    BY <2>1, SearchKinds
<1>4. CASE r \in DeploymentHits(got["Deployment"], term)
  <2>1. OfKind("Deployment")
    BY <1>4 DEF DeploymentHits
  <2>2. QED
    BY <2>1, SearchKinds
<1>5. CASE r \in ReplicaSetHits(got["ReplicaSet"], term)
  <2>1. OfKind("ReplicaSet")
    BY <1>5 DEF ReplicaSetHits
  <2>2. QED
    BY <2>1, SearchKinds
<1>6. CASE r \in NamespaceHits(got["Namespace"], term)
  <2>1. OfKind("Namespace")
    BY <1>6 DEF NamespaceHits
  <2>2. QED
    BY <2>1, SearchKinds
<1>7. CASE r \in NodeHits(got["Node"], term)
  <2>1. OfKind("Node")
    BY <1>7 DEF NodeHits
  <2>2. QED
    BY <2>1, SearchKinds
<1>8. CASE r \in StatefulSetHits(got["StatefulSet"], term)
  <2>1. OfKind("StatefulSet")
    BY <1>8 DEF StatefulSetHits
  <2>2. QED
    BY <2>1, SearchKinds
<1>9. CASE r \in DaemonSetHits(got["DaemonSet"], term)
  <2>1. OfKind("DaemonSet")
    BY <1>9 DEF DaemonSetHits
  <2>2. QED
    BY <2>1, SearchKinds
<1>10. ASSUME NEW kind \in InProcess, r \in ReliabilityHits(kind, got[kind], term)
       PROVE  \E kind2 \in SearchKind : OfKind(kind2)
  <2>1. OfKind(kind)
    BY <1>10 DEF ReliabilityHits, InProcess
  <2>2. QED
    BY <2>1, SearchKinds DEF InProcess
<1>11. QED
  BY <1>1, <1>2, <1>3, <1>4, <1>5, <1>6, <1>7, <1>8, <1>9, <1>10 DEF InProcess

(* And every object that matches makes its result.                         *)
LEMMA MatchIsHit ==
    ASSUME NEW got, NEW query, NEW kind \in SearchKind, NEW o \in got[kind],
           Matched(kind, o, query), kind = "Pod" => o.phase \in PodPhase
    PROVE  Shown(kind, o, query.term) \in AllHits(got, query)
<1> DEFINE term == query.term
           r == Shown(kind, o, term)
<1>1. kind \notin InProcess => Wants(query, kind)
  BY DEF Matched
<1>2. ASSUME NEW status, term \in StatusTerms, kind \in RatedKind,
             \/ HealthShown(kind, o) = term[1]
             \/ kind = "Pod" /\ o.phase = term[1] /\ status = o.phase
      PROVE  HealthMatches(HealthShown(kind, o), status, term[1])
  <2>1. term[1] \in {"Running", "Pending", "Failed", "warning", "critical"}
    BY <1>2 DEF StatusTerms
  <2>2. HealthShown(kind, o) \in {"healthy", "warning", "critical"}
    BY <1>2 DEF HealthShown, RatedKind, PodHealth, DeploymentHealth, ReplicaSetHealth, NodeHealth,
           StatefulSetHealth, DaemonSetHealth
  <2>3. QED
    BY <1>2, <2>1, <2>2 DEF HealthMatches, PodPhase
<1>3. \A name, ns, k : SearchMatches(name, ns, k, term) \in BOOLEAN
  BY DEF SearchMatches
<1> HIDE DEF term
<1> USE DEF Results, Hits, NamedHits, Shown
<1>4. CASE kind = "Pod"
  <2>1. CASE term \in StatusTerms
    <3>1. r \in PodHits(got["Pod"], term)
      BY <1>2, <1>4, <2>1 DEF PodHits, Matched, InProcess, HealthShown, term
    <3>2. QED
      BY <1>1, <1>4, <3>1 DEF AllHits, InProcess, term
  <2>2. CASE term \notin StatusTerms
    <3>1. r \in PodHits(got["Pod"], term)
      BY <1>4, <2>2 DEF PodHits, Matched, HealthShown, term
    <3>2. QED
      BY <1>1, <1>4, <3>1 DEF AllHits, InProcess, term
  <2>3. QED
    BY <2>1, <2>2
<1>5. CASE kind = "Deployment"
  <2>1. CASE term \in StatusTerms
    <3>1. r \in DeploymentHits(got["Deployment"], term)
      BY <1>2, <1>5, <2>1 DEF DeploymentHits, Matched, InProcess, HealthShown, term
    <3>2. QED
      BY <1>1, <1>5, <3>1 DEF AllHits, InProcess, term
  <2>2. CASE term \notin StatusTerms
    <3>1. r \in DeploymentHits(got["Deployment"], term)
      BY <1>5, <2>2 DEF DeploymentHits, Matched, HealthShown, term
    <3>2. QED
      BY <1>1, <1>5, <3>1 DEF AllHits, InProcess, term
  <2>3. QED
    BY <2>1, <2>2
<1>6. CASE kind = "ReplicaSet"
  <2>1. CASE term \in StatusTerms
    <3>1. r \in ReplicaSetHits(got["ReplicaSet"], term)
      BY <1>2, <1>6, <2>1 DEF ReplicaSetHits, Matched, InProcess, HealthShown, term
    <3>2. QED
      BY <1>1, <1>6, <3>1 DEF AllHits, InProcess, term
  <2>2. CASE term \notin StatusTerms
    <3>1. r \in ReplicaSetHits(got["ReplicaSet"], term)
      BY <1>6, <2>2 DEF ReplicaSetHits, Matched, HealthShown, term
    <3>2. QED
      BY <1>1, <1>6, <3>1 DEF AllHits, InProcess, term
  <2>3. QED
    BY <2>1, <2>2
<1>7. CASE kind = "Node"
  <2>1. CASE term \in StatusTerms
    <3>1. r \in NodeHits(got["Node"], term)
      BY <1>2, <1>7, <2>1 DEF NodeHits, Matched, InProcess, HealthShown, term
    <3>2. QED
      BY <1>1, <1>7, <3>1 DEF AllHits, InProcess, term
  <2>2. CASE term \notin StatusTerms
    <3>1. r \in NodeHits(got["Node"], term)
      BY <1>7, <2>2 DEF NodeHits, Matched, HealthShown, term
    <3>2. QED
      BY <1>1, <1>7, <3>1 DEF AllHits, InProcess, term
  <2>3. QED
    BY <2>1, <2>2
<1>8. CASE kind = "StatefulSet"
  <2>1. CASE term \in StatusTerms
    <3>1. r \in StatefulSetHits(got["StatefulSet"], term)
      BY <1>2, <1>8, <2>1 DEF StatefulSetHits, Matched, InProcess, HealthShown, term
    <3>2. QED
      BY <1>1, <1>8, <3>1 DEF AllHits, InProcess, term
  <2>2. CASE term \notin StatusTerms
    <3>1. r \in StatefulSetHits(got["StatefulSet"], term)
      BY <1>8, <2>2 DEF StatefulSetHits, Matched, HealthShown, term
    <3>2. QED
      BY <1>1, <1>8, <3>1 DEF AllHits, InProcess, term
  <2>3. QED
    BY <2>1, <2>2
<1>9. CASE kind = "DaemonSet"
  <2>1. CASE term \in StatusTerms
    <3>1. r \in DaemonSetHits(got["DaemonSet"], term)
      BY <1>2, <1>9, <2>1 DEF DaemonSetHits, Matched, InProcess, HealthShown, term
    <3>2. QED
      BY <1>1, <1>9, <3>1 DEF AllHits, InProcess, term
  <2>2. CASE term \notin StatusTerms
    <3>1. r \in DaemonSetHits(got["DaemonSet"], term)
      BY <1>9, <2>2 DEF DaemonSetHits, Matched, HealthShown, term
    <3>2. QED
      BY <1>1, <1>9, <3>1 DEF AllHits, InProcess, term
  <2>3. QED
    BY <2>1, <2>2
<1>10. CASE kind = "Service"
  <2>1. term \notin StatusTerms
    BY <1>10 DEF Matched, InProcess, RatedKind, term
  <2>2. r \in ServiceHits(got["Service"], term)
    BY <1>10, <2>1 DEF ServiceHits, Matched, HealthShown, term
  <2>3. QED
    BY <1>1, <1>10, <2>2 DEF AllHits, InProcess, term
<1>11. CASE kind = "Namespace"
  <2>1. term \notin StatusTerms
    BY <1>11 DEF Matched, InProcess, RatedKind, term
  <2>2. r \in NamespaceHits(got["Namespace"], term)
    BY <1>11, <2>1 DEF NamespaceHits, Matched, HealthShown, term
  <2>3. QED
    BY <1>1, <1>11, <2>2 DEF AllHits, InProcess, term
<1>12. CASE kind \in InProcess
  <2>1. r \in ReliabilityHits(kind, got[kind], term)
    BY <1>12 DEF ReliabilityHits, Matched, HealthShown, InProcess, term
  <2>2. QED
    BY <1>12, <2>1 DEF AllHits, InProcess, term
<1>13. QED
  BY <1>4, <1>5, <1>6, <1>7, <1>8, <1>9, <1>10, <1>11, <1>12, SearchKinds
     DEF InProcess

(* A search compares its results by a strict total order: two of one kind  *)
(* and one key are one object, which a list has once.                      *)
LEMMA HitsOrdered ==
    ASSUME ViewsInv, Answering, NEW query
    PROVE  LET H == AllHits(request.got, query)
           IN  /\ IsFiniteSet(H)
               /\ \A r \in H : r.score \in Nat
               /\ \A r \in H : ~Better(r, r)
               /\ \A r, s, t \in H : Better(r, s) /\ Better(s, t) => Better(r, t)
               /\ \A r, s \in H : r = s \/ Better(r, s) \/ Better(s, r)
<1> DEFINE H == AllHits(request.got, query)
           Found(r) == [ns |-> r.ns, name |-> r.name]
<1>1. ASSUME NEW r \in H
      PROVE  /\ r.kind \in SearchKind /\ r.kind \in Kind /\ r.score \in Nat
             /\ Found(r) \in Keys[r.kind]
             /\ \E o \in request.got[r.kind] :
                   KeyOf(o) = Found(r) /\ r = Shown(r.kind, o, query.term)
  <2>1. PICK kind \in SearchKind : \E o \in request.got[kind] : r = Shown(kind, o, query.term)
    BY HitIsOfObject
  <2>5. PICK o \in request.got[kind] : r = Shown(kind, o, query.term)
    BY <2>1
  <2>2. /\ r.kind = kind /\ Found(r) = KeyOf(o)
        /\ r.score = SearchScore(o.name, o.ns, kind, query.term)
    BY <2>5 DEF Shown, KeyOf
  <2>3. kind \in Kind /\ KeyOf(o) \in Keys[kind]
    BY <2>1, SearchKinds, AllRead
  <2> HIDE DEF Found
  <2>4. QED
    BY <2>2, <2>3, <2>5, ScoreType
<1>2. ASSUME NEW r \in H, NEW s \in H, r.kind = s.kind, Found(r) = Found(s)
      PROVE  r = s
  <2>1. PICK o \in request.got[r.kind] :
           KeyOf(o) = Found(r) /\ r = Shown(r.kind, o, query.term)
    BY <1>1
  <2>2. PICK p \in request.got[r.kind] :
           KeyOf(p) = Found(r) /\ s = Shown(r.kind, p, query.term)
    BY <1>1, <1>2
  <2>3. o = p
    BY <1>1, <2>1, <2>2, AllRead DEF ViewsInv, TypeOK
  <2>4. QED
    BY <2>1, <2>2, <2>3
<1>3. ASSUME NEW r \in H
      PROVE  /\ Block(r) \in Nat /\ SearchOrder[Block(r)] = r.kind
             /\ Place(r) \in Nat /\ Catalog[r.kind][Place(r)] = Found(r)
  <2>1. \E i \in DOMAIN SearchOrder : SearchOrder[i] = r.kind
    BY <1>1 DEF SearchKind, ToSet
  <2>2. DOMAIN SearchOrder \subseteq Nat
    BY DEF SearchOrder
  <2>3. Block(r) \in Nat /\ SearchOrder[Block(r)] = r.kind
    BY <2>1, <2>2 DEF Block
  <2>4. \E i \in DOMAIN Catalog[r.kind] : Catalog[r.kind][i] = Found(r)
    BY <1>1 DEF Keys
  <2>5. Catalog[r.kind] \in Seq(Key)
    BY <1>1, ViewsAssumption
  <2>6. DOMAIN Catalog[r.kind] \subseteq Nat
    BY <2>5
  <2>7. Place(r) \in Nat /\ Catalog[r.kind][Place(r)] = Found(r)
    BY <2>4, <2>6 DEF Place, Order
  <2>8. QED
    BY <2>3, <2>7
<1>4. IsFiniteSet(H)
  <2> DEFINE K == UNION {Keys[kind] : kind \in SearchKind}
             f == [r \in H |-> <<r.kind, Found(r)>>]
  <2>1. IsFiniteSet(SearchKind)
    <3> DEFINE n == Len(SearchOrder)
               g == [i \in 1 .. n |-> SearchOrder[i]]
    <3>1. n \in Nat /\ DOMAIN SearchOrder = 1 .. n
      BY DEF SearchOrder
    <3> HIDE DEF n
    <3>2. SearchKind = {SearchOrder[i] : i \in 1 .. n}
      BY <3>1 DEF SearchKind, ToSet
    <3>3. g \in Surjection(1 .. n, SearchKind)
      BY <3>2 DEF Surjection
    <3>4. IsFiniteSet(1 .. n)
      BY <3>1, FS_Interval
    <3> HIDE DEF g
    <3>5. QED
      BY <3>3, <3>4, FS_Surjection
  <2>2. IsFiniteSet(K)
    <3> DEFINE h == [kind \in SearchKind |-> Keys[kind]]
               D == {Keys[kind] : kind \in SearchKind}
    <3>1. h \in Surjection(SearchKind, D)
      BY DEF Surjection
    <3>2. IsFiniteSet(D)
      BY <2>1, <3>1, FS_Surjection
    <3>3. \A T \in D : IsFiniteSet(T)
      BY KeysFinite, SearchKinds
    <3>4. QED
      BY <3>2, <3>3, FS_UNION
  <2>3. IsFiniteSet(SearchKind \X K)
    BY <2>1, <2>2, FS_Product
  <2>4. \A r \in H : f[r] \in SearchKind \X K
    BY <1>1
  <2>5. \A r, s \in H : f[r] = f[s] => r = s
    BY <1>2
  <2>6. f \in Injection(H, SearchKind \X K)
    BY <2>4, <2>5 DEF Injection, IsInjective
  <2> HIDE DEF f, K, H
  <2>7. QED
    BY <2>3, <2>6, FS_Injection
<1> HIDE DEF H
<1>5. ASSUME NEW r \in H, NEW s \in H, Block(r) = Block(s), Place(r) = Place(s)
      PROVE  r = s
  <2>1. r.kind = s.kind
    BY <1>3, <1>5
  <2>2. Catalog[r.kind][Place(r)] = Found(r) /\ Catalog[r.kind][Place(r)] = Found(s)
    BY <1>3, <1>5, <2>1
  <2>3. QED
    BY <1>2, <2>1, <2>2
<1>6. \A r \in H : r.score \in Nat /\ Block(r) \in Nat /\ Place(r) \in Nat
  BY <1>1, <1>3
<1>7. \A r \in H : ~Better(r, r)
  BY <1>6 DEF Better, Earlier
<1>8. ASSUME NEW r \in H, NEW s \in H, NEW t \in H, Better(r, s), Better(s, t)
      PROVE  Better(r, t)
  <2>1. ASSUME Earlier(r, s), Earlier(s, t)
        PROVE  Earlier(r, t)
    BY <1>6, <2>1 DEF Earlier
  <2>2. QED
    BY <1>6, <1>8, <2>1 DEF Better
<1>9. \A r, s \in H : r = s \/ Better(r, s) \/ Better(s, r)
  BY <1>5, <1>6 DEF Better, Earlier
<1>10. QED
  BY <1>4, <1>6, <1>7, <1>8, <1>9 DEF H

(* A search reads the stores, and every kind that its query does not leave *)
(* out: it has got what has been there all the time, unless the list of    *)
(* the kind failed.                                                        *)
LEMMA SearchComplete ==
    ASSUME ViewsInv, Answering, request.route = SearchRoute,
           NEW kind \in SearchKind \ request.failed,
           kind \in InProcess \/ Wants(ParseSearchQuery(request.query), kind),
           NEW key \in InScope(kind),
           \A o \in Had(<<kind, key>>) : o # Absent
    PROVE  \E o \in request.got[kind] : KeyOf(o) = key /\ o \in Had(<<kind, key>>)
<1> DEFINE type == ParseSearchQuery(request.query).type
<1>1. kind \in Kind /\ key \in Keys[kind] /\ InNamespace(kind, key)
  BY SearchKinds DEF InScope, InNamespace, ClusterScoped
<1>2. PICK i \in DOMAIN Due : Due[i] = kind
  <2>1. CASE type = ""
    <3>1. Due = request.route.reads
      BY <2>1 DEF Due, Reads
    <3>2. request.route.reads = SearchOrder
      BY DEF SearchRoute, Route
    <3>3. QED
      BY <3>1, <3>2 DEF SearchKind, ToSet
  <2>2. CASE type # ""
    <3>1. Due = <<type, "SLO", "SLI", "Alert">>
      BY <2>2 DEF Due, Reads
    <3>2. kind \in {type, "SLO", "SLI", "Alert"}
      BY <2>2 DEF Wants, InProcess
    <3> HIDE DEF type
    <3>3. QED
      BY <3>1, <3>2
  <2>3. QED
    BY <2>1, <2>2
<1>3. ~Missed(kind, key)
  <2>1. ASSUME NEW o \in Had(<<kind, key>>)
        PROVE  o # Absent /\ Selects(kind, o)
    <3>1. KeyOf(o) = key
      BY <1>1, ItemOf, HadType DEF ViewsInv, MayBecome
    <3>2. QED
      BY <1>1, <3>1, PlainSelects
  <2>2. QED
    BY <2>1 DEF Missed
<1>4. PICK o \in request.got[kind] : KeyOf(o) = key
  BY <1>1, <1>2, <1>3, AllRead
<1>5. QED
  BY <1>1, <1>4, AllRead

(* A search that is answered keeps what FoundOrOutranked says.             *)
LEMMA SearchFinds ==
    ASSUME ViewsInv PROVE FoundOrOutranked
<1> SUFFICES ASSUME Answering, request.route = SearchRoute
             PROVE  FoundOrOutranked
  BY DEF FoundOrOutranked
<1> DEFINE query   == ParseSearchQuery(request.query)
           term    == query.term
           H       == AllHits(request.got, query)
           results == SearchAnswer(request.got, query)
<1>1. /\ ToSet(results) \subseteq H
      /\ \A i, j \in DOMAIN results : i < j => results[i].score >= results[j].score
      /\ \A r \in H \ ToSet(results) :
            /\ Len(results) = MaxResults
            /\ \A s \in ToSet(results) : s.score >= r.score
  BY HitsOrdered, Ranked DEF SearchAnswer
<1>2. ASSUME NEW r \in H
      PROVE  \E o \in Had(<<r.kind, [ns |-> r.ns, name |-> r.name]>>) \ {Absent} :
                r.health = HealthShown(r.kind, o)
  <2>1. PICK kind \in SearchKind : \E o \in request.got[kind] : r = Shown(kind, o, term)
    BY HitIsOfObject
  <2>5. PICK o \in request.got[kind] : r = Shown(kind, o, term)
    BY <2>1
  <2>2. /\ r.kind = kind /\ [ns |-> r.ns, name |-> r.name] = KeyOf(o)
        /\ r.health = HealthShown(kind, o)
    BY <2>5 DEF Shown, KeyOf
  <2>3. o # Absent /\ o \in Had(<<kind, KeyOf(o)>>)
    BY <2>1, SearchKinds, AllRead, KeyTypes
  <2>4. QED
    BY <2>2, <2>3
<1>3. ASSUME NEW kind \in SearchKind \ request.failed,
             NEW key \in InScope(kind), \A o \in Had(<<kind, key>>) : o # Absent,
             kind \in InProcess \/ Wants(query, kind),
             IF term \in StatusTerms /\ kind \notin InProcess
             THEN /\ kind \in RatedKind
                  /\ \A o \in Had(<<kind, key>>) : \/ HealthShown(kind, o) = term[1]
                                                   \/ kind = "Pod" /\ o.phase = term[1]
             ELSE SearchMatches(key.name, key.ns, kind, term)
      PROVE  \/ \E r \in ToSet(results) :
                   r.kind = kind /\ r.name = key.name /\ r.ns = key.ns
             \/ /\ Len(results) = MaxResults
                /\ \A r \in ToSet(results) :
                      r.score >= SearchScore(key.name, key.ns, kind, term)
  <2>1. PICK o \in request.got[kind] : KeyOf(o) = key /\ o \in Had(<<kind, key>>)
    BY <1>3, SearchComplete
  <2>2. o.name = key.name /\ o.ns = key.ns
    BY <2>1 DEF KeyOf
  <2>3. Matched(kind, o, query)
    BY <1>3, <2>1, <2>2 DEF Matched
  <2>4. kind = "Pod" => o.phase \in PodPhase
    BY <2>1, SearchKinds, AllRead, ViewsAssumption
  <2> DEFINE r == Shown(kind, o, term)
  <2>5. r \in H
    BY <2>3, <2>4, MatchIsHit
  <2>6. /\ r.kind = kind /\ r.name = key.name /\ r.ns = key.ns
        /\ r.score = SearchScore(key.name, key.ns, kind, term)
    BY <2>2 DEF Shown
  <2> HIDE DEF r, H, results, query
  <2>7. QED
    BY <1>1, <2>5, <2>6
<1> HIDE DEF H
<1>4. QED
  BY <1>1, <1>2, <1>3 DEF FoundOrOutranked, Steady, SearchKind, RatedKind, HealthShown

(* Every search that is answered has found what matched all the time, or   *)
(* is full of results that match no worse, best first, and shows nothing   *)
(* that was not there as it is shown: whatever the query, the failures of  *)
(* lists and the changes of the cluster while it is made.                  *)
THEOREM SearchesFind == Spec => []FoundOrOutranked
<1>1. ViewsInv => FoundOrOutranked
  BY SearchFinds
<1>2. QED
  BY <1>1, ViewsKeep, PTL

=============================================================================
