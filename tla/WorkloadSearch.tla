--------------------------- MODULE WorkloadSearch ---------------------------
(***************************************************************************)
(* What GET /search of server.go finds in the lists it has read: the query *)
(* is parsed, each kind contributes the objects that match, and the best   *)
(* MaxResults of them are kept.  The results of a kind are a set; their    *)
(* order in the list decides between results of one score, and only there. *)
(*                                                                         *)
(* A name, a namespace or a term is a sequence of words, and one text      *)
(* contains another as a run of whole words; dashes are left out, blanks   *)
(* are words.  Case is ignored by the code, so a word has one spelling     *)
(* here, that of the kind or phase it names.                               *)
(***************************************************************************)
EXTENDS WorkloadHealth, SequencesExt

CONSTANTS
    Catalog,        \* per kind, the keys there may be, in list order
    MaxResults      \* results an answer may have

ASSUME SearchAssumption == MaxResults \in Nat \ {0}

Order == Catalog    \* a definition, that TLC evaluates once

Within(term, text) == term \in SubSeqs(text)

(* searchAliases; "" is no kind.                                           *)
Alias(text) ==
    CASE text \in {<<"po">>, <<"Pod">>}          -> "Pod"
      [] text \in {<<"svc">>, <<"Service">>}     -> "Service"
      [] text \in {<<"dep">>, <<"Deployment">>}  -> "Deployment"
      [] text \in {<<"rs">>, <<"ReplicaSet">>}   -> "ReplicaSet"
      [] text \in {<<"ns">>, <<"Namespace">>}    -> "Namespace"
      [] text \in {<<"no">>, <<"Node">>}         -> "Node"
      [] text \in {<<"sts">>, <<"StatefulSet">>} -> "StatefulSet"
      [] text \in {<<"ds">>, <<"DaemonSet">>}    -> "DaemonSet"
      [] OTHER                                   -> ""

Join(fields) ==
    FoldLeft(LAMBDA text, field : text \o <<" ">> \o field, Head(fields), Tail(fields))

(* One field is a term, even when it is the name of a kind; of several the *)
(* first may restrict the kind.                                            *)
ParseSearchQuery(fields) ==
    IF fields = <<>> THEN [type |-> "", term |-> <<>>]
    ELSE IF Len(fields) > 1 /\ Alias(Head(fields)) # ""
         THEN [type |-> Alias(Head(fields)), term |-> Join(Tail(fields))]
         ELSE [type |-> "", term |-> Join(fields)]

Wants(query, kind) == query.type \in {"", kind}

(* The terms that ask for a status; "healthy" is not among them.           *)
StatusTerms == {<<"Running">>, <<"Pending">>, <<"Failed">>,
                <<"warning">>, <<"critical">>}

SearchMatches(name, ns, kind, term) ==
    \/ term = <<>>
    \/ \E text \in {name, ns, <<kind>>} : Within(term, text)

(* The tests are made from the best to the worst.                          *)
SearchScore(name, ns, kind, term) ==
    IF term = <<>> THEN 1
    ELSE Max(     {10}
             \cup When(term = name, 100)
             \cup When(IsPrefix(term, name), 80)
             \cup When(Within(term, name), 60)
             \cup When(Within(term, ns), 40)
             \cup When(Within(term, <<kind>>), 20))

-----------------------------------------------------------------------------
(* The results of one kind.                                                *)
Results(kind, objects, term, Hit(_), Health(_)) ==
    {[kind |-> kind, name |-> o.name, ns |-> o.ns, health |-> Health(o),
      score |-> SearchScore(o.name, o.ns, kind, term)] : o \in {o \in objects : Hit(o)}}

(* A status term is compared with the health and the status of an object,  *)
(* any other term with its texts.                                          *)
Hits(kind, objects, term, Health(_), Status(_)) ==
    Results(kind, objects, term,
            LAMBDA o : IF term \in StatusTerms
                       THEN HealthMatches(Health(o), Status(o), term[1])
                       ELSE SearchMatches(o.name, o.ns, kind, term),
            Health)

(* The kinds that are left out of a status search.                         *)
NamedHits(kind, objects, term, Health(_)) ==
    Results(kind, objects, term,
            LAMBDA o : /\ term \notin StatusTerms
                       /\ SearchMatches(o.name, o.ns, kind, term),
            Health)

(* Replica counts, the status of the kinds that have them, match no term.  *)
Replicas(o) == "replicas"

PodHits(objects, term)     == Hits("Pod", objects, term, PodHealth, LAMBDA o : o.phase)
ServiceHits(objects, term) == NamedHits("Service", objects, term, LAMBDA o : "healthy")
DeploymentHits(objects, term) ==
    Hits("Deployment", objects, term, DeploymentHealth, Replicas)
ReplicaSetHits(objects, term) ==
    Hits("ReplicaSet", objects, term, ReplicaSetHealth, Replicas)
NamespaceHits(objects, term) ==
    NamedHits("Namespace", objects, term, NamespaceHealth)
NodeHits(objects, term) ==
    Hits("Node", objects, term, NodeHealth,
         LAMBDA o : CASE o.ready = "True" -> "Ready"
                      [] o.ready = "none" -> "Unknown"
                      [] OTHER            -> "NotReady")
StatefulSetHits(objects, term) ==
    Hits("StatefulSet", objects, term, StatefulSetHealth, Replicas)
DaemonSetHits(objects, term) ==
    Hits("DaemonSet", objects, term, DaemonSetHealth, Replicas)

(* SLOs, SLIs and alerts are looked through whatever kind or status the    *)
(* query asks for, and an alert also by its summary; an alert shows its    *)
(* status where the others show a health.                                  *)
ReliabilityHits(kind, objects, term) ==
    Results(kind, objects, term,
            LAMBDA o : \/ SearchMatches(o.name, o.ns, kind, term)
                       \/ kind = "Alert" /\ Within(term, o.summary),
            LAMBDA o : IF kind = "Alert" THEN o.status ELSE "healthy")

(* All results; the kinds in the order in which the route appends them.    *)
SearchOrder == <<"Pod", "Service", "Deployment", "ReplicaSet", "Namespace", "Node",
                 "StatefulSet", "DaemonSet", "SLO", "SLI", "Alert">>

AllHits(got, query) ==
    LET Of(kind, hits) == IF Wants(query, kind) THEN hits ELSE {}
        term == query.term
    IN       Of("Pod", PodHits(got["Pod"], term))
        \cup Of("Service", ServiceHits(got["Service"], term))
        \cup Of("Deployment", DeploymentHits(got["Deployment"], term))
        \cup Of("ReplicaSet", ReplicaSetHits(got["ReplicaSet"], term))
        \cup Of("Namespace", NamespaceHits(got["Namespace"], term))
        \cup Of("Node", NodeHits(got["Node"], term))
        \cup Of("StatefulSet", StatefulSetHits(got["StatefulSet"], term))
        \cup Of("DaemonSet", DaemonSetHits(got["DaemonSet"], term))
        \cup ReliabilityHits("SLO", got["SLO"], term)
        \cup ReliabilityHits("SLI", got["SLI"], term)
        \cup ReliabilityHits("Alert", got["Alert"], term)

(* Which of two results is appended first.  (The stores list their items   *)
(* in the order of a Go map, for which that of the catalog stands here.)   *)
Block(r) == CHOOSE i \in DOMAIN SearchOrder : SearchOrder[i] = r.kind
Place(r) == CHOOSE i \in DOMAIN Order[r.kind] :
                Order[r.kind][i] = [ns |-> r.ns, name |-> r.name]

Earlier(r, s) ==
    \/ Block(r) < Block(s)
    \/ Block(r) = Block(s) /\ Place(r) < Place(s)

(* The stable sort by score, best first: each result comes after those     *)
(* that are better, or as good and earlier.                                *)
Better(r, s) ==
    \/ r.score > s.score
    \/ r.score = s.score /\ Earlier(r, s)

Ahead(results, r) == {s \in results : Better(s, r)}

BestFirst(results) ==
    [i \in 1..Cardinality(results) |->
        CHOOSE r \in results : Cardinality(Ahead(results, r)) = i - 1]

Cut(list) == IF Len(list) > MaxResults THEN SubSeq(list, 1, MaxResults) ELSE list

(* Mutant: the limit is applied before the sort.                           *)
RankAfterCut(results) ==
    BestFirst({r \in results :
                  Cardinality({s \in results : Earlier(s, r)}) < MaxResults})

Rank(results) == Cut(BestFirst(results))

SearchAnswer(got, query) == Rank(AllHits(got, query))

=============================================================================
