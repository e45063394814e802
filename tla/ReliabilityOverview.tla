------------------------ MODULE ReliabilityOverview ------------------------
(***************************************************************************)
(* The routes of internal/server/reliability.go that evaluate against      *)
(* Prometheus: GET /api/clusters/:id/reliability/overview, the lists       *)
(* .../slis, .../slos and .../slas, and the report GET /reliability.       *)
(* The first four copy the cluster's items from the store, and then ask    *)
(* Prometheus once for every SLI, once again for the SLI of every SLO, and *)
(* once for every SLA.  The report reads no items, but four fixed rates.   *)
(* A query may take up to 8 s: telemetry moves on and the store is edited  *)
(* between the queries.  resolveSLITarget looks at the SLOs of the store   *)
(* as they are by then.  The store lists in no order (Go's maps).          *)
(*                                                                         *)
(* Abstracted: the generation of PromQL (a query is named by the SLI, SLA  *)
(* or rate it is for), the items' names, the count of firing alerts, and   *)
(* the matching of SLAs and SLOs: all items are of one service and         *)
(* namespace.  What a route does not read is left empty.                   *)
(***************************************************************************)
EXTENDS ReliabilityEngine, FiniteSets, Sequences

CONSTANTS
    SLI, SLO, SLA,  \* the items the store may hold for the cluster
    Missing,        \* the SLI of an SLO whose SLI the cluster does not have
    NoData,         \* Prometheus answers with an empty result
    Unreachable,    \* Prometheus does not answer, or with an error
    Type, Window,   \* the types of SLIs, the windows of SLOs
    Target,         \* the targets of SLIs, SLOs and SLAs
    Reading,        \* the values a query for an SLI or SLA may yield
    Rate, Latency,  \* the rates and latencies the report may be given; rates
                    \* of counters are finite
    MaxChanges      \* bound: changes of telemetry or SLOs during a request

ASSUME OverviewAssumption ==
    /\ Target \subseteq Nat /\ 0 \notin Target
    /\ Reading \subseteq Nat \cup {NaN}
    /\ Rate \subseteq (Nat \cup {NaN}) \ {Infinity}
    /\ Latency \subseteq Nat \cup {NaN}
    /\ {NoData, Unreachable} \cap (Int \cup {NaN}) = {}
    /\ MaxChanges \in Nat
    /\ IsFiniteSet(SLO)

Lists == {"slis", "slos", "slas"}
Route == Lists \cup {"overview", "report"}

(* What the report asks for, in this order.                                *)
ReportQueries == <<"total", "success", "error", "latency">>

Fails == {NoData, Unreachable}
Answer == Reading \cup Fails
RateAnswer == Rate \cup Fails
LatencyAnswer == Latency \cup Fails

VARIABLES
    route,          \* the route that is requested
    sli,            \* type and target of each SLI, 0 for no target
    slo,            \* SLI, target and window of each SLO
    sla,            \* target of each SLA
    telemetry,      \* what Prometheus would answer to each query
    changes,        \* how often the store or the telemetry has changed
    phase,          \* where the request is
    slos,           \* its copy of the SLOs
    evalSLIs, evalSLOs, evalSLAs,   \* what it has evaluated so far
    read,           \* what the report has read so far
    answer,         \* the overview's summary, or the report
    witnessed       \* history: every answer Prometheus had during the request

storeVars == <<sli, slo, sla>>
evalVars == <<evalSLIs, evalSLOs, evalSLAs, read>>
vars == <<route, storeVars, telemetry, changes, phase, slos, evalVars, answer,
          witnessed>>

(* A function that is not defined anywhere yet.                            *)
Nothing == [x \in {} |-> x]

SLIItem == [type : Type, target : Target \cup {0}]
SLOItem == [sli : SLI \cup {Missing}, target : Target, window : Window]
SLAItem == [target : Target \cup {Nil}]

(* The items that the route looks at, if it is one of those given.         *)
ReadBy(items, routes) == IF route \in routes THEN items ELSE {}

AnswersTo(q) ==
    IF route # "report" THEN Answer
    ELSE IF q = "latency" THEN LatencyAnswer ELSE RateAnswer

Query == IF route = "report" THEN {"total", "success", "error", "latency"}
                             ELSE DOMAIN sli \cup DOMAIN sla

(* By query, lest TLC enumerates the functions to all answers.             *)
Telemetry ==
    IF route = "report"
    THEN [total : RateAnswer, success : RateAnswer, error : RateAnswer,
          latency : LatencyAnswer]
    ELSE [Query -> Answer]

Init ==
    /\ route \in Route
    /\ \E S \in SUBSET ReadBy(SLO, Route \ {"report"}) : slo \in [S -> SLOItem]
    /\ sli \in [ReadBy(SLI, {"overview", "slis", "slos"}) -> SLIItem]
    /\ sla \in [ReadBy(SLA, {"overview", "slas"}) -> SLAItem]
    /\ telemetry \in Telemetry
    /\ changes = 0
    /\ phase = "idle"
    /\ slos = Nothing
    /\ evalSLIs = Nothing /\ evalSLOs = Nothing /\ evalSLAs = Nothing
    /\ read = << >>
    /\ answer = Nil
    /\ witnessed = [q \in Query |-> {}]

-----------------------------------------------------------------------------
(* The environment: telemetry moves, targets are edited, SLOs deleted.     *)
(* What happens before the request is in the initial states.               *)

Change ==
    /\ phase = "evaluating"
    /\ changes < MaxChanges
    /\ changes' = changes + 1

Measure(q) ==
    /\ Change
    /\ \E a \in AnswersTo(q) \ {telemetry[q]} :
          /\ telemetry' = [telemetry EXCEPT ![q] = a]
          /\ witnessed' = [witnessed EXCEPT ![q] = @ \cup {a}]
    /\ UNCHANGED <<route, storeVars, phase, slos, evalVars, answer>>

EditTarget(o) ==
    /\ Change
    /\ \E t \in Target \ {slo[o].target} : slo' = [slo EXCEPT ![o].target = t]
    /\ UNCHANGED <<route, sli, sla, telemetry, phase, slos, evalVars, answer,
                   witnessed>>

DeleteSLO(o) ==
    /\ Change
    /\ slo' = [x \in DOMAIN slo \ {o} |-> slo[x]]
    /\ UNCHANGED <<route, sli, sla, telemetry, phase, slos, evalVars, answer,
                   witnessed>>

-----------------------------------------------------------------------------
(* The request.  When its answer cannot be encoded the client gets none:   *)
(* gin drops the error and sends status 200 without a body.                *)

(* Mutant: an empty or missing answer is the value 0 (as Query, which the  *)
(* handlers do not use, has it).                                           *)
QueryAsZero(q) == IF telemetry[q] \in Fails THEN 0 ELSE telemetry[q]

(* QueryOptional: a value, or none.  Sscanf reads NaN and +Inf as values.  *)
QueryOptional(q) == IF telemetry[q] \in Fails THEN Nil ELSE telemetry[q]

(* Mutant: the target of any SLO of the cluster will do.                   *)
ResolveToAnySLO(s) ==
    IF sli[s].target > 0 THEN {sli[s].target}
    ELSE IF DOMAIN slo = {} THEN {Nil} ELSE {slo[o].target : o \in DOMAIN slo}

(* The targets an SLI may be held to: its own, or that of any SLO on it.   *)
ResolveSLITarget(s) ==
    IF sli[s].target > 0 THEN {sli[s].target}
    ELSE LET of == {o \in DOMAIN slo : slo[o].sli = s}
         IN IF of = {} THEN {Nil} ELSE {slo[o].target : o \in of}

Begin ==
    /\ phase = "idle"
    /\ phase' = "evaluating"
    /\ slos' = slo
    /\ witnessed' = [q \in Query |-> {telemetry[q]}]
    /\ UNCHANGED <<route, storeVars, telemetry, changes, evalVars, answer>>

(* The items the route evaluates: SLIs first, then SLOs, then SLAs.        *)
DueSLIs == ReadBy(DOMAIN sli, {"overview", "slis"}) \ DOMAIN evalSLIs
DueSLOs == ReadBy(DOMAIN slos, {"overview", "slos"}) \ DOMAIN evalSLOs
DueSLAs == DOMAIN sla \ DOMAIN evalSLAs

SLIStatus(s, value, target) ==
    IF telemetry[s] = NoData THEN "no_data"
    ELSE CalculateSLIStatus(value, target, sli[s].type)

(* The rows of the lists; the overview's loops evaluate the same way.      *)
SLIRow(s, target) ==
    [value |-> QueryOptional(s), target |-> target,
     status |-> SLIStatus(s, QueryOptional(s), target)]

(* The SLI's value is taken for an availability, whatever its type.        *)
SLORow(o) ==
    EvaluateSLO(slos[o].target, slos[o].window,
                IF slos[o].sli \in DOMAIN sli THEN QueryOptional(slos[o].sli)
                                              ELSE Nil)

SLARow(a, sloTarget) == EvaluateSLA(sla[a].target, QueryOptional(a), sloTarget)

EvaluateOneSLI(s) ==
    /\ phase = "evaluating"
    /\ s \in DueSLIs
    /\ \E target \in ResolveSLITarget(s) :
          evalSLIs' = [x \in DOMAIN evalSLIs \cup {s} |->
              IF x = s THEN SLIRow(s, target) ELSE evalSLIs[x]]
    /\ UNCHANGED <<route, storeVars, telemetry, changes, phase, slos, evalSLOs,
                   evalSLAs, read, answer, witnessed>>

EvaluateOneSLO(o) ==
    /\ phase = "evaluating"
    /\ DueSLIs = {}
    /\ o \in DueSLOs
    /\ evalSLOs' = [x \in DOMAIN evalSLOs \cup {o} |->
           IF x = o THEN SLORow(o) ELSE evalSLOs[x]]
    /\ UNCHANGED <<route, storeVars, telemetry, changes, phase, slos, evalSLIs,
                   evalSLAs, read, answer, witnessed>>

(* The target of some SLO of the SLA's service; in the overview no less    *)
(* than its own.                                                           *)
SLOTargetFor(a) ==
    LET targets == IF DOMAIN slos = {} THEN {99900}
                   ELSE {slos[o].target : o \in DOMAIN slos}
    IN {IF route = "overview" /\ sla[a].target # Nil /\ t < sla[a].target
        THEN sla[a].target ELSE t : t \in targets}

EvaluateOneSLA(a) ==
    /\ phase = "evaluating"
    /\ DueSLIs = {} /\ DueSLOs = {}
    /\ a \in DueSLAs
    /\ \E t \in SLOTargetFor(a) :
          evalSLAs' = [x \in DOMAIN evalSLAs \cup {a} |->
              IF x = a THEN SLARow(a, t) ELSE evalSLAs[x]]
    /\ UNCHANGED <<route, storeVars, telemetry, changes, phase, slos, evalSLIs,
                   evalSLOs, read, answer, witnessed>>

Counted(status) == Cardinality({o \in DOMAIN evalSLOs : evalSLOs[o].status = status})

(* Mutant: an SLO that could not be read counts as healthy.                *)
GenerousScore ==
    IF DOMAIN slos = {} THEN 100
    ELSE ((Counted("healthy") + Counted("unavailable")) * 100)
             \div Cardinality(DOMAIN slos)

OverallScore ==
    IF DOMAIN slos = {} THEN 100
    ELSE (Counted("healthy") * 100) \div Cardinality(DOMAIN slos)

AllEvaluated == DueSLIs = {} /\ DueSLOs = {} /\ DueSLAs = {}

(* The values of SLIs and SLOs are in the answer, those of SLAs are not.   *)
RowsEncode ==
    /\ \A s \in DOMAIN evalSLIs : evalSLIs[s].value \notin Unencodable
    /\ \A o \in DOMAIN evalSLOs : evalSLOs[o].current \notin Unencodable

RespondWithList ==
    /\ phase = "evaluating"
    /\ route \in Lists
    /\ AllEvaluated
    /\ phase' = IF RowsEncode THEN "done" ELSE "unencoded"
    /\ UNCHANGED <<route, storeVars, telemetry, changes, slos, evalVars, answer,
                   witnessed>>

RespondWithOverview ==
    /\ phase = "evaluating"
    /\ route = "overview"
    /\ AllEvaluated
    /\ phase' = IF RowsEncode THEN "done" ELSE "unencoded"
    /\ answer' = [score |-> OverallScore, healthy |-> Counted("healthy"),
                  atRisk |-> Counted("at_risk"),
                  exhausted |-> Counted("exhausted")]
    /\ UNCHANGED <<route, storeVars, telemetry, changes, slos, evalVars, witnessed>>

-----------------------------------------------------------------------------
(* The report of GET /reliability, which has targets of its own.           *)

ReadNext ==
    /\ phase = "evaluating"
    /\ route = "report"
    /\ Len(read) < Len(ReportQueries)
    /\ read' = Append(read, QueryOptional(ReportQueries[Len(read) + 1]))
    /\ UNCHANGED <<route, storeVars, telemetry, changes, phase, slos, evalSLIs,
                   evalSLOs, evalSLAs, answer, witnessed>>

Report ==
    LET total == read[1]    success == read[2]
        error == read[3]    latency == read[4]
        availability == CalculateAvailabilitySLI(success, total, 99900)
    IN [availability |-> availability,
        latency   |-> CalculateLatencySLI(latency, 300000),
        errorRate |-> CalculateErrorRateSLI(error, total, 100),
        slo       |-> EvaluateSLO(99900, "30d", availability.value),
        sla       |-> EvaluateSLA(Nil, availability.value, 99900)]

ReportEncodes ==
    \A m \in {Report.availability, Report.latency, Report.errorRate} :
        m.value \notin Unencodable

RespondWithReport ==
    /\ phase = "evaluating"
    /\ route = "report"
    /\ Len(read) = Len(ReportQueries)
    /\ phase' = IF ReportEncodes THEN "done" ELSE "unencoded"
    /\ answer' = Report
    /\ UNCHANGED <<route, storeVars, telemetry, changes, slos, evalVars, witnessed>>

Next ==
    \/ \E q \in Query : Measure(q)
    \/ \E o \in DOMAIN slo : EditTarget(o) \/ DeleteSLO(o)
    \/ Begin
    \/ \E s \in SLI : EvaluateOneSLI(s)
    \/ \E o \in SLO : EvaluateOneSLO(o)
    \/ \E a \in SLA : EvaluateOneSLA(a)
    \/ ReadNext
    \/ RespondWithList \/ RespondWithOverview \/ RespondWithReport

Spec == Init /\ [][Next]_vars

-----------------------------------------------------------------------------
(* Properties.                                                             *)

Share == 0 .. 10000         \* of a budget, in hundredths of a percent

Reported == route = "report" /\ phase = "done"
Summarised == route = "overview" /\ phase = "done"

(* The types; a remaining budget lies between nothing and all of it, and   *)
(* is NaN only in what is not answered.                                    *)
TypeOK ==
    /\ route \in Route
    /\ DOMAIN sli \subseteq SLI /\ sli \in [DOMAIN sli -> SLIItem]
    /\ DOMAIN slo \subseteq SLO /\ slo \in [DOMAIN slo -> SLOItem]
    /\ DOMAIN sla \subseteq SLA /\ sla \in [DOMAIN sla -> SLAItem]
    /\ DOMAIN telemetry = Query
    /\ \A q \in Query : telemetry[q] \in AnswersTo(q)
    /\ changes \in 0 .. MaxChanges
    /\ phase \in {"idle", "evaluating", "done", "unencoded"}
    /\ DOMAIN slos \subseteq SLO /\ slos \in [DOMAIN slos -> SLOItem]
    /\ DOMAIN evalSLIs \subseteq DOMAIN sli
    /\ DOMAIN evalSLOs \subseteq DOMAIN slos
    /\ \A o \in DOMAIN evalSLOs :
          \/ evalSLOs[o].errorBudgetRemaining \in Share
          \/ evalSLOs[o].errorBudgetRemaining = NaN /\ phase # "done"
    /\ DOMAIN evalSLAs \subseteq DOMAIN sla
    /\ Len(read) \in 0 .. 4
    /\ Summarised => answer.score \in 0 .. 100
    /\ Reported => answer.slo.errorBudgetRemaining \in Share
    /\ DOMAIN witnessed = Query
    /\ \A q \in Query : witnessed[q] \subseteq AnswersTo(q)

(* An evaluation e without a value says so; another has one of the values. *)
Honest(e, value, without, values) ==
    IF value = Nil THEN e.status \in without ELSE value \in values

(* The values Prometheus had for a query during the request.               *)
Had(q) == witnessed[q] \ Fails
HadNumbers(q) == Had(q) \ {NaN}

(* The availabilities that rates of the service amount to; one that counts *)
(* more successes than requests is 100 %.                                  *)
Availabilities ==
    {IF success > total THEN Hundred ELSE Ratio(success, total) :
        success \in HadNumbers("success"), total \in HadNumbers("total") \ {0}}

ErrorRates ==
    {Ratio(error, total) :
        error \in HadNumbers("error"), total \in HadNumbers("total") \ {0}}

TruthfulReport ==
    LET without == {"unavailable"} IN
    /\ Honest(answer.availability, answer.availability.value, without, Availabilities)
    /\ Honest(answer.errorRate, answer.errorRate.value, without, ErrorRates)
    /\ Honest(answer.latency, answer.latency.value, without, Had("latency") \ {0})
    /\ Honest(answer.slo, answer.slo.current, without, Availabilities)
    /\ Honest(answer.sla, answer.sla.current, without, Availabilities)

(* Every verdict rests on a value that Prometheus had for that item during *)
(* the request; an item without a value is unavailable or has no data, and *)
(* its budget counts as gone.  The report's shares rest on two such rates, *)
(* which need not be of the same moment.                                   *)
Truthful ==
    /\ \A s \in DOMAIN evalSLIs :
          Honest(evalSLIs[s], evalSLIs[s].value, {"unavailable", "no_data"}, Had(s))
    /\ \A o \in DOMAIN evalSLOs :
          LET e == evalSLOs[o] IN
          IF e.current = Nil THEN e.status = "unavailable" /\ e.errorBudgetRemaining = 0
                             ELSE e.current \in Had(slos[o].sli)
    /\ \A a \in DOMAIN evalSLAs :
          Honest(evalSLAs[a], evalSLAs[a].current, {"unavailable"}, Had(a))
    /\ Reported => TruthfulReport

(* The SLOs of an answer, with the target they are held to: those of the   *)
(* cluster, or that of the report.                                         *)
Verdicts ==
    IF phase # "done" THEN {}
    ELSE IF route = "report" THEN {[target |-> 99900, slo |-> answer.slo]}
    ELSE {[target |-> slos[o].target, slo |-> evalSLOs[o]] : o \in DOMAIN evalSLOs}

(* Verdicts whose target leaves a budget, and whose SLI could be read.     *)
Budgeted == {v \in Verdicts : v.target < Hundred /\ v.slo.status # "unavailable"}

(* In every answer, an SLO that misses its target has no budget left, and  *)
(* one that is given a healthy budget is above its target: an SLI that is  *)
(* NaN, whose SLO is healthy with nothing above the target, is in none.    *)
BudgetMeansTarget ==
    \A v \in Budgeted :
        /\ v.slo.current < v.target => v.slo.status = "exhausted"
        /\ v.slo.status = "healthy" => v.slo.current > v.target

(* In every answer, an SLO that is short of its budget burns it fast       *)
(* enough to alert on: at 80 % or more of the rate that uses it up, and at *)
(* all of it once it is used up.  Budget and burn rate are computed apart  *)
(* and rounded.                                                            *)
BurnWarns ==
    \A v \in Budgeted :
        /\ v.slo.status = "at_risk" => v.slo.window1h >= 80
        /\ v.slo.status = "exhausted" => v.slo.window1h >= 100

(* An SLI and an SLO that do not contradict each other: with budget left   *)
(* the SLI is healthy, and a critical SLI leaves none.                     *)
Agree(sliStatus, sloStatus) ==
    /\ sloStatus \in {"healthy", "at_risk"} => sliStatus = "healthy"
    /\ sliStatus = "critical" => sloStatus = "exhausted"

(* While nothing changes, an availability SLI that takes its target from   *)
(* its only SLO and that SLO do not contradict each other in any answer,   *)
(* although each asks Prometheus for itself.  The report's SLI, SLO and    *)
(* SLA, computed from one reading, never do, and its SLA is breached when  *)
(* its availability is below the target and only then.  Of a reading that  *)
(* is NaN the SLI is critical, the SLO healthy and the SLA compliant: no   *)
(* answer may hold the first two.                                          *)
SteadyVerdicts ==
    /\ \A o \in DOMAIN evalSLOs : \A s \in {slos[o].sli} \cap DOMAIN evalSLIs :
          /\ phase = "done" /\ changes = 0 /\ slos[o].target < Hundred
          /\ sli[s].type = "availability" /\ sli[s].target = 0
          /\ {x \in DOMAIN slos : slos[x].sli = s} = {o}
          => Agree(evalSLIs[s].status, evalSLOs[o].status)
    /\ Reported =>
          /\ Agree(answer.availability.status, answer.slo.status)
          /\ answer.sla.status = "breached"
                <=> answer.availability.status \in {"warning", "critical"}

(* A cluster that has SLOs scores 100 only when every one of them is       *)
(* healthy, by a value that is a number: an SLO that could not be read is  *)
(* not a good one, and one whose SLI is NaN brings no score at all.        *)
PerfectScore ==
    Summarised /\ DOMAIN slos # {} /\ answer.score = 100
        => \A o \in DOMAIN slos : /\ evalSLOs[o].status = "healthy"
                                  /\ evalSLOs[o].current \in Nat

=============================================================================
