------------------------- MODULE ReliabilityEngine -------------------------
(***************************************************************************)
(* The pure calculations of internal/server/reliability_engine.go.         *)
(*                                                                         *)
(* The code computes in float64; here a value (a percentage, or            *)
(* milliseconds) is an integer number of thousandths, what the code rounds *)
(* to two decimals is an integer number of hundredths, and the arithmetic  *)
(* is exact.  A nil pointer is Nil.  Prometheus may also answer NaN (the   *)
(* 0 / 0 of a service without requests): no comparison with it holds, and  *)
(* arithmetic on it yields NaN.                                            *)
(***************************************************************************)
EXTENDS Integers

CONSTANTS
    Nil,
    NaN,
    Infinity    \* stands for +Inf, a number beyond all others there are

ASSUME NilAssumption ==
    /\ Nil \notin Int /\ NaN \notin Int /\ NaN # Nil
    /\ Infinity \in Nat

Hundred == 100000       \* 100 %

(* What is computed from a value that may be NaN.                          *)
OfNumber(value, result) == IF value = NaN THEN NaN ELSE result

(* encoding/json refuses these, and with them the answer they are in.      *)
Unencodable == {NaN, Infinity}

(* math.Round: the nearest integer to a / b, halves away from zero (b > 0). *)
RoundDiv(a, b) ==
    IF a >= 0 THEN (2 * a + b) \div (2 * b) ELSE -((-2 * a + b) \div (2 * b))

(* How far an SLI may miss its target and still be a warning.              *)
HigherIsBetter == {"availability", "throughput"}
LowerIsBetter == {"error_rate", "latency", "saturation"}
Tolerance(type) == CASE type \in {"availability", "error_rate"} -> 500
                     [] type = "latency" -> 50000
                     [] type = "throughput" -> 10000
                     [] type = "saturation" -> 5000

(* By how much a value misses its target, where more is worse.             *)
Miss(value, target, type) ==
    IF type \in LowerIsBetter THEN value - target ELSE target - value

MissesAtMost(margin, value, target, type) ==
    value # NaN /\ Miss(value, target, type) <= margin

CalculateSLIStatus(value, target, type) ==
    IF value = Nil \/ target = Nil THEN "unavailable"
    ELSE IF MissesAtMost(0, value, target, type) THEN "healthy"
    ELSE IF type \in HigherIsBetter \cup LowerIsBetter
            /\ MissesAtMost(Tolerance(type), value, target, type) THEN "warning"
    ELSE "critical"

(* Mutant: the remaining share is that of the error to the allowed error.  *)
ErrorBudgetConsumed(target, current) ==
    IF target >= Hundred THEN 10000
    ELSE OfNumber(current,
        IF current >= Hundred \/ current < target THEN 10000
        ELSE RoundDiv((Hundred - current) * 10000, Hundred - target))

(* Mutant: a budget that is overdrawn stays negative.                      *)
ErrorBudgetUnclamped(target, current) ==
    IF target >= Hundred THEN 10000
    ELSE OfNumber(current,
        IF current >= Hundred THEN 10000
        ELSE RoundDiv((current - target) * 10000, Hundred - target))

(* In hundredths of a percent.                                             *)
CalculateErrorBudgetRemaining(target, current) ==
    IF target >= Hundred THEN 10000
    ELSE OfNumber(current,
        IF current >= Hundred THEN 10000
        ELSE IF current < target THEN 0
        ELSE RoundDiv((current - target) * 10000, Hundred - target))

(* Mutant: the rate of the error allowed to the error there is.            *)
InverseBurnRate(target, current) ==
    IF target >= Hundred THEN 0
    ELSE OfNumber(current,
        IF current >= Hundred THEN 0
        ELSE RoundDiv((Hundred - target) * 100, Hundred - current))

(* In hundredths.                                                          *)
CalculateBurnRate(target, current) ==
    IF target >= Hundred THEN 0
    ELSE OfNumber(current,
        IF current >= Hundred THEN 0
        ELSE RoundDiv((Hundred - current) * 100, Hundred - target))

CalculateWindowMinutes(window) ==
    CASE window = "5m" -> 5         [] window = "15m" -> 15
      [] window = "1h" -> 60        [] window = "6h" -> 360
      [] window = "24h" -> 1440     [] window = "7d" -> 10080
      [] window = "90d" -> 129600   [] OTHER -> 43200

AllowedError(target) == RoundDiv(Hundred - target, 10)
TotalBudgetMinutes(target, window) ==
    RoundDiv(CalculateWindowMinutes(window) * AllowedError(target), 100)

BudgetStatus(remaining) ==
    IF remaining = NaN THEN "healthy"
    ELSE IF remaining <= 0 THEN "exhausted"
    ELSE IF remaining < 2000 THEN "at_risk" ELSE "healthy"

(* Nothing is assumed of an SLO whose SLI could not be read.               *)
UnavailableSLO(target, window) ==
    [current |-> Nil, errorBudgetRemaining |-> 0,
     totalBudgetMinutes |-> TotalBudgetMinutes(target, window),
     remainingMinutes |-> 0, consumedMinutes |-> 0,
     window1h |-> Nil, window6h |-> Nil, window24h |-> Nil,
     status |-> "unavailable"]

EvaluateSLO(target, window, current) ==
    IF current = Nil THEN UnavailableSLO(target, window)
    ELSE LET remaining == CalculateErrorBudgetRemaining(target, current)
             total     == TotalBudgetMinutes(target, window)
             minutes   == OfNumber(remaining, RoundDiv(total * remaining, 10000))
             burn      == CalculateBurnRate(target, current)
         IN [current |-> current, errorBudgetRemaining |-> remaining,
             totalBudgetMinutes |-> total,
             remainingMinutes |-> minutes,
             consumedMinutes |-> OfNumber(minutes, total - minutes),
             window1h |-> burn,
             window6h |-> OfNumber(burn, RoundDiv(8 * burn, 10)),
             window24h |-> OfNumber(burn, RoundDiv(5 * burn, 10)),
             status |-> BudgetStatus(remaining)]

(* An SLA without a target of its own is held to 99.9 %.  What is answered *)
(* of it is its verdict: current is for the properties to refer to.        *)
EvaluateSLA(availabilityTarget, current, sloTarget) ==
    LET target == IF availabilityTarget = Nil THEN 99900 ELSE availabilityTarget IN
    [current |-> current,
     safetyMargin |-> IF current # Nil /\ sloTarget > target
                      THEN RoundDiv(sloTarget - target, 10) ELSE Nil,
     status |-> IF current = Nil THEN "unavailable"
                ELSE IF current = NaN THEN "compliant"
                ELSE IF current < target THEN "breached"
                ELSE IF current < target + 100 THEN "at_risk"
                ELSE "compliant"]

(* The measurements of the report of a service.                            *)

(* A share in thousandths of a percent, to the nearest one.                *)
Ratio(part, total) == RoundDiv(part * Hundred, total)

Measured(value, target, type) ==
    [value |-> value, target |-> target,
     status |-> CalculateSLIStatus(value, target, type)]

NoRequests(total) == total # NaN /\ total <= 0

(* The two rates are asked for one after the other: the share may come out *)
(* above 100 %, and is cut there.                                          *)
CalculateAvailabilitySLI(good, total, target) ==
    Measured(IF good = Nil \/ total = Nil \/ NoRequests(total) THEN Nil
             ELSE IF good = NaN \/ total = NaN THEN NaN
             ELSE IF good > total THEN Hundred ELSE Ratio(good, total),
             target, "availability")

CalculateErrorRateSLI(bad, total, target) ==
    Measured(IF bad = Nil \/ total = Nil \/ NoRequests(total) THEN Nil
             ELSE IF bad = NaN \/ total = NaN THEN NaN ELSE Ratio(bad, total),
             target, "error_rate")

CalculateLatencySLI(value, target) ==
    Measured(IF value = Nil \/ (value # NaN /\ value <= 0) THEN Nil ELSE value,
             target, "latency")
=============================================================================
