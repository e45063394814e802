--------------------- MODULE ReliabilityOverviewProofs ---------------------
(* Proofs about ReliabilityEngine and ReliabilityOverview.                 *)
EXTENDS ReliabilityOverview, FiniteSetTheorems, SequenceTheorems, TLAPS

-----------------------------------------------------------------------------
(* Division and rounding.                                                  *)

(* The two bounds that make a quotient.                                    *)
LEMMA Quotient ==
    ASSUME NEW a \in Int, NEW b \in Nat \ {0}
    PROVE  /\ a \div b \in Int
           /\ b * (a \div b) <= a
           /\ a < b * (a \div b) + b
<1>1. a \div b \in Int  BY SMT
<1>2. a = b * (a \div b) + (a % b)  BY SMT
<1>3. a % b \in 0 .. b - 1  BY SMT
<1>4. b * (a \div b) \in Int BY <1>1
<1>5. QED  BY <1>1, <1>2, <1>3, <1>4

LEMMA Scaling ==
    ASSUME NEW b \in Nat, NEW x \in Int, NEW y \in Int, x <= y
    PROVE  b * x <= b * y
<1>1. PICK d \in Nat : y = x + d
  <2>1. y - x \in Nat /\ y = x + (y - x)  OBVIOUS
  <2>2. QED  BY <2>1
<1>2. b * y = b * x + b * d  BY <1>1
<1>3. b * d \in Nat /\ b * x \in Int  OBVIOUS
<1>4. QED  BY <1>2, <1>3

(* When a rounded share is at least k.                                     *)
LEMMA Rounding ==
    ASSUME NEW a \in Nat, NEW b \in Nat \ {0}, NEW k \in Nat
    PROVE  /\ RoundDiv(a, b) \in Nat
           /\ RoundDiv(a, b) >= k <=> 2 * a + b >= (2 * b) * k
<1> DEFINE q == (2 * a + b) \div (2 * b)
<1>1. /\ q \in Int
      /\ (2 * b) * q <= 2 * a + b
      /\ 2 * a + b < (2 * b) * q + 2 * b
  <2>1. 2 * a + b \in Int /\ 2 * b \in Nat \ {0}  OBVIOUS
  <2>2. QED  BY <2>1, Quotient
<1>2. RoundDiv(a, b) = q
  BY DEF RoundDiv
<1> HIDE DEF q
<1> DEFINE c == 2 * b  n == 2 * a + b
<1>3. c \in Nat \ {0} /\ n \in Nat /\ c * q <= n /\ n < c * q + c
  BY <1>1
<1> HIDE DEF c, n
<1>4. q >= 0
  <2>1. SUFFICES ASSUME q <= -1  PROVE FALSE
    BY <1>1
  <2>2. c * q <= c * (-1)
    BY <1>1, <1>3, <2>1, Scaling
  <2>3. c * (-1) = -c
    BY <1>3
  <2>4. c * q \in Int
    BY <1>1, <1>3
  <2>5. QED
    BY <1>3, <2>2, <2>3, <2>4
<1>5. ASSUME q >= k  PROVE n >= c * k
  <2>1. c * k <= c * q
    BY <1>1, <1>3, <1>5, Scaling
  <2>2. c * k \in Int /\ c * q \in Int
    BY <1>1, <1>3
  <2>3. QED
    BY <1>3, <2>1, <2>2
<1>6. ASSUME n >= c * k  PROVE q >= k
  <2>1. SUFFICES ASSUME q + 1 <= k  PROVE FALSE
    BY <1>1
  <2>2. c * (q + 1) <= c * k
    BY <1>1, <1>3, <2>1, Scaling
  <2>3. c * (q + 1) = c * q + c
    BY <1>1, <1>3
  <2>4. c * k \in Int /\ c * q \in Int
    BY <1>1, <1>3
  <2>5. QED
    BY <1>3, <1>6, <2>2, <2>3, <2>4
<1>7. q \in Nat
  BY <1>1, <1>4
<1>8. QED
  BY <1>2, <1>5, <1>6, <1>7 DEF c, n

(* A rounded quotient grows with what is divided.                          *)
LEMMA RoundingMonotone ==
    ASSUME NEW a \in Nat, NEW c \in Nat, NEW b \in Nat \ {0}, a <= c
    PROVE  /\ RoundDiv(a, b) \in Nat
           /\ RoundDiv(a, b) <= RoundDiv(c, b)
<1> DEFINE k == RoundDiv(a, b)
<1>1. k \in Nat
  BY Rounding, 0 \in Nat
<1> HIDE DEF k
<1> DEFINE m == (2 * b) * k
<1>2. m \in Nat /\ (RoundDiv(a, b) >= k <=> 2 * a + b >= m)
  BY <1>1, Rounding
<1>3. RoundDiv(c, b) \in Nat /\ (RoundDiv(c, b) >= k <=> 2 * c + b >= m)
  BY <1>1, Rounding
<1> HIDE DEF m
<1>4. 2 * a + b >= m
  BY <1>1, <1>2 DEF k
<1>5. QED
  BY <1>1, <1>2, <1>3, <1>4 DEF k

-----------------------------------------------------------------------------
(* The evaluation of an SLO (EvaluateSLO).                                 *)

(* The remaining budget in terms of target and value.                      *)
LEMMA Remaining ==
    ASSUME NEW target \in Nat, target < Hundred, NEW current \in Nat
    PROVE  LET r == CalculateErrorBudgetRemaining(target, current) IN
           /\ r \in Nat /\ r <= 10000
           /\ current < target => r = 0
           /\ r >= 2000 => current > target
           /\ current < Hundred /\ current >= target /\ r < 2000
                 => 20000 * (current - target) < 3999 * (Hundred - target)
           /\ current < Hundred /\ current >= target /\ r <= 0
                 => 20000 * (current - target) < Hundred - target
           /\ current >= Hundred => r = 10000
<1> DEFINE b == Hundred - target  a == (current - target) * 10000
           r == CalculateErrorBudgetRemaining(target, current)
<1>0. b \in Nat \ {0} /\ Hundred = 100000 /\ current # NaN
  BY NilAssumption DEF Hundred
<1>1. CASE current >= Hundred
  BY <1>0, <1>1 DEF CalculateErrorBudgetRemaining, OfNumber
<1>2. CASE current < target
  BY <1>0, <1>2 DEF CalculateErrorBudgetRemaining, OfNumber
<1>3. CASE current >= target /\ current < Hundred
  <2>1. r = RoundDiv(a, b) /\ a \in Nat
    BY <1>0, <1>3 DEF CalculateErrorBudgetRemaining, OfNumber
  <2> HIDE DEF a, b, r
  <2>2. r \in Nat /\ \A k \in Nat : r >= k <=> 2 * a + b >= (2 * b) * k
    BY <1>0, <2>1, Rounding
  <2>3. /\ r >= 2000 <=> 2 * a + b >= (2 * b) * 2000
        /\ r >= 1 <=> 2 * a + b >= (2 * b) * 1
        /\ r >= 10001 <=> 2 * a + b >= (2 * b) * 10001
    <3>1. r >= 2000 <=> 2 * a + b >= (2 * b) * 2000
      BY <2>2
    <3>2. r >= 1 <=> 2 * a + b >= (2 * b) * 1
      BY <2>2
    <3>3. r >= 10001 <=> 2 * a + b >= (2 * b) * 10001
      BY <2>2
    <3>4. QED
      BY <3>1, <3>2, <3>3
  <2>4. current - target <= b - 1
    BY <1>0, <1>3 DEF b
  <2>5. QED
    BY <1>0, <1>3, <2>2, <2>3, <2>4 DEF a, b, r
<1>4. QED
  BY <1>0, <1>1, <1>2, <1>3

(* The burn rate of an SLO whose value is short of 100 %.                  *)
LEMMA Burning ==
    ASSUME NEW target \in Nat, target < Hundred,
           NEW current \in Nat, current < Hundred, NEW k \in Nat
    PROVE  LET b == Hundred - target IN
           CalculateBurnRate(target, current) >= k
              <=> 200 * (Hundred - current) + b >= (2 * b) * k
<1> DEFINE b == Hundred - target  a == (Hundred - current) * 100
<1>1. b \in Nat \ {0} /\ a \in Nat
  BY DEF Hundred
<1>2. CalculateBurnRate(target, current) = RoundDiv(a, b)
  BY NilAssumption DEF CalculateBurnRate, OfNumber, Hundred
<1>3. 2 * a = 200 * (Hundred - current)
  BY DEF Hundred
<1>4. RoundDiv(a, b) >= k <=> 2 * a + b >= (2 * b) * k
  BY <1>1, Rounding
<1>5. QED
  BY <1>2, <1>3, <1>4

(* An SLO of a value that is a number.                                     *)
LEMMA NumberedSLO ==
    ASSUME NEW target \in Nat, target < Hundred, NEW current \in Nat, NEW window
    PROVE  LET e == EvaluateSLO(target, window, current) IN
           /\ e.current = current
           /\ e.errorBudgetRemaining \in Share
           /\ current < target => e.status = "exhausted"
           /\ e.status = "healthy" => current > target
           /\ e.status = "at_risk" => e.window1h >= 80
           /\ e.status = "exhausted" => e.window1h >= 100
<1> DEFINE r == CalculateErrorBudgetRemaining(target, current)
           burn == CalculateBurnRate(target, current)
           e == EvaluateSLO(target, window, current)
<1>1. /\ e.current = current /\ e.errorBudgetRemaining = r
      /\ e.window1h = burn /\ e.status = BudgetStatus(r)
  BY NilAssumption DEF EvaluateSLO
<1> HIDE DEF e
<1>2. /\ r \in Nat /\ r <= 10000
      /\ current < target => r = 0
      /\ r >= 2000 => current > target
      /\ current < Hundred /\ current >= target /\ r < 2000
            => 20000 * (current - target) < 3999 * (Hundred - target)
      /\ current < Hundred /\ current >= target /\ r <= 0
            => 20000 * (current - target) < Hundred - target
      /\ current >= Hundred => r = 10000
  BY Remaining
<1>3. /\ current < Hundred => (burn >= 80
            <=> 200 * (Hundred - current) + (Hundred - target)
                   >= (2 * (Hundred - target)) * 80)
      /\ current < Hundred => (burn >= 100
            <=> 200 * (Hundred - current) + (Hundred - target)
                   >= (2 * (Hundred - target)) * 100)
  BY Burning
<1> HIDE DEF r, burn
<1>4. /\ BudgetStatus(r) = "exhausted" <=> r <= 0
      /\ BudgetStatus(r) = "at_risk" <=> r > 0 /\ r < 2000
      /\ BudgetStatus(r) = "healthy" <=> r >= 2000
  BY <1>2, NilAssumption DEF BudgetStatus
<1>5. r < 2000 => current < Hundred
  BY <1>2 DEF Hundred
<1>6. r < 2000 => burn >= 80
  <2>1. CASE current < target
    BY <1>2, <1>3, <1>5, <2>1 DEF Hundred
  <2>2. CASE current >= target
    BY <1>2, <1>3, <1>5, <2>2 DEF Hundred
  <2>3. QED
    BY <2>1, <2>2
<1>7. r <= 0 => burn >= 100
  <2>1. CASE current < target
    BY <1>2, <1>3, <1>5, <2>1 DEF Hundred
  <2>2. CASE current >= target
    BY <1>2, <1>3, <1>5, <2>2 DEF Hundred
  <2>3. QED
    BY <2>1, <2>2
<1>8. r \in Share
  BY <1>2 DEF Share
<1>9. current < target => BudgetStatus(r) = "exhausted"
  BY <1>2, <1>4
<1>10. BudgetStatus(r) = "healthy" => current > target
  BY <1>2, <1>4
<1>11. BudgetStatus(r) = "at_risk" => burn >= 80
  BY <1>4, <1>6
<1>12. BudgetStatus(r) = "exhausted" => burn >= 100
  BY <1>4, <1>7
<1>13. /\ e.current = current /\ e.errorBudgetRemaining \in Share
       /\ current < target => e.status = "exhausted"
       /\ e.status = "healthy" => current > target
       /\ e.status = "at_risk" => e.window1h >= 80
       /\ e.status = "exhausted" => e.window1h >= 100
  BY <1>1, <1>8, <1>9, <1>10, <1>11, <1>12
<1>14. QED
  BY <1>13 DEF e

(* What the evaluation of an SLO that leaves a budget promises, whatever   *)
(* Prometheus answers.  Of a number: of the budget there is a share left;  *)
(* below the target it is exhausted, and a healthy SLO is above its        *)
(* target; and one that is short of its budget burns it at a rate that     *)
(* alerts.  NaN passes every comparison and comes out healthy, with a      *)
(* value, a budget and a burn rate that no answer can hold.                *)
THEOREM SoundSLO ==
    ASSUME NEW target \in Nat, target < Hundred, NEW current \in Nat \cup {NaN},
           NEW window
    PROVE  LET e == EvaluateSLO(target, window, current) IN
           /\ e.current = current
           /\ current # NaN =>
                 /\ e.errorBudgetRemaining \in Share
                 /\ current < target => e.status = "exhausted"
                 /\ e.status = "healthy" => current > target
                 /\ e.status = "at_risk" => e.window1h >= 80
                 /\ e.status = "exhausted" => e.window1h >= 100
           /\ current = NaN =>
                 /\ e.status = "healthy"
                 /\ {e.current, e.errorBudgetRemaining, e.window1h} \subseteq Unencodable
<1>1. CASE current = NaN
  <2>1. /\ CalculateErrorBudgetRemaining(target, current) = NaN
        /\ CalculateBurnRate(target, current) = NaN
    BY <1>1 DEF CalculateErrorBudgetRemaining, CalculateBurnRate, OfNumber, Hundred
  <2>2. QED
    BY <1>1, <2>1, NilAssumption DEF EvaluateSLO, BudgetStatus, Unencodable
<1>2. CASE current # NaN
  <2>1. current \in Nat
    BY <1>2
  <2>2. QED
    BY <1>2, <2>1, NumberedSLO
<1>3. QED
  BY <1>1, <1>2

(* Of two values the higher one leaves no less of the budget and burns it  *)
(* no faster, whatever the target and the rounding: EvaluateSLO takes      *)
(* every value for an availability.                                        *)
THEOREM BudgetsFollowValues ==
    ASSUME NEW target \in Nat, NEW low \in Nat, NEW high \in Nat, low <= high
    PROVE  /\ CalculateErrorBudgetRemaining(target, low)
                 <= CalculateErrorBudgetRemaining(target, high)
           /\ CalculateBurnRate(target, high) <= CalculateBurnRate(target, low)
<1> DEFINE least == CalculateErrorBudgetRemaining(target, low)
           most == CalculateErrorBudgetRemaining(target, high)
           fast == CalculateBurnRate(target, low)
           slow == CalculateBurnRate(target, high)
           b == Hundred - target
<1> USE NilAssumption
<1>1. ASSUME target >= Hundred  PROVE least <= most /\ slow <= fast
  BY <1>1 DEF CalculateErrorBudgetRemaining, CalculateBurnRate, OfNumber
<1>2. ASSUME target < Hundred  PROVE least <= most /\ slow <= fast
  <2>1. b \in Nat \ {0} /\ Hundred \in Nat
    BY <1>2 DEF Hundred
  <2>2. /\ least \in Nat /\ least <= 10000
        /\ most \in Nat /\ most <= 10000
    BY <1>2, Remaining
  <2>3. least <= most
    <3>1. CASE low < target
      <4>1. least = 0
        BY <1>2, <2>1, <3>1, Remaining
      <4> HIDE DEF least, most
      <4>2. QED
        BY <2>2, <4>1
    <3>2. CASE high >= Hundred
      BY <1>2, <2>2, <3>2, Remaining
    <3>3. CASE low >= target /\ high < Hundred
      <4> DEFINE short == (low - target) * 10000  long == (high - target) * 10000
      <4>1. short \in Nat /\ long \in Nat /\ short <= long
        BY <3>3
      <4>2. least = RoundDiv(short, b) /\ most = RoundDiv(long, b)
        BY <1>2, <3>3, <2>1 DEF CalculateErrorBudgetRemaining, OfNumber
      <4> HIDE DEF short, long, b, least, most
      <4>3. RoundDiv(short, b) <= RoundDiv(long, b)
        BY <2>1, <4>1, RoundingMonotone
      <4>4. QED
        BY <4>2, <4>3
    <3>4. QED
      BY <2>1, <3>1, <3>2, <3>3
  <2>4. slow <= fast
    <3>1. CASE low >= Hundred
      BY <1>2, <2>1, <3>1 DEF CalculateBurnRate, OfNumber
    <3>2. CASE low < Hundred /\ high >= Hundred
      <4> DEFINE lost == (Hundred - low) * 100
      <4>1. lost \in Nat
        BY <2>1, <3>2
      <4>2. fast = RoundDiv(lost, b) /\ slow = 0
        BY <1>2, <3>2, <2>1 DEF CalculateBurnRate, OfNumber
      <4> HIDE DEF lost, b, fast, slow
      <4>3. RoundDiv(lost, b) \in Nat
        BY <2>1, <4>1, RoundingMonotone
      <4>4. QED
        BY <4>2, <4>3
    <3>3. CASE high < Hundred
      <4> DEFINE lost == (Hundred - low) * 100  less == (Hundred - high) * 100
      <4>1. lost \in Nat /\ less \in Nat /\ less <= lost
        BY <2>1, <3>3
      <4>2. low < Hundred
        BY <2>1, <3>3
      <4>3. fast = RoundDiv(lost, b) /\ slow = RoundDiv(less, b)
        BY <1>2, <3>3, <4>2, <2>1 DEF CalculateBurnRate, OfNumber
      <4> HIDE DEF lost, less, b, fast, slow
      <4>4. RoundDiv(less, b) <= RoundDiv(lost, b)
        BY <2>1, <4>1, RoundingMonotone
      <4>5. QED
        BY <4>3, <4>4
    <3>4. QED
      BY <2>1, <3>1, <3>2, <3>3
  <2>5. QED
    BY <2>3, <2>4
<1>3. least <= most /\ slow <= fast
  <2>1. target >= Hundred \/ target < Hundred
    BY DEF Hundred
  <2>2. QED
    BY <1>1, <1>2, <2>1
<1>4. QED
  BY <1>3

(* It is told the type of the SLI and does not ask: where less is better,  *)
(* a value of nothing is a healthy SLI, and exhausts every SLO that has    *)
(* it.                                                                     *)
THEOREM NoErrorsExhaust ==
    ASSUME NEW type \in LowerIsBetter,
           NEW target \in Nat \ {0}, target < Hundred, NEW window
    PROVE  /\ CalculateSLIStatus(0, target, type) = "healthy"
           /\ EvaluateSLO(target, window, 0).status = "exhausted"
<1>1. 0 # Nil /\ 0 # NaN /\ target # Nil
  BY NilAssumption
<1>2. Miss(0, target, type) <= 0
  BY DEF Miss
<1>3. CalculateSLIStatus(0, target, type) = "healthy"
  BY <1>1, <1>2 DEF CalculateSLIStatus, MissesAtMost
<1>4. 0 < target
  OBVIOUS
<1>5. EvaluateSLO(target, window, 0).status = "exhausted"
  BY <1>1, <1>4, NumberedSLO
<1>6. QED
  BY <1>3, <1>5

(* What is left of a budget, for any target and any reading, or none.      *)
LEMMA ShareOfBudget ==
    ASSUME NEW target \in Nat, NEW window, NEW current \in Nat \cup {Nil, NaN}
    PROVE  LET e == EvaluateSLO(target, window, current) IN
           \/ e.errorBudgetRemaining \in Share
           \/ e.errorBudgetRemaining = NaN /\ current = NaN
<1>1. CASE current = Nil
  BY <1>1 DEF EvaluateSLO, UnavailableSLO, Share
<1>2. CASE current # Nil /\ target < Hundred
  <2>1. CASE current = NaN
    BY <1>2, <2>1 DEF EvaluateSLO, CalculateErrorBudgetRemaining, OfNumber, Hundred
  <2>2. CASE current # NaN
    BY <1>2, <2>2, NumberedSLO
  <2>3. QED
    BY <2>1, <2>2
<1>3. CASE current # Nil /\ ~(target < Hundred)
  <2>1. CalculateErrorBudgetRemaining(target, current) = 10000
    BY <1>3 DEF CalculateErrorBudgetRemaining, Hundred
  <2>2. QED
    BY <1>3, <2>1 DEF EvaluateSLO, Share
<1>4. QED
  BY <1>1, <1>2, <1>3

(* An SLO without a value is unavailable; the status of another is one of  *)
(* its budget.                                                             *)
LEMMA StatusOfSLO ==
    ASSUME NEW target, NEW window, NEW current
    PROVE  LET e == EvaluateSLO(target, window, current) IN
           /\ e.current = current
           /\ e.status = "unavailable" <=> current = Nil
           /\ current = Nil => e.errorBudgetRemaining = 0
<1>1. CASE current = Nil
  BY <1>1 DEF EvaluateSLO, UnavailableSLO
<1>2. CASE current # Nil
  BY <1>2 DEF EvaluateSLO, BudgetStatus
<1>3. QED
  BY <1>1, <1>2

-----------------------------------------------------------------------------
(* The score.                                                              *)

(* A share of a whole, in percent: 100 only for all of it.                 *)
LEMMA Percentage ==
    ASSUME NEW h \in Nat, NEW n \in Nat \ {0}, h <= n
    PROVE  /\ (h * 100) \div n \in 0 .. 100
           /\ (h * 100) \div n = 100 => h = n
<1> DEFINE q == (h * 100) \div n
<1>1. q \in Int /\ n * q <= h * 100 /\ h * 100 < n * q + n
  BY Quotient
<1> HIDE DEF q
<1>2. n * q \in Int
  BY <1>1
<1>3. q <= 100
  <2>1. SUFFICES ASSUME q >= 101  PROVE FALSE
    BY <1>1
  <2>2. n * 101 <= n * q
    BY <1>1, <2>1, Scaling
  <2>3. QED
    BY <1>1, <1>2, <2>2
<1>4. q >= 0
  <2>1. SUFFICES ASSUME q <= -1  PROVE FALSE
    BY <1>1
  <2>2. n * q <= n * (-1)
    BY <1>1, <2>1, Scaling
  <2>3. n * (-1) = -n
    OBVIOUS
  <2>4. QED
    BY <1>1, <1>2, <2>2, <2>3
<1>5. q = 100 => h = n
  BY <1>1
<1>6. QED
  BY <1>1, <1>3, <1>4, <1>5 DEF q

-----------------------------------------------------------------------------
(* The inductive invariant.                                                *)

Readable == Nat \cup {Nil, NaN}

(* What the request is about.                                              *)
Shape ==
    /\ route \in Route
    /\ DOMAIN sli \subseteq SLI /\ sli \in [DOMAIN sli -> SLIItem]
    /\ DOMAIN slo \subseteq SLO /\ slo \in [DOMAIN slo -> SLOItem]
    /\ DOMAIN sla \subseteq SLA /\ sla \in [DOMAIN sla -> SLAItem]
    /\ DOMAIN slos \subseteq SLO /\ slos \in [DOMAIN slos -> SLOItem]
    /\ route = "report" => /\ DOMAIN sli = {} /\ DOMAIN sla = {}
                           /\ DOMAIN slo = {} /\ DOMAIN slos = {}
    /\ changes \in 0 .. MaxChanges
    /\ phase \in {"idle", "evaluating", "done", "unencoded"}

(* What Prometheus answers now is witnessed while the request goes on.     *)
Asked ==
    /\ DOMAIN telemetry = Query
    /\ \A q \in Query : telemetry[q] \in AnswersTo(q)
    /\ DOMAIN witnessed = Query
    /\ \A q \in Query : witnessed[q] \subseteq AnswersTo(q)
    /\ phase = "evaluating" => \A q \in Query : telemetry[q] \in witnessed[q]

SLIFounded(s) ==
    Honest(evalSLIs[s], evalSLIs[s].value, {"unavailable", "no_data"}, Had(s))

SLOFounded(o) ==
    \E v \in Readable :
        /\ evalSLOs[o] = EvaluateSLO(slos[o].target, slos[o].window, v)
        /\ v # Nil => slos[o].sli \in DOMAIN sli /\ v \in Had(slos[o].sli)

SLAFounded(a) ==
    Honest(evalSLAs[a], evalSLAs[a].current, {"unavailable"}, Had(a))

ReadFounded(i) == read[i] = Nil \/ read[i] \in Had(ReportQueries[i])

(* Every row rests on something witnessed.                                 *)
Rows ==
    /\ phase = "idle" => /\ DOMAIN evalSLIs = {} /\ DOMAIN evalSLOs = {}
                         /\ DOMAIN evalSLAs = {} /\ read = << >>
    /\ DOMAIN evalSLIs \subseteq DOMAIN sli
    /\ DOMAIN evalSLOs \subseteq DOMAIN slos
    /\ DOMAIN evalSLAs \subseteq DOMAIN sla
    /\ \A s \in DOMAIN evalSLIs : SLIFounded(s)
    /\ \A o \in DOMAIN evalSLOs : SLOFounded(o)
    /\ \A a \in DOMAIN evalSLAs : SLAFounded(a)
    /\ read \in Seq(Readable) /\ Len(read) \in 0 .. 4
    /\ Len(read) > 0 => route = "report"
    /\ \A i \in 1 .. Len(read) : ReadFounded(i)

(* The answer is made of the rows, and every one of them can be encoded.   *)
Answered ==
    /\ phase = "done" /\ route # "report" => RowsEncode
    /\ Reported => Len(read) = 4 /\ answer = Report /\ ReportEncodes
    /\ Summarised => DOMAIN evalSLOs = DOMAIN slos /\ answer.score = OverallScore

OverviewInv == Shape /\ Asked /\ Rows /\ Answered

LEMMA InitialInv == Init => OverviewInv
<1> SUFFICES ASSUME Init  PROVE OverviewInv
  OBVIOUS
<1>1. Shape
  BY OverviewAssumption DEF Init, Shape, ReadBy, Route, Nothing
<1>2. Asked
  <2>1. CASE route = "report"
    BY <2>1 DEF Init, Asked, Query, Telemetry, AnswersTo
  <2>2. CASE route # "report"
    BY <2>2 DEF Init, Asked, Query, Telemetry, AnswersTo
  <2>3. QED
    BY <2>1, <2>2
<1>3. Rows
  BY DEF Init, Rows, Nothing
<1>4. Answered
  BY DEF Init, Answered, Reported, Summarised
<1>5. QED
  BY <1>1, <1>2, <1>3, <1>4 DEF OverviewInv

(* The queries of a request do not change.                                 *)
LEMMA SameQueries ==
    ASSUME UNCHANGED <<route, sli, sla>>
    PROVE  Query' = Query /\ \A q : AnswersTo(q)' = AnswersTo(q)
  BY DEF Query, AnswersTo

(* What a query yields is a value that is witnessed, or none.              *)
LEMMA Yield ==
    ASSUME Asked, phase = "evaluating", NEW q \in Query
    PROVE  /\ QueryOptional(q) \in Readable
           /\ QueryOptional(q) # Nil => QueryOptional(q) \in Had(q)
  BY OverviewAssumption
     DEF Asked, QueryOptional, Readable, Had, AnswersTo, Answer, RateAnswer, LatencyAnswer

(* The queries that items and the report's readings stand for.             *)
LEMMA Queries ==
    ASSUME Shape
    PROVE  /\ DOMAIN sli \subseteq Query /\ DOMAIN sla \subseteq Query
           /\ route = "report" => \A i \in 1 .. 4 : ReportQueries[i] \in Query
<1>1. DOMAIN sli \subseteq Query /\ DOMAIN sla \subseteq Query
  BY DEF Shape, Query
<1>2. ASSUME route = "report", NEW i \in 1 .. 4
      PROVE  ReportQueries[i] \in Query
  <2>1. i = 1 \/ i = 2 \/ i = 3 \/ i = 4
    OBVIOUS
  <2>2. QED
    BY <1>2, <2>1 DEF Query, ReportQueries
<1>3. QED
  BY <1>1, <1>2

(* A step that evaluates nothing keeps the rows, for witnesses only come.  *)
LEMMA RowsKept ==
    ASSUME Shape, Rows, phase = "evaluating", phase' # "idle",
           UNCHANGED <<route, sli, sla, slos, evalVars>>,
           \A q \in Query : Had(q) \subseteq Had(q)'
    PROVE  Rows'
<1> USE DEF evalVars
<1>1. DOMAIN sli \subseteq Query /\ DOMAIN sla \subseteq Query
  BY Queries
<1>2. ASSUME NEW s \in DOMAIN evalSLIs  PROVE SLIFounded(s)'
  <2>1. s \in Query /\ SLIFounded(s)
    BY <1>1 DEF Rows
  <2>2. Had(s) \subseteq Had(s)'
    BY <2>1
  <2>3. QED
    BY <2>1, <2>2 DEF SLIFounded, Honest
<1>3. ASSUME NEW o \in DOMAIN evalSLOs  PROVE SLOFounded(o)'
  <2>1. PICK v \in Readable :
           /\ evalSLOs[o] = EvaluateSLO(slos[o].target, slos[o].window, v)
           /\ v # Nil => slos[o].sli \in DOMAIN sli /\ v \in Had(slos[o].sli)
    BY DEF Rows, SLOFounded
  <2>2. v # Nil => v \in Had(slos[o].sli)'
    <3>1. SUFFICES ASSUME v # Nil  PROVE v \in Had(slos[o].sli)'
      OBVIOUS
    <3>2. slos[o].sli \in Query /\ v \in Had(slos[o].sli)
      BY <1>1, <2>1, <3>1
    <3>3. QED
      BY <3>2 DEF Had
  <2>3. QED
    BY <2>1, <2>2 DEF SLOFounded
<1>4. ASSUME NEW a \in DOMAIN evalSLAs  PROVE SLAFounded(a)'
  <2>1. a \in Query /\ SLAFounded(a)
    BY <1>1 DEF Rows
  <2>2. Had(a) \subseteq Had(a)'
    BY <2>1
  <2>3. QED
    BY <2>1, <2>2 DEF SLAFounded, Honest
<1>5. ASSUME NEW i \in 1 .. Len(read)  PROVE ReadFounded(i)'
  <2>1. ReadFounded(i) /\ i \in 1 .. 4 /\ route = "report"
    <3>1. Len(read) \in 0 .. 4 /\ ReadFounded(i)
      BY DEF Rows
    <3>2. \A n \in 0 .. 4 : i \in 1 .. n => i \in 1 .. 4 /\ n > 0
      OBVIOUS
    <3>3. i \in 1 .. 4 /\ Len(read) > 0
      BY <3>1, <3>2
    <3>4. QED
      BY <3>1, <3>3 DEF Rows
  <2>2. ReportQueries[i] \in Query
    BY <2>1, Queries
  <2>3. QED
    BY <2>1, <2>2 DEF ReadFounded, Had
<1>6. QED
  BY <1>2, <1>3, <1>4, <1>5 DEF Rows

(* A step of the environment.                                              *)
LEMMA ChangeStep ==
    ASSUME OverviewInv,
           \/ \E q \in Query : Measure(q)
           \/ \E o \in DOMAIN slo : EditTarget(o) \/ DeleteSLO(o)
    PROVE  OverviewInv'
<1> USE DEF OverviewInv
<1>1. /\ phase = "evaluating" /\ phase' = "evaluating"
      /\ changes' \in 0 .. MaxChanges
      /\ UNCHANGED <<route, sli, sla, slos, evalVars, answer>>
  <2>1. Change /\ phase' = phase
        /\ UNCHANGED <<route, sli, sla, slos, evalVars, answer>>
    BY DEF Measure, EditTarget, DeleteSLO, storeVars
  <2>2. changes \in 0 .. MaxChanges /\ MaxChanges \in Nat
    BY OverviewAssumption DEF Shape
  <2>3. QED
    BY <2>1, <2>2 DEF Change
<1>2. Query' = Query /\ \A q : AnswersTo(q)' = AnswersTo(q)
  BY <1>1, SameQueries
<1>3. Asked' /\ \A q \in Query : Had(q) \subseteq Had(q)'
  <2>1. ASSUME NEW q \in Query, Measure(q)
        PROVE  Asked' /\ \A r \in Query : Had(r) \subseteq Had(r)'
    BY <1>1, <1>2, <2>1 DEF Asked, Measure, Had
  <2>2. ASSUME NEW o \in DOMAIN slo, EditTarget(o) \/ DeleteSLO(o)
        PROVE  Asked' /\ \A r \in Query : Had(r) \subseteq Had(r)'
    <3>1. UNCHANGED <<telemetry, witnessed>>
      BY <2>2 DEF EditTarget, DeleteSLO
    <3>2. QED
      BY <1>1, <1>2, <3>1 DEF Asked, Had
  <2>3. QED
    BY <2>1, <2>2
<1>4. Shape'
  <2>1. CASE UNCHANGED slo
    BY <1>1, <2>1 DEF Shape
  <2>2. ASSUME NEW o \in DOMAIN slo, EditTarget(o)
        PROVE  DOMAIN slo' = DOMAIN slo /\ slo' \in [DOMAIN slo -> SLOItem]
    BY <2>2 DEF Shape, EditTarget, SLOItem
  <2>3. ASSUME NEW o \in DOMAIN slo, DeleteSLO(o)
        PROVE  DOMAIN slo' \subseteq DOMAIN slo /\ slo' \in [DOMAIN slo' -> SLOItem]
    BY <2>3 DEF Shape, DeleteSLO
  <2>4. CASE \E q \in Query : Measure(q)
    BY <2>1, <2>4 DEF Measure, storeVars
  <2>5. CASE \E o \in DOMAIN slo : EditTarget(o) \/ DeleteSLO(o)
    BY <1>1, <2>2, <2>3, <2>5 DEF Shape
  <2>6. QED
    BY <2>4, <2>5
<1>5. Rows'
  BY <1>1, <1>3, RowsKept
<1>6. Answered'
  BY <1>1 DEF Answered, Reported, Summarised
<1>7. QED
  BY <1>3, <1>4, <1>5, <1>6

LEMMA BeginStep == OverviewInv /\ Begin => OverviewInv'
<1> SUFFICES ASSUME OverviewInv, Begin  PROVE OverviewInv'
  OBVIOUS
<1> USE DEF OverviewInv
<1>1. /\ phase = "idle" /\ phase' = "evaluating" /\ slos' = slo
      /\ UNCHANGED <<route, sli, slo, sla, telemetry, changes, evalSLIs, evalSLOs,
                     evalSLAs, read, answer>>
      /\ witnessed' = [q \in Query |-> {telemetry[q]}]
  BY DEF Begin, storeVars, evalVars
<1>2. Query' = Query /\ \A q : AnswersTo(q)' = AnswersTo(q)
  BY <1>1, SameQueries
<1>3. Shape'
  BY <1>1 DEF Shape
<1>4. Asked'
  BY <1>1, <1>2 DEF Asked
<1>5. Rows'
  BY <1>1 DEF Rows
<1>6. Answered'
  BY <1>1 DEF Answered, Reported, Summarised
<1>7. QED
  BY <1>3, <1>4, <1>5, <1>6

(* What a step that evaluates or responds leaves alone.                    *)
LEMMA Quiet ==
    ASSUME OverviewInv, phase = "evaluating", phase' \in {"evaluating", "done", "unencoded"},
           UNCHANGED <<route, storeVars, telemetry, changes, slos, witnessed>>
    PROVE  /\ Shape' /\ Asked'
           /\ Query' = Query /\ \A q : Had(q)' = Had(q)
<1>1. UNCHANGED <<route, sli, slo, sla>>
  BY DEF storeVars
<1>2. Query' = Query /\ \A q : AnswersTo(q)' = AnswersTo(q)
  BY <1>1, SameQueries
<1>3. Shape'
  BY <1>1 DEF OverviewInv, Shape
<1>4. Asked'
  BY <1>2 DEF OverviewInv, Asked
<1>5. QED
  BY <1>2, <1>3, <1>4 DEF Had

LEMMA SLIStep ==
    ASSUME OverviewInv, NEW s \in SLI, EvaluateOneSLI(s)
    PROVE  OverviewInv'
<1> USE DEF OverviewInv
<1>1. /\ phase = "evaluating" /\ phase' = phase
      /\ UNCHANGED <<route, storeVars, telemetry, changes, slos, witnessed>>
      /\ UNCHANGED <<evalSLOs, evalSLAs, read, answer, sli, sla>>
      /\ s \in DOMAIN sli
  BY DEF EvaluateOneSLI, DueSLIs, ReadBy, storeVars
<1>2. /\ Shape' /\ Asked' /\ Query' = Query
      /\ \A q : Had(q)' = Had(q)
  BY <1>1, Quiet
<1>3. PICK target \in ResolveSLITarget(s) :
         evalSLIs' = [x \in DOMAIN evalSLIs \cup {s} |->
             IF x = s THEN SLIRow(s, target) ELSE evalSLIs[x]]
  BY DEF EvaluateOneSLI
<1>4. s \in Query
  BY <1>1, Queries
<1>5. ASSUME NEW x \in DOMAIN evalSLIs'  PROVE SLIFounded(x)'
  <2>1. CASE x = s
    <3>1. evalSLIs'[s] = SLIRow(s, target)
      BY <1>3
    <3>2. /\ SLIRow(s, target).value = QueryOptional(s)
          /\ SLIRow(s, target).status = SLIStatus(s, QueryOptional(s), target)
      BY DEF SLIRow
    <3>3. QueryOptional(s) = Nil
             => SLIStatus(s, QueryOptional(s), target) \in {"unavailable", "no_data"}
      BY DEF SLIStatus, CalculateSLIStatus
    <3>4. QueryOptional(s) # Nil => QueryOptional(s) \in Had(s)
      BY <1>1, <1>4, Yield
    <3>5. QED
      BY <1>2, <2>1, <3>1, <3>2, <3>3, <3>4 DEF SLIFounded, Honest
  <2>2. CASE x # s
    BY <1>2, <1>3, <2>2 DEF Rows, SLIFounded, Honest
  <2>3. QED
    BY <2>1, <2>2
<1>6. Rows'
  <2>1. \A o \in DOMAIN evalSLOs : SLOFounded(o)'
    BY <1>1, <1>2 DEF Rows, SLOFounded
  <2>2. \A a \in DOMAIN evalSLAs : SLAFounded(a)'
    BY <1>1, <1>2 DEF Rows, SLAFounded, Honest
  <2>3. \A i \in 1 .. Len(read) : ReadFounded(i)'
    BY <1>1, <1>2 DEF Rows, ReadFounded
  <2>4. QED
    BY <1>1, <1>3, <1>5, <2>1, <2>2, <2>3 DEF Rows
<1>7. Answered'
  BY <1>1 DEF Answered, Reported, Summarised
<1>8. QED
  BY <1>2, <1>6, <1>7

LEMMA SLOStep ==
    ASSUME OverviewInv, NEW o \in SLO, EvaluateOneSLO(o)
    PROVE  OverviewInv'
<1> USE DEF OverviewInv
<1>1. /\ phase = "evaluating" /\ phase' = phase
      /\ UNCHANGED <<route, storeVars, telemetry, changes, slos, witnessed>>
      /\ UNCHANGED <<evalSLIs, evalSLAs, read, answer, sli, sla>>
      /\ o \in DOMAIN slos
      /\ evalSLOs' = [x \in DOMAIN evalSLOs \cup {o} |->
             IF x = o THEN SLORow(o) ELSE evalSLOs[x]]
  BY DEF EvaluateOneSLO, DueSLOs, ReadBy, storeVars
<1>2. /\ Shape' /\ Asked' /\ Query' = Query
      /\ \A q : Had(q)' = Had(q)
  BY <1>1, Quiet
<1>3. ASSUME NEW x \in DOMAIN evalSLOs'  PROVE SLOFounded(x)'
  <2>1. CASE x = o
    <3>1. PICK v : /\ v = IF slos[o].sli \in DOMAIN sli
                          THEN QueryOptional(slos[o].sli) ELSE Nil
                   /\ SLORow(o) = EvaluateSLO(slos[o].target, slos[o].window, v)
      BY DEF SLORow
    <3>2. /\ v \in Readable
          /\ v # Nil => slos[o].sli \in DOMAIN sli /\ v \in Had(slos[o].sli)
      <4>1. CASE slos[o].sli \in DOMAIN sli
        <5>1. slos[o].sli \in Query
          BY <4>1, Queries
        <5>2. QED
          BY <1>1, <3>1, <4>1, <5>1, Yield
      <4>2. CASE slos[o].sli \notin DOMAIN sli
        BY <3>1, <4>2 DEF Readable
      <4>3. QED
        BY <4>1, <4>2
    <3>3. evalSLOs'[o] = EvaluateSLO(slos[o].target, slos[o].window, v)
      BY <1>1, <3>1
    <3>4. QED
      BY <1>1, <1>2, <2>1, <3>2, <3>3 DEF SLOFounded
  <2>2. CASE x # o
    BY <1>1, <1>2, <2>2 DEF Rows, SLOFounded
  <2>3. QED
    BY <2>1, <2>2
<1>4. Rows'
  <2>1. \A s \in DOMAIN evalSLIs : SLIFounded(s)'
    BY <1>1, <1>2 DEF Rows, SLIFounded, Honest
  <2>2. \A a \in DOMAIN evalSLAs : SLAFounded(a)'
    BY <1>1, <1>2 DEF Rows, SLAFounded, Honest
  <2>3. \A i \in 1 .. Len(read) : ReadFounded(i)'
    BY <1>1, <1>2 DEF Rows, ReadFounded
  <2>4. QED
    BY <1>1, <1>3, <2>1, <2>2, <2>3 DEF Rows
<1>5. Answered'
  BY <1>1 DEF Answered, Reported, Summarised
<1>6. QED
  BY <1>2, <1>4, <1>5

LEMMA SLAStep ==
    ASSUME OverviewInv, NEW a \in SLA, EvaluateOneSLA(a)
    PROVE  OverviewInv'
<1> USE DEF OverviewInv
<1>1. /\ phase = "evaluating" /\ phase' = phase
      /\ UNCHANGED <<route, storeVars, telemetry, changes, slos, witnessed>>
      /\ UNCHANGED <<evalSLIs, evalSLOs, read, answer, sli, sla>>
      /\ a \in DOMAIN sla
  BY DEF EvaluateOneSLA, DueSLAs, storeVars
<1>2. /\ Shape' /\ Asked' /\ Query' = Query
      /\ \A q : Had(q)' = Had(q)
  BY <1>1, Quiet
<1>3. PICK t \in SLOTargetFor(a) :
         evalSLAs' = [x \in DOMAIN evalSLAs \cup {a} |->
             IF x = a THEN SLARow(a, t) ELSE evalSLAs[x]]
  BY DEF EvaluateOneSLA
<1>4. a \in Query
  BY <1>1, Queries
<1>5. ASSUME NEW x \in DOMAIN evalSLAs'  PROVE SLAFounded(x)'
  <2>1. CASE x = a
    <3>1. evalSLAs'[a] = SLARow(a, t)
      BY <1>3
    <3>2. /\ SLARow(a, t).current = QueryOptional(a)
          /\ QueryOptional(a) = Nil => SLARow(a, t).status = "unavailable"
      BY DEF SLARow, EvaluateSLA
    <3>3. QueryOptional(a) # Nil => QueryOptional(a) \in Had(a)
      BY <1>1, <1>4, Yield
    <3>4. QED
      BY <1>2, <2>1, <3>1, <3>2, <3>3 DEF SLAFounded, Honest
  <2>2. CASE x # a
    BY <1>2, <1>3, <2>2 DEF Rows, SLAFounded, Honest
  <2>3. QED
    BY <2>1, <2>2
<1>6. Rows'
  <2>1. \A s \in DOMAIN evalSLIs : SLIFounded(s)'
    BY <1>1, <1>2 DEF Rows, SLIFounded, Honest
  <2>2. \A o \in DOMAIN evalSLOs : SLOFounded(o)'
    BY <1>1, <1>2 DEF Rows, SLOFounded
  <2>3. \A i \in 1 .. Len(read) : ReadFounded(i)'
    BY <1>1, <1>2 DEF Rows, ReadFounded
  <2>4. QED
    BY <1>1, <1>3, <1>5, <2>1, <2>2, <2>3 DEF Rows
<1>7. Answered'
  BY <1>1 DEF Answered, Reported, Summarised
<1>8. QED
  BY <1>2, <1>6, <1>7

LEMMA ReadStep == OverviewInv /\ ReadNext => OverviewInv'
<1> SUFFICES ASSUME OverviewInv, ReadNext  PROVE OverviewInv'
  OBVIOUS
<1> USE DEF OverviewInv
<1> DEFINE n == Len(read)
<1>1. /\ phase = "evaluating" /\ phase' = phase /\ route = "report"
      /\ UNCHANGED <<route, storeVars, telemetry, changes, slos, witnessed>>
      /\ UNCHANGED <<evalSLIs, evalSLOs, evalSLAs, answer, sli, sla>>
      /\ read' = Append(read, QueryOptional(ReportQueries[n + 1]))
  BY DEF ReadNext, storeVars
<1>2. /\ Shape' /\ Asked' /\ Query' = Query
      /\ \A q : Had(q)' = Had(q)
  BY <1>1, Quiet
<1>3. n \in 0 .. 3 /\ read \in Seq(Readable)
  BY DEF ReadNext, Rows, ReportQueries
<1>4. ReportQueries[n + 1] \in Query
  <2>1. \A m \in 0 .. 3 : m + 1 \in 1 .. 4
    OBVIOUS
  <2>2. n + 1 \in 1 .. 4
    BY <1>3, <2>1
  <2>3. QED
    BY <1>1, <2>2, Queries
<1>5. /\ QueryOptional(ReportQueries[n + 1]) \in Readable
      /\ QueryOptional(ReportQueries[n + 1]) # Nil
            => QueryOptional(ReportQueries[n + 1]) \in Had(ReportQueries[n + 1])
  BY <1>1, <1>4, Yield
<1>6. /\ read' \in Seq(Readable) /\ Len(read') = n + 1
      /\ \A i \in 1 .. n : read'[i] = read[i]
      /\ read'[n + 1] = QueryOptional(ReportQueries[n + 1])
  BY <1>1, <1>3, <1>5
<1>7. ASSUME NEW i \in 1 .. n + 1  PROVE ReadFounded(i)'
  <2>1. CASE i = n + 1
    BY <1>2, <1>5, <1>6, <2>1 DEF ReadFounded
  <2>2. CASE i # n + 1
    <3>1. i \in 1 .. n
      BY <1>3, <2>2
    <3>2. ReadFounded(i)
      BY <3>1 DEF Rows
    <3>3. QED
      BY <1>2, <1>6, <3>1, <3>2 DEF ReadFounded
  <2>3. QED
    BY <2>1, <2>2
<1>8. Rows'
  <2>1. \A s \in DOMAIN evalSLIs : SLIFounded(s)'
    BY <1>1, <1>2 DEF Rows, SLIFounded, Honest
  <2>2. \A o \in DOMAIN evalSLOs : SLOFounded(o)'
    BY <1>1, <1>2 DEF Rows, SLOFounded
  <2>3. \A a \in DOMAIN evalSLAs : SLAFounded(a)'
    BY <1>1, <1>2 DEF Rows, SLAFounded, Honest
  <2>4. Len(read') \in 0 .. 4
    BY <1>3, <1>6
  <2>5. QED
    BY <1>1, <1>6, <1>7, <2>1, <2>2, <2>3, <2>4 DEF Rows
<1>9. Answered'
  BY <1>1 DEF Answered, Reported, Summarised
<1>10. QED
  BY <1>2, <1>8, <1>9

LEMMA RespondStep ==
    ASSUME OverviewInv, RespondWithList \/ RespondWithOverview \/ RespondWithReport
    PROVE  OverviewInv'
<1> USE DEF OverviewInv
<1>1. /\ phase = "evaluating" /\ phase' \in {"done", "unencoded"}
      /\ UNCHANGED <<route, storeVars, telemetry, changes, slos, witnessed>>
      /\ UNCHANGED <<evalVars, sli, sla>>
  BY DEF RespondWithList, RespondWithOverview, RespondWithReport, storeVars
<1>2. /\ Shape' /\ Asked' /\ Query' = Query
      /\ \A q : Had(q)' = Had(q)
  BY <1>1, Quiet
<1>3. Rows'
  BY <1>1, <1>2, RowsKept
<1>4. UNCHANGED <<evalSLIs, evalSLOs, evalSLAs, read>>
  BY <1>1 DEF evalVars
<1>5. CASE RespondWithOverview
  <2>1. DOMAIN evalSLOs = DOMAIN slos
    BY <1>5 DEF RespondWithOverview, AllEvaluated, DueSLOs, ReadBy, Rows
  <2>2. answer'.score = OverallScore
    BY <1>5 DEF RespondWithOverview
  <2>3. OverallScore' = OverallScore
    BY <1>1, <1>4 DEF OverallScore, Counted
  <2>4. route = "overview"
    BY <1>5 DEF RespondWithOverview
  <2>5. phase' = "done" => RowsEncode'
    BY <1>4, <1>5 DEF RespondWithOverview, RowsEncode
  <2>6. Answered'
    BY <1>1, <1>4, <2>1, <2>2, <2>3, <2>4, <2>5 DEF Answered, Reported, Summarised
  <2>7. QED
    BY <1>2, <1>3, <2>6
<1>6. CASE RespondWithReport
  <2>1. route = "report" /\ Len(read) = 4 /\ answer' = Report
    BY <1>6 DEF RespondWithReport, ReportQueries
  <2>2. Report' = Report
    BY <1>4 DEF Report
  <2>3. phase' = "done" => ReportEncodes'
    BY <1>6, <2>2 DEF RespondWithReport, ReportEncodes
  <2>4. Answered'
    BY <1>1, <1>4, <2>1, <2>2, <2>3 DEF Answered, Reported, Summarised
  <2>5. QED
    BY <1>2, <1>3, <2>4
<1>7. CASE RespondWithList
  <2>1. phase' = "done" => RowsEncode'
    BY <1>4, <1>7 DEF RespondWithList, RowsEncode
  <2>2. Answered'
    BY <1>1, <1>7, <2>1 DEF RespondWithList, Lists, Answered, Reported, Summarised
  <2>3. QED
    BY <1>2, <1>3, <2>2
<1>8. QED
  BY <1>5, <1>6, <1>7

LEMMA InvariantHolds == Spec => []OverviewInv
<1>1. OverviewInv /\ [Next]_vars => OverviewInv'
  <2> SUFFICES ASSUME OverviewInv, [Next]_vars  PROVE OverviewInv'
    OBVIOUS
  <2>1. CASE UNCHANGED vars
    <3>1. UNCHANGED <<route, sli, slo, sla, telemetry, changes, phase, slos,
                      evalSLIs, evalSLOs, evalSLAs, read, answer, witnessed>>
      BY <2>1 DEF vars, storeVars, evalVars
    <3>2. Shape'
      BY <3>1 DEF OverviewInv, Shape
    <3>3. Query' = Query /\ (\A q : AnswersTo(q)' = AnswersTo(q))
          /\ \A q : Had(q)' = Had(q)
      BY <3>1, SameQueries DEF Had
    <3>4. Asked'
      BY <3>1, <3>3 DEF OverviewInv, Asked
    <3>5. Rows'
      BY <3>1, <3>3
         DEF OverviewInv, Rows, SLIFounded, SLOFounded, SLAFounded, ReadFounded, Honest
    <3>6. Answered'
      BY <3>1 DEF OverviewInv, Answered, Reported, Summarised, Report, OverallScore,
                  Counted, RowsEncode, ReportEncodes
    <3>7. QED
      BY <3>2, <3>4, <3>5, <3>6 DEF OverviewInv
  <2>2. CASE Next
    BY <2>2, ChangeStep, BeginStep, SLIStep, SLOStep, SLAStep, ReadStep, RespondStep
       DEF Next
  <2>3. QED
    BY <2>1, <2>2
<1>2. QED
  BY <1>1, InitialInv, PTL DEF Spec

-----------------------------------------------------------------------------
(* What follows from the invariant.                                        *)

(* The readings the report is made of.                                     *)
LEMMA Readings ==
    ASSUME OverviewInv, Reported
    PROVE  /\ answer = Report
           /\ \A m \in {answer.availability, answer.latency, answer.errorRate} :
                 m.value # NaN
           /\ read[1] = Nil \/ read[1] \in Had("total")
           /\ read[2] = Nil \/ read[2] \in Had("success")
           /\ read[3] = Nil \/ read[3] \in Had("error")
           /\ read[4] = Nil \/ read[4] \in Had("latency")
           /\ \A i \in 1 .. 4 : read[i] \in Readable
<1>1. answer = Report /\ Len(read) = 4 /\ read \in Seq(Readable)
  BY DEF OverviewInv, Answered, Rows
<1>2. \A i \in 1 .. 4 : ReadFounded(i)
  BY <1>1 DEF OverviewInv, Rows
<1>3. 1 \in 1 .. 4 /\ 2 \in 1 .. 4 /\ 3 \in 1 .. 4 /\ 4 \in 1 .. 4
  OBVIOUS
<1>4. ReadFounded(1) /\ ReadFounded(2) /\ ReadFounded(3) /\ ReadFounded(4)
  BY <1>2, <1>3
<1>5. \A i \in 1 .. 4 : read[i] \in Readable
  <2>1. \A i \in 1 .. Len(read) : read[i] \in Readable
    BY <1>1, ElementOfSeq
  <2>2. QED
    BY <1>1, <2>1
<1>6. ASSUME NEW m \in {answer.availability, answer.latency, answer.errorRate}
      PROVE  m.value # NaN
  <2>1. ReportEncodes
    BY DEF OverviewInv, Answered
  <2>2. m \in {Report.availability, Report.latency, Report.errorRate}
    BY <1>1
  <2>3. m.value \notin Unencodable
    BY <2>1, <2>2 DEF ReportEncodes
  <2>4. QED
    BY <2>3 DEF Unencodable
<1>7. QED
  BY <1>1, <1>4, <1>5, <1>6 DEF ReadFounded, ReportQueries

(* The report's availability is a percentage of two readings, or none.     *)
LEMMA ReportedAvailability ==
    ASSUME OverviewInv, Reported
    PROVE  LET v == answer.availability.value IN
           /\ v \in Readable
           /\ v # NaN
           /\ v # Nil => v \in Availabilities
           /\ v = Nil => answer.availability.status = "unavailable"
           /\ answer.slo = EvaluateSLO(99900, "30d", v)
           /\ answer.sla = EvaluateSLA(Nil, v, 99900)
<1> DEFINE total == read[1]  success == read[2]
           v == IF success = Nil \/ total = Nil \/ NoRequests(total) THEN Nil
                ELSE IF success = NaN \/ total = NaN THEN NaN
                ELSE IF success > total THEN Hundred ELSE Ratio(success, total)
<1>1. /\ answer = Report
      /\ total = Nil \/ total \in Had("total")
      /\ success = Nil \/ success \in Had("success")
      /\ total \in Readable /\ success \in Readable
  <2>1. 1 \in 1 .. 4 /\ 2 \in 1 .. 4
    OBVIOUS
  <2>2. QED
    BY <2>1, Readings
<1>2. answer.availability = Measured(v, 99900, "availability")
  BY <1>1 DEF Report, CalculateAvailabilitySLI
<1>3. /\ answer.slo = EvaluateSLO(99900, "30d", answer.availability.value)
      /\ answer.sla = EvaluateSLA(Nil, answer.availability.value, 99900)
  BY <1>1 DEF Report
<1>4. /\ answer.availability.value = v
      /\ v = Nil => answer.availability.status = "unavailable"
  BY <1>2 DEF Measured, CalculateSLIStatus
<1> HIDE DEF total, success
<1>5. v \in Readable /\ (v \notin {Nil, NaN} => v \in Availabilities)
  <2>1. CASE success = Nil \/ total = Nil \/ NoRequests(total)
    BY <2>1 DEF Readable
  <2>2. CASE /\ ~(success = Nil \/ total = Nil \/ NoRequests(total))
             /\ success = NaN \/ total = NaN
    <3>1. v = NaN
      BY <2>2
    <3>2. QED
      BY <3>1 DEF Readable
  <2>3. CASE ~(success \in {Nil, NaN} \/ total \in {Nil, NaN} \/ NoRequests(total))
    <3>1. total \in Nat \ {0} /\ success \in Nat
      BY <1>1, <2>3 DEF Readable, NoRequests
    <3>2. total \in HadNumbers("total") \ {0} /\ success \in HadNumbers("success")
      BY <1>1, <2>3, <3>1 DEF HadNumbers
    <3>3. Ratio(success, total) \in Nat
      <4>1. success * Hundred \in Nat
        BY <3>1 DEF Hundred
      <4>2. QED
        BY <3>1, <4>1, Rounding DEF Ratio
    <3>4. v = IF success > total THEN Hundred ELSE Ratio(success, total)
      BY <2>3
    <3>5. v \in Availabilities
      <4>1. \A g \in HadNumbers("success"), t \in HadNumbers("total") \ {0} :
               (IF g > t THEN Hundred ELSE Ratio(g, t)) \in Availabilities
        BY SMT DEF Availabilities
      <4>2. QED
        BY <3>2, <3>4, <4>1, Zenon
    <3>6. v \in Nat
      BY <3>3, <3>4 DEF Hundred
    <3>7. QED
      BY <3>5, <3>6 DEF Readable
  <2>4. QED
    BY <2>1, <2>2, <2>3
<1>6. answer.availability.value # NaN
  BY Readings
<1>7. QED
  BY <1>3, <1>4, <1>5, <1>6

(* Every verdict, in every route, rests on a value that Prometheus had for *)
(* it during the request, and none is invented where there was no value.   *)
THEOREM VerdictsAreTruthful == Spec => []Truthful
<1>1. OverviewInv => Truthful
  <2> SUFFICES ASSUME OverviewInv  PROVE Truthful
    OBVIOUS
  <2>1. \A s \in DOMAIN evalSLIs :
           Honest(evalSLIs[s], evalSLIs[s].value, {"unavailable", "no_data"}, Had(s))
    BY DEF OverviewInv, Rows, SLIFounded
  <2>2. ASSUME NEW o \in DOMAIN evalSLOs
        PROVE  LET e == evalSLOs[o] IN
               IF e.current = Nil
               THEN e.status = "unavailable" /\ e.errorBudgetRemaining = 0
               ELSE e.current \in Had(slos[o].sli)
    <3>1. PICK v \in Readable :
             /\ evalSLOs[o] = EvaluateSLO(slos[o].target, slos[o].window, v)
             /\ v # Nil => v \in Had(slos[o].sli)
      BY DEF OverviewInv, Rows, SLOFounded
    <3>2. QED
      BY <3>1, StatusOfSLO
  <2>3. \A a \in DOMAIN evalSLAs :
           Honest(evalSLAs[a], evalSLAs[a].current, {"unavailable"}, Had(a))
    BY DEF OverviewInv, Rows, SLAFounded
  <2>4. ASSUME Reported  PROVE TruthfulReport
    <3> DEFINE v == answer.availability.value  without == {"unavailable"}
    <3>1. /\ v # Nil => v \in Availabilities
          /\ v = Nil => answer.availability.status = "unavailable"
          /\ answer.slo = EvaluateSLO(99900, "30d", v)
          /\ answer.sla = EvaluateSLA(Nil, v, 99900)
      BY <2>4, ReportedAvailability
    <3> HIDE DEF v
    <3>2. Honest(answer.availability, v, without, Availabilities)
      BY <3>1 DEF Honest
    <3>3. Honest(answer.slo, answer.slo.current, without, Availabilities)
      BY <3>1, StatusOfSLO DEF Honest
    <3>4. Honest(answer.sla, answer.sla.current, without, Availabilities)
      BY <3>1 DEF Honest, EvaluateSLA
    <3>5. /\ answer = Report
          /\ read[1] = Nil \/ read[1] \in Had("total")
          /\ read[3] = Nil \/ read[3] \in Had("error")
          /\ read[4] = Nil \/ read[4] \in Had("latency")
          /\ answer.errorRate.value # NaN
      BY <2>4, Readings
    <3>6. Honest(answer.errorRate, answer.errorRate.value, without, ErrorRates)
      <4> DEFINE bad == read[3]  total == read[1]
                 w == IF bad = Nil \/ total = Nil \/ NoRequests(total) THEN Nil
                      ELSE IF bad = NaN \/ total = NaN THEN NaN ELSE Ratio(bad, total)
      <4>1. answer.errorRate = Measured(w, 100, "error_rate")
        BY <3>5 DEF Report, CalculateErrorRateSLI
      <4>2. /\ answer.errorRate.value = w
            /\ w = Nil => answer.errorRate.status = "unavailable"
        BY <4>1 DEF Measured, CalculateSLIStatus
      <4>3. w # NaN
        BY <3>5, <4>2
      <4> HIDE DEF bad, total
      <4>4. ASSUME w # Nil  PROVE w \in ErrorRates
        <5>1. \A b \in HadNumbers("error"), t \in HadNumbers("total") \ {0} :
                 Ratio(b, t) \in ErrorRates
          BY SMT DEF ErrorRates
        <5>2. /\ w = Ratio(bad, total)
              /\ bad \notin {Nil, NaN} /\ total \notin {Nil, NaN}
              /\ ~NoRequests(total)
          BY <4>3, <4>4
        <5>3. total # 0
          BY <5>2, NilAssumption DEF NoRequests
        <5>4. bad \in HadNumbers("error") /\ total \in HadNumbers("total")
          BY <3>5, <5>2 DEF HadNumbers, bad, total
        <5>5. QED
          BY <5>1, <5>2, <5>3, <5>4
      <4>5. QED
        BY <4>2, <4>4 DEF Honest
    <3>7. Honest(answer.latency, answer.latency.value, without, Had("latency") \ {0})
      <4> DEFINE value == read[4]
                 w == IF value = Nil \/ (value # NaN /\ value <= 0) THEN Nil ELSE value
      <4>1. answer.latency = Measured(w, 300000, "latency")
        BY <3>5 DEF Report, CalculateLatencySLI
      <4>2. /\ answer.latency.value = w
            /\ w = Nil => answer.latency.status = "unavailable"
        BY <4>1 DEF Measured, CalculateSLIStatus
      <4>3. w # Nil => w \in Had("latency") \ {0}
        BY <3>5, NilAssumption
      <4>4. QED
        BY <4>2, <4>3 DEF Honest
    <3>8. QED
      BY <3>2, <3>3, <3>4, <3>6, <3>7 DEF TruthfulReport, v
  <2>5. QED
    BY <2>1, <2>2, <2>3, <2>4 DEF Truthful
<1>2. QED
  BY <1>1, InvariantHolds, PTL

(* A verdict with a budget is EvaluateSLO's, of a target below 100 % and a *)
(* value that is a number.                                                 *)
LEMMA BudgetedVerdict ==
    ASSUME OverviewInv, NEW v \in Budgeted
    PROVE  /\ v.target \in Nat /\ v.target < Hundred
           /\ \E window : \E current \in Nat :
                 v.slo = EvaluateSLO(v.target, window, current)
<1>1. v \in Verdicts /\ v.target < Hundred /\ v.slo.status # "unavailable"
  BY DEF Budgeted
<1>2. ASSUME phase = "done", route # "report", NEW o \in DOMAIN evalSLOs,
             v = [target |-> slos[o].target, slo |-> evalSLOs[o]]
      PROVE  /\ v.target \in Nat
             /\ \E window : \E current \in Nat :
                   v.slo = EvaluateSLO(v.target, window, current)
  <2>1. PICK c \in Readable :
           evalSLOs[o] = EvaluateSLO(slos[o].target, slos[o].window, c)
    BY DEF OverviewInv, Rows, SLOFounded
  <2>2. o \in DOMAIN slos /\ slos \in [DOMAIN slos -> SLOItem]
    BY DEF OverviewInv, Rows, Shape
  <2>3. slos[o] \in SLOItem
    BY <2>2
  <2>4. slos[o].target \in Nat
    BY <2>3, OverviewAssumption DEF SLOItem
  <2>5. v.target = slos[o].target /\ v.slo = evalSLOs[o]
    BY <1>2
  <2>6. c # Nil /\ evalSLOs[o].current = c
    BY <1>1, <2>1, <2>5, StatusOfSLO
  <2>7. c # NaN
    <3>1. evalSLOs[o].current \notin Unencodable
      BY <1>2 DEF OverviewInv, Answered, RowsEncode
    <3>2. QED
      BY <2>6, <3>1 DEF Unencodable
  <2>8. c \in Nat
    BY <2>6, <2>7 DEF Readable
  <2>9. QED
    BY <2>1, <2>4, <2>5, <2>8
<1>3. ASSUME Reported, v = [target |-> 99900, slo |-> answer.slo]
      PROVE  /\ v.target \in Nat
             /\ \E window : \E current \in Nat :
                   v.slo = EvaluateSLO(v.target, window, current)
  <2>1. PICK c \in Readable :
           answer.slo = EvaluateSLO(99900, "30d", c) /\ c # NaN
    BY <1>3, ReportedAvailability
  <2>2. v.target = 99900 /\ v.slo = answer.slo
    BY <1>3
  <2>3. c # Nil
    BY <1>1, <2>1, <2>2, StatusOfSLO
  <2>4. c \in Nat
    BY <2>1, <2>3 DEF Readable
  <2>5. QED
    BY <2>1, <2>2, <2>4
<1>4. /\ phase = "done"
      /\ \/ /\ route # "report"
            /\ \E o \in DOMAIN evalSLOs :
                  v = [target |-> slos[o].target, slo |-> evalSLOs[o]]
         \/ Reported /\ v = [target |-> 99900, slo |-> answer.slo]
  BY <1>1 DEF Verdicts, Reported
<1>5. QED
  BY <1>1, <1>2, <1>3, <1>4

(* In every answer a missed target leaves no budget, and a healthy budget  *)
(* a margin: for any targets below 100 % and any readings.  A reading that *)
(* is NaN gets an SLO that breaks this, in no answer that can be encoded.  *)
THEOREM BudgetsMeanTargets == Spec => []BudgetMeansTarget
<1>1. OverviewInv => BudgetMeansTarget
  <2> SUFFICES ASSUME OverviewInv, NEW v \in Budgeted
               PROVE  /\ v.slo.current < v.target => v.slo.status = "exhausted"
                      /\ v.slo.status = "healthy" => v.slo.current > v.target
    BY DEF BudgetMeansTarget
  <2>1. v.target \in Nat /\ v.target < Hundred
    BY BudgetedVerdict
  <2>2. PICK window : \E current \in Nat :
           v.slo = EvaluateSLO(v.target, window, current)
    BY BudgetedVerdict
  <2>3. PICK current \in Nat : v.slo = EvaluateSLO(v.target, window, current)
    BY <2>2
  <2>4. QED
    BY <2>1, <2>3, NumberedSLO
<1>2. QED
  BY <1>1, InvariantHolds, PTL

(* In every answer the burn rate warns before and when the budget is used  *)
(* up, whatever the readings and the roundings of the two.                 *)
THEOREM BurnRatesWarn == Spec => []BurnWarns
<1>1. OverviewInv => BurnWarns
  <2> SUFFICES ASSUME OverviewInv, NEW v \in Budgeted
               PROVE  /\ v.slo.status = "at_risk" => v.slo.window1h >= 80
                      /\ v.slo.status = "exhausted" => v.slo.window1h >= 100
    BY DEF BurnWarns
  <2>1. v.target \in Nat /\ v.target < Hundred
    BY BudgetedVerdict
  <2>2. PICK window : \E current \in Nat :
           v.slo = EvaluateSLO(v.target, window, current)
    BY BudgetedVerdict
  <2>3. PICK current \in Nat : v.slo = EvaluateSLO(v.target, window, current)
    BY <2>2
  <2>4. QED
    BY <2>1, <2>3, NumberedSLO
<1>2. QED
  BY <1>1, InvariantHolds, PTL

(* The score and its count, of the SLOs of the request.                    *)
LEMMA Score ==
    ASSUME OverviewInv, DOMAIN evalSLOs = DOMAIN slos
    PROVE  /\ OverallScore \in 0 .. 100
           /\ DOMAIN slos # {} /\ OverallScore = 100
                => \A o \in DOMAIN slos : evalSLOs[o].status = "healthy"
<1> DEFINE S == DOMAIN slos
           H == {o \in DOMAIN evalSLOs : evalSLOs[o].status = "healthy"}
<1>1. IsFiniteSet(S)
  <2>1. S \subseteq SLO
    BY DEF OverviewInv, Shape
  <2>2. QED
    BY <2>1, OverviewAssumption, FS_Subset
<1>2. H \subseteq S
  OBVIOUS
<1>3. /\ IsFiniteSet(H) /\ Cardinality(H) <= Cardinality(S)
      /\ Cardinality(H) = Cardinality(S) => H = S
  BY <1>1, <1>2, FS_Subset
<1>4. Cardinality(H) \in Nat /\ Cardinality(S) \in Nat
  BY <1>1, <1>3, FS_CardinalityType
<1>5. S # {} => Cardinality(S) # 0
  BY <1>1, FS_EmptySet
<1>6. CASE S = {}
  BY <1>6 DEF OverallScore
<1>7. CASE S # {}
  <2>1. OverallScore = (Cardinality(H) * 100) \div Cardinality(S)
    BY <1>7 DEF OverallScore, Counted
  <2>2. /\ OverallScore \in 0 .. 100
        /\ OverallScore = 100 => Cardinality(H) = Cardinality(S)
    BY <1>3, <1>4, <1>5, <1>7, <2>1, Percentage
  <2>3. QED
    BY <1>3, <2>2
<1>8. QED
  BY <1>6, <1>7

(* A score of 100 is one of healthy SLOs only, for any number of SLOs: the *)
(* division does not round a loss away.                                    *)
THEOREM PerfectScoresAreEarned == Spec => []PerfectScore
<1>1. OverviewInv => PerfectScore
  <2> SUFFICES ASSUME OverviewInv, Summarised, DOMAIN slos # {}, answer.score = 100,
                      NEW o \in DOMAIN slos
               PROVE  evalSLOs[o].status = "healthy" /\ evalSLOs[o].current \in Nat
    BY DEF PerfectScore
  <2>1. DOMAIN evalSLOs = DOMAIN slos /\ OverallScore = 100
    BY DEF OverviewInv, Answered
  <2>2. evalSLOs[o].status = "healthy"
    BY <2>1, Score
  <2>3. PICK v \in Readable :
           evalSLOs[o] = EvaluateSLO(slos[o].target, slos[o].window, v)
    BY <2>1 DEF OverviewInv, Rows, SLOFounded
  <2>4. evalSLOs[o].current = v /\ v # Nil
    BY <2>2, <2>3, StatusOfSLO
  <2>5. evalSLOs[o].current \notin Unencodable
    BY <2>1 DEF OverviewInv, Answered, Summarised, RowsEncode
  <2>6. QED
    BY <2>2, <2>4, <2>5 DEF Readable, Unencodable
<1>2. QED
  BY <1>1, InvariantHolds, PTL

(* Everything has its type, and what is left of a budget is a share of it. *)
THEOREM TypeCorrect == Spec => []TypeOK
<1>1. OverviewInv => TypeOK
  <2> SUFFICES ASSUME OverviewInv  PROVE TypeOK
    OBVIOUS
  <2>1. ASSUME NEW o \in DOMAIN evalSLOs
        PROVE  \/ evalSLOs[o].errorBudgetRemaining \in Share
               \/ evalSLOs[o].errorBudgetRemaining = NaN /\ phase # "done"
    <3>1. PICK v \in Readable :
             evalSLOs[o] = EvaluateSLO(slos[o].target, slos[o].window, v)
      BY DEF OverviewInv, Rows, SLOFounded
    <3>2. o \in DOMAIN slos /\ slos \in [DOMAIN slos -> SLOItem]
      BY DEF OverviewInv, Rows, Shape
    <3>3. slos[o] \in SLOItem
      BY <3>2
    <3>4. slos[o].target \in Nat
      BY <3>3, OverviewAssumption DEF SLOItem
    <3>5. \/ evalSLOs[o].errorBudgetRemaining \in Share
          \/ evalSLOs[o].errorBudgetRemaining = NaN /\ v = NaN
      BY <3>1, <3>4, ShareOfBudget DEF Readable
    <3>6. ASSUME v = NaN  PROVE phase # "done"
      <4>1. evalSLOs[o].current \in Unencodable
        BY <3>1, <3>6, StatusOfSLO DEF Unencodable
      <4>2. route # "report" /\ ~RowsEncode
        BY <3>2, <4>1 DEF OverviewInv, Shape, RowsEncode
      <4>3. QED
        BY <4>2 DEF OverviewInv, Answered
    <3>7. QED
      BY <3>5, <3>6
  <2>2. Summarised => answer.score \in 0 .. 100
    BY Score DEF OverviewInv, Answered
  <2>3. ASSUME Reported  PROVE answer.slo.errorBudgetRemaining \in Share
    <3>1. PICK v \in Readable : answer.slo = EvaluateSLO(99900, "30d", v) /\ v # NaN
      BY <2>3, ReportedAvailability
    <3>2. QED
      BY <3>1, ShareOfBudget DEF Readable
  <2>4. QED
    BY <2>1, <2>2, <2>3 DEF OverviewInv, Shape, Asked, Rows, TypeOK
<1>2. QED
  BY <1>1, InvariantHolds, PTL

-----------------------------------------------------------------------------
(* While nothing changes.                                                  *)

(* Until the first change the rows are what would be evaluated now.        *)
Steady ==
    changes = 0 =>
        /\ phase # "idle" => slo = slos
        /\ \A s \in DOMAIN evalSLIs :
              \E target \in ResolveSLITarget(s) : evalSLIs[s] = SLIRow(s, target)
        /\ \A o \in DOMAIN evalSLOs : evalSLOs[o] = SLORow(o)

(* What the rows are made of.                                              *)
LEMMA SameRows ==
    ASSUME UNCHANGED <<sli, slo, telemetry, slos>>
    PROVE  /\ \A s : ResolveSLITarget(s)' = ResolveSLITarget(s)
           /\ \A s, target : SLIRow(s, target)' = SLIRow(s, target)
           /\ \A o : SLORow(o)' = SLORow(o)
<1>1. \A q : QueryOptional(q)' = QueryOptional(q)
  BY DEF QueryOptional
<1>2. \A s : ResolveSLITarget(s)' = ResolveSLITarget(s)
  BY DEF ResolveSLITarget
<1>3. \A s, target : SLIRow(s, target)' = SLIRow(s, target)
  BY <1>1 DEF SLIRow, SLIStatus
<1>4. \A o : SLORow(o)' = SLORow(o)
  BY <1>1 DEF SLORow
<1>5. QED
  BY <1>2, <1>3, <1>4

LEMMA SteadyHolds == Spec => []Steady
<1>1. Init => Steady
  BY DEF Init, Steady, Nothing
<1>2. OverviewInv /\ Steady /\ [Next]_vars => Steady'
  <2> SUFFICES ASSUME OverviewInv, Steady, [Next]_vars  PROVE Steady'
    OBVIOUS
  <2>1. ASSUME Change  PROVE Steady'
    BY <2>1 DEF OverviewInv, Shape, Change, Steady
  <2>2. CASE Begin
    BY <2>2 DEF OverviewInv, Rows, Begin, evalVars, storeVars, Steady
  <2>3. ASSUME NEW s \in SLI, EvaluateOneSLI(s)  PROVE Steady'
    <3>1. /\ UNCHANGED <<sli, slo, telemetry, slos, changes, phase, evalSLOs>>
          /\ phase # "idle"
          /\ \E target \in ResolveSLITarget(s) :
                evalSLIs' = [x \in DOMAIN evalSLIs \cup {s} |->
                    IF x = s THEN SLIRow(s, target) ELSE evalSLIs[x]]
      BY <2>3 DEF EvaluateOneSLI, storeVars
    <3>2. QED
      BY <3>1, SameRows DEF Steady
  <2>4. ASSUME NEW o \in SLO, EvaluateOneSLO(o)  PROVE Steady'
    <3>1. /\ UNCHANGED <<sli, slo, telemetry, slos, changes, phase, evalSLIs>>
          /\ phase # "idle"
          /\ evalSLOs' = [x \in DOMAIN evalSLOs \cup {o} |->
                 IF x = o THEN SLORow(o) ELSE evalSLOs[x]]
      BY <2>4 DEF EvaluateOneSLO, storeVars
    <3>2. QED
      BY <3>1, SameRows DEF Steady
  <2>5. ASSUME UNCHANGED <<sli, slo, telemetry, slos, changes, evalSLIs, evalSLOs>>,
               phase # "idle" \/ UNCHANGED phase
        PROVE  Steady'
    BY <2>5, SameRows DEF Steady
  <2>6. CASE \E a \in SLA : EvaluateOneSLA(a)
    BY <2>5, <2>6 DEF EvaluateOneSLA, storeVars
  <2>7. CASE ReadNext
    BY <2>5, <2>7 DEF ReadNext, storeVars
  <2>8. CASE RespondWithList \/ RespondWithOverview \/ RespondWithReport
    BY <2>5, <2>8
       DEF RespondWithList, RespondWithOverview, RespondWithReport, storeVars, evalVars
  <2>9. CASE UNCHANGED vars
    BY <2>5, <2>9 DEF vars, storeVars, evalVars
  <2>10. CASE \/ \E q \in Query : Measure(q)
              \/ \E o \in DOMAIN slo : EditTarget(o) \/ DeleteSLO(o)
    BY <2>1, <2>10 DEF Measure, EditTarget, DeleteSLO
  <2>11. QED
    BY <2>2, <2>3, <2>4, <2>6, <2>7, <2>8, <2>9, <2>10 DEF Next
<1>3. QED
  BY <1>1, <1>2, InvariantHolds, PTL DEF Spec

(* An availability SLI and an SLO of one target and one reading agree.     *)
LEMMA Agreement ==
    ASSUME NEW target \in Nat, target < Hundred, NEW window,
           NEW current \in Nat \cup {Nil}
    PROVE  Agree(CalculateSLIStatus(current, target, "availability"),
                 EvaluateSLO(target, window, current).status)
<1>1. CASE current = Nil
  BY <1>1 DEF Agree, CalculateSLIStatus, EvaluateSLO, UnavailableSLO
<1>2. CASE current # Nil
  <2>1. current \in Nat /\ current # NaN /\ target # Nil
    BY <1>2, NilAssumption
  <2>2. /\ current < target => EvaluateSLO(target, window, current).status = "exhausted"
    BY <1>2, <2>1, NumberedSLO
  <2>3. /\ current >= target
              => CalculateSLIStatus(current, target, "availability") = "healthy"
    BY <1>2, <2>1 DEF CalculateSLIStatus, MissesAtMost, Miss, LowerIsBetter
  <2>4. QED
    BY <2>1, <2>2, <2>3 DEF Agree
<1>3. QED
  BY <1>1, <1>2

(* In every answer made while nothing changed, and in every report, an SLI *)
(* and the SLO on it (and the SLA of the report) do not contradict each    *)
(* other, for any target and reading.  Those of a reading that is NaN do,  *)
(* and are in no answer that can be encoded.                               *)
THEOREM VerdictsAgree == Spec => []SteadyVerdicts
<1>1. OverviewInv /\ Steady => SteadyVerdicts
  <2> SUFFICES ASSUME OverviewInv, Steady  PROVE SteadyVerdicts
    OBVIOUS
  <2>1. ASSUME NEW o \in DOMAIN evalSLOs,
               NEW s \in {slos[o].sli} \cap DOMAIN evalSLIs,
               phase = "done", changes = 0, slos[o].target < Hundred,
               sli[s].type = "availability", sli[s].target = 0,
               {x \in DOMAIN slos : slos[x].sli = s} = {o}
        PROVE  Agree(evalSLIs[s].status, evalSLOs[o].status)
    <3>1. s = slos[o].sli /\ s \in DOMAIN sli /\ o \in DOMAIN slos
      BY DEF OverviewInv, Rows
    <3>2. slo = slos
      BY <2>1 DEF OverviewInv, Rows, Steady
    <3>3. ResolveSLITarget(s) = {slos[o].target}
      BY <2>1, <3>1, <3>2 DEF ResolveSLITarget
    <3>4. evalSLIs[s] = SLIRow(s, slos[o].target)
      BY <2>1, <3>3 DEF Steady
    <3>5. evalSLOs[o] = SLORow(o)
      BY <2>1 DEF Steady
    <3>6. slos[o].target \in Nat
      <4>1. slos[o] \in SLOItem
        BY <3>1 DEF OverviewInv, Shape
      <4>2. QED
        BY <4>1, OverviewAssumption DEF SLOItem
    <3>7. QueryOptional(s) \in Nat \cup {Nil}
      <4>1. s \in Query /\ telemetry[s] \in AnswersTo(s)
        BY <3>1, Queries DEF OverviewInv, Asked
      <4>2. QueryOptional(s) \in Readable
        BY <4>1, OverviewAssumption
           DEF QueryOptional, Readable, AnswersTo, Answer, RateAnswer, LatencyAnswer
      <4>3. route # "report"
        BY <3>1 DEF OverviewInv, Shape
      <4>4. evalSLIs[s].value \notin Unencodable
        BY <2>1, <4>3 DEF OverviewInv, Answered, RowsEncode
      <4>5. QueryOptional(s) # NaN
        BY <3>4, <4>4 DEF SLIRow, Unencodable
      <4>6. QED
        BY <4>2, <4>5 DEF Readable
    <3>8. evalSLOs[o] = EvaluateSLO(slos[o].target, slos[o].window, QueryOptional(s))
      BY <3>1, <3>5 DEF SLORow
    <3>9. Agree(CalculateSLIStatus(QueryOptional(s), slos[o].target, "availability"),
                evalSLOs[o].status)
      BY <2>1, <3>6, <3>7, <3>8, Agreement
    <3>10. CASE telemetry[s] # NoData
      BY <2>1, <3>4, <3>9, <3>10 DEF SLIRow, SLIStatus
    <3>11. CASE telemetry[s] = NoData
      <4>1. QueryOptional(s) = Nil /\ evalSLIs[s].status = "no_data"
        BY <3>4, <3>11 DEF SLIRow, SLIStatus, QueryOptional, Fails
      <4>2. evalSLOs[o].status = "unavailable"
        BY <3>8, <4>1, StatusOfSLO
      <4>3. QED
        BY <4>1, <4>2 DEF Agree
    <3>12. QED
      BY <3>10, <3>11
  <2>2. ASSUME Reported
        PROVE  /\ Agree(answer.availability.status, answer.slo.status)
               /\ answer.sla.status = "breached"
                     <=> answer.availability.status \in {"warning", "critical"}
    <3> DEFINE v == answer.availability.value
    <3>1. /\ v \in Nat \cup {Nil}
          /\ answer.availability = Measured(v, 99900, "availability")
          /\ answer.slo = EvaluateSLO(99900, "30d", v)
          /\ answer.sla = EvaluateSLA(Nil, v, 99900)
      <4>1. /\ v \in Readable \ {NaN}
            /\ answer.slo = EvaluateSLO(99900, "30d", v)
            /\ answer.sla = EvaluateSLA(Nil, v, 99900)
        BY <2>2, ReportedAvailability
      <4>2. answer = Report
        BY <2>2, Readings
      <4>3. answer.availability = Measured(v, 99900, "availability")
        <5>1. PICK w : answer.availability = Measured(w, 99900, "availability")
          BY <4>2 DEF Report, CalculateAvailabilitySLI
        <5>2. v = w
          BY <5>1 DEF Measured
        <5>3. QED
          BY <5>1, <5>2
      <4> HIDE DEF v
      <4>4. QED
        BY <4>1, <4>3 DEF Readable
    <3> HIDE DEF v
    <3>2. answer.availability.status = CalculateSLIStatus(v, 99900, "availability")
      BY <3>1 DEF Measured
    <3>3. Agree(answer.availability.status, answer.slo.status)
      <4>1. 99900 \in Nat /\ 99900 < Hundred
        BY DEF Hundred
      <4>2. QED
        BY <3>1, <3>2, <4>1, Agreement
    <3>4. answer.sla.status = "breached"
             <=> answer.availability.status \in {"warning", "critical"}
      <4>1. CASE v = Nil
        BY <3>1, <3>2, <4>1 DEF CalculateSLIStatus, EvaluateSLA
      <4>2. CASE v # Nil
        <5>1. v \in Nat /\ v # NaN /\ 99900 # Nil
          BY <3>1, <4>2, NilAssumption
        <5>2. answer.sla.status = "breached" <=> v < 99900
          BY <3>1, <4>2, <5>1 DEF EvaluateSLA
        <5>3. answer.availability.status \in {"warning", "critical"} <=> v < 99900
          BY <3>2, <4>2, <5>1
             DEF CalculateSLIStatus, MissesAtMost, Miss, LowerIsBetter, HigherIsBetter
        <5>4. QED
          BY <5>2, <5>3
      <4>3. QED
        BY <4>1, <4>2
    <3>5. QED
      BY <3>3, <3>4
  <2>3. QED
    BY <2>1, <2>2 DEF SteadyVerdicts
<1>2. QED
  BY <1>1, InvariantHolds, SteadyHolds, PTL
=============================================================================
