\* Readings just above, at and below the targets; 100 % leaves no budget.
\* The rates give availabilities of 100 % (and above, before the cut), 99.9 %,
\* less and none.  One change of telemetry or of an SLO falls anywhere into the request.
CONSTANTS
    s1 = s1
    o1 = o1
    o2 = o2
    a1 = a1
    Nil = Nil
    NaN = NaN
    Infinity = 1000000000
    Missing = Missing
    NoData = NoData
    Unreachable = Unreachable
    SLI = {s1}
    SLO = {o1, o2}
    SLA = {a1}
    Type = {"availability", "latency"}
    Window = {"30d"}
    Target = {99900, 100000}
    Reading = {98000, 99900, 99910, 99990, NaN, 1000000000}
    Rate = {0, 1, 999, 1000, NaN}
    Latency = {0, 300000, 350001, NaN, 1000000000}
    MaxChanges = 1
SPECIFICATION Spec
SYMMETRY Symmetry
CHECK_DEADLOCK FALSE
INVARIANTS TypeOK Truthful BudgetMeansTarget BurnWarns SteadyVerdicts PerfectScore
