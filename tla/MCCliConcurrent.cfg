\* Every command may be given once: the run ends when all have been.
CONSTANTS
    p1 = p1
    hung = hung
    late = late
    NoPID = NoPID
    Proc = {p1, hung, late}
    Slow = {late}
    Hung = {hung}
SPECIFICATION Spec
CHECK_DEADLOCK FALSE
PROPERTY StopTellsTruth
