SPECIFICATION Spec
CONSTANTS
    Requests = {r1, r2}
    Questions = {q1}
    UnknownQuestion = qx
    Contents = {blank, c1}
    Blank = blank
    Keys = {k1, k2}
    EmptyKey = none
    Malformed = malformed
    FinalPayloads = {p1}
    QueueCapacity = 1
    MaxSessions = 1
    MaxMutations = 3
SYMMETRY Symmetry
INVARIANTS
    FinalActionsSucceedOnce
