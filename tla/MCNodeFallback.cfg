SPECIFICATION Spec
CONSTANTS
    Requests = {r1, r2}
    Questions = {q1}
    UnknownQuestion = qx
    Contents = {blank, c1}
    Blank = blank
    Keys = {k1, k2}
    EmptyKey = none
    Malformed = malformed
    FinalPayloads = {p1, p2}
    MaxSessions = 1
    MaxMutations = 4
SYMMETRY Symmetry
INVARIANTS
    TypeOK
    VersionsAreSerial
    OneFirstResponse
    ResultFollowsFinalize
    RetryIsNeverStale
PROPERTIES
    CompletedIsLeftByFinalize
