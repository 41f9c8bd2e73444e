SPECIFICATION Spec
CONSTANTS
    Calls = {c1, c2}
    MaxMoves = 2
    MaxTime = 2
    MaxJumps = 1
INVARIANTS
    RetryOfFinalizeSucceeds
CHECK_DEADLOCK FALSE
