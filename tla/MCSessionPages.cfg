SPECIFICATION FairSpec
CONSTANTS
    Calls = {c1, c2}
    MaxMoves = 2
    MaxTime = 2
    MaxJumps = 1
INVARIANTS
    TypeOK
    PagesFinalizeOnce
    PageIsNeverAhead
PROPERTIES
    LaunchIsLeft
CHECK_DEADLOCK FALSE
