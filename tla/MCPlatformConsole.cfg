SPECIFICATION FairSpec
CONSTANTS
    Absent = absent
    NaN = nan
    NoFilter = empty
    Words <- MCWords
    Enums <- MCEnums
    DefaultPageSize = 1
    MaxPageSize = 2
    Calls = {1, 2}
    Items <- MCItems
    MockStatus <- MCMockStatus
    Typed <- MCTyped
    Filters <- MCFilters
    CanAckAlert = TRUE
    TTL = 2
    MaxMoves = 2
INVARIANTS
    TypeOK
    AckIsForgottenOnlyByLateLoad
    LabelIsTrueUnlessCached
    PageIsTheLocationUnlessSuperseded
    PagerListsEveryRow
PROPERTIES
    MockIsLeftBehind
    LoadingEnds
CHECK_DEADLOCK FALSE
