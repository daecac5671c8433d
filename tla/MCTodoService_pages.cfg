SPECIFICATION FairSpec
CONSTANTS
    Clients = {c1}
    Walkers = {w1}
    Ids = {1, 2, 3}
    SentIds = {1}
    Titles <- MCPlainTitles
    Limits <- MCLimits
    MaxTitleLength = 2
    DefaultPageSize = 1
    MaxPageSize = 2
    Precision = 2
    Times = {1, 2}
INVARIANTS
    WalkMissesNothing
    WalkRepeatsNothing
PROPERTIES
    PagesLeaveNoGap
    PagesBounded
    WalkProgresses
