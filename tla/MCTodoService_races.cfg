SPECIFICATION Spec
SYMMETRY Symmetry
CONSTANTS
    Clients = {c1, c2}
    Walkers = {}
    Ids = {1, 2}
    SentIds <- MCSentIds
    Titles <- MCTitles
    Limits <- MCNoLimits
    MaxTitleLength = 2
    DefaultPageSize = 1
    MaxPageSize = 2
    Precision = 2
    Times = {0, 1, 2, 3}
INVARIANTS
    TypeOK
    RowsWellFormed
    AnswersStayTrue
PROPERTY
    HistoryKept
