SPECIFICATION Spec
CONSTANTS
    PyMax = 5
    MaxSpl = 3
    Counts = {1, 4, 5}
    PageSizes = {2, 3}
    FetchMax = 3
    TableSize = 2
INVARIANTS
    TypeOK
    StatusMatchesState
    InputHasCandidates
    PagesFull
    CaretAtEnd
    PageDownShowsMore
PROPERTIES
    BackspaceDeletes
    CommitWhole
