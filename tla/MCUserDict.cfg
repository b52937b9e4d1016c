SPECIFICATION Spec
CONSTANTS
    Lemmas <- MCLemmas
    SplInitial <- MCSplInitial
    HalfToFull <- MCHalfToFull
    Queries <- MCQueries
    MaxLemmaSize = 3
    PreAlloc = 2
    HitSize = 2
    MissSize = 2
    FreqRange = 3
    WeekRange = 2
    Weeks = {0}
    Rooms = {1, 5}
    MaxSlots = 3
    MaxSyncs = 2
INVARIANTS
    TypeOK
    IndexSorted
    PredictsMirrorOffsets
    ReloadRestores
    LpisExact
    LocateFinds
PROPERTIES
    IdsStay
    ImplementsStore
