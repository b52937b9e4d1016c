SPECIFICATION SyncSpec
CONSTANTS
    Lemmas <- MCLemmas
    SplInitial <- MCSplInitial
    HalfToFull <- MCHalfToFull
    Queries = {}
    MaxLemmaSize = 2
    PreAlloc = 2
    HitSize = 2
    MissSize = 2
    FreqRange = 2
    WeekRange = 2
    Weeks = {0}
    Rooms = {5}
    MaxSlots = 3
    MaxSyncs = 2
    SyncLimit <- MCLimit
    Buffers = {1, 2}
    JunkSlots = {1, 4}
    Counts = {0, 1}
INVARIANTS
    PredictsMirrorOffsets
    FoundOnce
PROPERTIES
    UploadedBeforeDequeued
    DownloadNotQueued
