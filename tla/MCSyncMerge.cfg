SPECIFICATION SyncSpec
CONSTANTS
    Lemmas <- MCLemmas
    SplInitial <- MCSplInitial
    HalfToFull <- MCHalfToFull
    Queries = {}
    MaxLemmaSize = 2
    PreAlloc = 1
    HitSize = 2
    MissSize = 2
    FreqRange = 3
    WeekRange = 2
    Weeks = {0}
    Rooms = {5}
    MaxSlots = 3
    MaxSyncs = 2
    SyncLimit <- MCLimit
    Buffers = {1, 2}
    JunkSlots = {1, 4}
    Counts = {1}
PROPERTIES
    DownloadKeepsDictionary
