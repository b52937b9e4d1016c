SPECIFICATION Spec
CONSTANTS
    Objects = {ime, sync}
    Lemmas <- MCLemmas
    PreAlloc = 1
    Average = 5
    MaxCalls = 4
    MaxOverlap = 2
    Nobody = Nobody
CHECK_DEADLOCK FALSE
INVARIANTS SavesOnLatest SavedIsMemory ReadsBetweenWrites TornKeepsLemmas
PROPERTIES LatestSaves CallsReturn
