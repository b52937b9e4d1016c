SPECIFICATION Spec
CONSTANTS
    Alphabet <- MCAlphabet
    Shengmu = {"n"}
    Yunmu = {"a"}
    SzmEnabled = {"a", "n"}
    HalfNames <- MCHalfNames
    SpellingBuf <- MCSpellingBuf
    Splitter = "'"
    MaxLemma = 4
    LpiMax = 3
    MaxExtend = 200
    Files <- MCFiles
    MaxHzs = 4
    MinFreq = 60
    TopNum = 3
    MaxStones = 3
INVARIANTS LookupExact ExtendAgrees SplidsOfLemma PredictionsRight
