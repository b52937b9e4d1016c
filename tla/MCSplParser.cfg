SPECIFICATION Spec
CONSTANTS
    Alphabet <- MCAlphabet
    HalfNames <- MCHalfNames
    SpellingBuf <- MCSpellingBuf
    Shengmu = {"c", "h"}
    Yunmu = {"a", "o"}
    SzmEnabled = {"c", "h"}
    Splitter = "'"
    MaxTyped = 5
    MaxIdxs = 3
INVARIANTS SpelledAsTyped IdsStandForTyped
PROPERTIES
    ParserStops
CHECK_DEADLOCK FALSE
