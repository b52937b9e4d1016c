SPECIFICATION Spec
CONSTANTS
    Alphabet <- MCAlphabet
    HalfNames <- MCHalfNames
    SpellingBuf <- MCSpellingBuf
    Shengmu = {"n"}
    Yunmu = {"a", "o"}
    SzmEnabled = {"a", "n", "o"}
    Splitter = "'"
    Lex <- MCLexLong
    MaxRow = 6
    MaxNode = 2
    NodePool = 200
    MaxLemma = 3
    MaxPinyin = 3
    MaxSpl = 4
    MaxMileStone = 40
    Pruming = 8
    Junk = {0}
    MaxTyped = 4
CHECK_DEADLOCK FALSE
INVARIANT ChosenIsFound
