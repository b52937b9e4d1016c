SPECIFICATION Spec
CONSTANTS
    Alphabet <- MCAlphabet
    HalfNames <- MCHalfNames
    SpellingBuf <- MCSpellingBuf
    Shengmu = {"n"}
    Yunmu = {"a", "o"}
    SzmEnabled = {"a", "n", "o"}
    Splitter = "'"
    Lex <- MCLex
    MaxRow = 6
    MaxNode = 2
    NodePool = 200
    MaxLemma = 2
    MaxPinyin = 3
    MaxSpl = 3
    MaxMileStone = 14
    Pruming = 8
    Junk = {0}
    MaxTyped = 3
CHECK_DEADLOCK FALSE
INVARIANTS PoolsTight FixedCoversLemmas HandleNamesPath SentenceSpelled LearnsSentence
PROPERTIES ChoiceAppends EditUnlocksOne
