SPECIFICATION FairSpec
CONSTANTS
    Mine = {m}
    Theirs = {a}
    MaxVisits = 2
    MaxJoins = 2
    MaxKeys = 1
INVARIANTS
    TypeOK
    ShownInOrder
    NothingMissed
    TypingCurrent
PROPERTIES
    SentIsAnswered
    StatusResolves
CHECK_DEADLOCK FALSE
