SPECIFICATION FairSpec
CONSTANTS
    Msgs = {m1, m2, m3}
    Cap = 1
INVARIANTS
    TypeOK
    BufferBound
    TranscriptIsSuffix
    ExpiryTracked
PROPERTIES
    ImplementsChatLog
    MessagesAnswered
CHECK_DEADLOCK FALSE
