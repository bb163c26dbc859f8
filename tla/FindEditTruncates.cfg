SPECIFICATION Spec
CONSTANTS
    MaxActs = 2
    MaxAges = 0
INVARIANTS
    SaveKeepsText
CHECK_DEADLOCK FALSE
