SPECIFICATION Spec
CONSTANTS
    MaxActs = 2
    MaxAges = 1
INVARIANTS
    TypeOK
    SettledAgrees
    ButtonNotStuck
CHECK_DEADLOCK FALSE
