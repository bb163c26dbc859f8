SPECIFICATION Spec
CONSTANTS
    Msgs = {m1, m2}
    Cap = 1
INVARIANTS
    NeverExceedsCap
CHECK_DEADLOCK FALSE
