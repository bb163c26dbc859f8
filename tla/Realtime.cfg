SPECIFICATION Spec
CONSTANTS
    NBrowsers = 2
    Users = {u1, u2}
    NoUser = NoUser
    MaxSids = 4
    MaxSocks = 3
    MaxReqs = 2
    MaxWork = 4
SYMMETRY Perms
INVARIANTS
    TypeOK
    PresenceCurrent
    OnlyRacersOutlive
    SocketSpeaksForSession
CHECK_DEADLOCK FALSE
