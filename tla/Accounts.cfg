SPECIFICATION FairSpec
CONSTANTS
    Reqs = {r1, r2}
    UserIds = {1, 2}
    Names <- MCNames
    ShortNames <- MCShortNames
    Emails = {e1, e2}
    GoogleIds = {g1}
    Passwords = {p1}
    MaxUsers = 1
    None = None
INVARIANTS
    TypeOK
    AccountsUnique
    OAuthNeverLinks
PROPERTIES
    SignupsCapped
    RequestsAnswered
CHECK_DEADLOCK FALSE
