SPECIFICATION Spec
CONSTANTS
    Users = {u1, u2}
    Emails = {e1, e2}
    Browsers = {b1}
    Reqs = {r1, r2}
    None = None
    MaxSessions = 2
    MaxRotations = 1
SYMMETRY Symm
INVARIANTS
    TypeOK
    EmailsUnique
    ActsWithToken
    CookiePair
PROPERTIES
    RevokedStaysRevoked
    GoneUsersStayGone
