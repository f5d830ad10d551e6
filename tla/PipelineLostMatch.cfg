SPECIFICATION Spec
CONSTANTS
    u1 = u1
    u2 = u2
    c1 = c1
    c2 = c2
    c3 = c3
    l1 = l1
    l2 = l2
    User = {u1, u2}
    Config = {c1, c3}
    Listing = {l1, l2}
    Owner <- Owners
    Match <- Matches
    Unusable = {}
    Rejected = {}
    SmtpServer = TRUE
    MaxFailures = 3
    MaxCycles = 2
    MaxFaults = 1
    MaxChanges = 0
INVARIANTS
    EveryNewListingIsReported
\* The bounds let every behaviour end: no further cycle begins.
CHECK_DEADLOCK FALSE
