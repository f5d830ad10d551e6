SPECIFICATION FairSpec
CONSTANTS
    NoConfig = NoConfig
    Config = {c1}
    Request = {r1}
    Janitor = {j1, j2}
    PendingTTL = 1
    OrphanTTL = 2
    MaxPass = 1
    MaxFaults = 1
PROPERTIES
    PendingResolves
    OrphanIsSwept
