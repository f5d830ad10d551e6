SPECIFICATION Spec
CONSTANTS
    NoConfig = NoConfig
    Config = {c1}
    Request = {r1}
    Janitor = {j1}
    PendingTTL = 1
    OrphanTTL = 2
    MaxPass = 1
    MaxFaults = 0
PROPERTIES
    ReapsPendingOnly
