SPECIFICATION DashboardSpec
CONSTANTS
    Rows = {1, 2}
    CreatedAt <- CreatedInTurn
    Limit = 1
    Tabs = {t1, t2}
    Callers = {c1, c2}
    Crawls <- CrawledListings
    FreshTtl = 1
    MaxQuery = 1
    MaxTime = 5
    MaxJobs = 2
    Bot = {b1, b2}
    Triggering = {b1}
    MaxFaults = 1
INVARIANTS
    BusHoldsOpenStreams
    ListIsFresh
    ReadMarksAreReal
    OneRefreshAtATime
    BreakpointsCutFifths
    ConfirmedIsApplied
PROPERTY RefreshNeverRewinds
SYMMETRY Symm
CHECK_DEADLOCK FALSE
