SPECIFICATION Spec
CONSTANTS
    Ads = {a1, bare, odd}
    Odd = {odd}
    Unplaced = {bare}
    Size = 1
    Pages = 2
    PerPage = 2
    RetryLimit = 1
    Backoff = 2
    Faults = 2
    Regions = {kraj, town, street}
    Shipped = {kraj, street}
    Streets = {street}
    Asks = {c1, c2}
    MinInterval = 2
    GeoFaults = 2
    None = None
    Letters = {x, y}
    Numbers = {0, 1}
    Places = {p, q}
    Known = {x, y}
    Alien = Alien
    Catalogued = {prague, brno}
    Nowhere = Nowhere
    Chipless = {y}
    MaxRadius = 2
    MaxRegions = 1
    MaxParams = 3
    Bots = {b}
    Saves = {s1, s2}
    WelcomeFaults = 2
    SmtpServer = TRUE
    Processes = {"bezrealitky", "sreality", "notifier"}
    DialAttempts = 2
    Restarts = 1
INVARIANTS
    PostsHideNothing
    SpacedOut
    HolesComeFromCrashes
    WelcomeCountsMatches
    WhatHidesIsTold
    
    OnlyTheFormWidens
    OneWelcomePerCreation
PROPERTIES
    ShownIsStored
    EveryAskEnds
    WideningNeverLoses
    WelcomeArrives
    EveryoneComesUp
    UniqueInTheEnd
CHECK_DEADLOCK FALSE
