SPECIFICATION FairSpec
CONSTANTS
    MaxRequests = 1
    MaxTime = 3
    LastRegister = 0
    Timeouts = {1}
    Totals = {0, 2}
    Extension = 2
    Tokens = {1}
    CancelOnTimeout = {TRUE, FALSE}
    IncomingFilters = TRUE
PROPERTIES EverythingEnds
