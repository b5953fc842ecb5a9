SPECIFICATION Spec
CONSTANTS
    MaxRequests = 2
    MaxTime = 1
    LastRegister = 0
    Timeouts = {1}
    Totals = {1}
    Extension = 2
    Tokens = {1}
    CancelOnTimeout = {TRUE}
    IncomingFilters = TRUE
INVARIANTS AtMostOnce NeverLost TablesAgree
