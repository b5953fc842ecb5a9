SPECIFICATION FairSpec
CONSTANTS
    Requests = {"r1", "r2", "r3"}
    Session <- MCSession
    Id <- MCId
    Cancellations = {"c"}
    Arrivals <- MCArrivals
    Capacities = {1}
    DefaultCapacity = 2
    None = None
INVARIANTS AnswersAccounted
PROPERTIES SilentAfterClose NothingHangs
CHECK_DEADLOCK FALSE
