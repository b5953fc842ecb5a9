\* Two threads, a registry of three items in pages of one, two pages of a list, three sessions of
\* which one expires, a cache entry and two etags, a round of input, a subscription entry.
\* The behaviours end: deadlock is not looked for, CallsReturn is.
SPECIFICATION FairSpec
CONSTANTS
    a = a
    b = b
    Creator = creator
    Nobody = nobody
    Callers = {a, b}
    Setups <- MCSetups
    Scenes <- MCScenes
    MaxSessions = 3
    MaxExpiries = 1
    PageSize = 1
    MaxPages = 2
    MaxEntries = 1
    MaxEtags = 2
    MaxRounds = 1
    MaxSubscriptions = 1
    TokenRequests = {a, b}
    Elicitations = {a, b}
INVARIANTS VersionsAgree ListsAreTrue PrivateStaysPrivate SubscribedHears TokenLetsGo SettledOnce
PROPERTIES CallsReturn
CHECK_DEADLOCK FALSE
