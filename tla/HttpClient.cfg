\* Two requests, a notification and an answer with the id of a request: enough for every pair of
\* posting threads, a stream that breaks and is resumed, and a cancellation that comes late.
SPECIFICATION FairSpec
CONSTANTS
    r1 = r1
    r2 = r2
    h1 = h1
    h2 = h2
    Requests = {r1, r2}
    Helpers = {h1, h2}
    AnswerId <- MCAnswerId
    NoId = NoId
    Starts <- MCStarts
    MaxReconnects = 1
    MaxBlocks = 1
INVARIANTS NothingDangles AnsweredOrFailed
PROPERTIES CloseReturns
CHECK_DEADLOCK FALSE
