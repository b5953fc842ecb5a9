SPECIFICATION Spec
CONSTANTS
    MaxCode = 2
    MaxInt = 32767
    MaxDepth = 3
    MaxLine = 13
    MaxBody = 3
    Errands <- AllErrands
    Conversations <- AllTalks
INVARIANTS
    TravelsUnchanged
    EnvelopeKept
    MatchInvertsExpand
    HeadersAgree
    TextsKept
    WhatWasSentIsRead
CHECK_DEADLOCK FALSE
