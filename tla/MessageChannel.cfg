SPECIFICATION FairChannelSpec
CONSTANTS
    Senders = {s1, s2}
    Receivers = {r1, r2}
    Closers = {c1}
    MaxBuffer = 2
    MaxSends = 2
INVARIANTS NobodyForgotten
PROPERTIES NobodyStuck
