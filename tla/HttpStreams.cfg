SPECIFICATION Spec
CONSTANTS
    Sessions = {s1, s2}
    NoSession = none
    Owners = {s1, s2, none}
    p1 = p1
    p2 = p2
    g1 = g1
    Posts = {p1, p2}
    Gets = {g1}
    Scenes <- MCScenes
    Nobody = Nobody
    Ids = {1, 11}
    Capacity = 1
    MaxInflight = 1
    Window = 1
    MaxEvents = 2
SYMMETRY Symmetry
INVARIANTS SessionsKeepApart StreamMissesNothing EventNumbersGoUp
CHECK_DEADLOCK FALSE
