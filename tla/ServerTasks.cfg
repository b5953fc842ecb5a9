SPECIFICATION Spec
CONSTANTS
    Ids = {t1, t2}
    Attrs = {a1}
    Absent = Absent
    Nobody = Nobody
    MaxFailures = 2
INVARIANTS NoticesAgree CancelHolds NothingLeftBehind
SYMMETRY Symmetry
CHECK_DEADLOCK FALSE
