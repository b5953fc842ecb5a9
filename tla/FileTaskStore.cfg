SPECIFICATION Spec
CONSTANTS
    Ids = {t1, t2}
    t1 = t1
    Attrs = {a1}
    Absent = Absent
    None = None
    kMinCompactThreshold = 0
    MaxLines = 3
    MaxMishaps = 2
    Disks = {{"open_fails"}, {"open_fails", "compact_fails"}, {"torn_write", "load_fails"}}
    LegacyTasks <- OneWorking
INVARIANTS CallsAreAtomic TornTailForgiven
PROPERTIES ImplementsStore
