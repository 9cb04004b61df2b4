SPECIFICATION Spec
CONSTANTS
    s1 = s1  s2 = s2
    Sched = {s1}
    Daily = {}
    Passive = {s1}
    Skips = {s1}
    Step <- EverySlot
    Ticker = {t1, t2}
    MaxTime = 4
    MaxCrashes = 0
    MaxEdits = 0
    None = None
INVARIANTS
    SkipNeverOverlaps
CHECK_DEADLOCK FALSE
