SPECIFICATION Spec
CONSTANTS
    s1 = s1  s2 = s2
    Sched = {s1, s2}
    Daily = {s2}
    Passive = {s1}
    Skips = {s1}
    Step <- UnevenSteps
    Ticker = {t1, t2}
    MaxTime = 3
    MaxCrashes = 1
    MaxEdits = 1
    None = None
INVARIANTS
    TypeOK
    OneExecutionPerSlot
    
PROPERTIES
    DueIsHandled

CHECK_DEADLOCK FALSE
