SPECIFICATION Spec
CONSTANTS
    a1 = a1  a2 = a2  p1 = p1  p2 = p2
    gA = gA  gP = gP  gQ = gQ
    t1 = t1  t2 = t2
    Exec <- SoloExec
    Group = {gA, gP}
    Target = {t1, t2}
    GroupOf <- SoloGroupOf
    TargetOf <- SoloTargetOf
    ActiveExec = {a1}
    ScheduledGroup = {gA}
    MaxGlobal = 2
    MaxPerTarget = 1
    Worker = {w1}
    Stages = 1
    MaxMsgs = 1
    NoExec = NoExec
INVARIANTS
    ApprovedBeforeRun
PROPERTIES
    Lifecycle
