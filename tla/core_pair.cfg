SPECIFICATION Spec
CONSTANTS
    a1 = a1  a2 = a2  p1 = p1  p2 = p2
    gA = gA  gP = gP  gQ = gQ
    t1 = t1  t2 = t2
    Exec <- PairExec
    Group = {gA}
    Target = {t1, t2}
    GroupOf <- PairGroupOf
    TargetOf <- PairTargetOf
    ActiveExec = {a1, a2}
    ScheduledGroup = {}
    MaxGlobal = 1
    MaxPerTarget = 1
    Worker = {w1, w2}
    Stages = 1
    MaxMsgs = 1
    NoExec = NoExec
INVARIANTS
    TypeOK
    WithinLimits
    NoOrphanRun
    
    CutShortIsPartial

    
