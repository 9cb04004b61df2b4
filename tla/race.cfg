SPECIFICATION Spec
CONSTANTS
    a1 = a1  gA = gA  t1 = t1
    Exec = {a1}
    Group = {gA}
    Target = {t1}
    GroupOf <- OneGroupOf
    TargetOf <- OneTargetOf
    ActiveExec = {a1}
    ScheduledGroup = {}
    MaxGlobal = 1
    MaxPerTarget = 1
    Session = {s1, s2}
    Worker = {w1}
    MaxMsgs = 1
    MaxOpen = 2
    NoExec = NoExec
    NoTx = NoTx
SYMMETRY SessionSymmetry
INVARIANTS
    GrantedBeforeRun
    RunningHasDeadline
PROPERTIES
    CancelSticks
