SPECIFICATION Spec
CONSTANTS
    api = api  beat = beat  work = work
    Session <- Sessions
    Persister = {work}
    Record = {r1}
    MaxEvents = 2
    MaxAppends = 2
    NoOne = NoOne
    NoTx = NoTx
INVARIANTS
    ResultsAreKept
CHECK_DEADLOCK FALSE
