SPECIFICATION FairSpec
CONSTANTS
    api = api  beat = beat  work = work
    Session <- Sessions
    Persister = {work}
    Record = {r1}
    MaxEvents = 2
    MaxAppends = 2
    NoOne = NoOne
    NoTx = NoTx
INVARIANTS
    ChainHolds
PROPERTIES
    TransactionsEnd
CHECK_DEADLOCK FALSE
