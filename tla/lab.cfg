SPECIFICATION ApartSpec
CONSTANTS
    p1 = p1  p2 = p2  f1 = f1
    Fixture = {f1}
    Plan = {p1, p2}
    AttemptId = {i1, i2}
    FixtureOf <- OneFixture
    Exploits = {p2}
    Server = {v1, v2}
    MaxRuns = 2
    NoTx = NoTx
    NoAttempt = NoAttempt
    Attempt = {a1}
    Sess = {x1, x2}
    Operator = {u1, u2}
    Admin = {u1, u2}
    Request = {r1}
    GuidedIds = {"whoami", "terminate"}
    Client = {c1, c2}
    MaxLeases = 2
    MaxRecords = 2
    MaxActions = 1
    MaxEvents = 2
    NoSess = NoSess
    NoReq = NoReq
    AddressBits = 2
    PrivateBlocks <- PrivateSpace
    Name <- Names
    Builtin <- OneBuiltin
    MaxRanges = 2
    MaxRules = 1
    MaxTargets = 1
    MaxResolved = 2
CONSTRAINT OneGrant
SYMMETRY LabSymmetry
INVARIANTS
    ProofTypeOK
    TypeOK
    OneRunPerFixture
    ActsOnce
    ScopeSound
PROPERTIES
    OneShot
    FencedStaysFenced
    
    StreamInOrder
CHECK_DEADLOCK FALSE
