SPECIFICATION ApartSpec
CONSTANTS
    User = {u1, u2}
    Sess = {s1, s2, s3}
    Client = {c1, c2}
    NoUser = NoUser
    NoSess = NoSess
    NoTx = NoTx
    f1 = f1  httpx = httpx  nmap = nmap  tls = tls
    Runs = 3
    Finding = {f1}
    Tool = {httpx, nmap}
    ToolOf <- TwoTools
    Issue = {tls}
    IssueOf <- SharedRule
    Admin = {v1}
    NoTxn = NoTxn
    NoIssue = NoIssue
SYMMETRY AccessSymmetry
INVARIANTS
    TypeOK
    EndedStaysOut
    IssuesTypeOK
    NegativeIsCovered
    AbsenceIsRecorded
    EverySightingProjected
PROPERTIES
    LastAdminByOverlap
    ReopenedWhenSeen
CHECK_DEADLOCK FALSE
