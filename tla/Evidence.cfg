CONSTANTS
    r1 = r1
    r2 = r2
    p1 = p1
    p2 = p2
    a = a
    b = b
    Worker = {r1, r2}
    MaxTree = 1
    Nothing = Nothing
    Consumer = {p1, p2}
    MaxSource = 3
    MaxCorruption = 1
    Free = Free
    Child = {a, b}
    Editor = {p1, p2}
    Script <- Messages
    Batch = 1
    PerChild = 1
    MaxKill = 1
    First = a
    NoEdit = NoEdit
    NoImport = NoImport
    Over = Over
    Supervisor = {p1, p2}
    MaxAttempts = 1
    MaxEvents = 3
    MaxSupervisorKill = 1
    InterruptStalled = TRUE
    IndexedRun = {r1, r2}
    Indexer = {p1, p2}
    MaxVersion = 2
    NoRow = NoRow
    Team = {1, 2}
    ContractSet = {"first", "second", "wide"}
    Contract <- Contracts
    Hierarchies <- Authority
    Clerk = {p1, p2}
    EvidencePath = {r1, r2}
    Usage = {1, 2}
    MaxRecord = 1
    MaxCall = 4
    NoFile = NoFile
SPECIFICATION EvidenceSpec
CHECK_DEADLOCK FALSE
INVARIANTS
    
    CursorsSafe
    InboxSafe
    
    IndexSafe
    
SYMMETRY
    Interchangeable
