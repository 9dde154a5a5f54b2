CONSTANTS
    a = a
    b = b
    r1 = r1
    r2 = r2
    h1 = h1
    h2 = h2
    c1 = c1
    Node <- Nodes
    Snapshots <- Graphs
    MaxParallelism = 1
    MaxAttempt = 2
    MaxRetried = 1
    MaxReview = 2
    Fault = {"kill", "lose", "archive"}
    None = None
    Task <- Tasks
    Dependencies <- Plans
    ChainRun = {r1, r2}
    Host = {h1, h2}
    NoChain = NoChain
    Closer = {c1}
    MaxChange = 1
    NoRevision = NoRevision
    Candidate = {a, b}
    Nobody = Nobody
    MaxChunk = 2
    Limit = 1
SPECIFICATION OrchestrationSpec
CHECK_DEADLOCK FALSE
INVARIANTS
    
    LaunchDiscipline
    
    ChainSafe
    CloseoutClaimsHeld
    
    CommandResultTruthful
