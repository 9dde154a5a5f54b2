CONSTANTS
    i1 = i1
    i2 = i2
    a = a
    b = b
    c1 = c1
    c2 = c2
    c3 = c3
    h1 = h1
    h2 = h2
    m1 = m1
    m2 = m2
    Id = {i1, i2}
    MaxRetry = 1
    Name = {a, b}
    Call = {c1, c2, c3}
    MaxAtOnce = 2
    None = None
    Host = {h1, h2}
    Command = {m1, m2}
    MaxGeneration = 2
    MaxDelivery = 1
    Nobody = Nobody
    MaxEdit = 2
    NoArtifact = NoArtifact
    DelegatedRun = {i1, i2}
    Delegator = {m1, m2}
    Inputs = {"headless", "external"}
    MaxCreation = 3
SPECIFICATION Spec
CHECK_DEADLOCK FALSE
INVARIANTS
    
    ExternalSafe
    ContractBindsTheRun
    
SYMMETRY
    Interchangeable
