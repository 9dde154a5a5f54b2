CONSTANTS
    a = a
    b = b
    e1 = e1
    s1 = s1
    Child = {a, b}
    Editor = {e1}
    Script <- Messages
    Batch = 1
    PerChild = 1
    MaxKill = 1
    First = a
    NoEdit = NoEdit
    NoImport = NoImport
    Over = Over
    Supervisor = {s1}
    MaxAttempts = 1
    MaxEvents = 3
    MaxSupervisorKill = 1
    InterruptStalled = TRUE
    MaxChunk = 1
    Limit = 1
SPECIFICATION OversightSpec
CHECK_DEADLOCK FALSE
PROPERTIES
    
    
    CommandReturns
