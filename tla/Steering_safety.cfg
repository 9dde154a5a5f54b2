CONSTANTS
    None = None
    m1 = m1
    m2 = m2
    h1 = h1
    c1 = c1
    c2 = c2
    x1 = x1
    Steer = {m1}
    HostAck = {h1}
    ChildAck = {c1, c2}
    Host = {x1}
    Adapters = {"control-file-v1", "external-host-v1", "unsupported"}
    Killable = {}
    RunnerDies = FALSE
    InboxFails = TRUE
SPECIFICATION Spec
CHECK_DEADLOCK FALSE
INVARIANTS
    AcksRecordedOnce
    HardTerminalLast
    DeliveredWasPublished
    IntentsAppliedInOrder
SYMMETRY
    Interchangeable
