CONSTANTS
    None = None
    m1 = m1
    m2 = m2
    h1 = h1
    c1 = c1
    c2 = c2
    x1 = x1
    Steer = {m1, m2}
    HostAck = {}
    ChildAck = {}
    Host = {}
    Adapters = {"control-file-v1", "external-host-v1", "unsupported"}
    Killable = {m1}
    RunnerDies = TRUE
    InboxFails = TRUE
SPECIFICATION FairSpec
CHECK_DEADLOCK FALSE
PROPERTIES
    EverySteerSettles
