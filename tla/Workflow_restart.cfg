CONSTANTS
    Node <- Nodes
    Snapshots <- Graphs
    MaxParallelism = 1
    MaxAttempt = 1
    MaxRetried = 0
    MaxReview = 0
    Fault = {"kill"}
    None = None
SPECIFICATION FairSpec
CHECK_DEADLOCK FALSE
PROPERTIES
    RestartSafe
