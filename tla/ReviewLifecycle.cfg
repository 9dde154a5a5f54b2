CONSTANTS
    None = None
    c1 = c1
    c2 = c2
    c3 = c3
    Call = {c1, c2, c3}
    Score = {"pass", "fail"}
    Passing = {"pass"}
SPECIFICATION Spec
CHECK_DEADLOCK FALSE
INVARIANTS
    RecordedForGood
    ApprovalRestsOnReview
PROPERTIES
    HistoryOnlyGrows
SYMMETRY
    Interchangeable
