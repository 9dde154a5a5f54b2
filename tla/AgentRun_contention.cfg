CONSTANTS
    None = None
    s1 = s1
    r1 = r1
    o1 = o1
    o2 = o2
    f1 = f1
    Starter = {s1}
    Runner = {r1}
    Operator = {}
    Finalizer = {f1}
    Code = {"zero"}
    Fault = {"spawn", "early"}
    Killable = {r1, f1}
SPECIFICATION Spec
CHECK_DEADLOCK FALSE
PROPERTIES
    ReceiptWrittenOnce
    SealedOutcomeStable
