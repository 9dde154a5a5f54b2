CONSTANTS
    a = a
    b = b
    w1 = w1
    w2 = w2
    NoWriter = NoWriter
    NoRecord = NoRecord
    Writer <- Writers
    Key <- Keys
    Idempotent <- IdempotentKeys
    MaxRecords = 2
    MaxCrashes = 1
SPECIFICATION FairSpec
INVARIANTS
    AppendedNeverLost
    IdempotentOnce
    ReaderSawAPrefix
PROPERTIES
    NothingAfterTornTail
    LockIsReleased
    ImplementsLog
