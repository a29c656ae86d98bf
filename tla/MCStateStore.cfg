SPECIFICATION StoreSpec
CONSTANTS
    r = r
    t = t
    w = w
    j = j
    k1 = k1
    NoRow = NoRow
    Null = Null
    Rooms = {r}
    Jtis = {t}
    WorkerKeys = {w}
    JobKeys = {j}
    TaskKeys = {k1}
    Times = {1, 2}
    MaxAttempts = 1
    LogBound = 5
    PendingBound = 1
INVARIANTS
    StoreTypeOK
    ReferencesHold
    NoWorkLost
    ReplayIsSafe
PROPERTIES
    CreatedAtStays
    ImplementsTokenTable
CHECK_DEADLOCK FALSE
