SPECIFICATION FabricSpec
CONSTANTS
    a = a
    w1 = w1
    c1 = c1
    c2 = c2
    id1 = id1
    id2 = id2
    good = good
    None = None
    Other = Other
    NoId = NoId
    Unlimited = Unlimited
    Cap = Unlimited
    Tokens = {a}
    Conns = {c1, c2}
    Workers = {w1}
    WorkerIds = {id1, id2}
    Pinned = good
    Certs = {good}
    MaxWorkers <- MCMaxWorkers
    TokenOf <- MCTokenOf
    Garbled = {}
    LiveBound = 2
    StoreErrors = {"statement", "commit", "rollback"}
    JoinLimit = 1
    InboxLimit = 1
    SendLimit = 1
    INITIAL_BACKOFF = 1
    MAX_BACKOFF = 1
    FailBound = 0
    FaultBound = 2
    OperatorActs = TRUE
SYMMETRY FabricSymmetry
INVARIANTS
    FabricTypeOK
    JoinedHoldsSlot
PROPERTIES
    RejectedForCause
