SPECIFICATION WPSpec
CONSTANTS
    w1 = w1
    id1 = id1
    id2 = id2
    good = good
    bad = bad
    NoId = NoId
    Workers = {w1}
    WorkerIds = {id1, id2}
    Pinned = good
    Certs = {good, bad}
    INITIAL_BACKOFF = 1
    MAX_BACKOFF = 30
    FailBound = 6
INVARIANTS
    WPTypeOK
    HeartbeatIsCurrent
    BackoffFollowsSchedule
    ReadsAsSent
    DirectionsDisjoint
PROPERTIES
    LostLeadsOn
