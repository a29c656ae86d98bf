SPECIFICATION CSSpec
CONSTANTS
    a = a
    u = u
    c1 = c1
    c2 = c2
    None = None
    Other = Other
    Unlimited = Unlimited
    Cap = 1
    Tokens = {a, u}
    Conns = {c1, c2}
    MaxWorkers <- MCMaxWorkers
    LiveBound = 2
    StoreErrors = {"statement"}
    JoinLimit = 1
    InboxLimit = 1
    SendLimit = 0
SYMMETRY ConnSymmetry
INVARIANTS
    TypeOK
    CapHolds
    SlotsAccounted
    AckedIsSaved
    RejectHoldsNothing
PROPERTIES
    AdmissionIsAuthorised
    SlotKeepsItsToken
    ImplementsSlotPool
