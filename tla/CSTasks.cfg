SPECIFICATION FairCSSpec
CONSTANTS
    a = a
    c1 = c1
    None = None
    Other = Other
    Unlimited = Unlimited
    Cap = 1
    Tokens = {a}
    Conns = {c1}
    MaxWorkers <- MCMaxWorkers
    LiveBound = 2
    StoreErrors = {"statement"}
    JoinLimit = 2
    InboxLimit = 2
    SendLimit = 1
PROPERTIES
    JoinAnswered
    LostIsDeregistered
    CloseDrains
