SPECIFICATION CSSpec
CONSTANTS
    a = a
    c1 = c1
    None = None
    Other = Other
    Unlimited = Unlimited
    Cap = 2
    Tokens = {a}
    Conns = {c1}
    MaxWorkers <- MCMaxWorkers
    LiveBound = 2
    StoreErrors = {"statement"}
    JoinLimit = 2
    InboxLimit = 1
    SendLimit = 0
INVARIANTS
    SlotsReturn
