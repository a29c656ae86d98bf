SPECIFICATION MasterSpec
CONSTANTS
    a = a
    u = u
    Unlimited = Unlimited
    NoFile = NoFile
    Emptied = Emptied
    Tokens = {a, u}
    MaxWorkers <- MCMaxWorkers
    LiveBound = 3
    StoreErrors = {"statement", "commit", "rollback"}
    KeyBound = 4
INVARIANTS
    MasterTypeOK
    LiveWithinCap
    RevocationIsForever
    MemoryCoversTable
    HandedOutHasRow
    FingerprintStable
    CertHasItsKey
    RaisesOnlyOnTornCert
    PinsServed
PROPERTIES
    RevokedRowStays
CHECK_DEADLOCK FALSE
