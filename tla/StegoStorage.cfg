SPECIFICATION FairSpec
CONSTANTS
    a = a
    p1 = p1
    conf = conf
    N = 2
    Values = {a}
    Passwords = {p1}
    Configs = {conf}
    Gens <- MCGens
    Stores <- MCStores
    Batches <- MCBatches
    Faults = {"open", "load", "save"}
    ReopenBeforeLoad = TRUE
    RetryAfterFailure = FALSE
    Uninit = Uninit
    Garbled = Garbled
    Junk = Junk
    Unset = Unset
    None = None
INVARIANTS
    OneContentPerSave
PROPERTIES
    ChecksumIsExact
    RoundTrip
    CallsEnd
    ImplementsDurableStore
