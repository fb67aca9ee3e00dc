SPECIFICATION Spec
CONSTANTS
    a = a
    p1 = p1
    conf = conf
    N = 2
    Values = {a}
    Passwords = {p1}
    Configs = {conf}
    Gens <- MCGens
    Stores <- MCStores
    Batches <- MCBatches
    Faults = {"save"}
    ReopenBeforeLoad = TRUE
    RetryAfterFailure = TRUE
    Uninit = Uninit
    Garbled = Garbled
    Junk = Junk
    Unset = Unset
    None = None
PROPERTY
    RoundTrip
