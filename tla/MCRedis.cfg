CONSTANTS
    MaxRequests = 2
    Overlap = 2
    MaxStrays = 1
    Asks = {"a", "b"}
    MayAsk <- Questions
    Configs <- SomeConfigs
    CacheTtl = 1
    MaxRetries = 1
    MaxEvents = 2
    a = a
    b = b
    c = c
    Keys = {a, b, c}
    r1 = r1
    r2 = r2
    Hits = {r1, r2}
    Ttl = 2
    MaxMemory = 2
    FewKeys = {a, b}
    LoneHit = r1
SPECIFICATION RedisPartsSpec
INVARIANTS
    CacheFits
    ThrottleTypeOK
    OnlyOrphansStay
    OldestFirst
PROPERTIES
    SearchServed
    ConnectionSettles
    WindowEnds
CHECK_DEADLOCK FALSE
