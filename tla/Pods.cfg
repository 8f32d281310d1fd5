SPECIFICATION MCSpec
CONSTANTS
    Explored = {"tenants", "keys", "profiles", "negotiation", "limiter", "identity", "queue"}
    Pod = {p1, p2}
    Config = {shop}
    Unknown = Unknown
    Nothing = Nothing
    TTL = 2
    NegTTL = 1
    CallTicks = 1
    KeyPod = {p1, p2}
    KeyPair = {k1, k2, k3}
    Unminted = Unminted
    Address = {u1, u2, u3}
    MaxProfiles = 2
    ProfileFloor = 1
    ProfileCeiling = 2
    FailureBackoff = 1
    Capability = {"checkout", "order", "hosted", "sub"}
    Parent <- Extends
    OrderCap = "order"
    Gated = {"hosted", "sub"}
    Offer <- Offered
    Entries <- Declared
    Client = {c1, c2, c3}
    MaxBuckets = 2
    Burst = 2
    Rate = 1
    IdleEviction = 2
    Store = {s1, s2}
    Token = {t}
    Caller = {q1, q2}
    CacheTTL = 1
    ProbeTicks = 1
    CacheMax = 1
    Consumer = {p1, p2}
    Slot = {w}
    NoOne = NoOne
    Delivery = {order}
    MaxEntries = 2
    Batch = 1
    Attempts = 1
    Slow = FALSE
    Returns = FALSE
    Faults = {"crash", "shutdown", "redis"}
SYMMETRY Alike
INVARIANTS PodsTypeOK AnswersAreRecent ProbesRest PodsAgree CallersStay LargestIntersection EvictionIsFair RevocationSpreads NothingLost
PROPERTIES ImplementsQueue
CHECK_DEADLOCK FALSE
