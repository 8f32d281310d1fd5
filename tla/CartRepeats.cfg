SPECIFICATION MCSpec
CONSTANTS
    Explored = {"sync"}
    Product = {mug}
    MaxQty = 2
    Code = {"x"}
    NoCode = "none"
    MaxTries = 2
    a = "a"
    b = "b"
    Item = {"a", "b"}
    Top = 2
    Lists <- Repeated
    Coupon = {"x", "y"}
    Blank = "none"
    CodeLists <- CodesSent
    Untouched = Untouched
    Country = {"gr", "cy"}
    Region <- RegionCountry
    RegionNames <- RegionCalled
    Provider = {"acs", "boxnow"}
    Locker = {"boxnow"}
    Fee = {0, 2}
    Handler = {h1, h2}
    MaxChanges = 2
    LinkLate = FALSE
    Attempt = {r1, r2}
    Body = {b1, b2}
    SessionId = {i1, i2}
    NoId = NoId
    t1 = t1
    v1 = v1
    Visitor = {v1, v2}
    Turn = {t1, t2}
    MaxRequests = 2
    StorePerHour = 1
    VisitorPerDay = 1
    HoursPerDay = 2
    MaxHour = 1
    MaxTurns = 2
    MaxIterations = 2
    MaxCalls = 2
    MaxCarts = 2
    RedisFails = TRUE
    NoConv = NoConv
INVARIANTS HoldsExactlyLines
CHECK_DEADLOCK FALSE
