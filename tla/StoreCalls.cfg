SPECIFICATION MCSpec
CONSTANTS
    Explored = {"carts", "sync", "view", "events", "create", "chat", "talk"}
    Product = {mug}
    MaxQty = 2
    Code = {"x"}
    NoCode = "none"
    MaxTries = 2
    a = "a"
    b = "b"
    Item = {"a", "b"}
    Top = 2
    Lists <- LineLists
    Coupon = {"x", "y"}
    Blank = "none"
    CodeLists <- CodesSent
    Untouched = Untouched
    Country = {"gr", "cy"}
    Region <- RegionCountry
    RegionNames <- RegionCalled
    Provider = {"acs", "boxnow"}
    Locker = {"boxnow"}
    Fee = {0, 2}
    Handler = {h1, h2}
    MaxChanges = 2
    LinkLate = FALSE
    Attempt = {r1, r2}
    Body = {b1, b2}
    SessionId = {i1, i2}
    NoId = NoId
    t1 = t1
    v1 = v1
    Visitor = {v1, v2}
    Turn = {t1, t2}
    MaxRequests = 3
    StorePerHour = 2
    VisitorPerDay = 2
    HoursPerDay = 2
    MaxHour = 2
    MaxTurns = 4
    MaxIterations = 2
    MaxCalls = 1
    MaxCarts = 2
    RedisFails = TRUE
    NoConv = NoConv
INVARIANTS StoreTypeOK AcceptedIsTold HoldsExactlyLines CodesReplaced ReadinessIsHonest TotalsAddUp AckedReachesQueue CreateNamesOne AddsOnce QuotaHolds BudgetsAgree  ConversationBounded
PROPERTIES OwnCartOnly
CHECK_DEADLOCK FALSE
