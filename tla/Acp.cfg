SPECIFICATION FairSpec
CONSTANTS
    w1 = w1
    w2 = w2
    k1 = k1
    k2 = k2
    Worker <- Workers
    Key <- OneKey
    NoKey = NoKey
    Free = Free
    Orphan = Orphan
    Protocol = "acp"
    LockLapse = "never"
    Faults = {"crash"}
    MaxOrders = 2
INVARIANTS CanceledHasNoOrder SpentKeyClosesSession
PROPERTIES ImplementsLifecycle PaidIsShown
