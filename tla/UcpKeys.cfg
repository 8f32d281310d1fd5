SPECIFICATION Spec
CONSTANTS
    w1 = w1
    w2 = w2
    k1 = k1
    k2 = k2
    Worker <- Workers
    Key <- OneKey
    NoKey = NoKey
    Free = Free
    Orphan = Orphan
    Protocol = "ucp"
    LockLapse = "any"
    Faults = {"redis"}
    MaxOrders = 2
SYMMETRY Symmetry
INVARIANTS OneOrderPerKey
