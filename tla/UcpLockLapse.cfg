SPECIFICATION Spec
CONSTANTS
    w1 = w1
    w2 = w2
    k1 = k1
    k2 = k2
    Worker <- Workers
    Key <- Keys
    NoKey = NoKey
    Free = Free
    Orphan = Orphan
    Protocol = "ucp"
    LockLapse = "any"
    Faults = {}
    MaxOrders = 2
SYMMETRY Symmetry
INVARIANTS AtMostOneOrder
