SPECIFICATION MCSpec
CONSTANTS
    Pod = {p1, p2}
    None = None
    MaxEdits = 2
    Spare = 1
    StoreAttempts = 3
    SweepsFail = TRUE
    Pages = 7
    Workers = 2
    Window = 3
    Consumer = {c1, c2}
    Slot = {s1, s2}
    NoOne = NoOne
    Delivery = {d}
    MaxEntries = 1
    Batch = 2
    Attempts = 2
    Slow = FALSE
    Returns = FALSE
    Faults = {"crash", "shutdown", "redis"}
INVARIANT DoneIsComplete
PROPERTIES ImplementsPromise CurrentInTheEnd EverythingEnds EntriesEnd
CHECK_DEADLOCK FALSE
