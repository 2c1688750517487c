\* Calls that hold AppData's mutex around set, engine call and clear.
CONSTANTS
    r1 = r1
    w1 = w1
    c1 = c1
    NoThread = NoThread
    Callers <- LockedCallers
    Calls <- LockedCalls
    MaxCallbacks = 2
    InitFinished = TRUE

SPECIFICATION Spec

INVARIANT TypeOK
INVARIANT CallbackSeesCallersState
