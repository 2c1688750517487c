\* SSL_renegotiate runs SSL_do_handshake without setting the callback state.
CONSTANTS
    r1 = r1
    w1 = w1
    c1 = c1
    NoThread = NoThread
    Callers <- OneCaller
    Calls <- RenegotiateCalls
    MaxCallbacks = 2
    InitFinished = TRUE

SPECIFICATION Spec

INVARIANT CallbackSeesCallersState
