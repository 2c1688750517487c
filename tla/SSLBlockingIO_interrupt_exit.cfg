\* Spec 4.4, P3 and P6: a write or read ended by interrupt() is not
\* reported as all bytes sent or as end of stream.
CONSTANTS
    r1 = r1
    w1 = w1
    NoThread = NoThread
    Readers <- MCReaders
    Writers <- MCWriters
    PipeCapacity = 4
    MaxWriteLen = 2
    Timeouts = {0}
    MaxInterrupts = 1
    MaxProgressWakes = 2
    PollCanBeInterrupted = FALSE
    CloseAwaitsIO = TRUE

SPECIFICATION Spec

INVARIANT InterruptedCallReported
