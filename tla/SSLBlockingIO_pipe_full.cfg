\* sslNotify never finds the emergency pipe full (pipe shrunk to 2 bytes;
\* progress wake-ups only, no interrupt).
CONSTANTS
    r1 = r1
    w1 = w1
    NoThread = NoThread
    Readers <- MCReaders
    Writers <- MCWriters
    PipeCapacity = 2
    MaxWriteLen = 2
    Timeouts = {0}
    MaxInterrupts = 0
    MaxProgressWakes = 3
    PollCanBeInterrupted = FALSE
    CloseAwaitsIO = TRUE

SPECIFICATION Spec

INVARIANT NotifyNeverBlocks
