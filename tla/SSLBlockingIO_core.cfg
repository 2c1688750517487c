\* All operations, signals, timeouts and a closing socket; safety only.
CONSTANTS
    r1 = r1
    w1 = w1
    NoThread = NoThread
    Readers <- MCReaders
    Writers <- MCWriters
    PipeCapacity = 4
    MaxWriteLen = 2
    Timeouts = {0, 1}
    MaxInterrupts = 1
    MaxProgressWakes = 2
    PollCanBeInterrupted = TRUE
    CloseAwaitsIO = FALSE

SPECIFICATION Spec

INVARIANT TypeOK
INVARIANT WaitingCountMatches
INVARIANT EmergencyPipeOwned
