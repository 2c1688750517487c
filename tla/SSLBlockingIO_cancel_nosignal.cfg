\* Spec P1 with no signal delivered to a polling thread: interrupt() releases
\* a reader and a writer both polling forever.
CONSTANTS
    r1 = r1
    w1 = w1
    NoThread = NoThread
    Readers <- MCReaders
    Writers <- MCWriters
    PipeCapacity = 4
    MaxWriteLen = 2
    Timeouts = {0}
    MaxInterrupts = 1
    MaxProgressWakes = 2
    PollCanBeInterrupted = FALSE
    CloseAwaitsIO = TRUE

SPECIFICATION FairSpec

PROPERTY ConnectionSpec
PROPERTY TeardownCompletes
