\* Spec P1 when poll(2) may fail with EINTR: violated through the drain loop.
CONSTANTS
    r1 = r1
    w1 = w1
    NoThread = NoThread
    Readers <- MCReaders
    Writers <- MCWriters
    PipeCapacity = 4
    MaxWriteLen = 2
    Timeouts = {0}
    MaxInterrupts = 1
    MaxProgressWakes = 2
    PollCanBeInterrupted = TRUE
    CloseAwaitsIO = TRUE

SPECIFICATION FairSpec

PROPERTY PromptCancellation
