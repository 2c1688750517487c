\* Every digest, cipher, AEAD, HMAC, RAND, public-key, EC, RSA and OID
\* entry point on one thread: a failure value always comes with an
\* exception.
CONSTANTS
    StackBuf = 1
    ChunkBuf = 2
    MaxArray = 3

SPECIFICATION CryptoSpec

INVARIANT FailureLeavesException
