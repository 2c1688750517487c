\* Every digest, cipher, AEAD, HMAC, RAND, public-key, EC, RSA and OID
\* entry point on one thread: no exception reports an error an earlier
\* call left queued.
CONSTANTS
    StackBuf = 1
    ChunkBuf = 2
    MaxArray = 3

SPECIFICATION CryptoSpec

INVARIANT NoStaleErrorThrown
