\* Every digest, cipher, AEAD, HMAC, RAND, public-key, EC, RSA and OID
\* entry point, interleaved on one thread.
CONSTANTS
    StackBuf = 1
    ChunkBuf = 2
    MaxArray = 3

SPECIFICATION CryptoSpec

INVARIANT CryptoTypeOK
INVARIANT UpdateHashesTheChunk
