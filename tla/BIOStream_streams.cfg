\* Java-stream BIOs, one at a time: created, read, written, parsed as PEM
\* and freed, with every outcome of the Java stream and of NewByteArray.
CONSTANTS
    MaxLen = 2
    PemLineLength = 2
    PemGetsLen = 3
    MaxLines = 2

SPECIFICATION Spec

INVARIANT TypeOK
