\* BIO_InputStream::gets after a failed readLine: the NUL of buf[read]
\* with read = -1 lands before the caller's buffer.
CONSTANTS
    MaxLen = 2
    PemLineLength = 2
    PemGetsLen = 3
    MaxLines = 2

SPECIFICATION Spec

INVARIANT GetsNulInsideBuffer
