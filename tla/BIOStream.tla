----------------------------- MODULE BIOStream ------------------------------
(***************************************************************************)
(* The BIO that Conscrypt backs with a Java InputStream or OutputStream    *)
(* (class BIO_Stream, BIO_InputStream, BIO_OutputStream and the            *)
(* stream_bio_method callbacks), and the Java entry points that create,    *)
(* read, write, parse PEM from and free it.                                *)
(*                                                                         *)
(* Every Java call runs on a Java thread, one at a time on a given BIO.   *)
(* The Java stream is the environment: each call of read, readLine or     *)
(* write returns any value its contract allows, or throws.  A JNI          *)
(* allocation (NewByteArray) may fail with OutOfMemoryError pending.       *)
(* getJNIEnv() is not modelled as failing: AttachCurrentThread on a thread *)
(* that came from Java returns its existing JNIEnv.                       *)
(***************************************************************************)
EXTENDS Integers

CONSTANTS
    MaxLen,          \* the largest Java array in a call
    PemLineLength,   \* BIO_InputStream::PEM_LINE_LENGTH (66 in the code)
    PemGetsLen,      \* the buffer PEM_read_bio passes to BIO_gets (> PemLineLength)
    MaxLines         \* the most lines one PEM read consumes

NoIndex == -2        \* no NUL written yet

VARIABLES
    bio,        \* "none", or the stream the BIO's ptr holds: "input" / "output"
    finite,     \* BIO_InputStream::isFinite_
    eof,        \* BIO_Stream::mEof
    retry,      \* the BIO's retry-read flag (BIO_set_retry_read)
    lastRead,   \* what the Java stream gave the last bio_stream_read
    pem,        \* progress of the PEM reader inside PEM_to_jlong
    lines,      \* lines that PEM reader has consumed
    errQueued,  \* an error is on BoringSSL's error queue
    nul,        \* the index bio_stream_gets last wrote the NUL to
    call,       \* the last Java entry point called
    arg,        \* its length argument
    ret,        \* what it returned (0 for a null pointer)
    exc         \* the exception pending for Java (when it returned)

vars == <<bio, finite, eof, retry, lastRead, pem, lines, errQueued, nul, call,
          arg, ret, exc>>
bioState == <<bio, finite, eof, retry, lastRead>>

Exceptions == {"none", "NPE", "IOOB", "OOM", "stream", "IOException",
               "RuntimeException"}
Calls == {"none", "create_BIO_InputStream", "create_BIO_OutputStream",
          "BIO_read", "BIO_write", "PEM_read_bio", "BIO_free_all"}

\* Between two Java calls; the PEM reader runs inside one.
Idle == pem = "idle"

\* A Java call that returns without touching the BIO.
Return(c, a, r, e) ==
    /\ call' = c /\ arg' = a /\ ret' = r /\ exc' = e

\* jniThrowException with an exception already pending: the replacement is
\* up to JNIHelp, not in this repository, so either may reach Java.
ThrowOver(pending, new) ==
    IF pending = "none" THEN {new} ELSE {pending, new}

-----------------------------------------------------------------------------
(* The stream classes and stream_bio_method                                *)

\* BIO_InputStream::read_internal: the pending-exception test, NewByteArray,
\* the Java call, the mapping of -1 (end of stream) to setEof(true) and 0.
\* counts are the values the Java method may return other than -1.
ReadInternal(pending, counts) ==
    IF pending # "none"
    THEN {[n |-> -1, eof |-> eof, exc |-> pending, saw |-> "none"]}
    ELSE {[n |-> -1, eof |-> eof, exc |-> "OOM", saw |-> "none"],
          [n |-> -1, eof |-> eof, exc |-> "stream", saw |-> "threw"],
          [n |-> 0, eof |-> TRUE, exc |-> "none", saw |-> "eof"]}
         \cup {[n |-> k, eof |-> eof, exc |-> "none", saw |-> "data"] : k \in counts}

\* bio_stream_read: BIO_clear_retry_flags, stream->read, and a 0 from a
\* stream that is not finite turned into -1 with the retry-read flag set.
\* The result is the value the BIO call returns.
bio_stream_read(len, r) ==
    /\ eof' = r.eof /\ lastRead' = r.saw
    /\ retry' = (r.n = 0 /\ ~finite)
    /\ UNCHANGED <<bio, finite>>

BioReadResult(r) == IF r.n = 0 /\ ~finite THEN -1 ELSE r.n

\* NativeCrypto_BIO_read's "read <= 0" test.
ReadFailed(n) == n <= 0

\* BIO_OutputStream::write: the pending-exception test, NewByteArray,
\* SetByteArrayRegion, OutputStream#write and the exception test after it:
\* len, or -1 with an exception pending.
StreamWrite(len) ==
    {[n |-> -1, exc |-> "OOM"], [n |-> -1, exc |-> "stream"],
     [n |-> len, exc |-> "none"]}

\* Mutant of GetsLen: the PEM_LINE_LENGTH cap left out.
GetsLenUncapped(len) == len

\* BIO_InputStream::gets: len capped at PEM_LINE_LENGTH, read_internal of
\* len - 1 bytes by OpenSSLBIOInputStream#readLine, then buf[read] = '\0'.
GetsLen(len) == IF len > PemLineLength THEN PemLineLength ELSE len

-----------------------------------------------------------------------------
(* Java entry points                                                       *)

\* NativeCrypto_create_BIO_InputStream: null stream -> NullPointerException;
\* BIO_new failing -> 0; otherwise bio_stream_create (flags 0) and
\* bio_stream_assign of a new BIO_InputStream (mEof false).
create_BIO_InputStream ==
    /\ Idle /\ bio = "none"
    /\ \/ /\ Return("create_BIO_InputStream", 0, 0, "NPE")
          /\ UNCHANGED bioState
       \/ /\ Return("create_BIO_InputStream", 0, 0, "none")
          /\ UNCHANGED bioState
       \/ /\ Return("create_BIO_InputStream", 0, 1, "none")
          /\ bio' = "input" /\ eof' = FALSE /\ retry' = FALSE
          /\ lastRead' = "none"
          /\ \E isFinite \in BOOLEAN : finite' = isFinite
    /\ UNCHANGED <<pem, lines, errQueued, nul>>

\* NativeCrypto_create_BIO_OutputStream: as above with a BIO_OutputStream.
create_BIO_OutputStream ==
    /\ Idle /\ bio = "none"
    /\ \/ /\ Return("create_BIO_OutputStream", 0, 0, "NPE")
          /\ UNCHANGED bioState
       \/ /\ Return("create_BIO_OutputStream", 0, 0, "none")
          /\ UNCHANGED bioState
       \/ /\ Return("create_BIO_OutputStream", 0, 1, "none")
          /\ bio' = "output" /\ eof' = FALSE /\ retry' = FALSE
          /\ UNCHANGED <<finite, lastRead>>
    /\ UNCHANGED <<pem, lines, errQueued, nul>>

\* NativeCrypto_BIO_read: a null array -> NullPointerException; BIO_read of
\* the whole array, which BoringSSL answers with 0 for an empty one and
\* otherwise passes to bio_stream_read; a result <= 0 -> IOException.
BIO_read ==
    /\ Idle /\ bio = "input"
    /\ \/ /\ Return("BIO_read", 0, 0, "NPE")
          /\ UNCHANGED bioState
       \/ /\ Return("BIO_read", 0, 0, "IOException")
          /\ UNCHANGED bioState
       \/ \E size \in 1..MaxLen :
            \E r \in ReadInternal("none", 1..size) :
               /\ bio_stream_read(size, r)
               /\ call' = "BIO_read" /\ arg' = size
               /\ IF ReadFailed(BioReadResult(r))
                  THEN /\ ret' = 0
                       /\ exc' \in ThrowOver(r.exc, "IOException")
                  ELSE /\ ret' = BioReadResult(r) /\ exc' = "none"
    /\ UNCHANGED <<pem, lines, errQueued, nul>>

\* NativeCrypto_BIO_write: a null array -> NullPointerException; the
\* offset/length bounds test -> ArrayIndexOutOfBoundsException; BIO_write of
\* length bytes, which BoringSSL answers with 0 for length 0 and otherwise
\* passes to bio_stream_write; a result other than length ->
\* ERR_clear_error and IOException.
BIO_write ==
    /\ Idle /\ bio = "output"
    /\ \/ /\ Return("BIO_write", 0, 0, "NPE")
          /\ UNCHANGED bioState
       \/ \E size \in 0..MaxLen, offset \in -1..MaxLen + 1, length \in -1..MaxLen + 1 :
            /\ call' = "BIO_write" /\ arg' = length /\ ret' = 0
            /\ IF offset < 0 \/ offset > size \/ length < 0 \/ length > size - offset
               THEN /\ exc' = "IOOB"
                    /\ UNCHANGED bioState
               ELSE IF length = 0
               THEN /\ exc' = "none"
                    /\ UNCHANGED bioState
               ELSE \E w \in StreamWrite(length) :
                      /\ retry' = FALSE
                      /\ exc' \in IF w.n = length THEN {w.exc}
                                  ELSE ThrowOver(w.exc, "IOException")
                      /\ UNCHANGED <<bio, finite, eof, lastRead>>
    /\ UNCHANGED <<pem, lines, errQueued, nul>>

\* NativeCrypto_BIO_free_all: a null pointer -> NullPointerException;
\* otherwise bio_stream_destroy deletes the stream object.
BIO_free_all ==
    /\ Idle /\ bio # "none"
    /\ \/ /\ Return("BIO_free_all", 0, 0, "NPE")
          /\ UNCHANGED bioState
       \/ /\ Return("BIO_free_all", 0, 0, "none")
          /\ bio' = "none" /\ retry' = FALSE
          /\ UNCHANGED <<finite, eof, lastRead>>
    /\ UNCHANGED <<pem, lines, errQueued, nul>>

\* NativeCrypto_PEM_read_bio_X509 (and _X509_CRL, _PUBKEY, _PrivateKey)
\* through PEM_to_jlong: a null BIO -> NullPointerException; otherwise
\* PEM_read_bio, whose line reads are the PemGets steps.
PEM_read_bio ==
    /\ Idle /\ bio = "input"
    /\ \/ /\ Return("PEM_read_bio", 0, 0, "NPE")
          /\ UNCHANGED <<pem, lines>>
       \/ /\ call' = "PEM_read_bio" /\ arg' = 0 /\ ret' = 0 /\ exc' = "none"
          /\ pem' = "reading" /\ lines' = 0
    /\ UNCHANGED <<bioState, errQueued, nul>>

\* One BIO_gets of PEM_read_bio's line buffer: bio_stream_gets, then
\* BIO_InputStream::gets (len capped, read_internal of len - 1 bytes by
\* readLine, which may return 0, and buf[read] = '\0'), which leaves the
\* retry flags alone.  The PEM reader gives up on a result <= 0 (pushing
\* PEM_R_NO_START_LINE); after a line it reads on, has its object, or
\* fails to parse, with or without pushing an error.
PemGets ==
    /\ pem = "reading"
    /\ LET len == GetsLen(PemGetsLen) IN
       \E r \in ReadInternal(exc, 0..len - 1) :
          /\ nul' = r.n
          /\ eof' = r.eof /\ exc' = r.exc
          /\ IF r.n <= 0
             THEN /\ pem' = "failed" /\ errQueued' = TRUE
                  /\ UNCHANGED lines
             ELSE /\ lines' = lines + 1
                  /\ \/ pem' = "reading" /\ lines + 1 < MaxLines
                        /\ UNCHANGED errQueued
                     \/ pem' = "done" /\ UNCHANGED errQueued
                     \/ pem' = "failed" /\ errQueued' \in BOOLEAN
    /\ UNCHANGED <<bio, finite, retry, lastRead, call, arg, ret>>

\* PEM_to_jlong's "if (!env->ExceptionCheck()) jniThrowRuntimeException".
ThrowIfNoException(e) == IF e = "none" THEN {"RuntimeException"} ELSE {e}

\* PEM_to_jlong after PEM_read_bio: the object's address, or on failure
\* throwExceptionIfNecessary (an error of the PEM library is thrown as
\* RuntimeException; the queue is cleared), then the fallback
\* RuntimeException if no exception is pending.
PemReturn ==
    /\ pem \in {"done", "failed"}
    /\ pem' = "idle" /\ lines' = 0
    /\ IF pem = "done"
       THEN /\ ret' = 1 /\ UNCHANGED <<exc, errQueued>>
       ELSE /\ ret' = 0 /\ errQueued' = FALSE
            /\ \E e \in IF errQueued THEN ThrowOver(exc, "RuntimeException")
                        ELSE {exc} :
                 exc' \in ThrowIfNoException(e)
    /\ UNCHANGED <<bioState, nul, call, arg>>

Init ==
    /\ bio = "none" /\ finite = FALSE /\ eof = FALSE /\ retry = FALSE
    /\ lastRead = "none"
    /\ pem = "idle" /\ lines = 0 /\ errQueued = FALSE
    /\ nul = NoIndex
    /\ call = "none" /\ arg = 0 /\ ret = 0 /\ exc = "none"

Next ==
    \/ create_BIO_InputStream \/ create_BIO_OutputStream
    \/ BIO_read \/ BIO_write \/ BIO_free_all
    \/ PEM_read_bio \/ PemGets \/ PemReturn

Spec == Init /\ [][Next]_vars

-----------------------------------------------------------------------------
(* Properties                                                              *)

\* Every variable stays in its domain; the NUL bio_stream_gets writes is
\* never past the PEM_LINE_LENGTH-sized line BIO_InputStream::gets reads.
TypeOK ==
    /\ bio \in {"none", "input", "output"}
    /\ finite \in BOOLEAN /\ eof \in BOOLEAN /\ retry \in BOOLEAN
    /\ lastRead \in {"none", "threw", "eof", "data"}
    /\ pem \in {"idle", "reading", "done", "failed"}
    /\ lines \in 0..MaxLines /\ errQueued \in BOOLEAN
    /\ nul \in {NoIndex} \cup -1..PemLineLength - 1
    /\ call \in Calls /\ arg \in -1..MaxLen + 1 /\ ret \in -1..MaxLen
    /\ exc \in Exceptions

\* BIO_InputStream::gets terminates the line inside the caller's buffer:
\* the NUL goes to an index in 0..len-1 of the len it was given.
GetsNulInsideBuffer ==
    nul # NoIndex => nul \in 0..GetsLen(PemGetsLen) - 1
=============================================================================
