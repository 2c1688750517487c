----------------------------- MODULE EvpDigest -------------------------------
(***************************************************************************)
(* The message-digest, signing and verification entry points of          *)
(* org_conscrypt_NativeCrypto.cpp (the NativeCrypto_EVP_MD_CTX_ and        *)
(* NativeCrypto_EVP_Digest functions), with the helpers they share: the  *)
(* context lookup fromContextObject, the bounds macros, evpUpdate's chunk *)
(* loop and throwExceptionIfNecessary over the calling thread's BoringSSL  *)
(* error queue.                                                            *)
(*                                                                         *)
(* One Java thread calls one entry point at a time on one EVP_MD_CTX.  The *)
(* library is the environment: an EVP_* call succeeds, or fails and       *)
(* pushes an error on the thread's queue.  Only whether an error is        *)
(* queued is kept; throwExceptionIfNecessary throws the oldest, which is   *)
(* stale when it was queued before the current Java call began.  A Java   *)
(* byte[] is a length; what update_func is fed is the sequence of array    *)
(* indices whose bytes it gets, Garbage for a byte of a buffer that no     *)
(* GetByteArrayRegion filled.  Return values are abstracted to "ok", the   *)
(* entry point's failure value "fail", a verdict "true"/"false", or        *)
(* "void".  The ScopedByteArrayRO/RW and ScopedUtfChars helpers of         *)
(* libnativehelper throw NullPointerException for a null array and leave  *)
(* OutOfMemoryError pending when the JVM cannot pin or copy it.            *)
(***************************************************************************)
EXTENDS Integers, Sequences

CONSTANTS
    StackBuf,   \* evpUpdate's stack buffer, jbyte buf[1024]
    ChunkBuf,   \* evpUpdate's largest heap chunk, 65536
    MaxArray    \* the longest Java array in a call

ASSUME StackBuf \in Nat /\ ChunkBuf > StackBuf /\ MaxArray > ChunkBuf

Garbage == -1      \* a byte update_func gets from a buffer nothing filled
NoArray == -1      \* arrLen of a call that passes no Java array

VARIABLES
    ctx,        \* the EVP_MD_CTX Java's NativeRef holds: "none" or "live"
    errQueued,  \* an error is on the thread's BoringSSL error queue
    phase,      \* "idle" between calls, "chunks" inside evpUpdate's loop
    arrLen,     \* length of the array of the current update call
    reqOff,     \* its inOffset
    reqLen,     \* its inLength
    pos,        \* evpUpdate's in_offset
    remaining,  \* evpUpdate's remaining
    bufSize,    \* evpUpdate's buf_size
    fed,        \* the bytes update_func got in this update call, in order
    mdCall,     \* the last entry point called
    mdRet,      \* what it returned
    mdExc       \* the exception pending for Java when it returned

vars == <<ctx, errQueued, phase, arrLen, reqOff, reqLen, pos,
          remaining, bufSize, fed, mdCall, mdRet, mdExc>>
updVars == <<arrLen, reqOff, reqLen, pos, remaining, bufSize, fed>>

Kinds == {"Digest", "Sign", "Verify"}
Exceptions == {"none", "NPE", "IOOB", "OOM", "RuntimeException", "lib",
               "stale"}
UpdateCalls == {"EVP_" \o k \o "Update" : k \in Kinds}
DirectCalls == {"EVP_" \o k \o "UpdateDirect" : k \in Kinds}
Calls == {"none", "EVP_MD_CTX_create", "EVP_MD_CTX_cleanup",
          "EVP_MD_CTX_destroy", "EVP_MD_CTX_copy_ex", "EVP_DigestFinal_ex",
          "EVP_DigestInit_ex", "EVP_get_digestbyname", "EVP_MD_size",
          "EVP_MD_block_size", "EVP_DigestSignInit", "EVP_DigestVerifyInit",
          "EVP_DigestSignFinal", "EVP_DigestVerifyFinal"}
         \cup UpdateCalls \cup DirectCalls

Idle == phase = "idle"

\* A context argument: a null object, or the object holding the live ctx.
CtxArgs == {"null"} \cup (IF ctx = "live" THEN {"live"} ELSE {})

\* The entry point's return and pending exception; the queue is untouched.
Return(c, r, e) ==
    /\ mdCall' = c /\ mdRet' = r /\ mdExc' = e
    /\ UNCHANGED errQueued

-----------------------------------------------------------------------------
(* Shared helpers                                                          *)

\* fromContextObject: a null object (or one whose context field is 0)
\* throws NullPointerException and yields nullptr; the callers return at
\* once on nullptr.  The exception it leaves pending.
fromContextObject(arg) == IF arg = "null" THEN "NPE" ELSE "none"

\* ARRAY_CHUNK_INVALID and ARRAY_OFFSET_LENGTH_INVALID (computed in ssize_t,
\* so no arithmetic overflows for jint arguments).
ChunkInvalid(len, off, n) == off < 0 \/ off > len \/ n < 0 \/ n > len - off

\* The exception throwExceptionIfNecessary makes of the oldest queued
\* error: its class is abstracted to "lib", or "stale" when the error was
\* already queued when the Java call began.  No step inside a call leaves
\* an error queued and goes on, so an error queued in the state a failing
\* library call starts from predates the call.
LibExc == IF errQueued THEN "stale" ELSE "lib"

\* A library call that failed and pushed an error, then
\* throwExceptionIfNecessary: the oldest error is thrown (over an
\* exception already pending, either may reach Java) and ERR_clear_error
\* empties the queue.
LibThrow(pending) ==
    /\ mdExc' \in IF pending = "none" THEN {LibExc} ELSE {pending, LibExc}
    /\ errQueued' = FALSE

\* GetByteArrayRegion of n bytes at start: the indices it copies, or, when
\* the region is not inside the array, nothing copied (the buffer keeps
\* whatever it held) and ArrayIndexOutOfBoundsException pending.
\* len is the array's length.
RegionBytes(len, start, n) ==
    IF start >= 0 /\ start + n <= len
    THEN [i \in 1..n |-> start + i - 1]
    ELSE [i \in 1..n |-> Garbage]
RegionExc(len, start, n) ==
    IF start >= 0 /\ start + n <= len THEN "none" ELSE "IOOB"

\* Mutant of BufSize: the 64 kB cap left out.
BufSizeUncapped(n) == n

\* The heap buffer evpUpdate allocates for a chunk of n bytes.
BufSize(n) == IF n >= ChunkBuf THEN ChunkBuf ELSE n

\* Mutant of ChunkSize: always a full buffer.
ChunkSizeFull(rem, size) == size

\* The chunk evpUpdate's loop copies next.
ChunkSize(rem, size) == IF rem >= size THEN size ELSE rem

\* The array arguments of a call: offsets and lengths from one below 0 to
\* one past the end of the array, which reach every edge of the bounds
\* tests.  A null array (NoArray) is given the range of an empty one.  A
\* signature is SigLen bytes long.
Bound(len) == IF len = NoArray THEN 0 ELSE len
SigLen == 1

\* A call other than an evpUpdate on an array: the loop's locals are gone.
NoUpdate ==
    /\ arrLen' = NoArray /\ reqOff' = 0 /\ reqLen' = 0
    /\ pos' = 0 /\ remaining' = 0 /\ bufSize' = 0 /\ fed' = <<>>

\* The indices inOffset..inOffset+inLength-1 that an update call names.
Requested == [i \in 1..reqLen |-> reqOff + i - 1]

-----------------------------------------------------------------------------
(* Context lifetime                                                        *)

\* NativeCrypto_EVP_MD_CTX_create: OutOfMemoryError when EVP_MD_CTX_create
\* fails, else the new context's address, which Java wraps in a NativeRef.
EVP_MD_CTX_create ==
    /\ Idle /\ ctx = "none"
    /\ \/ Return("EVP_MD_CTX_create", "fail", "OOM") /\ UNCHANGED ctx
       \/ Return("EVP_MD_CTX_create", "ok", "none") /\ ctx' = "live"
    /\ UNCHANGED phase /\ NoUpdate

\* NativeCrypto_EVP_MD_CTX_cleanup: fromContextObject, then
\* EVP_MD_CTX_cleanup, which leaves the context allocated and reusable.
EVP_MD_CTX_cleanup ==
    /\ Idle
    /\ \E a \in CtxArgs :
          Return("EVP_MD_CTX_cleanup", "void", fromContextObject(a))
    /\ UNCHANGED <<ctx, phase>> /\ NoUpdate

\* NativeCrypto_EVP_MD_CTX_destroy, called by NativeRef's finalizer with
\* the address it holds: EVP_MD_CTX_destroy unless it is 0.
EVP_MD_CTX_destroy ==
    /\ Idle /\ ctx = "live"
    /\ Return("EVP_MD_CTX_destroy", "void", "none")
    /\ ctx' = "none"
    /\ UNCHANGED phase /\ NoUpdate

\* NativeCrypto_EVP_MD_CTX_copy_ex: dst, then src, through
\* fromContextObject; a failed EVP_MD_CTX_copy_ex throws RuntimeException
\* and calls ERR_clear_error.
EVP_MD_CTX_copy_ex ==
    /\ Idle
    /\ \E dst, src \in CtxArgs :
          IF dst = "null"
          THEN Return("EVP_MD_CTX_copy_ex", "fail", fromContextObject(dst))
          ELSE IF src = "null"
          THEN Return("EVP_MD_CTX_copy_ex", "fail", fromContextObject(src))
          ELSE \/ Return("EVP_MD_CTX_copy_ex", "ok", "none")
               \/ /\ mdCall' = "EVP_MD_CTX_copy_ex" /\ mdRet' = "fail"
                  /\ mdExc' = "RuntimeException"
                  /\ errQueued' = FALSE
    /\ UNCHANGED <<ctx, phase>> /\ NoUpdate

-----------------------------------------------------------------------------
(* Digests                                                                 *)

\* NativeCrypto_EVP_DigestInit_ex: context, then a null EVP_MD ->
\* NullPointerException; a failed EVP_DigestInit_ex throws from the queue
\* and returns 0 if that threw, else returns ok.
EVP_DigestInit_ex ==
    /\ Idle
    /\ \E a \in CtxArgs, md \in {"null", "md"} :
          IF a = "null"
          THEN Return("EVP_DigestInit_ex", "fail", fromContextObject(a))
          ELSE IF md = "null"
          THEN Return("EVP_DigestInit_ex", "fail", "NPE")
          ELSE \/ Return("EVP_DigestInit_ex", "ok", "none")
               \/ /\ mdCall' = "EVP_DigestInit_ex" /\ mdRet' = "fail"
                  /\ LibThrow("none")
    /\ UNCHANGED <<ctx, phase>> /\ NoUpdate

\* NativeCrypto_EVP_DigestFinal_ex: context; a null hash array ->
\* NullPointerException; ScopedByteArrayRW failing -> -1; then
\* EVP_DigestFinal_ex into hash + offset, and on failure
\* throwExceptionIfNecessary; bytesWritten is returned either way (-1 if
\* the library left it alone).
EVP_DigestFinal_ex ==
    /\ Idle
    /\ \E a \in CtxArgs, hash \in {"null", "array"} :
          IF a = "null"
          THEN Return("EVP_DigestFinal_ex", "fail", fromContextObject(a))
          ELSE IF hash = "null"
          THEN Return("EVP_DigestFinal_ex", "fail", "NPE")
          ELSE \/ Return("EVP_DigestFinal_ex", "fail", "OOM")
               \/ Return("EVP_DigestFinal_ex", "ok", "none")
               \/ /\ mdCall' = "EVP_DigestFinal_ex" /\ mdRet' = "fail"
                  /\ LibThrow("none")
    /\ UNCHANGED <<ctx, phase>> /\ NoUpdate

\* NativeCrypto_EVP_get_digestbyname: a null name -> NullPointerException
\* and -1; ScopedUtfChars failing -> 0; a name other than md4, md5, sha1,
\* sha224, sha256, sha384, sha512 (any case) -> RuntimeException and 0.
EVP_get_digestbyname ==
    /\ Idle
    /\ \/ Return("EVP_get_digestbyname", "fail", "NPE")
       \/ Return("EVP_get_digestbyname", "fail", "OOM")
       \/ Return("EVP_get_digestbyname", "fail", "RuntimeException")
       \/ Return("EVP_get_digestbyname", "ok", "none")
    /\ UNCHANGED <<ctx, phase>> /\ NoUpdate

\* NativeCrypto_EVP_MD_size and NativeCrypto_EVP_MD_block_size: a null
\* EVP_MD -> NullPointerException and -1, else the library's answer.
EVP_MD_size ==
    /\ Idle
    /\ \E f \in {"EVP_MD_size", "EVP_MD_block_size"} :
          \/ Return(f, "fail", "NPE")
          \/ Return(f, "ok", "none")
    /\ UNCHANGED <<ctx, phase>> /\ NoUpdate

-----------------------------------------------------------------------------
(* Signing and verification                                                *)

\* evpDigestSignVerifyInit (EVP_DigestSignInit / EVP_DigestVerifyInit):
\* the md context, then the key through fromContextObject, then a null
\* EVP_MD -> NullPointerException; init_func <= 0 throws from the queue.
evpDigestSignVerifyInit ==
    /\ Idle
    /\ \E k \in {"Sign", "Verify"}, a \in CtxArgs, key \in {"null", "live"},
      md \in {"null", "md"} :
          LET c == "EVP_Digest" \o k \o "Init" IN
          IF a = "null"
          THEN Return(c, "fail", fromContextObject(a))
          ELSE IF key = "null"
          THEN Return(c, "fail", fromContextObject(key))
          ELSE IF md = "null"
          THEN Return(c, "fail", "NPE")
          ELSE \/ Return(c, "ok", "none")
               \/ mdCall' = c /\ mdRet' = "fail" /\ LibThrow("none")
    /\ UNCHANGED <<ctx, phase>> /\ NoUpdate
-----------------------------------------------------------------------------
(* evpUpdate: EVP_DigestUpdate, EVP_DigestSignUpdate, EVP_DigestVerifyUpdate *)

\* The update_func call on bytes, after the copy left exception pending:
\* it succeeds, or it fails, pushes an error and throwExceptionIfNecessary
\* runs.
UpdateFunc(pending) ==
    \/ mdExc' = pending /\ UNCHANGED errQueued
    \/ LibThrow(pending)

\* evpUpdate on a Java array (NativeCrypto_EVP_Digest*Update): context; a
\* null array -> NullPointerException; ARRAY_CHUNK_INVALID ->
\* ArrayIndexOutOfBoundsException; a zero length returns.  Then, when
\* GetByteArrayElements is likely to copy (isGetByteArrayElementsLikelyTo-
\* ReturnACopy, outside this repository), a chunk of at most StackBuf bytes
\* is copied to the stack and hashed, and a larger one enters the loop
\* with a heap buffer of min(inLength, ChunkBuf) bytes (new never yields
\* nullptr); otherwise the pinned elements, from in_offset, are hashed in
\* one call, and failing to pin them is OutOfMemoryError.
EVP_Update ==
    /\ Idle
    /\ \E k \in Kinds, a \in CtxArgs, len \in {NoArray} \cup 0..MaxArray :
       \E off \in -1..Bound(len) + 1 : \E n \in -1..Bound(len) - off + 1 :
       LET c == "EVP_" \o k \o "Update" IN
       /\ mdCall' = c /\ mdRet' = "void"
       /\ arrLen' = len /\ reqOff' = off /\ reqLen' = n
       /\ IF a = "null" \/ len = NoArray \/ ChunkInvalid(len, off, n) \/ n = 0
          THEN /\ mdExc' = IF a = "null" THEN fromContextObject(a)
                           ELSE IF len = NoArray THEN "NPE"
                           ELSE IF ChunkInvalid(len, off, n) THEN "IOOB"
                           ELSE "none"
               /\ fed' = <<>>
               /\ UNCHANGED <<errQueued, phase, pos, remaining, bufSize>>
          ELSE \/ /\ n <= StackBuf
                  /\ fed' = RegionBytes(len, off, n)
                  /\ UpdateFunc(RegionExc(len, off, n))
                  /\ UNCHANGED <<phase, pos, remaining, bufSize>>
               \/ /\ n > StackBuf
                  /\ phase' = "chunks" /\ pos' = off /\ remaining' = n
                  /\ bufSize' = BufSize(n)
                  /\ fed' = <<>> /\ mdExc' = "none"
                  /\ UNCHANGED errQueued
               \/ /\ mdExc' = "OOM" /\ fed' = <<>>
                  /\ UNCHANGED <<errQueued, phase, pos, remaining, bufSize>>
               \/ /\ fed' = RegionBytes(len, off, n)
                  /\ UpdateFunc("none")
                  /\ UNCHANGED <<phase, pos, remaining, bufSize>>
    /\ UNCHANGED ctx

\* One turn of evpUpdate's loop: GetByteArrayRegion of the next chunk into
\* the heap buffer, update_func on it, and on success the advance of
\* in_offset and remaining; a failing update_func breaks out of the loop
\* to throwExceptionIfNecessary.
UpdateChunk ==
    /\ phase = "chunks" /\ remaining > 0
    /\ LET cs == ChunkSize(remaining, bufSize)
           pending == IF mdExc # "none" THEN mdExc ELSE RegionExc(arrLen, pos, cs)
       IN /\ fed' = fed \o RegionBytes(arrLen, pos, cs)
          /\ \/ /\ mdExc' = pending /\ UNCHANGED errQueued
                /\ pos' = pos + cs /\ remaining' = remaining - cs
                /\ UNCHANGED phase
             \/ /\ LibThrow(pending) /\ phase' = "idle"
                /\ UNCHANGED <<pos, remaining>>
    /\ UNCHANGED <<ctx, arrLen, reqOff, reqLen, bufSize, mdCall, mdRet>>

\* The loop ends when nothing remains; evpUpdate returns.
UpdateDone ==
    /\ phase = "chunks" /\ remaining <= 0
    /\ phase' = "idle"
    /\ UNCHANGED <<ctx, errQueued, updVars, mdCall, mdRet, mdExc>>

\* evpUpdate on a native address (NativeCrypto_EVP_Digest*UpdateDirect):
\* context; a null address -> NullPointerException; update_func on
\* inLength bytes there.
EVP_UpdateDirect ==
    /\ Idle
    /\ \E k \in Kinds, a \in CtxArgs, p \in {"null", "ptr"} :
       LET c == "EVP_" \o k \o "UpdateDirect" IN
       /\ mdCall' = c /\ mdRet' = "void"
       /\ IF a = "null" \/ p = "null"
          THEN mdExc' = "NPE" /\ UNCHANGED errQueued
          ELSE UpdateFunc("none")
    /\ UNCHANGED <<ctx, phase>> /\ NoUpdate

-----------------------------------------------------------------------------
(* Final steps of signing and verification                                 *)

\* NativeCrypto_EVP_DigestSignFinal: context; EVP_DigestSignFinal asked
\* for the maximum length, then for the signature, each failure thrown
\* from the queue; NewByteArray failing -> OutOfMemoryError.  (The
\* actualLen > maxLen test cannot fire: the library never writes more
\* than it announced.)
EVP_DigestSignFinal ==
    /\ Idle
    /\ \E a \in CtxArgs :
          IF a = "null"
          THEN Return("EVP_DigestSignFinal", "fail", fromContextObject(a))
          ELSE \/ /\ mdCall' = "EVP_DigestSignFinal" /\ mdRet' = "fail"
                  /\ LibThrow("none")
               \/ Return("EVP_DigestSignFinal", "fail", "OOM")
               \/ Return("EVP_DigestSignFinal", "ok", "none")
    /\ UNCHANGED <<ctx, phase>> /\ NoUpdate

\* The queue after EVP_DigestVerifyFinal gave a verdict (q: whether an
\* error is then queued): "Clear the error queue to prevent its state from
\* affecting future operations".
VerifiedQueue(q) == FALSE

\* NativeCrypto_EVP_DigestVerifyFinal: context; ScopedByteArrayRO of the
\* signature (null -> NullPointerException, unpinnable -> OutOfMemory-
\* Error); ARRAY_OFFSET_LENGTH_INVALID -> ArrayIndexOutOfBoundsException;
\* then EVP_DigestVerifyFinal: 1 verified, 0 did not verify (pushing
\* BAD_SIGNATURE), anything else an error thrown from the queue.
EVP_DigestVerifyFinal ==
    /\ Idle
    /\ \E a \in CtxArgs, sig \in {"null", "unpinned", "array"} :
       \E off \in -1..SigLen + 1 : \E n \in -1..SigLen - off + 1 :
          IF a = "null"
          THEN Return("EVP_DigestVerifyFinal", "fail", fromContextObject(a))
          ELSE IF sig = "null"
          THEN Return("EVP_DigestVerifyFinal", "fail", "NPE")
          ELSE IF sig = "unpinned"
          THEN Return("EVP_DigestVerifyFinal", "fail", "OOM")
          ELSE IF ChunkInvalid(SigLen, off, n)
          THEN Return("EVP_DigestVerifyFinal", "fail", "IOOB")
          ELSE /\ mdCall' = "EVP_DigestVerifyFinal"
               /\ \/ mdRet' = "true" /\ mdExc' = "none"
                     /\ errQueued' = VerifiedQueue(errQueued)
                  \/ mdRet' = "false" /\ mdExc' = "none"
                     /\ errQueued' = VerifiedQueue(TRUE)
                  \/ mdRet' = "fail" /\ LibThrow("none")
    /\ UNCHANGED <<ctx, phase>> /\ NoUpdate

-----------------------------------------------------------------------------

Init ==
    /\ ctx = "none" /\ errQueued = FALSE /\ phase = "idle"
    /\ arrLen = NoArray /\ reqOff = 0 /\ reqLen = 0
    /\ pos = 0 /\ remaining = 0 /\ bufSize = 0 /\ fed = <<>>
    /\ mdCall = "none" /\ mdRet = "void" /\ mdExc = "none"

Next ==
    \/ EVP_MD_CTX_create \/ EVP_MD_CTX_cleanup \/ EVP_MD_CTX_destroy
    \/ EVP_MD_CTX_copy_ex
    \/ EVP_DigestInit_ex \/ EVP_DigestFinal_ex
    \/ EVP_get_digestbyname \/ EVP_MD_size
    \/ evpDigestSignVerifyInit
    \/ EVP_Update \/ UpdateChunk \/ UpdateDone \/ EVP_UpdateDirect
    \/ EVP_DigestSignFinal \/ EVP_DigestVerifyFinal

Spec == Init /\ [][Next]_vars

-----------------------------------------------------------------------------
(* Properties                                                              *)

\* The domains of the context and of evpUpdate's locals.
StateTypeOK ==
    /\ ctx \in {"none", "live"} /\ errQueued \in BOOLEAN
    /\ phase \in {"idle", "chunks"}
    /\ arrLen \in {NoArray} \cup 0..MaxArray
    /\ reqOff \in -1..MaxArray + 1 /\ reqLen \in -1..MaxArray + 2
    /\ pos \in -1..MaxArray + ChunkBuf
    /\ remaining \in -ChunkBuf..MaxArray + 1 /\ bufSize \in 0..ChunkBuf
    /\ Len(fed) <= MaxArray + ChunkBuf
    /\ \A i \in DOMAIN fed : fed[i] \in {Garbage} \cup 0..MaxArray + ChunkBuf

\* Every variable stays in its domain.
TypeOK ==
    /\ StateTypeOK
    /\ mdCall \in Calls /\ mdRet \in {"void", "ok", "fail", "true", "false"}
    /\ mdExc \in Exceptions

\* evpUpdate hashes the caller's chunk and nothing else: when an update on
\* a Java array returns, update_func has been fed bytes of that array at
\* inOffset, inOffset+1, ... in order and no others, all of them when no
\* exception is pending.  Between the ARRAY_CHUNK_INVALID test, the stack
\* or heap copy, the chunk size of each turn of the loop and the advance
\* of in_offset, one slip feeds bytes outside the chunk or skips some.
UpdateHashesTheChunk ==
    (Idle /\ mdCall \in UpdateCalls) =>
        /\ Len(fed) <= Len(Requested)
        /\ fed = SubSeq(Requested, 1, Len(fed))
        /\ mdExc = "none" => fed = Requested

\* An exception built from the BoringSSL error queue reports an error of
\* the call that throws it: no entry point returns to Java with an error
\* left on the thread's queue (EVP_DigestVerifyFinal's "did not verify"
\* pushes one), where a later failing call would report it instead of
\* its own.
NoStaleErrorThrown == mdExc # "stale"

\* An entry point that returns its failure value (0, -1 or null) always
\* leaves an exception pending, so Java never takes a failure for a
\* result; a verification that did not verify returns false with none.
FailureLeavesException ==
    (Idle /\ mdRet = "fail") => mdExc # "none"
=============================================================================
