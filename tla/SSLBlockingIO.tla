---------------------------- MODULE SSLBlockingIO ----------------------------
(***************************************************************************)
(* The blocking, cancellable I/O coordinator of NativeCrypto.cpp: the     *)
(* per-connection AppData (aliveAndKicking, waitingThreads, the emergency  *)
(* pipe fdsEmergency and its mutex), sslSelect, sslNotify, the retry loops *)
(* of NativeCrypto_SSL_do_handshake, sslRead and sslWrite, and             *)
(* NativeCrypto_SSL_interrupt.                                             *)
(*                                                                         *)
(* The TLS engine (SSL_do_handshake, SSL_read, SSL_write) is an opaque     *)
(* collaborator: each call returns one classification chosen              *)
(* nondeterministically.  The emergency pipe is abstracted to the number   *)
(* of token bytes it holds; the socket to the readiness events poll can    *)
(* report.  Threads are model values; one reader (which performs the       *)
(* handshake first) and one writer, per the contract in the AppData        *)
(* comment.                                                                *)
(***************************************************************************)
EXTENDS Naturals, FiniteSets

CONSTANTS
    Readers,            \* threads calling SSL_do_handshake, then SSL_read
    Writers,            \* threads calling SSL_write
    NoThread,           \* the mutex is free
    PipeCapacity,       \* bytes the emergency pipe holds before write(2) blocks
    MaxWriteLen,        \* largest len passed to SSL_write
    Timeouts,           \* timeout_millis values callers pass (<= 0: forever)
    MaxInterrupts,      \* bound on calls of NativeCrypto_SSL_interrupt
    MaxProgressWakes,   \* bound on sslNotify calls made after moving data
    PollCanBeInterrupted, \* whether a signal may make poll(2) fail with EINTR
    CloseAwaitsIO       \* the closing caller enters SSL_shutdown and SSL_free
                        \* only with no call in flight, and admits none until
                        \* SSL_free (the caller is outside this repository)

ASSUME /\ Readers \cap Writers = {}
       /\ Cardinality(Readers) <= 1 /\ Cardinality(Writers) <= 1
       /\ NoThread \notin Readers \cup Writers
       /\ PipeCapacity \in Nat \ {0}
       /\ MaxWriteLen \in Nat \ {0}
       /\ Timeouts \subseteq Nat /\ Timeouts # {}
       /\ MaxInterrupts \in Nat /\ MaxProgressWakes \in Nat
       /\ PollCanBeInterrupted \in BOOLEAN /\ CloseAwaitsIO \in BOOLEAN

Threads == Readers \cup Writers

VARIABLES
    aliveAndKicking,  \* AppData::aliveAndKicking (volatile, read unlocked)
    waitingThreads,   \* AppData::waitingThreads
    pipeTokens,       \* bytes written to fdsEmergency[1] and not yet read
    mutex,            \* holder of AppData::mutex
    initFinished,     \* SSL_is_init_finished || SSL_in_false_start
    hsTried,          \* the reader has called SSL_do_handshake
    fdClosed,         \* the socket's FileDescriptor reports isClosed()
    sockBlocking,     \* the socket is in blocking mode (setBlocking)
    pc,               \* per thread: where in its JNI call it is
    op,               \* per thread: "handshake", "read" or "write"
    len,              \* per thread: bytes left to read/write (sslWrite's len)
    timeout,          \* per thread: timeout_millis of the current call
    sslError,         \* per thread: classification of the last engine call
    pollResult,       \* per thread: "ready" (>0), "timeout" (0), "error" (-1),
                      \*   "thrown" (THROWN_EXCEPTION)
    pollIn,           \* per thread: fds[1].revents & POLLIN
    errnoEintr,       \* per thread: errno == EINTR when the pipe is drained
    outcome,          \* per thread: what the last JNI call returned to Java
    closer,           \* the closing thread: in NativeCrypto_SSL_interrupt,
                      \*   NativeCrypto_SSL_shutdown or past NativeCrypto_SSL_free
    interrupts,       \* calls of NativeCrypto_SSL_interrupt so far
    progressWakes,    \* sslNotify calls made by sslRead/sslWrite so far
    peerClosed,       \* ghost: the engine has reported end of stream
    ioLocked,         \* threads whose I/O the close path has locked out
    created,          \* NativeCrypto_SSL_new: "no" (not yet called), "yes"
                      \*   (returned an SSL with AppData), "failed" (returned 0)
    pipeFds           \* fdsEmergency: "unset" (-1), "open", "closed"

shared == <<aliveAndKicking, waitingThreads, pipeTokens, mutex, initFinished,
            hsTried, fdClosed, sockBlocking>>
locals == <<pc, op, len, timeout, sslError, pollResult, pollIn, errnoEintr,
            outcome>>
env == <<closer, interrupts, progressWakes, peerClosed, ioLocked>>
lifecycle == <<created, pipeFds>>
vars == <<shared, locals, env, lifecycle>>

PCs == {"idle", "hs_loop", "hs_step", "rw_loop", "rw_step", "rw_notify",
        "poll", "drain", "drain_more", "blocked"}
\* "blocked": inside an engine call that waits in the kernel because the
\* socket is in blocking mode.
CloserPCs == {"idle", "notify1", "notify2", "sd_engine", "sd_blocked", "sd_done",
              "freed"}
Outcomes == {"none", "ok", "eof", "timeout", "ssl_exc", "thrown"}
\* SSL_get_error classes; WANT_READ and WANT_WRITE differ only in which
\* readiness event poll waits for, which the socket abstraction leaves open.
ReadErrors == {"NONE", "ZERO_RETURN", "WANT", "SYSCALL_EOF", "SYSCALL_EINTR",
               "SSL", "CALLBACK_EXC"}
HandshakeErrors == {"OK", "WANT", "EINTR", "FAIL", "CALLBACK_EXC"}

-----------------------------------------------------------------------------
(* Helpers                                                                 *)

\* Threads counted in waitingThreads: between the increment and sslSelect's
\* decrement.
Registered(t) == pc[t] \in {"poll", "drain", "drain_more"}

\* No JNI call of a reader or writer is in flight.
Quiescent == \A t \in Threads : pc[t] = "idle"

\* The caller may start a call on thread t: never after SSL_free, nor once
\* the close path has locked t's I/O out.
CallAdmitted(t) == created = "yes" /\ closer # "freed" /\ t \notin ioLocked

\* A JNI call returns to Java with result r; locals are reset.
Return(t, r) ==
    /\ pc' = [pc EXCEPT ![t] = "idle"]
    /\ outcome' = [outcome EXCEPT ![t] = r]
    /\ sslError' = [sslError EXCEPT ![t] = "none"]
    /\ pollResult' = [pollResult EXCEPT ![t] = "none"]
    /\ pollIn' = [pollIn EXCEPT ![t] = FALSE]
    /\ errnoEintr' = [errnoEintr EXCEPT ![t] = FALSE]

\* safeSslClear: SSL_clear resets the handshake state.
SafeSslClear == initFinished' = FALSE

\* sslNotify writes one byte to fdsEmergency[1], a blocking descriptor: with
\* the pipe full the write (and so the caller) blocks; this is the guard.
SslNotify(t) ==
    /\ pipeTokens < PipeCapacity
    /\ pipeTokens' = pipeTokens + 1

-----------------------------------------------------------------------------
Init ==
    /\ aliveAndKicking = TRUE
    /\ waitingThreads = 0
    /\ pipeTokens = 0
    /\ mutex = NoThread
    /\ initFinished = FALSE
    /\ hsTried = FALSE
    /\ fdClosed = FALSE
    /\ sockBlocking = TRUE
    /\ pc = [t \in Threads |-> "idle"]
    /\ op = [t \in Threads |-> IF t \in Readers THEN "handshake" ELSE "write"]
    /\ len = [t \in Threads |-> 0]
    /\ timeout = [t \in Threads |-> 0]
    /\ sslError = [t \in Threads |-> "none"]
    /\ pollResult = [t \in Threads |-> "none"]
    /\ pollIn = [t \in Threads |-> FALSE]
    /\ errnoEintr = [t \in Threads |-> FALSE]
    /\ outcome = [t \in Threads |-> "none"]
    /\ closer = "idle"
    /\ interrupts = 0
    /\ progressWakes = 0
    /\ peerClosed = FALSE
    /\ ioLocked = {}
    /\ created = "no"
    /\ pipeFds = "unset"

-----------------------------------------------------------------------------
(* NativeCrypto_SSL_new and AppData::create                                *)

\* Mutant of AppDataCreate: a failure after pipe(2) returns without
\* running ~AppData, as a raw "new AppData()" instead of the unique_ptr
\* would.
AppDataCreateLeaky(fail) ==
    pipeFds' = IF fail = "pipe" THEN "unset" ELSE "open"

\* AppData::create: pipe(2) (on failure fdsEmergency stays -1), then
\* setBlocking(fdsEmergency[0], false), then MUTEX_SETUP.  A failure returns
\* nullptr and the unique_ptr's ~AppData closes whatever was opened.
\* MUTEX_SETUP is pthread_mutex_init, which returns 0 or an error number,
\* never the -1 tested, so the third step never fails.
AppDataCreate(fail) ==
    pipeFds' = CASE fail = "pipe" -> "unset"
                 [] fail = "fcntl" -> "closed"
                 [] OTHER -> "open"

\* NativeCrypto_SSL_new: to_SSL_CTX (NullPointerException on 0), SSL_new
\* (SSLException, no AppData made), then AppData::create; on its failure
\* SSLException and ERR_clear_error, and the SSL's unique_ptr frees it.
\* Either failure returns 0; success attaches the AppData, whose fields
\* are those of Init.
SSL_new ==
    /\ created = "no"
    /\ \/ /\ created' = "failed"   \* null SSL_CTX, or SSL_new failed
          /\ UNCHANGED pipeFds
       \/ \E fail \in {"pipe", "fcntl", "none"} :
            /\ AppDataCreate(fail)
            /\ created' = IF fail = "none" THEN "yes" ELSE "failed"
    /\ UNCHANGED <<shared, locals, env>>

-----------------------------------------------------------------------------
(* NativeCrypto_SSL_do_handshake                                           *)

\* The prologue: fd.isClosed(), SSL_set_fd and setBlocking(fd, false), each
\* failing path calling safeSslClear; then the retry loop.
DoHandshake(t) ==
    /\ t \in Readers /\ pc[t] = "idle" /\ ~hsTried /\ CallAdmitted(t)
    /\ hsTried' = TRUE
    /\ op' = [op EXCEPT ![t] = "handshake"]
    /\ \E tm \in Timeouts : timeout' = [timeout EXCEPT ![t] = tm]
    /\ \/ /\ fdClosed
          /\ SafeSslClear /\ Return(t, "thrown")
          /\ UNCHANGED sockBlocking
       \/ /\ ~fdClosed
          /\ \E setupOk \in BOOLEAN :
               IF setupOk
               THEN /\ sockBlocking' = FALSE
                    /\ pc' = [pc EXCEPT ![t] = "hs_loop"]
                    /\ outcome' = [outcome EXCEPT ![t] = "none"]
                    /\ UNCHANGED <<initFinished, sslError, pollResult, pollIn,
                                   errnoEintr>>
               ELSE SafeSslClear /\ Return(t, "ssl_exc") /\ UNCHANGED sockBlocking
    /\ UNCHANGED <<aliveAndKicking, waitingThreads, pipeTokens, mutex, fdClosed,
                   len, env>>
    /\ UNCHANGED lifecycle

\* while (appData->aliveAndKicking): on exit ret is 0 or < 0, so either way
\* an SSLHandshakeException is thrown after safeSslClear.
HandshakeLoop(t) ==
    /\ pc[t] = "hs_loop"
    /\ IF aliveAndKicking
       THEN /\ pc' = [pc EXCEPT ![t] = "hs_step"]
            /\ UNCHANGED <<initFinished, outcome, sslError, pollResult, pollIn,
                           errnoEintr>>
       ELSE SafeSslClear /\ Return(t, "ssl_exc")
    /\ UNCHANGED <<aliveAndKicking, waitingThreads, pipeTokens, mutex, hsTried,
                   fdClosed, sockBlocking, op, len, timeout, env>>
    /\ UNCHANGED lifecycle

\* What the loop does with the result e of SSL_do_handshake: success, errno
\* == EINTR retry, WANT_READ/WANT_WRITE wait (with an unlocked
\* waitingThreads++), or break on any other error.
HandshakeResult(t, e) ==
    CASE e = "OK" ->
           /\ initFinished' = TRUE /\ Return(t, "ok")
           /\ UNCHANGED waitingThreads
      [] e = "EINTR" ->
           /\ pc' = [pc EXCEPT ![t] = "hs_loop"]
           /\ UNCHANGED <<initFinished, waitingThreads, outcome, sslError,
                          pollResult, pollIn, errnoEintr>>
      [] e = "WANT" ->
           /\ waitingThreads' = waitingThreads + 1
           /\ pc' = [pc EXCEPT ![t] = "poll"]
           /\ sslError' = [sslError EXCEPT ![t] = "WANT"]
           /\ UNCHANGED <<initFinished, outcome, pollResult, pollIn, errnoEintr>>
      [] OTHER ->  \* FAIL (ret 0 or < 0) and a callback exception
           /\ SafeSslClear
           /\ Return(t, IF e = "FAIL" THEN "ssl_exc" ELSE "thrown")
           /\ UNCHANGED waitingThreads

\* One iteration: setCallbackState (fails on a closed fd), then
\* SSL_do_handshake, not under the mutex.  On a socket in blocking mode
\* the call does not return WANT: it waits in the kernel.
HandshakeStep(t) ==
    /\ pc[t] = "hs_step"
    /\ \/ /\ fdClosed
          /\ SafeSslClear /\ Return(t, "thrown")
          /\ UNCHANGED waitingThreads
       \/ /\ ~fdClosed
          /\ \E e \in HandshakeErrors :
               IF e = "WANT" /\ sockBlocking
               THEN /\ pc' = [pc EXCEPT ![t] = "blocked"]
                    /\ UNCHANGED <<initFinished, waitingThreads, outcome,
                                   sslError, pollResult, pollIn, errnoEintr>>
               ELSE HandshakeResult(t, e)
    /\ UNCHANGED <<aliveAndKicking, pipeTokens, mutex, hsTried, fdClosed,
                   sockBlocking, op, len, timeout, env>>
    /\ UNCHANGED lifecycle

\* A blocked SSL_do_handshake returns once the peer's data arrives.
HandshakeUnblock(t) ==
    /\ pc[t] = "blocked" /\ op[t] = "handshake"
    /\ \E e \in HandshakeErrors \ {"WANT"} : HandshakeResult(t, e)
    /\ UNCHANGED <<aliveAndKicking, pipeTokens, mutex, hsTried, fdClosed,
                   sockBlocking, op, len, timeout, env>>
    /\ UNCHANGED lifecycle

-----------------------------------------------------------------------------
(* sslRead and sslWrite                                                    *)

\* NativeCrypto_SSL_read / NativeCrypto_SSL_write enter sslRead / sslWrite;
\* len == 0 returns at once.
StartRead(t) ==
    /\ t \in Readers /\ pc[t] = "idle" /\ hsTried /\ CallAdmitted(t)
    /\ op' = [op EXCEPT ![t] = "read"]
    /\ \E n \in {0, 1}, tm \in Timeouts :
         /\ len' = [len EXCEPT ![t] = n]
         /\ timeout' = [timeout EXCEPT ![t] = tm]
         /\ IF n = 0 THEN Return(t, "ok")
            ELSE /\ pc' = [pc EXCEPT ![t] = "rw_loop"]
                 /\ outcome' = [outcome EXCEPT ![t] = "none"]
                 /\ UNCHANGED <<sslError, pollResult, pollIn, errnoEintr>>
    /\ UNCHANGED <<shared, env>>
    /\ UNCHANGED lifecycle

StartWrite(t) ==
    /\ t \in Writers /\ pc[t] = "idle" /\ CallAdmitted(t)
    /\ op' = [op EXCEPT ![t] = "write"]
    /\ \E n \in 0..MaxWriteLen, tm \in Timeouts :
         /\ len' = [len EXCEPT ![t] = n]
         /\ timeout' = [timeout EXCEPT ![t] = tm]
         /\ IF n = 0 THEN Return(t, "ok")
            ELSE /\ pc' = [pc EXCEPT ![t] = "rw_loop"]
                 /\ outcome' = [outcome EXCEPT ![t] = "none"]
                 /\ UNCHANGED <<sslError, pollResult, pollIn, errnoEintr>>
    /\ UNCHANGED <<shared, env>>
    /\ UNCHANGED lifecycle

\* while (appData->aliveAndKicking) in sslRead returns -1 (end of stream) on
\* exit; while (appData->aliveAndKicking && len > 0) in sslWrite returns
\* count, which NativeCrypto_SSL_write reports as success.
RwLoop(t) ==
    /\ pc[t] = "rw_loop"
    /\ IF aliveAndKicking /\ (op[t] = "write" => len[t] > 0)
       THEN /\ pc' = [pc EXCEPT ![t] = "rw_step"]
            /\ UNCHANGED <<outcome, sslError, pollResult, pollIn, errnoEintr>>
       ELSE Return(t, IF op[t] = "read" THEN "eof" ELSE "ok")
    /\ UNCHANGED <<shared, op, len, timeout, env>>
    /\ UNCHANGED lifecycle

\* The code after SSL_read/SSL_write, from "waitingThreads++" on WANT_READ or
\* WANT_WRITE through appDataLock.unlock() and the switch on sslError.
AfterEngine(t, e) ==
    /\ mutex' = NoThread
    /\ waitingThreads' = IF e = "WANT" THEN waitingThreads + 1 ELSE waitingThreads
    /\ peerClosed' = (peerClosed \/ e \in {"ZERO_RETURN", "SYSCALL_EOF"})
    /\ CASE e = "WANT" ->
              /\ pc' = [pc EXCEPT ![t] = "poll"]
              /\ sslError' = [sslError EXCEPT ![t] = "WANT"]
              /\ UNCHANGED <<outcome, pollResult, pollIn, errnoEintr>>
         [] e = "SYSCALL_EINTR" \/ (e = "NONE" /\ op[t] = "write") ->
              /\ pc' = [pc EXCEPT ![t] = "rw_loop"]
              /\ sslError' = [sslError EXCEPT ![t] = "none"]
              /\ UNCHANGED <<outcome, pollResult, pollIn, errnoEintr>>
         [] e = "NONE" -> Return(t, "ok")
         \* sslRead returns -1; sslWrite's -1 is not an error code to
         \* NativeCrypto_SSL_write, which throws nothing
         [] e \in {"ZERO_RETURN", "SYSCALL_EOF"} ->
              Return(t, IF op[t] = "read" THEN "eof" ELSE "ok")
         [] OTHER -> Return(t, "ssl_exc")

\* SSL_read/SSL_write returned e with the mutex held: a write may be partial
\* (buf += result; len -= result), and if bytes moved on the transport while
\* waitingThreads > 0 sslNotify is called before the rest of the iteration.
EngineReturned(t, e) ==
    \E moved \in IF progressWakes < MaxProgressWakes THEN BOOLEAN ELSE {FALSE} :
        /\ \E n \in IF op[t] = "write" /\ e = "NONE" THEN 1..len[t] ELSE {0} :
             len' = [len EXCEPT ![t] = len[t] - n]
        /\ IF moved /\ waitingThreads > 0
           THEN /\ mutex' = t
                /\ pc' = [pc EXCEPT ![t] = "rw_notify"]
                /\ sslError' = [sslError EXCEPT ![t] = e]
                /\ UNCHANGED <<waitingThreads, outcome, pollResult, pollIn,
                               errnoEintr, peerClosed>>
           ELSE AfterEngine(t, e)

\* One loop iteration up to the unlock: UniqueMutex, the init-finished check,
\* bytesMoved, setCallbackState (fails on a closed fd), then SSL_read or
\* SSL_write with the mutex held.  On a socket in blocking mode a call that
\* would return WANT waits in the kernel instead, still holding the mutex.
RwStep(t) ==
    /\ pc[t] = "rw_step" /\ mutex = NoThread
    /\ \/ /\ ~initFinished
          /\ Return(t, "ssl_exc")
          /\ UNCHANGED <<initFinished, waitingThreads, mutex, len, peerClosed>>
       \/ /\ initFinished /\ fdClosed
          /\ Return(t, "thrown")
          /\ UNCHANGED <<initFinished, waitingThreads, mutex, len, peerClosed>>
       \/ /\ initFinished /\ ~fdClosed
          /\ Return(t, "thrown") /\ SafeSslClear  \* a callback threw
          /\ UNCHANGED <<waitingThreads, mutex, len, peerClosed>>
       \/ /\ initFinished /\ ~fdClosed /\ sockBlocking
          /\ mutex' = t
          /\ pc' = [pc EXCEPT ![t] = "blocked"]
          /\ UNCHANGED <<initFinished, waitingThreads, len, outcome, sslError,
                         pollResult, pollIn, errnoEintr, peerClosed>>
       \/ /\ initFinished /\ ~fdClosed
          /\ \E e \in ReadErrors \ {"CALLBACK_EXC"} :
               /\ e = "WANT" => ~sockBlocking
               /\ EngineReturned(t, e)
          /\ UNCHANGED initFinished
    /\ UNCHANGED <<aliveAndKicking, pipeTokens, hsTried, fdClosed, sockBlocking,
                   op, timeout, closer, interrupts, progressWakes, ioLocked>>
    /\ UNCHANGED lifecycle

\* A blocked SSL_read/SSL_write returns once the socket is ready; the mutex
\* has been held all along.
RwUnblock(t) ==
    /\ pc[t] = "blocked" /\ op[t] \in {"read", "write"}
    /\ \E e \in ReadErrors \ {"WANT", "CALLBACK_EXC"} : EngineReturned(t, e)
    /\ UNCHANGED <<aliveAndKicking, pipeTokens, initFinished, hsTried, fdClosed,
                   sockBlocking, op, timeout, closer, interrupts, progressWakes,
                   ioLocked>>
    /\ UNCHANGED lifecycle

\* sslNotify(appData) under the mutex, then the rest of the iteration.
RwNotify(t) ==
    /\ pc[t] = "rw_notify"
    /\ SslNotify(t)
    /\ progressWakes' = progressWakes + 1
    /\ AfterEngine(t, sslError[t])
    /\ UNCHANGED <<aliveAndKicking, initFinished, hsTried, fdClosed,
                   sockBlocking, op, len, timeout, closer, interrupts,
                   ioLocked>>
    /\ UNCHANGED lifecycle

-----------------------------------------------------------------------------
(* sslSelect                                                               *)

\* poll(2) returns; the pipe's revents are those at return.
PollReturns(t, r, in) ==
    /\ pc' = [pc EXCEPT ![t] = "drain"]
    /\ pollResult' = [pollResult EXCEPT ![t] = r]
    /\ pollIn' = [pollIn EXCEPT ![t] = in]
    /\ UNCHANGED <<shared, op, len, timeout, sslError, errnoEintr, outcome,
                   closer, interrupts, progressWakes, peerClosed,
                   ioLocked>>
    /\ UNCHANGED lifecycle

\* A token in the emergency pipe makes fds[1] readable.
SelectWoken(t) ==
    /\ pc[t] = "poll" /\ ~fdClosed /\ pipeTokens > 0
    /\ PollReturns(t, "ready", TRUE)

\* The socket becomes ready in the direction asked for.
SelectSocketReady(t) ==
    /\ pc[t] = "poll" /\ ~fdClosed
    /\ PollReturns(t, "ready", pipeTokens > 0)

\* timeout_millis <= 0 is converted to -1 (wait forever); otherwise poll
\* returns 0 once the timeout passes with nothing ready.
SelectTimeout(t) ==
    /\ pc[t] = "poll" /\ ~fdClosed /\ timeout[t] > 0 /\ pipeTokens = 0
    /\ PollReturns(t, "timeout", FALSE)

\* poll fails with an errno other than EINTR: "break" with result -1.
SelectError(t) ==
    /\ pc[t] = "poll" /\ ~fdClosed
    /\ PollReturns(t, "error", FALSE)

\* A closed descriptor: NetFd.isClosed() at the loop head, or after a -1
\* from the AsynchronousCloseMonitor's signal, gives THROWN_EXCEPTION; a poll
\* that sees POLLNVAL/POLLHUP instead returns > 0.
SelectClosed(t) ==
    /\ pc[t] = "poll" /\ fdClosed
    /\ \/ PollReturns(t, "thrown", FALSE)
       \/ PollReturns(t, "ready", pipeTokens > 0)

\* poll fails with EINTR and the loop polls again.  errno stays EINTR unless
\* one of the JNI calls between here and the drain happens to change it.
SelectEintr(t) ==
    /\ PollCanBeInterrupted
    /\ pc[t] = "poll" /\ ~fdClosed
    /\ \E e \in BOOLEAN : errnoEintr' = [errnoEintr EXCEPT ![t] = e]
    /\ UNCHANGED <<shared, pc, op, len, timeout, sslError, pollResult, pollIn,
                   outcome, env>>
    /\ UNCHANGED lifecycle

\* sslSelect returned > 0: the caller loops ("break" out of the switch in
\* sslRead/sslWrite, the while loop in the handshake).
ResumeLoop(t) ==
    /\ pc' = [pc EXCEPT ![t] = IF op[t] = "handshake" THEN "hs_loop" ELSE "rw_loop"]
    /\ sslError' = [sslError EXCEPT ![t] = "none"]
    /\ pollResult' = [pollResult EXCEPT ![t] = "none"]
    /\ pollIn' = [pollIn EXCEPT ![t] = FALSE]
    /\ errnoEintr' = [errnoEintr EXCEPT ![t] = FALSE]
    /\ UNCHANGED <<initFinished, outcome>>

\* sslSelect returned THROWN_EXCEPTION, -1 or 0: the caller returns it as
\* THROWN_EXCEPTION, THROW_SSLEXCEPTION or THROW_SOCKETTIMEOUTEXCEPTION; the
\* handshake also calls safeSslClear.
SelectFail(t) ==
    /\ Return(t, CASE pollResult[t] = "thrown" -> "thrown"
                   [] pollResult[t] = "error" -> "ssl_exc"
                   [] OTHER -> "timeout")
    /\ IF op[t] = "handshake" THEN SafeSslClear ELSE UNCHANGED initFinished

\* Mutant of SelectReturn: the isClosed() branch returns before the
\* decrement, as an early "return THROWN_EXCEPTION" would.
SelectReturnLeak(t) ==
    /\ waitingThreads' = IF pollResult[t] = "thrown" THEN waitingThreads
                         ELSE waitingThreads - 1
    /\ IF pollResult[t] = "ready" THEN ResumeLoop(t) ELSE SelectFail(t)

\* The end of sslSelect: waitingThreads--, then the caller's handling of
\* the result.
SelectReturn(t) ==
    /\ waitingThreads' = waitingThreads - 1
    /\ IF pollResult[t] = "ready" THEN ResumeLoop(t) ELSE SelectFail(t)

\* UniqueMutex appDataLock, then if result > 0 and fds[1] had POLLIN one
\* non-blocking read of the pipe, repeated "while (errno == EINTR)": a
\* successful read leaves errno as it was.
Drain(t) ==
    /\ pc[t] = "drain" /\ mutex = NoThread
    /\ LET took == pollResult[t] = "ready" /\ pollIn[t] /\ pipeTokens > 0
       IN /\ pipeTokens' = IF took THEN pipeTokens - 1 ELSE pipeTokens
          /\ IF took /\ errnoEintr[t]
             THEN /\ mutex' = t
                  /\ pc' = [pc EXCEPT ![t] = "drain_more"]
                  /\ UNCHANGED <<waitingThreads, initFinished, sslError,
                                 pollResult, pollIn, errnoEintr, outcome>>
             ELSE /\ mutex' = NoThread
                  /\ SelectReturn(t)
    /\ UNCHANGED <<aliveAndKicking, hsTried, fdClosed, sockBlocking, op, len, timeout,
                   env>>
    /\ UNCHANGED lifecycle

\* Mutant of DrainMore: the ignored result of read() taken as one byte
\* drained even when the pipe is already empty.
DrainMoreCountsFailedRead(t) ==
    /\ pc[t] = "drain_more"
    /\ pipeTokens' = pipeTokens - 1
    /\ UNCHANGED <<waitingThreads, mutex, initFinished, locals>>
    /\ UNCHANGED <<aliveAndKicking, hsTried, fdClosed, sockBlocking, env>>
    /\ UNCHANGED lifecycle

\* Further iterations of the drain loop, until read fails with EAGAIN.
DrainMore(t) ==
    /\ pc[t] = "drain_more"
    /\ IF pipeTokens > 0
       THEN /\ pipeTokens' = pipeTokens - 1
            /\ UNCHANGED <<waitingThreads, mutex, initFinished, locals>>
       ELSE /\ mutex' = NoThread
            /\ waitingThreads' = waitingThreads - 1
            /\ ResumeLoop(t)
            /\ UNCHANGED <<pipeTokens, op, len, timeout>>
    /\ UNCHANGED <<aliveAndKicking, hsTried, fdClosed, sockBlocking, env>>
    /\ UNCHANGED lifecycle

-----------------------------------------------------------------------------
(* NativeCrypto_SSL_interrupt and the socket being closed                  *)

\* aliveAndKicking = 0, then two sslNotify calls ("at most two threads can
\* be waiting"); no mutex is taken.
\* Mutant of InterruptStart: the "aliveAndKicking = 0" store is lost.
InterruptStartNoFlag ==
    /\ created = "yes" /\ closer = "idle" /\ interrupts < MaxInterrupts
    /\ interrupts' = interrupts + 1
    /\ closer' = "notify1"
    /\ UNCHANGED <<aliveAndKicking, waitingThreads, pipeTokens, mutex,
                   initFinished, hsTried, fdClosed, sockBlocking, locals,
                   progressWakes, peerClosed, ioLocked>>
    /\ UNCHANGED lifecycle

InterruptStart ==
    /\ created = "yes" /\ closer = "idle" /\ interrupts < MaxInterrupts
    /\ aliveAndKicking' = FALSE
    /\ interrupts' = interrupts + 1
    /\ closer' = "notify1"
    /\ UNCHANGED <<waitingThreads, pipeTokens, mutex, initFinished, hsTried,
                   fdClosed, sockBlocking, locals, progressWakes, peerClosed, ioLocked>>
    /\ UNCHANGED lifecycle

\* Mutant of InterruptNotify: a single sslNotify per interrupt.
InterruptNotifyOnce ==
    /\ closer = "notify1"
    /\ SslNotify(NoThread)
    /\ closer' = "idle"
    /\ UNCHANGED <<aliveAndKicking, waitingThreads, mutex, initFinished,
                   hsTried, fdClosed, sockBlocking, locals, interrupts, progressWakes,
                   peerClosed, ioLocked>>
    /\ UNCHANGED lifecycle

InterruptNotify ==
    /\ closer \in {"notify1", "notify2"}
    /\ SslNotify(NoThread)
    /\ closer' = IF closer = "notify1" THEN "notify2" ELSE "idle"
    /\ UNCHANGED <<aliveAndKicking, waitingThreads, mutex, initFinished,
                   hsTried, fdClosed, sockBlocking, locals, interrupts, progressWakes,
                   peerClosed, ioLocked>>
    /\ UNCHANGED lifecycle

\* Application code closes the socket's FileDescriptor.
CloseFd ==
    /\ ~fdClosed
    /\ fdClosed' = TRUE
    /\ UNCHANGED <<aliveAndKicking, waitingThreads, pipeTokens, mutex,
                   initFinished, hsTried, sockBlocking, locals, env>>
    /\ UNCHANGED lifecycle

-----------------------------------------------------------------------------
(* NativeCrypto_SSL_shutdown and NativeCrypto_SSL_free on the close path   *)

\* When the close path waits for I/O, after interrupt() it takes the lock of
\* each thread's I/O, which a thread holds for the whole of its call, so it
\* gets it only while that thread is idle.
CloseLock(t) ==
    /\ CloseAwaitsIO /\ closer = "idle" /\ interrupts > 0
    /\ pc[t] = "idle" /\ t \notin ioLocked
    /\ ioLocked' = ioLocked \cup {t}
    /\ UNCHANGED <<shared, locals, closer, interrupts, progressWakes, peerClosed>>
    /\ UNCHANGED lifecycle

\* NativeCrypto_SSL_shutdown up to SSL_shutdown, after the close path's
\* interrupt(): setCallbackState with the FileDescriptor (on a closed one:
\* ERR_clear_error, safeSslClear, return), then, if SSL_get_fd gives a
\* descriptor, setBlocking(fd, true).  No AppData mutex is taken.
ShutdownStart ==
    /\ closer = "idle" /\ interrupts > 0
    /\ CloseAwaitsIO => ioLocked = Threads
    /\ IF fdClosed
       THEN /\ closer' = "sd_done" /\ SafeSslClear
            /\ UNCHANGED sockBlocking
       ELSE /\ closer' = "sd_engine"
            /\ sockBlocking' = (sockBlocking \/ hsTried)
            /\ UNCHANGED initFinished
    /\ UNCHANGED <<aliveAndKicking, waitingThreads, pipeTokens, mutex, hsTried,
                   fdClosed, locals, interrupts, progressWakes, peerClosed, ioLocked>>
    /\ UNCHANGED lifecycle

\* SSL_shutdown, called once: 0 (not yet) and 1 (done) return quietly, any
\* other result throws, a callback's exception returns early; every path
\* ends in safeSslClear.  On the descriptor setBlocking(fd, true) left
\* blocking, sending close_notify can block in the kernel until the peer
\* drains the socket; on a non-blocking one it returns WANT at once.
ShutdownEngine ==
    /\ closer = "sd_engine"
    /\ \/ closer' = "sd_done" /\ SafeSslClear
       \/ sockBlocking /\ closer' = "sd_blocked" /\ UNCHANGED initFinished
    /\ UNCHANGED <<aliveAndKicking, waitingThreads, pipeTokens, mutex, hsTried,
                   fdClosed, sockBlocking, locals, interrupts, progressWakes,
                   peerClosed, ioLocked>>
    /\ UNCHANGED lifecycle

\* A blocked SSL_shutdown returns once the peer's socket takes close_notify.
ShutdownUnblock ==
    /\ closer = "sd_blocked"
    /\ closer' = "sd_done"
    /\ SafeSslClear
    /\ UNCHANGED <<aliveAndKicking, waitingThreads, pipeTokens, mutex, hsTried,
                   fdClosed, sockBlocking, locals, interrupts, progressWakes,
                   peerClosed, ioLocked>>
    /\ UNCHANGED lifecycle

\* ~AppData: aliveAndKicking = 0, each end of fdsEmergency that is not -1
\* closed, the callback state cleared and the mutex destroyed (the mutex is
\* not modelled).
DeleteAppData ==
    /\ aliveAndKicking' = FALSE
    /\ pipeFds' = IF pipeFds = "open" THEN "closed" ELSE pipeFds

\* NativeCrypto_SSL_free: SSL_set_app_data(ssl, nullptr) and delete appData,
\* whose destructor stores aliveAndKicking = 0, closes both pipe ends and
\* destroys the mutex; then SSL_free.  Nothing waits for callers in flight.
SslFree ==
    /\ closer = "sd_done"
    /\ CloseAwaitsIO => ioLocked = Threads
    /\ closer' = "freed"
    /\ DeleteAppData
    /\ UNCHANGED <<waitingThreads, pipeTokens, mutex, initFinished, hsTried,
                   fdClosed, sockBlocking, locals, interrupts, progressWakes,
                   peerClosed, ioLocked, created>>

\* After SSL_free with every call returned, or after SSL_new returned 0,
\* nothing more happens on this connection.
Terminated ==
    /\ closer = "freed" \/ created = "failed"
    /\ Quiescent
    /\ UNCHANGED vars

ThreadStep(t) ==
    \/ DoHandshake(t) \/ HandshakeLoop(t) \/ HandshakeStep(t)
    \/ HandshakeUnblock(t)
    \/ StartRead(t) \/ StartWrite(t) \/ RwLoop(t) \/ RwStep(t) \/ RwNotify(t)
    \/ RwUnblock(t)
    \/ SelectWoken(t) \/ SelectSocketReady(t) \/ SelectTimeout(t)
    \/ SelectError(t) \/ SelectClosed(t) \/ SelectEintr(t)
    \/ Drain(t) \/ DrainMore(t)

Next ==
    \/ SSL_new
    \/ \E t \in Threads : ThreadStep(t)
    \/ InterruptStart \/ InterruptNotify \/ CloseFd
    \/ \E t \in Threads : CloseLock(t)
    \/ ShutdownStart \/ ShutdownEngine \/ ShutdownUnblock \/ SslFree
    \/ Terminated

\* Every step a thread takes on its own is weakly fair, and so is a poll
\* that a pipe token, an expired timeout or a closed descriptor ends: the
\* kernel returns from poll then.  Socket readiness (and so the return of an
\* engine call blocked in the kernel), poll errors, signals, closing the
\* socket, new calls and interrupt() itself are the environment's and get
\* no fairness.  Once begun, the close path runs on: its notifications,
\* the call of SSL_shutdown and SSL_free are weakly fair, but the return of
\* an SSL_shutdown blocked in the kernel waits on the peer and is not.  Taking a thread's I/O lock
\* is strongly fair: it is possible only while that thread is between
\* calls, and a lock released infinitely often is taken to be granted to
\* the waiting closer eventually.
Fairness ==
    /\ \A t \in Threads :
         /\ WF_vars(HandshakeLoop(t)) /\ WF_vars(HandshakeStep(t))
         /\ WF_vars(RwLoop(t)) /\ WF_vars(RwStep(t)) /\ WF_vars(RwNotify(t))
         /\ WF_vars(SelectWoken(t)) /\ WF_vars(SelectTimeout(t))
         /\ WF_vars(SelectClosed(t))
         /\ WF_vars(Drain(t)) /\ WF_vars(DrainMore(t))
    /\ WF_vars(InterruptNotify)
    /\ \A t \in Threads : SF_vars(CloseLock(t))
    /\ WF_vars(ShutdownStart) /\ WF_vars(ShutdownEngine) /\ WF_vars(SslFree)

Spec == Init /\ [][Next]_vars
FairSpec == Spec /\ Fairness

-----------------------------------------------------------------------------
(* Properties                                                              *)

\* Every variable stays in its domain; in particular waitingThreads, which
\* sslRead/sslWrite/the handshake increment and sslSelect decrements, never
\* exceeds the two threads that can wait, nor goes below zero, and the
\* emergency pipe never holds more than its capacity.
TypeOK ==
    /\ aliveAndKicking \in BOOLEAN /\ initFinished \in BOOLEAN
    /\ hsTried \in BOOLEAN /\ fdClosed \in BOOLEAN
    /\ waitingThreads \in 0..Cardinality(Threads)
    /\ pipeTokens \in 0..PipeCapacity
    /\ mutex \in Threads \cup {NoThread}
    /\ sockBlocking \in BOOLEAN /\ peerClosed \in BOOLEAN
    /\ pc \in [Threads -> PCs]
    /\ op \in [Threads -> {"handshake", "read", "write"}]
    /\ len \in [Threads -> 0..MaxWriteLen]
    /\ timeout \in [Threads -> Timeouts \cup {0}]
    /\ sslError \in [Threads -> ReadErrors \cup {"none"}]
    /\ pollResult \in [Threads -> {"none", "ready", "timeout", "error", "thrown"}]
    /\ pollIn \in [Threads -> BOOLEAN] /\ errnoEintr \in [Threads -> BOOLEAN]
    /\ outcome \in [Threads -> Outcomes]
    /\ closer \in CloserPCs
    /\ interrupts \in 0..MaxInterrupts /\ progressWakes \in 0..MaxProgressWakes
    /\ ioLocked \subseteq Threads
    /\ created \in {"no", "yes", "failed"}
    /\ pipeFds \in {"unset", "open", "closed"}

\* waitingThreads, read under the mutex by sslRead/sslWrite to decide whether
\* to call sslNotify, counts exactly the threads between the increment
\* before sslSelect and the decrement at its end, on every path out of
\* sslSelect (ready, timeout, poll error, closed socket).
WaitingCountMatches ==
    waitingThreads = Cardinality({t \in Threads : Registered(t)})

\* Spec 2 (create, collector) and AppData's destructor: fdsEmergency is
\* open exactly while an AppData exists, from a successful SSL_new to
\* SSL_free.  Every failure path of AppData::create after pipe(2) releases
\* both descriptors, and SSL_free closes them, so neither a failed
\* SSL_new nor a freed connection leaks them.
EmergencyPipeOwned ==
    pipeFds = "open" <=> (created = "yes" /\ closer # "freed")

\* Spec P3: NativeCrypto_SSL_write returns without an exception only when
\* sslWrite's loop has written all len bytes.
WriteOkMeansAllSent ==
    \A t \in Writers : (pc[t] = "idle" /\ outcome[t] = "ok") => len[t] = 0

\* Spec P1: once NativeCrypto_SSL_interrupt has cleared aliveAndKicking,
\* every thread in handshake, read or write returns to Java, even one
\* polling with no timeout on a socket that never becomes ready.
PromptCancellation ==
    \A t \in Threads : ~aliveAndKicking ~> pc[t] = "idle"

\* A close path that has begun (interrupt(), then SSL_shutdown and SSL_free
\* once reads and writes have returned) gets as far as the peer lets it:
\* the cancelled calls return and the closer takes their I/O locks, enters
\* SSL_shutdown, and runs SSL_free unless SSL_shutdown is blocked in the
\* kernel on a peer that never drains the socket.
TeardownCompletes ==
    closer = "notify1" ~> closer \in {"freed", "sd_blocked"}

\* Spec P4 and sslNotify's blocking write(2) on fdsEmergency[1]: every
\* sslNotify finds room in the pipe, both the two of NativeCrypto_SSL_interrupt
\* and the one sslRead/sslWrite make with AppData's mutex held, where a
\* blocked write would also stall the only thread able to drain the pipe,
\* since the drain in sslSelect needs that mutex.
NotifyNeverBlocks ==
    /\ closer \in {"notify1", "notify2"} => pipeTokens < PipeCapacity
    /\ \A t \in Threads : pc[t] = "rw_notify" => pipeTokens < PipeCapacity

\* Spec P6 and 4.4: NativeCrypto_SSL_read returns the end-of-stream -1 only
\* when the engine has reported end of stream; a read ended by interrupt()
\* fails as interrupted.
ReadEofMeansPeerClosed ==
    \A t \in Readers : outcome[t] = "eof" => peerClosed

\* Spec 4.4, P3 and P6: a read or write that interrupt() ended is not
\* reported as a result.  NativeCrypto_SSL_write returns without an
\* exception only when all bytes were written, and NativeCrypto_SSL_read
\* returns -1 only at the peer's end of stream; both loops leave through
\* the same aliveAndKicking exit.
InterruptedCallReported == WriteOkMeansAllSent /\ ReadEofMeansPeerClosed

\* SSLBlockingIO implements CancellableConnection: aliveAndKicking is the
\* abstract "alive", a thread is in a call from its entry into
\* NativeCrypto_SSL_do_handshake, _read or _write to its return to Java,
\* and the state is freed once NativeCrypto_SSL_free has deleted AppData.
\* The refinement holds only when the close path waits for the I/O locks
\* (CloseAwaitsIO); it covers P1 (a cancelled call returns) and section 3
\* (no call refers to a freed AppData, none begins after SSL_free).
Connection == INSTANCE CancellableConnection
    WITH alive <- aliveAndKicking,
         inCall <- {t \in Threads : pc[t] # "idle"},
         freed <- (closer = "freed")

ConnectionSpec == Connection!Spec
=============================================================================
