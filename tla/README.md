# TLA+ models of Conscrypt's native layer

This directory holds TLA+ models of the native layer of Conscrypt, mainly
`src/common/src/jni/main/cpp/org_conscrypt_NativeCrypto.cpp`. TLC checks them.
The modelled part is the code that lets several Java threads block on one TLS
socket and lets another thread cancel them. That is the concurrent part of
the library.

## 1. Inventory of the system

| Component | Code | State | Operations |
|---|---|---|---|
| ConnectionState | `class AppData` (6295-6407) | `aliveAndKicking` (volatile, read without the lock), `waitingThreads`, `fdsEmergency[2]` (a pipe; read end non-blocking, write end blocking), `mutex`, callback and ALPN state | `create`, `~AppData`, `setCallbackState`, `clearCallbackState` |
| Waker | `sslNotify` (6521-6532) | the pipe | write one byte, retry on EINTR, restore errno |
| ReadinessWait | `sslSelect` (6438-6512) | the pipe, `waitingThreads` | poll the socket and the pipe; retry on EINTR; `isClosed` gives THROWN_EXCEPTION; lock; drain the pipe; `waitingThreads--` |
| Handshake driver | `NativeCrypto_SSL_do_handshake` (7889-8051) | engine handshake state | prologue checks, retry loop, unlocked `waitingThreads++`, mapping of errors to exceptions, `safeSslClear` |
| Read driver | `sslRead`, `NativeCrypto_SSL_read` (8203-8390) | `len` | one locked `SSL_read` per iteration, progress wake-up, register as waiter, switch on the error class |
| Write driver | `sslWrite`, `NativeCrypto_SSL_write` (8392-8580) | `len`, `count` | as for reads; partial writes shrink `len`; returns `count` at loop exit |
| Cancellation | `NativeCrypto_SSL_interrupt` (8585-8604) | `aliveAndKicking` | clear the flag, then `sslNotify` twice, without the lock |
| Teardown | `SSL_shutdown`, `SSL_shutdown_BIO`, `SSL_free` (8609-8792) | AppData lifetime | `SSL_shutdown` without the AppData mutex; `delete appData` |
| Renegotiation | `NativeCrypto_SSL_renegotiate` (8056-8079) | engine | `SSL_do_handshake` outside the mutex |
| Engine mode | `ENGINE_SSL_*` (9343-9800) | BIO pair | non-blocking single steps |
| Java-stream BIO | `BIO_Stream` and subclasses, `stream_bio_method` (977-1217), `create_BIO_*`, `BIO_read/write/free_all` (4406-4520), `PEM_to_jlong` (5412-5456) | `mEof`, `isFinite_`, the retry flag | create, read, write, PEM line reads through Java, free |
| EVP digests | `NativeCrypto_EVP_MD_CTX_*`, `EVP_Digest*`, `evpUpdate` (3071-3555), `fromContextObject` (683-697), `throwExceptionIfNecessary` (424-469), the bounds macros (170-185) | the `EVP_MD_CTX`, the thread's BoringSSL error queue | create, clean up, copy, destroy; init, update, final for digests, signatures and verification |
| EVP ciphers, AEAD, HMAC, RAND, RSA encryption | `NativeCrypto_EVP_PKEY_type` to `_cmp` (1956-2051), `evpPkeyEncryptDecrypt` to `NativeCrypto_RAND_bytes` (3557-4349), `evp_aead_ctx_op` | the `EVP_CIPHER_CTX`, the `HMAC_CTX`, the `EVP_PKEY_CTX`, the same error queue | create, init, update, final, queries and free for ciphers and HMAC; AEAD seal and open; random bytes; public-key encrypt and decrypt with their RSA controls |
| Global locking | `THREAD_setup/cleanup` | static mutex array | set up once |
| Marshaling | keys, certificates, ASN.1; the `EVP_PKEY` queries, the EC and RSA entry points, the PKCS8/PUBKEY codecs and the OID lookups `OBJ_txt2nid*` (4351-4384) are modelled in `EvpCipher` | none | pure data conversion |
| Small programs | `generate_constants.cpp`, `CpuFeatures.cpp`, `boringssl_self_test.cpp`, JNIHelp and log headers | none | I/O only |

### How the parts interact

A reader thread runs the handshake and then reads. A writer thread writes.
Both drive the same `SSL*`.

- **Registration.** When the engine wants the network, a thread increments
  `waitingThreads` and calls `sslSelect`. The read and write drivers do this
  under the mutex. The handshake does it without the mutex.
- **Waiting.** In `sslSelect` the thread polls both the socket and the
  emergency pipe.
- **Progress wake-up.** A thread that moved bytes while `waitingThreads > 0`
  writes a byte to the pipe, so the other thread retries.
- **Cancellation.** `interrupt()` clears `aliveAndKicking` and writes two
  bytes, one for each possible waiter.
- **Draining.** Every thread leaving `sslSelect` takes the mutex, drains the
  pipe if poll reported it readable, and decrements `waitingThreads`.

### Hard behaviours

- Any waiter can consume any wake-up byte, including the one it wrote itself.
- The pipe is drained by `do read while (errno == EINTR)`. A successful read
  does not reset errno, so a stale EINTR from an earlier failed poll makes the
  loop drain every byte.
- `aliveAndKicking` is read without the lock.
- The handshake's `waitingThreads++` is not locked.
- The pipe's write end is blocking, and `sslNotify` can run while the mutex
  is held.
- The socket can be closed asynchronously.
- poll can time out, fail or be interrupted by a signal.
- Exit codes are mapped to Java exceptions. `sslWrite`'s `count` and `-1`
  raise no exception.

## 2. The model: `SSLBlockingIO.tla`

The model has one reader (`Readers`) and one writer (`Writers`), which are
model values. Each JNI call is a sequence of actions, one per atomic region
of the code, and a program counter `pc[t]` records where each thread is.

| Model state | Code |
|---|---|
| `aliveAndKicking`, `waitingThreads`, `mutex` | the `AppData` fields (`mutex` records the holder) |
| `pipeTokens` | bytes in `fdsEmergency`, up to `PipeCapacity` |
| `initFinished` | `SSL_is_init_finished`; `safeSslClear` resets it |
| `fdClosed` | `NetFd::isClosed()` |
| `len`, `timeout`, `sslError`, `pollResult`, `pollIn`, `errnoEintr`, `outcome` | the locals of the running call, and the Java-visible result |
| `closer`, `interrupts`, `progressWakes` | the interrupting thread's position in `NativeCrypto_SSL_interrupt` and two bounds |
| `sockBlocking` | the socket's blocking mode: blocking at creation, cleared by the handshake's `setBlocking(fd, false)`, set again by `SSL_shutdown`'s `setBlocking(fd, true)` |
| `peerClosed` | a ghost variable: the engine has reported end of stream (`ZERO_RETURN`, or `SYSCALL` with EOF) |
| `closer` | also the close path's position: `sd_engine` (inside `SSL_shutdown`), `sd_done`, `freed` (after `SSL_free`) |
| `ioLocked` | the threads whose I/O the Java close path has locked out (only when `CloseAwaitsIO`) |

Actions and the code they model:

| Action | Code |
|---|---|
| `SSL_new`, `AppDataCreate` | `NativeCrypto_SSL_new` and `AppData::create`: a null `SSL_CTX` or a failing `SSL_new` returns 0 with no AppData; `pipe(2)` failing leaves both descriptors -1; `fcntl` failing leaves them open for the unique_ptr's `~AppData` to close; `MUTEX_SETUP` is tested against -1, which `pthread_mutex_init` never returns, so that branch is never taken. No call is admitted before a successful `SSL_new` |
| `DoHandshake` | the handshake prologue |
| `HandshakeLoop` | the loop head and the handling after the loop |
| `HandshakeStep` | one `SSL_do_handshake` iteration: OK, EINTR retry, WANT and `waitingThreads++`, or error with `safeSslClear` |
| `StartRead`, `StartWrite` | `len == 0` and the entry to the loop |
| `RwLoop` | the `while` test; on exit `sslRead` returns -1 and `sslWrite` returns `count` |
| `RwStep` | the locked engine call up to the notify test; init check, closed fd, callback exception, partial write |
| `RwNotify` | `sslNotify` under the mutex |
| `AfterEngine` | `waitingThreads++`, unlock and the switch |
| `Select*` | the outcomes of poll: woken by a byte, socket ready, timeout, error, closed fd, EINTR |
| `Drain`, `DrainMore` | the locked drain loop |
| `SelectReturn` | the decrement and the caller's mapping of the result |
| `InterruptStart`, `InterruptNotify` | `NativeCrypto_SSL_interrupt` |
| `CloseFd` | the application closing the socket |
| `HandshakeUnblock`, `RwUnblock` | an engine call that waited in the kernel on a blocking socket returns; a blocked read or write holds the mutex all along |
| `CloseLock(t)` | the Java close path taking thread `t`'s I/O lock, only while `t` is between calls (spec-modelled: the caller is not in this repository) |
| `ShutdownStart` | `NativeCrypto_SSL_shutdown` up to `SSL_shutdown`: on a closed fd, `ERR_clear_error` and `safeSslClear`; else `setBlocking(fd, true)`; no AppData mutex |
| `ShutdownEngine`, `ShutdownUnblock` | the single `SSL_shutdown` call and its outcomes, then `safeSslClear`. On the descriptor `setBlocking(fd, true)` made blocking (8642), the call may block in the kernel sending close_notify (`sd_blocked`), and returns when the peer drains the socket |
| `SslFree`, `DeleteAppData` | `NativeCrypto_SSL_free` and `~AppData` (the flag is cleared, each pipe end that is open is closed; the mutex is not modelled) |
| `Terminated` | nothing more happens after `SSL_free` once every call has returned, or after `SSL_new` returned 0 |

The constant `CloseAwaitsIO` chooses the caller. When it is TRUE, the close
path runs `interrupt()`, then takes each thread's I/O lock, and only then
calls `SSL_shutdown` and `SSL_free`. A thread whose lock is taken starts no
new call. When it is FALSE, the close path calls them at any time after
`interrupt()`. The native code does not enforce either order.

The TLS engine is opaque. The outcome of each `SSL_*` call is a
nondeterministic choice over the error classes the code distinguishes. The
model merges WANT_READ and WANT_WRITE, because the code treats them alike
apart from the poll events.

A poll returns on a pipe byte only if the byte is still there. Between poll
and the drain another thread may take it, which is why the drain is
non-blocking.

`MC_SSLBlockingIO.tla` instantiates the model with `Readers = {r1}` and
`Writers = {w1}`.

## 3. Runs

All runs use one reader, one writer, `MaxWriteLen = 2` (so a write can be
partial) and `MaxProgressWakes = 2`.

| Run | Result | What it shows |
|---|---|---|
| `core` | pass: about 879k distinct states | Every path out of `sslSelect` keeps `waitingThreads` equal to the number of threads inside it (`WaitingCountMatches`), including the EINTR and drain paths. The handshake's increment without the mutex (7988) is an atomic step here, so a lost update of that `++` is not checked. `fdsEmergency` is open exactly from a successful `SSL_new` to `SSL_free` (`EmergencyPipeOwned`): no failure path of `AppData::create` and no free leaks the self-pipe, as spec section 2 requires of `create()`. Timeouts are {0,1} and signals are on. |
| `cancel_nosignal` | pass, about 67k states | Without signals, `SSLBlockingIO` implements the abstract `CancellableConnection` (`ConnectionSpec`, section 5): after `interrupt()` every thread returns to Java, even when both wait with no timeout, and `SSL_free` runs only with no call in flight. |
| `cancel_signal` | violation | With signals, a poll that failed with EINTR leaves errno at EINTR. The drain loop then swallows both of interrupt's bytes, and the other thread polls forever. |
| `interrupt_exit` | violation | `InterruptedCallReported` is the conjunction of `WriteOkMeansAllSent` and `ReadEofMeansPeerClosed`. An interrupt makes `SSL_write` return normally with bytes unsent; TLC's shortest trace, 5 states, is this one. A read that `interrupt()` ends returns -1, the end-of-stream value, although the peer never closed. Both leave through the same `aliveAndKicking` exit of the loop. Findings 2 and 4 in section 4 are the two cases. |
| `pipe_full` | violation | With a pipe of 2 bytes and no interrupt, progress wake-ups fill the pipe, and a thread reaches `sslNotify` with the pipe full while it holds the mutex (`NotifyNeverBlocks`, which also covers `interrupt()`'s two writes). |

`cancel_nosignal` also checks `TeardownCompletes`: a close path that waits
for I/O gets past the cancelled calls, takes their I/O locks and calls
`SSL_shutdown`, and reaches `SSL_free` unless that `SSL_shutdown` is blocked
in the kernel on a peer that never drains the socket. `core` runs with `CloseAwaitsIO = FALSE`,
so teardown can interleave with every operation. That run is also where the
blocked and unblocked engine calls occur.

### Bounds

Two threads are the most the code supports ("at most two threads can be
waiting"). One interrupt is enough to exercise cancellation. A pipe of 4
bytes holds both of interrupt's bytes plus the two progress wake-ups, so in
the pass runs the pipe never fills. Filling it is a separate question, asked
by `pipe_full` with a pipe of 2 bytes. The real pipe holds 64 KiB, so filling
it takes that many unread wake-ups. A write of 2 bytes allows a partial write followed by
a WANT. The timeout set {0,1} covers both "wait forever" and "can time out".

### Fairness

`FairSpec` assumes weak fairness for:

- every step a thread takes on its own (the code runs it when it is
  scheduled);
- a poll returning on a byte that is present, and a poll on a closed fd
  returning (the kernel does both);
- a finite timeout expiring;
- the interrupting thread finishing its two writes;
- the call of `SSL_shutdown`, and `SSL_free`, once the close path has begun.

`CloseLock(t)` is strongly fair. It is enabled only while `t` is between
calls, and the application may keep starting calls. The assumption is that a
lock released infinitely often is eventually granted to the closer that
waits for it.

An engine call blocked in the kernel returns only when the socket becomes
ready. That is the peer's choice, so it gets no fairness. This includes an
`SSL_shutdown` blocked on the re-blocked descriptor (`ShutdownUnblock`).

Readiness of the socket, poll errors, EINTR, closing the fd and starting an
interrupt are environment choices and are not fair: the peer may never send.

## 4. Findings

1. **Stale-errno drain (code bug, 6503).** The drain loop tests errno after a
   successful `read`, which leaves errno unchanged. After an EINTR poll it
   drains every byte and breaks cancellation.
2. **Unsent write reported as success (8529, 8577).**
3. **Pipe-full deadlock (8264).** `sslNotify` writes to the blocking pipe
   while the mutex is held, and the drainer needs that mutex. Only the read
   end of the pipe is non-blocking, so `interrupt()`'s writes (6529) can
   block the same way.
4. **Interrupted read reported as end of stream (8329).**
5. **`SSL_renegotiate` without callback state (8068).** See section 6.
6. **`gets` writes before its buffer (1046).** See section 7.
7. **Errors left on the queue by `OBJ_txt2nid` (4359), `RSA_size` (2276),
   `RSA_crypt_operation` (2298), `RSA_generate_key_ex` (2245) and
   `EC_GROUP_new_arbitrary` (2518) (code bugs).** See section 8.1. The next failing crypto call on the thread
   throws the leftover error instead of its own. `RSA_crypt_operation` also
   returns -1 with no exception for a key that is not RSA. `RSA_generate_key_ex`
   tests the library's result with `< 0`, but the library returns 0 on
   failure, so a failed generation is returned as a key.

Seen while modelling but not given a run:

- **Self-drained wake-up (6501).** A writer notifies a waiting reader, then
  waits itself and drains its own byte before the reader polls, so the
  reader's wake-up is lost. The comment at 6492-6498 accepts this (the pipe
  is non-blocking for exactly that reason); the specification's P2 does
  not. The reader still wakes on its socket or its timeout.
- sslWrite passes `write_timeout_millis` to `sslSelect` (8483-8488),
  although its comment says writes wait forever.
- A write that starts as soon as the engine reports the handshake finished
  stores its callback state before the handshake thread clears it. This
  only happens if the Java caller writes before `SSL_do_handshake` returns.
- With `CloseAwaitsIO = FALSE`, that is with a Java close path that does
  not wait for reads and writes to return, three things go wrong, and none
  of them has a run:
  - `SSL_free` deletes AppData with no check for threads still inside
    (8789). Only the Java caller's ordering prevents this.
  - `SSL_shutdown` takes no mutex and calls `setBlocking(fd, true)` (8642)
    while calls are still in flight. A call then blocks in the kernel,
    where `interrupt()` cannot reach it.
  - `SSL_shutdown` stores its callback state over that of a read still in
    `SSL_read`.

  `ConnectionSpec` fails at once in that configuration. In the waiting
  configuration, `cancel_nosignal` checks that none of the three can
  happen.

## 5. The abstract connection: `CancellableConnection.tla`

`CancellableConnection` states what the connection promises the Java
threads, without pipes, polls or mutexes. It has three variables:

| Abstract | Meaning | Mapped from `SSLBlockingIO` |
|---|---|---|
| `alive` | not yet cancelled | `aliveAndKicking` |
| `inCall` | threads inside a handshake, read or write | `{t : pc[t] # "idle"}` |
| `freed` | the native state is deleted | `closer = "freed"` |

Its actions are `Begin(t)` (only before the state is freed), `End(t)`,
`Cancel` and `Free` (only with no call in flight; it also cancels). The
only liveness it promises is weak fairness of `CancelledEnd(t)`: a call on
a cancelled connection returns. An uncancelled call may block as long as the
peer is silent, so nothing more is promised.

`SSLBlockingIO` defines `Connection == INSTANCE CancellableConnection WITH
...` under this mapping, and `cancel_nosignal` checks `ConnectionSpec ==
Connection!Spec` as a temporal property. Every concrete step is then either
a stutter of the abstract state or one abstract action. Spec P1 (prompt
cancellation) and section 3 (no call outlives AppData) are both part of the
refinement. With `CloseAwaitsIO = FALSE` the refinement fails at once:
`SSL_free` is not an abstract `Free`, because a call is still in flight. Section
4 describes that configuration.

## 6. The callback state: `CallbackState.tla`

`AppData` has two more shared fields, `env` (the caller's `JNIEnv`) and
`sslHandshakeCallbacks` (a local reference of the call). Each entry point
that calls the engine first runs `setCallbackState`, which stores both, or
fails on a closed FileDescriptor. It then calls the engine, and then runs
`clearCallbackState`. During the engine call, the engine may run
`cert_verify_callback`, `info_callback`, `cert_cb` or a PSK callback. Each
of these loads `env`, returns if it is `nullptr`, then loads
`sslHandshakeCallbacks` and calls Java through them.

- **Entry points.** Each one is a record: which engine function it calls,
  whether it holds the mutex (only `sslRead`, `sslWrite` and
  `SSL_shutdown_BIO` do), whether it needs the handshake finished, whether
  `setCallbackState` checks a FileDescriptor, and where it calls
  `safeSslClear`. There are 16 records: the blocking calls, `SSL_renegotiate`
  and all ten `ENGINE_SSL_*` calls.
- **Actions.** `StartCall`, `SetCallbackState`, `EngineReturns` and
  `ClearCallbackState` are the call. `cert_verify_callback`, `info_callback`,
  `cert_cb`, `psk_client_callback` and `psk_server_callback` each pass their
  own first test. `CallbackCheck` is the `env == nullptr` test and, in all
  but `cert_verify_callback` (state `cb_check_env`), the pending-exception test. `CallbackUpcall` is the Java call, which may throw.
- **Callers and engine.** A caller stores its own name. The engine runs at
  most `MaxCallbacks = 2` callbacks per call. `BIO_read` and `BIO_write` run
  none.

| Run | Result | What it shows |
|---|---|---|
| `locked` | pass, about 6k states | With a reader, a writer and an `SSL_shutdown_BIO` closer, a callback always finds its own caller's `env` and callbacks object (`CallbackSeesCallersState`). |
| `renegotiate` | violation | `SSL_renegotiate` calls `SSL_do_handshake` with no `setCallbackState`, so its callbacks find `env == nullptr`. The class comment asks that a JNIEnv be kept on every downcall that can call back. |

Entry points that hold no mutex, concurrent with any other call, break
`CallbackSeesCallersState` the same way. The model shows this with two
callers, but no run keeps it, because whether those calls overlap is decided
by the Java layer, which is not in this repository.

## 7. The Java-stream BIO: `BIOStream.tla`

Conscrypt reads PEM and DER data from, and writes it to, Java streams
through a BIO whose methods call back into Java. The pieces are:

- the `BIO_Stream`, `BIO_InputStream` and `BIO_OutputStream` classes
  (977-1132);
- the `stream_bio_method` callbacks (1134-1217);
- the entry points `create_BIO_InputStream`, `create_BIO_OutputStream`,
  `BIO_read`, `BIO_write` and `BIO_free_all` (4406-4520);
- the PEM readers `PEM_read_bio_*`, through `PEM_to_jlong` (5412-5456).

Calls on one BIO come one at a time. The model has no concurrency here: the
hard part is the error paths. At every call, the Java stream may:

- return any count its contract allows;
- return end of stream;
- throw.

`NewByteArray` may also fail.

| Model | Code |
|---|---|
| `bio`, `finite`, `eof`, `retry` | the BIO's `ptr`, `isFinite_`, `mEof`, the retry-read flag |
| `ReadInternal` | `read_internal`: the pending-exception test, `NewByteArray`, the Java call, -1 mapped to `setEof(true)` and 0 |
| `bio_stream_read` | `bio_stream_read`: clear the retry flags, then read; a 0 from a stream that is not finite becomes -1 plus retry |
| `PemGets` | one `BIO_gets` of BoringSSL's PEM reader. This is `gets` (length capped at `PEM_LINE_LENGTH`, `read_internal(len - 1)`, `buf[read] = '\0'`). After it, the reader reads on, has its object, or fails. |
| `PemReturn` | `PEM_to_jlong`: `throwExceptionIfNecessary`, then the fallback `RuntimeException` |
| `ThrowOver` | `jniThrowException` while an exception is pending. JNIHelp is not in this repository, so either exception may reach Java. |

BoringSSL itself is abstract. `BIO_read` and `BIO_write` return 0 for an
empty buffer without calling the method. The PEM reader's choices after a
line are nondeterministic, and so is whether it pushes an error when it
fails.

The bounds are:

- arrays of up to 2 bytes;
- `PEM_LINE_LENGTH` scaled to 2, with the PEM reader's buffer of 3 above it,
  so the cap applies;
- at most 2 lines per PEM read.

| Run | Result | What it shows |
|---|---|---|
| `streams` | pass, 1611 states | Every variable stays in its domain (`TypeOK`), including the index of the NUL that `gets` writes, which the `PEM_LINE_LENGTH` cap (1041-1042) keeps inside the line. The retry-flag, `read <= 0` and PEM-fallback behaviours are each one guard in the code (1158, 4465, 5427-5428); invariants over them would restate those guards, so none is kept. |
| `gets_underflow` | violation | When `readLine` throws, `read_internal` returns -1, and `gets` stores the NUL at `buf[-1]`: one byte before the buffer BoringSSL passed in. |

Not modelled:

- `bio_stream_puts` and `bio_stream_ctrl`. No entry point of this file
  calls them. `ctrl(FLUSH)` on an input stream would call
  `OutputStream#flush` on an `InputStream`.
- `mEof` is never reset: after a non-finite stream ends once, `BIO_eof`
  keeps answering 1. Nothing in this file asks.

## 8. The EVP entry points: `EvpDigest.tla` and `EvpCipher.tla`

The message-digest, signing and verification entry points share one shape:
look the context up with `fromContextObject`, check the arguments, call
BoringSSL, and on failure call `throwExceptionIfNecessary`, which throws the
oldest error on the calling thread's BoringSSL error queue and clears the
queue. The queue belongs to the thread, not to the call, so an error one
call leaves behind is what the next failing call on that thread reports.

One Java thread makes one call at a time on one `EVP_MD_CTX`. BoringSSL is
the environment: every library call succeeds, or fails and pushes an error.

| Model | Code |
|---|---|
| `ctx` | the `EVP_MD_CTX` Java's `NativeRef` holds |
| `errQueued` | the thread's error queue (only whether it is empty) |
| `fromContextObject` | `fromContextObject`: a null object gives `NullPointerException` and `nullptr` |
| `ChunkInvalid` | `ARRAY_CHUNK_INVALID` and `ARRAY_OFFSET_LENGTH_INVALID` |
| `LibExc`, `LibThrow` | `throwExceptionIfNecessary`: the oldest error is thrown, "stale" when it was queued before the call began; `ERR_clear_error` |
| `EVP_Update`, `UpdateChunk`, `UpdateDone` | `evpUpdate` on a `byte[]`: the stack copy for at most 1024 bytes, the loop over a heap buffer of `min(len, 65536)` bytes, or the pinned elements |
| `RegionBytes` | `GetByteArrayRegion`: the indices copied, or nothing copied and `ArrayIndexOutOfBoundsException` pending |
| `fed` | the bytes `update_func` was given, as array indices |
| `EVP_UpdateDirect` | `evpUpdate` on a native address |
| `VerifiedQueue` | the `ERR_clear_error` after `EVP_DigestVerifyFinal`'s verdict |

Every other entry point (`EVP_MD_CTX_create/cleanup/destroy/copy_ex`,
`EVP_DigestInit_ex`, `EVP_DigestFinal_ex`, `EVP_get_digestbyname`,
`EVP_MD_size`, `EVP_MD_block_size`, `evpDigestSignVerifyInit`,
`EVP_DigestSignFinal`, `EVP_DigestVerifyFinal`) is one action whose
disjuncts are its early returns and the library's outcomes.

The bounds scale the buffers: `StackBuf = 1` stands for 1024 bytes and
`ChunkBuf = 2` for 65536, with arrays of up to 3 bytes. A chunk of 3 bytes
then takes the heap loop through a full turn and a short last one, which is
the case the chunk arithmetic is about. Offsets and lengths range from one
below 0 to one past the end of the array.

### 8.1 Ciphers, AEAD, HMAC, RAND and RSA encryption: `EvpCipher.tla`

`EvpCipher` EXTENDS `EvpDigest`. It adds the `EVP_CIPHER_CTX` (`cctx`),
the `HMAC_CTX` (`hctx`) and the `EVP_PKEY_CTX` (`pctx`), and one action
per entry point. All of them
share `errQueued` and the call record (`mdCall`, `mdRet`, `mdExc`) with
the digest actions, because they run on the same thread and report
through the same queue. `CryptoNext` interleaves the two sets of actions,
so a run sees sequences such as a verify that did not verify followed by
a cipher `Final` that fails.

| Model | Code |
|---|---|
| `EVP_CipherInit_ex`, `EVP_CipherUpdate`, `EVP_CipherFinal_ex` | the checks in code order, then the library's outcomes |
| `FinalFailureExc` | 3929-3937: `throwExceptionIfNecessary`, else `BadPaddingException` |
| `CipherCtxQuery`, `EVP_CIPHER_CTX_set_key_length`, `EVP_CIPHER_iv_length`, `AlgorithmQuery` | the getters and setters; a null argument throws `NullPointerException` |
| `evp_aead_ctx_op` | the key, out, `ARRAY_OFFSET_INVALID`, in, `ARRAY_OFFSET_LENGTH_INVALID`, aad, nonce, `EVP_AEAD_CTX_init`, seal or open |
| `HMAC_*`, `RAND_bytes` | the HMAC context's life and its init, update and final; `RAND_bytes` |
| `evpPkeyEcryptDecryptInit`, `evpPkeyEncryptDecrypt`, `EVP_PKEY_CTX_free` | the `EVP_PKEY_CTX` of RSA encryption: creation with its init, encrypt and decrypt, free |
| `PkeyCtxCtrl`, `evpPkeyCtxCtrlMdOp`, `EVP_PKEY_CTX_set_rsa_oaep_label` | the RSA padding, salt length, MGF1 and OAEP digest, and OAEP label controls |
| `PkeyQuery`, `evp_print_func`, `EVP_PKEY_free`, `EVP_PKEY_cmp` | the `EVP_PKEY` queries. The keys come from marshaling code that is not modelled, so a key argument is a null object or a live key |
| `EcGroupQuery` | the `EC_GROUP` getters. A curve with no NID returns null with no exception, and degree 0 throws `RuntimeException`. The BIGNUM getters fail with `OutOfMemoryError` (`BN_new`, `NewObjectArray`, `NewByteArray`), fail from the error queue, or succeed |
| `EC_GROUP_new_by_curve_name`, `EC_GROUP_new_arbitrary` | the EC group constructors. An unknown curve name returns 0 with no exception, the lookup miss Java tests for. `EC_GROUP_new_arbitrary` returns its failure value 0 with no exception when `BN_new` or `BN_set_word` fails, leaving their malloc error queued, and when `EC_POINT_new` fails, after clearing the queue. A cofactor below 1 throws `IllegalArgumentException`, and `arrayToBignum` failures (`arrayToBignumFailures`) leave their exception pending |
| `EcObjectNewFree`, `EcPointAffine` | the `EC_GROUP`/`EC_POINT` free calls on a raw address, `get_generator`, `EC_POINT_new`, and the affine-coordinate setter and getter |
| `EcKeyOps`, `ECDH_compute_key`, `EVP_PKEY_new_EC_KEY` | EC key generation, the EC_KEY getters and ECDH. A key argument is null, an EC key, an EC key with only a public part (its private key makes `bignumToArray` throw `NullPointerException`), or another kind of key |
| `ASN1ToByteArray`, `KeyCodec` | the DER codecs `i2d`/`d2i_PKCS8_PRIV_KEY_INFO` and `i2d`/`d2i_PUBKEY`. An encoding or parse failure throws from the queue, and an array that cannot be made or pinned leaves `OutOfMemoryError` |
| `RsaParams` | `get_RSA_public_params` and `get_RSA_private_params`. For a key that is not RSA, the `EVP_PKEY_get1_RSA` failure is thrown from the queue |
| `RSA_size`, `RsaCrypt`, `GenerateFailed`, `RSA_generate_key_ex` | `RSA_size` throws its own `RuntimeException` for a key that is not RSA, and `RSA_crypt_operation` returns -1 with no exception; both leave `EVP_R_EXPECTING_AN_RSA_KEY` queued. `GenerateFailed` is the code's `< 0` test, which a 0 (failure) passes, so the failure's error stays queued |
| `ArrayExc` | a `ScopedByteArrayRO/RW` that fails: `NullPointerException` for null, `OutOfMemoryError` when it cannot pin |

A failed `EVP_CipherFinal_ex` may push no error. The GCM tag check of an
`EVP_CIPHER` returns -1 silently. The model has that outcome, which is
what the `BadPaddingException` fallback exists for. Cipher output bytes
are not modelled; arrays have length `CipherLen = 1`, and offsets and
lengths again range from -1 to one past the end.

| Run | Result | What it shows |
|---|---|---|
| `crypto` | pass, about 53k states, about 150 s | `CryptoSpec` has every modelled entry point, the leaky ones included. After any update on a `byte[]`, `update_func` was fed the caller's chunk in order and nothing else, and all of it when no exception is pending (`UpdateHashesTheChunk`). Every variable stays in its domain, including the 64 KiB buffer cap (`CryptoTypeOK`). |
| `silent_failure` | violation, 3 states | Every failure return carries an exception (`FailureLeavesException`) is broken. `EC_GROUP_new_arbitrary` returns 0 with nothing thrown after `BN_new` or `BN_set_word` fails (2518-2520, 2543-2544), and `RSA_crypt_operation` returns -1 with nothing thrown for a key that is not RSA (2297-2299). TLC's trace is the first. With `EC_GROUP_new_arbitrary` taken out of `CryptoNext`, it is the second. |

| `stale_error` | violation, 3 states | On the same `CryptoSpec`, the entry points that fail or look up without reading the queue leave an error behind. (1) `NativeCrypto_OBJ_txt2nid`: for a text that is neither a known name nor a dotted OID, `OBJ_txt2nid` pushes `OBJ_R_INVALID_OID_STRING` and returns `NID_undef`, and the JNI function returns that nid without clearing the queue. `OBJ_txt2nid_longName` makes the same call and then `ERR_clear_error` (4377). (2) `RSA_size` and the `RSA_*crypt` calls of a key that is not RSA. (3) A failed `RSA_generate_key_ex`. (4) `EC_GROUP_new_arbitrary` after `BN_new` or `BN_set_word` fails. The next call that fails throws the oldest error on the queue, the leftover one (`NoStaleErrorThrown`). TLC's trace is (4) followed by a failing AEAD seal. With `CryptoNext` reduced to the other entry points plus one of (1)-(3), each of them alone gives such a trace. Because the property fails on this thread, no passing run checks the `ERR_clear_error` after a verdict (3551), which the model keeps (`VerifiedQueue`). |

Seen while modelling, without a run:

- **`EVP_get_cipherbyname` (3770-3774).** It does not test
  `scoped_alg.c_str()`. A null name, or a `GetStringUTFChars` that fails,
  makes `strcasecmp` dereference `nullptr`. That crashes the process,
  whereas `EVP_get_digestbyname` checks.
- **`HMAC_Init_ex` (4237-4240).** It throws `NullPointerException` again
  after `fromContextObject` has thrown one. That is a JNI call with an
  exception pending.
- **`EVP_CipherUpdate` (3888).** It bounds `out` by `inLength`, but the
  library can write up to a block more once earlier calls have buffered a
  partial block.
- **`EVP_CipherFinal_ex` (3929).** It does not check `outOffset` at all.
- **`EVP_PKEY_CTX_set_rsa_oaep_label` (3752-3753).** It copies the label
  into `OPENSSL_malloc` memory without checking that memory for `nullptr`.

Not checked, because the contract is the Java caller's and that code is not
in this repository:

- `EVP_DigestFinal_ex` writes the digest at `hash + offset` (3149) with no
  bounds check of `offset`.
- `evpUpdate` on an address passes a negative `inLength` on as a huge
  `size_t` (3325).

The `actualLen > maxLen` test of `EVP_DigestSignFinal` cannot fire (the
library never writes more than it announced), and `new` never returns
`nullptr`, so those branches are not modelled.

## 9. Not modelled yet, and the plan

Later work, in order:

1. **The mutex's initialisation state.** `AppData::create` is modelled, but
   the `MUTEX_SETUP == -1` test that never fires, and `~AppData` destroying a
   mutex that was never initialised after `pipe()` or `fcntl` fails, are
   undefined behaviour by POSIX only. Checking them needs a violation run of
   its own.
2. **`SSL_shutdown_BIO`** in `SSLBlockingIO` (its callback state is in `CallbackState`).
3. **Renegotiation outside the mutex.**
4. **`ENGINE_SSL_*` return codes.** Their callback state is modelled; the
   mapping of error classes to return codes is not.
5. **A clock for the EINTR-restarted timeout.**
6. **The ALPN protocol-list parsing and selection.** These are pure
   functions, to be written as operators and checked against a reference.

Out of scope:

- data marshaling (keys, certificates, ASN.1: pure conversions with the
  same `throwExceptionIfNecessary` tail as the digest calls);
- the constant generator;
- the CPU-feature helper and the self test (they do I/O only).
