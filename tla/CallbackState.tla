---------------------------- MODULE CallbackState ----------------------------
(***************************************************************************)
(* AppData's callback state in org_conscrypt_NativeCrypto.cpp: the fields  *)
(* env and sslHandshakeCallbacks that every JNI entry point stores with    *)
(* setCallbackState before an engine call and erases with                  *)
(* clearCallbackState after it, and the engine callbacks (certificate      *)
(* verification, info, client certificate, PSK) that load them to call     *)
(* back into Java.  A JNIEnv belongs to one thread, and                    *)
(* sslHandshakeCallbacks is a local reference of one call, so a callback   *)
(* must find the values its own caller stored.                             *)
(*                                                                         *)
(* A caller is a thread; the value it stores in both fields is its own     *)
(* name.  Only sslRead, sslWrite and SSL_shutdown_BIO hold AppData's mutex *)
(* around the set/engine/clear sequence; the others do not.  The engine is *)
(* opaque: during an SSL_* call it may run any callback, at most           *)
(* MaxCallbacks times per call.  BIO_read and BIO_write on the network     *)
(* BIO run no callback.  Argument checks that return before touching       *)
(* AppData (shc == null, a null or too short array) change no state and    *)
(* are stuttering steps here.                                              *)
(***************************************************************************)
EXTENDS Naturals, FiniteSets, TLC

CONSTANTS
    Callers,       \* threads calling into NativeCrypto on one SSL
    NoThread,      \* nullptr in env and sslHandshakeCallbacks
    Calls,         \* Calls[t]: the entry points thread t calls
    MaxCallbacks,  \* bound on the callbacks one engine call runs
    InitFinished   \* whether the handshake has completed at the start

ASSUME NoThread \notin Callers /\ MaxCallbacks \in Nat /\ InitFinished \in BOOLEAN

VARIABLES
    env,          \* AppData::env
    shc,          \* AppData::sslHandshakeCallbacks
    mutex,        \* holder of AppData::mutex, or NoThread
    initFinished, \* SSL_is_init_finished; safeSslClear resets it
    fdClosed,     \* NetFd::isClosed() for the socket's FileDescriptor
    pc,           \* where each caller is
    call,         \* the entry point each caller is running
    cbEnv,        \* a running callback's local "JNIEnv* env = appData->env"
    cbShc,        \* its local "sslHandshakeCallbacks = appData->..."
    cbs,          \* callbacks run so far in the current engine call
    exc           \* a Java exception is pending on the caller's thread

vars == <<env, shc, mutex, initFinished, fdClosed, pc, call, cbEnv, cbShc,
          cbs, exc>>
locals == <<pc, call, cbEnv, cbShc, cbs, exc>>

-----------------------------------------------------------------------------
(* The entry points, by what they do around the engine call.               *)
(*   prim      the engine function called between set and clear;          *)
(*   locked    the call holds AppData's mutex from before set to after    *)
(*             clear;                                                      *)
(*   needInit  the call returns first unless the handshake has finished;  *)
(*   fd        setCallbackState is given the FileDescriptor, and fails    *)
(*             (returns false) once it is closed;                          *)
(*   bracket   the call stores and erases the callback state at all;      *)
(*   failClear a failed setCallbackState is followed by safeSslClear;     *)
(*   excClear  a pending exception after the engine call is followed by   *)
(*             safeSslClear;                                               *)
(*   endClear  the call always ends in safeSslClear.                      *)

Entry(prim, locked, needInit, fd, bracket, failClear, excClear, endClear) ==
    [prim |-> prim, locked |-> locked, needInit |-> needInit, fd |-> fd,
     bracket |-> bracket, failClear |-> failClear, excClear |-> excClear,
     endClear |-> endClear]

sslRead ==
    Entry("SSL_read", TRUE, TRUE, TRUE, TRUE, FALSE, TRUE, FALSE)

\* Mutant of sslWrite: no UniqueMutex around the SSL_write iteration.
sslWriteUnlocked ==
    Entry("SSL_write", FALSE, TRUE, TRUE, TRUE, FALSE, TRUE, FALSE)
sslWrite ==
    Entry("SSL_write", TRUE, TRUE, TRUE, TRUE, FALSE, TRUE, FALSE)
NativeCrypto_SSL_do_handshake ==
    Entry("SSL_do_handshake", FALSE, FALSE, TRUE, TRUE, TRUE, TRUE, FALSE)
NativeCrypto_SSL_renegotiate ==
    Entry("SSL_do_handshake", FALSE, FALSE, FALSE, FALSE, FALSE, FALSE, FALSE)
NativeCrypto_SSL_shutdown ==
    Entry("SSL_shutdown", FALSE, FALSE, TRUE, TRUE, TRUE, TRUE, TRUE)
NativeCrypto_SSL_shutdown_BIO ==
    Entry("SSL_shutdown", TRUE, FALSE, FALSE, TRUE, TRUE, TRUE, TRUE)
NativeCrypto_ENGINE_SSL_do_handshake ==
    Entry("SSL_do_handshake", FALSE, FALSE, FALSE, TRUE, TRUE, TRUE, FALSE)
NativeCrypto_ENGINE_SSL_shutdown ==
    Entry("SSL_shutdown", FALSE, FALSE, FALSE, TRUE, TRUE, TRUE, TRUE)
NativeCrypto_ENGINE_SSL_read_direct ==
    Entry("SSL_read", FALSE, FALSE, FALSE, TRUE, TRUE, FALSE, FALSE)
NativeCrypto_ENGINE_SSL_read_heap ==
    Entry("SSL_read", FALSE, FALSE, FALSE, TRUE, TRUE, FALSE, FALSE)
NativeCrypto_ENGINE_SSL_write_BIO_direct ==
    Entry("BIO_write", FALSE, FALSE, FALSE, TRUE, TRUE, FALSE, FALSE)
NativeCrypto_ENGINE_SSL_write_BIO_heap ==
    Entry("BIO_write", FALSE, FALSE, FALSE, TRUE, TRUE, FALSE, FALSE)
NativeCrypto_ENGINE_SSL_read_BIO_direct ==
    Entry("BIO_read", FALSE, FALSE, FALSE, TRUE, TRUE, FALSE, FALSE)
NativeCrypto_ENGINE_SSL_read_BIO_heap ==
    Entry("BIO_read", FALSE, FALSE, FALSE, TRUE, TRUE, FALSE, FALSE)
NativeCrypto_ENGINE_SSL_write_direct ==
    Entry("SSL_write", FALSE, FALSE, FALSE, TRUE, TRUE, FALSE, FALSE)
NativeCrypto_ENGINE_SSL_write_heap ==
    Entry("SSL_write", FALSE, FALSE, FALSE, TRUE, TRUE, FALSE, FALSE)

EntryPoints ==
    ("sslRead" :> sslRead) @@ ("sslWrite" :> sslWrite)
    @@ ("SSL_do_handshake" :> NativeCrypto_SSL_do_handshake)
    @@ ("SSL_renegotiate" :> NativeCrypto_SSL_renegotiate)
    @@ ("SSL_shutdown" :> NativeCrypto_SSL_shutdown)
    @@ ("SSL_shutdown_BIO" :> NativeCrypto_SSL_shutdown_BIO)
    @@ ("ENGINE_SSL_do_handshake" :> NativeCrypto_ENGINE_SSL_do_handshake)
    @@ ("ENGINE_SSL_shutdown" :> NativeCrypto_ENGINE_SSL_shutdown)
    @@ ("ENGINE_SSL_read_direct" :> NativeCrypto_ENGINE_SSL_read_direct)
    @@ ("ENGINE_SSL_read_heap" :> NativeCrypto_ENGINE_SSL_read_heap)
    @@ ("ENGINE_SSL_write_BIO_direct" :> NativeCrypto_ENGINE_SSL_write_BIO_direct)
    @@ ("ENGINE_SSL_write_BIO_heap" :> NativeCrypto_ENGINE_SSL_write_BIO_heap)
    @@ ("ENGINE_SSL_read_BIO_direct" :> NativeCrypto_ENGINE_SSL_read_BIO_direct)
    @@ ("ENGINE_SSL_read_BIO_heap" :> NativeCrypto_ENGINE_SSL_read_BIO_heap)
    @@ ("ENGINE_SSL_write_direct" :> NativeCrypto_ENGINE_SSL_write_direct)
    @@ ("ENGINE_SSL_write_heap" :> NativeCrypto_ENGINE_SSL_write_heap)

ASSUME \A t \in Callers : Calls[t] \subseteq DOMAIN EntryPoints

E(t) == EntryPoints[call[t]]

\* BIO_read and BIO_write move bytes on the network BIO and run no callback.
RunsCallbacks(prim) == prim \notin {"BIO_read", "BIO_write"}

PCs == {"idle", "set", "engine", "cb_check", "cb_check_env", "cb_shc", "clear"}

Init ==
    /\ env = NoThread /\ shc = NoThread /\ mutex = NoThread
    /\ initFinished = InitFinished /\ fdClosed = FALSE
    /\ pc = [t \in Callers |-> "idle"]
    /\ call = [t \in Callers |-> CHOOSE n \in Calls[t] : TRUE]
    /\ cbEnv = [t \in Callers |-> NoThread]
    /\ cbShc = [t \in Callers |-> NoThread]
    /\ cbs = [t \in Callers |-> 0]
    /\ exc = [t \in Callers |-> FALSE]

\* Mutant of Finish: the lock is not released on return.
FinishKeepsLock(t) ==
    /\ pc' = [pc EXCEPT ![t] = "idle"]
    /\ UNCHANGED mutex

\* The caller is done: UniqueMutex's destructor unlocks a locked call.
Finish(t) ==
    /\ pc' = [pc EXCEPT ![t] = "idle"]
    /\ mutex' = IF mutex = t THEN NoThread ELSE mutex

-----------------------------------------------------------------------------
(* The entry points                                                        *)

\* Thread t enters entry point n: a locked call takes the mutex first
\* (UniqueMutex appDataLock); sslRead/sslWrite then return unless
\* SSL_is_init_finished (or false start / a pending renegotiation).
StartCall(t) ==
    /\ pc[t] = "idle"
    /\ \E n \in Calls[t] :
         LET e == EntryPoints[n] IN
         /\ e.locked => mutex = NoThread
         /\ call' = [call EXCEPT ![t] = n]
         /\ exc' = [exc EXCEPT ![t] = FALSE]
         /\ cbs' = [cbs EXCEPT ![t] = 0]
         /\ IF e.needInit /\ ~initFinished
            THEN UNCHANGED <<pc, mutex>>
            ELSE /\ pc' = [pc EXCEPT ![t] = IF e.bracket THEN "set" ELSE "engine"]
                 /\ mutex' = IF e.locked THEN t ELSE mutex
    /\ UNCHANGED <<env, shc, initFinished, fdClosed, cbEnv, cbShc>>

\* AppData::setCallbackState(env, shc, fd): with a FileDescriptor that is
\* closed it returns false and stores nothing; the caller returns (after
\* safeSslClear where failClear).  Otherwise env and sslHandshakeCallbacks
\* are stored, and the engine function is called.
SetCallbackState(t) ==
    /\ pc[t] = "set"
    /\ IF E(t).fd /\ fdClosed
       THEN /\ Finish(t)
            /\ initFinished' = IF E(t).failClear THEN FALSE ELSE initFinished
            /\ UNCHANGED <<env, shc>>
       ELSE /\ env' = t /\ shc' = t
            /\ pc' = [pc EXCEPT ![t] = "engine"]
            /\ UNCHANGED <<mutex, initFinished>>
    /\ UNCHANGED <<fdClosed, call, cbEnv, cbShc, cbs, exc>>

\* The engine function returns.  SSL_do_handshake may have completed the
\* handshake.  SSL_renegotiate has no clearCallbackState and is done.
EngineReturns(t) ==
    /\ pc[t] = "engine"
    /\ \E done \in IF E(t).prim = "SSL_do_handshake" THEN BOOLEAN ELSE {FALSE} :
         initFinished' = (initFinished \/ done)
    /\ IF E(t).bracket
       THEN /\ pc' = [pc EXCEPT ![t] = "clear"] /\ UNCHANGED mutex
       ELSE Finish(t)
    /\ UNCHANGED <<env, shc, fdClosed, call, cbEnv, cbShc, cbs, exc>>

\* AppData::clearCallbackState() after the engine call, then the caller's
\* env->ExceptionCheck() (safeSslClear where excClear) and the trailing
\* safeSslClear of the shutdown calls.
ClearCallbackState(t) ==
    /\ pc[t] = "clear"
    /\ env' = NoThread /\ shc' = NoThread
    /\ initFinished' =
         IF E(t).endClear \/ (E(t).excClear /\ exc[t]) THEN FALSE
         ELSE initFinished
    /\ Finish(t)
    /\ UNCHANGED <<fdClosed, call, cbEnv, cbShc, cbs, exc>>

-----------------------------------------------------------------------------
(* The engine callbacks                                                    *)

\* A callback begins inside an engine call; if it gets past its own first
\* test it loads appData->env into a local, then goes on to the tests at
\* check: "cb_check" (env and ExceptionCheck) or "cb_check_env" (env only).
CallbackEntry(t, reaches, check) ==
    /\ pc[t] = "engine" /\ RunsCallbacks(E(t).prim) /\ cbs[t] < MaxCallbacks
    /\ cbs' = [cbs EXCEPT ![t] = cbs[t] + 1]
    /\ IF reaches
       THEN /\ pc' = [pc EXCEPT ![t] = check]
            /\ cbEnv' = [cbEnv EXCEPT ![t] = env]
       ELSE UNCHANGED <<pc, cbEnv>>
    /\ UNCHANGED <<env, shc, mutex, initFinished, fdClosed, call, cbShc, exc>>

\* cert_verify_callback always loads appData->env and tests only that it
\* is not nullptr before its upcall.
cert_verify_callback(t) == CallbackEntry(t, TRUE, "cb_check_env")

\* info_callback ignores events other than SSL_CB_HANDSHAKE_START/DONE.
info_callback(t) ==
    \E handshakeEvent \in BOOLEAN : CallbackEntry(t, handshakeEvent, "cb_check")

\* cert_cb returns 1 on a server before loading the callback state.
cert_cb(t) == \E client \in BOOLEAN : CallbackEntry(t, client, "cb_check")

\* The PSK callbacks always load appData->env.
psk_client_callback(t) == CallbackEntry(t, TRUE, "cb_check")
psk_server_callback(t) == CallbackEntry(t, TRUE, "cb_check")

\* "if (env == nullptr) { ALOGE(...); return 0; }", and in all but
\* cert_verify_callback "if (env->ExceptionCheck()) return": the callback
\* fails or returns; otherwise it loads appData->sslHandshakeCallbacks.
CallbackCheck(t) ==
    /\ pc[t] \in {"cb_check", "cb_check_env"}
    /\ IF cbEnv[t] = NoThread \/ (pc[t] = "cb_check" /\ exc[t])
       THEN /\ pc' = [pc EXCEPT ![t] = "engine"] /\ UNCHANGED cbShc
       ELSE /\ pc' = [pc EXCEPT ![t] = "cb_shc"]
            /\ cbShc' = [cbShc EXCEPT ![t] = shc]
    /\ UNCHANGED <<env, shc, mutex, initFinished, fdClosed, call, cbEnv, cbs,
                   exc>>

\* GetObjectClass(sslHandshakeCallbacks), GetMethodID and the Call*Method
\* upcall through the loaded env; the Java method may throw.
CallbackUpcall(t) ==
    /\ pc[t] = "cb_shc"
    /\ pc' = [pc EXCEPT ![t] = "engine"]
    /\ \E thrown \in BOOLEAN : exc' = [exc EXCEPT ![t] = exc[t] \/ thrown]
    /\ UNCHANGED <<env, shc, mutex, initFinished, fdClosed, call, cbEnv,
                   cbShc, cbs>>

\* Application code closes the socket's FileDescriptor.
CloseFd ==
    /\ ~fdClosed /\ fdClosed' = TRUE
    /\ UNCHANGED <<env, shc, mutex, initFinished, locals>>

Callback(t) ==
    \/ cert_verify_callback(t) \/ info_callback(t) \/ cert_cb(t)
    \/ psk_client_callback(t) \/ psk_server_callback(t)

Next ==
    \/ \E t \in Callers :
         \/ StartCall(t) \/ SetCallbackState(t) \/ EngineReturns(t)
         \/ ClearCallbackState(t) \/ Callback(t) \/ CallbackCheck(t)
         \/ CallbackUpcall(t)
    \/ CloseFd

Spec == Init /\ [][Next]_vars

-----------------------------------------------------------------------------
(* Properties                                                              *)

\* The fields hold a caller or nullptr, and the mutex is held only by a
\* thread running a locked entry point.
TypeOK ==
    /\ env \in Callers \cup {NoThread} /\ shc \in Callers \cup {NoThread}
    /\ mutex \in Callers \cup {NoThread}
    /\ mutex # NoThread => pc[mutex] # "idle" /\ E(mutex).locked
    /\ initFinished \in BOOLEAN /\ fdClosed \in BOOLEAN
    /\ pc \in [Callers -> PCs] /\ call \in [Callers -> DOMAIN EntryPoints]
    /\ cbEnv \in [Callers -> Callers \cup {NoThread}]
    /\ cbShc \in [Callers -> Callers \cup {NoThread}]
    /\ cbs \in [Callers -> 0..MaxCallbacks] /\ exc \in [Callers -> BOOLEAN]

\* The class comment's rule ("maintain an appropriate JNIEnv on any
\* downcall to openssl since it could result in an upcall to Java"): a
\* callback finds in appData->env the JNIEnv of the thread it runs on (not
\* nullptr, not another thread's), and in sslHandshakeCallbacks the object
\* of that same call.
CallbackSeesCallersState ==
    \A t \in Callers :
        /\ pc[t] \in {"cb_check", "cb_check_env"} => cbEnv[t] = t
        /\ pc[t] = "cb_shc" => cbShc[t] = t
=============================================================================
