------------------------ MODULE CancellableConnection ------------------------
(***************************************************************************)
(* What an SSL connection's native state promises the Java threads that   *)
(* use it (spec section 3, section 4.4 and P1), with none of the pipe,     *)
(* poll or mutex detail of SSLBlockingIO:                                   *)
(*   - each thread is in at most one blocking call (handshake, read or     *)
(*     write) at a time and can begin one only while the state exists;     *)
(*   - the connection can be cancelled at any time (interrupt()), and a    *)
(*     cancelled connection releases every call in flight;                 *)
(*   - the state is freed only once no call is in flight, and after that   *)
(*     no call begins.                                                     *)
(* SSLBlockingIO implements this specification under the mapping given   *)
(* there (ConnectionSpec).                                                 *)
(***************************************************************************)
CONSTANT Threads

VARIABLES
    alive,    \* not yet cancelled (AppData::aliveAndKicking)
    inCall,   \* the threads inside a blocking call on the connection
    freed     \* the native state has been deleted (NativeCrypto_SSL_free)

vars == <<alive, inCall, freed>>

TypeOK ==
    /\ alive \in BOOLEAN /\ freed \in BOOLEAN
    /\ inCall \subseteq Threads

Init ==
    /\ alive = TRUE
    /\ inCall = {}
    /\ freed = FALSE

\* A thread enters a handshake, read or write.
Begin(t) ==
    /\ ~freed /\ t \notin inCall
    /\ inCall' = inCall \cup {t}
    /\ UNCHANGED <<alive, freed>>

\* The call returns to Java, with a result or an exception.
End(t) ==
    /\ t \in inCall
    /\ inCall' = inCall \ {t}
    /\ UNCHANGED <<alive, freed>>

\* interrupt(): from now on the connection is cancelled.
Cancel ==
    /\ alive
    /\ alive' = FALSE
    /\ UNCHANGED <<inCall, freed>>

\* The native state is deleted, which also cancels it; only when idle.
Free ==
    /\ ~freed /\ inCall = {}
    /\ freed' = TRUE
    /\ alive' = FALSE
    /\ UNCHANGED inCall

\* A call in flight on a cancelled connection returns.
CancelledEnd(t) == ~alive /\ End(t)

Next ==
    \/ \E t \in Threads : Begin(t) \/ End(t)
    \/ Cancel \/ Free

\* Only the return of a cancelled call is promised: an uncancelled call
\* may block for as long as the peer is silent, and nothing obliges anyone
\* to cancel or free the connection.
Spec == Init /\ [][Next]_vars /\ \A t \in Threads : WF_vars(CancelledEnd(t))
=============================================================================
