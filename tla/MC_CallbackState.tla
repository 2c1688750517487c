-------------------------- MODULE MC_CallbackState --------------------------
(* Instantiates CallbackState for TLC.  The callers are model values; each  *)
(* Calls definition assigns them the entry points of one configuration.     *)
EXTENDS CallbackState

CONSTANTS r1, w1, c1

\* A reader in sslRead, a writer in sslWrite and a closer in
\* SSL_shutdown_BIO: the entry points that hold AppData's mutex.
LockedCalls ==
    (r1 :> {"sslRead"}) @@ (w1 :> {"sslWrite"}) @@ (c1 :> {"SSL_shutdown_BIO"})

\* One thread calling SSL_renegotiate.
RenegotiateCalls == r1 :> {"SSL_renegotiate"}

LockedCallers == {r1, w1, c1}
OneCaller == {r1}
=============================================================================
