-------------------------- MODULE MC_SSLBlockingIO --------------------------
(* Instantiates SSLBlockingIO for TLC: one reader thread r1 (handshake, then *)
(* reads) and one writer thread w1, the two threads the AppData comment and *)
(* NativeCrypto_SSL_interrupt ("at most two threads can be waiting") allow. *)
EXTENDS SSLBlockingIO

CONSTANTS r1, w1

MCReaders == {r1}
MCWriters == {w1}
=============================================================================
