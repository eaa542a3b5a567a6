----------------------------- MODULE MCDeferred -----------------------------
(* Deferred on a small pool, as MCTunnel is Tunnel on one.                 *)
EXTENDS Deferred, TLC

Interchangeable == Permutations(Conn) \cup Permutations(Tun)
=============================================================================
