------------------------------ MODULE MCTunnel ------------------------------
(* Tunnel on a small pool.  Connections, and tunnels, are interchangeable. *)
EXTENDS Tunnel, TLC

Interchangeable == Permutations(Conn) \cup Permutations(Tun)
=============================================================================
