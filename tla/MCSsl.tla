------------------------------- MODULE MCSsl -------------------------------
(* Ssl with a few connections, which are interchangeable.                  *)
EXTENDS Ssl, TLC

Interchangeable == Permutations(Conn)
=============================================================================
