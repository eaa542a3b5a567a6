------------------------------ MODULE MCRelay ------------------------------
(* Relay with buffers and sockets of a few bytes.                          *)
EXTENDS Relay
=============================================================================
