------------------------------ MODULE MCHeads ------------------------------
(* Heads with short limits and heads of up to two headers.                 *)
EXTENDS Heads
=============================================================================
