---------------------------- MODULE MCAcceptMutex ----------------------------
(* AcceptMutex with a few workers, which are interchangeable.              *)
EXTENDS AcceptMutex, TLC

Interchangeable == Permutations(Worker)
=============================================================================
