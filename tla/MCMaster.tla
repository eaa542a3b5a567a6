------------------------------ MODULE MCMaster ------------------------------
(* Master with a few slots.  Slots, and process ids, are interchangeable.  *)
EXTENDS Master, TLC

Interchangeable == Permutations(Slot) \cup Permutations(Pid)
=============================================================================
