---------------------------- MODULE MCTimerHeap ----------------------------
(* TimerHeap with room for a few timers.                                   *)
EXTENDS TimerHeap
=============================================================================
