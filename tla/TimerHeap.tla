----------------------------- MODULE TimerHeap -----------------------------
(***************************************************************************)
(* The timers of a worker: the binary heap of l_bheap.c and, on it,        *)
(* l_timer.c and the part of the worker's loop that lets timers expire and *)
(* waits for the next one.                                                 *)
(*                                                                         *)
(* Times are relative to cache_time_msec, which only goes forward here     *)
(* (gettimeofday may be set back: that is left out).  A timer is known by  *)
(* its place in the heap; the timers that are not set are all alike.       *)
(***************************************************************************)
EXTENDS Integers, SequencesExt

CONSTANTS
  Size,            \* of the heap: a timer for each event of each connection
  TUNNEL_TIMEOUT,  \* the one timeout of all callers of timer_add
  MaxStep,         \* bound: time that passes in one turn of the worker's loop
  MaxLate          \* bound: how far overdue a timer is told from another

ASSUME TimeAssumption ==
  /\ Size \in Nat \ {0} /\ TUNNEL_TIMEOUT \in Nat \ {0} /\ MaxStep \in Nat \ {0}
  /\ MaxLate \in Nat

VARIABLES
  heap,      \* array[1 .. index]: num and index of every node
  time_out,  \* what timer_expire answers
  at         \* the worker is in timer_expire, epoll_wait or handlers

vars == <<heap, time_out, at>>

-----------------------------------------------------------------------------
(* l_bheap.c.                                                              *)

HEAP_PARENT(i) == i \div 2
HEAP_LCHILD(i) == 2 * i
HEAP_RCHILD(i) == 2 * i + 1

(* The nodes at i and at its parent p change places (slip: the node that   *)
(* goes up keeps its index).                                               *)
Exchanged_one(h, i, p) == [h EXCEPT ![p] = h[i],
                                    ![i] = [h[p] EXCEPT !.index = i]]
Exchanged(h, i, p) == [h EXCEPT ![p] = [h[i] EXCEPT !.index = h[p].index],
                                ![i] = [h[p] EXCEPT !.index = i]]

Node == [num : Int, index : Nat]

(* The loop of heap_add: the node at i goes up.                            *)
Placed == {x \in Seq(Node) \X Nat : x[2] \in DOMAIN x[1]}
Up[x \in Placed] ==
  LET h == x[1]
      i == x[2]
      p == HEAP_PARENT(i)
  IN IF p > 0 /\ h[i].num < h[p].num THEN Up[<<Exchanged(h, i, p), p>>] ELSE h

(* The smaller child of i.                                                 *)
min_index(h, i) ==
  IF /\ HEAP_RCHILD(i) <= Len(h)
     /\ h[HEAP_RCHILD(i)].num <= h[HEAP_LCHILD(i)].num
    THEN HEAP_RCHILD(i) ELSE HEAP_LCHILD(i)

(* The loop of heap_del: the node at i, if there is one, goes down.        *)
Vacated == {x \in Seq(Node) \X Nat : x[2] \in 1 .. Len(x[1]) + 1}
Down[x \in Vacated] ==
  LET h == x[1]
      i == x[2]
      m == min_index(h, i)
  IN IF HEAP_LCHILD(i) <= Len(h) /\ h[i].num > h[m].num
       THEN Down[<<Exchanged(h, m, i), m>>] ELSE h

heap_add(h, num) ==
  LET i == Len(h) + 1 IN Up[<<Append(h, [num |-> num, index |-> i]), i>>]

(* The last node takes the place of the deleted one, and may only go down. *)
heap_del(h, del_index) ==
  LET tail == [h[Len(h)] EXCEPT !.index = del_index]
  IN Down[<<Front([h EXCEPT ![del_index] = tail]), del_index>>]

-----------------------------------------------------------------------------
(* l_timer.c.                                                              *)

(* Handlers set, set anew and delete timers, also those that a timer calls.*)
timer_add ==
  /\ at # "epoll_wait"
  /\ \/ Len(heap) < Size /\ heap' = heap_add(heap, TUNNEL_TIMEOUT)
     \/ \E i \in DOMAIN heap :
          heap' = heap_add(heap_del(heap, heap[i].index), TUNNEL_TIMEOUT)
  /\ UNCHANGED <<time_out, at>>

timer_del ==
  /\ at # "epoll_wait"
  /\ \E i \in DOMAIN heap : heap' = heap_del(heap, heap[i].index)
  /\ UNCHANGED <<time_out, at>>

(* The time left is compared as a signed number (slip: as an unsigned one, *)
(* of which no overdue timer is due).                                      *)
Due_unsigned == heap[1].num = 0
Due == heap[1].num <= 0

(* One turn of the loop of timer_expire.                                   *)
timer_expire ==
  /\ at = "timer_expire"
  /\ IF heap # <<>> /\ Due
       THEN heap' = heap_del(heap, heap[1].index) /\ UNCHANGED <<time_out, at>>
       ELSE /\ time_out' = IF heap = <<>> THEN -1 ELSE heap[1].num
            /\ at' = "epoll_wait"
            /\ UNCHANGED heap

(* epoll_wait returns with events, or after time_out; l_time_update.       *)
epoll_wait ==
  /\ at = "epoll_wait"
  /\ \E d \in 0 .. MaxStep :
       heap' = [i \in DOMAIN heap |->
                  [heap[i] EXCEPT !.num = Max({@ - d, -MaxLate})]]
  /\ at' = "handlers"
  /\ UNCHANGED time_out

Loop == at = "handlers" /\ at' = "timer_expire" /\ UNCHANGED <<heap, time_out>>

Init == heap = <<>> /\ time_out = -1 /\ at = "handlers"
Next == timer_add \/ timer_del \/ timer_expire \/ epoll_wait \/ Loop
Spec == Init /\ [][Next]_vars

(* The worker runs and time passes.                                        *)
FairSpec ==
  /\ Spec
  /\ WF_vars(timer_expire) /\ WF_vars(epoll_wait) /\ WF_vars(Loop)
  /\ SF_vars(epoll_wait /\ heap' # heap)

-----------------------------------------------------------------------------
(* Types, and: timer_del hands heap_del the index of its own node, so that *)
(* after any sequence of exchanges each node knows its place; heap_add,    *)
(* whose failure no caller looks at, always finds room.                    *)
Indexed ==
  /\ Len(heap) <= Size
  /\ \A i \in DOMAIN heap : /\ heap[i].index = i
                            /\ heap[i].num \in -MaxLate .. TUNNEL_TIMEOUT
  /\ time_out \in -1 .. TUNNEL_TIMEOUT
  /\ at \in {"timer_expire", "epoll_wait", "handlers"}

(* No timer is lost behind another: when no more are set, all expire, also *)
(* where heap_del has put a node below a later one.                        *)
AllExpire == <>[][~timer_add]_vars => <>[](heap = <<>>)
=============================================================================
