------------------------------ MODULE Deferred ------------------------------
(***************************************************************************)
(* The worker of Tunnel with conf.accept_mutex: event_loop (l_event.c)     *)
(* first puts the events that epoll_wait returned on queues, accepts       *)
(* clients, gives the mutex back and only then calls the handlers, so that *)
(* an event waits while others, and the handlers before it, are at work on *)
(* the same connections.  Handlers and timers are those of Tunnel; whether *)
(* the listener is in this worker's epoll is AcceptMutex's matter, and its *)
(* event may come, or not, with any batch.                                 *)
(***************************************************************************)
EXTENDS Tunnel, Sequences

VARIABLE queue_event   \* events whose handlers are still to be called

deferredVars == <<conn, tun, cur, batch, half, accepting, queue_event>>

Events(q) == {q[i] : i \in DOMAIN q}

(* queue_insert puts every event at the head.  The kernel returns the      *)
(* connections of B in any order, and of each the read event is inserted   *)
(* before the write event.                                                 *)
Queues(B) ==
  {q \in [1..Cardinality(B) -> B] :
     /\ Events(q) = B
     /\ \A i, j \in DOMAIN q : i < j =>
          /\ q[i] # q[j]
          /\ q[i][1] = q[j][1] => j = i + 1 /\ q[i][2] = "w"}

(* Events of connections freed or not registered are passed over; the      *)
(* listener's event goes to a queue of its own, which is dealt with first. *)
Reported == {e \in batch : /\ e[1] # Listener
                          /\ conn[e[1]].active /\ conn[e[1]].f[e[2]]}
event_loop_queue ==
  /\ Idle /\ ~accepting /\ queue_event = <<>> /\ batch # {}
  /\ batch' = Reported
  /\ queue_event' \in Queues(Reported)
  /\ accepting' = (<<Listener, "r">> \in batch)
  /\ UNCHANGED <<conn, tun, cur, half>>

(* event_accept, once per connection that accept() returns: its handler is *)
(* not called, but its read event queued, before all that are there.       *)
Accepted(k) ==
  event_opt([net_alloc(k) EXCEPT !.h["r"] = "tunnel_local_init"], "r")

queue_insert_lost(e) == UNCHANGED <<batch, queue_event>>  \* slip: left out
queue_insert(e) ==
  /\ batch' = batch \cup {e}
  /\ queue_event' = <<e>> \o queue_event

event_accept_queue ==
  /\ Idle /\ accepting
  /\ \/ /\ accepting' = FALSE
        /\ UNCHANGED <<conn, batch, queue_event>>
     \/ \E c \in Usable :
          /\ SetConn(c, Accepted(conn[c]))
          /\ queue_insert(<<c, "r">>)
          /\ UNCHANGED accepting
  /\ UNCHANGED <<tun, cur, half>>

(* The event queue, from its head: what is called is the handler that the  *)
(* event has by now, for the connection that its entry is by now.          *)
Called(k, c, d) ==
  IF k.h[d] # "NULL" THEN [h |-> k.h[d], c |-> c] ELSE Return

event_loop_run ==
  /\ Idle /\ ~accepting /\ queue_event # <<>>
  /\ LET e == Head(queue_event)
     IN /\ cur' = Called(conn[e[1]], e[1], e[2])
        /\ batch' = batch \ {e}
  /\ queue_event' = Tail(queue_event)
  /\ UNCHANGED <<conn, tun, half, accepting>>

-----------------------------------------------------------------------------
DeferredRunning ==
  \/ Handler /\ UNCHANGED queue_event
  \/ event_loop_queue \/ event_accept_queue \/ event_loop_run

DeferredLoop ==
  \/ epoll_wait
  \/ \E c \in Conn, d \in Dir : timer_expire(c, d)

DeferredInit == Init /\ queue_event = <<>>

DeferredNext == DeferredRunning \/ (DeferredLoop /\ UNCHANGED queue_event)

DeferredSpec == DeferredInit /\ [][DeferredNext]_deferredVars

(* As for Tunnel: the worker runs while it has something to run, comes to  *)
(* every timer that stays armed, and the kernel delivers what it owes.     *)
FairDeferredSpec ==
  /\ DeferredSpec
  /\ WF_deferredVars(DeferredRunning)
  /\ \A c \in Conn :
       /\ WF_deferredVars(OwedEvent(c) /\ UNCHANGED queue_event)
       /\ \A d \in Dir :
            WF_deferredVars(timer_expire(c, d) /\ UNCHANGED queue_event)

-----------------------------------------------------------------------------
(* Properties, besides those of Tunnel, which hold here too.               *)

(* No event is put on queue_event while it is there, which would cut the   *)
(* list and lose the events behind it: net_free leaves the events of its   *)
(* entry on the queue, and event_accept may take that entry, but never as  *)
(* long as the queue still holds them.                                     *)
Queued ==
  \A i, j \in DOMAIN queue_event : queue_event[i] = queue_event[j] => i = j
=============================================================================
