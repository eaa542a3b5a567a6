---------------------------- MODULE AcceptMutex ----------------------------
(***************************************************************************)
(* Several workers with conf.accept_mutex: event_loop of l_event.c, where  *)
(* a worker has the listening socket in its epoll only while it owns a     *)
(* semaphore shared by all, and the master that forks a dead worker again  *)
(* (l_signal.c).                                                           *)
(***************************************************************************)
EXTENDS Naturals, FiniteSets

CONSTANT Worker

ASSUME WorkerAssumption == IsFiniteSet(Worker)

VARIABLES
  accept_mutex,   \* value of the semaphore
  backlog,        \* clients wait in the listening socket
  loop            \* of every worker: its place in event_loop and its flags

mutexVars == <<accept_mutex, backlog, loop>>

(* user stands for accept_mutex_user, which every process has for itself;  *)
(* open is accept_event_open, active f_active of the listener's read       *)
(* event, epoll the kernel's interest, edge a notification it owes.        *)
Forked == [at |-> "lock", user |-> FALSE, open |-> FALSE, active |-> FALSE,
           epoll |-> FALSE, edge |-> FALSE, accepts |-> FALSE]

Goes(p, to) == loop' = [loop EXCEPT ![p] = to]

-----------------------------------------------------------------------------
(* event_opt and event_close of the listener's read event.  event_close    *)
(* clears f_active of the write event, so that the read event stays active *)
(* and the next event_opt does nothing.                                    *)
event_opt(w) ==
  IF w.active THEN w
  ELSE [w EXCEPT !.active = TRUE, !.epoll = TRUE, !.edge = backlog]
event_close_kept(w) == w                   \* slip: the socket is not taken out
event_close(w) ==
  IF w.active THEN [w EXCEPT !.epoll = FALSE, !.edge = FALSE] ELSE w

(* sem_trywait at the head of event_loop.                                  *)
Locked(w) == [event_opt(w) EXCEPT !.user = TRUE, !.open = TRUE, !.at = "poll"]
Refused_open(w) == [w EXCEPT !.at = "poll"] \* slip: accept_event_open stays
Refused(w) ==
  [IF w.open THEN event_close(w) ELSE w EXCEPT !.open = FALSE, !.at = "poll"]

sem_trywait(p) ==
  /\ loop[p].at = "lock"
  /\ \/ /\ accept_mutex > 0
        /\ accept_mutex' = accept_mutex - 1
        /\ Goes(p, Locked(loop[p]))
     \/ /\ accept_mutex = 0
        /\ Goes(p, Refused(loop[p]))
        /\ UNCHANGED accept_mutex
  /\ UNCHANGED backlog

(* epoll_wait is interrupted or times out (500 ms for a worker that was    *)
(* refused, the next timer for one that was not): event_loop returns at    *)
(* once, and does not post.                                                *)
EarlyReturn(p) ==
  /\ loop[p].at = "poll"
  /\ Goes(p, [loop[p] EXCEPT !.at = "lock"])
  /\ UNCHANGED <<accept_mutex, backlog>>

(* epoll_wait has events, the listener's among them or not.                *)
epoll_wait(p) ==
  /\ loop[p].at = "poll"
  /\ \E accepts \in {FALSE, loop[p].edge} :
       Goes(p, [loop[p] EXCEPT !.at = "accept", !.accepts = accepts,
                               !.edge = @ /\ ~accepts])
  /\ UNCHANGED <<accept_mutex, backlog>>

(* The accept queue, then sem_post.  event_accept takes every client that  *)
(* waits, or stops early at an error of accept or net_alloc.               *)
Post_all(w) == TRUE                        \* slip: also without the mutex
Post(w) == w.open
Accept(p) ==
  /\ loop[p].at = "accept"
  /\ backlog' \in IF loop[p].accepts THEN {FALSE, backlog} ELSE {backlog}
  /\ IF Post(loop[p])
       THEN /\ accept_mutex' = accept_mutex + 1
            /\ Goes(p, [loop[p] EXCEPT !.at = "events", !.accepts = FALSE,
                                       !.user = FALSE])
       ELSE /\ UNCHANGED accept_mutex
            /\ Goes(p, [loop[p] EXCEPT !.at = "events", !.accepts = FALSE])

(* The event queue: whatever the connections of this worker have to do.    *)
Events(p) ==
  /\ loop[p].at = "events"
  /\ Goes(p, [loop[p] EXCEPT !.at = "lock"])
  /\ UNCHANGED <<accept_mutex, backlog>>

Client ==
  /\ backlog' = TRUE
  /\ loop' = [p \in Worker |-> [loop[p] EXCEPT !.edge = loop[p].epoll]]
  /\ UNCHANGED accept_mutex

Dies(p) ==
  /\ loop[p].at # "dead"
  /\ Goes(p, [Forked EXCEPT !.at = "dead", !.user = loop[p].user])
  /\ UNCHANGED <<accept_mutex, backlog>>

(* l_signal_child_status and the fork that follows.  The master compares   *)
(* the dead pid with its own accept_mutex_user, which no worker can set,   *)
(* and never unlocks.                                                      *)
Respawn(p) ==
  /\ loop[p].at = "dead"
  /\ Goes(p, Forked)
  /\ UNCHANGED <<accept_mutex, backlog>>

MutexInit ==
  /\ accept_mutex = 1
  /\ backlog = FALSE
  /\ loop = [p \in Worker |-> Forked]

MutexNext ==
  \/ Client
  \/ \E p \in Worker :
       \/ sem_trywait(p) \/ EarlyReturn(p) \/ epoll_wait(p) \/ Accept(p)
       \/ Events(p) \/ Dies(p) \/ Respawn(p)

MutexSpec == MutexInit /\ [][MutexNext]_mutexVars

-----------------------------------------------------------------------------
(* Properties.                                                             *)

(* The variables have their types.                                         *)
MutexTypeOK ==
  /\ accept_mutex \in {0, 1}
  /\ backlog \in BOOLEAN
  /\ loop \in [Worker -> [
       at : {"lock", "poll", "accept", "events", "dead"}, user : BOOLEAN,
       open : BOOLEAN, active : BOOLEAN, epoll : BOOLEAN, edge : BOOLEAN,
       accepts : BOOLEAN]]

(* The listening socket wakes one worker at a time: no two workers wait in *)
(* epoll_wait, or accept, with the listener in their epoll, although one   *)
(* that has posted keeps it there until its next turn, a time out returns  *)
(* without posting, and f_active is stale after the first event_close.     *)
Listens(p) == loop[p].epoll /\ loop[p].at \in {"poll", "accept"}
OneListens == \A p, q \in Worker : Listens(p) /\ Listens(q) => p = q

(* accept_event_open tells event_loop whether to post: the semaphore never *)
(* counts beyond 1, and who holds it (or returned early with it) is alone. *)
MutualExclusion ==
  accept_mutex + Cardinality({p \in Worker : loop[p].user}) <= 1

(* A dead worker does not keep the mutex (l_signal.c: "unlock accept mutex *)
(* if accept mutex on and dead process using").                            *)
DeadUnlocked == accept_mutex = 0 => \E p \in Worker : loop[p].user
=============================================================================
