------------------------------- MODULE Master -------------------------------
(***************************************************************************)
(* The master process and its workers: l_process.c, l_signal.c and the     *)
(* -stop and -reload commands of lk.c.                                     *)
(*                                                                         *)
(* The master blocks SIGCHLD, SIGINT and SIGUSR1/2 and lets them in only   *)
(* inside sigsuspend; SIGHUP is never blocked, so its handler may run      *)
(* between any two of the master's steps.  A worker blocks nothing.        *)
(***************************************************************************)
EXTENDS FiniteSets

CONSTANTS
  Slot,        \* indices of process_arr below process_num
  Pid,         \* process ids
  Null         \* pid 0 of an entry that was never forked

ASSUME SlotAssumption ==
  /\ IsFiniteSet(Slot) /\ IsFiniteSet(Pid)
  /\ Null \notin Pid

VARIABLES
  process_arr,   \* of the master: pid, exiting and exited of every slot
  sig_quit, sig_reap, sig_reload,
  live,          \* local of process_master_run
  master,        \* where the master is
  pending,       \* signals blocked for it, or not delivered yet
  worker,        \* every process id: state of its process, slot, sig_quit
  fork_fails     \* whether the kernel may refuse a fork, for good

masterVars == <<process_arr, sig_quit, sig_reap, sig_reload, live>>
processVars == <<masterVars, master, pending, worker>>
vars == <<processVars, fork_fails>>

NoProcess == [st |-> "none", slot |-> Null, quit |-> FALSE]
Alive == {p \in Pid : worker[p].st \in {"check", "work", "wait"}}
Dead == {p \in Pid : worker[p].st = "zombie"}

(* The kernel gives process ids out in a cycle: one that an entry of       *)
(* process_arr still names is taken not to come round again meanwhile.     *)
FreePid == {p \in Pid : worker[p] = NoProcess
                        /\ \A s \in Slot : process_arr[s].pid # p}

-----------------------------------------------------------------------------
(* Slips of process_spawn and of l_signal_child_status.                    *)
process_spawn_again(s, p) == [process_arr[s] EXCEPT !.pid = p]
process_spawn(s, p) == [process_arr[s] EXCEPT !.pid = p, !.exited = FALSE]

(* Processes `born' (from slots to fresh process ids) are forked.  A child *)
(* inherits the master's sig_quit.                                         *)
Forks(born) ==
  /\ \A s1, s2 \in DOMAIN born : born[s1] = born[s2] => s1 = s2
  /\ process_arr' = [s \in Slot |-> IF s \in DOMAIN born
                                      THEN process_spawn(s, born[s])
                                      ELSE process_arr[s]]
  /\ worker' = [p \in Pid |->
       IF \E s \in DOMAIN born : born[s] = p
         THEN [st |-> "check", quit |-> sig_quit,
               slot |-> CHOOSE s \in DOMAIN born : born[s] = p]
         ELSE worker[p]]

(* process_master_run up to its loop.  When a fork fails it returns, and   *)
(* the workers forked before stay.                                         *)
Start ==
  /\ master = "start"
  /\ \E ok \in SUBSET Slot :
       /\ ok = Slot \/ fork_fails
       /\ \E born \in [ok -> FreePid] : Forks(born)
       /\ master' = IF ok = Slot THEN "awake" ELSE "exited"
  /\ UNCHANGED <<sig_quit, sig_reap, sig_reload, live, pending>>

(* sigsuspend is called; it returns when the handlers of all the signals   *)
(* that were pending, or that came, have run.                              *)
sigsuspend ==
  /\ master = "awake"
  /\ master' = "asleep"
  /\ UNCHANGED <<masterVars, pending, worker>>

Wake ==
  /\ master = "asleep"
  /\ pending # {}
  /\ sig_quit' = (sig_quit \/ "SIGINT" \in pending)
  /\ sig_reap' = (sig_reap \/ "SIGCHLD" \in pending)
  /\ master' = IF "SIGCHLD" \in pending THEN "handler" ELSE "reap"
  /\ pending' = {}
  /\ UNCHANGED <<process_arr, sig_reload, live, worker>>

(* A SIGINT while the SIGCHLD handler runs is not blocked.                 *)
NestedQuit ==
  /\ master = "handler"
  /\ "SIGINT" \in pending
  /\ sig_quit' = TRUE
  /\ pending' = pending \ {"SIGINT"}
  /\ UNCHANGED <<process_arr, sig_reap, sig_reload, live, master, worker>>

(* waitpid until no dead child is left.  A child that dies while the       *)
(* handler runs is reaped here, and its SIGCHLD stays pending.             *)
l_signal_child_status ==
  /\ master = "handler"
  /\ process_arr' = [s \in Slot |->
       IF process_arr[s].pid \in Dead
         THEN [process_arr[s] EXCEPT !.exiting = FALSE, !.exited = TRUE]
         ELSE process_arr[s]]
  /\ worker' = [p \in Pid |-> IF p \in Dead THEN NoProcess ELSE worker[p]]
  /\ master' = "reap"
  /\ UNCHANGED <<sig_quit, sig_reap, sig_reload, live, pending>>

(* The slots whose worker is forked again (slip: only those that were told *)
(* to exit).                                                               *)
Respawned_reload ==
  {s \in Slot : /\ process_arr[s].exited /\ process_arr[s].exiting
                /\ ~sig_quit}
Respawned ==
  {s \in Slot : /\ process_arr[s].exited /\ ~process_arr[s].exiting
                /\ ~sig_quit}

(* The workers process_reap finds still to exit (slip: also those that did *)
(* and were broadcast to since).                                           *)
Awaited_exited == {s \in Slot : process_arr[s].exiting}
Awaited == {s \in Slot : ~process_arr[s].exited /\ process_arr[s].exiting}

process_reap ==
  /\ master = "reap"
  /\ master' = "decide"
  /\ sig_reap' = FALSE
  /\ \/ ~sig_reap /\ UNCHANGED <<process_arr, live, worker>>
     \/ /\ sig_reap
        /\ \E ok \in SUBSET Respawned :
             /\ ok = Respawned \/ fork_fails
             /\ \E born \in [ok -> FreePid] : Forks(born)
             /\ live' = (ok # {} \/ Awaited # {})
  /\ UNCHANGED <<sig_quit, sig_reload, pending>>

(* kill( pid, SIGINT ): sig_quit is set, and epoll_wait interrupted.       *)
Signalled(w) ==
  IF w.st \in {"check", "work", "wait"}
    THEN [w EXCEPT !.quit = TRUE, !.st = IF w.st = "wait" THEN "check" ELSE @]
    ELSE w

(* Slip: the loop ends at a process that kill does not find.               *)
process_broadcast_child_found ==
  /\ process_arr' = [s \in Slot |-> [process_arr[s] EXCEPT !.exiting = TRUE]]
  /\ worker' = [p \in Pid |->
       IF (\E s \in Slot : process_arr[s].pid = p)
            /\ ~\E s \in Slot : process_arr[s].exited
         THEN Signalled(worker[p]) ELSE worker[p]]
process_broadcast_child ==
  /\ process_arr' = [s \in Slot |-> [process_arr[s] EXCEPT !.exiting = TRUE]]
  /\ worker' = [p \in Pid |->
       IF \E s \in Slot : process_arr[s].pid = p
         THEN Signalled(worker[p]) ELSE worker[p]]

Decide ==
  /\ master = "decide"
  /\ \/ /\ ~live /\ sig_quit
        /\ master' = "exited"
        /\ UNCHANGED <<process_arr, worker, sig_reload>>
     \/ /\ live /\ sig_quit
        /\ process_broadcast_child
        /\ master' = "awake"
        /\ UNCHANGED sig_reload
     \/ /\ ~sig_quit /\ sig_reload
        /\ sig_reload' = FALSE
        /\ process_broadcast_child
        /\ master' = "awake"
     \/ /\ ~sig_quit /\ ~sig_reload
        /\ master' = "awake"
        /\ UNCHANGED <<process_arr, worker, sig_reload>>
  /\ UNCHANGED <<sig_quit, sig_reap, live, pending>>

-----------------------------------------------------------------------------
(* process_worker_run.                                                     *)

Become(p, st) == worker' = [worker EXCEPT ![p].st = st]

(* The end of worker p: it is a zombie until the master waits for it.      *)
Exits(p) ==
  /\ Become(p, "zombie")
  /\ pending' = pending \cup {"SIGCHLD"}
  /\ UNCHANGED <<masterVars, master>>

CheckQuit(p) ==
  /\ worker[p].st = "check"
  /\ \/ worker[p].quit /\ Exits(p)
     \/ /\ ~worker[p].quit
        /\ Become(p, "work")
        /\ UNCHANGED <<masterVars, master, pending>>

(* After timer_expire the worker waits in epoll_wait; a SIGINT that came   *)
(* after CheckQuit does not end that wait.                                 *)
EventLoop(p) ==
  /\ worker[p].st = "work"
  /\ Become(p, "wait")
  /\ UNCHANGED <<masterVars, master, pending>>

(* epoll_wait has an event, or its time out is over.                       *)
Event(p) ==
  /\ worker[p].st = "wait"
  /\ Become(p, "check")
  /\ UNCHANGED <<masterVars, master, pending>>

Crash(p) == p \in Alive /\ Exits(p)

-----------------------------------------------------------------------------
(* From outside: `-stop' ...                                               *)
Send(signal) ==
  /\ master # "exited"
  /\ pending' = pending \cup {signal}
  /\ UNCHANGED <<masterVars, master, worker>>

(* ... a SIGCHLD for a worker that is stopped or continued (SA_NOCLDSTOP   *)
(* is not set) ...                                                         *)
ChildStops == Alive # {} /\ Send("SIGCHLD")

(* ... SIGUSR1/2, which set nothing and only end a sigsuspend that is, or  *)
(* is about to be, waiting ...                                             *)
UserSignal ==
  /\ master = "asleep"
  /\ pending = {}
  /\ master' = "reap"
  /\ UNCHANGED <<masterVars, pending, worker>>

(* ... and `-reload', whose handler runs at once.                          *)
Reload ==
  /\ master # "exited"
  /\ sig_reload' = TRUE
  /\ master' = IF master = "asleep" /\ pending = {} THEN "reap" ELSE master
  /\ UNCHANGED <<process_arr, sig_quit, sig_reap, live, pending, worker>>

Init ==
  /\ process_arr = [s \in Slot |->
                      [pid |-> Null, exiting |-> FALSE, exited |-> FALSE]]
  /\ sig_quit = FALSE /\ sig_reap = FALSE /\ sig_reload = FALSE
  /\ live = TRUE
  /\ master = "start"
  /\ pending = {}
  /\ worker = [p \in Pid |-> NoProcess]
  /\ fork_fails \in BOOLEAN

MasterStep ==
  \/ Start \/ sigsuspend \/ Wake \/ l_signal_child_status
  \/ process_reap \/ Decide
WorkerStep(p) == CheckQuit(p) \/ EventLoop(p)

Next ==
  /\ \/ MasterStep \/ NestedQuit
     \/ \E p \in Pid : WorkerStep(p) \/ Event(p) \/ Crash(p)
     \/ Send("SIGINT") \/ UserSignal \/ ChildStops \/ Reload
  /\ UNCHANGED fork_fails

Spec == Init /\ [][Next]_vars

(* Every process runs and, under traffic, every epoll_wait ends; nothing   *)
(* is assumed of users and of crashes.                                     *)
BusySpec ==
  /\ Spec
  /\ WF_processVars(MasterStep)
  /\ \A p \in Pid : WF_processVars(WorkerStep(p)) /\ WF_processVars(Event(p))

-----------------------------------------------------------------------------
(* Properties.                                                             *)

(* The variables have their types.                                         *)
TypeOK ==
  /\ process_arr \in [Slot -> [pid : Pid \cup {Null}, exiting : BOOLEAN,
                               exited : BOOLEAN]]
  /\ {sig_quit, sig_reap, sig_reload, live} \subseteq BOOLEAN
  /\ master \in {"start", "awake", "asleep", "handler", "reap", "decide",
                 "exited"}
  /\ pending \subseteq {"SIGINT", "SIGCHLD"}
  /\ worker \in [Pid -> {NoProcess} \cup
                         [st : {"check", "work", "wait", "zombie"},
                          slot : Slot, quit : BOOLEAN]]

(* process_arr names every worker that runs or was not waited for yet, and *)
(* names it as running: none is forked beside it in its slot, and the next *)
(* broadcast reaches it, whatever crashed, was respawned or reloaded       *)
(* meanwhile.                                                              *)
KnowsWorkers ==
  \A p \in Alive \cup Dead :
    /\ worker[p].slot \in Slot
    /\ process_arr[worker[p].slot].pid = p
    /\ ~process_arr[worker[p].slot].exited

(* A master that sleeps while it is stopping has told every worker, those  *)
(* forked while the SIGINT was on its way too.                             *)
ToldToQuit ==
  sig_quit /\ master \in {"awake", "asleep"} =>
    \A p \in Alive : worker[p].quit

(* No worker is left when -stop has ended the master (README: "stop all    *)
(* process when works in the backend").                                    *)
NoOrphans == master = "exited" /\ sig_quit /\ ~fork_fails => Alive = {}

(* Under traffic and without failing forks, a slot whose worker crashed or *)
(* was reloaded away has a worker again, unless the master is stopping.    *)
Running(s) == \E p \in Alive : worker[p].slot = s
Replaced ==
  \A s \in Slot :
    ~Running(s) /\ ~fork_fails ~> Running(s) \/ sig_quit \/ master = "exited"

(* Under traffic the master ends once it was asked to stop: the workers it *)
(* waits for (live) are never workers that are gone already.               *)
MasterStops == sig_quit /\ ~fork_fails ~> master = "exited"
=============================================================================
