-------------------------- MODULE Processes_proofs --------------------------
(***************************************************************************)
(* The processes of the service, for any number of slots, process ids and  *)
(* workers.  The master (Master): a process that runs or was not waited    *)
(* for is named in the slot it was forked for, and knows its slot.  The    *)
(* workers' loops (AcceptMutex): the semaphore is given back by its owner  *)
(* only, and who is not its owner does not listen.                         *)
(***************************************************************************)
EXTENDS Master, AcceptMutex, FiniteSetTheorems, TLAPS

-----------------------------------------------------------------------------
(* The master.                                                             *)

Entry == [pid : Pid \cup {Null}, exiting : BOOLEAN, exited : BOOLEAN]
Process == {NoProcess} \cup [st : {"check", "work", "wait", "zombie"},
                             slot : Slot, quit : BOOLEAN]

(* Before process_master_run nothing was forked and no signal handled.     *)
Fresh ==
  master = "start" => /\ \A p \in Pid : worker[p] = NoProcess
                      /\ ~sig_quit

IInv == TypeOK /\ KnowsWorkers /\ ToldToQuit /\ Fresh

(* Not an id of a process that runs or is to be waited for.                *)
LEMMA FreeIsNoProcess ==
  ASSUME NEW p \in FreePid
  PROVE  p \in Pid /\ p \notin Alive \cup Dead
BY DEF FreePid, Alive, Dead, NoProcess

(* process_spawn in the slots of born, none of which has a worker.         *)
LEMMA ForksKnown ==
  ASSUME TypeOK, KnowsWorkers, NEW ok \in SUBSET Slot,
         NEW born \in [ok -> FreePid], Forks(born),
         \A p \in Alive \cup Dead : worker[p].slot \notin ok
  PROVE  /\ process_arr' \in [Slot -> Entry]
         /\ worker' \in [Pid -> Process]
         /\ KnowsWorkers'
<1>t. process_arr \in [Slot -> Entry] /\ worker \in [Pid -> Process]
      /\ sig_quit \in BOOLEAN
  BY DEF TypeOK, Entry, Process
<1>d. DOMAIN born = ok
  OBVIOUS
<1>i. \A s1, s2 \in ok : born[s1] = born[s2] => s1 = s2
  BY <1>d DEF Forks
<1>1. /\ process_arr' \in [Slot -> Entry]
      /\ \A s \in Slot \ ok : process_arr'[s] = process_arr[s]
      /\ \A s \in ok : process_arr'[s].pid = born[s] /\ ~process_arr'[s].exited
  <2>1. process_arr' = [s \in Slot |-> IF s \in ok THEN process_spawn(s, born[s])
                                                   ELSE process_arr[s]]
    BY <1>d DEF Forks
  <2>2. \A s \in ok : /\ process_spawn(s, born[s]) \in Entry
                      /\ process_spawn(s, born[s]).pid = born[s]
                      /\ ~process_spawn(s, born[s]).exited
    BY <1>t, FreeIsNoProcess DEF process_spawn, Entry
  <2> QED BY <2>1, <2>2, <1>t
<1>2. \A p \in Pid : (\A s \in ok : born[s] # p) => worker'[p] = worker[p]
  BY <1>d DEF Forks
<1>3. \A s \in ok : worker'[born[s]] =
                      [st |-> "check", quit |-> sig_quit, slot |-> s]
  <2> SUFFICES ASSUME NEW s \in ok
               PROVE  worker'[born[s]] =
                        [st |-> "check", quit |-> sig_quit, slot |-> s]
    OBVIOUS
  <2>1. born[s] \in Pid
    BY FreeIsNoProcess
  <2>2. (CHOOSE r \in ok : born[r] = born[s]) = s
    BY <1>i
  <2> QED BY <2>1, <2>2, <1>d DEF Forks
<1>4. worker' \in [Pid -> Process]
  <2>1. /\ worker' = [p \in Pid |-> worker'[p]]
    BY DEF Forks
  <2>2. \A p \in Pid : worker'[p] \in Process
    <3> TAKE p \in Pid
    <3>1. CASE \E s \in ok : born[s] = p
      <4>1. PICK s \in ok : born[s] = p
        BY <3>1
      <4>2. worker'[p] = [st |-> "check", quit |-> sig_quit, slot |-> s]
        BY <4>1, <1>3
      <4>3. s \in Slot
        OBVIOUS
      <4> QED BY <4>2, <4>3, <1>t DEF Process
    <3>2. CASE \A s \in ok : born[s] # p
      BY <3>2, <1>2, <1>t
    <3> QED BY <3>1, <3>2
  <2> QED BY <2>1, <2>2
<1>5. KnowsWorkers'
  <2> SUFFICES ASSUME NEW p \in (Alive \cup Dead)'
               PROVE  /\ worker'[p].slot \in Slot
                      /\ process_arr'[worker'[p].slot].pid = p
                      /\ ~process_arr'[worker'[p].slot].exited
    BY DEF KnowsWorkers
  <2>0. p \in Pid /\ worker'[p].st \in {"check", "work", "wait", "zombie"}
    BY DEF Alive, Dead
  <2>1. CASE \E s \in ok : born[s] = p
    <3>1. PICK s \in ok : born[s] = p
      BY <2>1
    <3>2. worker'[p].slot = s
      <4>1. worker'[p] = [st |-> "check", quit |-> sig_quit, slot |-> s]
        BY <3>1, <1>3
      <4> QED BY <4>1, <1>t
    <3> QED BY <3>1, <3>2, <1>1
  <2>2. CASE \A s \in ok : born[s] # p
    <3>1. worker'[p] = worker[p] /\ p \in Alive \cup Dead
      BY <2>0, <2>2, <1>2 DEF Alive, Dead
    <3>2. worker[p].slot \in Slot \ ok
      BY <3>1 DEF KnowsWorkers
    <3> QED BY <3>1, <3>2, <1>1 DEF KnowsWorkers
  <2> QED BY <2>1, <2>2
<1> QED BY <1>1, <1>4, <1>5

(* A step that leaves process_arr as it is and of which every worker that  *)
(* still exists comes out in its slot, told to quit if it was.             *)
LEMMA WorkersStay ==
  ASSUME TypeOK, KnowsWorkers, process_arr' = process_arr,
         worker' \in [Pid -> Process],
         \A p \in (Alive \cup Dead)' : /\ p \in Alive \cup Dead
                                       /\ worker'[p].slot = worker[p].slot
  PROVE  KnowsWorkers'
BY DEF KnowsWorkers

LEMMA IInvInit == Init => IInv
<1> SUFFICES ASSUME Init PROVE IInv
  OBVIOUS
<1>1. \A p \in Pid : worker[p] = NoProcess
  BY DEF Init
<1>2. Alive = {} /\ Dead = {}
  BY <1>1 DEF Alive, Dead, NoProcess
<1>3. TypeOK
  BY DEF Init, TypeOK
<1> QED BY <1>1, <1>2, <1>3 DEF Init, IInv, KnowsWorkers, ToldToQuit, Fresh

(* The typing of what the master alone changes.                            *)
Flags ==
  /\ sig_quit \in BOOLEAN /\ sig_reap \in BOOLEAN /\ sig_reload \in BOOLEAN
  /\ live \in BOOLEAN
  /\ master \in {"start", "awake", "asleep", "handler", "reap", "decide",
                 "exited"}
  /\ pending \subseteq {"SIGINT", "SIGCHLD"}

LEMMA TypeParts ==
  TypeOK <=> /\ process_arr \in [Slot -> Entry]
             /\ Flags
             /\ worker \in [Pid -> Process]
BY DEF TypeOK, Flags, Entry, Process

LEMMA TypePartsNext ==
  TypeOK' <=> /\ process_arr' \in [Slot -> Entry]
              /\ Flags'
              /\ worker' \in [Pid -> Process]
BY DEF TypeOK, Flags, Entry, Process

(* A step that changes neither processes nor what is known of them.        *)
LEMMA MasterOnly ==
  ASSUME IInv, Flags', UNCHANGED <<process_arr, worker>>,
         sig_quit' /\ master' \in {"awake", "asleep"} =>
           sig_quit /\ master \in {"awake", "asleep"},
         master' = "start" => master = "start" /\ sig_quit' = sig_quit
  PROVE  IInv'
<1> USE DEF IInv
<1>1. TypeOK'
  BY TypeParts, TypePartsNext
<1>2. KnowsWorkers' /\ ToldToQuit' /\ Fresh'
  BY DEF KnowsWorkers, ToldToQuit, Fresh, Alive, Dead
<1> QED BY <1>1, <1>2

(* A step of one worker: it goes on, or ends.                              *)
LEMMA WorkerOnly ==
  ASSUME IInv, Flags', NEW p \in Alive,
         NEW st \in {"check", "work", "wait", "zombie"}, Become(p, st),
         UNCHANGED <<masterVars, master>>
  PROVE  IInv'
<1> USE DEF IInv
<1>t. process_arr \in [Slot -> Entry] /\ worker \in [Pid -> Process]
      /\ p \in Pid
  BY TypeParts DEF Alive
<1>w. worker[p] \in [st : {"check", "work", "wait", "zombie"}, slot : Slot,
                     quit : BOOLEAN]
  BY <1>t DEF Alive, Process, NoProcess
<1>1. /\ worker' \in [Pid -> Process]
      /\ worker'[p] = [worker[p] EXCEPT !.st = st]
      /\ \A q \in Pid : q # p => worker'[q] = worker[q]
  BY <1>t, <1>w DEF Become, Process
<1>2. worker'[p].slot = worker[p].slot /\ worker'[p].quit = worker[p].quit
      /\ worker'[p].st = st
  BY <1>1, <1>w
<1>3. \A q \in Pid : /\ q \in (Alive \cup Dead)' => q \in Alive \cup Dead
                     /\ q \in Alive' => q \in Alive
                     /\ worker'[q].slot = worker[q].slot
                     /\ worker'[q].quit = worker[q].quit
  BY <1>1, <1>2 DEF Alive, Dead
<1>4. TypeOK'
  BY <1>1, TypeParts, TypePartsNext DEF masterVars
<1>5. KnowsWorkers'
  BY <1>1, <1>3, WorkersStay DEF masterVars, Alive, Dead
<1>6. ToldToQuit'
  BY <1>3 DEF ToldToQuit, masterVars, Alive
<1>7. Fresh'
  <2>1. master # "start"
    BY DEF Fresh, Alive, NoProcess
  <2> QED BY <2>1 DEF Fresh
<1> QED BY <1>4, <1>5, <1>6, <1>7

(* process_broadcast_child reaches every worker, as all are known.         *)
LEMMA BroadcastTells ==
  ASSUME IInv, Flags', process_broadcast_child, master' = "awake"
  PROVE  IInv'
<1> USE DEF IInv
<1>t. process_arr \in [Slot -> Entry] /\ worker \in [Pid -> Process]
  BY TypeParts
<1>1. /\ process_arr' \in [Slot -> Entry]
      /\ \A s \in Slot : /\ process_arr'[s].pid = process_arr[s].pid
                         /\ process_arr'[s].exited = process_arr[s].exited
  <2>1. \A s \in Slot : LET e == [process_arr[s] EXCEPT !.exiting = TRUE]
                        IN  /\ e \in Entry
                            /\ e.pid = process_arr[s].pid
                            /\ e.exited = process_arr[s].exited
    BY <1>t DEF Entry
  <2> QED BY <2>1 DEF process_broadcast_child
<1>2. \A p \in Pid : /\ Signalled(worker[p]) \in Process
                     /\ Signalled(worker[p]).slot = worker[p].slot
                     /\ p \in Alive => Signalled(worker[p]).quit
                     /\ Signalled(worker[p]).st \in {"check", "work", "wait"}
                          <=> p \in Alive
                     /\ Signalled(worker[p]).st = "zombie" <=> p \in Dead
  <2> SUFFICES ASSUME NEW p \in Pid
               PROVE  /\ Signalled(worker[p]) \in Process
                      /\ Signalled(worker[p]).slot = worker[p].slot
                      /\ p \in Alive => Signalled(worker[p]).quit
                      /\ Signalled(worker[p]).st \in {"check", "work", "wait"}
                           <=> p \in Alive
                      /\ Signalled(worker[p]).st = "zombie" <=> p \in Dead
    OBVIOUS
  <2>1. CASE p \in Alive
    <3>1. worker[p] \in [st : {"check", "work", "wait", "zombie"},
                         slot : Slot, quit : BOOLEAN]
      BY <2>1, <1>t DEF Alive, Process, NoProcess
    <3>2. Signalled(worker[p]) =
            [worker[p] EXCEPT !.quit = TRUE,
                              !.st = IF worker[p].st = "wait" THEN "check" ELSE @]
      BY <2>1 DEF Signalled, Alive
    <3> QED BY <3>1, <3>2, <2>1 DEF Process, Alive, Dead
  <2>2. CASE p \notin Alive
    BY <2>2, <1>t DEF Signalled, Alive, Dead
  <2> QED BY <2>1, <2>2
<1>3. \A p \in Pid : worker'[p] = worker[p] \/ worker'[p] = Signalled(worker[p])
  BY DEF process_broadcast_child
<1>4. worker' \in [Pid -> Process]
  <2>1. worker' = [p \in Pid |-> worker'[p]]
    BY DEF process_broadcast_child
  <2> QED BY <2>1, <1>2, <1>3, <1>t
<1>5. \A p \in Pid : /\ p \in Alive' <=> p \in Alive
                     /\ p \in Dead' <=> p \in Dead
                     /\ worker'[p].slot = worker[p].slot
  BY <1>2, <1>3 DEF Alive, Dead
<1>6. TypeOK'
  BY <1>1, <1>4, TypeParts, TypePartsNext
<1>7. KnowsWorkers'
  BY <1>1, <1>5 DEF KnowsWorkers, Alive, Dead
<1>8. ToldToQuit'
  <2>1. \A p \in Alive : worker'[p].quit
    <3> TAKE p \in Alive
    <3>1. /\ p \in Pid
          /\ worker[p].slot \in Slot /\ process_arr[worker[p].slot].pid = p
      BY DEF KnowsWorkers, Alive
    <3>2. worker'[p] = Signalled(worker[p])
      BY <3>1 DEF process_broadcast_child
    <3> QED BY <3>1, <3>2, <1>2
  <2> QED BY <2>1, <1>5 DEF ToldToQuit, Alive
<1> QED BY <1>6, <1>7, <1>8 DEF Fresh

LEMMA StepStart == ASSUME IInv, Start PROVE IInv'
<1> USE DEF IInv
<1>1. PICK ok \in SUBSET Slot :
        /\ \E born \in [ok -> FreePid] : Forks(born)
        /\ master' = IF ok = Slot THEN "awake" ELSE "exited"
  BY DEF Start
<1>2. PICK born \in [ok -> FreePid] : Forks(born)
  BY <1>1
<1>3. master = "start" /\ Alive \cup Dead = {} /\ ~sig_quit'
  BY DEF Start, Fresh, Alive, Dead, NoProcess
<1>4. /\ process_arr' \in [Slot -> Entry] /\ worker' \in [Pid -> Process]
      /\ KnowsWorkers'
  BY <1>2, <1>3, ForksKnown
<1>5. Flags'
  BY <1>1, TypeParts DEF Start, Flags
<1> QED BY <1>1, <1>3, <1>4, <1>5, TypePartsNext DEF ToldToQuit, Fresh

LEMMA StepReap == ASSUME IInv, process_reap PROVE IInv'
<1> USE DEF IInv
<1>t. Flags /\ master = "reap" /\ master' = "decide" /\ sig_reap' = FALSE
      /\ UNCHANGED <<sig_quit, sig_reload, pending>>
  BY TypeParts DEF process_reap
<1>1. CASE UNCHANGED <<process_arr, live, worker>>
  <2>1. Flags'
    BY <1>1, <1>t DEF Flags
  <2> QED BY <1>1, <1>t, <2>1, MasterOnly
<1>2. ASSUME NEW ok \in SUBSET Respawned, NEW born \in [ok -> FreePid],
             Forks(born), live' = (ok # {} \/ Awaited # {})
      PROVE  IInv'
  <2>1. ok \in SUBSET Slot
    BY DEF Respawned
  <2>2. \A p \in Alive \cup Dead : worker[p].slot \notin ok
    BY DEF KnowsWorkers, Respawned
  <2>3. /\ process_arr' \in [Slot -> Entry] /\ worker' \in [Pid -> Process]
        /\ KnowsWorkers'
    BY <1>2, <2>1, <2>2, ForksKnown
  <2>4. Flags'
    <3>1. live' \in BOOLEAN
      BY <1>2
    <3> QED BY <1>t, <3>1 DEF Flags
  <2> QED BY <2>3, <2>4, <1>t, TypePartsNext DEF ToldToQuit, Fresh
<1> QED BY <1>1, <1>2 DEF process_reap

LEMMA StepChild == ASSUME IInv, l_signal_child_status PROVE IInv'
<1> USE DEF IInv
<1>t. process_arr \in [Slot -> Entry] /\ worker \in [Pid -> Process] /\ Flags
  BY TypeParts
<1>1. /\ process_arr' \in [Slot -> Entry]
      /\ \A s \in Slot : process_arr[s].pid \notin Dead =>
                           process_arr'[s] = process_arr[s]
  <2>1. \A s \in Slot :
          [process_arr[s] EXCEPT !.exiting = FALSE, !.exited = TRUE] \in Entry
    BY <1>t DEF Entry
  <2> QED BY <2>1, <1>t DEF l_signal_child_status
<1>2. /\ worker' \in [Pid -> Process]
      /\ \A p \in Dead : worker'[p] = NoProcess
      /\ \A p \in Pid \ Dead : worker'[p] = worker[p]
  BY <1>t DEF l_signal_child_status, Process, Dead
<1>3. \A p \in (Alive \cup Dead)' :
        p \in Alive /\ worker'[p] = worker[p] /\ p \notin Dead
  BY <1>2 DEF Alive, Dead, NoProcess
<1>4. KnowsWorkers'
  BY <1>1, <1>3 DEF KnowsWorkers
<1>5. TypeOK'
  BY <1>1, <1>2, <1>t, TypePartsNext DEF Flags, l_signal_child_status
<1> QED BY <1>4, <1>5 DEF ToldToQuit, Fresh, l_signal_child_status

LEMMA StepDecide == ASSUME IInv, Decide PROVE IInv'
<1> USE DEF IInv
<1>f. Flags
  BY TypeParts
<1>1. CASE process_broadcast_child /\ master' = "awake"
  BY <1>1, <1>f, BroadcastTells DEF Decide, Flags
<1>2. CASE ~live /\ sig_quit /\ master' = "exited"
           /\ UNCHANGED <<process_arr, worker, sig_reload>>
  BY <1>2, <1>f, MasterOnly DEF Decide, Flags
<1>3. CASE ~sig_quit /\ ~sig_reload /\ master' = "awake"
           /\ UNCHANGED <<process_arr, worker, sig_reload>>
  BY <1>3, <1>f, MasterOnly DEF Decide, Flags
<1> QED BY <1>1, <1>2, <1>3 DEF Decide

LEMMA IInvNext == IInv /\ [Next]_vars => IInv'
<1> SUFFICES ASSUME IInv, [Next]_vars PROVE IInv'
  OBVIOUS
<1>f. Flags
  BY TypeParts DEF IInv
<1>1. CASE Start
  BY <1>1, StepStart
<1>2. CASE sigsuspend
  BY <1>2, <1>f, MasterOnly DEF sigsuspend, Flags, masterVars
<1>3. CASE Wake
  BY <1>3, <1>f, MasterOnly DEF Wake, Flags
<1>4. CASE l_signal_child_status
  BY <1>4, StepChild
<1>5. CASE process_reap
  BY <1>5, StepReap
<1>6. CASE Decide
  BY <1>6, StepDecide
<1>7. CASE NestedQuit
  BY <1>7, <1>f, MasterOnly DEF NestedQuit, Flags
<1>8. ASSUME NEW p \in Pid, WorkerStep(p) \/ Event(p) \/ Crash(p) PROVE IInv'
  <2>1. p \in Alive
    BY <1>8 DEF WorkerStep, CheckQuit, EventLoop, Event, Crash, Alive
  <2>2. CASE Exits(p)
    BY <2>2, <2>1, <1>f, WorkerOnly DEF Exits, Flags, masterVars
  <2>3. CASE /\ \E st \in {"check", "work", "wait"} : Become(p, st)
             /\ UNCHANGED <<masterVars, master, pending>>
    BY <2>3, <2>1, <1>f, WorkerOnly DEF Flags, masterVars
  <2> QED
    BY <1>8, <2>2, <2>3 DEF WorkerStep, CheckQuit, EventLoop, Event, Crash
<1>9. CASE Send("SIGINT") \/ ChildStops
  <2>1. Send("SIGINT") \/ Send("SIGCHLD")
    BY <1>9 DEF ChildStops
  <2>2. Flags'
    BY <2>1, <1>f DEF Send, Flags, masterVars
  <2> QED BY <2>1, <2>2, MasterOnly DEF Send, masterVars
<1>10. CASE UserSignal
  BY <1>10, <1>f, MasterOnly DEF UserSignal, Flags, masterVars
<1>11. CASE Reload
  BY <1>11, <1>f, MasterOnly DEF Reload, Flags
<1>12. CASE UNCHANGED vars
  BY <1>12, <1>f, MasterOnly DEF vars, processVars, masterVars, Flags
<1> QED
  BY <1>1, <1>2, <1>3, <1>4, <1>5, <1>6, <1>7, <1>8, <1>9, <1>10, <1>11, <1>12
  DEF Next, MasterStep

(* What holds between any two steps of master, workers and kernel.         *)
THEOREM Inductive == Spec => []IInv
<1> QED BY IInvInit, IInvNext, PTL DEF Spec

(* The master's variables, its table and the processes have their types.   *)
THEOREM Typed == Spec => []TypeOK
<1>1. IInv => TypeOK
  BY DEF IInv
<1> QED BY <1>1, Inductive, PTL

(* process_arr names each process that runs or waits to be reaped, whatever*)
(* crashes, respawns, reloads and failed forks came before.                *)
THEOREM Known == Spec => []KnowsWorkers
<1>1. IInv => KnowsWorkers
  BY DEF IInv
<1> QED BY <1>1, Inductive, PTL

(* No worker is forgotten by the broadcast of -stop.                       *)
THEOREM Told == Spec => []ToldToQuit
<1>1. IInv => ToldToQuit
  BY DEF IInv
<1> QED BY <1>1, Inductive, PTL

-----------------------------------------------------------------------------
(* The accept mutex.                                                       *)

(* The owners of the mutex, by their own account_mutex_user.               *)
Users == {p \in Worker : loop[p].user}

(* event_loop between sem_trywait and sem_post: accept_event_open is set   *)
(* only in the owner, and the listener is registered only with it.         *)
OpenOwns(p) == loop[p].open /\ loop[p].at \in {"poll", "accept"} => loop[p].user
Registered(p) == loop[p].epoll => loop[p].active /\ loop[p].open

MutexInv ==
  /\ MutexTypeOK
  /\ MutualExclusion
  /\ \A p \in Worker : OpenOwns(p) /\ Registered(p)

(* The record of a worker.                                                 *)
Loop == [at : {"lock", "poll", "accept", "events", "dead"}, user : BOOLEAN,
         open : BOOLEAN, active : BOOLEAN, epoll : BOOLEAN, edge : BOOLEAN,
         accepts : BOOLEAN]

(* Owners are as many as their set has members, a number.                  *)
LEMMA UsersFinite ==
  /\ IsFiniteSet(Users)
  /\ Cardinality(Users) \in Nat
<1>1. IsFiniteSet(Users)
  BY WorkerAssumption, FS_Subset DEF Users
<1> QED BY <1>1, FS_CardinalityType

(* MutualExclusion in terms of Users: an owner leaves the semaphore at 0   *)
(* and is the only one.                                                    *)
LEMMA OneUser ==
  ASSUME MutexTypeOK, MutualExclusion
  PROVE  /\ accept_mutex = 1 => Users = {}
         /\ \A p, q \in Users : p = q /\ accept_mutex = 0
<1>0. accept_mutex \in {0, 1} /\ accept_mutex + Cardinality(Users) <= 1
  BY DEF MutexTypeOK, MutualExclusion, Users
<1>1. Cardinality(Users) = 0 \/ (Cardinality(Users) = 1 /\ accept_mutex = 0)
  BY <1>0, UsersFinite
<1>2. CASE Cardinality(Users) = 0
  <2>1. Users = {}
    BY <1>2, UsersFinite, FS_EmptySet
  <2> QED BY <2>1
<1>3. CASE Cardinality(Users) = 1 /\ accept_mutex = 0
  <2>1. \E p : Users = {p}
    BY <1>3, UsersFinite, FS_Singleton
  <2> QED BY <2>1, <1>3
<1> QED BY <1>1, <1>2, <1>3

(* A step of worker p that leaves it, or makes it, what it should be.      *)
LEMMA Keeps ==
  ASSUME MutexInv, NEW p \in Worker, NEW w \in Loop, Goes(p, w),
         accept_mutex' \in {0, 1}, backlog' \in BOOLEAN,
         w.open /\ w.at \in {"poll", "accept"} => w.user,
         w.epoll => w.active /\ w.open,
         \/ w.user = loop[p].user /\ accept_mutex' = accept_mutex
         \/ w.user /\ accept_mutex = 1 /\ accept_mutex' = 0
         \/ ~w.user /\ accept_mutex' = accept_mutex
         \/ ~w.user /\ loop[p].user
  PROVE  MutexInv'
<1> USE DEF MutexInv
<1>1. loop \in [Worker -> Loop] /\ accept_mutex \in {0, 1}
  BY DEF MutexTypeOK, Loop
<1>2. /\ loop' \in [Worker -> Loop]
      /\ \A q \in Worker : loop'[q] = IF q = p THEN w ELSE loop[q]
  BY <1>1 DEF Goes
<1>3. MutexTypeOK'
  BY <1>2 DEF MutexTypeOK, Loop
<1>4. \A q \in Worker : (OpenOwns(q) /\ Registered(q))'
  BY <1>2 DEF OpenOwns, Registered
<1>5. MutualExclusion'
  <2>0. accept_mutex + Cardinality(Users) <= 1
    BY DEF MutualExclusion, Users
  <2>1. SUFFICES accept_mutex' + Cardinality(Users') <= 1
    BY DEF MutualExclusion, Users
  <2>2. Users' = IF w.user THEN Users \cup {p} ELSE Users \ {p}
    BY <1>2, <1>1 DEF Users, Loop
  <2>3. CASE w.user = loop[p].user /\ accept_mutex' = accept_mutex
    <3>1. Users' = Users
      BY <2>2, <2>3 DEF Users
    <3> QED BY <3>1, <2>0, <2>3
  <2>4. CASE w.user /\ accept_mutex = 1 /\ accept_mutex' = 0
    <3>1. Users' = {p}
      BY <2>2, <2>4, OneUser
    <3>2. Cardinality(Users') = 1
      BY <3>1, FS_Singleton
    <3> QED BY <2>4, <3>2
  <2>5. CASE ~w.user /\ accept_mutex' = accept_mutex
    <3>1. Users' \subseteq Users
      BY <2>2, <2>5
    <3>2. Cardinality(Users') <= Cardinality(Users) /\ Cardinality(Users') \in Nat
      BY <3>1, UsersFinite, FS_Subset, FS_CardinalityType
    <3> QED BY <3>2, <2>0, <2>5, <1>1, UsersFinite
  <2>6. CASE ~w.user /\ loop[p].user
    <3>1. p \in Users
      BY <2>6 DEF Users
    <3>2. Users' = {}
      BY <2>2, <2>6, <3>1, OneUser
    <3>3. Cardinality(Users') = 0
      BY <3>2, FS_EmptySet
    <3> QED BY <3>3
  <2> QED BY <2>3, <2>4, <2>5, <2>6
<1> QED BY <1>3, <1>4, <1>5

(* event_opt and event_close touch what the kernel knows of the listener.  *)
LEMMA EventOpt ==
  ASSUME NEW w \in Loop, backlog \in BOOLEAN, w.epoll => w.active
  PROVE  /\ event_opt(w) \in Loop /\ event_close(w) \in Loop
         /\ event_opt(w).active
         /\ event_close(w).user = w.user /\ ~event_close(w).epoll
BY DEF event_opt, event_close, Loop

LEMMA MutexInvInit == MutexInit => MutexInv
<1> SUFFICES ASSUME MutexInit PROVE MutexInv
  OBVIOUS
<1>1. \A p \in Worker : loop[p] = Forked
  BY DEF MutexInit
<1>2. MutexTypeOK
  BY <1>1 DEF MutexInit, MutexTypeOK, Forked
<1>3. \A p \in Worker : OpenOwns(p) /\ Registered(p)
  BY <1>1 DEF OpenOwns, Registered, Forked
<1>4. {p \in Worker : loop[p].user} = {}
  BY <1>1 DEF Forked
<1>5. MutualExclusion
  BY <1>4, FS_EmptySet DEF MutualExclusion, MutexInit
<1> QED BY <1>2, <1>3, <1>5 DEF MutexInv

LEMMA MutexInvNext == MutexInv /\ [MutexNext]_mutexVars => MutexInv'
<1> SUFFICES ASSUME MutexInv, [MutexNext]_mutexVars PROVE MutexInv'
  OBVIOUS
<1>t. /\ loop \in [Worker -> Loop] /\ accept_mutex \in {0, 1}
      /\ backlog \in BOOLEAN
  BY DEF MutexInv, MutexTypeOK, Loop
<1>o. \A p \in Worker : OpenOwns(p) /\ Registered(p)
  BY DEF MutexInv
<1>1. CASE Client
  <2>1. \A q \in Worker : /\ loop'[q] \in Loop
                          /\ loop'[q] = [loop[q] EXCEPT !.edge = loop[q].epoll]
    BY <1>1, <1>t DEF Client, Loop
  <2>2. \A q \in Worker : /\ loop'[q].user = loop[q].user
                          /\ loop'[q].open = loop[q].open
                          /\ loop'[q].at = loop[q].at
                          /\ loop'[q].epoll = loop[q].epoll
                          /\ loop'[q].active = loop[q].active
    BY <2>1, <1>t, ZenonT(60) DEF Loop
  <2>3. MutexTypeOK'
    BY <1>1, <1>t, <2>1 DEF Client, MutexTypeOK, Loop
  <2>4. Users' = Users
    BY <2>2 DEF Users
  <2>5. MutualExclusion'
    BY <2>4, <1>1 DEF MutualExclusion, Users, MutexInv, Client
  <2>6. \A q \in Worker : (OpenOwns(q) /\ Registered(q))'
    BY <2>2, <1>o DEF OpenOwns, Registered
  <2> QED BY <2>3, <2>5, <2>6 DEF MutexInv
<1>2. ASSUME NEW p \in Worker, sem_trywait(p) PROVE MutexInv'
  <2>0. loop[p] \in Loop /\ OpenOwns(p) /\ Registered(p) /\ backlog' = backlog
    BY <1>t, <1>o, <1>2 DEF sem_trywait
  <2>1. CASE /\ accept_mutex > 0 /\ accept_mutex' = accept_mutex - 1
             /\ Goes(p, Locked(loop[p]))
    <3>1. accept_mutex = 1 /\ accept_mutex' = 0
      BY <2>1, <1>t
    <3>2. /\ Locked(loop[p]) \in Loop
          /\ Locked(loop[p]).user /\ Locked(loop[p]).open
          /\ Locked(loop[p]).active
      BY <2>0, <1>t, EventOpt DEF Locked, Loop, Registered
    <3> QED BY <3>1, <3>2, <2>0, <2>1, <1>t, Keeps
  <2>2. CASE /\ accept_mutex = 0 /\ Goes(p, Refused(loop[p]))
             /\ UNCHANGED accept_mutex
    <3>1. /\ Refused(loop[p]) \in Loop
          /\ Refused(loop[p]).user = loop[p].user
          /\ ~Refused(loop[p]).open /\ ~Refused(loop[p]).epoll
      BY <2>0, <1>t, EventOpt, ZenonT(60) DEF Refused, Loop, Registered
    <3> QED BY <3>1, <2>0, <2>2, <1>t, Keeps
  <2> QED BY <1>2, <2>1, <2>2 DEF sem_trywait
<1>3. ASSUME NEW p \in Worker, EarlyReturn(p) PROVE MutexInv'
  <2> DEFINE w == [loop[p] EXCEPT !.at = "lock"]
  <2>1. /\ w \in Loop /\ w.user = loop[p].user /\ w.at = "lock"
        /\ w.epoll => w.active /\ w.open
    BY <1>t, <1>o DEF Loop, Registered
  <2>2. Goes(p, w) /\ accept_mutex' = accept_mutex /\ backlog' = backlog
    BY <1>3 DEF EarlyReturn
  <2> HIDE DEF w
  <2> QED BY <2>1, <2>2, <1>t, Keeps
<1>4. ASSUME NEW p \in Worker, epoll_wait(p) PROVE MutexInv'
  <2>1. PICK accepts \in {FALSE, loop[p].edge} :
          Goes(p, [loop[p] EXCEPT !.at = "accept", !.accepts = accepts,
                                  !.edge = @ /\ ~accepts])
    BY <1>4 DEF epoll_wait
  <2> DEFINE w == [loop[p] EXCEPT !.at = "accept", !.accepts = accepts,
                                  !.edge = @ /\ ~accepts]
  <2>2. /\ w \in Loop /\ w.user = loop[p].user
        /\ w.open = loop[p].open /\ loop[p].at = "poll"
        /\ w.epoll => w.active /\ w.open
    BY <1>t, <1>o, <1>4 DEF Loop, Registered, epoll_wait
  <2>3. w.open => w.user
    BY <2>2, <1>o DEF OpenOwns
  <2>4. Goes(p, w) /\ accept_mutex' = accept_mutex /\ backlog' = backlog
    BY <1>4, <2>1 DEF epoll_wait
  <2> HIDE DEF w
  <2> QED BY <2>2, <2>3, <2>4, <1>t, Keeps
<1>5. ASSUME NEW p \in Worker, Accept(p) PROVE MutexInv'
  <2>0. backlog' \in BOOLEAN /\ loop[p].at = "accept"
    BY <1>5, <1>t DEF Accept
  <2>1. CASE loop[p].open
    <3> DEFINE w == [loop[p] EXCEPT !.at = "events", !.accepts = FALSE,
                                    !.user = FALSE]
    <3>1. loop[p].user
      BY <2>0, <2>1, <1>o DEF OpenOwns
    <3>2. accept_mutex = 0
      BY <3>1, OneUser DEF Users, MutexInv
    <3>3. Goes(p, w) /\ accept_mutex' = 1
      BY <1>5, <2>1, <3>2 DEF Accept, Post
    <3>4. /\ w \in Loop /\ ~w.user /\ w.at = "events"
          /\ w.epoll => w.active /\ w.open
      BY <1>t, <1>o, ZenonT(60) DEF Loop, Registered
    <3> HIDE DEF w
    <3> QED BY <3>1, <3>3, <3>4, <2>0, Keeps
  <2>2. CASE ~loop[p].open
    <3> DEFINE w == [loop[p] EXCEPT !.at = "events", !.accepts = FALSE]
    <3>1. Goes(p, w) /\ accept_mutex' = accept_mutex
      BY <1>5, <2>2 DEF Accept, Post
    <3>2. /\ w \in Loop /\ w.user = loop[p].user /\ w.at = "events"
          /\ w.epoll => w.active /\ w.open
      BY <1>t, <1>o, ZenonT(60) DEF Loop, Registered
    <3> HIDE DEF w
    <3> QED BY <3>1, <3>2, <2>0, <1>t, Keeps
  <2> QED BY <2>1, <2>2
<1>6. ASSUME NEW p \in Worker, Events(p) PROVE MutexInv'
  <2> DEFINE w == [loop[p] EXCEPT !.at = "lock"]
  <2>1. /\ w \in Loop /\ w.user = loop[p].user /\ w.at = "lock"
        /\ w.epoll => w.active /\ w.open
    BY <1>t, <1>o DEF Loop, Registered
  <2>2. Goes(p, w) /\ accept_mutex' = accept_mutex /\ backlog' = backlog
    BY <1>6 DEF Events
  <2> HIDE DEF w
  <2> QED BY <2>1, <2>2, <1>t, Keeps
<1>7. ASSUME NEW p \in Worker, Dies(p) PROVE MutexInv'
  <2> DEFINE w == [Forked EXCEPT !.at = "dead", !.user = loop[p].user]
  <2>1. w \in Loop /\ w.user = loop[p].user /\ ~w.open /\ ~w.epoll
    BY <1>t DEF Loop, Forked
  <2>2. Goes(p, w) /\ accept_mutex' = accept_mutex /\ backlog' = backlog
    BY <1>7 DEF Dies
  <2> HIDE DEF w
  <2> QED BY <2>1, <2>2, <1>t, Keeps
<1>8. ASSUME NEW p \in Worker, Respawn(p) PROVE MutexInv'
  <2>1. Forked \in Loop /\ ~Forked.user /\ ~Forked.open /\ ~Forked.epoll
    BY DEF Loop, Forked
  <2>2. Goes(p, Forked) /\ accept_mutex' = accept_mutex /\ backlog' = backlog
    BY <1>8 DEF Respawn
  <2> QED BY <2>1, <2>2, <1>t, Keeps
<1>9. CASE UNCHANGED mutexVars
  BY <1>9 DEF mutexVars, MutexInv, MutexTypeOK, MutualExclusion, OpenOwns, Registered
<1> QED
  BY <1>1, <1>2, <1>3, <1>4, <1>5, <1>6, <1>7, <1>8, <1>9 DEF MutexNext

(* Only the owner's turn may post and only it has the listener registered, *)
(* in every turn of event_loop.                                            *)
THEOREM MutexInductive == MutexSpec => []MutexInv
<1> QED BY MutexInvInit, MutexInvNext, PTL DEF MutexSpec

(* accept_mutex is a semaphore of value 0 or 1, whatever the workers do.   *)
THEOREM MutexTyped == MutexSpec => []MutexTypeOK
<1>1. MutexInv => MutexTypeOK
  BY DEF MutexInv
<1> QED BY <1>1, MutexInductive, PTL

(* sem_post never raises the semaphore beyond one owner: crashes, early    *)
(* returns and refusals included.                                          *)
THEOREM Exclusive == MutexSpec => []MutualExclusion
<1>1. MutexInv => MutualExclusion
  BY DEF MutexInv
<1> QED BY <1>1, MutexInductive, PTL

(* The listener of event_loop wakes one worker, for any number of workers. *)
THEOREM Alone == MutexSpec => []OneListens
<1>1. MutexInv => OneListens
  <2> SUFFICES ASSUME MutexInv, NEW p \in Worker, NEW q \in Worker,
                      Listens(p), Listens(q)
               PROVE  p = q
    BY DEF OneListens
  <2>1. p \in Users /\ q \in Users
    BY DEF MutexInv, Listens, OpenOwns, Registered, Users
  <2> QED BY <2>1, OneUser DEF MutexInv
<1> QED BY <1>1, MutexInductive, PTL
=============================================================================
