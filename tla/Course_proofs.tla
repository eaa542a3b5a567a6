---------------------------- MODULE Course_proofs ----------------------------
(***************************************************************************)
(* The timers and the pools of Tunnel, for pools of every size and every   *)
(* mode.  Both rest on how far a tunnel has come: a handler of the request *)
(* is not left behind when its body was read, nor one of the connect when  *)
(* the answer began, nor one of the answer's head when its body did.  So a *)
(* tunnel never allocates a body twice, and the downstream has no timer    *)
(* armed when the next request of a keep-alive client takes its place.     *)
(* Then all that is proved of Tunnel's loop is carried over to the loop of *)
(* Deferred; and at the end, for both loops, that no tunnel waits without  *)
(* a timer.                                                                *)
(***************************************************************************)
EXTENDS Tunnel_proofs, FiniteSetTheorems, Deferred

-----------------------------------------------------------------------------
(* The course of a tunnel: which handlers come before the answer, before   *)
(* its body, and before the request's body.                                *)
Early == {"tunnel_remote_connect_start", "tunnel_remote_connect_check",
  "tunnel_remote_handshake_handler", "ssl_handshake_handler",
  "tunnel_start", "http_remote_send"}
Heading == {"http_remote_recv_header", "http_local_send_header"}
Asking == {"tunnel_local_process_request", "tunnel_local_process_procotol"}
Loose(h) == h \notin Early \cup Heading \cup Asking
Due(h, z) ==
  /\ h \in Early => ~z.resp
  /\ h \in Heading => ~z.respBody
  /\ h \in Asking => ~z.reqBody

(* The handlers of connection c, left or running, have come no further.    *)
OnCourse(c) ==
  LET t == conn[c].data
  IN t # Null =>
       /\ \A d \in Dir : Due(conn[c].h[d], tun[t])
       /\ cur.c = c => Due(cur.h, tun[t])

(* The timers of connection c are its own, and off when its tunnel changes *)
(* or its place is taken: the write timer while it has no tunnel and while *)
(* a body is answered, the downstream read timer while an upstream works.  *)
Clock(c) ==
  LET k == conn[c]
      t == k.data
  IN /\ \A d \in Dir : k.t[d] # Null =>
          k.used /\ k.t[d] = IF t = Null THEN c ELSE t
     /\ t = Null => k.t["w"] = Null
     /\ t # Null /\ tun[t].down = c =>
          /\ tun[t].up = Null \/ tun[t].relay \/ k.t["r"] = Null
          /\ tun[t].respBody => k.t["w"] = Null

Course ==
  /\ \A c \in Conn : OnCourse(c) /\ Clock(c)
  /\ \A t \in Tun : tun[t].respBody => tun[t].resp

-----------------------------------------------------------------------------
(* Steps.                                                                  *)

(* Of tunnel t only what Course does not look at changes.                  *)
Alike(t) ==
  /\ tun'[t].down = tun[t].down /\ tun'[t].up = tun[t].up
  /\ tun'[t].relay = tun[t].relay /\ tun'[t].reqBody = tun[t].reqBody
  /\ tun'[t].resp = tun[t].resp /\ tun'[t].respBody = tun[t].respBody

(* The step is about the connections in S.                                 *)
Apart(S) ==
  /\ cur'.h = "NULL" \/ cur'.c \in S
  /\ \A x \in Conn \ S :
       /\ conn'[x] = conn[x]
       /\ conn[x].data # Null => Alike(conn[x].data)
  /\ \A t \in Tun : tun'[t].respBody => tun'[t].resp

(* A handler that is Loose is due whenever it is called.                   *)
LEMMA LooseDue ==
  ASSUME NEW h, Loose(h), NEW z
  PROVE  Due(h, z)
BY DEF Loose, Due

(* The others keep their course.                                           *)
LEMMA CourseFrame ==
  ASSUME Course, NEW S, Apart(S),
         \A x \in Conn : x \in S => OnCourse(x)' /\ Clock(x)'
  PROVE  Course'
<1>1. ASSUME NEW x \in Conn, x \notin S PROVE OnCourse(x)' /\ Clock(x)'
  <2>1. OnCourse(x) /\ Clock(x) /\ conn'[x] = conn[x]
    BY <1>1 DEF Course, Apart
  <2>2. conn[x].data # Null => Alike(conn[x].data)
    BY <1>1 DEF Apart
  <2>3. cur'.c = x => cur'.h = "NULL"
    BY <1>1 DEF Apart
  <2>4. OnCourse(x)'
    <3>1. \A h : conn[x].data # Null /\ Due(h, tun[conn[x].data]) =>
                   Due(h, tun'[conn[x].data])
      BY <2>2 DEF Alike, Due
    <3>2. \A z : Due("NULL", z)
      BY DEF Due, Early, Heading, Asking
    <3> QED BY <2>1, <2>3, <3>1, <3>2 DEF OnCourse
  <2>5. Clock(x)'
    BY <2>1, <2>2 DEF Clock, Alike
  <2> QED BY <2>4, <2>5
<1>2. \A t \in Tun : tun'[t].respBody => tun'[t].resp
  BY DEF Apart
<1> QED BY <1>1, <1>2 DEF Course

(* Connection c may have its timer d armed with x.                         *)
May(c, d, x) ==
  LET t == conn[c].data
  IN /\ conn[c].used /\ x = IF t = Null THEN c ELSE t
     /\ t = Null => d = "r"
     /\ t # Null /\ tun[t].down = c =>
          /\ d = "r" => tun[t].up = Null \/ tun[t].relay
          /\ d = "w" => ~tun[t].respBody

(* Connection c becomes k, with the same tunnel; g may be left on it.      *)
Mild(c, k, g) ==
  /\ k.used = conn[c].used /\ k.data = conn[c].data
  /\ \A d \in Dir : Loose(k.h[d]) \/ k.h[d] = g \/ k.h[d] = conn[c].h[d]
  /\ cur'.c = c => Loose(cur'.h) \/ cur'.h = g
  /\ \A d \in Dir : k.t[d] \in {Null, conn[c].t[d]} \/ May(c, d, k.t[d])
Goes(c, k, g, z, y) ==
  /\ Due(g, y)
  /\ \A d \in Dir : k.h[d] = conn[c].h[d] /\ Due(k.h[d], z) =>
                      Due(k.h[d], y)
  /\ y.down = z.down
  /\ y.down = c =>
       /\ k.t["r"] = Null \/ (y.up = z.up /\ (z.relay => y.relay))
       /\ k.t["w"] = Null \/ (y.respBody => z.respBody)

(* It keeps its course when its tunnel does.                               *)
LEMMA MildCourse ==
  ASSUME Course, NEW c \in Conn, NEW k, NEW g, conn'[c] = k, Mild(c, k, g),
         k.data # Null => Goes(c, k, g, tun[k.data], tun'[k.data])
  PROVE  OnCourse(c)' /\ Clock(c)'
<1>1. OnCourse(c) /\ Clock(c)
  BY DEF Course
<1>2. OnCourse(c)'
  <2>1. ASSUME k.data # Null, NEW d \in Dir PROVE Due(k.h[d], tun'[k.data])
    <3>1. Due(conn[c].h[d], tun[k.data])
      BY <1>1, <2>1 DEF Mild, OnCourse
    <3> QED BY <2>1, <3>1, LooseDue DEF Mild, Goes
  <2>2. ASSUME k.data # Null, cur'.c = c PROVE Due(cur'.h, tun'[k.data])
    BY <2>2, LooseDue DEF Mild, Goes
  <2> QED BY <2>1, <2>2 DEF OnCourse
<1>3. Clock(c)'
  <2>1. \A d \in Dir : k.t[d] # Null =>
          k.used /\ k.t[d] = IF k.data = Null THEN c ELSE k.data
    BY <1>1 DEF Mild, May, Clock
  <2>2. k.data = Null => k.t["w"] = Null
    BY <1>1 DEF Mild, May, Clock, Dir
  <2>3. ASSUME k.data # Null, tun'[k.data].down = c
        PROVE  /\ \/ tun'[k.data].up = Null \/ tun'[k.data].relay
                  \/ k.t["r"] = Null
               /\ tun'[k.data].respBody => k.t["w"] = Null
    <3>1. Goes(c, k, g, tun[k.data], tun'[k.data])
      BY <2>3
    <3>2. tun[k.data].down = c
      BY <2>3, <3>1 DEF Goes
    <3>3. /\ \/ tun[k.data].up = Null \/ tun[k.data].relay
             \/ conn[c].t["r"] = Null
          /\ tun[k.data].respBody => conn[c].t["w"] = Null
      BY <1>1, <2>3, <3>2 DEF Clock, Mild
    <3>4. k.t["r"] # Null =>
            tun[k.data].up = Null \/ tun[k.data].relay
      BY <2>3, <3>2, <3>3 DEF Mild, May, Dir
    <3>5. k.t["w"] # Null => ~tun[k.data].respBody
      BY <2>3, <3>2, <3>3 DEF Mild, May, Dir
    <3> QED BY <2>3, <3>1, <3>4, <3>5 DEF Goes
  <2> QED BY <2>1, <2>2, <2>3 DEF Clock
<1> QED BY <1>2, <1>3

(* A handler that changes only its connection, whose next handler is due.  *)
OneMild(c, k, g) ==
  /\ conn' = [conn EXCEPT ![c] = k]
  /\ Mild(c, k, g)
  /\ k.data # Null => Due(g, tun[k.data])
  /\ \A t \in Tun : Alike(t)
  /\ cur'.h = "NULL" \/ cur'.c = c

(* Then nobody leaves the course.                                          *)
LEMMA OneCourse ==
  ASSUME IInv, Course, NEW c \in Conn, NEW k, NEW g, OneMild(c, k, g)
  PROVE  Course'
<1>1. conn'[c] = k /\ \A x \in Conn \ {c} : conn'[x] = conn[x]
  BY DEF OneMild, IInv, TypeOK
<1>2. \A x \in Conn : conn[x].data # Null => Alike(conn[x].data)
  BY DEF OneMild, IInv, TypeOK, Connection
<1>3. k.data # Null => Goes(c, k, g, tun[k.data], tun'[k.data])
  <2>1. ASSUME k.data # Null
        PROVE  Goes(c, k, g, tun[k.data], tun'[k.data])
    <3>1. Alike(k.data)
      BY <1>2, <2>1 DEF OneMild, Mild
    <3>2. \A h : Due(h, tun[k.data]) => Due(h, tun'[k.data])
      BY <3>1 DEF Alike, Due
    <3> QED BY <2>1, <3>1, <3>2 DEF OneMild, Goes, Alike
  <2> QED BY <2>1
<1>4. OnCourse(c)' /\ Clock(c)'
  BY <1>1, <1>3, MildCourse DEF OneMild
<1>5. \A t \in Tun : tun'[t].respBody => tun'[t].resp
  BY DEF OneMild, Alike, Course
<1>6. Apart({c})
  BY <1>1, <1>2, <1>5 DEF Apart, OneMild
<1>7. \A x \in Conn : x \in {c} => OnCourse(x)' /\ Clock(x)'
  BY <1>4
<1> QED BY <1>6, <1>7, CourseFrame

(* A connection that was given back to the pool.                           *)
LEMMA FreeCourse ==
  ASSUME NEW c, conn'[c] = FreeConn
  PROVE  OnCourse(c)' /\ Clock(c)'
BY DEF FreeConn, OnCourse, Clock, Dir

(* Tunnel t ends.                                                          *)
LEMMA EndCourse ==
  ASSUME IInv, Course, NEW t \in Tun, Ends(t)
  PROVE  Course'
<1>1. PICK S : S = {tun[t].down, tun[t].up}
  OBVIOUS
<1>2. \A x \in Conn : x \in S => OnCourse(x)' /\ Clock(x)'
  BY <1>1, FreeCourse DEF Ends
<1>3. tun'[t] = FreeTun /\ \A y \in Tun \ {t} : tun'[y] = tun[y]
  BY DEF Ends, IInv, TypeOK
<1>4. ASSUME NEW x \in Conn \ S
      PROVE  /\ conn'[x] = conn[x]
             /\ conn[x].data # Null => Alike(conn[x].data)
  <2>1. conn'[x] = conn[x]
    BY <1>1, <1>4 DEF Ends
  <2>2. ASSUME conn[x].data # Null PROVE Alike(conn[x].data)
    <3>1. conn[x].data \in Tun /\ conn[x].data # t
      BY <1>1, <1>4, <2>2 DEF IInv, Ownership, TypeOK, Connection
    <3> QED BY <1>3, <3>1 DEF Alike
  <2> QED BY <2>1, <2>2
<1>5. \A y \in Tun : tun'[y].respBody => tun'[y].resp
  BY <1>3 DEF Course, FreeTun
<1>6. Apart(S)
  BY <1>4, <1>5 DEF Apart, Ends, Return
<1> QED BY <1>2, <1>6, CourseFrame

(* tunnel_over from a handler of the tunnel, or from a timer.              *)
LEMMA OverCourse ==
  ASSUME IInv, Course, NEW t \in Tun, tunnel_over(t)
  PROVE  Course'
<1>1. Ends(t)
  BY DEF tunnel_over, net_free, Ends
<1> QED BY <1>1, EndCourse

(* tunnel_close_connection of a client without a tunnel.                   *)
LEMMA CloseCourse ==
  ASSUME IInv, Course, NEW c \in Conn, tunnel_close_connection(c)
  PROVE  Course'
<1>1. /\ conn'[c] = FreeConn /\ \A x \in Conn \ {c} : conn'[x] = conn[x]
      /\ tun' = tun /\ cur'.h = "NULL"
  BY DEF tunnel_close_connection, SetConn, net_free, IInv, TypeOK, Return
<1>2. \A x \in Conn : x \in {c} => OnCourse(x)' /\ Clock(x)'
  BY <1>1, FreeCourse
<1>3. Apart({c})
  BY <1>1 DEF Apart, Alike, Course
<1> QED BY <1>2, <1>3, CourseFrame

(* Steps that write no tunnel.                                             *)
LEMMA AllAlike ==
  ASSUME tun' = tun
  PROVE  \A t : Alike(t)
BY DEF Alike

(* Two values of a tunnel that Course does not tell apart.                 *)
Same(z, y) ==
  /\ y.down = z.down /\ y.up = z.up /\ y.relay = z.relay
  /\ y.reqBody = z.reqBody /\ y.resp = z.resp /\ y.respBody = z.respBody

(* A tunnel of which other fields change.                                  *)
LEMMA OneAlike ==
  ASSUME IInv, NEW t \in Tun, NEW y, tun' = [tun EXCEPT ![t] = y],
         Same(tun[t], y)
  PROVE  \A x \in Tun : Alike(x)
BY DEF Alike, Same, IInv, TypeOK

(* Arming a timer of the tunnel and returning.                             *)
LEMMA AwaitCourse ==
  ASSUME IInv, Course, NEW c \in Conn, NEW d \in Dir, NEW x \in Timer,
         May(c, d, x), conn' = [conn EXCEPT ![c] = timer_add(@, d, x)],
         \A t \in Tun : Alike(t), cur' = Return
  PROVE  Course'
<1>1. PICK j \in Connection : j = conn[c]
  BY DEF IInv, TypeOK
<1>2. PICK k : k = timer_add(j, d, x)
  OBVIOUS
<1>3. /\ k.used = j.used /\ k.data = j.data /\ k.h = j.h
      /\ k.t = [j.t EXCEPT ![d] = x]
  BY <1>2, TimerAdd
<1>4. conn' = [conn EXCEPT ![c] = k]
  BY <1>1, <1>2 DEF IInv, TypeOK
<1>5. \A e \in Dir : k.t[e] \in {Null, j.t[e]} \/ May(c, e, k.t[e])
  BY <1>1, <1>3 DEF Connection
<1>6. cur'.h = "NULL" /\ Loose("NULL")
  BY DEF Return, Loose, Early, Heading, Asking
<1>7. Mild(c, k, "NULL")
  BY <1>1, <1>3, <1>5, <1>6 DEF Mild
<1>8. OneMild(c, k, "NULL")
  BY <1>4, <1>6, <1>7, LooseDue DEF OneMild
<1> QED BY <1>8, OneCourse

(* The next handler g is called, left on the event d of its connection.    *)
Hands(c, j, d, g) ==
  /\ j = conn[c] \/ j = timer_del(conn[c], "r") \/ j = timer_del(conn[c], "w")
  /\ SetConn(c, [j EXCEPT !.h[d] = g]) /\ Call(g, c)
  /\ conn[c].data # Null => Due(g, tun[conn[c].data])
  /\ \A t \in Tun : Alike(t)

(* A connection as it is, or with a timer taken off.                       *)
LEMMA Untimed ==
  ASSUME NEW k \in Connection, NEW j,
         j = k \/ j = timer_del(k, "r") \/ j = timer_del(k, "w")
  PROVE  /\ j \in Connection /\ j.used = k.used /\ j.data = k.data
         /\ j.h = k.h /\ j.ssl = k.ssl /\ j.sslh = k.sslh
         /\ \A d \in Dir : j.t[d] \in {Null, k.t[d]}
<1>1. CASE j = k
  BY <1>1
<1>2. ASSUME NEW d \in Dir, j = timer_del(k, d)
      PROVE  /\ j \in Connection /\ j.used = k.used /\ j.data = k.data
             /\ j.h = k.h /\ j.ssl = k.ssl /\ j.sslh = k.sslh
             /\ \A e \in Dir : j.t[e] \in {Null, k.t[e]}
  <2>1. /\ j \in Connection /\ j.used = k.used /\ j.data = k.data
        /\ j.h = k.h /\ j.t = [k.t EXCEPT ![d] = Null]
        /\ j.ssl = k.ssl /\ j.sslh = k.sslh
    BY <1>2, TimerDel
  <2> QED BY <2>1 DEF Connection
<1> QED BY <1>1, <1>2 DEF Dir

(* Such a handler keeps the course.                                        *)
LEMMA HandsCourse ==
  ASSUME IInv, Course, NEW c \in Conn, NEW j, NEW d \in Dir, NEW g,
         Hands(c, j, d, g)
  PROVE  Course'
<1>1. PICK i \in Connection : i = conn[c]
  BY DEF IInv, TypeOK
<1>2. /\ j \in Connection /\ j.used = i.used /\ j.data = i.data
      /\ j.h = i.h /\ \A e \in Dir : j.t[e] \in {Null, i.t[e]}
  BY <1>1, Untimed DEF Hands
<1>3. PICK k : k = [j EXCEPT !.h[d] = g]
  OBVIOUS
<1>4. /\ k.used = j.used /\ k.data = j.data /\ k.t = j.t
      /\ k.h = [j.h EXCEPT ![d] = g]
  BY <1>2, <1>3 DEF Connection
<1>5. \A e \in Dir : k.h[e] = g \/ k.h[e] = i.h[e]
  BY <1>1, <1>2, <1>4 DEF Connection
<1>6. cur'.h = g /\ cur'.c = c /\ conn' = [conn EXCEPT ![c] = k]
  BY <1>3 DEF Hands, Call, SetConn
<1>7. Mild(c, k, g)
  BY <1>1, <1>2, <1>4, <1>5, <1>6 DEF Mild
<1>8. OneMild(c, k, g)
  BY <1>1, <1>2, <1>4, <1>6, <1>7 DEF OneMild, Hands
<1> QED BY <1>8, OneCourse

(* The running handler has come no further than its tunnel.                *)
LEMMA Ahead ==
  ASSUME IInv, Course, cur # Return, T \in Tun
  PROVE  Due(cur.h, tun[T])
BY AtWork, NameAssumption DEF Course, OnCourse, T, C

(* No upstream, and no body to answer with, is where the downstream timers *)
(* are armed.                                                              *)
LEMMA MayDown ==
  ASSUME IInv, NEW t \in Tun, tun[t].used, NEW c, c = tun[t].down,
         NEW d \in Dir, d = "r" => tun[t].up = Null \/ tun[t].relay,
         d = "w" => ~tun[t].respBody
  PROVE  May(c, d, t) /\ c \in Conn /\ t \in Timer
BY Owned, NameAssumption DEF May, Timer

(* The upstream ones are free.                                             *)
LEMMA MayUp ==
  ASSUME IInv, NEW t \in Tun, tun[t].used, tun[t].up \in Conn,
         NEW c, c = tun[t].up, NEW d \in Dir
  PROVE  May(c, d, t) /\ c \in Conn /\ t \in Timer
BY Owned, NameAssumption DEF May, Timer

(* Await on either side.                                                   *)
LEMMA AwaitsCourse ==
  ASSUME IInv, Course, NEW c \in Conn, NEW d \in Dir, T \in Timer,
         May(c, d, T), Await(c, d)
  PROVE  Course'
<1>1. conn' = [conn EXCEPT ![c] = timer_add(@, d, T)]
  BY DEF Await, SetConn, IInv, TypeOK
<1>2. cur' = Return /\ \A t \in Tun : Alike(t)
  BY AllAlike DEF Await
<1> QED BY <1>1, <1>2, AwaitCourse

-----------------------------------------------------------------------------
(* The request.                                                            *)

(* tunnel_local_process_request.                                           *)
LEMMA ProcessRequestCourse ==
  ASSUME IInv, Course, tunnel_local_process_request
  PROVE  Course'
<1>0. cur.h = "tunnel_local_process_request" /\ cur.h \in DownHandlers
  BY DEF tunnel_local_process_request, In, DownHandlers
<1>1. PICK c \in Conn, t \in Tun : c = C /\ t = T
  BY <1>0, AtDown
<1>2. /\ tun[t] \in Tunnel /\ tun[t].used /\ tun[t].down = c
      /\ tun[t].up = Null /\ conn[c].data = t /\ cur # Return
  BY <1>0, <1>1, AtDown DEF Needs
<1>3. ~tun[t].reqBody
  BY <1>0, <1>1, <1>2, Ahead DEF Due, Asking
<1>4. CASE tunnel_over(T)
  BY <1>1, <1>4, OverCourse
<1>5. CASE Await(C, "r")
  BY <1>1, <1>2, <1>5, MayDown, AwaitsCourse DEF Dir
<1>6. ASSUME NEW https \in BOOLEAN, NEW keep \in BOOLEAN, NEW body \in BOOLEAN,
             tun' = [tun EXCEPT ![t].https = https, ![t].keep = keep,
                                ![t].body = body],
             SetConn(c, [timer_del(conn[c], "r") EXCEPT
                 !.h["r"] = "tunnel_local_process_procotol"]),
             Call("tunnel_local_process_procotol", c)
      PROVE  Course'
  <2>1. PICK z : z = [tun[t] EXCEPT !.https = https, !.keep = keep,
                                    !.body = body]
    OBVIOUS
  <2>2. Same(tun[t], z)
    BY <1>2, <2>1 DEF Tunnel, Same
  <2>3. tun' = [tun EXCEPT ![t] = z]
    BY <1>6, <2>1 DEF IInv, TypeOK
  <2>4. \A x \in Tun : Alike(x)
    BY <2>2, <2>3, OneAlike
  <2>5. PICK j : j = timer_del(conn[c], "r")
    OBVIOUS
  <2>6. Due("tunnel_local_process_procotol", tun[t])
    BY <1>3 DEF Due, Early, Heading
  <2>7. Hands(c, j, "r", "tunnel_local_process_procotol")
    BY <1>2, <1>6, <2>4, <2>5, <2>6 DEF Hands
  <2> QED BY <2>7, HandsCourse DEF Dir
<1> QED
  BY <1>1, <1>4, <1>5, <1>6 DEF tunnel_local_process_request

(* tunnel_local_process_procotol, the only one to allocate a request body. *)
LEMMA ProcessProcotolCourse ==
  ASSUME IInv, Course, tunnel_local_process_procotol
  PROVE  Course'
<1>0. cur.h = "tunnel_local_process_procotol" /\ cur.h \in DownHandlers
  BY DEF tunnel_local_process_procotol, In, DownHandlers
<1>1. PICK c \in Conn, t \in Tun : c = C /\ t = T
  BY <1>0, AtDown
<1>2. /\ tun[t] \in Tunnel /\ tun[t].used /\ tun[t].down = c
      /\ tun[t].up = Null /\ conn[c].data = t /\ cur # Return
      /\ conn[c] \in Connection /\ Sides(conn[c])
  BY <1>0, <1>1, AtDown DEF Needs
<1>3. PICK w \in BOOLEAN : w = (~tun[t].https /\ tun[t].body)
  OBVIOUS
<1>4. PICK g : g = IF w THEN "tunnel_local_process_body"
                        ELSE "tunnel_remote_init"
  OBVIOUS
<1>5. CASE tunnel_over(T)
  BY <1>1, <1>5, OverCourse
<1>6. CASE /\ tun' = [tun EXCEPT ![t].reqBody = @ \/ w]
           /\ SetConn(c, [conn[c] EXCEPT !.h["r"] = g])
           /\ Call(g, c)
  <2>1. PICK z : z = [tun[t] EXCEPT !.reqBody = @ \/ w]
    OBVIOUS
  <2>2. /\ z.down = c /\ z.up = tun[t].up /\ z.relay = tun[t].relay
        /\ z.resp = tun[t].resp /\ z.respBody = tun[t].respBody
    BY <1>2, <2>1 DEF Tunnel
  <2>3. tun'[t] = z /\ \A y \in Tun \ {t} : tun'[y] = tun[y]
    BY <1>6, <2>1 DEF IInv, TypeOK
  <2>4. PICK k : k = [conn[c] EXCEPT !.h["r"] = g]
    OBVIOUS
  <2>5. /\ k.used = conn[c].used /\ k.data = t /\ k.t = conn[c].t
        /\ k.h = [conn[c].h EXCEPT !["r"] = g]
    BY <1>2, <2>4 DEF Connection
  <2>6. \A d \in Dir : k.h[d] = g \/ (k.h[d] = conn[c].h[d] /\ d = "w")
    BY <1>2, <2>5 DEF Connection, Dir
  <2>7. conn'[c] = k /\ \A x \in Conn \ {c} : conn'[x] = conn[x]
    BY <1>6, <2>4 DEF SetConn, IInv, TypeOK
  <2>8. cur'.h = g /\ cur'.c = c /\ Loose(g)
    BY <1>4, <1>6 DEF Call, Loose, Early, Heading, Asking
  <2>9. ASSUME NEW d \in Dir, Due(k.h[d], tun[t]) PROVE Due(k.h[d], z)
    <3>1. k.h[d] \notin Asking
      BY <1>2, <2>6, <2>8 DEF Sides, WriteHandlers, Asking, Loose
    <3> QED BY <2>2, <2>9, <3>1 DEF Due
  <2>10. OnCourse(c)'
    <3>1. \A d \in Dir : Due(k.h[d], tun[t])
      BY <1>2, <2>6, <2>8, LooseDue, NameAssumption DEF Course, OnCourse
    <3>2. Due(g, z)
      BY <2>8, LooseDue
    <3> QED BY <2>3, <2>5, <2>7, <2>8, <2>9, <3>1, <3>2 DEF OnCourse
  <2>11. Clock(c)'
    <3>1. Clock(c)
      BY DEF Course
    <3> QED BY <1>2, <2>2, <2>3, <2>5, <2>7, <3>1 DEF Clock
  <2>12. \A x \in Conn \ {c} : conn[x].data \in (Tun \ {t}) \cup {Null}
    BY <1>2, NameAssumption DEF IInv, Ownership, TypeOK, Connection
  <2>13. \A y \in Tun : tun'[y].respBody => tun'[y].resp
    BY <2>2, <2>3 DEF Course
  <2>14. Apart({c})
    BY <2>3, <2>7, <2>8, <2>12, <2>13 DEF Apart, Alike
  <2>15. \A x \in Conn : x \in {c} => OnCourse(x)' /\ Clock(x)'
    BY <2>10, <2>11
  <2> QED BY <2>14, <2>15, CourseFrame
<1> QED
  BY <1>0, <1>1, <1>3, <1>4, <1>5, <1>6 DEF tunnel_local_process_procotol

(* tunnel_local_process_body.                                              *)
LEMMA ProcessBodyCourse ==
  ASSUME IInv, Course, tunnel_local_process_body
  PROVE  Course'
<1>0. cur.h = "tunnel_local_process_body" /\ cur.h \in DownHandlers
  BY DEF tunnel_local_process_body, In, DownHandlers
<1>1. PICK c \in Conn, t \in Tun : c = C /\ t = T
  BY <1>0, AtDown
<1>2. /\ tun[t].used /\ tun[t].down = c
      /\ tun[t].up = Null /\ conn[c].data = t
  BY <1>0, <1>1, AtDown DEF Needs
<1>3. CASE tunnel_over(T)
  BY <1>1, <1>3, OverCourse
<1>4. CASE Await(C, "r")
  BY <1>1, <1>2, <1>4, MayDown, AwaitsCourse DEF Dir
<1>5. CASE /\ SetConn(c, [timer_del(conn[c], "r") EXCEPT
                            !.h["r"] = "tunnel_remote_init"])
           /\ tun' = tun /\ Call("tunnel_remote_init", c)
  <2>1. PICK j : j = timer_del(conn[c], "r")
    OBVIOUS
  <2>2. Due("tunnel_remote_init", tun[t])
    BY DEF Due, Early, Heading, Asking
  <2>3. Hands(c, j, "r", "tunnel_remote_init")
    BY <1>2, <1>5, <2>1, <2>2, AllAlike DEF Hands
  <2> QED BY <2>3, HandsCourse DEF Dir
<1> QED
  BY <1>1, <1>3, <1>4, <1>5 DEF tunnel_local_process_body

-----------------------------------------------------------------------------
(* Greeting, and the SSL handshake on either side.                         *)

(* Nothing of a tunnel is due on a connection without one.                 *)
LEMMA GreetHands ==
  ASSUME IInv, Course, NEW c \in Conn, conn[c].data = Null, NEW g,
         NEW j, j = conn[c] \/ j = timer_del(conn[c], "r"), NEW k,
         j \in Connection => k.used = j.used /\ k.data = j.data /\ k.t = j.t,
         \A d \in Dir : Loose(k.h[d]) \/ k.h[d] = g \/ k.h[d] = conn[c].h[d],
         SetConn(c, k), Call(g, c), tun' = tun
  PROVE  Course'
<1>1. PICK i \in Connection : i = conn[c]
  BY DEF IInv, TypeOK
<1>2. /\ j \in Connection /\ j.used = i.used /\ j.data = i.data
      /\ \A e \in Dir : j.t[e] \in {Null, i.t[e]}
  BY <1>1, Untimed
<1>3. cur'.h = g /\ cur'.c = c /\ conn' = [conn EXCEPT ![c] = k]
  BY DEF Call, SetConn
<1>4. Mild(c, k, g)
  BY <1>1, <1>2, <1>3 DEF Mild
<1>5. OneMild(c, k, g)
  BY <1>1, <1>2, <1>3, <1>4, AllAlike DEF OneMild
<1> QED BY <1>5, OneCourse

(* The handler waits for its handshake.                                    *)
Shaking(c, k) ==
  /\ conn' = [conn EXCEPT ![c] = k]
  /\ k.used = conn[c].used /\ k.data = conn[c].data
  /\ \A d \in Dir : k.h[d] \in {"NULL", "ssl_handshake_handler"}
  /\ \A d \in Dir : k.t[d] \in {Null, conn[c].t[d]} \/ May(c, d, k.t[d])
  /\ k.data # Null => ~tun[k.data].resp
  /\ tun' = tun /\ cur' = Return

(* Such a handler keeps the course.                                        *)
LEMMA ShakingCourse ==
  ASSUME IInv, Course, NEW c \in Conn, NEW k, Shaking(c, k)
  PROVE  Course'
<1>1. PICK g : g = "ssl_handshake_handler"
  OBVIOUS
<1>2. Loose("NULL") /\ cur'.h = "NULL"
  BY DEF Shaking, Return, Loose, Early, Heading, Asking
<1>3. Mild(c, k, g)
  BY <1>1, <1>2 DEF Mild, Shaking
<1>4. k.data # Null => Due(g, tun[k.data])
  BY <1>1 DEF Shaking, Due, Heading, Asking
<1>5. OneMild(c, k, g)
  BY <1>2, <1>3, <1>4, AllAlike DEF OneMild, Shaking
<1> QED BY <1>5, OneCourse

(* A handshake that ended changes ssl->handshaked.                         *)
LEMMA ShookCourse ==
  ASSUME IInv, Course, NEW c \in Conn, NEW j,
         j = conn[c] \/ j = timer_del(conn[c], "w"), NEW v,
         SetConn(c, [j EXCEPT !.ssl = v]), NEW g, Call(g, c),
         conn[c].data # Null => Due(g, tun[conn[c].data]), tun' = tun
  PROVE  Course'
<1>1. PICK i \in Connection : i = conn[c]
  BY DEF IInv, TypeOK
<1>2. /\ j \in Connection /\ j.used = i.used /\ j.data = i.data
      /\ j.h = i.h /\ \A e \in Dir : j.t[e] \in {Null, i.t[e]}
  BY <1>1, Untimed
<1>3. PICK k : k = [j EXCEPT !.ssl = v]
  OBVIOUS
<1>4. /\ k.used = j.used /\ k.data = j.data /\ k.h = j.h /\ k.t = j.t
  BY <1>2, <1>3 DEF Connection
<1>5. cur'.h = g /\ cur'.c = c /\ conn' = [conn EXCEPT ![c] = k]
  BY <1>3 DEF Call, SetConn
<1>6. Mild(c, k, g)
  BY <1>1, <1>2, <1>4, <1>5 DEF Mild
<1>7. OneMild(c, k, g)
  BY <1>1, <1>2, <1>4, <1>5, <1>6, AllAlike DEF OneMild
<1> QED BY <1>7, OneCourse

(* tunnel_local_init.                                                      *)
LEMMA LocalInitCourse ==
  ASSUME IInv, Course, tunnel_local_init
  PROVE  Course'
<1>0. cur.h \in GreetHandlers
  BY DEF tunnel_local_init, In, GreetHandlers
<1>1. PICK c \in Conn : c = C
  BY <1>0, AtGreet
<1>2. conn[c] \in Connection /\ conn[c].used /\ conn[c].data = Null
  BY <1>0, <1>1, AtGreet
<1>3. CASE /\ SetConn(c, [conn[c] EXCEPT !.h["r"] = "tunnel_local_start"])
           /\ Call("tunnel_local_start", c) /\ tun' = tun
  <2>1. PICK j : j = conn[c]
    OBVIOUS
  <2>2. Hands(c, j, "r", "tunnel_local_start")
    BY <1>2, <1>3, <2>1, AllAlike DEF Hands
  <2> QED BY <2>2, HandsCourse DEF Dir
<1>4. ASSUME NEW d \in Dir, cur' = Return, tun' = tun,
             SetConn(c, [timer_add(ssl_want(conn[c], d), "r", c) EXCEPT
                 !.ssl = "init", !.sslh = "tunnel_local_handshake_handler"])
      PROVE  Course'
  <2>1. PICK j \in Connection : j = conn[c]
    BY <1>2
  <2>2. PICK k : k = Wanting(j, d, "r", c, "tunnel_local_handshake_handler")
    OBVIOUS
  <2>3. c \in Timer /\ "r" \in Dir
    BY DEF Timer, Dir
  <2>4. /\ k \in Connection /\ k.used = j.used /\ k.data = j.data
        /\ \A y \in Dir : k.h[y] \in {"NULL", "ssl_handshake_handler"}
        /\ k.t = [j.t EXCEPT !["r"] = c]
    BY <2>1, <2>2, <2>3, Wants
  <2>5. May(c, "r", c)
    BY <1>2 DEF May
  <2>6. \A y \in Dir : k.t[y] \in {Null, conn[c].t[y]} \/ May(c, y, k.t[y])
    BY <2>1, <2>4, <2>5 DEF Connection
  <2>7. Shaking(c, k)
    BY <1>2, <1>4, <2>1, <2>2, <2>4, <2>6 DEF Shaking, SetConn, Wanting
  <2> QED BY <2>7, ShakingCourse
<1>5. CASE /\ SetConn(c, [conn[c] EXCEPT !.ssl = "handshaked"])
           /\ Call("tunnel_local_handshake_handler", c) /\ tun' = tun
  <2>1. PICK g : g = "tunnel_local_handshake_handler"
    OBVIOUS
  <2>2. PICK j : j = conn[c]
    OBVIOUS
  <2> QED BY <1>2, <1>5, <2>1, <2>2, ShookCourse
<1> QED
  BY <1>1, <1>3, <1>4, <1>5, CloseCourse DEF tunnel_local_init

(* ssl_handshake_handler.                                                  *)
LEMMA SslCourse ==
  ASSUME IInv, Course, ssl_handshake_handler
  PROVE  Course'
<1>0. cur.h = "ssl_handshake_handler" /\ cur # Return /\ tun' = tun
  BY DEF ssl_handshake_handler, In, Return
<1>1. PICK c \in Conn : c = C
  BY <1>0, AtWork
<1>2. /\ conn[c] \in Connection /\ conn[c].used
      /\ Needs("ssl_handshake_handler", c)
  BY <1>0, <1>1, AtWork
<1>3. ASSUME conn[c].data # Null
      PROVE  /\ ~tun[conn[c].data].resp
             /\ conn[c].sslh = "tunnel_remote_handshake_handler"
  <2>1. T \in Tun /\ T = conn[c].data
    BY <1>0, <1>1, <1>3, AtWork DEF T, C
  <2>2. ~tun[T].resp
    BY <1>0, <2>1, Ahead DEF Due, Early
  <2> QED BY <1>2, <1>3, <2>1, <2>2 DEF Needs
<1>4. ASSUME NEW d \in Dir, SetConn(c, ssl_want(conn[c], d)), cur' = Return
      PROVE  Course'
  <2>1. PICK k : k = ssl_want(conn[c], d)
    OBVIOUS
  <2>2. /\ k.used = conn[c].used /\ k.data = conn[c].data /\ k.t = conn[c].t
        /\ k.h = [e \in Dir |-> IF e = d THEN "ssl_handshake_handler"
                                         ELSE "NULL"]
    BY <1>2, <2>1, SslWant
  <2>3. Shaking(c, k)
    BY <1>0, <1>3, <1>4, <2>1, <2>2 DEF Shaking, SetConn
  <2> QED BY <2>3, ShakingCourse
<1>5. ASSUME NEW v, SetConn(c, [conn[c] EXCEPT !.ssl = v]),
             Call(conn[c].sslh, c)
      PROVE  Course'
  <2>1. PICK g : g = conn[c].sslh
    OBVIOUS
  <2>2. conn[c].data # Null => Due(g, tun[conn[c].data])
    BY <1>3, <2>1 DEF Due, Heading, Asking
  <2>3. PICK j : j = conn[c]
    OBVIOUS
  <2> QED BY <1>0, <1>5, <2>1, <2>2, <2>3, ShookCourse
<1> QED
  BY <1>1, <1>4, <1>5 DEF ssl_handshake_handler

(* tunnel_local_handshake_handler.                                         *)
LEMMA LocalHandshakeCourse ==
  ASSUME IInv, Course, tunnel_local_handshake_handler
  PROVE  Course'
<1>0. cur.h \in GreetHandlers
  BY DEF tunnel_local_handshake_handler, In, GreetHandlers
<1>1. PICK c \in Conn : c = C
  BY <1>0, AtGreet
<1>2. conn[c] \in Connection /\ conn[c].data = Null
  BY <1>0, <1>1, AtGreet
<1>3. CASE /\ SetConn(c, [timer_del(conn[c], "r") EXCEPT
                            !.h = Both("tunnel_local_start", "NULL")])
           /\ Call("tunnel_local_start", c) /\ tun' = tun
  <2>1. PICK j : j = timer_del(conn[c], "r")
    OBVIOUS
  <2>2. j \in Connection
    BY <1>2, <2>1, Untimed
  <2>3. PICK k : k = [j EXCEPT !.h = Both("tunnel_local_start", "NULL")]
    OBVIOUS
  <2>4. /\ k.used = j.used /\ k.data = j.data /\ k.t = j.t
        /\ k.h = Both("tunnel_local_start", "NULL")
    BY <2>2, <2>3 DEF Connection
  <2>5. \A d \in Dir : Loose(k.h[d])
    BY <2>4 DEF Both, Dir, Loose, Early, Heading, Asking
  <2>6. SetConn(c, k)
    BY <1>3, <2>1, <2>3
  <2>7. PICK g : g = "tunnel_local_start"
    OBVIOUS
  <2>8. \A d \in Dir : Loose(k.h[d]) \/ k.h[d] = g \/ k.h[d] = conn[c].h[d]
    BY <2>5
  <2> QED BY <1>2, <1>3, <2>1, <2>4, <2>6, <2>7, <2>8, GreetHands
<1> QED
  BY <1>1, <1>3, CloseCourse DEF tunnel_local_handshake_handler, Both

(* tunnel_local_start: the timers of the greeting are off.                 *)
LEMMA LocalStartCourse ==
  ASSUME IInv, Course, tunnel_local_start
  PROVE  Course'
<1>0. cur.h \in GreetHandlers
  BY DEF tunnel_local_start, In, GreetHandlers
<1>1. PICK c \in Conn : c = C
  BY <1>0, AtGreet
<1>2. /\ conn[c] \in Connection /\ conn[c].used /\ conn[c].data = Null
      /\ conn[c].t["w"] = Null
  BY <1>0, <1>1, AtGreet DEF Course, Clock
<1>3. PICK g : g = IF Mode = "client" THEN "tunnel_remote_init"
                   ELSE "tunnel_local_process_request"
  OBVIOUS
<1>4. g \in Handlers \cup {"NULL"}
  BY <1>3 DEF Handlers, DownHandlers
<1>5. ASSUME NEW t \in Tun, ~tun[t].used,
             tun' = [tun EXCEPT ![t].used = TRUE, ![t].down = c,
                                ![t].req = (Mode # "client")],
             SetConn(c, event_opt([timer_del(conn[c], "r") EXCEPT
                      !.data = t, !.h = Both(g, "NULL")], "r")),
             Call(g, c)
      PROVE  Course'
  <2>1. PICK j : j = timer_del(conn[c], "r")
    OBVIOUS
  <2>2. /\ j \in Connection /\ j.used /\ j.t = [conn[c].t EXCEPT !["r"] = Null]
    BY <1>2, <2>1, TimerDel DEF Dir
  <2>3. PICK i : i = [j EXCEPT !.data = t, !.h = Both(g, "NULL")]
    OBVIOUS
  <2>4. Both(g, "NULL") \in [Dir -> Handlers \cup {"NULL"}]
    BY <1>4, BothTypes
  <2>5. /\ i \in Connection /\ i.used /\ i.data = t
        /\ i.h = Both(g, "NULL") /\ i.t = j.t
    BY <2>2, <2>3, <2>4 DEF Connection
  <2>6. PICK k : k = event_opt(i, "r")
    OBVIOUS
  <2>7. k.used /\ k.data = t /\ k.h = Both(g, "NULL") /\ k.t = j.t
    BY <2>5, <2>6, EventOpt DEF Dir
  <2>8. \A d \in Dir : k.t[d] = Null
    BY <1>2, <2>2, <2>7 DEF Dir, Connection
  <2>9. conn' = [conn EXCEPT ![c] = k]
    BY <1>5, <2>1, <2>3, <2>6 DEF SetConn
  <2>10. conn'[c] = k /\ \A x \in Conn \ {c} : conn'[x] = conn[x]
    BY <2>9 DEF IInv, TypeOK
  <2>11. tun[t] = FreeTun /\ FreeTun \in Tunnel /\ tun \in [Tun -> Tunnel]
    BY <1>5, FreeTypes DEF IInv, Ownership, TypeOK
  <2>12. /\ ~tun'[t].resp /\ ~tun'[t].respBody /\ ~tun'[t].reqBody
         /\ \A y \in Tun \ {t} : tun'[y] = tun[y]
    BY <1>5, <2>11 DEF Tunnel, FreeTun
  <2>13. cur'.h = g /\ cur'.c = c
    BY <1>5 DEF Call
  <2>14. OnCourse(c)' /\ Clock(c)'
    <3>1. \A h : Due(h, tun'[t])
      BY <2>12 DEF Due
    <3>2. "w" \in Dir /\ "r" \in Dir
      BY DEF Dir
    <3> QED BY <2>7, <2>8, <2>10, <2>12, <3>1, <3>2 DEF OnCourse, Clock
  <2>15. \A x \in Conn \ {c} : conn[x].data \in (Tun \ {t}) \cup {Null}
    BY <1>5, NameAssumption DEF IInv, Ownership, TypeOK, Connection
  <2>16. \A y \in Tun : tun'[y].respBody => tun'[y].resp
    BY <2>12 DEF Course
  <2>17. Apart({c})
    BY <2>10, <2>12, <2>13, <2>15, <2>16 DEF Apart, Alike
  <2>18. \A x \in Conn : x \in {c} => OnCourse(x)' /\ Clock(x)'
    BY <2>14
  <2> QED BY <2>17, <2>18, CourseFrame
<1> QED
  BY <1>1, <1>3, <1>5, CloseCourse DEF tunnel_local_start, Both

-----------------------------------------------------------------------------
(* Connecting.                                                             *)

(* tunnel_remote_init: the downstream's timers are off while the upstream  *)
(* connects.                                                               *)
LEMMA RemoteInitCourse ==
  ASSUME IInv, Ways, Course, tunnel_remote_init
  PROVE  Course'
<1> USE NameAssumption
<1>0. cur.h = "tunnel_remote_init" /\ cur.h \in DownHandlers
  BY DEF tunnel_remote_init, In, DownHandlers
<1>1. PICK c \in Conn, t \in Tun : c = C /\ t = T
  BY <1>0, AtDown
<1>2. /\ conn[c] \in Connection /\ conn[c].used /\ conn[c].data = t
      /\ tun[t] \in Tunnel
      /\ tun[t].used /\ tun[t].down = c /\ tun[t].up = Null
      /\ conn \in [Conn -> Connection] /\ tun \in [Tun -> Tunnel]
  BY <1>0, <1>1, AtDown DEF IInv, TypeOK, Needs
<1>3. CASE tunnel_over(T)
  BY <1>1, <1>3, OverCourse
<1>4. ASSUME NEW u \in Usable,
             tun' = [tun EXCEPT ![t].up = u],
             conn' = [conn EXCEPT
                 ![c] = [timer_del(conn[c], "r") EXCEPT
                           !.h = [d \in Dir |-> "NULL"]],
                 ![u] = [net_alloc(conn[u]) EXCEPT !.data = t,
                           !.h = Both("NULL",
                                      "tunnel_remote_connect_start")]],
             Call("tunnel_remote_connect_start", u)
      PROVE  Course'
  <2>1. u \in Conn /\ u # c /\ conn[u] = FreeConn
    BY <1>2, <1>4 DEF Usable, IInv, Ownership
  <2>2. PICK g \in Handlers : g = "tunnel_remote_connect_start"
    BY DEF Handlers, UpHandlers
  <2>3. PICK i : i = timer_del(conn[c], "r")
    OBVIOUS
  <2>4. /\ i \in Connection /\ i.used = conn[c].used /\ i.data = t
        /\ i.t = [conn[c].t EXCEPT !["r"] = Null]
    BY <1>2, <2>3, TimerDel DEF Dir
  <2>5. PICK k : k = [i EXCEPT !.h = [d \in Dir |-> "NULL"]]
    OBVIOUS
  <2>6. /\ k.used = conn[c].used /\ k.data = t /\ k.t = i.t
        /\ \A d \in Dir : k.h[d] = "NULL"
    BY <2>4, <2>5, Silenced
  <2>7. Both("NULL", g) \in [Dir -> Handlers \cup {"NULL"}]
    BY BothTypes
  <2>8. PICK m, j : /\ m = net_alloc(FreeConn)
                    /\ j = [m EXCEPT !.data = t, !.h = Both("NULL", g)]
    OBVIOUS
  <2>9. m \in Connection /\ m.used /\ m.t = [d \in Dir |-> Null]
    BY <2>8, Allocated
  <2>10. j.used /\ j.data = t /\ j.h = Both("NULL", g) /\ j.t = m.t
    BY <2>7, <2>8, <2>9 DEF Connection
  <2>11. conn' = [conn EXCEPT ![c] = k, ![u] = j]
    BY <1>2, <1>4, <2>1, <2>2, <2>3, <2>5, <2>8
  <2>12. /\ conn'[c] = k /\ conn'[u] = j
         /\ \A y \in Conn \ {c, u} : conn'[y] = conn[y]
    BY <1>2, <2>1, <2>11
  <2>13. /\ tun'[t].down = c /\ tun'[t].resp = tun[t].resp
         /\ tun'[t].respBody = tun[t].respBody
         /\ tun'[t].reqBody = tun[t].reqBody
         /\ \A y \in Tun \ {t} : tun'[y] = tun[y]
    BY <1>2, <1>4 DEF Tunnel
  <2>14. ~tun[t].resp /\ ~tun[t].respBody
    BY <1>2 DEF Ways, OneWay, Course
  <2>15. cur'.h = g /\ cur'.c = u
    BY <1>4, <2>2 DEF Call
  <2>16. OnCourse(c)' /\ Clock(c)'
    <3>1. k.t["r"] = Null /\ \A d \in Dir : k.t[d] \in {Null, conn[c].t[d]}
      BY <1>2, <2>4, <2>6 DEF Connection, Dir
    <3>2. \A h : Due(h, tun[t]) => Due(h, tun'[t])
      BY <2>13 DEF Due
    <3>3. Loose("NULL") /\ Due("NULL", tun'[t])
      BY DEF Loose, Due, Early, Heading, Asking
    <3>4. Mild(c, k, "NULL")
      BY <1>2, <2>1, <2>6, <2>15, <3>1, <3>3 DEF Mild
    <3>5. Goes(c, k, "NULL", tun[t], tun'[t])
      BY <1>2, <2>13, <3>1, <3>2, <3>3 DEF Goes
    <3> QED BY <2>6, <2>12, <3>4, <3>5, MildCourse
  <2>17. OnCourse(u)' /\ Clock(u)'
    <3>1. \A d \in Dir : j.h[d] \in {"NULL", g} /\ j.t[d] = Null
      BY <2>9, <2>10 DEF Both, Dir
    <3>2. Due("NULL", tun'[t]) /\ Due(g, tun'[t])
      BY <2>2, <2>13, <2>14 DEF Due, Heading, Asking, Early
    <3>3. tun'[t].down # u /\ "w" \in Dir
      BY <2>1, <2>13 DEF Dir
    <3> QED BY <2>10, <2>12, <2>15, <3>1, <3>2, <3>3 DEF OnCourse, Clock
  <2>18. \A x \in Conn \ {c, u} : conn[x].data \in (Tun \ {t}) \cup {Null}
    BY <1>2 DEF IInv, Ownership, Connection
  <2>19. \A y \in Tun : tun'[y].respBody => tun'[y].resp
    BY <2>13 DEF Course
  <2>20. Apart({c, u})
    BY <2>12, <2>13, <2>15, <2>18, <2>19 DEF Apart, Alike
  <2>21. \A x \in Conn : x \in {c, u} => OnCourse(x)' /\ Clock(x)'
    BY <2>16, <2>17
  <2> QED BY <2>20, <2>21, CourseFrame
<1> QED
  BY <1>0, <1>1, <1>3, <1>4 DEF tunnel_remote_init, Both

(* tunnel_remote_connect_start.                                            *)
LEMMA ConnectStartCourse ==
  ASSUME IInv, Course, tunnel_remote_connect_start
  PROVE  Course'
<1>0. cur.h = "tunnel_remote_connect_start" /\ cur.h \in UpHandlers
  BY DEF tunnel_remote_connect_start, In, UpHandlers
<1>1. PICK c \in Conn, t \in Tun : c = C /\ t = T
  BY <1>0, AtUp
<1>2. /\ conn[c] \in Connection /\ cur # Return /\ conn[c].data = t
      /\ tun[t].used /\ tun[t].up = c
  BY <1>0, <1>1, AtUp
<1>3. ~tun[t].resp
  BY <1>0, <1>1, <1>2, Ahead DEF Due, Early
<1>4. PICK g \in Handlers : g = "tunnel_remote_connect_check"
  BY DEF Handlers, UpHandlers
<1>5. PICK i : i = [conn[c] EXCEPT !.h["w"] = g]
  OBVIOUS
<1>6. /\ i \in Connection /\ i.used = conn[c].used /\ i.data = t
      /\ i.h = [conn[c].h EXCEPT !["w"] = g] /\ i.t = conn[c].t
  BY <1>2, <1>4, <1>5 DEF Connection
<1>7. PICK k : k = event_opt(i, "w")
  OBVIOUS
<1>8. /\ k \in Connection /\ k.used = conn[c].used /\ k.data = t
      /\ k.h = i.h /\ k.t = conn[c].t
  BY <1>6, <1>7, EventOpt DEF Dir
<1>9. \A d \in Dir : k.h[d] = g \/ k.h[d] = conn[c].h[d]
  BY <1>2, <1>6, <1>8 DEF Connection
<1>10. Due(g, tun[t]) /\ Loose("NULL")
  BY <1>3, <1>4 DEF Due, Loose, Early, Heading, Asking
<1>11. CASE tunnel_over(T)
  BY <1>1, <1>11, OverCourse
<1>12. ASSUME NEW q, q.used = k.used, q.data = k.data, q.h = k.h,
              \A d \in Dir : q.t[d] = k.t[d] \/ May(c, d, q.t[d]),
              SetConn(c, q), tun' = tun,
              cur' = Return \/ Call(g, c)
       PROVE  Course'
  <2>1. (cur'.h = "NULL") \/ (cur'.h = g /\ cur'.c = c)
    BY <1>12 DEF Call, Return
  <2>2. Mild(c, q, g)
    BY <1>2, <1>8, <1>9, <1>10, <1>12, <2>1 DEF Mild
  <2>3. OneMild(c, q, g)
    BY <1>8, <1>10, <1>12, <2>1, <2>2, AllAlike DEF OneMild, SetConn
  <2> QED BY <2>3, OneCourse
<1>13. CASE /\ SetConn(c, timer_add(k, "w", t)) /\ tun' = tun
            /\ cur' = Return
  <2>1. PICK q : q = timer_add(k, "w", t)
    OBVIOUS
  <2>2. May(c, "w", t) /\ t \in Timer
    BY <1>2, MayUp DEF Dir
  <2>3. /\ q.used = k.used /\ q.data = k.data /\ q.h = k.h
        /\ q.t = [k.t EXCEPT !["w"] = t]
    BY <1>8, <2>1, <2>2, TimerAdd DEF Dir
  <2>4. \A d \in Dir : q.t[d] = k.t[d] \/ May(c, d, q.t[d])
    BY <1>8, <2>2, <2>3 DEF Connection
  <2> QED BY <1>12, <1>13, <2>1, <2>3, <2>4
<1>14. CASE /\ SetConn(c, k) /\ tun' = tun /\ Call(g, c)
  BY <1>12, <1>14
<1> QED
  BY <1>0, <1>1, <1>4, <1>5, <1>7, <1>11, <1>13, <1>14
     DEF tunnel_remote_connect_start

(* tunnel_remote_connect_check.                                            *)
LEMMA ConnectCheckCourse ==
  ASSUME IInv, Course, tunnel_remote_connect_check
  PROVE  Course'
<1>0. cur.h = "tunnel_remote_connect_check" /\ cur.h \in UpHandlers
  BY DEF tunnel_remote_connect_check, In, UpHandlers
<1>1. PICK c \in Conn, t \in Tun : c = C /\ t = T
  BY <1>0, AtUp
<1>2. /\ conn[c] \in Connection /\ conn[c].used /\ cur # Return
      /\ conn[c].data = t /\ tun[t].used /\ tun[t].up = c
  BY <1>0, <1>1, AtUp
<1>3. ~tun[t].resp
  BY <1>0, <1>1, <1>2, Ahead DEF Due, Early
<1>4. PICK j : j = timer_del(conn[c], "w")
  OBVIOUS
<1>5. /\ j \in Connection /\ j.used = conn[c].used /\ j.data = t
      /\ \A d \in Dir : j.t[d] \in {Null, conn[c].t[d]}
  BY <1>2, <1>4, Untimed
<1>6. \A h : h \in Early => Due(h, tun[t])
  BY <1>3 DEF Due, Early, Heading, Asking
<1>7. CASE tunnel_over(T)
  BY <1>1, <1>7, OverCourse
<1>8. CASE /\ SetConn(c, [j EXCEPT !.h["w"] = "tunnel_start"])
           /\ tun' = tun /\ Call("tunnel_start", c)
  <2>1. Due("tunnel_start", tun[t])
    BY <1>6 DEF Early
  <2>2. Hands(c, j, "w", "tunnel_start")
    BY <1>2, <1>4, <1>8, <2>1, AllAlike DEF Hands
  <2> QED BY <2>2, HandsCourse DEF Dir
<1>9. ASSUME NEW d \in Dir,
             SetConn(c, [timer_add(ssl_want(j, d), "w", t) EXCEPT
                 !.ssl = "init", !.sslh = "tunnel_remote_handshake_handler"]),
             tun' = tun, cur' = Return
      PROVE  Course'
  <2>1. PICK k : k = Wanting(j, d, "w", t, "tunnel_remote_handshake_handler")
    OBVIOUS
  <2>2. May(c, "w", t) /\ t \in Timer /\ "w" \in Dir
    BY <1>2, MayUp DEF Dir
  <2>3. /\ k.used = j.used /\ k.data = j.data
        /\ \A y \in Dir : k.h[y] \in {"NULL", "ssl_handshake_handler"}
        /\ k.t = [j.t EXCEPT !["w"] = t]
    BY <1>5, <2>1, <2>2, Wants
  <2>4. \A y \in Dir : k.t[y] \in {Null, conn[c].t[y]} \/ May(c, y, k.t[y])
    BY <1>5, <2>2, <2>3 DEF Connection
  <2>5. Shaking(c, k)
    BY <1>2, <1>3, <1>5, <1>9, <2>1, <2>3, <2>4
       DEF Shaking, SetConn, Wanting
  <2> QED BY <2>5, ShakingCourse
<1>10. CASE /\ SetConn(c, [j EXCEPT !.ssl = "handshaked"])
            /\ tun' = tun /\ Call("tunnel_remote_handshake_handler", c)
  <2>1. PICK g : g = "tunnel_remote_handshake_handler"
    OBVIOUS
  <2>2. Due(g, tun[conn[c].data])
    BY <1>2, <1>6, <2>1 DEF Early
  <2> QED BY <1>4, <1>10, <2>1, <2>2, ShookCourse
<1> QED
  BY <1>0, <1>1, <1>4, <1>7, <1>8, <1>9, <1>10
     DEF tunnel_remote_connect_check

(* tunnel_remote_handshake_handler.                                        *)
LEMMA RemoteHandshakeCourse ==
  ASSUME IInv, Course, tunnel_remote_handshake_handler
  PROVE  Course'
<1>0. cur.h = "tunnel_remote_handshake_handler" /\ cur.h \in UpHandlers
  BY DEF tunnel_remote_handshake_handler, In, UpHandlers
<1>1. PICK c \in Conn, t \in Tun : c = C /\ t = T
  BY <1>0, AtUp
<1>2. conn[c] \in Connection /\ conn[c].data = t
  BY <1>0, <1>1, AtUp
<1>3. CASE tunnel_over(T)
  BY <1>1, <1>3, OverCourse
<1>4. CASE /\ SetConn(c, [timer_del(conn[c], "w") EXCEPT
                            !.h = Both("NULL", "https_start")])
           /\ tun' = tun /\ Call("https_start", c)
  <2>1. PICK j : j = timer_del(conn[c], "w")
    OBVIOUS
  <2>2. /\ j \in Connection /\ j.used = conn[c].used /\ j.data = t
        /\ \A d \in Dir : j.t[d] \in {Null, conn[c].t[d]}
    BY <1>2, <2>1, Untimed
  <2>3. PICK k : k = [j EXCEPT !.h = Both("NULL", "https_start")]
    OBVIOUS
  <2>4. /\ k.used = conn[c].used /\ k.data = t /\ k.t = j.t
        /\ k.h = Both("NULL", "https_start")
    BY <2>2, <2>3 DEF Connection
  <2>5. Loose("https_start") /\ \A d \in Dir : Loose(k.h[d])
    BY <2>4 DEF Both, Dir, Loose, Early, Heading, Asking
  <2>6. cur'.h = "https_start" /\ cur'.c = c /\ conn' = [conn EXCEPT ![c] = k]
    BY <1>4, <2>1, <2>3 DEF Call, SetConn
  <2>7. Mild(c, k, "https_start")
    BY <1>2, <2>2, <2>4, <2>5, <2>6 DEF Mild
  <2>8. OneMild(c, k, "https_start")
    BY <1>4, <2>5, <2>6, <2>7, AllAlike, LooseDue DEF OneMild
  <2> QED BY <2>8, OneCourse
<1> QED
  BY <1>1, <1>3, <1>4 DEF tunnel_remote_handshake_handler, Both

-----------------------------------------------------------------------------
(* The handlers that change both connections of their tunnel.              *)

(* The connections c and u of tunnel t become k and j.                     *)
Sided(t, k, j, g) ==
  LET c == tun[t].down
      u == tun[t].up
  IN /\ c \in Conn /\ u \in Conn /\ c # u
     /\ conn' = [conn EXCEPT ![c] = k, ![u] = j]
     /\ Mild(c, k, g) /\ Goes(c, k, g, tun[t], tun'[t])
     /\ Mild(u, j, g) /\ Goes(u, j, g, tun[t], tun'[t])
     /\ \A y \in Tun \ {t} : tun'[y] = tun[y]
     /\ tun'[t].respBody => tun'[t].resp
     /\ cur'.h = "NULL" \/ cur'.c \in {c, u}

(* Such a handler keeps the course.                                        *)
LEMMA SidedCourse ==
  ASSUME IInv, Course, NEW t \in Tun, tun[t].used,
         NEW k, NEW j, NEW g, Sided(t, k, j, g)
  PROVE  Course'
<1>1. PICK c \in Conn, u \in Conn : c = tun[t].down /\ u = tun[t].up
  BY DEF Sided
<1>2. /\ c # u /\ conn[c].data = t /\ conn[u].data = t
      /\ conn \in [Conn -> Connection]
  BY <1>1, BothSides
<1>3. /\ conn'[c] = k /\ conn'[u] = j
      /\ \A x \in Conn \ {c, u} : conn'[x] = conn[x]
  BY <1>1, <1>2 DEF Sided
<1>4. /\ Mild(c, k, g) /\ Goes(c, k, g, tun[t], tun'[t])
      /\ Mild(u, j, g) /\ Goes(u, j, g, tun[t], tun'[t])
  BY <1>1 DEF Sided
<1>5. k.data = t /\ j.data = t
  BY <1>2, <1>4 DEF Mild
<1>6. OnCourse(c)' /\ Clock(c)'
  BY <1>3, <1>4, <1>5, MildCourse
<1>7. OnCourse(u)' /\ Clock(u)'
  BY <1>3, <1>4, <1>5, MildCourse
<1>8. \A x \in Conn \ {c, u} : conn[x].data \in (Tun \ {t}) \cup {Null}
  BY <1>1, NameAssumption DEF IInv, Ownership, TypeOK, Connection
<1>9. \A y \in Tun : tun'[y].respBody => tun'[y].resp
  BY DEF Sided, Course
<1>10. Apart({c, u})
  BY <1>1, <1>3, <1>8, <1>9 DEF Apart, Alike, Sided
<1>11. \A x \in Conn : x \in {c, u} => OnCourse(x)' /\ Clock(x)'
  BY <1>6, <1>7
<1> QED BY <1>10, <1>11, CourseFrame

(* A tunnel that Course does not tell apart from before goes on.           *)
LEMMA SameGoes ==
  ASSUME NEW c, NEW k, NEW g, NEW z, NEW y, Same(z, y), Due(g, z)
  PROVE  Goes(c, k, g, z, y)
<1>1. \A h : Due(h, z) => Due(h, y)
  BY DEF Same, Due
<1> QED BY <1>1 DEF Goes, Same

(* A connection of which only the write event's handler changes, and what  *)
(* is registered.                                                          *)
LEMMA OptMild ==
  ASSUME NEW c \in Conn, conn[c] \in Connection, NEW h \in Handlers, NEW k,
         k = event_opt([conn[c] EXCEPT !.h["w"] = h], "w"), NEW g,
         Loose(h) \/ h = g, cur'.c = c => Loose(cur'.h) \/ cur'.h = g
  PROVE  Mild(c, k, g)
<1>1. PICK i : i = [conn[c] EXCEPT !.h["w"] = h]
  OBVIOUS
<1>2. /\ i \in Connection /\ i.used = conn[c].used /\ i.data = conn[c].data
      /\ i.h = [conn[c].h EXCEPT !["w"] = h] /\ i.t = conn[c].t
  BY <1>1 DEF Connection
<1>3. /\ k.used = i.used /\ k.data = i.data /\ k.h = i.h /\ k.t = i.t
  BY <1>1, <1>2, EventOpt DEF Dir
<1>4. \A d \in Dir : k.h[d] = h \/ k.h[d] = conn[c].h[d]
  BY <1>2, <1>3 DEF Connection
<1> QED BY <1>2, <1>3, <1>4 DEF Mild

(* A connection whose handlers are taken off.                              *)
LEMMA SilentMild ==
  ASSUME NEW c \in Conn, conn[c] \in Connection, NEW j,
         j = conn[c] \/ j = timer_del(conn[c], "r"), NEW k,
         k = [j EXCEPT !.h = [d \in Dir |-> "NULL"]], NEW g,
         cur'.c = c => Loose(cur'.h) \/ cur'.h = g
  PROVE  Mild(c, k, g)
<1>1. /\ j \in Connection /\ j.used = conn[c].used /\ j.data = conn[c].data
      /\ \A d \in Dir : j.t[d] \in {Null, conn[c].t[d]}
  BY Untimed
<1>2. /\ k.used = j.used /\ k.data = j.data /\ k.t = j.t
      /\ \A d \in Dir : k.h[d] = "NULL"
  BY <1>1, Silenced
<1>3. Loose("NULL")
  BY DEF Loose, Early, Heading, Asking
<1> QED BY <1>1, <1>2, <1>3 DEF Mild

(* tunnel_start.                                                           *)
LEMMA StartCourse ==
  ASSUME IInv, Course, tunnel_start
  PROVE  Course'
<1>0. cur.h = "tunnel_start" /\ cur.h \in UpHandlers
  BY DEF tunnel_start, In, UpHandlers
<1>1. PICK u \in Conn, t \in Tun, c \in Conn :
        u = C /\ t = T /\ c = tun[t].down
  BY <1>0, AtUp, Owned
<1>2. tun[t].up = u /\ tun[t].used /\ tun' = tun /\ cur # Return
  BY <1>0, <1>1, AtUp DEF tunnel_start, T, C
<1>3. /\ c # u /\ conn[c] \in Connection /\ conn[u] \in Connection
      /\ conn \in [Conn -> Connection]
  BY <1>1, <1>2, BothSides
<1>4. ~tun[t].resp
  BY <1>0, <1>1, <1>2, Ahead DEF Due, Early
<1>5. /\ Same(tun[t], tun'[t]) /\ \A y \in Tun \ {t} : tun'[y] = tun[y]
      /\ tun'[t].respBody => tun'[t].resp
  BY <1>2 DEF Same, Course
<1>6. CASE /\ conn' = [conn EXCEPT
                  ![c].h = [d \in Dir |-> "NULL"],
                  ![u].h = Both("NULL", "http_remote_send")]
           /\ Call("http_remote_send", u)
  <2>1. PICK g \in Handlers : g = "http_remote_send"
    BY DEF Handlers, UpHandlers
  <2>2. PICK k : k = [conn[c] EXCEPT !.h = [d \in Dir |-> "NULL"]]
    OBVIOUS
  <2>3. PICK j : j = [conn[u] EXCEPT !.h = Both("NULL", g)]
    OBVIOUS
  <2>4. conn' = [conn EXCEPT ![c] = k, ![u] = j]
    BY <1>3, <1>6, <2>1, <2>2, <2>3
  <2>5. cur'.h = g /\ cur'.c = u
    BY <1>6, <2>1 DEF Call
  <2>6. Mild(c, k, g)
    BY <1>3, <2>2, <2>5, SilentMild
  <2>7. Both("NULL", g) \in [Dir -> Handlers \cup {"NULL"}]
    BY BothTypes
  <2>8. /\ j.used = conn[u].used /\ j.data = conn[u].data
        /\ j.h = Both("NULL", g) /\ j.t = conn[u].t
    BY <1>3, <2>3, <2>7 DEF Connection
  <2>9. Loose("NULL") /\ \A d \in Dir : j.h[d] = "NULL" \/ j.h[d] = g
    BY <2>8 DEF Both, Dir, Loose, Early, Heading, Asking
  <2>10. Mild(u, j, g)
    BY <2>5, <2>8, <2>9 DEF Mild
  <2>11. Due(g, tun[t])
    BY <1>4, <2>1 DEF Due, Heading, Asking
  <2>12. Goes(c, k, g, tun[t], tun'[t]) /\ Goes(u, j, g, tun[t], tun'[t])
    BY <1>5, <2>11, SameGoes
  <2>13. Sided(t, k, j, g)
    BY <1>1, <1>2, <1>3, <1>5, <2>4, <2>5, <2>6, <2>10, <2>12 DEF Sided
  <2> QED BY <1>2, <2>13, SidedCourse
<1>7. CASE /\ conn' = [conn EXCEPT
                  ![c] = event_opt([@ EXCEPT !.h["w"] = "https_connected"],
                                   "w"),
                  ![u].h = [d \in Dir |-> "NULL"]]
           /\ Call("https_connected", c)
  <2>1. PICK g \in Handlers : g = "https_connected"
    BY DEF Handlers, DownHandlers
  <2>2. PICK k : k = event_opt([conn[c] EXCEPT !.h["w"] = g], "w")
    OBVIOUS
  <2>3. PICK j : j = [conn[u] EXCEPT !.h = [d \in Dir |-> "NULL"]]
    OBVIOUS
  <2>4. conn' = [conn EXCEPT ![c] = k, ![u] = j]
    BY <1>3, <1>7, <2>1, <2>2, <2>3
  <2>5. cur'.h = g /\ cur'.c = c
    BY <1>7, <2>1 DEF Call
  <2>6. Mild(c, k, g)
    BY <1>3, <2>2, <2>5, OptMild
  <2>7. Mild(u, j, g)
    BY <1>3, <2>3, <2>5, SilentMild
  <2>8. Due(g, tun[t])
    BY <2>1 DEF Due, Heading, Asking, Early
  <2>9. Goes(c, k, g, tun[t], tun'[t]) /\ Goes(u, j, g, tun[t], tun'[t])
    BY <1>5, <2>8, SameGoes
  <2>10. Sided(t, k, j, g)
    BY <1>1, <1>2, <1>3, <1>5, <2>4, <2>5, <2>6, <2>7, <2>9 DEF Sided
  <2> QED BY <1>2, <2>10, SidedCourse
<1> QED
  BY <1>0, <1>1, <1>6, <1>7 DEF tunnel_start, Both

(* https_connected, before which no answer was received.                   *)
LEMMA HttpsConnectedCourse ==
  ASSUME IInv, Ways, Course, https_connected
  PROVE  Course'
<1>0. cur.h = "https_connected" /\ cur.h \in DownHandlers
  BY DEF https_connected, In, DownHandlers
<1>1. PICK c \in Conn, t \in Tun : c = C /\ t = T
  BY <1>0, AtDown
<1>2. /\ cur # Return /\ conn[c].data = t /\ tun[t].used
      /\ tun[t].down = c /\ Way("https_connected", c)
  BY <1>0, <1>1, AtDown DEF Ways, Idle, C
<1>3. ~tun[t].respBody
  BY <1>2 DEF Way, Relayed, Ways, OneWay, Course
<1>4. CASE tunnel_over(T)
  BY <1>1, <1>4, OverCourse
<1>5. CASE Await(C, "w")
  BY <1>1, <1>2, <1>3, <1>5, MayDown, AwaitsCourse DEF Dir
<1>6. CASE /\ SetConn(c, [timer_del(conn[c], "w") EXCEPT
                            !.h["r"] = "https_start"])
           /\ tun' = tun /\ Call("https_start", c)
  <2>1. PICK j : j = timer_del(conn[c], "w")
    OBVIOUS
  <2>2. Due("https_start", tun[t])
    BY DEF Due, Early, Heading, Asking
  <2>3. Hands(c, j, "r", "https_start")
    BY <1>2, <1>6, <2>1, <2>2, AllAlike DEF Hands
  <2> QED BY <2>3, HandsCourse DEF Dir
<1> QED
  BY <1>1, <1>4, <1>5, <1>6 DEF https_connected

(* https_start.                                                            *)
LEMMA HttpsStartCourse ==
  ASSUME IInv, Course, https_start
  PROVE  Course'
<1>0. cur.h = "https_start" /\ cur # Return
  BY DEF https_start, In, Return
<1>1. PICK t \in Tun : t = T /\ tun[t].used /\ tun[t].up \in Conn
  BY <1>0, AtWork, NameAssumption DEF Needs, T, C
<1>2. PICK c \in Conn, u \in Conn : c = tun[t].down /\ u = tun[t].up
  BY <1>1, Owned
<1>3. /\ c # u /\ conn[c] \in Connection /\ conn[u] \in Connection
      /\ conn \in [Conn -> Connection] /\ tun[t] \in Tunnel
  BY <1>1, <1>2, BothSides, Owned
<1>4. CASE tunnel_over(T)
  BY <1>1, <1>4, OverCourse
<1>5. CASE /\ tun' = [tun EXCEPT ![t].relay = TRUE]
           /\ conn' = [conn EXCEPT
                  ![c] = RelayConn(@, "tunnel_transport_in_recv",
                                      "tunnel_transport_out_send"),
                  ![u] = RelayConn(@, "tunnel_transport_out_recv",
                                      "tunnel_transport_in_send")]
           /\ cur' = Return
  <2>1. PICK a \in Handlers, b \in Handlers, p \in Handlers, q \in Handlers :
          /\ a = "tunnel_transport_in_recv" /\ b = "tunnel_transport_out_send"
          /\ p = "tunnel_transport_out_recv" /\ q = "tunnel_transport_in_send"
    BY DEF Handlers, UpHandlers, DownHandlers
  <2>2. PICK k, j : /\ k = RelayConn(conn[c], a, b)
                    /\ j = RelayConn(conn[u], p, q)
    OBVIOUS
  <2>3. conn' = [conn EXCEPT ![c] = k, ![u] = j]
    BY <1>3, <1>5, <2>1, <2>2
  <2>4. /\ k.used = conn[c].used /\ k.data = conn[c].data
        /\ k.t = conn[c].t /\ k.h = Both(a, b)
    BY <1>3, <2>2, RelayConnKeeps, ZenonT(60)
  <2>5. /\ j.used = conn[u].used /\ j.data = conn[u].data
        /\ j.t = conn[u].t /\ j.h = Both(p, q)
    BY <1>3, <2>2, RelayConnKeeps, ZenonT(60)
  <2>6. Loose(a) /\ Loose(b) /\ Loose(p) /\ Loose(q) /\ Loose("NULL")
    BY <2>1 DEF Loose, Early, Heading, Asking
  <2>7. cur'.h = "NULL"
    BY <1>5 DEF Return
  <2>8. Mild(c, k, "NULL") /\ Mild(u, j, "NULL")
    BY <2>4, <2>5, <2>6, <2>7 DEF Mild, Both, Dir
  <2>9. PICK x : x = [tun[t] EXCEPT !.relay = TRUE]
    OBVIOUS
  <2>10. /\ x.down = tun[t].down /\ x.up = tun[t].up /\ x.relay
         /\ x.reqBody = tun[t].reqBody /\ x.resp = tun[t].resp
         /\ x.respBody = tun[t].respBody
    BY <1>3, <2>9 DEF Tunnel
  <2>11. tun'[t] = x /\ \A y \in Tun \ {t} : tun'[y] = tun[y]
    BY <1>5, <2>9 DEF IInv, TypeOK
  <2>12. \A h : Due(h, tun[t]) => Due(h, x)
    BY <2>10 DEF Due
  <2>13. Goes(c, k, "NULL", tun[t], x) /\ Goes(u, j, "NULL", tun[t], x)
    BY <2>6, <2>10, <2>12, LooseDue DEF Goes
  <2>14. x.respBody => x.resp
    BY <2>10 DEF Course
  <2>15. Sided(t, k, j, "NULL")
    BY <1>2, <1>3, <2>3, <2>7, <2>8, <2>11, <2>13, <2>14 DEF Sided
  <2> QED BY <1>1, <2>15, SidedCourse
<1> QED
  BY <1>0, <1>1, <1>2, <1>4, <1>5 DEF https_start

(* tunnel_transport_in and tunnel_transport_out: the relay is there.       *)
LEMMA TransportsCourse ==
  ASSUME IInv, Course, tunnel_transport_in \/ tunnel_transport_out
  PROVE  Course'
<1>0. cur.h \in {"tunnel_transport_in_recv", "tunnel_transport_in_send",
                 "tunnel_transport_out_recv", "tunnel_transport_out_send"}
  BY DEF tunnel_transport_in, tunnel_transport_out
<1>1. PICK t \in Tun : t = T /\ tun[t].used
  BY <1>0, AtDown, AtUp DEF DownHandlers, UpHandlers
<1>2. tun[t].up \in Conn /\ tun[t].relay
  <2>1. CASE cur.h \in DownHandlers
    BY <1>0, <1>1, <2>1, AtDown DEF Needs, T, C, DownHandlers
  <2>2. CASE cur.h \in UpHandlers
    BY <1>0, <1>1, <2>2, AtUp DEF Needs, T, C, UpHandlers
  <2> QED
    BY <1>0, <2>1, <2>2 DEF DownHandlers, UpHandlers
<1>3. CASE tunnel_over(T)
  BY <1>1, <1>3, OverCourse
<1>4. CASE Await(tun[T].up, "r")
  BY <1>1, <1>2, <1>4, MayUp, AwaitsCourse DEF Dir
<1>5. CASE Await(tun[T].down, "r")
  BY <1>1, <1>2, <1>5, MayDown, AwaitsCourse DEF Dir
<1> QED
  BY <1>3, <1>4, <1>5 DEF tunnel_transport_in, tunnel_transport_out

-----------------------------------------------------------------------------
(* The answer.                                                             *)

(* Each side is left to its own handlers.                                  *)
LEMMA OwnHandlers ==
  ASSUME IInv, NEW t \in Tun, tun[t].used, tun[t].up \in Conn, NEW d \in Dir,
         NEW c, c = tun[t].down, NEW u, u = tun[t].up
  PROVE  /\ conn[c].h[d] \notin UpHandlers \cup {"ssl_handshake_handler"}
         /\ conn[u].h[d] \notin DownHandlers
<1>1. /\ c \in Conn /\ u \in Conn /\ c # u
      /\ conn[c].data = t /\ conn[u].data = t
  BY BothSides
<1>2. SafeEvents(c) /\ SafeEvents(u)
  BY <1>1 DEF IInv, NoWildHandler
<1>3. \A h \in UpHandlers \cup DownHandlers \cup {"ssl_handshake_handler"} :
        h # "NULL"
  BY DEF UpHandlers, DownHandlers
<1>4. conn[c].h[d] \notin UpHandlers \cup {"ssl_handshake_handler"}
  BY <1>1, <1>2, <1>3, NameAssumption, SMTT(60) DEF SafeEvents, Needs
<1>5. conn[u].h[d] \notin DownHandlers
  BY <1>1, <1>2, <1>3 DEF SafeEvents, Needs
<1> QED BY <1>4, <1>5

(* http_remote_send: the answer begins.                                    *)
LEMMA RemoteSendCourse ==
  ASSUME IInv, Course, http_remote_send
  PROVE  Course'
<1>0. cur.h = "http_remote_send" /\ cur.h \in UpHandlers
  BY DEF http_remote_send, In, UpHandlers
<1>1. PICK u \in Conn, t \in Tun, c \in Conn :
        u = C /\ t = T /\ c = tun[t].down
  BY <1>0, AtUp, Owned
<1>2. /\ tun[t].up = u /\ tun[t].used /\ tun[t] \in Tunnel /\ cur # Return
  BY <1>0, <1>1, AtUp
<1>3. /\ c # u /\ conn[c] \in Connection /\ conn[u] \in Connection
      /\ conn \in [Conn -> Connection]
  BY <1>1, <1>2, BothSides
<1>4. ~tun[t].resp /\ ~tun[t].respBody
  BY <1>0, <1>1, <1>2, Ahead DEF Due, Early, Course
<1>5. CASE tunnel_over(T)
  BY <1>1, <1>5, OverCourse
<1>6. CASE Await(C, "w")
  BY <1>1, <1>2, <1>6, MayUp, AwaitsCourse DEF Dir
<1>7. CASE /\ SetConn(u, event_opt([timer_del(conn[u], "w") EXCEPT
                  !.h = Both("http_remote_recv_header", "NULL")], "r"))
           /\ tun' = [tun EXCEPT ![t].resp = TRUE]
           /\ Call("http_remote_recv_header", u)
  <2>1. PICK g \in Handlers : g = "http_remote_recv_header"
    BY DEF Handlers, UpHandlers
  <2>2. PICK i : i = timer_del(conn[u], "w")
    OBVIOUS
  <2>3. /\ i \in Connection /\ i.used = conn[u].used /\ i.data = conn[u].data
        /\ \A d \in Dir : i.t[d] \in {Null, conn[u].t[d]}
    BY <1>3, <2>2, Untimed
  <2>4. PICK m : m = [i EXCEPT !.h = Both(g, "NULL")]
    OBVIOUS
  <2>5. Both(g, "NULL") \in [Dir -> Handlers \cup {"NULL"}]
    BY BothTypes
  <2>6. /\ m \in Connection /\ m.used = i.used /\ m.data = i.data
        /\ m.h = Both(g, "NULL") /\ m.t = i.t
    BY <2>3, <2>4, <2>5 DEF Connection
  <2>7. PICK j : j = event_opt(m, "r")
    OBVIOUS
  <2>8. j.used = m.used /\ j.data = m.data /\ j.h = m.h /\ j.t = m.t
    BY <2>6, <2>7, EventOpt DEF Dir
  <2>9. PICK k : k = conn[c]
    OBVIOUS
  <2>10. conn' = [conn EXCEPT ![c] = k, ![u] = j]
    BY <1>3, <1>7, <2>1, <2>2, <2>4, <2>7, <2>9 DEF SetConn
  <2>11. cur'.h = g /\ cur'.c = u
    BY <1>7, <2>1 DEF Call
  <2>12. Loose("NULL") /\ \A d \in Dir : j.h[d] = "NULL" \/ j.h[d] = g
    BY <2>6, <2>8 DEF Both, Dir, Loose, Early, Heading, Asking
  <2>13. Mild(u, j, g)
    BY <2>3, <2>6, <2>8, <2>11, <2>12 DEF Mild
  <2>14. Mild(c, k, g)
    BY <1>3, <2>9, <2>11 DEF Mild
  <2>15. PICK y : y = [tun[t] EXCEPT !.resp = TRUE]
    OBVIOUS
  <2>16. /\ y.down = tun[t].down /\ y.up = tun[t].up
         /\ y.relay = tun[t].relay /\ y.reqBody = tun[t].reqBody
         /\ y.resp /\ y.respBody = tun[t].respBody
    BY <1>2, <2>15 DEF Tunnel
  <2>17. tun'[t] = y /\ \A x \in Tun \ {t} : tun'[x] = tun[x]
    BY <1>7, <2>15 DEF IInv, TypeOK
  <2>18. Due(g, y)
    BY <1>4, <2>1, <2>16 DEF Due, Early, Asking
  <2>19. \A h : h \notin Early /\ Due(h, tun[t]) => Due(h, y)
    BY <2>16 DEF Due
  <2>20. \A d \in Dir : k.h[d] \notin Early
    BY <1>1, <1>2, <2>9, OwnHandlers DEF Early, UpHandlers
  <2>21. Goes(c, k, g, tun[t], y)
    BY <2>16, <2>18, <2>19, <2>20 DEF Goes
  <2>22. Goes(u, j, g, tun[t], y)
    BY <2>12, <2>16, <2>18, LooseDue DEF Goes
  <2>23. Sided(t, k, j, g)
    BY <1>1, <1>2, <1>3, <2>10, <2>11, <2>13, <2>14, <2>16, <2>17, <2>21,
       <2>22 DEF Sided
  <2> QED BY <1>2, <2>23, SidedCourse
<1> QED
  BY <1>0, <1>1, <1>5, <1>6, <1>7 DEF http_remote_send, Both

(* http_remote_recv_header.                                                *)
LEMMA RecvHeaderCourse ==
  ASSUME IInv, Course, http_remote_recv_header
  PROVE  Course'
<1>0. cur.h = "http_remote_recv_header" /\ cur.h \in UpHandlers
  BY DEF http_remote_recv_header, In, UpHandlers
<1>1. PICK u \in Conn, t \in Tun, c \in Conn :
        u = C /\ t = T /\ c = tun[t].down
  BY <1>0, AtUp, Owned
<1>2. tun[t].up = u /\ tun[t].used /\ tun[t] \in Tunnel /\ cur # Return
  BY <1>0, <1>1, AtUp
<1>3. /\ c # u /\ conn[c] \in Connection /\ conn[u] \in Connection
      /\ conn \in [Conn -> Connection]
  BY <1>1, <1>2, BothSides
<1>4. ~tun[t].respBody
  BY <1>0, <1>1, <1>2, Ahead DEF Due, Heading
<1>5. CASE tunnel_over(T)
  BY <1>1, <1>5, OverCourse
<1>6. CASE Await(C, "r")
  BY <1>1, <1>2, <1>6, MayUp, AwaitsCourse DEF Dir
<1>7. ASSUME NEW rbody \in BOOLEAN,
             tun' = [tun EXCEPT ![t].rbody = rbody],
             conn' = [conn EXCEPT
                  ![u] = [timer_del(@, "r") EXCEPT
                            !.h = [d \in Dir |-> "NULL"]],
                  ![c] = event_opt([@ EXCEPT
                            !.h["w"] = "http_local_send_header"], "w")],
             Call("http_local_send_header", c)
      PROVE  Course'
  <2>1. PICK g \in Handlers : g = "http_local_send_header"
    BY DEF Handlers, DownHandlers
  <2>2. PICK k : k = event_opt([conn[c] EXCEPT !.h["w"] = g], "w")
    OBVIOUS
  <2>3. PICK i : i = timer_del(conn[u], "r")
    OBVIOUS
  <2>4. PICK j : j = [i EXCEPT !.h = [d \in Dir |-> "NULL"]]
    OBVIOUS
  <2>5. conn' = [conn EXCEPT ![c] = k, ![u] = j]
    BY <1>3, <1>7, <2>1, <2>2, <2>3, <2>4
  <2>6. cur'.h = g /\ cur'.c = c
    BY <1>7, <2>1 DEF Call
  <2>7. Mild(c, k, g)
    BY <1>3, <2>2, <2>6, OptMild
  <2>8. Mild(u, j, g)
    BY <1>3, <2>3, <2>4, <2>6, SilentMild
  <2>9. PICK y : y = [tun[t] EXCEPT !.rbody = rbody]
    OBVIOUS
  <2>10. Same(tun[t], y)
    BY <1>2, <2>9 DEF Tunnel, Same
  <2>11. tun'[t] = y /\ \A x \in Tun \ {t} : tun'[x] = tun[x]
    BY <1>7, <2>9 DEF IInv, TypeOK
  <2>12. Due(g, tun[t])
    BY <1>4, <2>1 DEF Due, Early, Asking
  <2>13. Goes(c, k, g, tun[t], y) /\ Goes(u, j, g, tun[t], y)
    BY <2>10, <2>12, SameGoes
  <2>14. y.respBody => y.resp
    BY <2>10 DEF Same, Course
  <2>15. Sided(t, k, j, g)
    BY <1>1, <1>2, <1>3, <2>5, <2>6, <2>7, <2>8, <2>11, <2>13, <2>14
       DEF Sided
  <2> QED BY <1>2, <2>15, SidedCourse
<1> QED
  BY <1>0, <1>1, <1>5, <1>6, <1>7 DEF http_remote_recv_header

(* tunnel_process_finish, when the downstream has no timer: the request of *)
(* the next tunnel starts with none.                                       *)
LEMMA FinishCourse ==
  ASSUME IInv, Course, NEW t \in Tun, tun[t].used, tun[t].up \in Conn,
         NEW c, c = tun[t].down, NEW u, u = tun[t].up,
         NEW cs \in [Conn -> Connection],
         \A y \in Conn \ {c, u} : cs[y] = conn[y],
         \A d \in Dir : cs[c].t[d] = Null,
         tunnel_process_finish(t, cs)
  PROVE  Course'
<1> DEFINE closed == [tun EXCEPT ![t] = FreeTun]
           over == [y \in Conn |-> IF y \in {c, u} THEN net_free(cs[y])
                                   ELSE cs[y]]
<1>1. /\ c \in Conn /\ u \in Conn /\ c # u
      /\ conn \in [Conn -> Connection] /\ tun \in [Tun -> Tunnel]
      /\ conn[c].data = t /\ conn[u].data = t
  BY BothSides DEF IInv, TypeOK
<1>2. CASE conn' = over /\ tun' = closed /\ cur' = Return
  <2>1. Ends(t)
    BY <1>1, <1>2 DEF Ends, net_free
  <2> QED BY <2>1, EndCourse
<1>3. ASSUME NEW n \in Tun, ~closed[n].used,
             tun' = [closed EXCEPT ![n].used = TRUE, ![n].down = c,
                                   ![n].req = TRUE],
             conn' = [cs EXCEPT
                 ![u] = net_free(@), ![c].data = n,
                 ![c].h = Both("tunnel_local_process_request", "NULL")],
             Call("tunnel_local_process_request", c)
      PROVE  Course'
  <2>1. closed \in [Tun -> Tunnel] /\ closed[t] = FreeTun
        /\ \A y \in Tun \ {t} : closed[y] = tun[y]
    BY <1>1, FreeTypes
  <2>2. (n = t \/ ~tun[n].used) /\ closed[n] = FreeTun
    BY <1>3, <2>1 DEF IInv, Ownership
  <2> HIDE DEF closed, over
  <2>3. /\ ~tun'[n].resp /\ ~tun'[n].respBody /\ ~tun'[n].reqBody
        /\ tun'[n].up = Null
        /\ \A y \in Tun \ {n} : tun'[y] = closed[y]
    BY <1>3, <2>1, <2>2, SMTT(60) DEF Tunnel, FreeTun
  <2>4. tun'[t].respBody => tun'[t].resp
    BY <2>1, <2>3 DEF FreeTun
  <2>5. PICK g \in Handlers : g = "tunnel_local_process_request"
    BY DEF Handlers, DownHandlers
  <2>6. Both(g, "NULL") \in [Dir -> Handlers \cup {"NULL"}]
    BY BothTypes
  <2>7. PICK i \in Connection : i = cs[c]
    BY <1>1
  <2>8. PICK k : k = [i EXCEPT !.data = n, !.h = Both(g, "NULL")]
    OBVIOUS
  <2>9. k.data = n /\ k.h = Both(g, "NULL") /\ k.t = i.t
    BY <2>6, <2>7, <2>8 DEF Connection
  <2>10. conn' = [cs EXCEPT ![u] = FreeConn, ![c] = k]
    BY <1>1, <1>3, <2>5, <2>7, <2>8 DEF net_free
  <2>11. /\ conn'[c] = k /\ conn'[u] = FreeConn
         /\ \A y \in Conn \ {c, u} : conn'[y] = conn[y]
    BY <1>1, <2>10
  <2>12. cur'.c = c
    BY <1>3 DEF Call
  <2>13. OnCourse(c)' /\ Clock(c)'
    <3>1. \A h : Due(h, tun'[n])
      BY <2>3 DEF Due
    <3>2. \A d \in Dir : k.t[d] = Null
      BY <2>7, <2>9
    <3>3. n # Null /\ "r" \in Dir /\ "w" \in Dir
      BY NameAssumption DEF Dir
    <3> QED BY <2>9, <2>11, <3>1, <3>2, <3>3 DEF OnCourse, Clock
  <2>14. OnCourse(u)' /\ Clock(u)'
    BY <2>11, FreeCourse
  <2>15. \A y \in Conn : conn[y].data = t => y \in {c, u}
    BY NameAssumption DEF IInv, Ownership
  <2>16. \A y \in Conn \ {c, u} : conn[y].data \in (Tun \ {t, n}) \cup {Null}
    BY <1>1, <2>2, <2>15 DEF IInv, Ownership, Connection
  <2>17. \A y \in Tun \ {t, n} : tun'[y] = tun[y]
    BY <2>1, <2>3
  <2>18. \A y \in Tun : tun'[y].respBody => tun'[y].resp
    BY <2>3, <2>4, <2>17 DEF Course
  <2>19. Apart({c, u})
    BY <2>11, <2>12, <2>16, <2>17, <2>18 DEF Apart, Alike
  <2>20. \A x \in Conn : x \in {c, u} => OnCourse(x)' /\ Clock(x)'
    BY <2>13, <2>14
  <2> QED BY <2>19, <2>20, CourseFrame
<1> QED
  BY <1>2, <1>3 DEF tunnel_process_finish, Both

(* The downstream read timer is off while the upstream answers.            *)
LEMMA NoReadTimer ==
  ASSUME IInv, Ways, Course, NEW t \in Tun, tun[t].used, tun[t].up \in Conn,
         tun[t].resp, NEW c, c = tun[t].down
  PROVE  conn[c].t["r"] = Null /\ (tun[t].respBody => conn[c].t["w"] = Null)
<1>1. ~tun[t].relay
  BY DEF Ways, OneWay
<1>2. c \in Conn /\ conn[c].data = t /\ Clock(c)
  BY Owned DEF Course
<1> QED BY <1>1, <1>2, NameAssumption DEF Clock

(* http_local_send_header: the answer's body begins.                       *)
LEMMA SendHeaderCourse ==
  ASSUME IInv, Ways, Course, http_local_send_header
  PROVE  Course'
<1>0. cur.h = "http_local_send_header" /\ cur.h \in DownHandlers
  BY DEF http_local_send_header, In, DownHandlers
<1>1. PICK c \in Conn, t \in Tun : c = C /\ t = T
  BY <1>0, AtDown
<1>2. /\ tun[t].used /\ tun[t].resp /\ tun[t].down = c
      /\ tun[t].up \in Conn /\ tun[t] \in Tunnel /\ cur # Return
  BY <1>0, <1>1, AtDown DEF Needs
<1>3. PICK u \in Conn : u = tun[t].up
  BY <1>2
<1>4. /\ c # u /\ conn[c] \in Connection /\ conn[u] \in Connection
      /\ conn \in [Conn -> Connection] /\ Sides(conn[c]) /\ Sides(conn[u])
  BY <1>2, <1>3, BothSides
<1>5. ~tun[t].respBody /\ conn[c].t["r"] = Null
  BY <1>0, <1>1, <1>2, Ahead, NoReadTimer DEF Due, Heading
<1>6. PICK i : i = timer_del(conn[c], "w")
  OBVIOUS
<1>7. /\ i \in Connection /\ i.used = conn[c].used /\ i.data = conn[c].data
      /\ i.h = conn[c].h /\ \A d \in Dir : i.t[d] = Null
  <2>1. /\ i \in Connection /\ i.used = conn[c].used /\ i.data = conn[c].data
        /\ i.h = conn[c].h /\ i.t = [conn[c].t EXCEPT !["w"] = Null]
    BY <1>4, <1>6, TimerDel DEF Dir
  <2> QED BY <1>4, <1>5, <2>1 DEF Connection, Dir
<1>8. PICK sent \in [Conn -> Connection] : sent = [conn EXCEPT ![c] = i]
  BY <1>4, <1>7
<1>9. /\ sent = [conn EXCEPT ![c] = timer_del(@, "w")] /\ sent[c] = i
      /\ \A y \in Conn \ {c, u} : sent[y] = conn[y]
  BY <1>4, <1>6, <1>8
<1>10. CASE tunnel_over(T)
  BY <1>1, <1>10, OverCourse
<1>11. CASE Await(C, "w")
  BY <1>1, <1>2, <1>5, <1>11, MayDown, AwaitsCourse DEF Dir
<1>12. CASE tunnel_process_finish(t, sent)
  <2>1. \A d \in Dir : sent[c].t[d] = Null
    BY <1>7, <1>9
  <2>2. \A y \in Conn \ {c, u} : sent[y] = conn[y]
    BY <1>9
  <2> QED BY <1>2, <1>3, <1>12, <2>1, <2>2, FinishCourse
<1>13. CASE /\ tun' = [tun EXCEPT ![t].respBody = TRUE]
            /\ conn' = [sent EXCEPT ![c].h["w"] = "http_local_send_body",
                                    ![u].h["r"] = "http_remote_recv_body"]
            /\ Call("http_remote_recv_body", u)
  <2>1. PICK k : k = [i EXCEPT !.h["w"] = "http_local_send_body"]
    OBVIOUS
  <2>2. /\ k.used = conn[c].used /\ k.data = conn[c].data /\ k.t = i.t
        /\ k.h = [conn[c].h EXCEPT !["w"] = "http_local_send_body"]
    BY <1>7, <2>1 DEF Connection
  <2>3. PICK g : g = "http_remote_recv_body"
    OBVIOUS
  <2>4. PICK j : j = [conn[u] EXCEPT !.h["r"] = g]
    OBVIOUS
  <2>5. /\ j.used = conn[u].used /\ j.data = conn[u].data /\ j.t = conn[u].t
        /\ j.h = [conn[u].h EXCEPT !["r"] = g]
    BY <1>4, <2>4 DEF Connection
  <2>6. conn' = [conn EXCEPT ![c] = k, ![u] = j]
    BY <1>4, <1>8, <1>9, <1>13, <2>1, <2>3, <2>4
  <2>7. cur'.h = g /\ cur'.c = u
    BY <1>13, <2>3 DEF Call
  <2>8. Loose("http_local_send_body") /\ Loose(g)
    BY <2>3 DEF Loose, Early, Heading, Asking
  <2>9. /\ k.h["w"] = "http_local_send_body" /\ k.h["r"] = conn[c].h["r"]
        /\ j.h["r"] = g /\ j.h["w"] = conn[u].h["w"]
    BY <1>4, <2>2, <2>5 DEF Connection, Dir
  <2>10. Mild(c, k, g) /\ Mild(u, j, g)
    BY <1>4, <1>7, <2>2, <2>5, <2>7, <2>8, <2>9 DEF Mild, Dir
  <2>11. PICK y : y = [tun[t] EXCEPT !.respBody = TRUE]
    OBVIOUS
  <2>12. /\ y.down = tun[t].down /\ y.up = tun[t].up
         /\ y.relay = tun[t].relay /\ y.reqBody = tun[t].reqBody
         /\ y.resp = tun[t].resp /\ y.respBody
    BY <1>2, <2>11 DEF Tunnel
  <2>13. tun'[t] = y /\ \A x \in Tun \ {t} : tun'[x] = tun[x]
    BY <1>13, <2>11 DEF IInv, TypeOK
  <2>14. \A h : h \notin Heading /\ Due(h, tun[t]) => Due(h, y)
    BY <2>12 DEF Due
  <2>15. \A d \in Dir : k.h[d] \notin Heading /\ j.h[d] \notin Heading
    <3>1. conn[c].h["r"] \notin Heading
      <4>1. "http_remote_recv_header" \in UpHandlers /\ "r" \in Dir
        BY DEF UpHandlers, Dir
      <4>2. conn[c].h["r"] # "http_remote_recv_header"
        BY <1>2, <1>3, <4>1, OwnHandlers
      <4>3. conn[c].h["r"] # "http_local_send_header"
        BY <1>4 DEF Sides, ReadHandlers
      <4> QED BY <4>2, <4>3 DEF Heading
    <3>2. conn[u].h["w"] \notin Heading
      <4>1. "http_local_send_header" \in DownHandlers /\ "w" \in Dir
        BY DEF DownHandlers, Dir
      <4>2. conn[u].h["w"] # "http_local_send_header"
        BY <1>2, <1>3, <4>1, OwnHandlers
      <4>3. conn[u].h["w"] # "http_remote_recv_header"
        BY <1>4 DEF Sides, WriteHandlers
      <4> QED BY <4>2, <4>3 DEF Heading
    <3> QED BY <2>8, <2>9, <3>1, <3>2 DEF Dir, Loose
  <2>16. Due(g, y)
    BY <2>8, LooseDue
  <2>17. Goes(c, k, g, tun[t], y)
    BY <1>7, <2>2, <2>12, <2>14, <2>15, <2>16 DEF Goes, Dir
  <2>18. Goes(u, j, g, tun[t], y)
    BY <1>2, <1>4, <2>12, <2>14, <2>15, <2>16 DEF Goes
  <2>19. Sided(t, k, j, g)
    BY <1>2, <1>3, <1>4, <2>6, <2>7, <2>10, <2>12, <2>13, <2>17, <2>18
       DEF Sided
  <2> QED BY <1>2, <2>19, SidedCourse
<1> QED
  BY <1>0, <1>1, <1>3, <1>9, <1>10, <1>11, <1>12, <1>13
     DEF http_local_send_header

(* The inner loop of http_body_transport( t, 1 ).                          *)
LEMMA SendBodyCourse ==
  ASSUME IInv, Ways, Course, NEW t \in Tun, tun[t].used, tun[t].resp,
         tun[t].respBody, tun[t].up \in Conn, NEW done, SendBody(t, done)
  PROVE  Course'
<1>1. PICK c \in Conn, u \in Conn : c = tun[t].down /\ u = tun[t].up
  BY Owned
<1>2. /\ c # u /\ conn[c] \in Connection /\ conn[u] \in Connection
      /\ conn \in [Conn -> Connection] /\ tun[t] \in Tunnel
  BY <1>1, BothSides, Owned
<1>3. \A d \in Dir : conn[c].t[d] = Null
  BY <1>1, NoReadTimer DEF Dir
<1>4. CASE tunnel_over(t)
  BY <1>4, OverCourse
<1>5. CASE /\ conn' = [conn EXCEPT ![u] = timer_add(@, "r", t)]
           /\ tun' = [tun EXCEPT ![t].trans = done]
           /\ cur' = Return
  <2>1. May(u, "r", t) /\ t \in Timer /\ "r" \in Dir
    BY <1>1, MayUp DEF Dir
  <2>2. PICK z : z = [tun[t] EXCEPT !.trans = done]
    OBVIOUS
  <2>3. Same(tun[t], z)
    BY <1>2, <2>2 DEF Tunnel, Same
  <2>4. tun' = [tun EXCEPT ![t] = z]
    BY <1>5, <2>2 DEF IInv, TypeOK
  <2>5. \A x \in Tun : Alike(x)
    BY <2>3, <2>4, OneAlike
  <2> QED BY <1>5, <2>1, <2>5, AwaitCourse
<1>6. CASE tunnel_process_finish(t, [conn EXCEPT ![u] = timer_del(@, "r")])
  <2>1. PICK k : k = timer_del(conn[u], "r")
    OBVIOUS
  <2>2. k \in Connection
    BY <1>2, <2>1, TimerDel DEF Dir
  <2>3. PICK cs \in [Conn -> Connection] : cs = [conn EXCEPT ![u] = k]
    BY <1>2, <2>2
  <2>4. tunnel_process_finish(t, cs)
    BY <1>6, <2>1, <2>3
  <2>5. /\ \A y \in Conn \ {c, u} : cs[y] = conn[y]
        /\ \A d \in Dir : cs[c].t[d] = Null
    BY <1>2, <1>3, <2>3
  <2> QED BY <1>1, <2>4, <2>5, FinishCourse
<1> QED
  BY <1>1, <1>4, <1>5, <1>6 DEF SendBody

(* http_local_send_body and http_remote_recv_body.                         *)
LEMMA SendBodiesCourse ==
  ASSUME IInv, Ways, Course, http_local_send_body \/ http_remote_recv_body
  PROVE  Course'
<1>1. cur.h \in {"http_local_send_body", "http_remote_recv_body"}
  <2>1. http_local_send_body => cur.h = "http_local_send_body"
    BY DEF http_local_send_body, In
  <2>2. http_remote_recv_body => cur.h = "http_remote_recv_body"
    BY DEF http_remote_recv_body, In
  <2> QED BY <2>1, <2>2
<1>2. PICK t \in Tun : t = T /\ tun[t].used
  BY <1>1, AtDown, AtUp DEF DownHandlers, UpHandlers
<1>3. tun[t].up \in Conn /\ tun[t].resp /\ tun[t].respBody
  <2>1. CASE cur.h = "http_local_send_body"
    BY <1>2, <2>1, AtDown DEF Needs, DownHandlers, T, C
  <2>2. CASE cur.h = "http_remote_recv_body"
    BY <1>2, <2>2, AtUp DEF Needs, UpHandlers, T, C
  <2> QED BY <1>1, <2>1, <2>2
<1>4. PICK done : SendBody(t, done)
  BY <1>2 DEF http_local_send_body, http_remote_recv_body
<1> QED
  BY <1>2, <1>3, <1>4, SendBodyCourse

-----------------------------------------------------------------------------
(* The loop.                                                               *)

(* A client that is taken into the pool.                                   *)
LEMMA AdmitCourse ==
  ASSUME IInv, Course, NEW c \in Usable, tun' = tun, cur = Return, Greets(c),
         SetConn(c, event_opt([net_alloc(conn[c]) EXCEPT
                                  !.h["r"] = "tunnel_local_init"], "r"))
  PROVE  Course'
<1>1. c \in Conn /\ conn[c] = FreeConn /\ conn \in [Conn -> Connection]
  BY DEF Usable, IInv, Ownership, TypeOK
<1>2. PICK g \in Handlers : g = "tunnel_local_init"
  BY DEF Handlers, GreetHandlers
<1>3. PICK m, i : m = net_alloc(FreeConn) /\ i = [m EXCEPT !.h["r"] = g]
  OBVIOUS
<1>4. /\ m \in Connection /\ m.used /\ m.data = Null
      /\ m.t = [d \in Dir |-> Null]
  BY <1>3, Allocated
<1>5. /\ i \in Connection /\ i.used /\ i.data = Null /\ i.t = m.t
  BY <1>2, <1>3, <1>4 DEF Connection
<1>6. PICK k : k = event_opt(i, "r")
  OBVIOUS
<1>7. k.used /\ k.data = Null /\ k.t = i.t
  BY <1>5, <1>6, EventOpt DEF Dir
<1>8. conn' = [conn EXCEPT ![c] = k]
  BY <1>1, <1>2, <1>3, <1>6 DEF SetConn
<1>9. conn'[c] = k /\ \A x \in Conn \ {c} : conn'[x] = conn[x]
  BY <1>1, <1>8
<1>10. cur'.h = "NULL" \/ cur'.c = c
  BY DEF Greets, Return
<1>11. OnCourse(c)' /\ Clock(c)'
  BY <1>4, <1>5, <1>7, <1>9 DEF OnCourse, Clock, Dir
<1>12. \A t \in Tun : tun'[t].respBody => tun'[t].resp
  BY DEF Course
<1>13. Apart({c})
  BY <1>9, <1>10, <1>12, AllAlike DEF Apart
<1>14. \A x \in Conn : x \in {c} => OnCourse(x)' /\ Clock(x)'
  BY <1>11
<1> QED BY <1>13, <1>14, CourseFrame

(* event_accept.                                                           *)
LEMMA AcceptCourse ==
  ASSUME IInv, Course, event_accept
  PROVE  Course'
<1>0. cur = Return /\ tun' = tun
  BY DEF event_accept, Idle
<1>1. CASE UNCHANGED <<conn, cur>>
  BY <1>0, <1>1 DEF Course, OnCourse, Clock
<1>2. ASSUME NEW c \in Usable, tun' = tun, cur = Return,
             SetConn(c, event_opt([net_alloc(conn[c]) EXCEPT
                                     !.h["r"] = "tunnel_local_init"], "r")),
             Call("tunnel_local_init", c)
      PROVE  Course'
  BY <1>2, AdmitCourse DEF Call, Greets
<1> QED
  BY <1>1, <1>2 DEF event_accept, Idle

(* A step of the loop that changes neither pool calls at most a handler    *)
(* that was left on an event.                                              *)
LEMMA PoolsCourse ==
  ASSUME IInv, Course, conn' = conn, tun' = tun,
         \/ cur' = Return
         \/ \E c \in Conn, d \in Dir : cur' = [h |-> conn[c].h[d], c |-> c]
  PROVE  Course'
<1>1. ASSUME NEW x \in Conn PROVE OnCourse(x)' /\ Clock(x)'
  <2>1. OnCourse(x) /\ Clock(x)
    BY DEF Course
  <2>2. ASSUME cur'.c = x, conn[x].data # Null
        PROVE  Due(cur'.h, tun[conn[x].data])
    <3>1. CASE cur' = Return
      BY <3>1 DEF Return, Due, Early, Heading, Asking
    <3>2. ASSUME NEW c \in Conn, NEW d \in Dir,
                 cur' = [h |-> conn[c].h[d], c |-> c]
          PROVE  Due(cur'.h, tun[conn[x].data])
      BY <2>1, <2>2, <3>2 DEF OnCourse
    <3> QED BY <3>1, <3>2
  <2>3. OnCourse(x)'
    BY <2>1, <2>2 DEF OnCourse
  <2>4. Clock(x)'
    BY <2>1 DEF Clock
  <2> QED BY <2>3, <2>4
<1> QED BY <1>1 DEF Course

(* epoll_wait.                                                             *)
LEMMA WaitCourse ==
  ASSUME IInv, Course, epoll_wait
  PROVE  Course'
<1>1. PICK B : conn' = [c \in Conn |-> [conn[c] EXCEPT
                          !.edge = @ /\ <<c, "w">> \notin B]]
  BY DEF epoll_wait
<1>2. tun' = tun /\ cur' = Return /\ cur = Return
  BY DEF epoll_wait, Sleeping, Idle
<1>3. ASSUME NEW c \in Conn PROVE OnCourse(c)' /\ Clock(c)'
  <2>1. PICK k \in Connection : k = conn[c]
    BY DEF IInv, TypeOK
  <2>2. PICK j : j = conn'[c]
    OBVIOUS
  <2>3. PICK e : j = [k EXCEPT !.edge = e]
    BY <1>1, <2>1, <2>2
  <2>4. j.used = k.used /\ j.data = k.data /\ j.h = k.h /\ j.t = k.t
    BY <2>1, <2>3 DEF Connection
  <2>5. OnCourse(c) /\ Clock(c)
    BY DEF Course
  <2> QED BY <1>2, <2>1, <2>2, <2>4, <2>5 DEF OnCourse, Clock
<1> QED BY <1>2, <1>3 DEF Course

(* timer_expire.                                                           *)
LEMMA ExpireCourse ==
  ASSUME IInv, Course, NEW c \in Conn, NEW d \in Dir, timer_expire(c, d)
  PROVE  Course'
BY CloseCourse, OverCourse DEF timer_expire

(* Every step of the worker keeps every connection on its course.          *)
LEMMA CourseStep ==
  ASSUME IInv, Ways, Course, [Next]_vars
  PROVE  Course'
<1>1. CASE Greet
  BY <1>1, LocalInitCourse, SslCourse, LocalHandshakeCourse,
     LocalStartCourse DEF Greet
<1>2. CASE Request
  BY <1>2, ProcessRequestCourse, ProcessProcotolCourse, ProcessBodyCourse
     DEF Request
<1>3. CASE Connect
  BY <1>3, RemoteInitCourse, ConnectStartCourse, ConnectCheckCourse,
     RemoteHandshakeCourse, StartCourse DEF Connect
<1>4. CASE Relay
  BY <1>4, HttpsConnectedCourse, HttpsStartCourse, TransportsCourse DEF Relay
<1>5. CASE Respond
  BY <1>5, RemoteSendCourse, RecvHeaderCourse, SendHeaderCourse,
     SendBodiesCourse DEF Respond
<1>6. CASE Loop
  <2>1. CASE epoll_wait
    BY <2>1, WaitCourse
  <2>2. CASE event_loop_accept
    BY <2>2, PoolsCourse DEF event_loop_accept, Idle
  <2>3. CASE event_accept
    BY <2>3, AcceptCourse
  <2>4. ASSUME NEW c \in Conn, event_loop_skip(c) PROVE Course'
    BY <2>4, PoolsCourse DEF event_loop_skip, Idle
  <2>5. ASSUME NEW c \in Conn, event_loop_read(c) PROVE Course'
    BY <2>5, PoolsCourse DEF event_loop_read, Dispatch, Dir
  <2>6. ASSUME NEW c \in Conn, event_loop_write(c) PROVE Course'
    BY <2>6, PoolsCourse DEF event_loop_write, Dispatch, Dir
  <2>7. ASSUME NEW c \in Conn, NEW d \in Dir, timer_expire(c, d)
        PROVE  Course'
    BY <2>7, ExpireCourse
  <2> QED BY <1>6, <2>1, <2>2, <2>3, <2>4, <2>5, <2>6, <2>7 DEF Loop
<1>7. CASE UNCHANGED vars
  BY <1>7 DEF vars, Course, OnCourse, Clock
<1> QED
  BY <1>1, <1>2, <1>3, <1>4, <1>5, <1>6, <1>7 DEF Next, Handler

(* The worker starts with every connection free.                           *)
LEMMA CourseInit ==
  ASSUME Init
  PROVE  Course
<1>1. /\ \A c \in Conn : conn[c] = FreeConn
      /\ \A t \in Tun : tun[t] = FreeTun
  BY DEF Init
<1> QED BY <1>1 DEF FreeConn, FreeTun, Course, OnCourse, Clock, Dir

-----------------------------------------------------------------------------
(* Theorems.                                                               *)

(* In every mode, with pools of every size, whatever the order of events,  *)
(* timeouts and failures, an armed timer belongs to a connection in use    *)
(* and its data is that connection's tunnel, or the connection itself      *)
(* while it has none.                                                      *)
THEOREM OwnTimers == Spec => []TimersOwned
<1>1. Init => Ways /\ Course
  BY SessionInit, CourseInit
<1>2. IInv /\ Ways /\ Course /\ [Next]_vars => Ways' /\ Course'
  BY SessionStep, CourseStep
<1>3. Course => TimersOwned
  BY DEF Course, Clock, TimersOwned
<1> QED
  BY <1>1, <1>2, <1>3, Inductive, PTL DEF Spec

-----------------------------------------------------------------------------
(* The pools.                                                              *)

(* Tunnels that each have a connection of their own among those of S.      *)
LEMMA Fewer ==
  ASSUME NEW A, NEW S, IsFiniteSet(S), NEW f \in [A -> S],
         \A x, y \in A : f[x] = f[y] => x = y
  PROVE  IsFiniteSet(A) /\ Cardinality(A) <= Cardinality(S)
<1>1. f \in Injection(A, S)
  BY DEF Injection, IsInjective
<1> QED BY <1>1, FS_Injection

(* The tunnels that hold a request body, and those that hold an answer's.  *)
Asked == {t \in Tun : tun[t].reqBody}
Answering == {t \in Tun : tun[t].respBody}

(* A body is held for a connection: the request's for the downstream, the  *)
(* answer's for the upstream.                                              *)
LEMMA Held ==
  ASSUME IInv, Ways, Course
  PROVE  /\ \A t \in Asked : tun[t].used /\ tun[t].down \in Conn
         /\ \A t \in Answering : tun[t].used /\ tun[t].up \in Conn
<1>1. ASSUME NEW t \in Asked PROVE tun[t].used /\ tun[t].down \in Conn
  <2>1. t \in Tun /\ tun[t].used
    BY <1>1 DEF Asked, IInv, Ownership, FreeTun
  <2> QED BY <2>1, Owned
<1>2. ASSUME NEW t \in Answering PROVE tun[t].used /\ tun[t].up \in Conn
  <2>1. t \in Tun /\ tun[t].used /\ tun[t].resp
    BY <1>2 DEF Answering, IInv, Ownership, FreeTun, Course
  <2>2. tun[t].up # Null
    BY <2>1 DEF Ways, OneWay
  <2> QED BY <2>1, <2>2, Owned
<1> QED BY <1>1, <1>2

(* When some connection x is none of these, a body is left.                *)
LEMMA BodyLeft ==
  ASSUME IInv, Ways, Course, NEW x \in Conn,
         \A t \in Asked : tun[t].down # x,
         \A t \in Answering : tun[t].up # x
  PROVE  Cardinality(Asked) + Cardinality(Answering) < Cardinality(Tun)
<1>1. PICK D, U : /\ D = {tun[t].down : t \in Asked}
                  /\ U = {tun[t].up : t \in Answering}
  OBVIOUS
<1>2. D \subseteq Conn \ {x} /\ U \subseteq Conn \ {x}
  BY <1>1, Held
<1>3. IsFiniteSet(Conn) /\ Cardinality(Conn) \in Nat
      /\ IsFiniteSet(Tun) /\ Cardinality(Tun) \in Nat
  BY PoolAssumption, FS_CardinalityType
<1>4. /\ IsFiniteSet(Conn \ {x})
      /\ Cardinality(Conn \ {x}) = Cardinality(Conn) - 1
  BY <1>3, FS_RemoveElement
<1>5. /\ \A t \in Asked : t \in Tun /\ conn[tun[t].down].data = t
      /\ \A t \in Answering : t \in Tun /\ conn[tun[t].up].data = t
                                /\ tun[t].up # tun[t].down
  BY Held, Owned DEF Asked, Answering
<1>6. D \cap U = {}
  BY <1>1, <1>5
<1>7. IsFiniteSet(D) /\ IsFiniteSet(U)
  BY <1>2, <1>4, FS_Subset
<1>8. IsFiniteSet(Asked) /\ Cardinality(Asked) <= Cardinality(D)
  <2>1. PICK f \in [Asked -> D] : f = [t \in Asked |-> tun[t].down]
    BY <1>1
  <2>2. \A t, y \in Asked : f[t] = f[y] => t = y
    BY <1>5, <2>1
  <2> QED BY <1>7, <2>2, Fewer
<1>9. IsFiniteSet(Answering) /\ Cardinality(Answering) <= Cardinality(U)
  <2>1. PICK f \in [Answering -> U] : f = [t \in Answering |-> tun[t].up]
    BY <1>1
  <2>2. \A t, y \in Answering : f[t] = f[y] => t = y
    BY <1>5, <2>1
  <2> QED BY <1>7, <2>2, Fewer
<1>10. Cardinality(D \cup U) = Cardinality(D) + Cardinality(U)
  <2>1. Cardinality(D \cap U) = 0
    BY <1>6, FS_EmptySet
  <2>2. Cardinality(D) \in Nat /\ Cardinality(U) \in Nat
    BY <1>7, FS_CardinalityType
  <2>3. Cardinality(D \cup U) =
          Cardinality(D) + Cardinality(U) - Cardinality(D \cap U)
    BY <1>7, FS_Union
  <2> QED BY <2>1, <2>2, <2>3
<1>11. Cardinality(D \cup U) <= Cardinality(Conn \ {x})
  BY <1>2, <1>4, FS_Subset
<1>12. /\ Cardinality(Asked) \in Nat /\ Cardinality(Answering) \in Nat
       /\ Cardinality(D) \in Nat /\ Cardinality(U) \in Nat
  BY <1>7, <1>8, <1>9, FS_CardinalityType
<1> QED
  BY <1>3, <1>4, <1>8, <1>9, <1>10, <1>11, <1>12, PoolAssumption

(* A client without a tunnel leaves one tunnel to it.                      *)
LEMMA TunnelLeft ==
  ASSUME IInv, NEW x \in Conn, conn[x].data = Null
  PROVE  \E t \in Tun : ~tun[t].used
<1> SUFFICES ASSUME \A t \in Tun : tun[t].used PROVE FALSE
  OBVIOUS
<1>1. \A t \in Tun : /\ tun[t].down \in Conn \ {x}
                     /\ conn[tun[t].down].data = t
  BY Owned, NameAssumption
<1>2. PICK f \in [Tun -> Conn \ {x}] : f = [t \in Tun |-> tun[t].down]
  BY <1>1
<1>3. \A t, y \in Tun : f[t] = f[y] => t = y
  BY <1>1, <1>2
<1>4. IsFiniteSet(Conn) /\ Cardinality(Conn) \in Nat
      /\ IsFiniteSet(Tun) /\ Cardinality(Tun) \in Nat
  BY PoolAssumption, FS_CardinalityType
<1>5. /\ IsFiniteSet(Conn \ {x})
      /\ Cardinality(Conn \ {x}) = Cardinality(Conn) - 1
  BY <1>4, FS_RemoveElement
<1>6. Cardinality(Tun) <= Cardinality(Conn \ {x})
  BY <1>3, <1>5, Fewer
<1> QED BY <1>4, <1>5, <1>6, PoolAssumption

(* While a tunnel has no body to read or to answer, one is left for it.    *)
LEMMA BodiesLeft ==
  ASSUME IInv, Ways, Course,
         \/ In("tunnel_local_process_procotol")
         \/ In("http_local_send_header")
  PROVE  Cardinality(Asked) + Cardinality(Answering) < Cardinality(Tun)
<1>1. cur.h \in DownHandlers /\ T \in Tun /\ C \in Conn /\ tun[T].down = C
      /\ conn[C].data = T /\ cur # Return /\ tun[T].used
      /\ Needs(cur.h, C)
  BY AtDown DEF In, DownHandlers
<1>2. Due(cur.h, tun[T])
  BY <1>1, Ahead
<1>3. /\ \A t \in Asked : t \in Tun /\ conn[tun[t].down].data = t
      /\ \A t \in Answering : t \in Tun /\ conn[tun[t].up].data = t
                                /\ tun[t].up # tun[t].down
  BY Held, Owned DEF Asked, Answering
<1>4. CASE In("tunnel_local_process_procotol")
  <2>1. ~tun[T].reqBody
    BY <1>2, <1>4 DEF Due, Asking, In
  <2>2. \A t \in Asked : tun[t].down # C
    BY <1>1, <1>3, <2>1 DEF Asked
  <2>3. \A t \in Answering : tun[t].up # C
    BY <1>1, <1>3
  <2> QED BY <1>1, <2>2, <2>3, BodyLeft
<1>5. CASE In("http_local_send_header")
  <2>1. ~tun[T].respBody
    BY <1>2, <1>5 DEF Due, Heading, In
  <2>2. PICK x \in Conn : x = tun[T].up
    BY <1>1, <1>5 DEF Needs, In, T, C
  <2>3. conn[x].data = T /\ x # C
    BY <1>1, <2>2, Owned
  <2>4. \A t \in Asked : tun[t].down # x
    BY <1>1, <1>3, <2>3
  <2>5. \A t \in Answering : tun[t].up # x
    BY <1>3, <2>1, <2>3 DEF Answering
  <2> QED BY <2>4, <2>5, BodyLeft
<1> QED BY <1>4, <1>5

(* A worker on its course finds its pools as PoolsSuffice says.            *)
LEMMA CourseSuffices ==
  ASSUME IInv, Ways, Course
  PROVE  PoolsSuffice
<1>1. ASSUME In("tunnel_local_start")
      PROVE  \E t \in Tun : ~tun[t].used
  <2>1. C \in Conn /\ conn[C].data = Null
    BY <1>1, AtGreet DEF In, GreetHandlers
  <2> QED BY <1>1, <2>1, TunnelLeft
<1> QED BY <1>1, BodiesLeft DEF PoolsSuffice, Asked, Answering

(* In every mode, with pools of every size of which the tunnels' and the   *)
(* bodies' are no smaller than the connections', tunnel_alloc never finds  *)
(* its pool empty and nor does http_entitybody_create: the connection pool *)
(* is the first to run out.                                                *)
THEOREM Enough == Spec => []PoolsSuffice
<1>1. Init => Ways /\ Course
  BY SessionInit, CourseInit
<1>2. IInv /\ Ways /\ Course /\ [Next]_vars => Ways' /\ Course'
  BY SessionStep, CourseStep
<1> QED
  BY <1>1, <1>2, CourseSuffices, Inductive, PTL DEF Spec

-----------------------------------------------------------------------------
(* The worker with the accept mutex.  Its handlers, timers and epoll_wait  *)
(* are Tunnel's, so that what they keep they keep here; its loop calls     *)
(* them in another order, and takes clients in without calling any.        *)

(* The lists of the events whose handlers wait.                            *)
Once(q) == \A i, j \in DOMAIN q : q[i] = q[j] => i = j

(* One more event at the head.                                             *)
LEMMA Inserted ==
  ASSUME NEW S, NEW q, q \in Seq(S), Once(q),
         NEW e, e \in S, e \notin Events(q)
  PROVE  /\ <<e>> \o q \in Seq(S) /\ Once(<<e>> \o q)
         /\ Events(<<e>> \o q) = Events(q) \cup {e}
<1>0. PICK p : p = <<e>> \o q
  OBVIOUS
<1>1. /\ p \in Seq(S) /\ Len(p) = Len(q) + 1 /\ Len(q) \in Nat
      /\ DOMAIN q = 1..Len(q) /\ DOMAIN p = 1..Len(p)
      /\ p[1] = e /\ \A i \in 1..Len(q) : p[i + 1] = q[i]
  BY <1>0
<1>2. \A i \in DOMAIN p : i = 1 \/ (i - 1 \in DOMAIN q /\ p[i] = q[i - 1])
  BY <1>1
<1>3. Once(p)
  <2>1. ASSUME NEW i \in DOMAIN p, NEW j \in DOMAIN p, p[i] = p[j]
        PROVE  i = j
    <3>1. \A k \in DOMAIN q : q[k] # e
      BY DEF Events
    <3>2. CASE i = 1 \/ j = 1
      BY <1>1, <1>2, <2>1, <3>1, <3>2
    <3>3. CASE i # 1 /\ j # 1
      <4>1. /\ i - 1 \in DOMAIN q /\ j - 1 \in DOMAIN q
            /\ q[i - 1] = q[j - 1]
        BY <1>2, <2>1, <3>3
      <4>2. i - 1 = j - 1
        BY <4>1 DEF Once
      <4> QED BY <1>1, <4>2
    <3> QED BY <3>2, <3>3
  <2> QED BY <2>1 DEF Once
<1>4. Events(p) = Events(q) \cup {e}
  <2>1. \A k \in DOMAIN q : k + 1 \in DOMAIN p /\ p[k + 1] = q[k]
    BY <1>1
  <2>2. 1 \in DOMAIN p /\ p[1] = e
    BY <1>1
  <2>3. ASSUME NEW x \in Events(p) PROVE x \in Events(q) \cup {e}
    <3>1. PICK i \in DOMAIN p : x = p[i]
      BY <2>3 DEF Events
    <3> QED BY <1>2, <2>2, <3>1 DEF Events
  <2>4. ASSUME NEW x \in Events(q) PROVE x \in Events(p)
    <3>1. PICK k \in DOMAIN q : x = q[k]
      BY <2>4 DEF Events
    <3> QED BY <2>1, <3>1 DEF Events
  <2>5. e \in Events(p)
    BY <2>2 DEF Events
  <2> QED BY <2>3, <2>4, <2>5
<1> QED BY <1>0, <1>1, <1>3, <1>4

(* The event at the head taken off.                                        *)
LEMMA TakenOff ==
  ASSUME NEW S, NEW q, q \in Seq(S), Once(q), q # <<>>
  PROVE  /\ Head(q) \in S /\ Tail(q) \in Seq(S) /\ Once(Tail(q))
         /\ Events(Tail(q)) = Events(q) \ {Head(q)}
<1>0. PICK p, e : p = Tail(q) /\ e = Head(q)
  OBVIOUS
<1>1. /\ p \in Seq(S) /\ Len(p) = Len(q) - 1 /\ Len(q) \in Nat \ {0}
      /\ DOMAIN q = 1..Len(q) /\ DOMAIN p = 1..Len(p)
      /\ q[1] = e /\ e \in S /\ \A i \in 1..Len(p) : p[i] = q[i + 1]
  BY <1>0
<1>2. \A i \in DOMAIN p : i + 1 \in DOMAIN q /\ i + 1 # 1 /\ p[i] = q[i + 1]
  BY <1>1
<1>3. Once(p)
  <2>1. ASSUME NEW i \in DOMAIN p, NEW j \in DOMAIN p, p[i] = p[j]
        PROVE  i = j
    <3>1. i + 1 = j + 1
      BY <1>2, <2>1 DEF Once
    <3> QED BY <1>1, <3>1
  <2> QED BY <2>1 DEF Once
<1>4. Events(p) = Events(q) \ {e}
  <2>1. ASSUME NEW k \in DOMAIN q, q[k] # e
        PROVE  k - 1 \in DOMAIN p /\ p[k - 1] = q[k]
    BY <1>1, <2>1
  <2>2. \A i \in DOMAIN p : q[i + 1] # e
    <3>1. 1 \in DOMAIN q
      BY <1>1
    <3> QED BY <1>1, <1>2, <3>1 DEF Once
  <2>3. ASSUME NEW x \in Events(p) PROVE x \in Events(q) \ {e}
    <3>1. PICK i \in DOMAIN p : x = p[i]
      BY <2>3 DEF Events
    <3> QED BY <1>2, <2>2, <3>1 DEF Events
  <2>4. ASSUME NEW x \in Events(q), x # e PROVE x \in Events(p)
    <3>1. PICK k \in DOMAIN q : x = q[k]
      BY <2>4 DEF Events
    <3> QED BY <2>1, <2>4, <3>1 DEF Events
  <2> QED BY <2>3, <2>4
<1> QED BY <1>0, <1>1, <1>3, <1>4

(* What the worker looks at after epoll_wait is what is on the queue, and  *)
(* while it accepts clients no queued event is of an entry they may take.  *)
Deferring ==
  /\ queue_event \in Seq(Conn \X Dir)
  /\ Queued
  /\ batch = Events(queue_event) \/ (queue_event = <<>> /\ Idle /\ ~accepting)
  /\ accepting => Idle /\ \A e \in Events(queue_event) : conn[e[1]].used
Whole == IInv /\ Ways /\ Heard /\ Course

(* A handler runs only when one was called.                                *)
LEMMA Runs ==
  ASSUME Handler
  PROVE  ~Idle
<1>1. cur.h # "NULL"
  <2>1. CASE Greet
    BY <2>1 DEF Greet, tunnel_local_init, ssl_handshake_handler,
       tunnel_local_handshake_handler, tunnel_local_start, In
  <2>2. CASE Request
    BY <2>2 DEF Request, tunnel_local_process_request,
       tunnel_local_process_procotol, tunnel_local_process_body, In
  <2>3. CASE Connect
    BY <2>3 DEF Connect, tunnel_remote_init, tunnel_remote_connect_start,
       tunnel_remote_connect_check, tunnel_remote_handshake_handler,
       tunnel_start, In
  <2>4. CASE Relay
    BY <2>4 DEF Relay, https_connected, https_start, tunnel_transport_in,
       tunnel_transport_out, In
  <2>5. CASE Respond
    BY <2>5 DEF Respond, http_remote_send, http_remote_recv_header,
       http_local_send_header, http_local_send_body, http_remote_recv_body, In
  <2> QED BY <2>1, <2>2, <2>3, <2>4, <2>5 DEF Handler
<1> QED BY <1>1 DEF Idle, Return

(* What Tunnel's own steps keep.                                           *)
LEMMA WholeStep ==
  ASSUME Whole, [Next]_vars
  PROVE  Whole' /\ Session
BY Steps, SessionStep, HeardStep, CourseStep DEF Whole

(* A step of the loop that changes neither pool, and calls the handler of  *)
(* an event, if it has one, or none.                                       *)
CallsOf(c, d) ==
  cur' = IF conn[c].h[d] # "NULL" THEN [h |-> conn[c].h[d], c |-> c]
         ELSE Return

(* It keeps what Tunnel's steps keep.                                      *)
LEMMA WholePools ==
  ASSUME Whole, UNCHANGED <<conn, tun>>, Idle, LoopTypes,
         cur' = Return \/ \E c \in Conn, d \in Dir : CallsOf(c, d)
  PROVE  Whole' /\ Session
<1>1. cur = Return /\ conn' = conn /\ tun' = tun
  BY DEF Idle
<1>2. CASE cur' = Return
  <2>1. IInv'
    BY <1>1, <1>2, LoopFrame DEF Whole, LoopTypes
  <2>2. Calls
    BY <1>2 DEF Calls
  <2> QED
    BY <1>1, <1>2, <2>1, <2>2, PoolsStay, PoolsHeard, PoolsCourse DEF Whole
<1>3. ASSUME NEW c \in Conn, NEW d \in Dir, conn[c].h[d] # "NULL",
             cur' = [h |-> conn[c].h[d], c |-> c]
      PROVE  Whole' /\ Session
  <2>1. PICK h : h = conn[c].h[d]
    OBVIOUS
  <2>2. conn[c].used /\ Needs(h, c) /\ h \in Handlers
    BY <1>3, <2>1 DEF Whole, IInv, NoWildHandler, SafeEvents, TypeOK,
       Connection
  <2>3. cur' = [h |-> h, c |-> c] /\ cur'.h = h /\ cur'.c = c
    BY <1>3, <2>1
  <2>4. conn[cur'.c].used /\ Needs(cur'.h, cur'.c)
        /\ cur' \in {Return} \cup [h : Handlers, c : Conn]
    BY <2>2, <2>3
  <2>5. IInv'
    BY <1>1, <2>4, LoopFrame DEF Whole, LoopTypes
  <2>6. Calls
    <3>1. ~Fresh(c)
      BY <1>1 DEF Fresh, Return
    <3>2. conn[c].f[d]
      BY <1>3, <3>1 DEF Whole, Heard, Reg
    <3> QED BY <1>3, <3>2 DEF Calls
  <2> QED
    BY <1>1, <1>3, <2>5, <2>6, PoolsStay, PoolsHeard, PoolsCourse DEF Whole
<1>4. cur' = Return \/ \E c \in Conn, d \in Dir :
                          /\ conn[c].h[d] # "NULL"
                          /\ cur' = [h |-> conn[c].h[d], c |-> c]
  BY DEF CallsOf
<1> QED
  BY <1>2, <1>3, <1>4

(* event_loop_queue.                                                       *)
LEMMA QueueStep ==
  ASSUME Whole, Deferring, event_loop_queue
  PROVE  Whole' /\ Deferring' /\ Session
<1>1. /\ cur = Return /\ cur' = Return /\ UNCHANGED <<conn, tun, half>>
      /\ batch' = Reported /\ queue_event' \in Queues(Reported)
      /\ accepting' \in BOOLEAN
  BY DEF event_loop_queue, Idle
<1>2. TypeOK
  BY DEF Whole, IInv
<1>3. Reported \subseteq Conn \X Dir /\ Reported \subseteq batch
  BY <1>2 DEF Reported, TypeOK
<1>4. LoopTypes
  BY <1>1, <1>2, <1>3 DEF LoopTypes, TypeOK
<1>5. Whole' /\ Session
  BY <1>1, <1>4, WholePools DEF Idle
<1>6. Cardinality(Reported) \in Nat
  <2>1. IsFiniteSet(Conn \X Dir)
    <3>1. IsFiniteSet({"r"}) /\ IsFiniteSet({"w"})
      BY FS_Singleton
    <3>2. Dir = {"r"} \cup {"w"}
      BY DEF Dir
    <3>3. IsFiniteSet(Dir)
      BY <3>1, <3>2, FS_Union
    <3> QED BY <3>3, PoolAssumption, FS_Product
  <2> QED BY <1>3, <2>1, FS_Subset, FS_CardinalityType
<1>7. queue_event' \in Seq(Conn \X Dir)
  <2>1. PICK n, q : /\ n = Cardinality(Reported) /\ q = queue_event'
                    /\ n \in Nat
    BY <1>6
  <2>2. q \in [1..n -> Reported]
    BY <1>1, <2>1 DEF Queues
  <2>3. q \in [1..n -> Conn \X Dir]
    BY <1>3, <2>2
  <2> QED BY <2>1, <2>3
<1>8. Queued'
  <2>1. PICK n, q : /\ n = Cardinality(Reported) /\ q = queue_event'
                    /\ n \in Nat
    BY <1>6
  <2>2. DOMAIN q = 1..n /\ \A i, j \in DOMAIN q : i < j => q[i] # q[j]
    BY <1>1, <2>1 DEF Queues
  <2>3. \A i, j \in DOMAIN q : q[i] = q[j] => i = j
    BY <2>2
  <2> QED BY <2>1, <2>3 DEF Queued
<1>9. batch' = Events(queue_event')
  BY <1>1 DEF Queues
<1>10. \A e \in Events(queue_event') : conn'[e[1]].used
  <2>1. ASSUME NEW e \in Reported PROVE conn[e[1]].used
    <3>1. e[1] \in Conn /\ conn[e[1]].active
      BY <1>3, <2>1 DEF Reported
    <3>2. ~FreeConn.active
      BY DEF FreeConn
    <3> QED BY <3>1, <3>2 DEF Whole, IInv, Ownership
  <2> QED BY <1>1, <1>9, <2>1
<1> QED BY <1>1, <1>5, <1>7, <1>8, <1>9, <1>10 DEF Deferring, Idle

(* event_accept_queue: the entry that is taken was not in use, and so has  *)
(* no event on the queue.                                                  *)
LEMMA AcceptQueueStep ==
  ASSUME Whole, Deferring, event_accept_queue
  PROVE  Whole' /\ Deferring' /\ Session
<1>1. /\ cur = Return /\ cur' = Return /\ UNCHANGED <<tun, half>>
      /\ accepting /\ batch = Events(queue_event) /\ TypeOK
      /\ \A e \in Events(queue_event) : conn[e[1]].used
  BY DEF event_accept_queue, Idle, Deferring, Whole, IInv
<1>2. CASE accepting' = FALSE /\ UNCHANGED <<conn, batch, queue_event>>
  <2>1. LoopTypes
    BY <1>1, <1>2 DEF LoopTypes, TypeOK
  <2>2. Whole' /\ Session
    BY <1>1, <1>2, <2>1, WholePools DEF Idle
  <2> QED BY <1>1, <1>2, <2>2 DEF Deferring, Queued
<1>3. ASSUME NEW c \in Usable,
             SetConn(c, event_opt([net_alloc(conn[c]) EXCEPT
                                     !.h["r"] = "tunnel_local_init"], "r")),
             batch' = batch \cup {<<c, "r">>},
             queue_event' = <<<<c, "r">>>> \o queue_event,
             accepting' = accepting
      PROVE  Whole' /\ Deferring' /\ Session
  <2>1. c \in Conn /\ ~conn[c].used /\ conn[c] = FreeConn
    BY DEF Usable, Whole, IInv, Ownership
  <2>2. PICK e \in Conn \X Dir : e = <<c, "r">>
    BY <2>1 DEF Dir
  <2>3. e \notin Events(queue_event)
    BY <1>1, <2>1, <2>2
  <2>4. LoopTypes
    <3>1. batch' \subseteq (Conn \cup {Listener}) \X Dir
      BY <1>1, <1>3, <2>2 DEF TypeOK
    <3> QED BY <1>1, <1>3, <3>1 DEF LoopTypes, TypeOK
  <2>5. Greets(c)
    BY <1>1 DEF Greets
  <2>6. Whole' /\ Session
    BY <1>1, <1>3, <2>4, <2>5, Admits, AdmitStep, AdmitHeard, AdmitCourse
       DEF Whole
  <2>7. /\ queue_event' \in Seq(Conn \X Dir)
        /\ Once(queue_event')
        /\ Events(queue_event') = Events(queue_event) \cup {e}
    <3>1. PICK q, p : q = queue_event /\ p = queue_event'
      OBVIOUS
    <3>2. /\ q \in Seq(Conn \X Dir) /\ Once(q) /\ e \notin Events(q)
          /\ p = <<e>> \o q
      BY <1>3, <2>2, <2>3, <3>1 DEF Deferring, Queued, Once
    <3>3. PICK S : S = Conn \X Dir
      OBVIOUS
    <3>4. /\ <<e>> \o q \in Seq(S) /\ Once(<<e>> \o q)
          /\ Events(<<e>> \o q) = Events(q) \cup {e}
      <4>1. /\ e \in S /\ q \in Seq(S)
            /\ Once(q) /\ e \notin Events(q)
        BY <3>2, <3>3
      <4> QED BY ONLY <4>1, Inserted, ZenonT(60)
    <3>5. p \in Seq(S) /\ Once(p) /\ Events(p) = Events(q) \cup {e}
      BY <3>2, <3>4
    <3> QED BY <3>1, <3>3, <3>5
  <2>8. conn'[c].used /\ \A x \in Conn \ {c} : conn'[x] = conn[x]
    <3>1. PICK m, i : /\ m = net_alloc(FreeConn)
                      /\ i = [m EXCEPT !.h["r"] = "tunnel_local_init"]
      OBVIOUS
    <3>2. m \in Connection /\ m.used
      BY <3>1, Allocated
    <3>3. i \in Connection /\ i.used
      BY <3>1, <3>2 DEF Connection, Handlers, GreetHandlers
    <3>4. event_opt(i, "r").used
      BY <3>3, EventOpt DEF Dir
    <3>5. conn' = [conn EXCEPT ![c] = event_opt(i, "r")]
      BY <1>3, <2>1, <3>1 DEF SetConn
    <3> QED BY <1>1, <2>1, <3>4, <3>5 DEF TypeOK
  <2>9. \A x \in Events(queue_event') : conn'[x[1]].used
    <3>1. Events(queue_event) \subseteq Conn \X Dir
      BY DEF Deferring, Events
    <3> QED BY <1>1, <2>2, <2>7, <2>8, <3>1
  <2>10. Queued' /\ Idle'
    BY <1>1, <2>7 DEF Queued, Once, Idle
  <2>11. batch' = Events(queue_event')
    BY <1>1, <1>3, <2>2, <2>7
  <2> QED
    BY <2>6, <2>7, <2>9, <2>10, <2>11 DEF Deferring
<1> QED
  BY <1>2, <1>3 DEF event_accept_queue, Accepted, queue_insert

(* event_loop_run.                                                         *)
LEMMA RunStep ==
  ASSUME Whole, Deferring, event_loop_run
  PROVE  Whole' /\ Deferring' /\ Session
<1>1. /\ cur = Return /\ UNCHANGED <<conn, tun, half, accepting>>
      /\ ~accepting /\ queue_event # <<>> /\ TypeOK
      /\ queue_event' = Tail(queue_event)
      /\ batch' = batch \ {Head(queue_event)}
      /\ batch = Events(queue_event)
  BY DEF event_loop_run, Idle, Deferring, Whole, IInv
<1>2. PICK e : e = Head(queue_event)
  OBVIOUS
<1>3. /\ e \in Conn \X Dir /\ queue_event' \in Seq(Conn \X Dir)
      /\ Once(queue_event')
      /\ Events(queue_event') = Events(queue_event) \ {e}
  <2>1. PICK q, p : q = queue_event /\ p = queue_event'
    OBVIOUS
  <2>2. /\ q \in Seq(Conn \X Dir) /\ Once(q) /\ q # <<>>
        /\ p = Tail(q) /\ e = Head(q)
    BY <1>1, <1>2, <2>1 DEF Deferring, Queued, Once
  <2>3. PICK S : S = Conn \X Dir
    OBVIOUS
  <2>4. /\ Head(q) \in S /\ Tail(q) \in Seq(S) /\ Once(Tail(q))
        /\ Events(Tail(q)) = Events(q) \ {Head(q)}
    <3>1. q \in Seq(S) /\ Once(q) /\ q # <<>>
      BY <2>2, <2>3
    <3> QED BY ONLY <3>1, TakenOff, ZenonT(60)
  <2>5. /\ e \in S /\ p \in Seq(S) /\ Once(p)
        /\ Events(p) = Events(q) \ {e}
    BY <2>2, <2>4
  <2> QED BY <2>1, <2>3, <2>5
<1>4. LoopTypes
  BY <1>1 DEF LoopTypes, TypeOK
<1>5. PICK c \in Conn, d \in Dir : e = <<c, d>>
  BY <1>3
<1>6. CallsOf(c, d)
  BY <1>2, <1>5 DEF event_loop_run, Called, CallsOf
<1>7. Whole' /\ Session
  BY <1>1, <1>4, <1>6, WholePools DEF Idle
<1> QED
  BY <1>1, <1>2, <1>3, <1>7 DEF Deferring, Queued, Once

(* Between two turns of the loop the queue is empty.                       *)
LEMMA Emptied ==
  ASSUME Deferring, Sleeping
  PROVE  queue_event = <<>> /\ batch = Events(queue_event)
<1>1. batch = {} /\ Idle /\ ~accepting
  BY DEF Sleeping
<1>2. CASE batch = Events(queue_event)
  <2>1. DOMAIN queue_event = {}
    BY <1>1, <1>2 DEF Events
  <2>2. queue_event = <<>>
    BY <2>1 DEF Deferring
  <2> QED BY <1>2, <2>2
<1>3. CASE queue_event = <<>>
  BY <1>1, <1>3 DEF Events
<1> QED BY <1>2, <1>3 DEF Deferring

(* Every step of the worker, with the accept mutex.                        *)
LEMMA DeferredStep ==
  ASSUME Whole, Deferring, [DeferredNext]_deferredVars
  PROVE  Whole' /\ Deferring' /\ Session
<1>1. CASE Handler /\ UNCHANGED queue_event
  <2>1. Whole' /\ Session
    BY <1>1, WholeStep DEF Next
  <2>2. batch = Events(queue_event)
    BY <1>1, Runs DEF Deferring
  <2>3. UNCHANGED loopVars
    BY <1>1 DEF Handler
  <2>4. ~accepting
    BY <1>1, Runs DEF Deferring
  <2> QED BY <1>1, <2>1, <2>2, <2>3, <2>4 DEF Deferring, Queued, loopVars
<1>2. CASE event_loop_queue \/ event_accept_queue \/ event_loop_run
  BY <1>2, QueueStep, AcceptQueueStep, RunStep
<1>3. CASE epoll_wait /\ UNCHANGED queue_event
  <2>1. Whole' /\ Session
    BY <1>3, WholeStep DEF Next, Loop
  <2>2. queue_event = <<>> /\ cur' = Return /\ ~accepting'
    BY <1>3, Emptied DEF epoll_wait, Sleeping, Idle
  <2> QED BY <1>3, <2>1, <2>2 DEF Deferring, Queued, Idle
<1>4. ASSUME NEW c \in Conn, NEW d \in Dir, timer_expire(c, d),
             UNCHANGED queue_event
      PROVE  Whole' /\ Deferring' /\ Session
  <2>1. Whole' /\ Session
    BY <1>4, WholeStep DEF Next, Loop
  <2>2. /\ batch' = Events(queue_event') /\ ~accepting'
    BY <1>4, Emptied DEF timer_expire, Sleeping, loopVars
  <2> QED BY <1>4, <2>1, <2>2 DEF Deferring, Queued
<1>5. CASE UNCHANGED deferredVars
  <2>1. UNCHANGED vars
    BY <1>5 DEF deferredVars, vars
  <2>2. Whole' /\ Session
    BY <2>1, WholeStep
  <2> QED BY <1>5, <2>2 DEF deferredVars, Deferring, Queued, Idle
<1> QED
  BY <1>1, <1>2, <1>3, <1>4, <1>5
     DEF DeferredNext, DeferredRunning, DeferredLoop

(* It starts with nothing on the queue.                                    *)
LEMMA DeferredStart ==
  ASSUME DeferredInit
  PROVE  Whole /\ Deferring /\ Service!Init
<1>1. Whole /\ Service!Init
  BY Starts, SessionInit, HeardInit, CourseInit DEF DeferredInit, Whole
<1>2. queue_event = <<>> /\ batch = {} /\ ~accepting
  BY DEF DeferredInit, Init
<1> QED BY <1>1, <1>2 DEF Deferring, Queued, Events

(* No event is put on queue_event while it is there, whatever the sizes of *)
(* the pools, the number of events and the order of accepting, freeing and *)
(* taking entries anew.                                                    *)
THEOREM QueuedOnce == DeferredSpec => []Queued
<1>1. Whole /\ Deferring /\ [DeferredNext]_deferredVars =>
        Whole' /\ Deferring'
  BY DeferredStep
<1>2. Deferring => Queued
  BY DEF Deferring
<1> QED
  BY <1>1, <1>2, DeferredStart, PTL DEF DeferredSpec

(* No timer is armed for a connection that is not in use, or for a tunnel  *)
(* that is not its own, in this loop either.                               *)
THEOREM OwnTimersDeferred == DeferredSpec => []TimersOwned
<1>1. Whole /\ Deferring /\ [DeferredNext]_deferredVars =>
        Whole' /\ Deferring'
  BY DeferredStep
<1>2. Whole => TimersOwned
  BY DEF Whole, Course, Clock, TimersOwned
<1> QED
  BY <1>1, <1>2, DeferredStart, PTL DEF DeferredSpec

(* With the accept mutex, too, whatever handler waits for an event may be  *)
(* called for it when its turn comes, although others ran in between and   *)
(* may have freed or taken its connection.                                 *)
THEOREM TameDeferred == DeferredSpec => []NoWildHandler
<1>1. Whole /\ Deferring /\ [DeferredNext]_deferredVars =>
        Whole' /\ Deferring'
  BY DeferredStep
<1>2. Whole => NoWildHandler
  BY DEF Whole, IInv
<1> QED
  BY <1>1, <1>2, DeferredStart, PTL DEF DeferredSpec

(* Nor does it leave a handler where epoll will not call it.               *)
THEOREM HeardDeferred == DeferredSpec => []NoDeafHandler
<1>1. Whole /\ Deferring /\ [DeferredNext]_deferredVars =>
        Whole' /\ Deferring'
  BY DeferredStep
<1>2. Whole => NoDeafHandler
  BY HeardNotDeaf DEF Whole
<1> QED
  BY <1>1, <1>2, DeferredStart, PTL DEF DeferredSpec

(* Nor does it run out of tunnels or bodies before it runs out of          *)
(* connections, of which more are in use while accepted clients wait.      *)
THEOREM EnoughDeferred == DeferredSpec => []PoolsSuffice
<1>1. Whole /\ Deferring /\ [DeferredNext]_deferredVars =>
        Whole' /\ Deferring'
  BY DeferredStep
<1>2. Whole => PoolsSuffice
  BY CourseSuffices DEF Whole
<1> QED
  BY <1>1, <1>2, DeferredStart, PTL DEF DeferredSpec

(* A worker with the accept mutex keeps the promise of Sessions.           *)
THEOREM ServingDeferred == DeferredSpec => Implements
<1>1. Whole /\ Deferring /\ [DeferredNext]_deferredVars =>
        /\ Whole' /\ Deferring'
        /\ [Service!Next]_<<[c \in Conn |-> Phase(conn[c], c)],
                            [c \in Conn |-> Peer(conn[c], c)]>>
  BY DeferredStep DEF Session, phase, peer
<1> QED
  BY <1>1, DeferredStart, PTL DEF DeferredSpec, Implements, Service!Spec

-----------------------------------------------------------------------------
(* Nobody waits without a timer.                                           *)
(*                                                                         *)
(* EveryWaitTimed looks at a worker that sleeps; Attended says why it is   *)
(* so then: a tunnel in use has a handler running, or a timer armed, or is *)
(* a relay that epoll owes an event, or gave it one that is not yet looked *)
(* at.  That the relay is owed one rests on what nobody registered before  *)
(* https_start; that a handshake has its timer, on what else may be left   *)
(* on its connection; and that a relay's event arms one, on its handlers.  *)
Handshake == "ssl_handshake_handler"
Shakers == {"tunnel_local_handshake_handler",
            "tunnel_remote_handshake_handler"}
RelayHandlers == {"tunnel_transport_in_recv", "tunnel_transport_in_send",
                  "tunnel_transport_out_recv", "tunnel_transport_out_send"}

(* A handshake that waits, or looks for more, has its timer armed, and     *)
(* nothing else is left on its connection.                                 *)
Busy(c) == (\E d \in Dir : conn[c].h[d] = Handshake) \/ cur = [h |-> Handshake, c |-> c]
AwaitsPeer(c) ==
  LET k == conn[c]
  IN Busy(c) =>
       /\ \A d \in Dir : k.h[d] \in {"NULL", Handshake}
       /\ cur.c = c => cur.h \in Shakers \cup {Handshake}
       /\ \/ cur.c = c /\ cur.h \in Shakers
          \/ k.ssl = "init" /\ k.t[IF k.data = Null THEN "r" ELSE "w"] # Null

(* The side of a tunnel that speaks plain TCP has one event that nobody    *)
(* registers before the relay, or the answer, begins.                      *)
Plainly(c) ==
  LET k == conn[c]
      t == k.data
  IN IF Mode = "client"
       THEN t = Null \/ tun[t].down = c =>
              k.ssl = "none" /\ (k.f["w"] => t # Null /\ tun[t].relay)
       ELSE t # Null /\ tun[t].down # c =>
              k.ssl = "none" /\ (k.f["r"] => tun[t].resp \/ tun[t].relay)

(* A relay's connections have its handlers, and run no others.             *)
Relays(c) ==
  LET t == conn[c].data
  IN t # Null /\ tun[t].relay =>
       /\ \A d \in Dir : conn[c].h[d] \in RelayHandlers
       /\ cur.c = c => cur.h \in RelayHandlers

(* A client without a tunnel is at work, or in its handshake, or was just  *)
(* accepted.                                                               *)
Greeted(c) ==
  LET k == conn[c]
  IN k.used /\ k.data = Null =>
       \/ cur.c = c
       \/ k.ssl = "init" /\ k.t["r"] # Null
       \/ <<c, "r">> \in batch /\ k.h["r"] = "tunnel_local_init"

Minded(c) == AwaitsPeer(c) /\ Plainly(c) /\ Relays(c) /\ Greeted(c)

(* Of the two connections of a tunnel one is waited for, with an end.      *)
Awaited(c) == \/ Timed(c)
              \/ /\ tun[conn[c].data].relay
                 /\ conn[c].edge \/ <<c, "w">> \in batch
Tended(t) ==
  tun[t].used =>
    \/ cur.c # Null /\ T = t
    \/ \E c \in {tun[t].down, tun[t].up} \ {Null} : Awaited(c)

Attended == (\A c \in Conn : Minded(c)) /\ (\A t \in Tun : Tended(t))

-----------------------------------------------------------------------------
(* Steps.                                                                  *)

(* Two values of a tunnel, of which Minded holds for the second when it    *)
(* does for the first.                                                     *)
Level(z, y) ==
  y.down = z.down /\ y.relay = z.relay /\ (z.resp => y.resp)

(* The step is about the connections in S.                                 *)
Within(S) ==
  /\ batch \subseteq batch'
  /\ cur = Return \/ cur.c \in S
  /\ cur' = Return \/ cur'.c \in S
  /\ \A x \in Conn \ S :
       /\ conn'[x] = conn[x]
       /\ conn[x].data # Null =>
            Level(tun[conn[x].data], tun'[conn[x].data])
  /\ \A t \in Tun : tun'[t].used =>
       \/ Tended(t)'
       \/ tun'[t] = tun[t] /\ \A x \in Conn : x \in S => conn[x].data # t

(* The others are attended to as they were.                                *)
LEMMA AttendFrame ==
  ASSUME IInv, Attended, NEW S, Within(S),
         \A x \in Conn : x \in S => Minded(x)'
  PROVE  Attended'
<1> USE NameAssumption
<1>1. ASSUME NEW x \in Conn, x \notin S PROVE Minded(x)'
  <2>1. conn'[x] = conn[x] /\ Minded(x) /\ batch \subseteq batch'
    BY <1>1 DEF Attended, Within
  <2>2. cur.c # x /\ cur'.c # x
    BY <1>1 DEF Within, Return
  <2>3. conn[x].data # Null => Level(tun[conn[x].data], tun'[conn[x].data])
    BY <1>1 DEF Within
  <2>4. AwaitsPeer(x)'
    <3>1. Busy(x)' => Busy(x)
      BY <2>1, <2>2 DEF Busy
    <3> QED BY <2>1, <2>2, <3>1 DEF Minded, AwaitsPeer
  <2>5. Plainly(x)'
    BY <2>1, <2>3 DEF Minded, Plainly, Level
  <2>6. Relays(x)'
    BY <2>1, <2>2, <2>3 DEF Minded, Relays, Level
  <2>7. Greeted(x)'
    BY <2>1, <2>2 DEF Minded, Greeted
  <2> QED BY <2>4, <2>5, <2>6, <2>7 DEF Minded
<1>2. ASSUME NEW t \in Tun, tun'[t].used, tun'[t] = tun[t],
             \A x \in Conn : x \in S => conn[x].data # t
      PROVE  Tended(t)'
  <2>1. tun[t].used /\ Tended(t)
    BY <1>2 DEF Attended
  <2>2. ~(cur.c # Null /\ T = t)
    <3>1. cur # Return => cur.c \in Conn /\ cur.c \in S
      BY DEF IInv, TypeOK, Within
    <3> QED BY <1>2, <3>1 DEF Return, T
  <2>3. PICK c \in {tun[t].down, tun[t].up} \ {Null} : Awaited(c)
    BY <2>1, <2>2 DEF Tended
  <2>4. c \in Conn /\ conn[c].data = t
    BY <2>1, <2>3, Owned
  <2>5. conn'[c] = conn[c] /\ batch \subseteq batch'
    BY <1>2, <2>4 DEF Within
  <2>6. Awaited(c)'
    BY <1>2, <2>3, <2>4, <2>5 DEF Awaited, Timed
  <2> QED BY <1>2, <2>3, <2>6 DEF Tended
<1>3. \A t \in Tun : Tended(t)'
  BY <1>2 DEF Within, Tended
<1>4. \A x \in Conn : Minded(x)'
  BY <1>1
<1> QED BY <1>3, <1>4 DEF Attended

(* A connection that was given back to the pool.                           *)
LEMMA FreeMinded ==
  ASSUME NEW c, conn'[c] = FreeConn, cur'.c # c
  PROVE  Minded(c)'
<1>1. ~Busy(c)'
  BY DEF FreeConn, Busy, Handshake, Dir
<1> QED
  BY <1>1 DEF FreeConn, Minded, AwaitsPeer, Plainly, Relays, Greeted, Dir

(* Tunnel t ends.                                                          *)
LEMMA EndAttended ==
  ASSUME IInv, Attended, NEW t \in Tun, Ends(t), batch' = batch,
         cur = Return \/ cur.c \in {tun[t].down, tun[t].up}
  PROVE  Attended'
<1> USE NameAssumption
<1>1. PICK S : S = {tun[t].down, tun[t].up}
  OBVIOUS
<1>2. \A x \in Conn : x \in S => Minded(x)'
  BY <1>1, FreeMinded DEF Ends, Return
<1>3. /\ tun'[t] = FreeTun /\ \A y \in Tun \ {t} : tun'[y] = tun[y]
      /\ ~FreeTun.used
  BY DEF Ends, IInv, TypeOK, FreeTun
<1>4. ASSUME NEW x \in Conn \ S
      PROVE  /\ conn'[x] = conn[x]
             /\ conn[x].data # Null => Level(tun[conn[x].data], tun'[conn[x].data])
  <2>1. conn'[x] = conn[x]
    BY <1>1, <1>4 DEF Ends
  <2>2. conn[x].data # Null => conn[x].data \in Tun /\ conn[x].data # t
    BY <1>1, <1>4 DEF IInv, Ownership, TypeOK, Connection
  <2> QED BY <1>3, <2>1, <2>2 DEF Level
<1>5. \A x \in Conn : x \in S => conn[x].data \in {t, Null}
  BY <1>1, Owned DEF IInv, Ownership, FreeTun
<1>6. Within(S)
  BY <1>1, <1>3, <1>4, <1>5 DEF Within, Ends
<1> QED BY <1>2, <1>6, AttendFrame

(* A handler of tunnel T runs on one of its two connections.               *)
LEMMA AtEither ==
  ASSUME IInv, cur # Return, T \in Tun
  PROVE  /\ C \in Conn /\ conn[C] \in Connection /\ conn[C].data = T
         /\ tun[T].used /\ C \in {tun[T].down, tun[T].up} /\ C # Null
BY AtWork, NameAssumption DEF IInv, Ownership, T, C

(* tunnel_over from a handler of the tunnel.                               *)
LEMMA OverAttended ==
  ASSUME IInv, Attended, cur # Return, T \in Tun, tunnel_over(T),
         batch' = batch
  PROVE  Attended'
<1>1. Ends(T)
  BY DEF tunnel_over, net_free, Ends
<1>2. cur.c \in {tun[T].down, tun[T].up}
  BY AtEither DEF C
<1> QED BY <1>1, <1>2, EndAttended

(* tunnel_close_connection of a client without a tunnel.                   *)
LEMMA CloseAttended ==
  ASSUME IInv, Attended, NEW c \in Conn, conn[c].data = Null,
         tunnel_close_connection(c), batch' = batch, cur = Return \/ cur.c = c
  PROVE  Attended'
<1> USE NameAssumption
<1>1. /\ conn'[c] = FreeConn /\ \A x \in Conn \ {c} : conn'[x] = conn[x]
      /\ tun' = tun /\ cur' = Return
  BY DEF tunnel_close_connection, SetConn, net_free, IInv, TypeOK
<1>2. \A x \in Conn : x \in {c} => Minded(x)'
  BY <1>1, FreeMinded DEF Return
<1>3. Within({c})
  BY <1>1 DEF Within, Level
<1> QED BY <1>2, <1>3, AttendFrame

(* What a handler that is not of the handshake, nor of the relay, finds.   *)
LEMMA Unrelayed ==
  ASSUME IInv, Attended, cur # Return, T \in Tun, cur.h \notin RelayHandlers
  PROVE  ~tun[T].relay
BY AtEither, NameAssumption DEF Attended, Minded, Relays, C

(* No handshake is left on its connection,                                 *)
LEMMA Unshaken ==
  ASSUME IInv, Attended, cur # Return, cur.h \notin Shakers \cup {Handshake}
  PROVE  \A d \in Dir : conn[C].h[d] # Handshake
BY AtWork DEF Attended, Minded, AwaitsPeer, Busy, C

(* nor on a tunnel's client,                                               *)
LEMMA ClientUnshaken ==
  ASSUME IInv, NEW t \in Tun, tun[t].used, NEW c, c = tun[t].down
  PROVE  \A d \in Dir : conn[c].h[d] # Handshake
BY Owned, NameAssumption
   DEF IInv, NoWildHandler, SafeEvents, Needs, Handshake

(* nor on an upstream connection that answers.                             *)
LEMMA AnswerUnshaken ==
  ASSUME IInv, Course, NEW t \in Tun, tun[t].used, tun[t].resp,
         tun[t].up \in Conn
  PROVE  \A d \in Dir : conn[tun[t].up].h[d] # Handshake
BY Owned, NameAssumption DEF Course, OnCourse, Due, Early, Handshake

(* A timer of tunnel t is armed, and the handler returns.                  *)
Arms(t, c, d) ==
  /\ tun[t].used /\ conn[c].data = t
  /\ conn' = [conn EXCEPT ![c] = timer_add(@, d, t)]
  /\ \A x \in Tun \ {t} : tun'[x] = tun[x]
  /\ Level(tun[t], tun'[t]) /\ tun'[t].up = tun[t].up
  /\ batch' = batch /\ cur' = Return
  /\ cur # Return /\ T = t /\ cur.h \notin Shakers \cup {Handshake}

(* Then the tunnel is waited for.                                          *)
LEMMA ArmsAttended ==
  ASSUME IInv, Attended, NEW t \in Tun, NEW c \in Conn, NEW d \in Dir,
         Arms(t, c, d)
  PROVE  Attended'
<1> USE NameAssumption
<1>1. PICK j \in Connection : j = conn[c]
  BY DEF IInv, TypeOK
<1>2. PICK k : k = timer_add(j, d, t)
  OBVIOUS
<1>3. t \in Timer
  BY DEF Timer
<1>4. /\ k.used = j.used /\ k.data = j.data /\ k.h = j.h /\ k.ssl = j.ssl
      /\ k.t = [j.t EXCEPT ![d] = t] /\ k.f = j.f
  BY <1>2, <1>3, TimerAdd, TimerWires DEF SameWires
<1>5. conn'[c] = k /\ \A x \in Conn \ {c} : conn'[x] = conn[x]
  BY <1>1, <1>2 DEF Arms, IInv, TypeOK
<1>6. C \in Conn /\ conn[C].data = t /\ cur.c = C /\ C # Null
  BY AtEither DEF Arms, C
<1>7. PICK S : S = {x \in Conn : conn[x].data = t}
  OBVIOUS
<1>8. \A e \in Dir : j.t[e] # Null => k.t[e] # Null
  BY <1>4 DEF Connection
<1>9. ASSUME NEW x \in S PROVE Minded(x)'
  <2>1. PICK i, n : i = conn[x] /\ n = conn'[x]
    OBVIOUS
  <2>2. /\ n.used = i.used /\ n.data = i.data /\ n.h = i.h /\ n.ssl = i.ssl
        /\ \A e \in Dir : i.t[e] # Null => n.t[e] # Null
        /\ n.f = i.f /\ i.data = t
    BY <1>1, <1>4, <1>5, <1>7, <1>8, <2>1
  <2>3. x \in Conn /\ x # Null /\ cur'.c = Null /\ cur'.h = "NULL" /\ t # Null
    BY <1>7 DEF Arms, Return
  <2>4. Minded(x)
    BY <2>3 DEF Attended
  <2>5. AwaitsPeer(x)'
    <3>1. Busy(x)' => Busy(x)
      BY <2>1, <2>2, <2>3 DEF Busy
    <3>2. "r" \in Dir /\ "w" \in Dir
      BY DEF Dir
    <3>3. cur.h \notin Shakers
      BY DEF Arms
    <3> QED BY <2>1, <2>2, <2>3, <2>4, <3>1, <3>2, <3>3 DEF Minded, AwaitsPeer
  <2>6. Plainly(x)'
    BY <2>1, <2>2, <2>4 DEF Minded, Plainly, Arms, Level
  <2>7. Relays(x)'
    BY <2>1, <2>2, <2>3, <2>4 DEF Minded, Relays, Arms, Level
  <2>8. Greeted(x)'
    BY <2>1, <2>2, <2>3 DEF Greeted
  <2> QED BY <2>5, <2>6, <2>7, <2>8 DEF Minded
<1>10. Tended(t)'
  <2>1. c \in {tun[t].down, tun[t].up} /\ c # Null
    BY DEF Arms, IInv, Ownership
  <2>2. Timed(c)'
    <3>1. k.t[d] # Null
      BY <1>4 DEF Connection
    <3> QED BY <1>5, <3>1 DEF Timed
  <2> QED BY <2>1, <2>2 DEF Tended, Awaited, Arms, Level
<1>11. \A x \in Conn \ S : conn[x].data \in (Tun \ {t}) \cup {Null}
  BY <1>7 DEF IInv, TypeOK, Connection
<1>12. \A x \in Tun \ {t} : Level(tun[x], tun'[x])
  BY DEF Level, Arms
<1>13. c \in S /\ cur.c \in S
  BY <1>6, <1>7 DEF Arms
<1>14. Within(S)
  BY <1>5, <1>7, <1>10, <1>11, <1>12, <1>13 DEF Within, Arms
<1> QED BY <1>9, <1>14, AttendFrame

(* Await on either side.                                                   *)
LEMMA AwaitAttended ==
  ASSUME IInv, Attended, NEW c \in Conn, NEW d \in Dir, T \in Tun,
         conn[c].data = T, Await(c, d), batch' = batch,
         cur # Return, cur.h \notin Shakers \cup {Handshake}
  PROVE  Attended'
<1>1. conn' = [conn EXCEPT ![c] = timer_add(@, d, T)] /\ tun' = tun
  BY DEF Await, SetConn, IInv, TypeOK
<1>2. tun[T].used /\ cur' = Return
  BY AtEither DEF Await
<1>3. Arms(T, c, d)
  BY <1>1, <1>2 DEF Arms, Level
<1> QED BY <1>3, ArmsAttended

-----------------------------------------------------------------------------
(* Handing on from one handler to the next of the same tunnel.             *)

(* Connection c becomes k: no handshake is on it, and on the plain side    *)
(* nothing is registered that must not be.                                 *)
Fit(c, k, y) ==
  /\ k.used = conn[c].used /\ k.data = conn[c].data
  /\ \A d \in Dir : k.h[d] # Handshake
  /\ IF Mode = "client"
       THEN y.down = c =>
              k.ssl = conn[c].ssl /\ (k.f["w"] => conn[c].f["w"])
       ELSE y.down # c =>
              k.ssl = conn[c].ssl /\ (k.f["r"] => conn[c].f["r"] \/ y.resp)

(* Tunnel t goes on, from one of its connections to one of them.           *)
GoesOn(t, S) ==
  /\ tun[t].used /\ tun'[t].used /\ cur # Return /\ T = t
  /\ cur.h \notin RelayHandlers
  /\ Level(tun[t], tun'[t]) /\ tun'[t].up = tun[t].up
  /\ \A x \in Tun \ {t} : tun'[x] = tun[x]
  /\ C \in S /\ batch' = batch
  /\ \A x \in S : conn[x].data = t /\ Fit(x, conn'[x], tun'[t])
  /\ \A x \in Conn \ S : conn'[x] = conn[x]
  /\ \/ cur'.c \in S /\ cur'.h # Handshake
     \/ cur' = Return /\ \E x \in S : Timed(x)'

(* Then it is attended to.                                                 *)
LEMMA PassesAttended ==
  ASSUME IInv, Attended, NEW t \in Tun, NEW S \in SUBSET Conn, GoesOn(t, S)
  PROVE  Attended'
<1> USE NameAssumption
<1>1. ~tun[t].relay /\ ~tun'[t].relay
  BY Unrelayed DEF GoesOn, Level
<1>2. ASSUME NEW x \in S PROVE Minded(x)'
  <2>1. PICK i, k : i = conn[x] /\ k = conn'[x]
    OBVIOUS
  <2>2. i.data = t /\ k.data = t /\ Fit(x, k, tun'[t])
    BY <2>1 DEF GoesOn, Fit
  <2>3. Minded(x) /\ x \in Conn /\ x # Null
    BY DEF Attended
  <2>4. AwaitsPeer(x)'
    <3>1. cur'.c = x => cur'.h # Handshake
      BY <2>3 DEF GoesOn, Return
    <3>2. ~Busy(x)'
      BY <2>1, <2>2, <3>1 DEF Fit, Busy
    <3> QED BY <3>2 DEF AwaitsPeer
  <2>5. Plainly(x)'
    BY <1>1, <2>1, <2>2, <2>3 DEF Minded, Plainly, Fit, GoesOn, Level
  <2>6. Relays(x)'
    BY <1>1, <2>1, <2>2 DEF Relays
  <2>7. Greeted(x)'
    BY <2>1, <2>2 DEF Greeted
  <2> QED BY <2>4, <2>5, <2>6, <2>7 DEF Minded
<1>3. Tended(t)'
  <2>1. CASE cur'.c \in S
    <3>1. conn'[cur'.c].data = t /\ cur'.c # Null
      BY <2>1 DEF GoesOn, Fit
    <3> QED BY <3>1 DEF Tended, T
  <2>2. ASSUME NEW x \in S, Timed(x)' PROVE Tended(t)'
    <3>1. x \in {tun[t].down, tun[t].up} \ {Null}
      BY DEF GoesOn, IInv, Ownership
    <3> QED BY <2>2, <3>1 DEF Tended, Awaited, GoesOn, Level
  <2> QED BY <2>1, <2>2 DEF GoesOn
<1>4. ASSUME NEW x \in Conn \ S
      PROVE  conn[x].data # Null =>
               Level(tun[conn[x].data], tun'[conn[x].data])
  BY DEF GoesOn, Level, IInv, TypeOK, Connection
<1>5. Within(S)
  BY <1>3, <1>4 DEF Within, GoesOn, C
<1> QED BY <1>2, <1>5, AttendFrame

(* A handler g that is neither of the handshake nor of the relay.          *)
Ordinary(h) == h \notin Shakers \cup {Handshake} \cup RelayHandlers

(* Nothing that Level looks at changes of the tunnels.                     *)
LEMMA SameLevel ==
  ASSUME tun' = tun
  PROVE  \A t : Level(tun[t], tun'[t]) /\ tun'[t] = tun[t]
BY DEF Level

(* The handler of one connection hands on to the next, g.                  *)
Next1(t, c, j, d, g) ==
  /\ t = T /\ c = C /\ cur # Return /\ Ordinary(cur.h)
  /\ j = conn[c] \/ j = timer_del(conn[c], "r") \/ j = timer_del(conn[c], "w")
  /\ SetConn(c, [j EXCEPT !.h[d] = g]) /\ Call(g, c) /\ g # Handshake
  /\ Level(tun[t], tun'[t]) /\ tun'[t].used /\ tun'[t].up = tun[t].up
  /\ \A x \in Tun \ {t} : tun'[x] = tun[x]
  /\ batch' = batch

(* Its tunnel is at work, as it was.                                       *)
LEMMA Next1Attended ==
  ASSUME IInv, Attended, NEW t \in Tun, NEW c \in Conn, NEW j, NEW d \in Dir,
         NEW g, Next1(t, c, j, d, g)
  PROVE  Attended'
<1>1. /\ conn[c] \in Connection /\ conn[c].data = t /\ tun[t].used
      /\ \A e \in Dir : conn[c].h[e] # Handshake
  BY AtEither, Unshaken DEF Next1, Ordinary
<1>2. PICK i \in Connection : i = conn[c]
  BY <1>1
<1>3. /\ j \in Connection /\ j.used = i.used /\ j.data = i.data
      /\ j.h = i.h /\ j.ssl = i.ssl /\ j.f = i.f
  BY <1>2, Untimed, TimerWires DEF Next1, SameWires, Dir
<1>4. PICK k : k = [j EXCEPT !.h[d] = g]
  OBVIOUS
<1>5. /\ k.used = j.used /\ k.data = j.data /\ k.ssl = j.ssl
      /\ k.h = [j.h EXCEPT ![d] = g] /\ k.f = j.f
  BY <1>3, <1>4 DEF Connection
<1>6. \A e \in Dir : k.h[e] # Handshake
  BY <1>1, <1>2, <1>3, <1>5 DEF Connection, Next1
<1>7. conn'[c] = k /\ \A x \in Conn \ {c} : conn'[x] = conn[x]
  BY <1>4 DEF Next1, SetConn, IInv, TypeOK
<1>8. Fit(c, k, tun'[t])
  BY <1>2, <1>3, <1>5, <1>6 DEF Fit
<1>9. cur'.c = c /\ cur'.h # Handshake
  BY DEF Next1, Call
<1>10. PICK S \in SUBSET Conn : S = {c}
  OBVIOUS
<1>11. GoesOn(t, S)
  BY <1>1, <1>7, <1>8, <1>9, <1>10 DEF GoesOn, Next1, Ordinary
<1> QED BY <1>11, PassesAttended

-----------------------------------------------------------------------------
(* The request.                                                            *)

(* tunnel_local_process_request.                                           *)
LEMMA ProcessRequestAttended ==
  ASSUME IInv, Attended, batch' = batch, tunnel_local_process_request
  PROVE  Attended'
<1>0. cur.h = "tunnel_local_process_request" /\ cur.h \in DownHandlers
      /\ Ordinary(cur.h)
  BY DEF tunnel_local_process_request, In, DownHandlers, Ordinary, Shakers,
     Handshake, RelayHandlers
<1>1. PICK c \in Conn, t \in Tun : c = C /\ t = T
  BY <1>0, AtDown
<1>2. cur # Return /\ tun[t] \in Tunnel /\ tun[t].used /\ conn[c].data = t
  BY <1>0, <1>1, AtDown
<1>3. CASE tunnel_over(T)
  BY <1>1, <1>2, <1>3, OverAttended
<1>4. CASE Await(C, "r")
  BY <1>0, <1>1, <1>2, <1>4, AwaitAttended DEF Dir, Ordinary
<1>5. ASSUME NEW https \in BOOLEAN, NEW keep \in BOOLEAN, NEW body \in BOOLEAN,
             tun' = [tun EXCEPT ![t].https = https, ![t].keep = keep,
                                ![t].body = body],
             SetConn(c, [timer_del(conn[c], "r") EXCEPT
                 !.h["r"] = "tunnel_local_process_procotol"]),
             Call("tunnel_local_process_procotol", c)
      PROVE  Attended'
  <2>1. PICK z : z = [tun[t] EXCEPT !.https = https, !.keep = keep,
                                    !.body = body]
    OBVIOUS
  <2>2. Level(tun[t], z) /\ z.used /\ z.up = tun[t].up
    BY <1>2, <2>1 DEF Tunnel, Level
  <2>3. tun'[t] = z /\ \A x \in Tun \ {t} : tun'[x] = tun[x]
    BY <1>5, <2>1 DEF IInv, TypeOK
  <2>4. PICK j, g : /\ j = timer_del(conn[c], "r")
                    /\ g = "tunnel_local_process_procotol"
    OBVIOUS
  <2>5. Next1(t, c, j, "r", g)
    BY <1>0, <1>1, <1>2, <1>5, <2>2, <2>3, <2>4 DEF Next1, Handshake
  <2> QED BY <2>5, Next1Attended DEF Dir
<1> QED
  BY <1>1, <1>3, <1>4, <1>5 DEF tunnel_local_process_request

(* tunnel_local_process_procotol.                                          *)
LEMMA ProcessProcotolAttended ==
  ASSUME IInv, Attended, batch' = batch, tunnel_local_process_procotol
  PROVE  Attended'
<1>0. cur.h = "tunnel_local_process_procotol" /\ cur.h \in DownHandlers
      /\ Ordinary(cur.h)
  BY DEF tunnel_local_process_procotol, In, DownHandlers, Ordinary, Shakers,
     Handshake, RelayHandlers
<1>1. PICK c \in Conn, t \in Tun : c = C /\ t = T
  BY <1>0, AtDown
<1>2. cur # Return /\ tun[t] \in Tunnel /\ tun[t].used
  BY <1>0, <1>1, AtDown
<1>3. CASE tunnel_over(T)
  BY <1>1, <1>2, <1>3, OverAttended
<1>4. PICK w \in BOOLEAN : w = (~tun[t].https /\ tun[t].body)
  OBVIOUS
<1>5. PICK g : g = IF w THEN "tunnel_local_process_body"
                        ELSE "tunnel_remote_init"
  OBVIOUS
<1>6. CASE /\ tun' = [tun EXCEPT ![t].reqBody = @ \/ w]
           /\ SetConn(c, [conn[c] EXCEPT !.h["r"] = g])
           /\ Call(g, c)
  <2>1. PICK z : z = [tun[t] EXCEPT !.reqBody = @ \/ w]
    OBVIOUS
  <2>2. Level(tun[t], z) /\ z.used /\ z.up = tun[t].up
    BY <1>2, <2>1 DEF Tunnel, Level
  <2>3. tun'[t] = z /\ \A x \in Tun \ {t} : tun'[x] = tun[x]
    BY <1>6, <2>1 DEF IInv, TypeOK
  <2>4. PICK j : j = conn[c]
    OBVIOUS
  <2>5. Next1(t, c, j, "r", g)
    BY <1>0, <1>1, <1>2, <1>5, <1>6, <2>2, <2>3, <2>4 DEF Next1, Handshake
  <2> QED BY <2>5, Next1Attended DEF Dir
<1> QED
  BY <1>1, <1>3, <1>4, <1>5, <1>6 DEF tunnel_local_process_procotol

(* tunnel_local_process_body.                                              *)
LEMMA ProcessBodyAttended ==
  ASSUME IInv, Attended, batch' = batch, tunnel_local_process_body
  PROVE  Attended'
<1>0. cur.h = "tunnel_local_process_body" /\ cur.h \in DownHandlers
      /\ Ordinary(cur.h)
  BY DEF tunnel_local_process_body, In, DownHandlers, Ordinary, Shakers,
     Handshake, RelayHandlers
<1>1. PICK c \in Conn, t \in Tun : c = C /\ t = T
  BY <1>0, AtDown
<1>2. cur # Return /\ tun[t].used /\ conn[c].data = t
  BY <1>0, <1>1, AtDown
<1>3. CASE tunnel_over(T)
  BY <1>1, <1>2, <1>3, OverAttended
<1>4. CASE Await(C, "r")
  BY <1>0, <1>1, <1>2, <1>4, AwaitAttended DEF Dir, Ordinary
<1>5. CASE /\ SetConn(c, [timer_del(conn[c], "r") EXCEPT
                            !.h["r"] = "tunnel_remote_init"])
           /\ tun' = tun /\ Call("tunnel_remote_init", c)
  <2>1. PICK j, g : j = timer_del(conn[c], "r") /\ g = "tunnel_remote_init"
    OBVIOUS
  <2>2. Next1(t, c, j, "r", g)
    BY <1>0, <1>1, <1>2, <1>5, <2>1, SameLevel DEF Next1, Handshake
  <2> QED BY <2>2, Next1Attended DEF Dir
<1> QED
  BY <1>1, <1>3, <1>4, <1>5 DEF tunnel_local_process_body

-----------------------------------------------------------------------------
(* Greeting, and the SSL handshake on either side.                         *)

(* Connection c, of tunnel t or of none, becomes k, and waits for its      *)
(* handshake.                                                              *)
Offers(c, k) ==
  LET t == conn[c].data
  IN /\ c = C /\ cur # Return /\ cur' = Return /\ batch' = batch
     /\ tun' = tun /\ conn' = [conn EXCEPT ![c] = k]
     /\ k.used = conn[c].used /\ k.data = t
     /\ \A d \in Dir : k.h[d] \in {"NULL", Handshake}
     /\ k.ssl = "init"
     /\ k.t[IF t = Null THEN "r" ELSE "w"] # Null
     /\ IF Mode = "client" THEN t # Null /\ tun[t].up = c ELSE t = Null
     /\ t # Null => ~tun[t].relay

(* Such a handler leaves the timer of the handshake.                       *)
LEMMA OffersAttended ==
  ASSUME IInv, Attended, NEW c \in Conn, NEW k, Offers(c, k)
  PROVE  Attended'
<1> USE NameAssumption
<1>1. PICK t : t = conn[c].data
  OBVIOUS
<1>2. conn'[c] = k /\ \A x \in Conn \ {c} : conn'[x] = conn[x]
  BY DEF Offers, IInv, TypeOK
<1>3. t \in Tun \cup {Null} /\ c # Null /\ cur'.c # c
  BY <1>1 DEF IInv, TypeOK, Connection, Offers, Return
<1>4. t # Null => tun[t].used /\ c \in {tun[t].down, tun[t].up}
                  /\ tun[t].up # tun[t].down
  BY <1>1, <1>3 DEF IInv, Ownership
<1>5. Minded(c)'
  <2>1. AwaitsPeer(c)'
    BY <1>1, <1>2, <1>3 DEF AwaitsPeer, Offers
  <2>2. Plainly(c)'
    BY <1>1, <1>2, <1>4 DEF Plainly, Offers
  <2>3. Relays(c)'
    BY <1>1, <1>2 DEF Relays, Offers
  <2>4. Greeted(c)'
    BY <1>1, <1>2 DEF Greeted, Offers
  <2> QED BY <2>1, <2>2, <2>3, <2>4 DEF Minded
<1>6. ASSUME t # Null PROVE Tended(t)'
  <2>1. Timed(c)'
    BY <1>1, <1>2, <1>6 DEF Timed, Offers, Dir
  <2> QED BY <1>3, <1>4, <1>6, <2>1 DEF Tended, Awaited, Offers
<1>7. \A x \in Tun : x # t => conn[c].data # x
  BY <1>1
<1>8. Within({c})
  BY <1>2, <1>6, <1>7, SameLevel DEF Within, Offers, C
<1> QED BY <1>5, <1>8, AttendFrame

(* Connection c, of tunnel t or of none, becomes k and calls what comes    *)
(* after its handshake, or first on a plain connection.                    *)
Greets1(c, k) ==
  LET t == conn[c].data
  IN /\ c = C /\ cur # Return /\ cur'.c = c /\ batch' = batch
     /\ tun' = tun /\ conn' = [conn EXCEPT ![c] = k]
     /\ k.used = conn[c].used /\ k.data = t
     /\ \/ cur'.h \in Shakers /\ \A d \in Dir : k.h[d] \in {"NULL", Handshake}
        \/ cur'.h # Handshake /\ \A d \in Dir : k.h[d] # Handshake
     /\ IF Mode = "client"
          THEN \/ t # Null /\ tun[t].up = c
               \/ /\ t = Null /\ k.ssl = conn[c].ssl
                  /\ k.f["w"] => conn[c].f["w"]
          ELSE t = Null
     /\ t # Null => ~tun[t].relay

(* Such a handler goes on for its client.                                  *)
LEMMA Greets1Attended ==
  ASSUME IInv, Attended, NEW c \in Conn, NEW k, Greets1(c, k)
  PROVE  Attended'
<1> USE NameAssumption
<1>1. PICK t : t = conn[c].data
  OBVIOUS
<1>2. conn'[c] = k /\ \A x \in Conn \ {c} : conn'[x] = conn[x]
  BY DEF Greets1, IInv, TypeOK
<1>3. t \in Tun \cup {Null} /\ c # Null
  BY <1>1 DEF IInv, TypeOK, Connection
<1>4. t # Null => tun[t].used /\ c \in {tun[t].down, tun[t].up}
                  /\ tun[t].up # tun[t].down
  BY <1>1, <1>3 DEF IInv, Ownership
<1>5. Minded(c)'
  <2>1. AwaitsPeer(c)'
    <3>1. Handshake \notin Shakers
      BY DEF Handshake, Shakers
    <3>2. CASE cur'.h \in Shakers /\ \A d \in Dir : k.h[d] \in {"NULL", Handshake}
      BY <1>2, <3>1, <3>2 DEF AwaitsPeer, Greets1
    <3>3. CASE cur'.h # Handshake /\ \A d \in Dir : k.h[d] # Handshake
      <4>1. ~Busy(c)'
        BY <1>2, <3>3 DEF Busy
      <4> QED BY <4>1 DEF AwaitsPeer
    <3> QED BY <3>2, <3>3 DEF Greets1
  <2>2. Plainly(c)'
    <3>1. Plainly(c)
      BY DEF Attended, Minded
    <3> QED BY <1>1, <1>2, <1>4, <3>1 DEF Plainly, Greets1
  <2>3. Relays(c)'
    BY <1>1, <1>2 DEF Relays, Greets1
  <2>4. Greeted(c)'
    BY <1>1, <1>2 DEF Greeted, Greets1
  <2> QED BY <2>1, <2>2, <2>3, <2>4 DEF Minded
<1>6. ASSUME t # Null PROVE Tended(t)'
  <2>1. conn'[cur'.c].data = t /\ cur'.c # Null
    BY <1>1, <1>2, <1>3, <1>6 DEF Greets1
  <2> QED BY <2>1 DEF Tended, T
<1>7. \A x \in Tun : x # t => conn[c].data # x
  BY <1>1
<1>8. Within({c})
  BY <1>2, <1>6, <1>7, SameLevel DEF Within, Greets1, C
<1> QED BY <1>5, <1>8, AttendFrame

(* event_opt registers its event only.                                     *)
LEMMA OptOnly ==
  ASSUME NEW k \in Connection, NEW d \in Dir
  PROVE  \A e \in Dir : event_opt(k, d).f[e] => k.f[e] \/ e = d
<1>1. CASE k.f[d]
  BY <1>1 DEF event_opt
<1>2. CASE ~k.f[d]
  <2>1. event_opt(k, d).f = [k.f EXCEPT ![d] = TRUE]
    BY <1>2 DEF event_opt, Connection
  <2> QED BY <2>1 DEF Connection
<1> QED BY <1>1, <1>2

(* tunnel_local_init.                                                      *)
LEMMA LocalInitAttended ==
  ASSUME IInv, Attended, batch' = batch, tunnel_local_init
  PROVE  Attended'
<1> USE NameAssumption
<1>0. cur.h \in GreetHandlers /\ Ordinary(cur.h)
  BY DEF tunnel_local_init, In, GreetHandlers, Ordinary, Shakers, Handshake,
     RelayHandlers
<1>1. PICK c \in Conn : c = C
  BY <1>0, AtGreet
<1>2. /\ conn[c] \in Connection /\ conn[c].used /\ conn[c].data = Null
      /\ cur # Return /\ \A d \in Dir : conn[c].h[d] # Handshake
  BY <1>0, <1>1, AtGreet, Unshaken DEF Ordinary
<1>3. CASE /\ Mode # "server" /\ tun' = tun
           /\ SetConn(c, [conn[c] EXCEPT !.h["r"] = "tunnel_local_start"])
           /\ Call("tunnel_local_start", c)
  <2>1. PICK k : k = [conn[c] EXCEPT !.h["r"] = "tunnel_local_start"]
    OBVIOUS
  <2>2. /\ k.used = conn[c].used /\ k.data = Null /\ k.ssl = conn[c].ssl
        /\ k.f = conn[c].f /\ k.h = [conn[c].h EXCEPT !["r"] = "tunnel_local_start"]
    BY <1>2, <2>1 DEF Connection
  <2>3. \A d \in Dir : k.h[d] # Handshake
    BY <1>2, <2>2 DEF Connection, Handshake
  <2>4. cur'.h # Handshake /\ cur'.c = c
    BY <1>3 DEF Call, Handshake
  <2>5. Greets1(c, k)
    BY <1>1, <1>2, <1>3, <2>1, <2>2, <2>3, <2>4 DEF Greets1, SetConn
  <2> QED BY <2>5, Greets1Attended
<1>4. ASSUME NEW d \in Dir, Mode = "server", cur' = Return, tun' = tun,
             SetConn(c, [timer_add(ssl_want(conn[c], d), "r", c) EXCEPT
                 !.ssl = "init", !.sslh = "tunnel_local_handshake_handler"])
      PROVE  Attended'
  <2>1. PICK j \in Connection : j = conn[c]
    BY <1>2
  <2>2. PICK k : k = Wanting(j, d, "r", c, "tunnel_local_handshake_handler")
    OBVIOUS
  <2>3. c \in Timer /\ "r" \in Dir
    BY DEF Timer, Dir
  <2>4. /\ k.used = j.used /\ k.data = j.data /\ k.ssl = "init"
        /\ \A y \in Dir : k.h[y] \in {"NULL", Handshake}
        /\ k.t = [j.t EXCEPT !["r"] = c]
    BY <2>1, <2>2, <2>3, Wants DEF Handshake
  <2>5. k.t["r"] # Null
    BY <2>3, <2>4 DEF Connection
  <2>6. Offers(c, k)
    BY <1>1, <1>2, <1>4, <2>1, <2>2, <2>4, <2>5 DEF Offers, SetConn, Wanting
  <2> QED BY <2>6, OffersAttended
<1>5. CASE /\ Mode = "server" /\ tun' = tun
           /\ SetConn(c, [conn[c] EXCEPT !.ssl = "handshaked"])
           /\ Call("tunnel_local_handshake_handler", c)
  <2>1. PICK k : k = [conn[c] EXCEPT !.ssl = "handshaked"]
    OBVIOUS
  <2>2. /\ k.used = conn[c].used /\ k.data = Null
        /\ \A d \in Dir : k.h[d] # Handshake
    BY <1>2, <2>1 DEF Connection
  <2>3. cur'.h # Handshake /\ cur'.c = c
    BY <1>5 DEF Call, Handshake
  <2>4. Greets1(c, k)
    BY <1>1, <1>2, <1>5, <2>1, <2>2, <2>3 DEF Greets1, SetConn
  <2> QED BY <2>4, Greets1Attended
<1>6. CASE tunnel_close_connection(c)
  BY <1>1, <1>2, <1>6, CloseAttended DEF C
<1> QED
  BY <1>1, <1>3, <1>4, <1>5, <1>6 DEF tunnel_local_init

(* ssl_handshake_handler: the timer that was armed with it is still there. *)
LEMMA SslAttended ==
  ASSUME IInv, Attended, batch' = batch, ssl_handshake_handler
  PROVE  Attended'
<1> USE NameAssumption
<1>0. cur.h = Handshake /\ cur # Return /\ tun' = tun
  BY DEF ssl_handshake_handler, In, Return, Handshake
<1>1. PICK c \in Conn : c = C
  BY <1>0, AtWork
<1>2. /\ conn[c] \in Connection /\ conn[c].used
      /\ Needs(Handshake, c) /\ conn[c].data \in Tun \cup {Null}
  BY <1>0, <1>1, AtWork DEF Connection
<1>3. PICK t : t = conn[c].data
  OBVIOUS
<1>4. Busy(c)
  <2>1. cur \in [h : Handlers, c : Conn]
    BY <1>0 DEF IInv, TypeOK
  <2>2. cur = [h |-> Handshake, c |-> c]
    BY <1>0, <1>1, <2>1 DEF C
  <2> QED BY <2>2 DEF Busy
<1>5. Handshake \notin Shakers \cup RelayHandlers
  BY DEF Handshake, Shakers, RelayHandlers
<1>6. /\ \A d \in Dir : conn[c].h[d] \in {"NULL", Handshake}
      /\ conn[c].ssl = "init"
      /\ conn[c].t[IF t = Null THEN "r" ELSE "w"] # Null
  BY <1>0, <1>1, <1>3, <1>4, <1>5 DEF Attended, Minded, AwaitsPeer, C
<1>7. /\ t = Null => conn[c].sslh = "tunnel_local_handshake_handler"
      /\ t # Null => /\ tun[t].up = c
                     /\ conn[c].sslh = "tunnel_remote_handshake_handler"
  BY <1>2, <1>3 DEF Needs, Handshake
<1>8. t # Null => tun[t].used /\ tun[t].down # c
  BY <1>2, <1>3, <1>7 DEF IInv, Ownership
<1>9. IF Mode = "client" THEN t # Null ELSE t = Null
  BY <1>3, <1>6, <1>8 DEF Attended, Minded, Plainly
<1>10. t # Null => ~tun[t].relay
  BY <1>0, <1>1, <1>3, <1>5 DEF Attended, Minded, Relays, C
<1>11. ASSUME NEW d \in Dir, SetConn(c, ssl_want(conn[c], d)), cur' = Return
       PROVE  Attended'
  <2>1. PICK k : k = ssl_want(conn[c], d)
    OBVIOUS
  <2>2. /\ k.used = conn[c].used /\ k.data = conn[c].data /\ k.t = conn[c].t
        /\ k.h = [e \in Dir |-> IF e = d THEN Handshake ELSE "NULL"]
        /\ k.ssl = conn[c].ssl
    BY <1>2, <2>1, SslWant DEF Handshake
  <2>3. Offers(c, k)
    BY <1>0, <1>1, <1>3, <1>6, <1>7, <1>9, <1>10, <1>11, <2>1, <2>2
       DEF Offers, SetConn
  <2> QED BY <2>3, OffersAttended
<1>12. ASSUME NEW v, SetConn(c, [conn[c] EXCEPT !.ssl = v]),
              Call(conn[c].sslh, c)
       PROVE  Attended'
  <2>1. PICK k : k = [conn[c] EXCEPT !.ssl = v]
    OBVIOUS
  <2>2. /\ k.used = conn[c].used /\ k.data = conn[c].data
        /\ k.h = conn[c].h
    BY <1>2, <2>1 DEF Connection
  <2>3. cur'.h \in Shakers /\ cur'.c = c
    BY <1>7, <1>12 DEF Call, Shakers
  <2>4. Greets1(c, k)
    BY <1>0, <1>1, <1>3, <1>6, <1>7, <1>9, <1>10, <1>12, <2>1, <2>2, <2>3
       DEF Greets1, SetConn
  <2> QED BY <2>4, Greets1Attended
<1> QED
  BY <1>1, <1>11, <1>12 DEF ssl_handshake_handler

(* tunnel_local_handshake_handler.                                         *)
LEMMA LocalHandshakeAttended ==
  ASSUME IInv, Attended, batch' = batch, tunnel_local_handshake_handler
  PROVE  Attended'
<1>0. cur.h \in GreetHandlers
  BY DEF tunnel_local_handshake_handler, In, GreetHandlers
<1>1. PICK c \in Conn : c = C
  BY <1>0, AtGreet
<1>2. conn[c] \in Connection /\ conn[c].data = Null /\ cur # Return
  BY <1>0, <1>1, AtGreet
<1>3. CASE /\ SetConn(c, [timer_del(conn[c], "r") EXCEPT
                            !.h = Both("tunnel_local_start", "NULL")])
           /\ Call("tunnel_local_start", c) /\ tun' = tun
  <2>1. PICK i \in Connection : i = conn[c]
    BY <1>2
  <2>2. PICK j : j = timer_del(i, "r")
    OBVIOUS
  <2>3. /\ j \in Connection /\ j.used = i.used /\ j.data = i.data
        /\ j.ssl = i.ssl /\ j.f = i.f
    BY <2>2, TimerDel, TimerWires DEF SameWires, Dir
  <2>4. PICK k : k = [j EXCEPT !.h = Both("tunnel_local_start", "NULL")]
    OBVIOUS
  <2>5. /\ k.used = j.used /\ k.data = j.data /\ k.ssl = j.ssl /\ k.f = j.f
        /\ k.h = Both("tunnel_local_start", "NULL")
    BY <2>3, <2>4 DEF Connection
  <2>6. \A d \in Dir : k.h[d] # Handshake
    BY <2>5 DEF Both, Dir, Handshake
  <2>7. cur'.h # Handshake /\ cur'.c = c
    BY <1>3 DEF Call, Handshake
  <2>8. Greets1(c, k)
    BY <1>1, <1>2, <1>3, <2>1, <2>2, <2>3, <2>4, <2>5, <2>6, <2>7
       DEF Greets1, SetConn
  <2> QED BY <2>8, Greets1Attended
<1>4. CASE tunnel_close_connection(c)
  BY <1>1, <1>2, <1>4, CloseAttended DEF C, tunnel_close_connection
<1> QED
  BY <1>1, <1>3, <1>4 DEF tunnel_local_handshake_handler, Both

(* tunnel_local_start.                                                     *)
LEMMA LocalStartAttended ==
  ASSUME IInv, Attended, batch' = batch, tunnel_local_start
  PROVE  Attended'
<1> USE NameAssumption
<1>0. cur.h \in GreetHandlers
  BY DEF tunnel_local_start, In, GreetHandlers
<1>1. PICK c \in Conn : c = C
  BY <1>0, AtGreet
<1>2. /\ conn[c] \in Connection /\ conn[c].used /\ conn[c].data = Null
      /\ cur # Return
  BY <1>0, <1>1, AtGreet
<1>3. PICK g : g = IF Mode = "client" THEN "tunnel_remote_init"
                   ELSE "tunnel_local_process_request"
  OBVIOUS
<1>4. g \in Handlers /\ g # Handshake
  BY <1>3 DEF Handlers, DownHandlers, Handshake
<1>5. ASSUME NEW t \in Tun, ~tun[t].used,
             tun' = [tun EXCEPT ![t].used = TRUE, ![t].down = c,
                                ![t].req = (Mode # "client")],
             SetConn(c, event_opt([timer_del(conn[c], "r") EXCEPT
                      !.data = t, !.h = Both(g, "NULL")], "r")),
             Call(g, c)
      PROVE  Attended'
  <2>1. PICK j : j = timer_del(conn[c], "r")
    OBVIOUS
  <2>2. j \in Connection /\ j.used /\ j.ssl = conn[c].ssl /\ j.f = conn[c].f
    BY <1>2, <2>1, TimerDel, TimerWires DEF SameWires, Dir
  <2>3. PICK i : i = [j EXCEPT !.data = t, !.h = Both(g, "NULL")]
    OBVIOUS
  <2>4. Both(g, "NULL") \in [Dir -> Handlers \cup {"NULL"}]
    BY <1>4, BothTypes
  <2>5. /\ i \in Connection /\ i.used /\ i.data = t /\ i.ssl = j.ssl
        /\ i.h = Both(g, "NULL") /\ i.f = j.f
    BY <2>2, <2>3, <2>4 DEF Connection
  <2>6. PICK k : k = event_opt(i, "r")
    OBVIOUS
  <2>7. /\ k.used /\ k.data = t /\ k.h = Both(g, "NULL")
        /\ k.ssl = conn[c].ssl /\ (k.f["w"] => conn[c].f["w"])
    BY <2>2, <2>5, <2>6, EventOpt, OptOnly DEF Dir
  <2>8. conn'[c] = k /\ \A x \in Conn \ {c} : conn'[x] = conn[x]
    BY <1>5, <2>1, <2>3, <2>6 DEF SetConn, IInv, TypeOK
  <2>9. tun[t] = FreeTun /\ FreeTun \in Tunnel /\ tun \in [Tun -> Tunnel]
    BY <1>5, FreeTypes DEF IInv, Ownership, TypeOK
  <2>10. /\ ~tun'[t].relay /\ tun'[t].down = c
         /\ \A y \in Tun \ {t} : tun'[y] = tun[y]
    BY <1>5, <2>9 DEF Tunnel, FreeTun
  <2>11. cur'.h = g /\ cur'.c = c
    BY <1>5 DEF Call
  <2>12. Minded(c)'
    <3>1. AwaitsPeer(c)'
      <4>1. ~Busy(c)'
        BY <1>4, <2>7, <2>8, <2>11 DEF Busy, Both, Dir, Handshake
      <4> QED BY <4>1 DEF AwaitsPeer
    <3>2. Plainly(c)'
      <4>1. Plainly(c)
        BY DEF Attended, Minded
      <4> QED BY <1>2, <2>7, <2>8, <2>10, <4>1 DEF Plainly
    <3>3. Relays(c)'
      BY <2>7, <2>8, <2>10 DEF Relays
    <3>4. Greeted(c)'
      BY <2>7, <2>8 DEF Greeted
    <3> QED BY <3>1, <3>2, <3>3, <3>4 DEF Minded
  <2>13. Tended(t)'
    BY <2>7, <2>8, <2>11 DEF Tended, T
  <2>14. \A x \in Conn \ {c} : conn[x].data \in (Tun \ {t}) \cup {Null}
    BY <1>5 DEF IInv, Ownership, TypeOK, Connection
  <2>15. Within({c})
    BY <1>1, <1>2, <2>8, <2>10, <2>11, <2>13, <2>14 DEF Within, Level, C
  <2> QED BY <2>12, <2>15, AttendFrame
<1>6. CASE tunnel_close_connection(c)
  BY <1>1, <1>2, <1>6, CloseAttended DEF C
<1> QED
  BY <1>1, <1>3, <1>5, <1>6 DEF tunnel_local_start, Both

-----------------------------------------------------------------------------
(* Connecting.                                                             *)

(* tunnel_remote_init: the entry it takes was free.                        *)
LEMMA RemoteInitAttended ==
  ASSUME IInv, Attended, batch' = batch, tunnel_remote_init
  PROVE  Attended'
<1> USE NameAssumption
<1>0. cur.h = "tunnel_remote_init" /\ cur.h \in DownHandlers
      /\ Ordinary(cur.h)
  BY DEF tunnel_remote_init, In, DownHandlers, Ordinary, Shakers, Handshake,
     RelayHandlers
<1>1. PICK c \in Conn, t \in Tun : c = C /\ t = T
  BY <1>0, AtDown
<1>2. /\ conn[c] \in Connection /\ conn[c].used /\ conn[c].data = t
      /\ tun[t] \in Tunnel /\ cur # Return
      /\ tun[t].used /\ tun[t].down = c /\ tun[t].up = Null
      /\ conn \in [Conn -> Connection] /\ tun \in [Tun -> Tunnel]
  BY <1>0, <1>1, AtDown DEF IInv, TypeOK, Needs
<1>3. ~tun[t].relay
  BY <1>0, <1>1, <1>2, Unrelayed DEF Ordinary
<1>4. CASE tunnel_over(T)
  BY <1>1, <1>2, <1>4, OverAttended
<1>5. ASSUME NEW u \in Usable,
             tun' = [tun EXCEPT ![t].up = u],
             conn' = [conn EXCEPT
                 ![c] = [timer_del(conn[c], "r") EXCEPT
                           !.h = [d \in Dir |-> "NULL"]],
                 ![u] = [net_alloc(conn[u]) EXCEPT !.data = t,
                           !.h = Both("NULL",
                                      "tunnel_remote_connect_start")]],
             Call("tunnel_remote_connect_start", u)
      PROVE  Attended'
  <2>1. u \in Conn /\ u # c /\ conn[u] = FreeConn
    BY <1>2, <1>5 DEF Usable, IInv, Ownership
  <2>2. PICK g \in Handlers : g = "tunnel_remote_connect_start"
    BY DEF Handlers, UpHandlers
  <2>3. PICK i : i = timer_del(conn[c], "r")
    OBVIOUS
  <2>4. /\ i \in Connection /\ i.used = conn[c].used /\ i.data = t
        /\ i.ssl = conn[c].ssl /\ i.f = conn[c].f
    BY <1>2, <2>3, TimerDel, TimerWires DEF SameWires, Dir
  <2>5. PICK k : k = [i EXCEPT !.h = [d \in Dir |-> "NULL"]]
    OBVIOUS
  <2>6. /\ k.used = conn[c].used /\ k.data = t /\ k.ssl = i.ssl /\ k.f = i.f
        /\ \A d \in Dir : k.h[d] = "NULL"
    BY <2>4, <2>5 DEF Connection
  <2>7. Both("NULL", g) \in [Dir -> Handlers \cup {"NULL"}]
    BY BothTypes
  <2>8. PICK m, j : /\ m = net_alloc(FreeConn)
                    /\ j = [m EXCEPT !.data = t, !.h = Both("NULL", g)]
    OBVIOUS
  <2>9. m \in Connection /\ m.ssl = "none" /\ \A d \in Dir : ~m.f[d]
    BY <2>8, Allocated DEF net_alloc, FreeConn
  <2>10. /\ j.data = t /\ j.h = Both("NULL", g) /\ j.ssl = m.ssl
         /\ j.f = m.f
    BY <2>7, <2>8, <2>9 DEF Connection
  <2>11. conn' = [conn EXCEPT ![c] = k, ![u] = j]
    BY <1>2, <1>5, <2>1, <2>2, <2>3, <2>5, <2>8
  <2>12. /\ conn'[c] = k /\ conn'[u] = j
         /\ \A y \in Conn \ {c, u} : conn'[y] = conn[y]
    BY <1>2, <2>1, <2>11
  <2>13. /\ tun'[t].down = c /\ tun'[t].relay = tun[t].relay
         /\ \A y \in Tun \ {t} : tun'[y] = tun[y]
    BY <1>2, <1>5 DEF Tunnel
  <2>14. cur'.h = g /\ cur'.c = u /\ u # Null
    BY <1>5, <2>1, <2>2 DEF Call
  <2>15. Minded(c)'
    <3>1. ~Busy(c)'
      BY <2>1, <2>6, <2>12, <2>14 DEF Busy, Handshake
    <3>2. Plainly(c)'
      <4>1. Plainly(c)
        BY DEF Attended, Minded
      <4> QED BY <1>2, <2>4, <2>6, <2>12, <2>13, <4>1 DEF Plainly
    <3>3. Relays(c)' /\ Greeted(c)'
      BY <1>3, <2>6, <2>12, <2>13 DEF Relays, Greeted
    <3> QED BY <3>1, <3>2, <3>3 DEF Minded, AwaitsPeer
  <2>16. Minded(u)'
    <3>1. ~Busy(u)'
      BY <2>2, <2>10, <2>12, <2>14 DEF Busy, Handshake, Both, Dir
    <3>2. Plainly(u)'
      BY <2>1, <2>9, <2>10, <2>12, <2>13 DEF Plainly, Dir
    <3>3. Relays(u)' /\ Greeted(u)'
      BY <1>3, <2>10, <2>12, <2>13 DEF Relays, Greeted
    <3> QED BY <3>1, <3>2, <3>3 DEF Minded, AwaitsPeer
  <2>17. Tended(t)'
    BY <2>10, <2>12, <2>14 DEF Tended, T
  <2>18. \A x \in Conn \ {c, u} : conn[x].data \in (Tun \ {t}) \cup {Null}
    BY <1>2 DEF IInv, Ownership, Connection
  <2>19. conn[c].data = t /\ conn[u].data = Null
    BY <1>2, <2>1 DEF FreeConn
  <2>20. Within({c, u})
    BY <1>1, <2>12, <2>13, <2>14, <2>17, <2>18, <2>19 DEF Within, Level, C
  <2>21. \A x \in Conn : x \in {c, u} => Minded(x)'
    BY <2>15, <2>16
  <2> QED BY <2>20, <2>21, AttendFrame
<1> QED
  BY <1>0, <1>1, <1>4, <1>5 DEF tunnel_remote_init, Both

(* tunnel_remote_connect_start.                                            *)
LEMMA ConnectStartAttended ==
  ASSUME IInv, Attended, batch' = batch, tunnel_remote_connect_start
  PROVE  Attended'
<1> USE NameAssumption
<1>0. cur.h = "tunnel_remote_connect_start" /\ cur.h \in UpHandlers
      /\ Ordinary(cur.h)
  BY DEF tunnel_remote_connect_start, In, UpHandlers, Ordinary, Shakers,
     Handshake, RelayHandlers
<1>1. PICK c \in Conn, t \in Tun : c = C /\ t = T
  BY <1>0, AtUp
<1>2. /\ conn[c] \in Connection /\ cur # Return /\ conn[c].data = t
      /\ tun[t].used /\ tun[t].up = c /\ tun[t].down # c
  BY <1>0, <1>1, AtUp DEF IInv, Ownership
<1>3. PICK g \in Handlers : g = "tunnel_remote_connect_check"
  BY DEF Handlers, UpHandlers
<1>4. PICK i : i = [conn[c] EXCEPT !.h["w"] = g]
  OBVIOUS
<1>5. /\ i \in Connection /\ i.used = conn[c].used /\ i.data = t
      /\ i.h = [conn[c].h EXCEPT !["w"] = g] /\ i.ssl = conn[c].ssl
      /\ i.f = conn[c].f
  BY <1>2, <1>3, <1>4 DEF Connection
<1>6. PICK k : k = event_opt(i, "w")
  OBVIOUS
<1>7. /\ k \in Connection /\ k.used = conn[c].used /\ k.data = t
      /\ k.h = i.h /\ k.ssl = conn[c].ssl /\ (k.f["r"] => conn[c].f["r"])
  BY <1>5, <1>6, EventOpt, OptOnly DEF Dir
<1>8. \A d \in Dir : conn[c].h[d] # Handshake
  BY <1>0, <1>1, <1>2, Unshaken DEF Ordinary
<1>9. \A d \in Dir : k.h[d] # Handshake
  BY <1>2, <1>3, <1>5, <1>7, <1>8 DEF Connection, Handshake
<1>10. CASE tunnel_over(T)
  BY <1>1, <1>2, <1>10, OverAttended
<1>11. ASSUME NEW q, q.used = k.used, q.data = k.data, q.h = k.h,
              q.ssl = k.ssl, q.f = k.f,
              SetConn(c, q), tun' = tun,
              Call(g, c) \/ (cur' = Return /\ q.t["w"] # Null)
       PROVE  Attended'
  <2>1. conn'[c] = q /\ \A x \in Conn \ {c} : conn'[x] = conn[x]
    BY <1>11 DEF SetConn, IInv, TypeOK
  <2>2. \/ cur'.c = c /\ cur'.h # Handshake
        \/ cur' = Return /\ Timed(c)'
    BY <1>3, <1>11, <2>1 DEF Call, Timed, Dir, Handshake
  <2>3. Fit(c, q, tun'[t])
    BY <1>2, <1>7, <1>9, <1>11 DEF Fit
  <2>4. PICK S \in SUBSET Conn : S = {c}
    OBVIOUS
  <2>5. GoesOn(t, S)
    BY <1>0, <1>1, <1>2, <1>11, <2>1, <2>2, <2>3, <2>4, SameLevel
       DEF GoesOn, Ordinary
  <2> QED BY <2>5, PassesAttended
<1>12. CASE /\ SetConn(c, timer_add(k, "w", t)) /\ tun' = tun
            /\ cur' = Return
  <2>1. PICK q : q = timer_add(k, "w", t)
    OBVIOUS
  <2>2. t \in Timer
    BY DEF Timer
  <2>3. /\ q.used = k.used /\ q.data = k.data /\ q.h = k.h
        /\ q.t = [k.t EXCEPT !["w"] = t] /\ q.ssl = k.ssl /\ q.f = k.f
    BY <1>7, <2>1, <2>2, TimerAdd, TimerWires DEF SameWires, Dir
  <2>4. q.t["w"] # Null
    BY <1>7, <2>3 DEF Connection, Dir
  <2> QED BY <1>11, <1>12, <2>1, <2>3, <2>4
<1>13. CASE /\ SetConn(c, k) /\ tun' = tun /\ Call(g, c)
  BY <1>11, <1>13
<1> QED
  BY <1>0, <1>1, <1>3, <1>4, <1>6, <1>10, <1>12, <1>13
     DEF tunnel_remote_connect_start

(* tunnel_remote_connect_check.                                            *)
LEMMA ConnectCheckAttended ==
  ASSUME IInv, Attended, batch' = batch, tunnel_remote_connect_check
  PROVE  Attended'
<1> USE NameAssumption
<1>0. cur.h = "tunnel_remote_connect_check" /\ cur.h \in UpHandlers
      /\ Ordinary(cur.h)
  BY DEF tunnel_remote_connect_check, In, UpHandlers, Ordinary, Shakers,
     Handshake, RelayHandlers
<1>1. PICK c \in Conn, t \in Tun : c = C /\ t = T
  BY <1>0, AtUp
<1>2. /\ conn[c] \in Connection /\ conn[c].used /\ cur # Return
      /\ conn[c].data = t /\ tun[t].used /\ tun[t].up = c /\ ~tun[t].relay
      /\ \A d \in Dir : conn[c].h[d] # Handshake
  BY <1>0, <1>1, AtUp, Unrelayed, Unshaken DEF Ordinary
<1>3. PICK j : j = timer_del(conn[c], "w")
  OBVIOUS
<1>4. /\ j \in Connection /\ j.used = conn[c].used /\ j.data = t
      /\ j.h = conn[c].h
  BY <1>2, <1>3, Untimed
<1>5. CASE tunnel_over(T)
  BY <1>1, <1>2, <1>5, OverAttended
<1>6. CASE /\ SetConn(c, [j EXCEPT !.h["w"] = "tunnel_start"])
           /\ tun' = tun /\ Call("tunnel_start", c)
  <2>1. PICK g : g = "tunnel_start"
    OBVIOUS
  <2>2. Next1(t, c, j, "w", g)
    BY <1>0, <1>1, <1>2, <1>3, <1>6, <2>1, SameLevel DEF Next1, Handshake
  <2> QED BY <2>2, Next1Attended DEF Dir
<1>7. ASSUME NEW d \in Dir, Mode = "client",
             SetConn(c, [timer_add(ssl_want(j, d), "w", t) EXCEPT
                 !.ssl = "init", !.sslh = "tunnel_remote_handshake_handler"]),
             tun' = tun, cur' = Return
      PROVE  Attended'
  <2>1. PICK k : k = Wanting(j, d, "w", t, "tunnel_remote_handshake_handler")
    OBVIOUS
  <2>2. t \in Timer /\ "w" \in Dir
    BY DEF Timer, Dir
  <2>3. /\ k.used = j.used /\ k.data = j.data /\ k.ssl = "init"
        /\ \A y \in Dir : k.h[y] \in {"NULL", Handshake}
        /\ k.t = [j.t EXCEPT !["w"] = t]
    BY <1>4, <2>1, <2>2, Wants DEF Handshake
  <2>4. k.t["w"] # Null
    BY <1>4, <2>2, <2>3 DEF Connection
  <2>5. Offers(c, k)
    BY <1>1, <1>2, <1>4, <1>7, <2>1, <2>3, <2>4 DEF Offers, SetConn, Wanting
  <2> QED BY <2>5, OffersAttended
<1>8. CASE /\ Mode = "client"
           /\ SetConn(c, [j EXCEPT !.ssl = "handshaked"])
           /\ tun' = tun /\ Call("tunnel_remote_handshake_handler", c)
  <2>1. PICK k : k = [j EXCEPT !.ssl = "handshaked"]
    OBVIOUS
  <2>2. k.used = j.used /\ k.data = j.data /\ k.h = j.h
    BY <1>4, <2>1 DEF Connection
  <2>3. cur'.h # Handshake /\ cur'.c = c
    BY <1>8 DEF Call, Handshake
  <2>4. Greets1(c, k)
    BY <1>1, <1>2, <1>4, <1>8, <2>1, <2>2, <2>3 DEF Greets1, SetConn
  <2> QED BY <2>4, Greets1Attended
<1> QED
  BY <1>0, <1>1, <1>3, <1>5, <1>6, <1>7, <1>8
     DEF tunnel_remote_connect_check

(* tunnel_remote_handshake_handler, in client mode only.                   *)
LEMMA RemoteHandshakeAttended ==
  ASSUME IInv, Ways, Attended, batch' = batch, tunnel_remote_handshake_handler
  PROVE  Attended'
<1>0. cur.h = "tunnel_remote_handshake_handler" /\ cur.h \in UpHandlers
      /\ cur.h \notin RelayHandlers
  BY DEF tunnel_remote_handshake_handler, In, UpHandlers, RelayHandlers
<1>1. PICK c \in Conn, t \in Tun : c = C /\ t = T
  BY <1>0, AtUp
<1>2. /\ conn[c] \in Connection /\ conn[c].data = t /\ cur # Return
      /\ tun[t].up = c /\ ~tun[t].relay
  BY <1>0, <1>1, AtUp, Unrelayed
<1>3. Mode = "client"
  BY <1>0, <1>2 DEF Ways, Way, Idle
<1>4. CASE tunnel_over(T)
  BY <1>1, <1>2, <1>4, OverAttended
<1>5. CASE /\ SetConn(c, [timer_del(conn[c], "w") EXCEPT
                            !.h = Both("NULL", "https_start")])
           /\ tun' = tun /\ Call("https_start", c)
  <2>1. PICK j : j = timer_del(conn[c], "w")
    OBVIOUS
  <2>2. j \in Connection /\ j.used = conn[c].used /\ j.data = t
    BY <1>2, <2>1, Untimed
  <2>3. PICK k : k = [j EXCEPT !.h = Both("NULL", "https_start")]
    OBVIOUS
  <2>4. /\ k.used = j.used /\ k.data = t
        /\ k.h = Both("NULL", "https_start")
    BY <2>2, <2>3 DEF Connection
  <2>5. \A d \in Dir : k.h[d] # Handshake
    BY <2>4 DEF Both, Dir, Handshake
  <2>6. cur'.h # Handshake /\ cur'.c = c
    BY <1>5 DEF Call, Handshake
  <2>7. Greets1(c, k)
    BY <1>1, <1>2, <1>3, <1>5, <2>1, <2>2, <2>3, <2>4, <2>5, <2>6,
       NameAssumption DEF Greets1, SetConn
  <2> QED BY <2>7, Greets1Attended
<1> QED
  BY <1>1, <1>4, <1>5 DEF tunnel_remote_handshake_handler, Both

-----------------------------------------------------------------------------
(* Handlers that change both connections of their tunnel.                  *)

(* Its client becomes k, its upstream j, and the tunnel goes on.           *)
PassesOn(t, k, j) ==
  LET c == tun[t].down
      u == tun[t].up
  IN /\ t = T /\ tun[t].used /\ u \in Conn /\ C \in {c, u}
     /\ cur # Return /\ cur.h \notin RelayHandlers
     /\ conn' = [conn EXCEPT ![c] = k, ![u] = j]
     /\ tun'[t].used /\ Level(tun[t], tun'[t]) /\ tun'[t].up = tun[t].up
     /\ \A y \in Tun \ {t} : tun'[y] = tun[y]
     /\ Fit(c, k, tun'[t]) /\ Fit(u, j, tun'[t])
     /\ cur'.c \in {c, u} /\ cur'.h # Handshake
     /\ batch' = batch

(* Then it is attended to.                                                 *)
LEMMA PassesOnAttended ==
  ASSUME IInv, Attended, NEW t \in Tun, NEW k, NEW j, PassesOn(t, k, j)
  PROVE  Attended'
<1>1. PICK c, u : c = tun[t].down /\ u = tun[t].up
  OBVIOUS
<1>2. /\ c \in Conn /\ u \in Conn /\ c # u
      /\ conn[c].data = t /\ conn[u].data = t
      /\ conn \in [Conn -> Connection]
  BY <1>1, BothSides DEF PassesOn
<1>3. /\ conn'[c] = k /\ conn'[u] = j
      /\ \A x \in Conn \ {c, u} : conn'[x] = conn[x]
  BY <1>1, <1>2 DEF PassesOn
<1>4. PICK S \in SUBSET Conn : S = {c, u}
  BY <1>2
<1>5. \A x \in S : conn[x].data = t /\ Fit(x, conn'[x], tun'[t])
  BY <1>1, <1>2, <1>3, <1>4 DEF PassesOn
<1>6. GoesOn(t, S)
  BY <1>1, <1>3, <1>4, <1>5 DEF GoesOn, PassesOn
<1> QED BY <1>6, PassesAttended

(* A connection of which only the write event's handler changes, and what  *)
(* is registered for it, in a worker whose clients send requests.          *)
LEMMA OptFit ==
  ASSUME NEW c, conn[c] \in Connection, NEW h \in Handlers, h # Handshake,
         NEW k, k = event_opt([conn[c] EXCEPT !.h["w"] = h], "w"),
         \A d \in Dir : conn[c].h[d] # Handshake,
         NEW y, y.down = c, Mode # "client"
  PROVE  Fit(c, k, y)
<1>1. PICK i : i = [conn[c] EXCEPT !.h["w"] = h]
  OBVIOUS
<1>2. /\ i \in Connection /\ i.used = conn[c].used /\ i.data = conn[c].data
      /\ i.h = [conn[c].h EXCEPT !["w"] = h]
  BY <1>1 DEF Connection
<1>3. /\ k.used = i.used /\ k.data = i.data /\ k.h = i.h
  BY <1>1, <1>2, EventOpt DEF Dir
<1>4. \A d \in Dir : k.h[d] # Handshake
  BY <1>2, <1>3 DEF Connection
<1> QED BY <1>2, <1>3, <1>4 DEF Fit

(* A connection whose handlers are taken off, but for one.                 *)
LEMMA SilentFit ==
  ASSUME NEW c, conn[c] \in Connection, NEW j,
         j = conn[c] \/ j = timer_del(conn[c], "r"),
         NEW x \in [Dir -> Handlers \cup {"NULL"}],
         \A d \in Dir : x[d] # Handshake,
         NEW k, k = [j EXCEPT !.h = x], NEW y
  PROVE  Fit(c, k, y)
<1>1. /\ j \in Connection /\ j.used = conn[c].used /\ j.data = conn[c].data
      /\ j.ssl = conn[c].ssl /\ j.f = conn[c].f
  BY Untimed, TimerWires DEF SameWires, Dir
<1>2. /\ k.used = j.used /\ k.data = j.data /\ k.h = x /\ k.ssl = j.ssl
      /\ k.f = j.f
  BY <1>1 DEF Connection
<1> QED BY <1>1, <1>2 DEF Fit

(* The tunnels of a worker that parses requests.                           *)
LEMMA Requested ==
  ASSUME IInv, NEW t \in Tun, tun[t].used, tun[t].req
  PROVE  Mode # "client"
BY DEF IInv, RequestHeads

(* Handlers that are no handshake.                                         *)
LEMMA NoneSet ==
  \E off \in [Dir -> Handlers \cup {"NULL"}] :
     off = [d \in Dir |-> "NULL"] /\ \A d \in Dir : off[d] # Handshake
<1>1. PICK off : off = [d \in Dir |-> "NULL"]
  OBVIOUS
<1>2. off \in [Dir -> Handlers \cup {"NULL"}]
  BY <1>1
<1>3. ASSUME NEW d \in Dir PROVE off[d] # Handshake
  <2>1. off[d] = "NULL"
    BY <1>1
  <2> QED BY <2>1 DEF Handshake
<1> QED BY <1>1, <1>2, <1>3

LEMMA OneSet ==
  ASSUME NEW g \in Handlers, g # Handshake
  PROVE  \E x \in [Dir -> Handlers \cup {"NULL"}] :
            x = Both("NULL", g) /\ \A d \in Dir : x[d] # Handshake
<1>1. PICK x : x = Both("NULL", g)
  OBVIOUS
<1>2. /\ x \in [Dir -> Handlers \cup {"NULL"}]
      /\ x["r"] = "NULL" /\ x["w"] = g
  BY <1>1, BothTypes
<1>3. "NULL" # Handshake
  BY DEF Handshake
<1>4. x["r"] # Handshake /\ x["w"] # Handshake
  BY <1>2, <1>3
<1> QED BY <1>1, <1>2, <1>4 DEF Dir

(* tunnel_start.                                                           *)
LEMMA StartAttended ==
  ASSUME IInv, Attended, batch' = batch, tunnel_start
  PROVE  Attended'
<1>0. cur.h = "tunnel_start" /\ cur.h \in UpHandlers /\ Ordinary(cur.h)
  BY DEF tunnel_start, In, UpHandlers, Ordinary, Shakers, Handshake,
     RelayHandlers
<1>1. PICK u \in Conn, t \in Tun, c \in Conn :
        u = C /\ t = T /\ c = tun[t].down
  BY <1>0, AtUp, Owned
<1>2. /\ tun[t].up = u /\ tun[t].used /\ tun' = tun /\ cur # Return
      /\ tun[t].req
  BY <1>0, <1>1, AtUp DEF tunnel_start, Needs
<1>3. /\ c # u /\ conn[c] \in Connection /\ conn[u] \in Connection
      /\ conn \in [Conn -> Connection]
  BY <1>1, <1>2, BothSides
<1>4. Mode # "client" /\ \A d \in Dir : conn[c].h[d] # Handshake
  BY <1>1, <1>2, Requested, ClientUnshaken
<1>5. PICK off \in [Dir -> Handlers \cup {"NULL"}] :
        off = [d \in Dir |-> "NULL"] /\ \A d \in Dir : off[d] # Handshake
  BY NoneSet
<1>6. CASE /\ conn' = [conn EXCEPT
                  ![c].h = [d \in Dir |-> "NULL"],
                  ![u].h = Both("NULL", "http_remote_send")]
           /\ Call("http_remote_send", u)
  <2>1. PICK g \in Handlers : g = "http_remote_send" /\ g # Handshake
    BY DEF Handlers, UpHandlers, Handshake
  <2>2. PICK x \in [Dir -> Handlers \cup {"NULL"}] :
          x = Both("NULL", g) /\ \A d \in Dir : x[d] # Handshake
    BY <2>1, OneSet
  <2>3. PICK k, j : /\ k = [conn[c] EXCEPT !.h = off]
                    /\ j = [conn[u] EXCEPT !.h = x]
    OBVIOUS
  <2>4. conn' = [conn EXCEPT ![c] = k, ![u] = j]
    BY <1>3, <1>5, <1>6, <2>1, <2>2, <2>3
  <2>5. Fit(c, k, tun'[t]) /\ Fit(u, j, tun'[t])
    BY <1>3, <1>5, <2>2, <2>3, SilentFit
  <2>6. cur'.h = g /\ cur'.c = u
    BY <1>6, <2>1 DEF Call
  <2>7. PassesOn(t, k, j)
    BY <1>0, <1>1, <1>2, <2>1, <2>4, <2>5, <2>6, SameLevel
       DEF PassesOn, Ordinary
  <2> QED BY <2>7, PassesOnAttended
<1>7. CASE /\ conn' = [conn EXCEPT
                  ![c] = event_opt([@ EXCEPT !.h["w"] = "https_connected"],
                                   "w"),
                  ![u].h = [d \in Dir |-> "NULL"]]
           /\ Call("https_connected", c)
  <2>1. PICK g \in Handlers : g = "https_connected" /\ g # Handshake
    BY DEF Handlers, DownHandlers, Handshake
  <2>2. PICK k, j : /\ k = event_opt([conn[c] EXCEPT !.h["w"] = g], "w")
                    /\ j = [conn[u] EXCEPT !.h = off]
    OBVIOUS
  <2>3. conn' = [conn EXCEPT ![c] = k, ![u] = j]
    BY <1>3, <1>5, <1>7, <2>1, <2>2
  <2>4. tun'[t].down = c
    BY <1>1, <1>2
  <2>5. Fit(c, k, tun'[t])
    BY <1>3, <1>4, <2>1, <2>2, <2>4, OptFit
  <2>6. Fit(u, j, tun'[t])
    BY <1>3, <1>5, <2>2, SilentFit
  <2>7. cur'.h = g /\ cur'.c = c
    BY <1>7, <2>1 DEF Call
  <2>8. PassesOn(t, k, j)
    BY <1>0, <1>1, <1>2, <2>1, <2>3, <2>5, <2>6, <2>7, SameLevel
       DEF PassesOn, Ordinary
  <2> QED BY <2>8, PassesOnAttended
<1> QED
  BY <1>0, <1>1, <1>6, <1>7 DEF tunnel_start, Both

-----------------------------------------------------------------------------
(* The relay.                                                              *)

(* https_connected.                                                        *)
LEMMA HttpsConnectedAttended ==
  ASSUME IInv, Attended, batch' = batch, https_connected
  PROVE  Attended'
<1>0. cur.h = "https_connected" /\ cur.h \in DownHandlers /\ Ordinary(cur.h)
  BY DEF https_connected, In, DownHandlers, Ordinary, Shakers, Handshake,
     RelayHandlers
<1>1. PICK c \in Conn, t \in Tun : c = C /\ t = T
  BY <1>0, AtDown
<1>2. cur # Return /\ conn[c].data = t /\ tun[t].used
  BY <1>0, <1>1, AtDown
<1>3. CASE tunnel_over(T)
  BY <1>1, <1>2, <1>3, OverAttended
<1>4. CASE Await(C, "w")
  BY <1>0, <1>1, <1>2, <1>4, AwaitAttended DEF Dir, Ordinary
<1>5. CASE /\ SetConn(c, [timer_del(conn[c], "w") EXCEPT
                            !.h["r"] = "https_start"])
           /\ tun' = tun /\ Call("https_start", c)
  <2>1. PICK j, g : j = timer_del(conn[c], "w") /\ g = "https_start"
    OBVIOUS
  <2>2. Next1(t, c, j, "r", g)
    BY <1>0, <1>1, <1>2, <1>5, <2>1, SameLevel DEF Next1, Handshake
  <2> QED BY <2>2, Next1Attended DEF Dir
<1> QED
  BY <1>1, <1>3, <1>4, <1>5 DEF https_connected

(* tunnel_transport_in and tunnel_transport_out.                           *)
LEMMA TransportsAttended ==
  ASSUME IInv, Attended, batch' = batch,
         tunnel_transport_in \/ tunnel_transport_out
  PROVE  Attended'
<1>0. cur.h \in {"tunnel_transport_in_recv", "tunnel_transport_in_send",
                 "tunnel_transport_out_recv", "tunnel_transport_out_send"}
      /\ cur.h \notin Shakers \cup {Handshake}
  BY DEF tunnel_transport_in, tunnel_transport_out, Shakers, Handshake
<1>1. PICK t \in Tun : t = T /\ tun[t].used /\ cur # Return
  BY <1>0, AtDown, AtUp DEF DownHandlers, UpHandlers
<1>2. tun[t].up \in Conn
  <2>1. CASE cur.h \in DownHandlers
    BY <1>0, <1>1, <2>1, AtDown DEF Needs, T, C, DownHandlers
  <2>2. CASE cur.h \in UpHandlers
    BY <1>0, <1>1, <2>2, AtUp DEF Needs, T, C, UpHandlers
  <2> QED
    BY <1>0, <2>1, <2>2 DEF DownHandlers, UpHandlers
<1>3. CASE tunnel_over(T)
  BY <1>1, <1>3, OverAttended
<1>4. PICK c \in Conn, u \in Conn :
        /\ c = tun[t].down /\ u = tun[t].up
        /\ conn[c].data = t /\ conn[u].data = t
  BY <1>1, <1>2, BothSides
<1>5. CASE Await(u, "r")
  BY <1>0, <1>1, <1>4, <1>5, AwaitAttended DEF Dir
<1>6. CASE Await(c, "r")
  BY <1>0, <1>1, <1>4, <1>6, AwaitAttended DEF Dir
<1> QED
  BY <1>1, <1>3, <1>4, <1>5, <1>6
     DEF tunnel_transport_in, tunnel_transport_out

(* event_opt for both events, one of which was not registered: a plain     *)
(* connection is then owed a write event.                                  *)
LEMMA RelayOwed ==
  ASSUME NEW k \in Connection, NEW a \in Handlers, NEW b \in Handlers,
         Wired(k), k.ssl = "none", NEW d \in Dir, ~k.f[d]
  PROVE  RelayConn(k, a, b).edge
<1>1. PICK i, j : i = event_opt(k, "r") /\ j = event_opt(i, "w")
  OBVIOUS
<1>2. i \in Connection /\ Grows(k, i) /\ i.f["r"]
  BY <1>1, EventOpt, OptGrows DEF Dir
<1>3. j \in Connection /\ Grows(i, j) /\ j.f["w"]
  BY <1>1, <1>2, EventOpt, OptGrows DEF Dir, Grows
<1>4. j.f["r"]
  BY <1>2, <1>3 DEF Grows, Dir
<1>5. d \in j.epoll
  BY <1>3, <1>4 DEF Grows, Wired, Dir
<1>6. d \notin k.epoll
  BY DEF Wired
<1>7. PICK e : e = (j.epoll # k.epoll /\ k.ssl = "none")
  OBVIOUS
<1>8. PICK x : x = Both(a, b)
  OBVIOUS
<1>9. PICK q : q = [j EXCEPT !.h = x, !.edge = e]
  OBVIOUS
<1>10. q.edge = e
  BY <1>3, <1>9 DEF Connection
<1>11. RelayConn(k, a, b) = q
  BY <1>1, <1>7, <1>8, <1>9 DEF RelayConn, Both
<1> QED BY <1>5, <1>6, <1>7, <1>10, <1>11

(* https_start: of the two connections it is the plain one that epoll owes *)
(* an event.                                                               *)
LEMMA HttpsStartAttended ==
  ASSUME IInv, Ways, Heard, Attended, batch' = batch, https_start
  PROVE  Attended'
<1> USE NameAssumption
<1>0. cur.h = "https_start" /\ cur # Return /\ cur.h \notin RelayHandlers
  BY DEF https_start, In, Return, RelayHandlers
<1>1. PICK t \in Tun : t = T /\ tun[t].used /\ tun[t].up \in Conn
  BY <1>0, AtWork DEF Needs, T, C
<1>2. PICK c \in Conn, u \in Conn : c = tun[t].down /\ u = tun[t].up
  BY <1>1, Owned
<1>3. /\ c # u /\ conn[c] \in Connection /\ conn[u] \in Connection
      /\ conn \in [Conn -> Connection] /\ tun[t] \in Tunnel
      /\ conn[c].data = t /\ conn[u].data = t
  BY <1>1, <1>2, BothSides, Owned
<1>4. C \in {c, u} /\ cur.c \in {c, u}
  BY <1>0, <1>1, <1>2, AtEither DEF C
<1>5. ~tun[t].relay /\ ~tun[t].resp
  <2>1. ~tun[t].relay
    BY <1>0, <1>1, Unrelayed
  <2>2. Way("https_start", cur.c) /\ OneWay(tun[t])
    BY <1>0 DEF Ways, Idle
  <2>3. conn[cur.c].data = t
    BY <1>1 DEF T
  <2> QED BY <2>1, <2>2, <2>3 DEF Way, Relayed, OneWay
<1>6. CASE tunnel_over(T)
  BY <1>0, <1>1, <1>6, OverAttended
<1>7. CASE /\ tun' = [tun EXCEPT ![t].relay = TRUE]
           /\ conn' = [conn EXCEPT
                  ![c] = RelayConn(@, "tunnel_transport_in_recv",
                                      "tunnel_transport_out_send"),
                  ![u] = RelayConn(@, "tunnel_transport_out_recv",
                                      "tunnel_transport_in_send")]
           /\ cur' = Return
  <2>1. PICK a \in Handlers, b \in Handlers, p \in Handlers, q \in Handlers :
          /\ a = "tunnel_transport_in_recv" /\ b = "tunnel_transport_out_send"
          /\ p = "tunnel_transport_out_recv" /\ q = "tunnel_transport_in_send"
    BY DEF Handlers, UpHandlers, DownHandlers
  <2>2. PICK k, j : /\ k = RelayConn(conn[c], a, b)
                    /\ j = RelayConn(conn[u], p, q)
    OBVIOUS
  <2>3. conn' = [conn EXCEPT ![c] = k, ![u] = j]
    BY <1>3, <1>7, <2>1, <2>2
  <2>4. k.data = t /\ k.ssl = conn[c].ssl /\ k.h = Both(a, b)
    BY <1>3, <2>2, RelayConnKeeps, ZenonT(60)
  <2>5. j.data = t /\ j.ssl = conn[u].ssl /\ j.h = Both(p, q)
    BY <1>3, <2>2, RelayConnKeeps, ZenonT(60)
  <2>6. /\ conn'[c] = k /\ conn'[u] = j
        /\ \A x \in Conn \ {c, u} : conn'[x] = conn[x]
    BY <1>3, <2>3
  <2>7. PICK z : z = [tun[t] EXCEPT !.relay = TRUE]
    OBVIOUS
  <2>8. /\ z.down = c /\ z.up = u /\ z.relay
    BY <1>2, <1>3, <2>7 DEF Tunnel
  <2>9. tun'[t] = z /\ \A y \in Tun \ {t} : tun'[y] = tun[y]
    BY <1>7, <2>7 DEF IInv, TypeOK
  <2>10. /\ \A d \in Dir : k.h[d] \in RelayHandlers /\ j.h[d] \in RelayHandlers
         /\ Handshake \notin RelayHandlers
    BY <2>1, <2>4, <2>5 DEF Both, Dir, RelayHandlers, Handshake
  <2>11. Minded(c) /\ Minded(u) /\ Reg(c) /\ Reg(u)
    BY DEF Attended, Heard
  <2>12. cur'.c \notin Conn
    BY <1>7 DEF Return
  <2>13. Mode = "client" => conn[c].ssl = "none" /\ ~conn[c].f["w"]
    BY <1>2, <1>3, <1>5, <2>11 DEF Minded, Plainly
  <2>14. Mode # "client" => conn[u].ssl = "none" /\ ~conn[u].f["r"]
    BY <1>2, <1>3, <1>5, <2>11 DEF Minded, Plainly
  <2>15. Minded(c)'
    <3>1. ~Busy(c)'
      BY <2>6, <2>10, <2>12 DEF Busy
    <3>2. Plainly(c)'
      BY <2>4, <2>6, <2>8, <2>9, <2>13 DEF Plainly
    <3>3. Relays(c)'
      BY <2>6, <2>10, <2>12 DEF Relays
    <3>4. Greeted(c)'
      BY <2>4, <2>6 DEF Greeted
    <3> QED BY <3>1, <3>2, <3>3, <3>4 DEF Minded, AwaitsPeer
  <2>16. Minded(u)'
    <3>1. ~Busy(u)'
      BY <2>6, <2>10, <2>12 DEF Busy
    <3>2. Plainly(u)'
      BY <1>3, <2>5, <2>6, <2>8, <2>9, <2>14 DEF Plainly
    <3>3. Relays(u)'
      BY <2>6, <2>10, <2>12 DEF Relays
    <3>4. Greeted(u)'
      BY <2>5, <2>6 DEF Greeted
    <3> QED BY <3>1, <3>2, <3>3, <3>4 DEF Minded, AwaitsPeer
  <2>17. Tended(t)'
    <3>1. "r" \in Dir /\ "w" \in Dir
      BY DEF Dir
    <3>2. k.edge \/ j.edge
      <4>1. CASE Mode = "client"
        <5>1. Wired(conn[c])
          BY <2>11 DEF Reg
        <5>2. k.edge
          BY <1>3, <2>2, <2>13, <3>1, <4>1, <5>1, RelayOwed
        <5> QED BY <5>2
      <4>2. CASE Mode # "client"
        <5>1. Wired(conn[u])
          BY <2>11 DEF Reg
        <5>2. j.edge
          BY <1>3, <2>2, <2>14, <3>1, <4>2, <5>1, RelayOwed
        <5> QED BY <5>2
      <4> QED BY <4>1, <4>2
    <3>3. Awaited(c)' \/ Awaited(u)'
      BY <2>4, <2>5, <2>6, <2>8, <2>9, <3>2 DEF Awaited
    <3> QED BY <2>8, <2>9, <3>3 DEF Tended
  <2>18. \A x \in Conn \ {c, u} : conn[x].data \in (Tun \ {t}) \cup {Null}
    BY <1>2 DEF IInv, Ownership, TypeOK, Connection
  <2>19. Within({c, u})
    <3>1. cur' = Return
      BY <1>7
    <3>2. ASSUME NEW x \in Conn \ {c, u}
          PROVE  /\ conn'[x] = conn[x]
                 /\ conn[x].data # Null =>
                      Level(tun[conn[x].data], tun'[conn[x].data])
      <4>1. conn[x].data \in Tun \ {t} \/ conn[x].data = Null
        BY <2>18
      <4>2. CASE conn[x].data \in Tun \ {t}
        <5>1. tun'[conn[x].data] = tun[conn[x].data]
          BY <2>9, <4>2
        <5> QED BY <2>6, <5>1 DEF Level
      <4> QED BY <2>6, <4>1, <4>2
    <3>3. ASSUME NEW y \in Tun, tun'[y].used
          PROVE  \/ Tended(y)'
                 \/ /\ tun'[y] = tun[y]
                    /\ \A x \in Conn : x \in {c, u} => conn[x].data # y
      <4>1. CASE y = t
        BY <2>17, <4>1
      <4>2. CASE y # t
        BY <1>3, <2>9, <4>2
      <4> QED BY <4>1, <4>2
    <3> QED BY <1>4, <3>1, <3>2, <3>3 DEF Within
  <2>20. \A x \in Conn : x \in {c, u} => Minded(x)'
    BY <2>15, <2>16
  <2> QED BY <2>19, <2>20, AttendFrame
<1> QED
  BY <1>0, <1>1, <1>2, <1>6, <1>7 DEF https_start

-----------------------------------------------------------------------------
(* The answer.                                                             *)

(* http_remote_send: from now on the upstream's read event is registered.  *)
LEMMA RemoteSendAttended ==
  ASSUME IInv, Attended, batch' = batch, http_remote_send
  PROVE  Attended'
<1>0. cur.h = "http_remote_send" /\ cur.h \in UpHandlers /\ Ordinary(cur.h)
  BY DEF http_remote_send, In, UpHandlers, Ordinary, Shakers, Handshake,
     RelayHandlers
<1>1. PICK u \in Conn, t \in Tun : u = C /\ t = T
  BY <1>0, AtUp
<1>2. /\ conn[u] \in Connection /\ conn[u].data = t /\ cur # Return
      /\ tun[t].up = u /\ tun[t].used /\ tun[t] \in Tunnel
      /\ tun[t].down # u /\ tun[t].req
  BY <1>0, <1>1, AtUp DEF Needs, IInv, Ownership
<1>3. Mode # "client"
  BY <1>2, Requested
<1>4. CASE tunnel_over(T)
  BY <1>1, <1>2, <1>4, OverAttended
<1>5. CASE Await(C, "w")
  BY <1>0, <1>1, <1>2, <1>5, AwaitAttended DEF Dir, Ordinary
<1>6. CASE /\ SetConn(u, event_opt([timer_del(conn[u], "w") EXCEPT
                  !.h = Both("http_remote_recv_header", "NULL")], "r"))
           /\ tun' = [tun EXCEPT ![t].resp = TRUE]
           /\ Call("http_remote_recv_header", u)
  <2>1. PICK g \in Handlers : g = "http_remote_recv_header" /\ g # Handshake
    BY DEF Handlers, UpHandlers, Handshake
  <2>2. PICK i : i = timer_del(conn[u], "w")
    OBVIOUS
  <2>3. /\ i \in Connection /\ i.used = conn[u].used /\ i.data = t
        /\ i.ssl = conn[u].ssl
    BY <1>2, <2>2, Untimed
  <2>4. PICK m : m = [i EXCEPT !.h = Both(g, "NULL")]
    OBVIOUS
  <2>5. Both(g, "NULL") \in [Dir -> Handlers \cup {"NULL"}]
    BY BothTypes
  <2>6. /\ m \in Connection /\ m.used = i.used /\ m.data = t
        /\ m.h = Both(g, "NULL") /\ m.ssl = i.ssl
    BY <2>3, <2>4, <2>5 DEF Connection
  <2>7. PICK j : j = event_opt(m, "r")
    OBVIOUS
  <2>8. j.used = m.used /\ j.data = t /\ j.h = m.h /\ j.ssl = m.ssl
    BY <2>6, <2>7, EventOpt DEF Dir
  <2>9. \A d \in Dir : j.h[d] # Handshake
    BY <2>1, <2>6, <2>8 DEF Both, Dir, Handshake
  <2>10. conn'[u] = j /\ \A x \in Conn \ {u} : conn'[x] = conn[x]
    BY <1>6, <2>1, <2>2, <2>4, <2>7 DEF SetConn, IInv, TypeOK
  <2>11. PICK y : y = [tun[t] EXCEPT !.resp = TRUE]
    OBVIOUS
  <2>12. y.used /\ y.resp /\ y.up = u /\ Level(tun[t], y)
    BY <1>2, <2>11 DEF Tunnel, Level
  <2>13. tun'[t] = y /\ \A x \in Tun \ {t} : tun'[x] = tun[x]
    BY <1>6, <2>11 DEF IInv, TypeOK
  <2>14. Fit(u, j, y)
    BY <1>2, <1>3, <2>3, <2>6, <2>8, <2>9, <2>12 DEF Fit
  <2>15. cur'.c = u /\ cur'.h # Handshake
    BY <1>6, <2>1 DEF Call
  <2>16. PICK S \in SUBSET Conn : S = {u}
    OBVIOUS
  <2>17. GoesOn(t, S)
    BY <1>0, <1>1, <1>2, <2>10, <2>12, <2>13, <2>14, <2>15, <2>16
       DEF GoesOn, Ordinary
  <2> QED BY <2>17, PassesAttended
<1> QED
  BY <1>0, <1>1, <1>4, <1>5, <1>6 DEF http_remote_send, Both

(* http_remote_recv_header.                                                *)
LEMMA RecvHeaderAttended ==
  ASSUME IInv, Attended, batch' = batch, http_remote_recv_header
  PROVE  Attended'
<1>0. cur.h = "http_remote_recv_header" /\ cur.h \in UpHandlers
      /\ Ordinary(cur.h)
  BY DEF http_remote_recv_header, In, UpHandlers, Ordinary, Shakers,
     Handshake, RelayHandlers
<1>1. PICK u \in Conn, t \in Tun, c \in Conn :
        u = C /\ t = T /\ c = tun[t].down
  BY <1>0, AtUp, Owned
<1>2. /\ tun[t].up = u /\ tun[t].used /\ tun[t] \in Tunnel /\ cur # Return
      /\ tun[t].req /\ conn[u].data = t
  BY <1>0, <1>1, AtUp DEF Needs
<1>3. /\ c # u /\ conn[c] \in Connection /\ conn[u] \in Connection
      /\ conn \in [Conn -> Connection]
  BY <1>1, <1>2, BothSides
<1>4. Mode # "client" /\ \A d \in Dir : conn[c].h[d] # Handshake
  BY <1>1, <1>2, Requested, ClientUnshaken
<1>5. CASE tunnel_over(T)
  BY <1>1, <1>2, <1>5, OverAttended
<1>6. CASE Await(C, "r")
  BY <1>0, <1>1, <1>2, <1>6, AwaitAttended DEF Dir, Ordinary
<1>7. ASSUME NEW rbody \in BOOLEAN,
             tun' = [tun EXCEPT ![t].rbody = rbody],
             conn' = [conn EXCEPT
                  ![u] = [timer_del(@, "r") EXCEPT
                            !.h = [d \in Dir |-> "NULL"]],
                  ![c] = event_opt([@ EXCEPT
                            !.h["w"] = "http_local_send_header"], "w")],
             Call("http_local_send_header", c)
      PROVE  Attended'
  <2>1. PICK g \in Handlers : g = "http_local_send_header" /\ g # Handshake
    BY DEF Handlers, DownHandlers, Handshake
  <2>2. PICK off \in [Dir -> Handlers \cup {"NULL"}] :
          off = [d \in Dir |-> "NULL"] /\ \A d \in Dir : off[d] # Handshake
    BY NoneSet
  <2>3. PICK i : i = timer_del(conn[u], "r")
    OBVIOUS
  <2>4. PICK k, j : /\ k = event_opt([conn[c] EXCEPT !.h["w"] = g], "w")
                    /\ j = [i EXCEPT !.h = off]
    OBVIOUS
  <2>5. conn' = [conn EXCEPT ![c] = k, ![u] = j]
    BY <1>3, <1>7, <2>1, <2>2, <2>3, <2>4
  <2>6. PICK y : y = [tun[t] EXCEPT !.rbody = rbody]
    OBVIOUS
  <2>7. y.used /\ y.up = u /\ y.down = c /\ Level(tun[t], y)
    BY <1>1, <1>2, <2>6 DEF Tunnel, Level
  <2>8. tun'[t] = y /\ \A x \in Tun \ {t} : tun'[x] = tun[x]
    BY <1>7, <2>6 DEF IInv, TypeOK
  <2>9. Fit(c, k, y)
    BY <1>3, <1>4, <2>1, <2>4, <2>7, OptFit
  <2>10. Fit(u, j, y)
    BY <1>3, <2>2, <2>3, <2>4, SilentFit
  <2>11. cur'.h = g /\ cur'.c = c
    BY <1>7, <2>1 DEF Call
  <2>12. PassesOn(t, k, j)
    BY <1>0, <1>1, <1>2, <2>1, <2>5, <2>7, <2>8, <2>9, <2>10, <2>11
       DEF PassesOn, Ordinary
  <2> QED BY <2>12, PassesOnAttended
<1> QED
  BY <1>0, <1>1, <1>5, <1>6, <1>7 DEF http_remote_recv_header

(* tunnel_process_finish: the next tunnel's first handler runs.            *)
LEMMA FinishAttended ==
  ASSUME IInv, Attended, NEW t \in Tun, tun[t].used, tun[t].up \in Conn,
         tun[t].req, t = T, cur # Return, batch' = batch,
         NEW c, c = tun[t].down, NEW u, u = tun[t].up,
         NEW cs \in [Conn -> Connection],
         \A y \in Conn \ {c, u} : cs[y] = conn[y],
         tunnel_process_finish(t, cs)
  PROVE  Attended'
<1> DEFINE closed == [tun EXCEPT ![t] = FreeTun]
           over == [y \in Conn |-> IF y \in {c, u} THEN net_free(cs[y])
                                   ELSE cs[y]]
<1>1. /\ c \in Conn /\ u \in Conn /\ c # u
      /\ conn \in [Conn -> Connection] /\ tun \in [Tun -> Tunnel]
      /\ conn[c].data = t /\ conn[u].data = t /\ cur.c \in {c, u}
  BY BothSides, AtEither DEF IInv, TypeOK, C
<1>2. CASE conn' = over /\ tun' = closed /\ cur' = Return
  <2>1. Ends(t)
    BY <1>1, <1>2 DEF Ends, net_free
  <2> QED BY <1>1, <2>1, EndAttended
<1>3. ASSUME NEW n \in Tun, ~closed[n].used,
             tun' = [closed EXCEPT ![n].used = TRUE, ![n].down = c,
                                   ![n].req = TRUE],
             conn' = [cs EXCEPT
                 ![u] = net_free(@), ![c].data = n,
                 ![c].h = Both("tunnel_local_process_request", "NULL")],
             Call("tunnel_local_process_request", c)
      PROVE  Attended'
  <2>1. closed \in [Tun -> Tunnel] /\ closed[t] = FreeTun
        /\ \A y \in Tun \ {t} : closed[y] = tun[y]
    BY <1>1, FreeTypes
  <2>2. (n = t \/ ~tun[n].used) /\ closed[n] = FreeTun
    BY <1>3, <2>1 DEF IInv, Ownership
  <2> HIDE DEF closed, over
  <2>3. /\ tun'[n].down = c /\ ~tun'[n].relay
        /\ \A y \in Tun \ {n} : tun'[y] = closed[y]
    BY <1>3, <2>1, <2>2, SMTT(60) DEF Tunnel, FreeTun
  <2>4. PICK g \in Handlers : g = "tunnel_local_process_request"
                              /\ g # Handshake
    BY DEF Handlers, DownHandlers, Handshake
  <2>5. Both(g, "NULL") \in [Dir -> Handlers \cup {"NULL"}]
    BY BothTypes
  <2>6. PICK i \in Connection : i = cs[c]
    BY <1>1
  <2>7. PICK k : k = [i EXCEPT !.data = n, !.h = Both(g, "NULL")]
    OBVIOUS
  <2>8. k.data = n /\ k.h = Both(g, "NULL")
    BY <2>5, <2>6, <2>7 DEF Connection
  <2>9. conn' = [cs EXCEPT ![u] = FreeConn, ![c] = k]
    BY <1>1, <1>3, <2>4, <2>6, <2>7 DEF net_free
  <2>10. /\ conn'[c] = k /\ conn'[u] = FreeConn
         /\ \A y \in Conn \ {c, u} : conn'[y] = conn[y]
    BY <1>1, <2>9
  <2>11. cur'.c = c /\ cur'.h = g /\ n # Null /\ c # Null
    BY <1>1, <1>3, <2>4, NameAssumption DEF Call
  <2>12. Minded(c)'
    <3>1. ~Busy(c)'
      BY <2>4, <2>8, <2>10, <2>11 DEF Busy, Both, Dir, Handshake
    <3>2. Mode # "client"
      BY Requested
    <3>3. Plainly(c)' /\ Relays(c)' /\ Greeted(c)'
      BY <2>3, <2>8, <2>10, <2>11, <3>2 DEF Plainly, Relays, Greeted
    <3> QED BY <3>1, <3>3 DEF Minded, AwaitsPeer
  <2>13. Minded(u)'
    BY <1>1, <2>10, <2>11, FreeMinded
  <2>14. Tended(n)'
    BY <2>8, <2>10, <2>11 DEF Tended, T
  <2>15. \A y \in Conn : conn[y].data = t => y \in {c, u}
    BY NameAssumption DEF IInv, Ownership
  <2>16. \A y \in Conn \ {c, u} : conn[y].data \in (Tun \ {t, n}) \cup {Null}
    BY <1>1, <2>2, <2>15 DEF IInv, Ownership, Connection
  <2>17. \A y \in Tun \ {t, n} : tun'[y] = tun[y]
    BY <2>1, <2>3
  <2>18. n # t => ~tun'[t].used
    BY <2>1, <2>3 DEF FreeTun
  <2>19. \A y \in Tun : tun'[y].used =>
           Tended(y)' \/ (tun'[y] = tun[y] /\ y \notin {t, n})
    BY <2>14, <2>17, <2>18
  <2>20. Within({c, u})
    BY <1>1, <2>10, <2>11, <2>16, <2>17, <2>19 DEF Within, Level
  <2>21. \A x \in Conn : x \in {c, u} => Minded(x)'
    BY <2>12, <2>13
  <2> QED BY <2>20, <2>21, AttendFrame
<1> QED
  BY <1>2, <1>3 DEF tunnel_process_finish, Both

(* http_local_send_header.                                                 *)
LEMMA SendHeaderAttended ==
  ASSUME IInv, Course, Attended, batch' = batch, http_local_send_header
  PROVE  Attended'
<1>0. cur.h = "http_local_send_header" /\ cur.h \in DownHandlers
      /\ Ordinary(cur.h)
  BY DEF http_local_send_header, In, DownHandlers, Ordinary, Shakers,
     Handshake, RelayHandlers
<1>1. PICK c \in Conn, t \in Tun : c = C /\ t = T
  BY <1>0, AtDown
<1>2. /\ tun[t].used /\ tun[t].resp /\ tun[t].down = c /\ tun[t].req
      /\ tun[t].up \in Conn /\ tun[t] \in Tunnel /\ cur # Return
      /\ conn[c].data = t
  BY <1>0, <1>1, AtDown DEF Needs
<1>3. PICK u \in Conn : u = tun[t].up
  BY <1>2
<1>4. /\ c # u /\ conn[c] \in Connection /\ conn[u] \in Connection
      /\ conn \in [Conn -> Connection]
  BY <1>2, <1>3, BothSides
<1>5. Mode # "client" /\ \A d \in Dir : conn[c].h[d] # Handshake
                                        /\ conn[u].h[d] # Handshake
  BY <1>2, <1>3, Requested, ClientUnshaken, AnswerUnshaken
<1>6. PICK i : i = timer_del(conn[c], "w")
  OBVIOUS
<1>7. /\ i \in Connection /\ i.used = conn[c].used /\ i.data = conn[c].data
      /\ i.h = conn[c].h
  BY <1>4, <1>6, Untimed
<1>8. PICK sent \in [Conn -> Connection] : sent = [conn EXCEPT ![c] = i]
  BY <1>4, <1>7
<1>9. /\ sent = [conn EXCEPT ![c] = timer_del(@, "w")] /\ sent[c] = i
      /\ \A y \in Conn \ {c, u} : sent[y] = conn[y]
  BY <1>4, <1>6, <1>8
<1>10. CASE tunnel_over(T)
  BY <1>1, <1>2, <1>10, OverAttended
<1>11. CASE Await(C, "w")
  BY <1>0, <1>1, <1>2, <1>11, AwaitAttended DEF Dir, Ordinary
<1>12. CASE tunnel_process_finish(t, sent)
  <2>1. \A y \in Conn \ {c, u} : sent[y] = conn[y]
    BY <1>9
  <2> QED BY <1>1, <1>2, <1>3, <1>12, <2>1, FinishAttended
<1>13. CASE /\ tun' = [tun EXCEPT ![t].respBody = TRUE]
            /\ conn' = [sent EXCEPT ![c].h["w"] = "http_local_send_body",
                                    ![u].h["r"] = "http_remote_recv_body"]
            /\ Call("http_remote_recv_body", u)
  <2>1. PICK k : k = [i EXCEPT !.h["w"] = "http_local_send_body"]
    OBVIOUS
  <2>2. /\ k.used = conn[c].used /\ k.data = conn[c].data
        /\ k.h = [conn[c].h EXCEPT !["w"] = "http_local_send_body"]
    BY <1>7, <2>1 DEF Connection
  <2>3. PICK g : g = "http_remote_recv_body" /\ g # Handshake
    BY DEF Handshake
  <2>4. PICK j : j = [conn[u] EXCEPT !.h["r"] = g]
    OBVIOUS
  <2>5. /\ j.used = conn[u].used /\ j.data = conn[u].data
        /\ j.h = [conn[u].h EXCEPT !["r"] = g]
        /\ j.ssl = conn[u].ssl /\ j.f = conn[u].f
    BY <1>4, <2>4 DEF Connection
  <2>6. conn' = [conn EXCEPT ![c] = k, ![u] = j]
    BY <1>4, <1>8, <1>9, <1>13, <2>1, <2>3, <2>4
  <2>7. cur'.h = g /\ cur'.c = u
    BY <1>13, <2>3 DEF Call
  <2>8. \A d \in Dir : k.h[d] # Handshake /\ j.h[d] # Handshake
    BY <1>4, <1>5, <2>2, <2>3, <2>5 DEF Connection, Handshake
  <2>9. PICK y : y = [tun[t] EXCEPT !.respBody = TRUE]
    OBVIOUS
  <2>10. y.used /\ y.down = c /\ y.up = tun[t].up /\ Level(tun[t], y)
    BY <1>2, <2>9 DEF Tunnel, Level
  <2>11. tun'[t] = y /\ \A x \in Tun \ {t} : tun'[x] = tun[x]
    BY <1>13, <2>9 DEF IInv, TypeOK
  <2>12. Fit(c, k, y)
    BY <1>5, <2>2, <2>8, <2>10 DEF Fit
  <2>13. Fit(u, j, y)
    BY <1>5, <2>5, <2>8 DEF Fit
  <2>14. PassesOn(t, k, j)
    BY <1>0, <1>1, <1>2, <1>3, <2>3, <2>6, <2>7, <2>10, <2>11, <2>12, <2>13
       DEF PassesOn, Ordinary
  <2> QED BY <2>14, PassesOnAttended
<1> QED
  BY <1>0, <1>1, <1>3, <1>9, <1>10, <1>11, <1>12, <1>13
     DEF http_local_send_header

(* The inner loop of http_body_transport( t, 1 ).                          *)
LEMMA SendBodyAttended ==
  ASSUME IInv, Attended, NEW t \in Tun, tun[t].used, tun[t].req,
         tun[t].up \in Conn, t = T, cur # Return,
         cur.h \notin Shakers \cup {Handshake}, batch' = batch,
         NEW done, SendBody(t, done)
  PROVE  Attended'
<1>1. PICK c \in Conn, u \in Conn : c = tun[t].down /\ u = tun[t].up
  BY Owned
<1>2. /\ c # u /\ conn[c] \in Connection /\ conn[u] \in Connection
      /\ conn \in [Conn -> Connection] /\ tun[t] \in Tunnel
      /\ conn[u].data = t
  BY <1>1, BothSides, Owned
<1>3. CASE tunnel_over(t)
  BY <1>3, OverAttended
<1>4. CASE /\ conn' = [conn EXCEPT ![u] = timer_add(@, "r", t)]
           /\ tun' = [tun EXCEPT ![t].trans = done]
           /\ cur' = Return
  <2>1. PICK z : z = [tun[t] EXCEPT !.trans = done]
    OBVIOUS
  <2>2. Level(tun[t], z) /\ z.up = tun[t].up
    BY <1>2, <2>1 DEF Tunnel, Level
  <2>3. tun'[t] = z /\ \A x \in Tun \ {t} : tun'[x] = tun[x]
    BY <1>4, <2>1 DEF IInv, TypeOK
  <2>4. Arms(t, u, "r")
    BY <1>2, <1>4, <2>2, <2>3 DEF Arms
  <2> QED BY <2>4, ArmsAttended DEF Dir
<1>5. CASE tunnel_process_finish(t, [conn EXCEPT ![u] = timer_del(@, "r")])
  <2>1. PICK k : k = timer_del(conn[u], "r")
    OBVIOUS
  <2>2. k \in Connection
    BY <1>2, <2>1, TimerDel DEF Dir
  <2>3. PICK cs \in [Conn -> Connection] : cs = [conn EXCEPT ![u] = k]
    BY <1>2, <2>2
  <2>4. tunnel_process_finish(t, cs)
    BY <1>5, <2>1, <2>3
  <2>5. \A y \in Conn \ {c, u} : cs[y] = conn[y]
    BY <1>2, <2>3
  <2> QED BY <1>1, <2>4, <2>5, FinishAttended
<1> QED
  BY <1>1, <1>3, <1>4, <1>5 DEF SendBody

(* http_local_send_body and http_remote_recv_body.                         *)
LEMMA SendBodiesAttended ==
  ASSUME IInv, Attended, batch' = batch,
         http_local_send_body \/ http_remote_recv_body
  PROVE  Attended'
<1>1. cur.h \in {"http_local_send_body", "http_remote_recv_body"}
  <2>1. http_local_send_body => cur.h = "http_local_send_body"
    BY DEF http_local_send_body, In
  <2>2. http_remote_recv_body => cur.h = "http_remote_recv_body"
    BY DEF http_remote_recv_body, In
  <2> QED BY <2>1, <2>2
<1>2. PICK t \in Tun : t = T /\ tun[t].used /\ cur # Return
  BY <1>1, AtDown, AtUp DEF DownHandlers, UpHandlers
<1>3. tun[t].up \in Conn /\ tun[t].req
  <2>1. CASE cur.h = "http_local_send_body"
    BY <1>2, <2>1, AtDown DEF Needs, DownHandlers, T, C
  <2>2. CASE cur.h = "http_remote_recv_body"
    BY <1>2, <2>2, AtUp DEF Needs, UpHandlers, T, C
  <2> QED BY <1>1, <2>1, <2>2
<1>4. cur.h \notin Shakers \cup {Handshake}
  BY <1>1 DEF Shakers, Handshake
<1>5. PICK done : SendBody(t, done)
  BY <1>2 DEF http_local_send_body, http_remote_recv_body
<1> QED
  BY <1>2, <1>3, <1>4, <1>5, SendBodyAttended

-----------------------------------------------------------------------------
(* The loop.                                                               *)

(* A client that is taken into the pool is greeted, or its event waits.    *)
LEMMA AdmitAttended ==
  ASSUME IInv, Attended, NEW c \in Usable, tun' = tun, cur = Return,
         SetConn(c, event_opt([net_alloc(conn[c]) EXCEPT
                                  !.h["r"] = "tunnel_local_init"], "r")),
         batch \subseteq batch',
         \/ Call("tunnel_local_init", c)
         \/ cur' = Return /\ <<c, "r">> \in batch'
  PROVE  Attended'
<1>1. c \in Conn /\ conn[c] = FreeConn /\ conn \in [Conn -> Connection]
  BY DEF Usable, IInv, Ownership, TypeOK
<1>2. PICK g \in Handlers : g = "tunnel_local_init" /\ g # Handshake
  BY DEF Handlers, GreetHandlers, Handshake
<1>3. PICK m, i : m = net_alloc(FreeConn) /\ i = [m EXCEPT !.h["r"] = g]
  OBVIOUS
<1>4. /\ m \in Connection /\ m.data = Null /\ m.ssl = "none"
      /\ \A d \in Dir : ~m.f[d] /\ m.h[d] = "NULL"
  BY <1>3, Allocated DEF net_alloc, FreeConn
<1>5. /\ i \in Connection /\ i.data = Null /\ i.ssl = m.ssl /\ i.f = m.f
      /\ i.h = [m.h EXCEPT !["r"] = g]
  BY <1>2, <1>3, <1>4 DEF Connection
<1>6. PICK k : k = event_opt(i, "r")
  OBVIOUS
<1>7. /\ k.data = Null /\ k.ssl = "none" /\ k.h = i.h /\ ~k.f["w"]
  BY <1>4, <1>5, <1>6, EventOpt, OptOnly DEF Dir
<1>8. conn' = [conn EXCEPT ![c] = k]
  BY <1>1, <1>2, <1>3, <1>6 DEF SetConn
<1>9. conn'[c] = k /\ \A x \in Conn \ {c} : conn'[x] = conn[x]
  BY <1>1, <1>8
<1>10. k.h["r"] = g /\ \A d \in Dir : k.h[d] # Handshake
  BY <1>2, <1>4, <1>5, <1>7 DEF Connection, Dir, Handshake
<1>11. (cur' = Return \/ cur'.c = c) /\ cur'.h # Handshake
  BY <1>2 DEF Call, Return, Handshake
<1>12. Minded(c)'
  <2>1. ~Busy(c)'
    BY <1>9, <1>10, <1>11 DEF Busy
  <2>2. Plainly(c)'
    BY <1>7, <1>9 DEF Plainly
  <2>3. Relays(c)'
    BY <1>7, <1>9 DEF Relays
  <2>4. Greeted(c)'
    BY <1>2, <1>9, <1>10 DEF Greeted, Call
  <2> QED BY <2>1, <2>2, <2>3, <2>4 DEF Minded, AwaitsPeer
<1>13. \A t \in Tun : conn[c].data # t
  BY <1>1, NameAssumption DEF FreeConn
<1>14. Within({c})
  BY <1>9, <1>11, <1>13, SameLevel DEF Within
<1>15. \A x \in Conn : x \in {c} => Minded(x)'
  BY <1>12
<1> QED BY <1>14, <1>15, AttendFrame

(* A step of the loop that changes neither pool; an event that was to be   *)
(* looked at still is, or its handler is called, or it is of a connection  *)
(* that was freed, or is not registered.                                   *)
Looks(c, d) ==
  \/ <<c, d>> \in batch'
  \/ CallsOf(c, d)
  \/ ~conn[c].active \/ ~conn[c].f[d]
LEMMA PoolsAttended ==
  ASSUME IInv, Heard, Attended, conn' = conn, tun' = tun, cur = Return,
         cur' = Return \/ \E c \in Conn, d \in Dir : CallsOf(c, d),
         \A c \in Conn, d \in Dir : <<c, d>> \in batch => Looks(c, d)
  PROVE  Attended'
<1> USE NameAssumption
<1>1. ASSUME NEW x \in Conn, cur'.c = x
      PROVE  \E d \in Dir : cur'.h = conn[x].h[d] /\ cur'.h # "NULL"
  <2>1. PICK c \in Conn, d \in Dir : CallsOf(c, d)
    BY <1>1 DEF Return
  <2>2. cur' # Return
    BY <1>1 DEF Return
  <2> QED BY <1>1, <2>1, <2>2 DEF CallsOf
<1>2. ASSUME NEW x \in Conn, NEW d \in Dir, conn[x].h[d] # "NULL",
             <<x, d>> \in batch
      PROVE  <<x, d>> \in batch' \/ cur' = [h |-> conn[x].h[d], c |-> x]
  <2>1. Reg(x) /\ ~Fresh(x)
    BY DEF Heard, Fresh, Return
  <2>2. conn[x].f[d] /\ conn[x].active
    BY <1>2, <2>1 DEF Reg, Wired
  <2> QED BY <1>2, <2>2 DEF Looks, CallsOf
<1>3. ASSUME NEW x \in Conn PROVE Minded(x)'
  <2>1. Minded(x) /\ cur.c # x
    BY DEF Attended, Return
  <2>2. AwaitsPeer(x)'
    <3>1. Busy(x)' => Busy(x)
      BY <1>1, <2>1 DEF Busy
    <3>2. CASE Busy(x)
      <4>1. /\ \A d \in Dir : conn[x].h[d] \in {"NULL", Handshake}
            /\ conn[x].ssl = "init"
            /\ conn[x].t[IF conn[x].data = Null THEN "r" ELSE "w"] # Null
        BY <2>1, <3>2 DEF Minded, AwaitsPeer
      <4>2. cur'.c = x => cur'.h = Handshake
        BY <1>1, <4>1
      <4> QED BY <4>1, <4>2 DEF AwaitsPeer
    <3> QED BY <3>1, <3>2 DEF AwaitsPeer
  <2>3. Plainly(x)'
    BY <2>1 DEF Minded, Plainly
  <2>4. Relays(x)'
    BY <1>1, <2>1 DEF Minded, Relays
  <2>5. Greeted(x)'
    <3>1. CASE <<x, "r">> \in batch /\ conn[x].h["r"] = "tunnel_local_init"
      <4>1. <<x, "r">> \in batch' \/ cur'.c = x
        <5>1. "r" \in Dir /\ conn[x].h["r"] # "NULL"
          BY <3>1 DEF Dir
        <5>2. \/ <<x, "r">> \in batch'
              \/ cur' = [h |-> conn[x].h["r"], c |-> x]
          BY <1>2, <3>1, <5>1
        <5> QED BY <5>2
      <4> QED BY <3>1, <4>1 DEF Greeted
    <3> QED BY <2>1, <3>1 DEF Minded, Greeted
  <2> QED BY <2>2, <2>3, <2>4, <2>5 DEF Minded
<1>4. ASSUME NEW t \in Tun, tun[t].used PROVE Tended(t)'
  <2>1. PICK x \in {tun[t].down, tun[t].up} \ {Null} : Awaited(x)
    BY <1>4 DEF Attended, Tended, Return
  <2>2. x \in Conn /\ conn[x].data = t
    BY <1>4, <2>1, Owned
  <2>3. CASE Timed(x)
    BY <2>1, <2>3 DEF Tended, Awaited, Timed
  <2>4. CASE tun[t].relay /\ conn[x].edge
    BY <2>1, <2>2, <2>4 DEF Tended, Awaited
  <2>5. CASE tun[t].relay /\ <<x, "w">> \in batch
    <3>1. conn[x].h["w"] \in RelayHandlers
      BY <2>2, <2>5 DEF Attended, Minded, Relays, Dir
    <3>2. <<x, "w">> \in batch' \/ cur'.c = x
      <4>1. "w" \in Dir /\ conn[x].h["w"] # "NULL"
        BY <3>1 DEF RelayHandlers, Dir
      <4>2. \/ <<x, "w">> \in batch'
            \/ cur' = [h |-> conn[x].h["w"], c |-> x]
        BY <1>2, <2>2, <2>5, <4>1
      <4> QED BY <4>2
    <3> QED BY <2>1, <2>2, <2>5, <3>2 DEF Tended, Awaited, T
  <2> QED BY <2>1, <2>2, <2>3, <2>4, <2>5 DEF Awaited
<1>5. \A t \in Tun : Tended(t)'
  BY <1>4 DEF Tended
<1> QED BY <1>3, <1>5 DEF Attended

(* epoll_wait: what is owed is given.                                      *)
LEMMA WaitAttended ==
  ASSUME IInv, Attended, epoll_wait
  PROVE  Attended'
<1>1. PICK B : /\ batch' = B
               /\ conn' = [c \in Conn |-> [conn[c] EXCEPT
                             !.edge = @ /\ <<c, "w">> \notin B]]
  BY DEF epoll_wait
<1>2. tun' = tun /\ cur' = Return /\ cur = Return /\ batch = {}
  BY DEF epoll_wait, Sleeping, Idle
<1>3. ASSUME NEW c \in Conn
      PROVE  LET k == conn[c]
                 j == conn'[c]
             IN /\ j.used = k.used /\ j.data = k.data /\ j.h = k.h
                /\ j.t = k.t /\ j.f = k.f /\ j.ssl = k.ssl
                /\ k.edge => j.edge \/ <<c, "w">> \in B
  <2>1. PICK k \in Connection : k = conn[c]
    BY DEF IInv, TypeOK
  <2>2. PICK j : j = conn'[c]
    OBVIOUS
  <2>3. PICK e : e = (k.edge /\ <<c, "w">> \notin B)
    OBVIOUS
  <2>4. j = [k EXCEPT !.edge = e]
    BY <1>1, <2>1, <2>2, <2>3
  <2>5. /\ j.used = k.used /\ j.data = k.data /\ j.h = k.h
        /\ j.t = k.t /\ j.f = k.f /\ j.ssl = k.ssl /\ j.edge = e
    BY <2>1, <2>4 DEF Connection
  <2> QED BY <2>1, <2>2, <2>3, <2>5
<1>4. ASSUME NEW x \in Conn PROVE Minded(x)'
  <2>1. Minded(x) /\ x # Null
    BY NameAssumption DEF Attended
  <2>2. AwaitsPeer(x)'
    BY <1>2, <1>3, <2>1 DEF Minded, AwaitsPeer, Busy
  <2>3. Plainly(x)'
    BY <1>2, <1>3, <2>1 DEF Minded, Plainly
  <2>4. Relays(x)'
    BY <1>2, <1>3, <2>1 DEF Minded, Relays
  <2>5. Greeted(x)'
    BY <1>2, <1>3, <2>1 DEF Minded, Greeted, Return
  <2> QED BY <2>2, <2>3, <2>4, <2>5 DEF Minded
<1>5. ASSUME NEW t \in Tun, tun[t].used PROVE Tended(t)'
  <2>1. PICK x \in {tun[t].down, tun[t].up} \ {Null} : Awaited(x)
    BY <1>2, <1>5 DEF Attended, Tended, Return
  <2>2. x \in Conn
    BY <1>5, <2>1, Owned
  <2>3. Awaited(x)'
    BY <1>1, <1>2, <1>3, <2>1, <2>2 DEF Awaited, Timed
  <2> QED BY <1>2, <2>1, <2>3 DEF Tended
<1>6. \A t \in Tun : Tended(t)'
  BY <1>2, <1>5 DEF Tended
<1> QED BY <1>4, <1>6 DEF Attended

(* timer_expire.                                                           *)
LEMMA ExpireAttended ==
  ASSUME IInv, Attended, NEW c \in Conn, NEW d \in Dir, timer_expire(c, d)
  PROVE  Attended'
<1>1. cur = Return /\ batch' = batch
  BY DEF timer_expire, Sleeping, Idle, loopVars
<1>2. CASE conn[c].t[d] \in Conn /\ tunnel_close_connection(conn[c].t[d])
  <2>1. conn[c].t[d] = c /\ conn[c].data = Null
    BY <1>2 DEF IInv, HandshakeTimers
  <2> QED BY <1>1, <1>2, <2>1, CloseAttended
<1>3. ASSUME NEW t \in Tun, tunnel_over(t) PROVE Attended'
  <2>1. Ends(t)
    BY <1>3 DEF tunnel_over, net_free, Ends
  <2> QED BY <1>1, <2>1, EndAttended
<1> QED BY <1>2, <1>3 DEF timer_expire

(* The loop without the accept mutex.                                      *)
LEMMA LoopAttended ==
  ASSUME IInv, Heard, Attended, Loop
  PROVE  Attended'
<1>1. CASE epoll_wait
  BY <1>1, WaitAttended
<1>2. CASE event_loop_accept
  <2>1. /\ cur = Return /\ cur' = Return /\ conn' = conn /\ tun' = tun
        /\ batch' = batch \ {<<Listener, "r">>}
    BY <1>2 DEF event_loop_accept, Idle
  <2>2. \A c \in Conn, d \in Dir : <<c, d>> \in batch => Looks(c, d)
    BY <2>1, NameAssumption DEF Looks
  <2> QED BY <2>1, <2>2, PoolsAttended
<1>3. CASE event_accept
  <2>1. cur = Return /\ tun' = tun /\ batch' = batch
    BY <1>3 DEF event_accept, Idle
  <2>2. CASE UNCHANGED <<conn, cur>>
    BY <2>1, <2>2, PoolsAttended DEF Looks
  <2>3. ASSUME NEW c \in Usable,
               SetConn(c, event_opt([net_alloc(conn[c]) EXCEPT
                                       !.h["r"] = "tunnel_local_init"], "r")),
               Call("tunnel_local_init", c)
        PROVE  Attended'
    BY <2>1, <2>3, AdmitAttended
  <2> QED BY <1>3, <2>2, <2>3 DEF event_accept
<1>4. ASSUME NEW c \in Conn, event_loop_skip(c) PROVE Attended'
  <2>1. /\ cur = Return /\ cur' = Return /\ conn' = conn /\ tun' = tun
        /\ batch' = batch \ ({c} \X Dir) /\ ~conn[c].active
    BY <1>4 DEF event_loop_skip, Idle
  <2>2. \A x \in Conn, d \in Dir : <<x, d>> \in batch => Looks(x, d)
    BY <2>1 DEF Looks
  <2> QED BY <2>1, <2>2, PoolsAttended
<1>5. ASSUME NEW c \in Conn, NEW d \in Dir, cur = Return, conn' = conn,
             tun' = tun, Dispatch(c, d)
      PROVE  Attended'
  <2>1. /\ batch' = batch \ {<<c, d>>}
        /\ CallsOf(c, d) \/ ~conn[c].f[d]
        /\ cur' = Return \/ CallsOf(c, d)
    BY <1>5 DEF Dispatch, CallsOf
  <2>2. \A x \in Conn, y \in Dir : <<x, y>> \in batch => Looks(x, y)
    BY <2>1 DEF Looks
  <2> QED BY <1>5, <2>1, <2>2, PoolsAttended
<1>6. ASSUME NEW c \in Conn, event_loop_read(c) \/ event_loop_write(c)
      PROVE  Attended'
  BY <1>5, <1>6 DEF event_loop_read, event_loop_write, Idle, Dir
<1>7. ASSUME NEW c \in Conn, NEW d \in Dir, timer_expire(c, d)
      PROVE  Attended'
  BY <1>7, ExpireAttended
<1> QED
  BY <1>1, <1>2, <1>3, <1>4, <1>6, <1>7 DEF Loop

(* Every step of the worker.                                               *)
LEMMA AttendStep ==
  ASSUME Whole, Attended, [Next]_vars
  PROVE  Attended'
<1> USE DEF Whole
<1>1. CASE Handler
  <2>1. batch' = batch
    BY <1>1 DEF Handler, loopVars
  <2>2. CASE Greet
    BY <2>1, <2>2, LocalInitAttended, SslAttended, LocalHandshakeAttended,
       LocalStartAttended DEF Greet
  <2>3. CASE Request
    BY <2>1, <2>3, ProcessRequestAttended, ProcessProcotolAttended,
       ProcessBodyAttended DEF Request
  <2>4. CASE Connect
    BY <2>1, <2>4, RemoteInitAttended, ConnectStartAttended,
       ConnectCheckAttended, RemoteHandshakeAttended, StartAttended
       DEF Connect
  <2>5. CASE Relay
    BY <2>1, <2>5, HttpsConnectedAttended, HttpsStartAttended,
       TransportsAttended DEF Relay
  <2>6. CASE Respond
    BY <2>1, <2>6, RemoteSendAttended, RecvHeaderAttended,
       SendHeaderAttended, SendBodiesAttended DEF Respond
  <2> QED BY <1>1, <2>2, <2>3, <2>4, <2>5, <2>6 DEF Handler
<1>2. CASE Loop
  BY <1>2, LoopAttended
<1>3. CASE UNCHANGED vars
  <2>1. conn' = conn /\ tun' = tun /\ cur' = cur /\ batch' = batch
    BY <1>3 DEF vars
  <2>2. \A c \in Conn : Minded(c)' <=> Minded(c)
    BY <2>1 DEF Minded, AwaitsPeer, Busy, Plainly, Relays, Greeted
  <2>3. \A t \in Tun : Tended(t)' <=> Tended(t)
    BY <2>1 DEF Tended, Awaited, Timed, T
  <2> QED BY <2>2, <2>3 DEF Attended
<1> QED BY <1>1, <1>2, <1>3 DEF Next

(* Every step of the worker with the accept mutex.                         *)
LEMMA DeferredAttends ==
  ASSUME Whole, Deferring, Attended, [DeferredNext]_deferredVars
  PROVE  Attended'
<1>1. CASE \/ Handler
           \/ epoll_wait
           \/ \E c \in Conn, d \in Dir : timer_expire(c, d)
  <2>1. Next
    BY <1>1 DEF Next, Loop
  <2> QED BY <2>1, AttendStep
<1>2. CASE event_loop_queue
  <2>1. /\ cur = Return /\ cur' = Return /\ conn' = conn /\ tun' = tun
        /\ batch' = Reported
    BY <1>2 DEF event_loop_queue, Idle
  <2>2. \A c \in Conn, d \in Dir : <<c, d>> \in batch => Looks(c, d)
    BY <2>1, NameAssumption DEF Looks, Reported
  <2> QED BY <2>1, <2>2, PoolsAttended DEF Whole
<1>3. CASE event_accept_queue
  <2>1. cur = Return /\ cur' = Return /\ tun' = tun
    BY <1>3 DEF event_accept_queue, Idle
  <2>2. CASE UNCHANGED <<conn, batch>>
    BY <2>1, <2>2, PoolsAttended DEF Looks, Whole
  <2>3. ASSUME NEW c \in Usable, SetConn(c, Accepted(conn[c])),
               batch' = batch \cup {<<c, "r">>}
        PROVE  Attended'
    BY <2>1, <2>3, AdmitAttended DEF Accepted, Whole
  <2> QED BY <1>3, <2>2, <2>3 DEF event_accept_queue, queue_insert
<1>4. CASE event_loop_run
  <2>1. /\ cur = Return /\ conn' = conn /\ tun' = tun
        /\ batch' = batch \ {Head(queue_event)}
        /\ batch = Events(queue_event) /\ queue_event # <<>>
        /\ queue_event \in Seq(Conn \X Dir)
    BY <1>4 DEF event_loop_run, Idle, Deferring
  <2>2. Head(queue_event) \in Conn \X Dir
    BY <2>1
  <2>3. PICK c \in Conn, d \in Dir : Head(queue_event) = <<c, d>>
    BY <2>2
  <2>4. CallsOf(c, d)
    BY <1>4, <2>3 DEF event_loop_run, Called, CallsOf
  <2>5. \A x \in Conn, y \in Dir : <<x, y>> \in batch => Looks(x, y)
    BY <2>1, <2>3, <2>4 DEF Looks
  <2> QED BY <2>1, <2>4, <2>5, PoolsAttended DEF Whole
<1>5. CASE UNCHANGED deferredVars
  <2>1. UNCHANGED vars
    BY <1>5 DEF deferredVars, vars
  <2> QED BY <2>1, AttendStep
<1> QED
  BY <1>1, <1>2, <1>3, <1>4, <1>5
     DEF DeferredNext, DeferredRunning, DeferredLoop

(* A worker starts with nobody to attend to.                               *)
LEMMA AttendInit ==
  ASSUME Init
  PROVE  Attended
<1>1. /\ \A c \in Conn : conn[c] = FreeConn
      /\ \A t \in Tun : tun[t] = FreeTun
      /\ cur = Return
  BY DEF Init
<1>2. ASSUME NEW c \in Conn PROVE Minded(c)
  BY <1>1, <1>2, NameAssumption
     DEF FreeConn, Minded, AwaitsPeer, Busy, Plainly, Relays, Greeted, Dir,
         Handshake, Return
<1>3. \A t \in Tun : Tended(t)
  BY <1>1 DEF Tended, FreeTun
<1> QED BY <1>2, <1>3 DEF Attended

(* A worker that sleeps with everybody attended to has a timer for each.   *)
LEMMA AttendedTimed ==
  ASSUME IInv, Course, Attended
  PROVE  EveryWaitTimed
<1> SUFFICES ASSUME Sleeping PROVE EveryWaitTimed
  BY DEF EveryWaitTimed
<1>1. cur.c = Null /\ batch = {}
  BY DEF Sleeping, Idle, Return
<1>2. ASSUME NEW t \in Tun, tun[t].used
      PROVE  \E c \in {tun[t].down, tun[t].up} \ {Null} :
               Timed(c) \/ (tun[t].relay /\ conn[c].edge)
  <2>1. PICK c \in {tun[t].down, tun[t].up} \ {Null} : Awaited(c)
    BY <1>1, <1>2 DEF Attended, Tended
  <2>2. conn[c].data = t
    BY <1>2, <2>1, Owned
  <2> QED BY <1>1, <2>1, <2>2 DEF Awaited
<1>3. ASSUME NEW c \in Conn, conn[c].used, conn[c].data = Null
      PROVE  conn[c].ssl = "init" /\ conn[c].t["r"] = c
  <2>1. conn[c].ssl = "init" /\ conn[c].t["r"] # Null
    BY <1>1, <1>3, NameAssumption DEF Attended, Minded, Greeted
  <2>2. Clock(c)
    BY DEF Course
  <2> QED BY <1>3, <2>1, <2>2 DEF Clock, Dir
<1> QED BY <1>2, <1>3 DEF EveryWaitTimed

(* No wait is unbounded, in any mode, with pools of every size, and        *)
(* whatever the peers and the kernel do: when the worker goes to sleep     *)
(* every tunnel in use has a timer armed, or is a relay that epoll owes a  *)
(* write event (which arms one), and a client without a tunnel is in its   *)
(* SSL handshake, with the timer of the handshake armed.                   *)
THEOREM Timely == Spec => []EveryWaitTimed
<1>1. Init => Whole /\ Attended
  BY Starts, SessionInit, HeardInit, CourseInit, AttendInit DEF Whole
<1>2. Whole /\ Attended /\ [Next]_vars => Whole' /\ Attended'
  BY WholeStep, AttendStep
<1>3. Whole /\ Attended => EveryWaitTimed
  BY AttendedTimed DEF Whole
<1> QED
  BY <1>1, <1>2, <1>3, PTL DEF Spec

(* With the accept mutex, too, where an accepted client's event waits in   *)
(* the queue until the mutex was given back.                               *)
THEOREM TimelyDeferred == DeferredSpec => []EveryWaitTimed
<1>1. DeferredInit => Whole /\ Deferring /\ Attended
  BY DeferredStart, AttendInit DEF DeferredInit
<1>2. Whole /\ Deferring /\ Attended /\ [DeferredNext]_deferredVars =>
        Whole' /\ Deferring' /\ Attended'
  BY DeferredStep, DeferredAttends
<1>3. Whole /\ Attended => EveryWaitTimed
  BY AttendedTimed DEF Whole
<1> QED
  BY <1>1, <1>2, <1>3, PTL DEF DeferredSpec
=============================================================================
