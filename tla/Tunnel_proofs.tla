---------------------------- MODULE Tunnel_proofs ----------------------------
(***************************************************************************)
(* Proofs about Tunnel, for pools of every size, every mode and every      *)
(* bound on a batch.                                                       *)
(*                                                                         *)
(* TypeOK, Ownership and NoWildHandler are proved together, as IInv: none  *)
(* is inductive alone.  A handler finds its tunnel because Ownership ties  *)
(* the pools together; Ownership is kept because the handler that runs is  *)
(* one whose needs NoWildHandler states.                                   *)
(*                                                                         *)
(* The lemmas come in this order: what the operations on one connection    *)
(* keep; frames (a step that changes one connection, one tunnel, or a      *)
(* tunnel with both its connections leaves the others safe); the ways out  *)
(* of a handler (tunnel_over, Await, tunnel_process_finish); what IInv     *)
(* says of the two sides of the tunnel at work; one lemma per handler; the *)
(* steps of the event loop; and the theorems; then the same once more for  *)
(* the implementation of Sessions, and for the events.                     *)
(***************************************************************************)
EXTENDS Tunnel, TLAPS

-----------------------------------------------------------------------------
(* What the operations on one connection return.                           *)

(* What net_free and tunnel_free leave behind has its type.                *)
LEMMA FreeTypes == FreeConn \in Connection /\ FreeTun \in Tunnel
BY NameAssumption DEF FreeConn, FreeTun, Connection, Tunnel, Dir, Timer

(* timer_add and timer_del change one timer.                               *)
LEMMA TimerAdd ==
  ASSUME NEW k \in Connection, NEW d \in Dir, NEW x \in Timer
  PROVE  /\ timer_add(k, d, x) \in Connection
         /\ timer_add(k, d, x).t = [k.t EXCEPT ![d] = x]
         /\ timer_add(k, d, x).used = k.used
         /\ timer_add(k, d, x).data = k.data
         /\ timer_add(k, d, x).h = k.h
         /\ timer_add(k, d, x).ssl = k.ssl
         /\ timer_add(k, d, x).sslh = k.sslh
BY DEF timer_add, Connection

(* timer_del changes one timer, or none.                                   *)
LEMMA TimerDel ==
  ASSUME NEW k \in Connection, NEW d \in Dir
  PROVE  /\ timer_del(k, d) \in Connection
         /\ timer_del(k, d).t = [k.t EXCEPT ![d] = Null]
         /\ timer_del(k, d).used = k.used
         /\ timer_del(k, d).data = k.data
         /\ timer_del(k, d).h = k.h
         /\ timer_del(k, d).ssl = k.ssl
         /\ timer_del(k, d).sslh = k.sslh
<1>1. Null \in Timer
  BY DEF Timer
<1>2. timer_del(k, d) = timer_add(k, d, Null)
  BY DEF timer_del, timer_add
<1> QED
  BY <1>1, <1>2, TimerAdd

(* event_opt changes the registration of the events and nothing else.      *)
LEMMA EventOpt ==
  ASSUME NEW k \in Connection, NEW d \in Dir
  PROVE  /\ event_opt(k, d) \in Connection
         /\ event_opt(k, d).used = k.used
         /\ event_opt(k, d).data = k.data
         /\ event_opt(k, d).h = k.h
         /\ event_opt(k, d).t = k.t
         /\ event_opt(k, d).ssl = k.ssl
         /\ event_opt(k, d).sslh = k.sslh
<1>1. Other(d) \in Dir
  BY DEF Dir, Other
<1>2. {d} \cup (IF k.f[Other(d)] THEN {Other(d)} ELSE {}) \in SUBSET Dir
  BY <1>1
<1>3. [k.f EXCEPT ![d] = TRUE] \in [Dir -> BOOLEAN]
  BY DEF Connection
<1> QED
  BY <1>2, <1>3 DEF event_opt, Connection

(* ssl_handshake, wanting a direction, leaves ssl_handshake_handler on     *)
(* that event and nothing on the other.                                    *)
LEMMA SslWant ==
  ASSUME NEW k \in Connection, NEW d \in Dir
  PROVE  /\ ssl_want(k, d) \in Connection
         /\ ssl_want(k, d).used = k.used
         /\ ssl_want(k, d).data = k.data
         /\ ssl_want(k, d).h = [e \in Dir |-> IF e = d
                                  THEN "ssl_handshake_handler" ELSE "NULL"]
         /\ ssl_want(k, d).t = k.t
         /\ ssl_want(k, d).ssl = k.ssl
         /\ ssl_want(k, d).sslh = k.sslh
<1> DEFINE j == [k EXCEPT !.h[d] = "ssl_handshake_handler",
                          !.h[Other(d)] = "NULL"]
           g == [e \in Dir |-> IF e = d THEN "ssl_handshake_handler"
                                         ELSE "NULL"]
<1>1. k.h \in [Dir -> Handlers \cup {"NULL"}]
  BY DEF Connection
<1>2. g \in [Dir -> Handlers \cup {"NULL"}]
  BY DEF Handlers
<1>3. [[k.h EXCEPT ![d] = "ssl_handshake_handler"] EXCEPT ![Other(d)] = "NULL"] = g
  BY <1>1 DEF Dir, Other
<1>4. j = [k EXCEPT !.h = g]
  BY <1>3 DEF Connection
<1>5. /\ j \in Connection
      /\ j.used = k.used /\ j.data = k.data /\ j.h = g /\ j.t = k.t
      /\ j.ssl = k.ssl /\ j.sslh = k.sslh
  <2> HIDE DEF g
  <2> QED BY <1>2, <1>4 DEF Connection
<1> HIDE DEF j
<1> QED
  BY <1>5, EventOpt DEF ssl_want, j

-----------------------------------------------------------------------------
(* Steps that neither take nor give back a pool entry.                     *)

TunnelsGrow ==
  /\ tun' \in [Tun -> Tunnel]
  /\ \A t \in Tun :
       /\ ~tun[t].used => tun'[t] = tun[t]
       /\ tun'[t].used = tun[t].used
       /\ tun'[t].down = tun[t].down
       /\ tun'[t].up = tun[t].up
       /\ tun'[t].req = tun[t].req
       /\ tun[t].reqBody => tun'[t].reqBody
       /\ tun[t].resp => tun'[t].resp
       /\ tun[t].respBody => tun'[t].respBody
       /\ tun[t].relay => tun'[t].relay

ConnKept(c) ==
  conn'[c].used = conn[c].used /\ conn'[c].data = conn[c].data

(* What a handler needs stays there while the connection keeps its tunnel  *)
(* and its SSL state.                                                      *)
LEMMA NeedsKept ==
  ASSUME TypeOK, TunnelsGrow, NEW c \in Conn, ConnKept(c), NEW h, Needs(h, c),
         h = "ssl_handshake_handler" =>
           conn'[c].ssl # "none" /\ conn'[c].sslh = conn[c].sslh
  PROVE  Needs(h, c)'
<1>1. conn[c].data \in Tun \cup {Null}
  BY DEF TypeOK, Connection
<1> QED
  BY <1>1, NameAssumption
     DEF TunnelsGrow, ConnKept, Needs, GreetHandlers, DownHandlers, UpHandlers

(* If in addition every connection that changes keeps IInv's conditions,   *)
(* and the next handler finds what it needs, IInv holds after the step.    *)
LEMMA Frame ==
  ASSUME IInv, UNCHANGED loopVars, TunnelsGrow,
         conn' \in [Conn -> Connection], \A c \in Conn : ConnKept(c),
         NEW S \in SUBSET Conn, \A c \in Conn \ S : conn'[c] = conn[c],
         \A c \in S : /\ conn[c].used /\ SafeEvents(c)'
                      /\ Sides(conn'[c]) /\ HandshakeTimers(conn'[c], c),
         cur' \in {Return} \cup [h : Handlers, c : Conn],
         cur' # Return => conn'[cur'.c].used /\ Needs(cur.h, cur.c)'
  PROVE  IInv'
<1>1. TypeOK'
  BY DEF IInv, TypeOK, TunnelsGrow, loopVars
<1>2. Ownership'
  BY DEF IInv, Ownership, TypeOK, TunnelsGrow, ConnKept, Connection, Tunnel
<1>3. NoWildHandler'
  <2>1. ASSUME NEW c \in Conn \ S PROVE SafeEvents(c)'
    <3>1. ASSUME NEW d \in Dir, conn'[c].h[d] # "NULL"
          PROVE  conn'[c].used /\ Needs(conn[c].h[d], c)'
      <4>0. PICK h : h = conn[c].h[d]
        OBVIOUS
      <4>1. conn'[c] = conn[c] /\ h # "NULL" /\ conn'[c].h[d] = h
        BY <3>1, <4>0
      <4>2. conn[c].used /\ Needs(h, c)
        BY <4>0, <4>1 DEF IInv, NoWildHandler, SafeEvents
      <4>3. h = "ssl_handshake_handler" => conn[c].ssl # "none"
        BY <4>2 DEF Needs
      <4>4. TypeOK /\ ConnKept(c)
        BY DEF IInv
      <4>5. Needs(h, c)'
        BY <4>1, <4>2, <4>3, <4>4, NeedsKept
      <4> QED
        BY <4>1, <4>2, <4>5
    <3> QED
      BY <3>1 DEF SafeEvents
  <2>2. \A c \in Conn : SafeEvents(c)'
    BY <2>1
  <2> QED
    BY <2>2 DEF NoWildHandler, Idle, Return
<1>4. RequestHeads'
  BY DEF IInv, RequestHeads, TunnelsGrow
<1>5. \A c \in Conn : Sides(conn'[c]) /\ HandshakeTimers(conn'[c], c)
  BY DEF IInv
<1> QED
  BY <1>1, <1>2, <1>3, <1>4, <1>5 DEF IInv, Sides, HandshakeTimers

-----------------------------------------------------------------------------
(* What IInv says of the running handler, and of a tunnel in use.          *)

(* The running handler runs on a connection in use that has what the       *)
(* handler needs.                                                          *)
LEMMA AtWork ==
  ASSUME IInv, cur # Return
  PROVE  /\ C \in Conn /\ conn[C] \in Connection /\ conn[C].used
         /\ Needs(cur.h, C) /\ T \in Tun \cup {Null}
         /\ T # Null => T \in Tun /\ tun[T].used /\ tun[T] \in Tunnel
         /\ Sides(conn[C]) /\ HandshakeTimers(conn[C], C)
         /\ SafeEvents(C)
<1>1. C \in Conn /\ conn[C].used /\ Needs(cur.h, C) /\ conn[C] \in Connection
  BY DEF IInv, TypeOK, NoWildHandler, Idle, C
<1>2. T \in Tun \cup {Null}
  BY <1>1 DEF Connection, T, C
<1>3. T # Null => tun[T].used /\ T \in Tun /\ tun[T] \in Tunnel
  BY <1>1, <1>2 DEF IInv, Ownership, TypeOK, T, C
<1>4. \A c \in Conn : Sides(conn[c]) /\ HandshakeTimers(conn[c], c)
                      /\ SafeEvents(c)
  BY DEF IInv, NoWildHandler
<1> QED
  BY <1>1, <1>2, <1>3, <1>4

(* A connection with data belongs to the tunnel that data names.           *)
LEMMA Owned ==
  ASSUME IInv, NEW t \in Tun, tun[t].used
  PROVE  /\ tun[t] \in Tunnel
         /\ tun[t].down \in Conn /\ conn[tun[t].down] \in Connection
         /\ conn[tun[t].down].used /\ conn[tun[t].down].data = t
         /\ tun[t].up # tun[t].down
         /\ tun[t].up \in Conn \cup {Null}
         /\ tun[t].up \in Conn =>
              /\ conn[tun[t].up] \in Connection
              /\ conn[tun[t].up].used /\ conn[tun[t].up].data = t
<1>1. tun[t] \in Tunnel /\ tun[t].down \in Conn /\ conn[tun[t].down].data = t
      /\ tun[t].up # tun[t].down
      /\ (tun[t].up \in Conn => conn[tun[t].up].data = t)
  BY DEF IInv, Ownership, TypeOK
<1>2. \A c \in Conn : conn[c] \in Connection
  BY DEF IInv, TypeOK
<1>3. \A c \in Conn : conn[c].data = t => conn[c].used
  BY NameAssumption DEF IInv, Ownership
<1>4. tun[t].up \in Conn \cup {Null}
  BY <1>1 DEF Tunnel
<1> QED
  BY <1>1, <1>2, <1>3, <1>4

(* tunnel_over takes down a tunnel with the connections that are its own.  *)
LEMMA Over ==
  ASSUME IInv, UNCHANGED loopVars, NEW t \in Tun, tunnel_over(t)
  PROVE  IInv'
<1> USE NameAssumption, FreeTypes
<1>0. /\ conn \in [Conn -> Connection] /\ tun \in [Tun -> Tunnel]
      /\ conn' = [c \in Conn |-> IF c \in {tun[t].down, tun[t].up}
                                   THEN FreeConn ELSE conn[c]]
      /\ tun' = [tun EXCEPT ![t] = FreeTun]
      /\ cur' = Return
  BY DEF tunnel_over, net_free, IInv, TypeOK
<1>1. TypeOK'
  BY <1>0 DEF IInv, TypeOK, loopVars
<1>2. Ownership'
  <2>1. \A c \in Conn : c \in {tun[t].down, tun[t].up} <=> conn[c].data = t
    BY <1>0 DEF IInv, Ownership, FreeTun
  <2>2. \A c \in Conn :
          conn'[c] = IF conn[c].data = t THEN FreeConn ELSE conn[c]
    BY <1>0, <2>1
  <2>3. FreeConn.data = Null /\ ~FreeConn.used /\ ~FreeTun.used
    BY DEF FreeConn, FreeTun
  <2>4. \A u \in Tun : tun'[u] = IF u = t THEN FreeTun ELSE tun[u]
    BY <1>0
  <2>5. ASSUME NEW u \in Tun
        PROVE  IF tun'[u].used
                 THEN /\ tun'[u].down \in Conn /\ conn'[tun'[u].down].data = u
                      /\ tun'[u].up \in Conn => conn'[tun'[u].up].data = u
                      /\ tun'[u].up # tun'[u].down
                 ELSE tun'[u] = FreeTun
    BY <2>2, <2>3, <2>4 DEF IInv, Ownership
  <2>6. ASSUME NEW c \in Conn
        PROVE  /\ ~conn'[c].used => conn'[c] = FreeConn
               /\ conn'[c].data # Null =>
                    /\ conn'[c].used /\ tun'[conn'[c].data].used
                    /\ c \in {tun'[conn'[c].data].down, tun'[conn'[c].data].up}
    <3>1. conn[c].data \in Tun \cup {Null}
      BY <1>0 DEF Connection
    <3> QED
      BY <2>2, <2>3, <2>4, <3>1 DEF IInv, Ownership
  <2> QED
    BY <2>5, <2>6 DEF Ownership
<1>3. NoWildHandler'
  <2>1. ASSUME NEW c \in Conn, conn'[c] # FreeConn PROVE SafeEvents(c)'
    <3>1. conn'[c] = conn[c] /\ SafeEvents(c) /\ conn[c].data # t
      BY <1>0, <2>1 DEF IInv, NoWildHandler, Ownership, FreeTun
    <3> QED
      BY <1>0, <3>1, SMTT(60) DEF SafeEvents, Needs, GreetHandlers, DownHandlers, UpHandlers
  <2>2. \A c \in Conn : conn'[c] = FreeConn => SafeEvents(c)'
    BY DEF SafeEvents, FreeConn
  <2> QED
    BY <1>0, <2>1, <2>2 DEF NoWildHandler, Idle, Return
<1>4. RequestHeads'
  BY <1>0 DEF IInv, RequestHeads, FreeTun
<1>5. \A c \in Conn : Sides(conn'[c]) /\ HandshakeTimers(conn'[c], c)
  <2>1. Sides(FreeConn) /\ \A c \in Conn : HandshakeTimers(FreeConn, c)
    BY DEF Sides, HandshakeTimers, FreeConn, ReadHandlers, WriteHandlers, Dir
  <2> QED
    BY <1>0, <2>1 DEF IInv
<1> QED
  BY <1>1, <1>2, <1>3, <1>4, <1>5 DEF IInv, Sides, HandshakeTimers

(* tunnel_close_connection is only used on a client without a tunnel.      *)
LEMMA CloseGreeted ==
  ASSUME IInv, UNCHANGED loopVars, NEW x \in Conn, conn[x].data = Null,
         tunnel_close_connection(x)
  PROVE  IInv'
<1> USE NameAssumption, FreeTypes
<1>0. /\ conn \in [Conn -> Connection] /\ tun \in [Tun -> Tunnel]
      /\ conn' = [conn EXCEPT ![x] = FreeConn]
      /\ tun' = tun
      /\ cur' = Return
  BY DEF tunnel_close_connection, SetConn, net_free, IInv, TypeOK
<1>1. TypeOK'
  BY <1>0 DEF IInv, TypeOK, loopVars
<1>2. Ownership'
  <2>1. FreeConn.data = Null /\ ~FreeConn.used
    BY DEF FreeConn
  <2> QED
    BY <1>0, <2>1 DEF IInv, Ownership
<1>3. NoWildHandler'
  <2>1. ASSUME NEW c \in Conn, c # x PROVE SafeEvents(c)'
    <3>1. conn'[c] = conn[c] /\ SafeEvents(c)
      BY <1>0, <2>1 DEF IInv, NoWildHandler
    <3> QED
      BY <1>0, <3>1 DEF SafeEvents, Needs
  <2>2. SafeEvents(x)'
    BY <1>0 DEF SafeEvents, FreeConn
  <2> QED
    BY <1>0, <2>1, <2>2 DEF NoWildHandler, Idle, Return
<1>4. RequestHeads'
  BY <1>0 DEF IInv, RequestHeads
<1>5. \A c \in Conn : Sides(conn'[c]) /\ HandshakeTimers(conn'[c], c)
  <2>1. Sides(FreeConn) /\ HandshakeTimers(FreeConn, x)
    BY DEF Sides, HandshakeTimers, FreeConn, ReadHandlers, WriteHandlers, Dir
  <2> QED
    BY <1>0, <2>1 DEF IInv
<1> QED
  BY <1>1, <1>2, <1>3, <1>4, <1>5 DEF IInv, Sides, HandshakeTimers

(* A step that writes one tunnel in use, keeping or adding what it has,    *)
(* lets the tunnels grow.                                                  *)
LEMMA OneTunnel ==
  ASSUME IInv, NEW t \in Tun, tun[t].used, NEW z \in Tunnel,
         tun' = [tun EXCEPT ![t] = z],
         z.used = tun[t].used, z.down = tun[t].down, z.up = tun[t].up,
         z.req = tun[t].req, tun[t].reqBody => z.reqBody,
         tun[t].resp => z.resp, tun[t].respBody => z.respBody,
         tun[t].relay => z.relay
  PROVE  TunnelsGrow
BY DEF IInv, TypeOK, TunnelsGrow

(* So does a step that writes no tunnel.                                   *)
LEMMA TunnelsStay ==
  ASSUME IInv, tun' = tun
  PROVE  TunnelsGrow
BY DEF IInv, TypeOK, TunnelsGrow

(* What the step leaves on the events of a connection in use is safe.      *)
LEMMA KeptSafe ==
  ASSUME TypeOK, TunnelsGrow, NEW c \in Conn, SafeEvents(c), ConnKept(c),
         NEW k \in Connection, conn'[c] = k, k.used,
         \A d \in Dir : \/ k.h[d] = "NULL"
                        \/ /\ k.h[d] = conn[c].h[d]
                           /\ k.ssl = conn[c].ssl \/ k.ssl # "none"
                           /\ k.sslh = conn[c].sslh
                        \/ Needs(k.h[d], c)'
  PROVE  SafeEvents(c)'
<1>1. ASSUME NEW d \in Dir, k.h[d] # "NULL" PROVE Needs(k.h[d], c)'
  <2>1. CASE /\ k.h[d] = conn[c].h[d]
             /\ k.ssl = conn[c].ssl \/ k.ssl # "none"
             /\ k.sslh = conn[c].sslh
    <3>1. Needs(k.h[d], c)
      BY <1>1, <2>1 DEF SafeEvents
    <3>2. k.h[d] = "ssl_handshake_handler" => conn[c].ssl # "none"
      BY <3>1 DEF Needs
    <3> QED
      BY <2>1, <3>1, <3>2, NeedsKept
  <2> QED
    BY <1>1, <2>1
<1> QED
  BY <1>1 DEF SafeEvents

(* A step that changes one connection in use, and no tunnel but by adding  *)
(* to it.                                                                  *)
LEMMA OneConn ==
  ASSUME IInv, UNCHANGED loopVars, TunnelsGrow,
         NEW c \in Conn, NEW k \in Connection, conn' = [conn EXCEPT ![c] = k],
         conn[c].used, k.used, k.data = conn[c].data,
         Sides(k), HandshakeTimers(k, c),
         \A d \in Dir : \/ k.h[d] = "NULL"
                        \/ /\ k.h[d] = conn[c].h[d]
                           /\ k.ssl = conn[c].ssl \/ k.ssl # "none"
                           /\ k.sslh = conn[c].sslh
                        \/ Needs(k.h[d], c)',
         cur' \in {Return} \cup [h : Handlers, c : Conn],
         cur' # Return => conn'[cur'.c].used /\ Needs(cur.h, cur.c)'
  PROVE  IInv'
<1>1. conn \in [Conn -> Connection] /\ TypeOK /\ SafeEvents(c)
  BY DEF IInv, TypeOK, NoWildHandler
<1>2. conn' \in [Conn -> Connection] /\ conn'[c] = k
  BY <1>1
<1>3. \A x \in Conn : ConnKept(x)
  BY <1>1 DEF ConnKept
<1>4. \A x \in Conn \ {c} : conn'[x] = conn[x]
  BY <1>1
<1>5. SafeEvents(c)'
  BY <1>1, <1>2, <1>3, KeptSafe
<1>6. PICK S \in SUBSET Conn : S = {c}
  OBVIOUS
<1>7. \A x \in S : /\ conn[x].used /\ SafeEvents(x)'
                  /\ Sides(conn'[x]) /\ HandshakeTimers(conn'[x], x)
  BY <1>2, <1>5, <1>6
<1>8. \A x \in Conn \ S : conn'[x] = conn[x]
  BY <1>4, <1>6
<1> QED
  BY <1>2, <1>3, <1>7, <1>8, Frame

(* The same for a step that leaves on the events of the connection handler *)
(* g and handlers that were there, and goes on to g or returns.            *)
LEMMA OneConnCall ==
  ASSUME IInv, UNCHANGED loopVars, TunnelsGrow,
         NEW c \in Conn, NEW k \in Connection, conn' = [conn EXCEPT ![c] = k],
         conn[c].used, k.used, k.data = conn[c].data,
         Sides(k), HandshakeTimers(k, c),
         NEW g \in Handlers, Needs(g, c)',
         \/ /\ k.ssl = conn[c].ssl \/ k.ssl # "none"
            /\ k.sslh = conn[c].sslh
            /\ \A d \in Dir : k.h[d] \in {"NULL", conn[c].h[d], g}
         \/ \A d \in Dir : k.h[d] \in {"NULL", g},
         cur' = Return \/ cur' = [h |-> g, c |-> c]
  PROVE  IInv'
<1>1. conn'[c] = k
  BY DEF IInv, TypeOK
<1>2. cur' \in {Return} \cup [h : Handlers, c : Conn]
  OBVIOUS
<1>3. ASSUME cur' # Return PROVE conn'[cur'.c].used /\ Needs(cur.h, cur.c)'
  <2>1. cur'.h = g /\ cur'.c = c
    BY <1>3
  <2> QED
    BY <2>1, <1>1
<1>4. ASSUME NEW d \in Dir
      PROVE  \/ k.h[d] = "NULL"
             \/ /\ k.h[d] = conn[c].h[d]
                /\ k.ssl = conn[c].ssl \/ k.ssl # "none"
                /\ k.sslh = conn[c].sslh
             \/ Needs(k.h[d], c)'
  <2>1. PICK x : x = k.h[d]
    OBVIOUS
  <2>2. x = g => Needs(x, c)'
    OBVIOUS
  <2> QED
    BY <2>1, <2>2
<1> QED
  BY <1>1, <1>2, <1>3, <1>4, OneConn

(* Timers taken off, or armed for a tunnel, are no handshake timers.       *)
LEMMA TimersShrink ==
  ASSUME NEW j, NEW k \in Connection, NEW c, HandshakeTimers(j, c),
         k.data = j.data, \A d \in Dir : k.t[d] \in {j.t[d], Null} \cup Tun
  PROVE  HandshakeTimers(k, c)
BY NameAssumption DEF HandshakeTimers

(* Connection c becomes k, in use as before, with no handler on its events *)
(* but those that were there and a and b, which find what they need.       *)
Becomes(c, k, a, b) ==
  /\ k \in Connection /\ conn'[c] = k
  /\ conn[c].used /\ k.used /\ k.data = conn[c].data
  /\ Sides(k) /\ HandshakeTimers(k, c)
  /\ k.ssl = conn[c].ssl /\ k.sslh = conn[c].sslh
  /\ \A d \in Dir : k.h[d] \in {"NULL", conn[c].h[d], a, b}
  /\ Needs(a, c)' /\ Needs(b, c)'

(* An event without a handler needs nothing.                               *)
LEMMA NeedsNull == ASSUME NEW c PROVE Needs("NULL", c)'
BY DEF Needs, DownHandlers, UpHandlers, GreetHandlers

(* A connection that Becomes its next value has safe events.               *)
LEMMA BecomesSafe ==
  ASSUME IInv, TunnelsGrow, NEW c \in Conn, NEW k, NEW a, NEW b,
         Becomes(c, k, a, b)
  PROVE  SafeEvents(c)' /\ ConnKept(c)
<1>1. ConnKept(c)
  BY DEF Becomes, ConnKept, IInv, TypeOK, Connection
<1>2. TypeOK /\ SafeEvents(c) /\ k \in Connection /\ conn'[c] = k /\ k.used
  BY DEF IInv, NoWildHandler, Becomes
<1>3. ASSUME NEW d \in Dir
      PROVE  \/ k.h[d] = "NULL"
             \/ /\ k.h[d] = conn[c].h[d]
                /\ k.ssl = conn[c].ssl \/ k.ssl # "none"
                /\ k.sslh = conn[c].sslh
             \/ Needs(k.h[d], c)'
  <2>1. PICK x : x = k.h[d]
    OBVIOUS
  <2>2. /\ x \in {"NULL", conn[c].h[d], a, b}
        /\ k.ssl = conn[c].ssl /\ k.sslh = conn[c].sslh
    BY <2>1 DEF Becomes
  <2>3. x = a \/ x = b => Needs(x, c)'
    BY DEF Becomes
  <2> QED
    BY <2>1, <2>2, <2>3
<1> QED
  BY <1>1, <1>2, <1>3, KeptSafe

(* A step that changes two connections in use, and no tunnel but by adding *)
(* to it.                                                                  *)
LEMMA TwoConns ==
  ASSUME IInv, UNCHANGED loopVars, TunnelsGrow, NEW c \in Conn, NEW e \in Conn,
         NEW k, NEW j, conn' = [conn EXCEPT ![c] = k, ![e] = j],
         NEW a, NEW b, Becomes(c, k, a, b),
         NEW p, NEW q, Becomes(e, j, p, q),
         NEW g \in Handlers, NEW x \in {c, e},
         cur' = Return \/ (cur' = [h |-> g, c |-> x] /\ Needs(g, x)')
  PROVE  IInv'
<1>1. /\ SafeEvents(c)' /\ SafeEvents(e)' /\ ConnKept(c) /\ ConnKept(e)
  BY BecomesSafe
<1>2. /\ conn' \in [Conn -> Connection]
      /\ \A y \in Conn \ {c, e} : conn'[y] = conn[y]
  BY DEF IInv, TypeOK, Becomes
<1>3. \A y \in Conn : ConnKept(y)
  BY <1>1, <1>2 DEF ConnKept
<1>4. /\ conn[c].used /\ Sides(conn'[c]) /\ HandshakeTimers(conn'[c], c)
      /\ conn[e].used /\ Sides(conn'[e]) /\ HandshakeTimers(conn'[e], e)
      /\ conn'[c].used /\ conn'[e].used
  BY DEF Becomes
<1>5. PICK S \in SUBSET Conn : S = {c, e}
  OBVIOUS
<1>6. \A y \in S : /\ conn[y].used /\ SafeEvents(y)'
                   /\ Sides(conn'[y]) /\ HandshakeTimers(conn'[y], y)
  BY <1>1, <1>4, <1>5
<1>7. \A y \in Conn \ S : conn'[y] = conn[y]
  BY <1>2, <1>5
<1>8. cur' \in {Return} \cup [h : Handlers, c : Conn]
  OBVIOUS
<1>9. ASSUME cur' # Return PROVE conn'[cur'.c].used /\ Needs(cur.h, cur.c)'
  <2>1. cur'.h = g /\ cur'.c = x /\ Needs(g, x)'
    BY <1>9
  <2>2. conn'[x].used
    BY <1>4
  <2> QED
    BY <2>1, <2>2
<1> QED
  BY <1>2, <1>3, <1>6, <1>7, <1>8, <1>9, Frame

(* The handlers of a connection, both assigned.                            *)
Both(a, b) == [r |-> a, w |-> b]

(* A pair of handler names is a value for the handlers of a connection.    *)
LEMMA BothTypes ==
  ASSUME NEW a \in Handlers \cup {"NULL"}, NEW b \in Handlers \cup {"NULL"}
  PROVE  /\ Both(a, b) \in [Dir -> Handlers \cup {"NULL"}]
         /\ Both(a, b)["r"] = a /\ Both(a, b)["w"] = b
BY DEF Both, Dir

(* Arming a tunnel's timer and returning.                                  *)
LEMMA Awaits ==
  ASSUME IInv, UNCHANGED loopVars, cur # Return, NEW d \in Dir,
         T \in Tun, NEW c \in Conn, conn[c].used, Await(c, d)
  PROVE  IInv'
<1> USE NameAssumption
<1> DEFINE k == timer_add(conn[c], d, T)
<1>1. conn[c] \in Connection /\ T \in Timer
  BY DEF IInv, TypeOK, Timer
<1>2. /\ k \in Connection /\ k.used /\ k.data = conn[c].data
      /\ k.h = conn[c].h /\ k.ssl = conn[c].ssl /\ k.sslh = conn[c].sslh
      /\ k.t = [conn[c].t EXCEPT ![d] = T]
  BY <1>1, TimerAdd
<1>3. conn' = [conn EXCEPT ![c] = k] /\ tun' = tun /\ cur' = Return
  BY DEF Await, SetConn
<1> HIDE DEF k
<1>4. Sides(k)
  BY <1>2 DEF IInv, Sides
<1>5. HandshakeTimers(k, c)
  BY <1>1, <1>2 DEF IInv, HandshakeTimers, Connection
<1> QED
  BY <1>2, <1>3, <1>4, <1>5, TunnelsStay, OneConn

(* A handler of the downstream side, and one of the upstream side.         *)
LEMMA AtDown ==
  ASSUME IInv, cur.h \in DownHandlers
  PROVE  /\ cur # Return /\ C \in Conn /\ conn[C] \in Connection
         /\ conn[C].used /\ conn[C].data = T /\ Needs(cur.h, C)
         /\ Sides(conn[C]) /\ HandshakeTimers(conn[C], C)
         /\ T \in Tun /\ tun[T].used /\ tun[T] \in Tunnel /\ tun[T].down = C
<1>1. cur # Return
  BY DEF Return, DownHandlers
<1>2. T \in Tun /\ tun[T].down = C
  BY <1>1, AtWork DEF Needs, T, C
<1> QED
  BY <1>1, <1>2, AtWork, NameAssumption DEF T, C

(* An upstream handler runs on the upstream connection of a tunnel in      *)
(* use.                                                                    *)
LEMMA AtUp ==
  ASSUME IInv, cur.h \in UpHandlers
  PROVE  /\ cur # Return /\ C \in Conn /\ conn[C] \in Connection
         /\ conn[C].used /\ conn[C].data = T /\ Needs(cur.h, C)
         /\ Sides(conn[C]) /\ HandshakeTimers(conn[C], C)
         /\ T \in Tun /\ tun[T].used /\ tun[T] \in Tunnel /\ tun[T].up = C
<1>1. cur # Return
  BY DEF Return, UpHandlers
<1>2. T \in Tun /\ tun[T].up = C
  BY <1>1, AtWork DEF Needs, T, C
<1> QED
  BY <1>1, <1>2, AtWork, NameAssumption DEF T, C

(* A handler of the greeting runs on a client without a tunnel.            *)
LEMMA AtGreet ==
  ASSUME IInv, cur.h \in GreetHandlers
  PROVE  /\ cur # Return /\ C \in Conn /\ conn[C] \in Connection
         /\ conn[C].used /\ conn[C].data = Null /\ Needs(cur.h, C)
         /\ Sides(conn[C]) /\ HandshakeTimers(conn[C], C)
<1>1. cur # Return
  BY DEF Return, GreetHandlers
<1>2. T = Null
  BY <1>1, AtWork DEF Needs, T, C
<1> QED
  BY <1>1, <1>2, AtWork DEF T, C

(* The handler names fall into the groups Needs is stated for.             *)
LEMMA HandlerNames ==
  /\ "NULL" \notin Handlers
  /\ DownHandlers \subseteq Handlers /\ UpHandlers \subseteq Handlers
  /\ GreetHandlers \subseteq Handlers
  /\ {"https_start", "ssl_handshake_handler"} \subseteq Handlers
BY DEF Handlers, DownHandlers, UpHandlers, GreetHandlers

-----------------------------------------------------------------------------
(* One lemma per handler.                                                  *)

(* tunnel_local_process_request keeps IInv.                                *)
LEMMA ProcessRequest ==
  ASSUME IInv, UNCHANGED loopVars, tunnel_local_process_request
  PROVE  IInv'
<1>0. cur.h = "tunnel_local_process_request" /\ cur.h \in DownHandlers
  BY DEF tunnel_local_process_request, In, DownHandlers
<1>1. PICK c \in Conn, t \in Tun : c = C /\ t = T
  BY <1>0, AtDown
<1>2. CASE tunnel_over(T)
  BY <1>1, <1>2, Over
<1>3. CASE Await(C, "r")
  BY <1>0, <1>1, <1>3, AtDown, Awaits DEF Dir
<1>4. ASSUME NEW https \in BOOLEAN, NEW keep \in BOOLEAN, NEW body \in BOOLEAN,
             tun' = [tun EXCEPT ![T].https = https, ![T].keep = keep,
                                ![T].body = body],
             SetConn(C, [timer_del(conn[C], "r") EXCEPT
                 !.h["r"] = "tunnel_local_process_procotol"]),
             Call("tunnel_local_process_procotol", C)
      PROVE  IInv'
  <2> DEFINE j == timer_del(conn[c], "r")
             k == [j EXCEPT !.h["r"] = "tunnel_local_process_procotol"]
  <2>1. j \in Connection /\ j.used /\ j.data = t /\ j.h = conn[c].h
        /\ j.t = [conn[c].t EXCEPT !["r"] = Null] /\ j.ssl = conn[c].ssl
        /\ j.sslh = conn[c].sslh
    BY <1>0, <1>1, AtDown, TimerDel DEF Dir
  <2>2. k \in Connection /\ k.used /\ k.data = t /\ k.t = j.t
        /\ k.h = [j.h EXCEPT !["r"] = "tunnel_local_process_procotol"]
        /\ k.ssl = j.ssl /\ k.sslh = j.sslh
    <3> HIDE DEF j
    <3> QED BY <2>1 DEF Connection, Handlers, DownHandlers
  <2>3. conn' = [conn EXCEPT ![c] = k]
    BY <1>1, <1>4 DEF SetConn
  <2> HIDE DEF j, k
  <2>4. Sides(k) /\ HandshakeTimers(k, c)
    BY <1>0, <1>1, <2>1, <2>2, AtDown, TimersShrink
       DEF Sides, Connection, ReadHandlers, Dir
  <2>5. TunnelsGrow
    BY <1>0, <1>1, <1>4, AtDown, ZenonT(60) DEF IInv, TypeOK, TunnelsGrow, Tunnel
  <2>6. Needs("tunnel_local_process_procotol", c)'
    BY <1>0, <1>1, <2>2, <2>3, <2>5, AtDown
       DEF IInv, TypeOK, Needs, TunnelsGrow, DownHandlers, UpHandlers, GreetHandlers
  <2>7. cur' = [h |-> "tunnel_local_process_procotol", c |-> c]
        /\ "tunnel_local_process_procotol" \in Handlers
    BY <1>1, <1>4 DEF Call, Handlers, DownHandlers
  <2>8. \A d \in Dir : k.h[d] \in
          {"NULL", conn[c].h[d], "tunnel_local_process_procotol"}
    BY <2>1, <2>2 DEF Connection, Dir
  <2>9. /\ conn[c].used /\ k.data = conn[c].data /\ k.ssl = conn[c].ssl
        /\ k.sslh = conn[c].sslh
    BY <1>0, <1>1, <2>1, <2>2, AtDown
  <2> QED
    BY <2>2, <2>3, <2>4, <2>5, <2>6, <2>7, <2>8, <2>9, OneConnCall
<1> QED
  BY <1>2, <1>3, <1>4 DEF tunnel_local_process_request

(* tunnel_local_process_procotol keeps IInv.                               *)
LEMMA ProcessProcotol ==
  ASSUME IInv, UNCHANGED loopVars, tunnel_local_process_procotol
  PROVE  IInv'
<1>0. cur.h = "tunnel_local_process_procotol" /\ cur.h \in DownHandlers
  BY DEF tunnel_local_process_procotol, In, DownHandlers
<1>1. PICK c \in Conn, t \in Tun : c = C /\ t = T
  BY <1>0, AtDown
<1>2. PICK w \in BOOLEAN : w = (~tun[t].https /\ tun[t].body)
  OBVIOUS
<1>3. PICK g \in Handlers : g = IF w THEN "tunnel_local_process_body"
                               ELSE "tunnel_remote_init"
  BY DEF Handlers, DownHandlers
<1>4. CASE tunnel_over(T)
  BY <1>1, <1>4, Over
<1>5. CASE /\ tun' = [tun EXCEPT ![t].reqBody = @ \/ w]
           /\ SetConn(c, [conn[c] EXCEPT !.h["r"] = g])
           /\ Call(g, c)
  <2> DEFINE k == [conn[c] EXCEPT !.h["r"] = g]
  <2>0. /\ conn[c] \in Connection /\ conn[c].used /\ conn[c].data = t
        /\ Sides(conn[c]) /\ HandshakeTimers(conn[c], c)
    BY <1>0, <1>1, AtDown
  <2>1. /\ k \in Connection /\ k.used /\ k.data = conn[c].data
        /\ k.h = [conn[c].h EXCEPT !["r"] = g] /\ k.t = conn[c].t
        /\ k.ssl = conn[c].ssl /\ k.sslh = conn[c].sslh
    BY <2>0 DEF Connection
  <2>2. conn' = [conn EXCEPT ![c] = k]
    BY <1>5 DEF SetConn
  <2> HIDE DEF k
  <2>3. Sides(k) /\ HandshakeTimers(k, c)
    BY <1>3, <2>0, <2>1, TimersShrink DEF Sides, Connection, ReadHandlers, Dir
  <2>4. TunnelsGrow
    BY <1>0, <1>1, <1>5, AtDown DEF IInv, TypeOK, TunnelsGrow, Tunnel
  <2>5. conn'[c].data = t /\ tun'[t].down = c /\ tun'[t].up = Null
        /\ tun'[t].req /\ (w => tun'[t].reqBody)
    BY <1>0, <1>1, <1>5, <2>0, <2>1, <2>2, AtDown
       DEF IInv, TypeOK, Needs, Tunnel, DownHandlers
  <2>6. Needs(g, c)'
    BY <1>3, <2>5 DEF Needs, DownHandlers, UpHandlers, GreetHandlers
  <2>7. \A d \in Dir : k.h[d] \in {"NULL", conn[c].h[d], g}
    BY <2>0, <2>1 DEF Connection, Dir
  <2> QED
    BY <1>5, <2>0, <2>1, <2>2, <2>3, <2>4, <2>6, <2>7, OneConnCall DEF Call
<1> QED
  BY <1>0, <1>1, <1>2, <1>3, <1>4, <1>5 DEF tunnel_local_process_procotol

(* tunnel_local_process_body keeps IInv.                                   *)
LEMMA ProcessBody ==
  ASSUME IInv, UNCHANGED loopVars, tunnel_local_process_body
  PROVE  IInv'
<1> DEFINE g == "tunnel_remote_init"
<1>0. cur.h = "tunnel_local_process_body" /\ cur.h \in DownHandlers
  BY DEF tunnel_local_process_body, In, DownHandlers
<1>1. PICK c \in Conn, t \in Tun : c = C /\ t = T
  BY <1>0, AtDown
<1>2. CASE tunnel_over(T)
  BY <1>1, <1>2, Over
<1>3. CASE Await(C, "r")
  BY <1>0, <1>1, <1>3, AtDown, Awaits DEF Dir
<1>4. CASE /\ SetConn(c, [timer_del(conn[c], "r") EXCEPT !.h["r"] = g])
           /\ UNCHANGED tun
           /\ Call(g, c)
  <2> DEFINE j == timer_del(conn[c], "r")
             k == [j EXCEPT !.h["r"] = g]
  <2>0. /\ conn[c] \in Connection /\ conn[c].used /\ conn[c].data = t
        /\ Sides(conn[c]) /\ HandshakeTimers(conn[c], c) /\ g \in Handlers
    BY <1>0, <1>1, AtDown DEF Handlers, DownHandlers
  <2>1. j \in Connection /\ j.used /\ j.data = t /\ j.h = conn[c].h
        /\ j.t = [conn[c].t EXCEPT !["r"] = Null] /\ j.ssl = conn[c].ssl
        /\ j.sslh = conn[c].sslh
    BY <2>0, TimerDel DEF Dir
  <2>2. k \in Connection /\ k.used /\ k.data = t /\ k.t = j.t
        /\ k.h = [j.h EXCEPT !["r"] = g] /\ k.ssl = j.ssl /\ k.sslh = j.sslh
    <3> HIDE DEF j
    <3> QED BY <2>0, <2>1 DEF Connection
  <2>3. conn' = [conn EXCEPT ![c] = k]
    BY <1>4 DEF SetConn
  <2> HIDE DEF j, k
  <2>4. Sides(k) /\ HandshakeTimers(k, c)
    BY <2>0, <2>1, <2>2, TimersShrink DEF Sides, Connection, ReadHandlers, Dir
  <2>5. conn'[c].data = t /\ tun'[t].down = c /\ tun'[t].up = Null
    BY <1>0, <1>1, <1>4, <2>2, <2>3, AtDown
       DEF IInv, TypeOK, Needs, DownHandlers
  <2>6. Needs(g, c)'
    BY <2>5 DEF Needs, DownHandlers, UpHandlers, GreetHandlers
  <2>7. \A d \in Dir : k.h[d] \in {"NULL", conn[c].h[d], g}
    BY <2>0, <2>1, <2>2 DEF Connection, Dir
  <2> HIDE DEF g
  <2> QED
    BY <1>4, <2>0, <2>1, <2>2, <2>3, <2>4, <2>6, <2>7, TunnelsStay, OneConnCall, ZenonT(60)
       DEF Call
<1> QED
  BY <1>0, <1>1, <1>2, <1>3, <1>4 DEF tunnel_local_process_body

(* tunnel_remote_connect_start keeps IInv.                                 *)
LEMMA ConnectStart ==
  ASSUME IInv, UNCHANGED loopVars, tunnel_remote_connect_start
  PROVE  IInv'
<1> DEFINE g == "tunnel_remote_connect_check"
<1>0. cur.h = "tunnel_remote_connect_start" /\ cur.h \in UpHandlers
  BY DEF tunnel_remote_connect_start, In, UpHandlers
<1>1. PICK c \in Conn, t \in Tun : c = C /\ t = T
  BY <1>0, AtUp
<1> DEFINE i == [conn[c] EXCEPT !.h["w"] = g]
           k == event_opt(i, "w")
<1>2. /\ conn[c] \in Connection /\ conn[c].used /\ conn[c].data = t
      /\ Sides(conn[c]) /\ HandshakeTimers(conn[c], c) /\ g \in Handlers
      /\ tun[t].up = c
  BY <1>0, <1>1, AtUp DEF Handlers, UpHandlers
<1>3. /\ i \in Connection /\ i.used /\ i.data = t /\ i.t = conn[c].t
      /\ i.h = [conn[c].h EXCEPT !["w"] = g]
      /\ i.ssl = conn[c].ssl /\ i.sslh = conn[c].sslh
  BY <1>2 DEF Connection
<1> HIDE DEF i
<1>4. /\ k \in Connection /\ k.used /\ k.data = t /\ k.t = i.t
      /\ k.h = i.h /\ k.ssl = i.ssl /\ k.sslh = i.sslh
  BY <1>3, EventOpt DEF Dir
<1> HIDE DEF k
<1>5. CASE tunnel_over(T)
  BY <1>1, <1>5, Over
<1>6. ASSUME NEW q \in Connection, q.used, q.data = t, q.h = k.h,
             q.ssl = k.ssl, q.sslh = k.sslh,
             \A d \in Dir : q.t[d] \in {k.t[d], t},
             SetConn(c, q), UNCHANGED tun,
             cur' = Return \/ cur' = [h |-> g, c |-> c]
      PROVE  IInv'
  <2>1. conn' = [conn EXCEPT ![c] = q]
    BY <1>6 DEF SetConn
  <2>2. Sides(q) /\ HandshakeTimers(q, c)
    BY <1>2, <1>3, <1>4, <1>6, TimersShrink
       DEF Sides, Connection, WriteHandlers, Dir
  <2>3. conn'[c].data = t /\ tun'[t].up = c
    BY <1>2, <1>6, <2>1 DEF IInv, TypeOK
  <2>4. Needs(g, c)'
    BY <2>3 DEF Needs, DownHandlers, UpHandlers, GreetHandlers
  <2>5. \A d \in Dir : q.h[d] \in {"NULL", conn[c].h[d], g}
    BY <1>2, <1>3, <1>4, <1>6 DEF Connection, Dir
  <2>6. /\ conn[c].used /\ q.data = conn[c].data /\ q.ssl = conn[c].ssl
        /\ q.sslh = conn[c].sslh /\ g \in Handlers
    BY <1>2, <1>3, <1>4, <1>6
  <2>7. TunnelsGrow
    BY <1>6, TunnelsStay
  <2> HIDE DEF g
  <2> QED
    BY <1>6, <2>1, <2>2, <2>4, <2>5, <2>6, <2>7, OneConnCall
<1>7. CASE SetConn(c, timer_add(k, "w", t)) /\ UNCHANGED tun /\ cur' = Return
  <2>1. PICK q : q = timer_add(k, "w", t)
    OBVIOUS
  <2>2. t \in Timer /\ "w" \in Dir /\ k \in Connection
    BY <1>4 DEF Timer, Dir
  <2>3. /\ q \in Connection /\ q.t = [k.t EXCEPT !["w"] = t]
        /\ q.used = k.used /\ q.data = k.data /\ q.h = k.h
        /\ q.ssl = k.ssl /\ q.sslh = k.sslh
    BY <2>1, <2>2, TimerAdd
  <2>4. \A d \in Dir : q.t[d] \in {k.t[d], t}
    BY <1>4, <2>3 DEF Connection
  <2> QED
    BY <1>4, <1>6, <1>7, <2>1, <2>3, <2>4
<1>8. CASE SetConn(c, k) /\ UNCHANGED tun /\ Call(g, c)
  BY <1>4, <1>6, <1>8 DEF Call
<1> QED
  BY <1>0, <1>1, <1>5, <1>7, <1>8 DEF tunnel_remote_connect_start, i, k

(* The first ssl_handshake of a connection wants direction d; its timer is *)
(* armed with data x.                                                      *)
Wanting(k, d, e, x, g) ==
  [timer_add(ssl_want(k, d), e, x) EXCEPT !.ssl = "init", !.sslh = g]

(* A handshake that must wait, with its timer armed, has its type and its  *)
(* handlers.                                                               *)
LEMMA Wants ==
  ASSUME NEW k \in Connection, NEW d \in Dir, NEW e \in Dir, NEW x \in Timer,
         NEW g \in {"tunnel_local_handshake_handler",
                    "tunnel_remote_handshake_handler"}
  PROVE  LET p == Wanting(k, d, e, x, g)
         IN /\ p \in Connection /\ p.used = k.used /\ p.data = k.data
            /\ \A y \in Dir : p.h[y] \in {"NULL", "ssl_handshake_handler"}
            /\ p.t = [k.t EXCEPT ![e] = x] /\ p.ssl = "init" /\ p.sslh = g
            /\ Sides(p)
<1>1. PICK i : i = ssl_want(k, d)
  OBVIOUS
<1>2. /\ i \in Connection /\ i.used = k.used /\ i.data = k.data /\ i.t = k.t
      /\ i.h = [y \in Dir |-> IF y = d THEN "ssl_handshake_handler" ELSE "NULL"]
  BY <1>1, SslWant
<1>3. PICK j : j = timer_add(i, e, x)
  OBVIOUS
<1>4. /\ j \in Connection /\ j.used = k.used /\ j.data = k.data
      /\ j.h = i.h /\ j.t = [k.t EXCEPT ![e] = x]
  BY <1>2, <1>3, TimerAdd
<1>5. PICK p : p = [j EXCEPT !.ssl = "init", !.sslh = g]
  OBVIOUS
<1>6. /\ p \in Connection /\ p.used = k.used /\ p.data = k.data
      /\ p.h = j.h /\ p.t = j.t /\ p.ssl = "init" /\ p.sslh = g
  BY <1>4, <1>5 DEF Connection
<1>7. Sides(p)
  BY <1>2, <1>4, <1>6 DEF Sides, ReadHandlers, WriteHandlers, Dir
<1> QED
  BY <1>1, <1>2, <1>3, <1>4, <1>5, <1>6, <1>7 DEF Wanting

(* tunnel_remote_connect_check keeps IInv.                                 *)
LEMMA ConnectCheck ==
  ASSUME IInv, UNCHANGED loopVars, tunnel_remote_connect_check
  PROVE  IInv'
<1>0. cur.h = "tunnel_remote_connect_check" /\ cur.h \in UpHandlers
  BY DEF tunnel_remote_connect_check, In, UpHandlers
<1>1. PICK c \in Conn, t \in Tun : c = C /\ t = T
  BY <1>0, AtUp
<1>2. /\ conn[c] \in Connection /\ conn[c].used /\ conn[c].data = t
      /\ Sides(conn[c]) /\ HandshakeTimers(conn[c], c)
      /\ tun[t].up = c /\ tun[t].used /\ t # Null
      /\ conn' = [conn EXCEPT ![c] = conn'[c]] \/ tunnel_over(T)
  BY <1>0, <1>1, AtUp, NameAssumption
     DEF tunnel_remote_connect_check, SetConn, IInv, TypeOK
<1>3. PICK j : j = timer_del(conn[c], "w")
  OBVIOUS
<1>4. j \in Connection /\ j.used /\ j.data = t /\ j.h = conn[c].h
      /\ j.t = [conn[c].t EXCEPT !["w"] = Null] /\ j.ssl = conn[c].ssl
      /\ j.sslh = conn[c].sslh
  BY <1>2, <1>3, TimerDel DEF Dir
<1>5. CASE tunnel_over(T)
  BY <1>1, <1>5, Over
<1>6. CASE /\ Mode # "client" /\ SetConn(c, [j EXCEPT !.h["w"] = "tunnel_start"])
           /\ UNCHANGED tun /\ Call("tunnel_start", c)
  <2> DEFINE g == "tunnel_start"
             k == [j EXCEPT !.h["w"] = g]
  <2>0. g \in Handlers
    BY DEF Handlers, UpHandlers
  <2>1. k \in Connection /\ k.used /\ k.data = t /\ k.t = j.t
        /\ k.h = [j.h EXCEPT !["w"] = g] /\ k.ssl = j.ssl /\ k.sslh = j.sslh
    BY <1>4, <2>0 DEF Connection
  <2>2. conn' = [conn EXCEPT ![c] = k]
    BY <1>6 DEF SetConn
  <2> HIDE DEF k
  <2>3. Sides(k) /\ HandshakeTimers(k, c)
    BY <1>2, <1>4, <2>1, TimersShrink DEF Sides, Connection, WriteHandlers, Dir
  <2>4. conn'[c].data = t /\ tun'[t].up = c /\ tun'[t].req
    BY <1>2, <1>6, <2>1, <2>2 DEF IInv, TypeOK, RequestHeads
  <2>5. Needs(g, c)'
    BY <2>4 DEF Needs, DownHandlers, UpHandlers, GreetHandlers
  <2>6. \A d \in Dir : k.h[d] \in {"NULL", conn[c].h[d], g}
    BY <1>2, <1>4, <2>1 DEF Connection, Dir
  <2>7. /\ k \in Connection /\ k.used /\ k.data = conn[c].data
        /\ conn[c].used /\ k.ssl = conn[c].ssl /\ k.sslh = conn[c].sslh
    BY <1>2, <1>4, <2>1
  <2>8. TunnelsGrow /\ cur' = [h |-> g, c |-> c]
    BY <1>6, TunnelsStay DEF Call
  <2> HIDE DEF g
  <2> QED
    BY <2>0, <2>2, <2>3, <2>5, <2>6, <2>7, <2>8, OneConnCall
<1>7. ASSUME NEW d \in Dir,
             SetConn(c, [timer_add(ssl_want(j, d), "w", t) EXCEPT
                 !.ssl = "init", !.sslh = "tunnel_remote_handshake_handler"]),
             UNCHANGED tun, cur' = Return
      PROVE  IInv'
  <2> DEFINE g == "ssl_handshake_handler"
  <2>1. PICK k : k = Wanting(j, d, "w", t, "tunnel_remote_handshake_handler")
    OBVIOUS
  <2>2. t \in Timer /\ "w" \in Dir /\ g \in Handlers
        /\ j \in Connection /\ j.used /\ j.data = t
    BY <1>4 DEF Timer, Dir, Handlers
  <2>3. /\ k \in Connection /\ k.used /\ k.data = t
        /\ \A y \in Dir : k.h[y] \in {"NULL", g}
        /\ k.t = [j.t EXCEPT !["w"] = t] /\ k.ssl = "init"
        /\ k.sslh = "tunnel_remote_handshake_handler" /\ Sides(k)
    BY <2>1, <2>2, Wants
  <2>4. conn' = [conn EXCEPT ![c] = k]
    BY <1>7, <2>1 DEF SetConn, Wanting
  <2>5. HandshakeTimers(k, c)
    BY <1>2, <1>4, <2>3, TimersShrink DEF Connection, Dir
  <2>6. /\ conn'[c].data = t /\ tun'[t].up = c /\ conn'[c].ssl = "init"
        /\ conn'[c].sslh = "tunnel_remote_handshake_handler"
    BY <1>2, <1>7, <2>3, <2>4 DEF IInv, TypeOK
  <2>7. Needs(g, c)'
    BY <1>2, <2>6 DEF Needs, DownHandlers, UpHandlers, GreetHandlers
  <2> HIDE DEF g
  <2> QED
    BY <1>2, <1>7, <2>2, <2>3, <2>4, <2>5, <2>7, TunnelsStay, OneConnCall
<1>8. CASE /\ SetConn(c, [j EXCEPT !.ssl = "handshaked"]) /\ UNCHANGED tun
           /\ Call("tunnel_remote_handshake_handler", c)
  <2> DEFINE g == "tunnel_remote_handshake_handler"
  <2>1. PICK k : k = [j EXCEPT !.ssl = "handshaked"]
    OBVIOUS
  <2>2. g \in Handlers
    BY DEF Handlers, UpHandlers
  <2>3. /\ k \in Connection /\ k.used /\ k.data = t /\ k.h = j.h
        /\ k.t = j.t /\ k.ssl = "handshaked" /\ k.sslh = j.sslh
    BY <1>4, <2>1 DEF Connection
  <2>4. conn' = [conn EXCEPT ![c] = k]
    BY <1>8, <2>1 DEF SetConn
  <2>5. Sides(k) /\ HandshakeTimers(k, c)
    BY <1>2, <1>4, <2>3, TimersShrink DEF Sides, Connection, Dir
  <2>6. conn'[c].data = t /\ tun'[t].up = c
    BY <1>2, <1>8, <2>3, <2>4 DEF IInv, TypeOK
  <2>7. Needs(g, c)'
    BY <2>6 DEF Needs, DownHandlers, UpHandlers, GreetHandlers
  <2>8. /\ k.used /\ k.data = conn[c].data /\ conn[c].used
        /\ k.ssl # "none" /\ k.sslh = conn[c].sslh
        /\ \A d \in Dir : k.h[d] \in {"NULL", conn[c].h[d], g}
    BY <1>2, <1>4, <2>3
  <2>9. TunnelsGrow /\ cur' = [h |-> g, c |-> c]
    BY <1>8, TunnelsStay DEF Call
  <2> HIDE DEF g
  <2> QED
    BY <2>2, <2>3, <2>4, <2>5, <2>7, <2>8, <2>9, OneConnCall
<1> QED
  BY <1>0, <1>1, <1>3, <1>5, <1>6, <1>7, <1>8 DEF tunnel_remote_connect_check

(* tunnel_remote_handshake_handler keeps IInv.                             *)
LEMMA RemoteHandshake ==
  ASSUME IInv, UNCHANGED loopVars, tunnel_remote_handshake_handler
  PROVE  IInv'
<1> DEFINE g == "https_start"
<1>0. cur.h = "tunnel_remote_handshake_handler" /\ cur.h \in UpHandlers
  BY DEF tunnel_remote_handshake_handler, In, UpHandlers
<1>1. PICK c \in Conn, t \in Tun : c = C /\ t = T
  BY <1>0, AtUp
<1>2. CASE tunnel_over(T)
  BY <1>1, <1>2, Over
<1>3. CASE /\ SetConn(c, [timer_del(conn[c], "w") EXCEPT
                            !.h = [r |-> "NULL", w |-> g]])
           /\ UNCHANGED tun
           /\ Call(g, c)
  <2> DEFINE j == timer_del(conn[c], "w")
             k == [j EXCEPT !.h = Both("NULL", g)]
  <2>0. /\ conn[c] \in Connection /\ conn[c].used /\ conn[c].data = t
        /\ HandshakeTimers(conn[c], c) /\ g \in Handlers /\ tun[t].up = c
    BY <1>0, <1>1, AtUp DEF Handlers
  <2>1. j \in Connection /\ j.used /\ j.data = t
        /\ j.t = [conn[c].t EXCEPT !["w"] = Null] /\ j.ssl = conn[c].ssl
        /\ j.sslh = conn[c].sslh
    BY <2>0, TimerDel DEF Dir
  <2>2. PICK x \in [Dir -> Handlers \cup {"NULL"}] :
          x = Both("NULL", g) /\ x["r"] = "NULL" /\ x["w"] = g
    <3>1. g \in Handlers
      BY <2>0
    <3> HIDE DEF g
    <3> QED BY <3>1, BothTypes
  <2>3. k \in Connection /\ k.used /\ k.data = t /\ k.t = j.t
        /\ k.h = x /\ k.ssl = j.ssl /\ k.sslh = j.sslh
    <3> HIDE DEF j
    <3> QED BY <2>1, <2>2 DEF Connection
  <2>4. conn' = [conn EXCEPT ![c] = k]
    BY <1>3 DEF SetConn, Both
  <2> HIDE DEF j, k
  <2>5. Sides(k) /\ HandshakeTimers(k, c)
    BY <2>0, <2>1, <2>2, <2>3, TimersShrink
       DEF Sides, Connection, ReadHandlers, WriteHandlers, Dir
  <2>6. conn'[c].data = t /\ tun'[t].up = c
    BY <1>3, <2>0, <2>3, <2>4 DEF IInv, TypeOK
  <2>7. Needs(g, c)'
    BY <2>6 DEF Needs, DownHandlers, UpHandlers, GreetHandlers
  <2>8. /\ k.used /\ k.data = conn[c].data /\ conn[c].used
        /\ \A d \in Dir : k.h[d] \in {"NULL", g}
    BY <2>0, <2>2, <2>3 DEF Dir
  <2>9. TunnelsGrow /\ cur' = [h |-> g, c |-> c]
    BY <1>3, TunnelsStay DEF Call
  <2> HIDE DEF g
  <2> QED
    BY <2>0, <2>3, <2>4, <2>5, <2>7, <2>8, <2>9, OneConnCall
<1> QED
  BY <1>0, <1>1, <1>2, <1>3 DEF tunnel_remote_handshake_handler

(* tunnel_local_init keeps IInv.                                           *)
LEMMA LocalInit ==
  ASSUME IInv, UNCHANGED loopVars, tunnel_local_init
  PROVE  IInv'
<1>0. cur.h = "tunnel_local_init" /\ cur.h \in GreetHandlers
  BY DEF tunnel_local_init, In, GreetHandlers
<1>1. PICK c \in Conn : c = C
  BY <1>0, AtGreet
<1>2. /\ conn[c] \in Connection /\ conn[c].used /\ conn[c].data = Null
      /\ Sides(conn[c]) /\ HandshakeTimers(conn[c], c)
  BY <1>0, <1>1, AtGreet
<1>3. CASE tunnel_close_connection(C)
  BY <1>1, <1>2, <1>3, CloseGreeted
<1>4. ASSUME NEW k \in Connection, k.used, k.data = Null, Sides(k),
             HandshakeTimers(k, c), NEW g \in GreetHandlers,
             \/ /\ k.ssl \in {conn[c].ssl, "handshaked"}
                /\ k.sslh = conn[c].sslh
                /\ \A d \in Dir : k.h[d] \in {"NULL", conn[c].h[d], g},
             SetConn(c, k), UNCHANGED tun, Call(g, c)
      PROVE  IInv'
  <2>1. conn' = [conn EXCEPT ![c] = k] /\ conn'[c].data = Null
    BY <1>4 DEF SetConn, IInv, TypeOK
  <2>2. Needs(g, c)'
    BY <1>4, <2>1 DEF Needs, DownHandlers, UpHandlers, GreetHandlers
  <2>3. TunnelsGrow /\ cur' = [h |-> g, c |-> c] /\ g \in Handlers
    BY <1>4, TunnelsStay, HandlerNames DEF Call
  <2>4. k.data = conn[c].data /\ (k.ssl = conn[c].ssl \/ k.ssl # "none")
    BY <1>2, <1>4
  <2> QED
    BY <1>2, <1>4, <2>1, <2>2, <2>3, <2>4, OneConnCall
<1>5. CASE /\ SetConn(c, [conn[c] EXCEPT !.h["r"] = "tunnel_local_start"])
           /\ UNCHANGED tun /\ Call("tunnel_local_start", c)
  <2>1. PICK g \in GreetHandlers : g = "tunnel_local_start"
    BY DEF GreetHandlers
  <2>2. PICK k : k = [conn[c] EXCEPT !.h["r"] = g]
    OBVIOUS
  <2>3. /\ k \in Connection /\ k.used /\ k.data = Null /\ k.t = conn[c].t
        /\ k.h = [conn[c].h EXCEPT !["r"] = g]
        /\ k.ssl = conn[c].ssl /\ k.sslh = conn[c].sslh
    BY <1>2, <2>1, <2>2, HandlerNames DEF Connection
  <2>4. Sides(k) /\ HandshakeTimers(k, c)
    BY <1>2, <2>1, <2>3, TimersShrink DEF Sides, Connection, ReadHandlers, Dir
  <2>5. \A d \in Dir : k.h[d] \in {"NULL", conn[c].h[d], g}
    BY <1>2, <2>3 DEF Connection, Dir
  <2>6. SetConn(c, k) /\ UNCHANGED tun /\ Call(g, c)
    BY <1>5, <2>1, <2>2
  <2> QED
    BY <1>4, <2>3, <2>4, <2>5, <2>6
<1>6. CASE /\ SetConn(c, [conn[c] EXCEPT !.ssl = "handshaked"])
           /\ UNCHANGED tun /\ Call("tunnel_local_handshake_handler", c)
  <2>1. PICK g \in GreetHandlers : g = "tunnel_local_handshake_handler"
    BY DEF GreetHandlers
  <2>2. PICK k : k = [conn[c] EXCEPT !.ssl = "handshaked"]
    OBVIOUS
  <2>3. /\ k \in Connection /\ k.used /\ k.data = Null /\ k.t = conn[c].t
        /\ k.h = conn[c].h /\ k.ssl = "handshaked" /\ k.sslh = conn[c].sslh
    BY <1>2, <2>2 DEF Connection
  <2>4. Sides(k) /\ HandshakeTimers(k, c)
    BY <1>2, <2>3, TimersShrink DEF Sides, Connection, Dir
  <2>5. SetConn(c, k) /\ UNCHANGED tun /\ Call(g, c)
    BY <1>6, <2>1, <2>2
  <2> QED
    BY <1>4, <2>3, <2>4, <2>5
<1>7. ASSUME NEW d \in Dir, UNCHANGED tun, cur' = Return,
             SetConn(c, Wanting(conn[c], d, "r", c,
                                "tunnel_local_handshake_handler"))
      PROVE  IInv'
  <2>1. PICK k : k = Wanting(conn[c], d, "r", c, "tunnel_local_handshake_handler")
    OBVIOUS
  <2>2. PICK g \in Handlers : g = "ssl_handshake_handler"
    BY DEF Handlers
  <2>3. "r" \in Dir /\ c \in Timer
    BY DEF Dir, Timer
  <2>4. /\ k \in Connection /\ k.used /\ k.data = Null
        /\ \A y \in Dir : k.h[y] \in {"NULL", g}
        /\ k.t = [conn[c].t EXCEPT !["r"] = c] /\ k.ssl = "init"
        /\ k.sslh = "tunnel_local_handshake_handler" /\ Sides(k)
    BY <1>2, <2>1, <2>2, <2>3, Wants
  <2>5. HandshakeTimers(k, c)
    BY <1>2, <2>4 DEF HandshakeTimers, Connection, Dir
  <2>6. conn' = [conn EXCEPT ![c] = k] /\ TunnelsGrow
    BY <1>7, <2>1, TunnelsStay DEF SetConn
  <2>7. /\ conn'[c].data = Null /\ conn'[c].ssl = "init"
        /\ conn'[c].sslh = "tunnel_local_handshake_handler"
    BY <2>4, <2>6 DEF IInv, TypeOK
  <2>8. Needs(g, c)'
    BY <2>2, <2>7 DEF Needs, DownHandlers, UpHandlers, GreetHandlers
  <2>9. k.data = conn[c].data
    BY <1>2, <2>4
  <2> QED
    BY <1>2, <1>7, <2>4, <2>5, <2>6, <2>8, <2>9, OneConnCall
<1> QED
  BY <1>0, <1>1, <1>3, <1>5, <1>6, <1>7 DEF tunnel_local_init, Wanting

(* ssl_handshake_handler keeps IInv.                                       *)
LEMMA SslHandshake ==
  ASSUME IInv, UNCHANGED loopVars, ssl_handshake_handler
  PROVE  IInv'
<1>0. cur.h = "ssl_handshake_handler" /\ cur # Return
  BY DEF ssl_handshake_handler, In, Return
<1>1. PICK c \in Conn : c = C
  BY <1>0, AtWork
<1>2. /\ conn[c] \in Connection /\ conn[c].used /\ TypeOK
      /\ Sides(conn[c]) /\ HandshakeTimers(conn[c], c)
      /\ Needs("ssl_handshake_handler", c)
  BY <1>0, <1>1, AtWork DEF IInv
<1>3. /\ conn[c].ssl # "none" /\ UNCHANGED tun
      /\ conn[c].data \in Tun \cup {Null}
      /\ conn[c].sslh = IF conn[c].data = Null
            THEN "tunnel_local_handshake_handler"
            ELSE "tunnel_remote_handshake_handler"
      /\ conn[c].data # Null => tun[conn[c].data].up = c
      /\ TunnelsGrow
  BY <1>2, TunnelsStay DEF ssl_handshake_handler, Needs, Connection
<1>4. ASSUME NEW d \in Dir, SetConn(c, ssl_want(conn[c], d)), cur' = Return
      PROVE  IInv'
  <2>1. PICK g \in Handlers : g = "ssl_handshake_handler"
    BY DEF Handlers
  <2>2. PICK k : k = ssl_want(conn[c], d)
    OBVIOUS
  <2>3. /\ k \in Connection /\ k.used = conn[c].used /\ k.data = conn[c].data
        /\ k.h = [e \in Dir |-> IF e = d THEN "ssl_handshake_handler" ELSE "NULL"]
        /\ k.t = conn[c].t /\ k.ssl = conn[c].ssl /\ k.sslh = conn[c].sslh
    BY <1>2, <2>2, SslWant
  <2>4. Sides(k) /\ HandshakeTimers(k, c)
    BY <1>2, <2>1, <2>3, TimersShrink
       DEF Sides, ReadHandlers, WriteHandlers, Dir
  <2>5. conn' = [conn EXCEPT ![c] = k] /\ conn'[c] = k
    BY <1>2, <1>4, <2>2 DEF SetConn, TypeOK
  <2>6. Needs(g, c)'
    BY <1>2, <1>3, <2>1, <2>3, <2>5
       DEF Needs, DownHandlers, UpHandlers, GreetHandlers
  <2>7. k.used /\ \A e \in Dir : k.h[e] \in {"NULL", g}
    BY <1>2, <2>1, <2>3
  <2> QED
    BY <1>2, <1>3, <1>4, <2>3, <2>4, <2>5, <2>6, <2>7, OneConnCall
<1>5. ASSUME NEW s \in {"init", "handshaked"},
             SetConn(c, [conn[c] EXCEPT !.ssl = s]), Call(conn[c].sslh, c)
      PROVE  IInv'
  <2>1. PICK g \in Handlers : g = conn[c].sslh
    BY <1>3 DEF Handlers, GreetHandlers, UpHandlers
  <2>2. PICK k : k = [conn[c] EXCEPT !.ssl = s]
    OBVIOUS
  <2>3. /\ k \in Connection /\ k.used /\ k.data = conn[c].data
        /\ k.h = conn[c].h /\ k.t = conn[c].t /\ k.ssl = s
        /\ k.sslh = conn[c].sslh
    BY <1>2, <2>2 DEF Connection
  <2>4. Sides(k) /\ HandshakeTimers(k, c)
    BY <1>2, <2>3, TimersShrink DEF Sides
  <2>5. conn' = [conn EXCEPT ![c] = k] /\ conn'[c] = k
    BY <1>2, <1>5, <2>2 DEF SetConn, TypeOK
  <2>6. Needs(g, c)'
    BY <1>2, <1>3, <2>1, <2>3, <2>5, NameAssumption
       DEF Needs, DownHandlers, UpHandlers, GreetHandlers
  <2>7. cur' = [h |-> g, c |-> c] /\ k.ssl # "none"
    BY <1>5, <2>1, <2>3 DEF Call
  <2> QED
    BY <1>2, <1>3, <2>3, <2>4, <2>5, <2>6, <2>7, OneConnCall
<1> QED
  BY <1>0, <1>1, <1>4, <1>5 DEF ssl_handshake_handler

(* tunnel_local_handshake_handler keeps IInv.                              *)
LEMMA LocalHandshake ==
  ASSUME IInv, UNCHANGED loopVars, tunnel_local_handshake_handler
  PROVE  IInv'
<1> DEFINE g == "tunnel_local_start"
<1>0. cur.h = "tunnel_local_handshake_handler" /\ cur.h \in GreetHandlers
  BY DEF tunnel_local_handshake_handler, In, GreetHandlers
<1>1. PICK c \in Conn : c = C
  BY <1>0, AtGreet
<1>2. /\ conn[c] \in Connection /\ conn[c].used /\ conn[c].data = Null
      /\ HandshakeTimers(conn[c], c) /\ g \in Handlers
  BY <1>0, <1>1, AtGreet DEF Handlers, GreetHandlers
<1>3. CASE tunnel_close_connection(C)
  BY <1>1, <1>2, <1>3, CloseGreeted
<1>4. CASE /\ SetConn(c, [timer_del(conn[c], "r") EXCEPT
                            !.h = [r |-> g, w |-> "NULL"]])
           /\ UNCHANGED tun
           /\ Call(g, c)
  <2> DEFINE j == timer_del(conn[c], "r")
             k == [j EXCEPT !.h = Both(g, "NULL")]
  <2>1. j \in Connection /\ j.used /\ j.data = Null
        /\ j.t = [conn[c].t EXCEPT !["r"] = Null] /\ j.ssl = conn[c].ssl
        /\ j.sslh = conn[c].sslh
    BY <1>2, TimerDel DEF Dir
  <2>2. PICK x \in [Dir -> Handlers \cup {"NULL"}] :
          x = Both(g, "NULL") /\ x["r"] = g /\ x["w"] = "NULL"
    BY <1>2, BothTypes
  <2>3. k \in Connection /\ k.used /\ k.data = Null /\ k.t = j.t
        /\ k.h = x /\ k.ssl = j.ssl /\ k.sslh = j.sslh
    <3> HIDE DEF j
    <3> QED BY <2>1, <2>2 DEF Connection
  <2>4. conn' = [conn EXCEPT ![c] = k]
    BY <1>4 DEF SetConn, Both
  <2> HIDE DEF j, k
  <2>5. Sides(k) /\ HandshakeTimers(k, c)
    BY <1>2, <2>1, <2>2, <2>3, TimersShrink
       DEF Sides, Connection, ReadHandlers, WriteHandlers, Dir
  <2>6. conn'[c].data = Null
    BY <2>3, <2>4 DEF IInv, TypeOK
  <2>7. Needs(g, c)'
    BY <2>6 DEF Needs, DownHandlers, UpHandlers, GreetHandlers
  <2>8. /\ k.used /\ k.data = conn[c].data /\ conn[c].used
        /\ \A d \in Dir : k.h[d] \in {"NULL", g}
    BY <1>2, <2>2, <2>3 DEF Dir
  <2>9. TunnelsGrow /\ cur' = [h |-> g, c |-> c]
    BY <1>4, TunnelsStay DEF Call
  <2> HIDE DEF g
  <2> QED
    BY <1>2, <2>3, <2>4, <2>5, <2>7, <2>8, <2>9, OneConnCall
<1> QED
  BY <1>0, <1>1, <1>3, <1>4 DEF tunnel_local_handshake_handler

(* tunnel_transport_in and tunnel_transport_out keep IInv.                 *)
LEMMA Transports ==
  ASSUME IInv, UNCHANGED loopVars, tunnel_transport_in \/ tunnel_transport_out
  PROVE  IInv'
<1>0. /\ cur.h \in {"tunnel_transport_in_recv", "tunnel_transport_in_send",
                   "tunnel_transport_out_recv", "tunnel_transport_out_send"}
      /\ cur # Return
  BY DEF tunnel_transport_in, tunnel_transport_out, Return
<1>1. T \in Tun /\ C \in Conn /\ tun[T].used
  BY <1>0, AtDown, AtUp DEF DownHandlers, UpHandlers
<1>2. tun[T].down \in Conn /\ tun[T].up \in Conn
  <2>1. CASE cur.h \in DownHandlers
    <3>1. Needs(cur.h, C)
      BY <1>0, AtWork
    <3>2. tun[T].up \in Conn
      BY <1>0, <2>1, <3>1 DEF Needs, T, C, DownHandlers
    <3> QED
      BY <1>1, <2>1, <3>2, AtDown
  <2>2. CASE cur.h \in UpHandlers
    BY <1>1, <2>2, AtUp, Owned
  <2> QED
    BY <1>0, <2>1, <2>2 DEF DownHandlers, UpHandlers
<1>3. PICK t \in Tun, u \in Conn, c \in Conn :
        t = T /\ u = tun[t].up /\ c = tun[t].down
  BY <1>1, <1>2
<1>4. conn[u].used /\ conn[c].used
  BY <1>1, <1>3, Owned
<1>5. CASE tunnel_over(T)
  BY <1>3, <1>5, Over
<1>6. CASE Await(tun[T].up, "r")
  BY <1>0, <1>3, <1>4, <1>6, Awaits DEF Dir
<1>7. CASE Await(tun[T].down, "r")
  BY <1>0, <1>3, <1>4, <1>7, Awaits DEF Dir
<1> QED
  BY <1>5, <1>6, <1>7 DEF tunnel_transport_in, tunnel_transport_out

(* A handler of a tunnel whose two connections are at hand.                *)
LEMMA BothSides ==
  ASSUME IInv, NEW t \in Tun, tun[t].used, tun[t].up \in Conn,
         NEW c, c = tun[t].down, NEW u, u = tun[t].up
  PROVE  /\ c \in Conn /\ u \in Conn /\ c # u
         /\ conn[c] \in Connection /\ conn[c].used /\ conn[c].data = t
         /\ Sides(conn[c]) /\ HandshakeTimers(conn[c], c)
         /\ conn[u] \in Connection /\ conn[u].used /\ conn[u].data = t
         /\ Sides(conn[u]) /\ HandshakeTimers(conn[u], u)
         /\ conn \in [Conn -> Connection]
BY Owned DEF IInv, TypeOK

(* Clearing both handlers of a connection.                                 *)
LEMMA Silenced ==
  ASSUME NEW k \in Connection
  PROVE  LET q == [k EXCEPT !.h = [d \in Dir |-> "NULL"]]
         IN /\ q \in Connection /\ q.used = k.used /\ q.data = k.data
            /\ q.t = k.t /\ q.ssl = k.ssl /\ q.sslh = k.sslh
            /\ \A d \in Dir : q.h[d] = "NULL"
            /\ Sides(q)
BY DEF Connection, Sides, ReadHandlers, WriteHandlers, Dir

(* tunnel_start keeps IInv.                                                *)
LEMMA Start ==
  ASSUME IInv, UNCHANGED loopVars, tunnel_start
  PROVE  IInv'
<1>0. cur.h = "tunnel_start" /\ cur.h \in UpHandlers
  BY DEF tunnel_start, In, UpHandlers
<1>1. PICK u \in Conn, t \in Tun, c \in Conn : u = C /\ t = T /\ c = tun[t].down
  BY <1>0, AtUp, Owned
<1>2. tun[t].up = u /\ tun[t].used /\ tun[t].req /\ TunnelsGrow
  BY <1>0, <1>1, AtUp, TunnelsStay DEF Needs, tunnel_start, T, C
<1>3. /\ c # u
      /\ conn[c] \in Connection /\ conn[c].used /\ conn[c].data = t
      /\ Sides(conn[c]) /\ HandshakeTimers(conn[c], c)
      /\ conn[u] \in Connection /\ conn[u].used /\ conn[u].data = t
      /\ Sides(conn[u]) /\ HandshakeTimers(conn[u], u)
      /\ conn \in [Conn -> Connection]
  BY <1>1, <1>2, BothSides
<1>4. CASE /\ conn' = [conn EXCEPT
                  ![c].h = [d \in Dir |-> "NULL"],
                  ![u].h = Both("NULL", "http_remote_send")]
           /\ Call("http_remote_send", u)
  <2>1. PICK g \in Handlers : g = "http_remote_send"
    BY DEF Handlers, UpHandlers
  <2>2. PICK k : k = [conn[c] EXCEPT !.h = [d \in Dir |-> "NULL"]]
    OBVIOUS
  <2>3. PICK j : j = [conn[u] EXCEPT !.h = Both("NULL", g)]
    OBVIOUS
  <2>4. conn' = [conn EXCEPT ![c] = k, ![u] = j]
    BY <1>3, <1>4, <2>1, <2>2, <2>3
  <2>5. /\ k \in Connection /\ k.used /\ k.data = t
        /\ k.t = conn[c].t /\ k.ssl = conn[c].ssl /\ k.sslh = conn[c].sslh
        /\ \A d \in Dir : k.h[d] = "NULL"
        /\ Sides(k)
    BY <1>3, <2>2, Silenced
  <2>6. PICK x \in [Dir -> Handlers \cup {"NULL"}] :
          x = Both("NULL", g) /\ x["r"] = "NULL" /\ x["w"] = g
    BY BothTypes
  <2>7. /\ j \in Connection /\ j.used /\ j.data = t /\ j.h = x
        /\ j.t = conn[u].t /\ j.ssl = conn[u].ssl /\ j.sslh = conn[u].sslh
    BY <1>3, <2>3, <2>6 DEF Connection
  <2>8. Sides(j)
    BY <2>1, <2>6, <2>7 DEF Sides, ReadHandlers, WriteHandlers
  <2>9. HandshakeTimers(k, c) /\ HandshakeTimers(j, u)
    BY <1>3, <2>5, <2>7, TimersShrink
  <2>10. conn'[c] = k /\ conn'[u] = j
    BY <1>3, <2>4
  <2>11. conn'[u].data = t /\ tun' = tun /\ cur' = [h |-> g, c |-> u]
    BY <1>4, <2>1, <2>7, <2>10 DEF tunnel_start, Call
  <2>12. Needs(g, u)'
    BY <1>2, <2>1, <2>11 DEF Needs, DownHandlers, UpHandlers, GreetHandlers
  <2>13. Becomes(c, k, "NULL", "NULL")
    BY <1>3, <2>5, <2>9, <2>10, NeedsNull DEF Becomes
  <2>14. Becomes(u, j, "NULL", g)
    BY <1>3, <2>6, <2>7, <2>8, <2>9, <2>10, <2>12, NeedsNull DEF Becomes, Dir
  <2> QED
    BY <1>2, <2>4, <2>11, <2>12, <2>13, <2>14, TwoConns
<1>5. CASE /\ conn' = [conn EXCEPT
                  ![c] = event_opt([@ EXCEPT !.h["w"] = "https_connected"], "w"),
                  ![u].h = [d \in Dir |-> "NULL"]]
           /\ Call("https_connected", c)
  <2>1. PICK g \in Handlers : g = "https_connected"
    BY DEF Handlers, DownHandlers
  <2>2. PICK i : i = [conn[c] EXCEPT !.h["w"] = g]
    OBVIOUS
  <2>3. /\ i \in Connection /\ i.used /\ i.data = t /\ i.t = conn[c].t
        /\ i.h = [conn[c].h EXCEPT !["w"] = g]
        /\ i.ssl = conn[c].ssl /\ i.sslh = conn[c].sslh
    BY <1>3, <2>2 DEF Connection
  <2>4. PICK k : k = event_opt(i, "w")
    OBVIOUS
  <2>5. /\ k \in Connection /\ k.used /\ k.data = t /\ k.t = i.t
        /\ k.h = i.h /\ k.ssl = i.ssl /\ k.sslh = i.sslh
    BY <2>3, <2>4, EventOpt DEF Dir
  <2>6. PICK j : j = [conn[u] EXCEPT !.h = [d \in Dir |-> "NULL"]]
    OBVIOUS
  <2>7. /\ j \in Connection /\ j.used /\ j.data = t
        /\ j.t = conn[u].t /\ j.ssl = conn[u].ssl /\ j.sslh = conn[u].sslh
        /\ \A d \in Dir : j.h[d] = "NULL"
        /\ Sides(j)
    BY <1>3, <2>6, Silenced
  <2>8. conn' = [conn EXCEPT ![c] = k, ![u] = j]
    BY <1>3, <1>5, <2>1, <2>2, <2>4, <2>6
  <2>9. Sides(k) /\ HandshakeTimers(k, c) /\ HandshakeTimers(j, u)
    BY <1>3, <2>1, <2>3, <2>5, <2>7, TimersShrink
       DEF Sides, Connection, WriteHandlers, Dir
  <2>10. conn'[c] = k /\ conn'[u] = j
    BY <1>3, <2>8
  <2>11. conn'[c].data = t /\ tun' = tun /\ cur' = [h |-> g, c |-> c]
    BY <1>5, <2>1, <2>5, <2>10 DEF tunnel_start, Call
  <2>12. Needs(g, c)'
    BY <1>1, <1>2, <2>1, <2>11 DEF Needs, DownHandlers, UpHandlers, GreetHandlers
  <2>13. \A d \in Dir : k.h[d] \in {conn[c].h[d], g}
    BY <1>3, <2>3, <2>5 DEF Connection, Dir
  <2>14. Becomes(c, k, "NULL", g)
    BY <1>3, <2>3, <2>5, <2>9, <2>10, <2>12, <2>13, NeedsNull DEF Becomes
  <2>15. Becomes(u, j, "NULL", "NULL")
    BY <1>3, <2>7, <2>9, <2>10, NeedsNull DEF Becomes
  <2> QED
    BY <1>2, <2>8, <2>11, <2>12, <2>14, <2>15, TwoConns
<1> QED
  BY <1>0, <1>1, <1>4, <1>5 DEF tunnel_start, Both

(* https_connected keeps IInv.                                             *)
LEMMA HttpsConnected ==
  ASSUME IInv, UNCHANGED loopVars, https_connected
  PROVE  IInv'
<1>0. cur.h = "https_connected" /\ cur.h \in DownHandlers
  BY DEF https_connected, In, DownHandlers
<1>1. PICK c \in Conn, t \in Tun : c = C /\ t = T
  BY <1>0, AtDown
<1>2. CASE tunnel_over(T)
  BY <1>1, <1>2, Over
<1>3. CASE Await(C, "w")
  BY <1>0, <1>1, <1>3, AtDown, Awaits DEF Dir
<1>4. CASE /\ SetConn(c, [timer_del(conn[c], "w") EXCEPT !.h["r"] = "https_start"])
           /\ UNCHANGED tun
           /\ Call("https_start", c)
  <2>1. PICK g \in Handlers : g = "https_start"
    BY DEF Handlers
  <2>2. PICK j : j = timer_del(conn[c], "w")
    OBVIOUS
  <2>3. /\ conn[c] \in Connection /\ conn[c].used /\ conn[c].data = t
        /\ Sides(conn[c]) /\ HandshakeTimers(conn[c], c)
    BY <1>0, <1>1, AtDown
  <2>4. j \in Connection /\ j.used /\ j.data = t /\ j.h = conn[c].h
        /\ j.t = [conn[c].t EXCEPT !["w"] = Null] /\ j.ssl = conn[c].ssl
        /\ j.sslh = conn[c].sslh
    BY <2>2, <2>3, TimerDel DEF Dir
  <2>5. PICK k : k = [j EXCEPT !.h["r"] = g]
    OBVIOUS
  <2>6. k \in Connection /\ k.used /\ k.data = t /\ k.t = j.t
        /\ k.h = [j.h EXCEPT !["r"] = g] /\ k.ssl = j.ssl /\ k.sslh = j.sslh
    BY <2>4, <2>5 DEF Connection
  <2>7. conn' = [conn EXCEPT ![c] = k]
    BY <1>4, <2>1, <2>2, <2>5 DEF SetConn
  <2>8. Sides(k) /\ HandshakeTimers(k, c)
    BY <2>1, <2>3, <2>4, <2>6, TimersShrink DEF Sides, Connection, ReadHandlers, Dir
  <2>9. conn'[c].data = t /\ tun'[t].up \in Conn
    BY <1>0, <1>1, <1>4, <2>6, <2>7, AtDown DEF IInv, TypeOK, Needs
  <2>10. Needs(g, c)'
    BY <2>1, <2>9 DEF Needs, DownHandlers, UpHandlers, GreetHandlers
  <2>11. \A d \in Dir : k.h[d] \in {"NULL", conn[c].h[d], g}
    BY <2>3, <2>4, <2>6 DEF Connection, Dir
  <2>12. /\ k.data = conn[c].data /\ k.ssl = conn[c].ssl
         /\ k.sslh = conn[c].sslh /\ k \in Connection /\ k.used
    BY <2>3, <2>4, <2>6
  <2>13. cur' = [h |-> g, c |-> c] /\ TunnelsGrow
    BY <1>4, <2>1, TunnelsStay DEF Call
  <2> QED
    BY <2>3, <2>7, <2>8, <2>10, <2>11, <2>12, <2>13, OneConnCall
<1> QED
  BY <1>0, <1>1, <1>2, <1>3, <1>4 DEF https_connected

(* https_start changes of a connection its handlers and registration.      *)
LEMMA RelayConnKeeps ==
  ASSUME NEW k \in Connection, NEW a \in Handlers, NEW b \in Handlers
  PROVE  /\ RelayConn(k, a, b) \in Connection
         /\ RelayConn(k, a, b).used = k.used
         /\ RelayConn(k, a, b).data = k.data
         /\ RelayConn(k, a, b).t = k.t
         /\ RelayConn(k, a, b).ssl = k.ssl
         /\ RelayConn(k, a, b).sslh = k.sslh
         /\ RelayConn(k, a, b).h = Both(a, b)
<1>1. PICK i : i = event_opt(event_opt(k, "r"), "w")
  OBVIOUS
<1>2. /\ i \in Connection /\ i.used = k.used /\ i.data = k.data
      /\ i.t = k.t /\ i.ssl = k.ssl /\ i.sslh = k.sslh
  BY <1>1, EventOpt DEF Dir
<1>3. PICK e \in BOOLEAN : e = (i.epoll # k.epoll /\ k.ssl = "none")
  OBVIOUS
<1>4. PICK x \in [Dir -> Handlers \cup {"NULL"}] :
        x = Both(a, b) /\ x["r"] = a /\ x["w"] = b
  BY BothTypes
<1>5. PICK q : q = [i EXCEPT !.h = x, !.edge = e]
  OBVIOUS
<1>6. /\ q \in Connection /\ q.used = i.used /\ q.data = i.data
      /\ q.t = i.t /\ q.ssl = i.ssl /\ q.sslh = i.sslh /\ q.h = x
  BY <1>2, <1>5 DEF Connection
<1>7. RelayConn(k, a, b) = q
  BY <1>1, <1>3, <1>4, <1>5 DEF RelayConn, Both
<1> QED
  BY <1>2, <1>4, <1>6, <1>7

(* https_start keeps IInv.                                                 *)
LEMMA HttpsStart ==
  ASSUME IInv, UNCHANGED loopVars, https_start
  PROVE  IInv'
<1>0. cur.h = "https_start" /\ cur # Return
  BY DEF https_start, In, Return
<1>1. PICK t \in Tun : t = T /\ tun[t].used /\ tun[t].up \in Conn
  BY <1>0, AtWork, NameAssumption DEF Needs, T, C
<1>2. PICK c \in Conn, u \in Conn : c = tun[t].down /\ u = tun[t].up
  BY <1>1, Owned
<1>3. /\ c # u
      /\ conn[c] \in Connection /\ conn[c].used /\ conn[c].data = t
      /\ Sides(conn[c]) /\ HandshakeTimers(conn[c], c)
      /\ conn[u] \in Connection /\ conn[u].used /\ conn[u].data = t
      /\ Sides(conn[u]) /\ HandshakeTimers(conn[u], u)
      /\ conn \in [Conn -> Connection]
  BY <1>1, <1>2, BothSides
<1>4. CASE tunnel_over(T)
  BY <1>1, <1>4, Over
<1>5. CASE /\ tun' = [tun EXCEPT ![t].relay = TRUE]
           /\ conn' = [conn EXCEPT
                  ![c] = RelayConn(@, "tunnel_transport_in_recv",
                                      "tunnel_transport_out_send"),
                  ![u] = RelayConn(@, "tunnel_transport_out_recv",
                                      "tunnel_transport_in_send")]
           /\ cur' = Return
  <2>1. PICK a \in Handlers, b \in Handlers, p \in Handlers, q \in Handlers :
          /\ a = "tunnel_transport_in_recv" /\ b = "tunnel_transport_out_send"
          /\ p = "tunnel_transport_out_recv" /\ q = "tunnel_transport_in_send"
    BY DEF Handlers, UpHandlers, DownHandlers
  <2>2. PICK y \in Connection, z \in Connection : y = conn[c] /\ z = conn[u]
    BY <1>3
  <2>3. PICK k, j : k = RelayConn(y, a, b) /\ j = RelayConn(z, p, q)
    OBVIOUS
  <2>4. conn' = [conn EXCEPT ![c] = k, ![u] = j]
    BY <1>3, <1>5, <2>1, <2>2, <2>3
  <2>5. /\ k \in Connection /\ k.used /\ k.data = t /\ k.t = conn[c].t
        /\ k.ssl = conn[c].ssl /\ k.sslh = conn[c].sslh
        /\ k.h["r"] = a /\ k.h["w"] = b
    <3>1. /\ k \in Connection /\ k.used = y.used /\ k.data = y.data
          /\ k.t = y.t /\ k.ssl = y.ssl /\ k.sslh = y.sslh
          /\ k.h = Both(a, b)
      BY <2>3, RelayConnKeeps, ZenonT(60)
    <3> QED BY <1>3, <2>2, <3>1, BothTypes
  <2>6. /\ j \in Connection /\ j.used /\ j.data = t /\ j.t = conn[u].t
        /\ j.ssl = conn[u].ssl /\ j.sslh = conn[u].sslh
        /\ j.h["r"] = p /\ j.h["w"] = q
    <3>1. /\ j \in Connection /\ j.used = z.used /\ j.data = z.data
          /\ j.t = z.t /\ j.ssl = z.ssl /\ j.sslh = z.sslh
          /\ j.h = Both(p, q)
      BY <2>3, RelayConnKeeps, ZenonT(60)
    <3> QED BY <1>3, <2>2, <3>1, BothTypes
  <2>7. Sides(k) /\ Sides(j)
    BY <2>1, <2>5, <2>6 DEF Sides, ReadHandlers, WriteHandlers
  <2>8. HandshakeTimers(k, c) /\ HandshakeTimers(j, u)
    BY <1>3, <2>5, <2>6, TimersShrink
  <2>9. conn'[c] = k /\ conn'[u] = j
    BY <1>3, <2>4
  <2>10. TunnelsGrow
    <3>1. PICK x : x = [tun[t] EXCEPT !.relay = TRUE]
      OBVIOUS
    <3>2. /\ x \in Tunnel /\ x.used = tun[t].used /\ x.down = tun[t].down
          /\ x.up = tun[t].up /\ x.req = tun[t].req
          /\ x.reqBody = tun[t].reqBody /\ x.resp = tun[t].resp
          /\ x.respBody = tun[t].respBody /\ x.relay
      BY <3>1 DEF IInv, TypeOK, Tunnel
    <3>3. tun' = [tun EXCEPT ![t] = x]
      BY <1>5, <3>1
    <3> QED BY <1>1, <3>2, <3>3, OneTunnel
  <2>11. /\ conn'[c].data = t /\ conn'[u].data = t /\ tun'[t].down = c
         /\ tun'[t].up = u /\ tun'[t].relay
    BY <1>1, <1>2, <1>5, <2>5, <2>6, <2>9 DEF IInv, TypeOK, Tunnel
  <2>12. Needs(a, c)' /\ Needs(b, c)' /\ Needs(p, u)' /\ Needs(q, u)'
    BY <2>1, <2>11 DEF Needs, DownHandlers, UpHandlers, GreetHandlers
  <2>13. Becomes(c, k, a, b)
    BY <1>3, <2>5, <2>7, <2>8, <2>9, <2>12 DEF Becomes, Dir
  <2>14. Becomes(u, j, p, q)
    BY <1>3, <2>6, <2>7, <2>8, <2>9, <2>12 DEF Becomes, Dir
  <2> QED
    BY <1>5, <2>1, <2>4, <2>10, <2>13, <2>14, TwoConns
<1> QED
  BY <1>0, <1>1, <1>2, <1>4, <1>5 DEF https_start

(* http_remote_send keeps IInv.                                            *)
LEMMA RemoteSend ==
  ASSUME IInv, UNCHANGED loopVars, http_remote_send
  PROVE  IInv'
<1>0. cur.h = "http_remote_send" /\ cur.h \in UpHandlers
  BY DEF http_remote_send, In, UpHandlers
<1>1. PICK c \in Conn, t \in Tun : c = C /\ t = T
  BY <1>0, AtUp
<1>2. CASE tunnel_over(T)
  BY <1>1, <1>2, Over
<1>3. CASE Await(C, "w")
  BY <1>0, <1>1, <1>3, AtUp, Awaits DEF Dir
<1>4. CASE /\ SetConn(c, event_opt([timer_del(conn[c], "w") EXCEPT
                  !.h = Both("http_remote_recv_header", "NULL")], "r"))
           /\ tun' = [tun EXCEPT ![t].resp = TRUE]
           /\ Call("http_remote_recv_header", c)
  <2>1. PICK g \in Handlers : g = "http_remote_recv_header"
    BY DEF Handlers, UpHandlers
  <2>2. PICK j : j = timer_del(conn[c], "w")
    OBVIOUS
  <2>3. /\ conn[c] \in Connection /\ conn[c].used /\ conn[c].data = t
        /\ HandshakeTimers(conn[c], c) /\ tun[t].used /\ tun[t].up = c
        /\ tun[t] \in Tunnel /\ tun[t].req
    BY <1>0, <1>1, AtUp DEF Needs
  <2>4. j \in Connection /\ j.used /\ j.data = t
        /\ j.t = [conn[c].t EXCEPT !["w"] = Null] /\ j.ssl = conn[c].ssl
        /\ j.sslh = conn[c].sslh
    BY <2>2, <2>3, TimerDel DEF Dir
  <2>5. PICK x \in [Dir -> Handlers \cup {"NULL"}] :
          x = Both(g, "NULL") /\ x["r"] = g /\ x["w"] = "NULL"
    BY BothTypes
  <2>6. PICK i : i = [j EXCEPT !.h = x]
    OBVIOUS
  <2>7. i \in Connection /\ i.used /\ i.data = t /\ i.t = j.t
        /\ i.h = x /\ i.ssl = j.ssl /\ i.sslh = j.sslh
    BY <2>4, <2>6 DEF Connection
  <2>8. PICK k : k = event_opt(i, "r")
    OBVIOUS
  <2>9. k \in Connection /\ k.used /\ k.data = t /\ k.t = i.t
        /\ k.h = i.h /\ k.ssl = i.ssl /\ k.sslh = i.sslh
    BY <2>7, <2>8, EventOpt DEF Dir
  <2>10. conn' = [conn EXCEPT ![c] = k]
    BY <1>4, <2>1, <2>2, <2>5, <2>6, <2>8 DEF SetConn
  <2>11. Sides(k)
    BY <2>1, <2>5, <2>7, <2>9 DEF Sides, ReadHandlers, WriteHandlers
  <2>12. HandshakeTimers(k, c)
    BY <2>3, <2>4, <2>7, <2>9, TimersShrink DEF Connection, Dir
  <2>13. PICK z : z = [tun[t] EXCEPT !.resp = TRUE]
    OBVIOUS
  <2>14. /\ z \in Tunnel /\ z.used = tun[t].used /\ z.down = tun[t].down
         /\ z.up = tun[t].up /\ z.req = tun[t].req
         /\ z.reqBody = tun[t].reqBody /\ z.resp
         /\ z.respBody = tun[t].respBody /\ z.relay = tun[t].relay
    BY <2>3, <2>13 DEF Tunnel
  <2>15. tun' = [tun EXCEPT ![t] = z]
    BY <1>4, <2>13
  <2>16. TunnelsGrow
    BY <2>3, <2>14, <2>15, OneTunnel
  <2>17. conn'[c].data = t /\ tun'[t].up = c /\ tun'[t].resp /\ tun'[t].req
    BY <2>3, <2>9, <2>10, <2>14, <2>15 DEF IInv, TypeOK
  <2>18. Needs(g, c)'
    BY <2>1, <2>17 DEF Needs, DownHandlers, UpHandlers, GreetHandlers
  <2>19. \A d \in Dir : k.h[d] \in {"NULL", g}
    BY <2>5, <2>7, <2>9 DEF Dir
  <2>20. k.data = conn[c].data /\ k \in Connection /\ k.used
         /\ cur' = [h |-> g, c |-> c]
    BY <1>4, <2>1, <2>3, <2>9 DEF Call
  <2> QED
    BY <2>3, <2>10, <2>11, <2>12, <2>16, <2>18, <2>19, <2>20, OneConnCall
<1> QED
  BY <1>0, <1>1, <1>2, <1>3, <1>4 DEF http_remote_send, Both

(* http_remote_recv_header keeps IInv.                                     *)
LEMMA RecvHeader ==
  ASSUME IInv, UNCHANGED loopVars, http_remote_recv_header
  PROVE  IInv'
<1>0. cur.h = "http_remote_recv_header" /\ cur.h \in UpHandlers
  BY DEF http_remote_recv_header, In, UpHandlers
<1>1. PICK u \in Conn, t \in Tun, c \in Conn : u = C /\ t = T /\ c = tun[t].down
  BY <1>0, AtUp, Owned
<1>2. tun[t].up = u /\ tun[t].used /\ tun[t].req /\ tun[t].resp
  BY <1>0, <1>1, AtUp DEF Needs, T, C
<1>3. /\ c # u
      /\ conn[c] \in Connection /\ conn[c].used /\ conn[c].data = t
      /\ Sides(conn[c]) /\ HandshakeTimers(conn[c], c)
      /\ conn[u] \in Connection /\ conn[u].used /\ conn[u].data = t
      /\ Sides(conn[u]) /\ HandshakeTimers(conn[u], u)
      /\ conn \in [Conn -> Connection]
  BY <1>1, <1>2, BothSides
<1>4. CASE tunnel_over(T)
  BY <1>1, <1>4, Over
<1>5. CASE Await(C, "r")
  BY <1>0, <1>1, <1>5, AtUp, Awaits DEF Dir
<1>6. ASSUME NEW rbody \in BOOLEAN,
             tun' = [tun EXCEPT ![t].rbody = rbody],
             conn' = [conn EXCEPT
                  ![u] = [timer_del(@, "r") EXCEPT !.h = [d \in Dir |-> "NULL"]],
                  ![c] = event_opt([@ EXCEPT
                                      !.h["w"] = "http_local_send_header"], "w")],
             Call("http_local_send_header", c)
      PROVE  IInv'
  <2>1. PICK g \in Handlers : g = "http_local_send_header"
    BY DEF Handlers, DownHandlers
  <2>2. PICK i : i = [conn[c] EXCEPT !.h["w"] = g]
    OBVIOUS
  <2>3. /\ i \in Connection /\ i.used /\ i.data = t /\ i.t = conn[c].t
        /\ i.h = [conn[c].h EXCEPT !["w"] = g]
        /\ i.ssl = conn[c].ssl /\ i.sslh = conn[c].sslh
    BY <1>3, <2>2 DEF Connection
  <2>4. PICK k : k = event_opt(i, "w")
    OBVIOUS
  <2>5. /\ k \in Connection /\ k.used /\ k.data = t /\ k.t = i.t
        /\ k.h = i.h /\ k.ssl = i.ssl /\ k.sslh = i.sslh
    BY <2>3, <2>4, EventOpt DEF Dir
  <2>6. PICK y : y = timer_del(conn[u], "r")
    OBVIOUS
  <2>7. /\ y \in Connection /\ y.used /\ y.data = t
        /\ y.t = [conn[u].t EXCEPT !["r"] = Null] /\ y.ssl = conn[u].ssl
        /\ y.sslh = conn[u].sslh
    BY <1>3, <2>6, TimerDel DEF Dir
  <2>8. PICK j : j = [y EXCEPT !.h = [d \in Dir |-> "NULL"]]
    OBVIOUS
  <2>9. /\ j \in Connection /\ j.used = y.used /\ j.data = y.data
        /\ j.t = y.t /\ j.ssl = y.ssl /\ j.sslh = y.sslh
        /\ \A d \in Dir : j.h[d] = "NULL"
        /\ Sides(j)
    BY <2>7, <2>8, Silenced
  <2>10. conn' = [conn EXCEPT ![u] = j, ![c] = k]
    BY <1>3, <1>6, <2>1, <2>2, <2>4, <2>6, <2>8
  <2>11. Sides(k) /\ HandshakeTimers(k, c)
    BY <1>3, <2>1, <2>3, <2>5, TimersShrink
       DEF Sides, Connection, WriteHandlers, Dir
  <2>12. HandshakeTimers(j, u)
    BY <1>3, <2>7, <2>9, TimersShrink DEF Connection, Dir
  <2>13. conn'[c] = k /\ conn'[u] = j
    BY <1>3, <2>10
  <2>14. PICK z : z = [tun[t] EXCEPT !.rbody = rbody]
    OBVIOUS
  <2>15. /\ z \in Tunnel /\ z.used = tun[t].used /\ z.down = tun[t].down
         /\ z.up = tun[t].up /\ z.req = tun[t].req
         /\ z.reqBody = tun[t].reqBody /\ z.resp = tun[t].resp
         /\ z.respBody = tun[t].respBody /\ z.relay = tun[t].relay
    BY <1>1, <2>14 DEF Tunnel, IInv, TypeOK
  <2>16. tun' = [tun EXCEPT ![t] = z]
    BY <1>6, <2>14
  <2>17. TunnelsGrow
    BY <1>2, <2>15, <2>16, OneTunnel
  <2>18. /\ conn'[c].data = t /\ tun'[t].up = u /\ tun'[t].down = c
         /\ tun'[t].resp /\ tun'[t].req
    BY <1>1, <1>2, <2>5, <2>13, <2>15, <2>16 DEF IInv, TypeOK
  <2>19. Needs(g, c)'
    BY <2>1, <2>18 DEF Needs, DownHandlers, UpHandlers, GreetHandlers
  <2>20. \A d \in Dir : k.h[d] \in {conn[c].h[d], g}
    BY <1>3, <2>3, <2>5 DEF Connection, Dir
  <2>21. Becomes(c, k, "NULL", g)
    BY <1>3, <2>3, <2>5, <2>11, <2>13, <2>19, <2>20, NeedsNull DEF Becomes
  <2>22. Becomes(u, j, "NULL", "NULL")
    BY <1>3, <2>7, <2>9, <2>12, <2>13, NeedsNull DEF Becomes
  <2>23. cur' = [h |-> g, c |-> c]
    BY <1>6, <2>1 DEF Call
  <2> QED
    BY <2>10, <2>17, <2>19, <2>21, <2>22, <2>23, TwoConns
<1> QED
  BY <1>0, <1>1, <1>4, <1>5, <1>6 DEF http_remote_recv_header

-----------------------------------------------------------------------------
(* Steps that take pool entries.                                           *)

(* The loop is left with some events to look at.                           *)
LoopTypes ==
  /\ batch' \subseteq (Conn \cup {Listener}) \X Dir
  /\ half' \in Conn \cup {Null} /\ accepting' \in BOOLEAN

(* A connection that does not change keeps what it needs if its tunnel     *)
(* does not change either.                                                 *)
LEMMA PoolFrameLoop ==
  ASSUME IInv, LoopTypes,
         conn' \in [Conn -> Connection], tun' \in [Tun -> Tunnel],
         Ownership', RequestHeads',
         NEW S \in SUBSET Conn,
         \A c \in Conn \ S :
           /\ conn'[c] = conn[c]
           /\ conn[c].data # Null => tun'[conn[c].data] = tun[conn[c].data],
         \A c \in S : /\ SafeEvents(c)'
                      /\ Sides(conn'[c]) /\ HandshakeTimers(conn'[c], c),
         cur' \in {Return} \cup [h : Handlers, c : Conn],
         cur' # Return => conn'[cur'.c].used /\ Needs(cur.h, cur.c)'
  PROVE  IInv'
<1>1. TypeOK'
  BY DEF TypeOK, LoopTypes
<1>2. ASSUME NEW c \in Conn \ S PROVE SafeEvents(c)'
  <2>1. conn'[c] = conn[c] /\ SafeEvents(c)
    BY DEF IInv, NoWildHandler
  <2>2. ASSUME NEW d \in Dir, NEW h, h = conn[c].h[d], h # "NULL"
        PROVE  conn[c].used /\ Needs(h, c)'
    <3>1. conn[c].used /\ Needs(h, c)
      BY <2>1, <2>2 DEF SafeEvents
    <3>2. conn[c].data = Null \/ tun'[conn[c].data] = tun[conn[c].data]
      OBVIOUS
    <3>3. CASE conn[c].data = Null
      BY <2>1, <3>1, <3>3, NameAssumption
         DEF Needs, GreetHandlers, DownHandlers, UpHandlers
    <3>4. CASE tun'[conn[c].data] = tun[conn[c].data]
      BY <2>1, <3>1, <3>4 DEF Needs
    <3> QED
      BY <3>1, <3>2, <3>3, <3>4
  <2> QED
    BY <2>1, <2>2 DEF SafeEvents
<1>3. NoWildHandler'
  BY <1>2 DEF NoWildHandler, Idle, Return
<1>4. \A c \in Conn : Sides(conn'[c]) /\ HandshakeTimers(conn'[c], c)
  BY DEF IInv
<1> QED
  BY <1>1, <1>3, <1>4 DEF IInv, Sides, HandshakeTimers

(* So it does when a handler runs, which leaves the loop alone.            *)
LEMMA PoolFrame ==
  ASSUME IInv, UNCHANGED loopVars,
         conn' \in [Conn -> Connection], tun' \in [Tun -> Tunnel],
         Ownership', RequestHeads',
         NEW S \in SUBSET Conn,
         \A c \in Conn \ S :
           /\ conn'[c] = conn[c]
           /\ conn[c].data # Null => tun'[conn[c].data] = tun[conn[c].data],
         \A c \in S : /\ SafeEvents(c)'
                      /\ Sides(conn'[c]) /\ HandshakeTimers(conn'[c], c),
         cur' \in {Return} \cup [h : Handlers, c : Conn],
         cur' # Return => conn'[cur'.c].used /\ Needs(cur.h, cur.c)'
  PROVE  IInv'
<1>1. LoopTypes
  BY DEF IInv, TypeOK, LoopTypes, loopVars
<1> QED
  BY <1>1, PoolFrameLoop

(* tunnel_local_start keeps IInv.                                          *)
LEMMA LocalStart ==
  ASSUME IInv, UNCHANGED loopVars, tunnel_local_start
  PROVE  IInv'
<1> USE NameAssumption
<1>0. cur.h = "tunnel_local_start" /\ cur.h \in GreetHandlers
  BY DEF tunnel_local_start, In, GreetHandlers
<1>1. PICK c \in Conn : c = C
  BY <1>0, AtGreet
<1>2. /\ conn[c] \in Connection /\ conn[c].used /\ conn[c].data = Null
      /\ HandshakeTimers(conn[c], c)
      /\ conn \in [Conn -> Connection] /\ tun \in [Tun -> Tunnel]
  BY <1>0, <1>1, AtGreet DEF IInv, TypeOK
<1>3. CASE tunnel_close_connection(C)
  BY <1>1, <1>2, <1>3, CloseGreeted
<1>4. PICK g \in Handlers :
        g = IF Mode = "client" THEN "tunnel_remote_init"
            ELSE "tunnel_local_process_request"
  BY DEF Handlers, DownHandlers
<1>5. ASSUME NEW t \in Tun, ~tun[t].used,
             tun' = [tun EXCEPT ![t].used = TRUE, ![t].down = c,
                                ![t].req = (Mode # "client")],
             SetConn(c, event_opt([timer_del(conn[c], "r") EXCEPT
                      !.data = t, !.h = Both(g, "NULL")], "r")),
             Call(g, c)
      PROVE  IInv'
  <2>1. PICK j : j = timer_del(conn[c], "r")
    OBVIOUS
  <2>2. j \in Connection /\ j.used
        /\ j.t = [conn[c].t EXCEPT !["r"] = Null]
    BY <1>2, <2>1, TimerDel DEF Dir
  <2>3. PICK x \in [Dir -> Handlers \cup {"NULL"}] :
          x = Both(g, "NULL") /\ x["r"] = g /\ x["w"] = "NULL"
    BY BothTypes
  <2>4. PICK i : i = [j EXCEPT !.data = t, !.h = x]
    OBVIOUS
  <2>5. i \in Connection /\ i.used /\ i.data = t /\ i.t = j.t /\ i.h = x
    BY <2>2, <2>4 DEF Connection
  <2>6. PICK k : k = event_opt(i, "r")
    OBVIOUS
  <2>7. k \in Connection /\ k.used /\ k.data = t /\ k.t = i.t /\ k.h = i.h
    BY <2>5, <2>6, EventOpt DEF Dir
  <2>8. conn' = [conn EXCEPT ![c] = k]
    BY <1>5, <2>1, <2>3, <2>4, <2>6 DEF SetConn
  <2>9. Sides(k)
    BY <1>4, <2>3, <2>5, <2>7 DEF Sides, ReadHandlers, WriteHandlers
  <2>10. HandshakeTimers(k, c)
    BY <1>2, <2>2, <2>5, <2>7 DEF HandshakeTimers, Connection, Dir
  <2>11. tun[t] = FreeTun /\ tun[t] \in Tunnel
    BY <1>2, <1>5 DEF IInv, Ownership
  <2>12. PICK m \in BOOLEAN : m = (Mode # "client")
    OBVIOUS
  <2>13. PICK z : z = [FreeTun EXCEPT !.used = TRUE, !.down = c, !.req = m]
    OBVIOUS
  <2>14. /\ z \in Tunnel /\ z.used /\ z.down = c /\ z.up = Null /\ z.req = m
    BY <2>13, FreeTypes DEF Tunnel, FreeTun
  <2>15. tun' = [tun EXCEPT ![t] = z]
    BY <1>2, <1>5, <2>11, <2>12, <2>13
  <2>16. /\ conn' \in [Conn -> Connection] /\ tun' \in [Tun -> Tunnel]
         /\ conn'[c] = k /\ tun'[t] = z
         /\ \A y \in Conn \ {c} : conn'[y] = conn[y]
         /\ \A y \in Tun \ {t} : tun'[y] = tun[y]
    BY <1>2, <2>7, <2>8, <2>14, <2>15
  <2>17. \A y \in Conn : conn[y].data # t
    BY <1>5 DEF IInv, Ownership
  <2>18. Ownership'
    <3>1. ASSUME NEW y \in Tun
          PROVE  IF tun'[y].used
                   THEN /\ tun'[y].down \in Conn /\ conn'[tun'[y].down].data = y
                        /\ tun'[y].up \in Conn => conn'[tun'[y].up].data = y
                        /\ tun'[y].up # tun'[y].down
                   ELSE tun'[y] = FreeTun
      BY <1>2, <2>7, <2>14, <2>16 DEF IInv, Ownership
    <3>2. ASSUME NEW y \in Conn
          PROVE  /\ ~conn'[y].used => conn'[y] = FreeConn
                 /\ conn'[y].data # Null =>
                      /\ conn'[y].used /\ tun'[conn'[y].data].used
                      /\ y \in {tun'[conn'[y].data].down,
                                tun'[conn'[y].data].up}
      <4>1. CASE y = c
        BY <2>7, <2>14, <2>16, <4>1
      <4>2. CASE y # c
        <5>1. conn'[y] = conn[y] /\ conn[y].data \in Tun \cup {Null}
          BY <1>2, <2>16, <4>2 DEF Connection
        <5> QED
          BY <2>16, <2>17, <5>1 DEF IInv, Ownership
      <4> QED
        BY <4>1, <4>2
    <3> QED
      BY <3>1, <3>2 DEF Ownership
  <2>19. RequestHeads'
    BY <2>12, <2>14, <2>16 DEF IInv, RequestHeads
  <2>20. Needs(g, c)'
    BY <1>4, <2>7, <2>12, <2>14, <2>16
       DEF Needs, DownHandlers, UpHandlers, GreetHandlers
  <2>21. SafeEvents(c)'
    BY <2>3, <2>5, <2>7, <2>16, <2>20 DEF SafeEvents, Dir
  <2>22. cur' = [h |-> g, c |-> c]
    BY <1>5 DEF Call
  <2>23. cur'.h = g /\ cur'.c = c
         /\ cur' \in {Return} \cup [h : Handlers, c : Conn]
    BY <2>22
  <2>24. conn'[cur'.c].used /\ Needs(cur.h, cur.c)'
    BY <2>7, <2>16, <2>20, <2>23
  <2>25. PICK S \in SUBSET Conn : S = {c}
    OBVIOUS
  <2>26. \A y \in Conn \ S :
           /\ conn'[y] = conn[y]
           /\ conn[y].data # Null => tun'[conn[y].data] = tun[conn[y].data]
    BY <1>2, <2>16, <2>17, <2>25 DEF Connection
  <2>27. \A y \in S : /\ SafeEvents(y)'
                      /\ Sides(conn'[y]) /\ HandshakeTimers(conn'[y], y)
    BY <2>9, <2>10, <2>16, <2>21, <2>25
  <2> QED
    BY <2>16, <2>18, <2>19, <2>23, <2>24, <2>26, <2>27, PoolFrame
<1> QED
  BY <1>0, <1>1, <1>3, <1>4, <1>5 DEF tunnel_local_start, Both

(* An entry taken from the connection pool.                                *)
LEMMA Allocated ==
  /\ net_alloc(FreeConn) \in Connection /\ net_alloc(FreeConn).used
  /\ net_alloc(FreeConn).data = Null
  /\ net_alloc(FreeConn).h = [d \in Dir |-> "NULL"]
  /\ net_alloc(FreeConn).t = [d \in Dir |-> Null]
BY FreeTypes DEF net_alloc, FreeConn, Connection

(* tunnel_remote_init keeps IInv.                                          *)
LEMMA RemoteInit ==
  ASSUME IInv, UNCHANGED loopVars, tunnel_remote_init
  PROVE  IInv'
<1> USE NameAssumption
<1>0. cur.h = "tunnel_remote_init" /\ cur.h \in DownHandlers
  BY DEF tunnel_remote_init, In, DownHandlers
<1>1. PICK c \in Conn, t \in Tun : c = C /\ t = T
  BY <1>0, AtDown
<1>2. /\ conn[c] \in Connection /\ conn[c].used /\ conn[c].data = t
      /\ HandshakeTimers(conn[c], c) /\ tun[t] \in Tunnel
      /\ tun[t].used /\ tun[t].down = c /\ tun[t].up = Null
      /\ conn \in [Conn -> Connection] /\ tun \in [Tun -> Tunnel]
  BY <1>0, <1>1, AtDown DEF IInv, TypeOK, Needs
<1>3. CASE tunnel_over(T)
  BY <1>1, <1>3, Over
<1>4. ASSUME NEW u \in Usable,
             tun' = [tun EXCEPT ![t].up = u],
             conn' = [conn EXCEPT
                 ![c] = [timer_del(conn[c], "r") EXCEPT
                           !.h = [d \in Dir |-> "NULL"]],
                 ![u] = [net_alloc(conn[u]) EXCEPT !.data = t,
                           !.h = Both("NULL", "tunnel_remote_connect_start")]],
             Call("tunnel_remote_connect_start", u)
      PROVE  IInv'
  <2>1. u \in Conn /\ u # c /\ conn[u] = FreeConn /\ conn[u].data = Null
    BY <1>2, <1>4 DEF Usable, IInv, Ownership, FreeConn
  <2>2. PICK g \in Handlers : g = "tunnel_remote_connect_start"
    BY DEF Handlers, UpHandlers
  <2>3. PICK i : i = timer_del(conn[c], "r")
    OBVIOUS
  <2>4. i \in Connection /\ i.used /\ i.data = t
        /\ i.t = [conn[c].t EXCEPT !["r"] = Null]
    BY <1>2, <2>3, TimerDel DEF Dir
  <2>5. PICK k : k = [i EXCEPT !.h = [d \in Dir |-> "NULL"]]
    OBVIOUS
  <2>6. /\ k \in Connection /\ k.used = i.used /\ k.data = i.data
        /\ k.t = i.t /\ (\A d \in Dir : k.h[d] = "NULL") /\ Sides(k)
    BY <2>4, <2>5, Silenced
  <2>7. HandshakeTimers(k, c)
    BY <1>2, <2>4, <2>6, TimersShrink DEF Connection, Dir
  <2>8. PICK x \in [Dir -> Handlers \cup {"NULL"}] :
          x = Both("NULL", g) /\ x["r"] = "NULL" /\ x["w"] = g
    BY BothTypes
  <2>9. PICK m, j : m = net_alloc(FreeConn) /\ j = [m EXCEPT !.data = t, !.h = x]
    OBVIOUS
  <2>10. /\ j \in Connection /\ j.used /\ j.data = t /\ j.h = x
         /\ HandshakeTimers(j, u)
    <3>1. m \in Connection /\ m.used /\ m.t = [d \in Dir |-> Null]
      BY <2>9, Allocated
    <3>2. j \in Connection /\ j.used /\ j.data = t /\ j.h = x /\ j.t = m.t
      BY <2>9, <3>1 DEF Connection
    <3> QED BY <3>1, <3>2 DEF HandshakeTimers
  <2>11. Sides(j)
    BY <2>2, <2>8, <2>10 DEF Sides, ReadHandlers, WriteHandlers
  <2>12. conn' = [conn EXCEPT ![c] = k, ![u] = j]
    BY <1>2, <1>4, <2>1, <2>2, <2>3, <2>5, <2>8, <2>9
  <2>13. PICK z : z = [tun[t] EXCEPT !.up = u]
    OBVIOUS
  <2>14. /\ z \in Tunnel /\ z.used /\ z.down = c /\ z.up = u
         /\ z.req = tun[t].req
    BY <1>2, <2>1, <2>13 DEF Tunnel
  <2>15. tun' = [tun EXCEPT ![t] = z]
    BY <1>4, <2>13
  <2>16. /\ conn' \in [Conn -> Connection] /\ tun' \in [Tun -> Tunnel]
         /\ conn'[c] = k /\ conn'[u] = j /\ tun'[t] = z
         /\ \A y \in Conn \ {c, u} : conn'[y] = conn[y]
         /\ \A y \in Tun \ {t} : tun'[y] = tun[y]
    BY <1>2, <2>1, <2>6, <2>10, <2>12, <2>14, <2>15
  <2>17. \A y \in Conn \ {c, u} : conn[y].data # t
    BY <1>2 DEF IInv, Ownership
  <2>18. Ownership'
    <3>1. ASSUME NEW y \in Tun
          PROVE  IF tun'[y].used
                   THEN /\ tun'[y].down \in Conn /\ conn'[tun'[y].down].data = y
                        /\ tun'[y].up \in Conn => conn'[tun'[y].up].data = y
                        /\ tun'[y].up # tun'[y].down
                   ELSE tun'[y] = FreeTun
      <4>1. CASE y = t
        BY <2>1, <2>4, <2>6, <2>10, <2>14, <2>16, <4>1
      <4>2. CASE y # t
        <5>1. tun'[y] = tun[y]
          BY <2>16, <4>2
        <5>2. \A e \in Conn : conn[e].data = y => conn'[e] = conn[e]
          BY <1>2, <2>1, <2>16, <4>2
        <5>3. IF tun[y].used
                THEN /\ tun[y].down \in Conn /\ conn[tun[y].down].data = y
                     /\ tun[y].up \in Conn => conn[tun[y].up].data = y
                     /\ tun[y].up # tun[y].down
                ELSE tun[y] = FreeTun
          BY DEF IInv, Ownership
        <5> QED
          BY <5>1, <5>2, <5>3
      <4> QED
        BY <4>1, <4>2
    <3>2. ASSUME NEW y \in Conn
          PROVE  /\ ~conn'[y].used => conn'[y] = FreeConn
                 /\ conn'[y].data # Null =>
                      /\ conn'[y].used /\ tun'[conn'[y].data].used
                      /\ y \in {tun'[conn'[y].data].down,
                                tun'[conn'[y].data].up}
      <4>1. CASE y = c
        BY <2>4, <2>6, <2>14, <2>16, <4>1
      <4>2. CASE y = u
        BY <2>10, <2>14, <2>16, <4>2
      <4>3. CASE y \notin {c, u}
        <5>1. conn'[y] = conn[y] /\ conn[y].data \in (Tun \ {t}) \cup {Null}
          BY <1>2, <2>16, <2>17, <4>3 DEF Connection
        <5> QED
          BY <2>16, <5>1 DEF IInv, Ownership
      <4> QED
        BY <4>1, <4>2, <4>3
    <3> QED
      BY <3>1, <3>2 DEF Ownership
  <2>19. RequestHeads'
    BY <1>2, <2>14, <2>16 DEF IInv, RequestHeads
  <2>20. Needs(g, u)'
    BY <2>2, <2>10, <2>14, <2>16
       DEF Needs, DownHandlers, UpHandlers, GreetHandlers
  <2>21. SafeEvents(u)'
    BY <2>8, <2>10, <2>16, <2>20 DEF SafeEvents, Dir
  <2>22. SafeEvents(c)'
    BY <2>6, <2>16 DEF SafeEvents
  <2>23. cur' = [h |-> g, c |-> u]
    BY <1>4, <2>2 DEF Call
  <2>24. cur'.h = g /\ cur'.c = u
         /\ cur' \in {Return} \cup [h : Handlers, c : Conn]
    BY <2>1, <2>23
  <2>25. conn'[cur'.c].used /\ Needs(cur.h, cur.c)'
    BY <2>10, <2>16, <2>20, <2>24
  <2>26. PICK S \in SUBSET Conn : S = {c, u}
    BY <2>1
  <2>27. \A y \in Conn \ S :
           /\ conn'[y] = conn[y]
           /\ conn[y].data # Null => tun'[conn[y].data] = tun[conn[y].data]
    BY <1>2, <2>16, <2>17, <2>26 DEF Connection
  <2>28. \A y \in S : /\ SafeEvents(y)'
                      /\ Sides(conn'[y]) /\ HandshakeTimers(conn'[y], y)
    BY <2>6, <2>7, <2>10, <2>11, <2>16, <2>21, <2>22, <2>26
  <2> QED
    BY <2>16, <2>18, <2>19, <2>24, <2>25, <2>27, <2>28, PoolFrame
<1> QED
  BY <1>0, <1>1, <1>3, <1>4 DEF tunnel_remote_init, Both

(* Where nothing runs on and no connection or tunnel changes, IInv stays.  *)
LEMMA LoopFrame ==
  ASSUME IInv, UNCHANGED <<conn, tun>>,
         batch' \subseteq (Conn \cup {Listener}) \X Dir,
         half' \in Conn \cup {Null}, accepting' \in BOOLEAN,
         cur' \in {Return} \cup [h : Handlers, c : Conn],
         cur' # Return => conn[cur'.c].used /\ Needs(cur'.h, cur'.c)
  PROVE  IInv'
BY SMTT(60) DEF IInv, TypeOK, Ownership, NoWildHandler, SafeEvents, Needs, Idle, Return,
       RequestHeads

(* The handler of a client that was accepted, called at once or later.     *)
Greets(c) == cur' \in {Return, [h |-> "tunnel_local_init", c |-> c]}

(* A client that is taken into the pool keeps IInv.                        *)
LEMMA Admits ==
  ASSUME IInv, NEW c \in Usable, tun' = tun, LoopTypes, Greets(c),
         SetConn(c, event_opt([net_alloc(conn[c]) EXCEPT
                                  !.h["r"] = "tunnel_local_init"], "r"))
  PROVE  IInv'
<1> USE NameAssumption
<1>1. /\ c \in Conn /\ conn[c] = FreeConn /\ conn[c].data = Null
      /\ conn \in [Conn -> Connection] /\ tun \in [Tun -> Tunnel]
  BY DEF Usable, IInv, Ownership, FreeConn, TypeOK
<1>2. PICK g \in Handlers : g = "tunnel_local_init"
  BY DEF Handlers, GreetHandlers
<1>3. PICK m, i : m = net_alloc(FreeConn) /\ i = [m EXCEPT !.h["r"] = g]
  OBVIOUS
<1>4. /\ i \in Connection /\ i.used /\ i.data = Null
      /\ i.h["r"] = g /\ i.h["w"] = "NULL"
      /\ i.t = [d \in Dir |-> Null]
  <2>1. /\ m \in Connection /\ m.used /\ m.data = Null
        /\ m.h = [d \in Dir |-> "NULL"] /\ m.t = [d \in Dir |-> Null]
    BY <1>3, Allocated
  <2>2. /\ i \in Connection /\ i.used /\ i.data = Null
        /\ i.h = [m.h EXCEPT !["r"] = g] /\ i.t = m.t
    BY <1>3, <2>1 DEF Connection
  <2> QED BY <2>1, <2>2 DEF Dir
<1>5. i = [net_alloc(conn[c]) EXCEPT !.h["r"] = "tunnel_local_init"]
  BY <1>1, <1>2, <1>3
<1>6. PICK k : k = event_opt(i, "r")
  OBVIOUS
<1>7. k \in Connection /\ k.used /\ k.data = Null /\ k.t = i.t /\ k.h = i.h
  BY <1>4, <1>6, EventOpt DEF Dir
<1>8. conn' = [conn EXCEPT ![c] = k]
  BY <1>5, <1>6 DEF SetConn
<1>9. Sides(k)
  BY <1>2, <1>4, <1>7 DEF Sides, ReadHandlers, WriteHandlers
<1>10. HandshakeTimers(k, c)
  BY <1>4, <1>7 DEF HandshakeTimers
<1>11. /\ conn' \in [Conn -> Connection] /\ conn'[c] = k /\ tun' = tun
       /\ \A y \in Conn \ {c} : conn'[y] = conn[y]
  BY <1>1, <1>7, <1>8
<1>12. Ownership'
  <2>1. \A y \in Conn : conn'[y].data = conn[y].data
                       /\ (y # c => conn'[y] = conn[y])
    BY <1>1, <1>7, <1>11
  <2> QED
    BY <1>7, <1>11, <2>1 DEF IInv, Ownership
<1>13. RequestHeads'
  BY <1>11 DEF IInv, RequestHeads
<1>14. Needs(g, c)'
  BY <1>2, <1>7, <1>11 DEF Needs, DownHandlers, UpHandlers, GreetHandlers
<1>15. SafeEvents(c)'
  BY <1>4, <1>7, <1>11, <1>14 DEF SafeEvents, Dir
<1>16. cur' = Return \/ cur' = [h |-> g, c |-> c]
  BY <1>2 DEF Greets
<1>17. /\ cur' \in {Return} \cup [h : Handlers, c : Conn]
       /\ cur' # Return => cur'.h = g /\ cur'.c = c
  BY <1>1, <1>16
<1>18. cur' # Return => conn'[cur'.c].used /\ Needs(cur.h, cur.c)'
  BY <1>7, <1>11, <1>14, <1>17
<1>19. PICK S \in SUBSET Conn : S = {c}
  BY <1>1
<1>20. \A y \in Conn \ S :
         /\ conn'[y] = conn[y]
         /\ conn[y].data # Null => tun'[conn[y].data] = tun[conn[y].data]
  BY <1>11, <1>19
<1>21. \A y \in S : /\ SafeEvents(y)'
                    /\ Sides(conn'[y]) /\ HandshakeTimers(conn'[y], y)
  BY <1>9, <1>10, <1>11, <1>15, <1>19
<1> QED
  BY <1>1, <1>11, <1>12, <1>13, <1>17, <1>18, <1>20, <1>21, PoolFrameLoop

(* event_accept keeps IInv.                                                *)
LEMMA Accept ==
  ASSUME IInv, event_accept
  PROVE  IInv'
<1>1. cur = Return /\ TypeOK
  BY DEF event_accept, Idle, IInv
<1>2. LoopTypes
  BY <1>1 DEF event_accept, TypeOK, LoopTypes
<1>3. CASE accepting' = FALSE /\ UNCHANGED <<conn, tun, cur, batch, half>>
  BY <1>1, <1>3, LoopFrame DEF TypeOK
<1>4. ASSUME NEW c \in Usable,
             SetConn(c, event_opt([net_alloc(conn[c]) EXCEPT
                                     !.h["r"] = "tunnel_local_init"], "r")),
             Call("tunnel_local_init", c), tun' = tun
      PROVE  IInv'
  BY <1>2, <1>4, Admits DEF Call, Greets
<1> QED
  BY <1>3, <1>4 DEF event_accept

(* The end of a response, whose last step may have taken off a timer.      *)
LEMMA Finish ==
  ASSUME IInv, UNCHANGED loopVars, NEW t \in Tun, tun[t].used, tun[t].req,
         NEW c, c = tun[t].down, NEW u, u = tun[t].up, u \in Conn,
         NEW cs \in [Conn -> Connection],
         \A y \in Conn \ {c, u} : cs[y] = conn[y],
         cs[c].used, cs[c].data = t, HandshakeTimers(cs[c], c),
         tunnel_process_finish(t, cs)
  PROVE  IInv'
<1> USE NameAssumption
<1> DEFINE closed == [tun EXCEPT ![t] = FreeTun]
           over == [y \in Conn |-> IF y \in {c, u} THEN net_free(cs[y]) ELSE cs[y]]
<1>1. /\ c \in Conn /\ c # u
      /\ conn \in [Conn -> Connection] /\ tun \in [Tun -> Tunnel]
      /\ Mode # "client"
  BY BothSides DEF IInv, TypeOK, RequestHeads
<1>2. CASE conn' = over /\ tun' = closed /\ cur' = Return
  <2>1. over = [y \in Conn |-> IF y \in {c, u} THEN net_free(conn[y]) ELSE conn[y]]
    BY DEF net_free
  <2>2. tunnel_over(t)
    BY <1>2, <2>1 DEF tunnel_over
  <2> QED
    BY <2>2, Over
<1>3. ASSUME NEW n \in Tun, ~closed[n].used,
             tun' = [closed EXCEPT ![n].used = TRUE, ![n].down = c, ![n].req = TRUE],
             conn' = [cs EXCEPT
                 ![u] = net_free(@), ![c].data = n,
                 ![c].h = Both("tunnel_local_process_request", "NULL")],
             Call("tunnel_local_process_request", c)
      PROVE  IInv'
  <2>1. closed \in [Tun -> Tunnel] /\ closed[t] = FreeTun
        /\ \A y \in Tun \ {t} : closed[y] = tun[y]
    BY <1>1, FreeTypes
  <2>2. closed[n] = FreeTun /\ (n = t \/ ~tun[n].used)
    BY <1>3, <2>1 DEF IInv, Ownership
  <2>3. PICK z : z = [FreeTun EXCEPT !.used = TRUE, !.down = c, !.req = TRUE]
    OBVIOUS
  <2>4. /\ z \in Tunnel /\ z.used /\ z.down = c /\ z.up = Null /\ z.req
    BY <1>1, <2>3, FreeTypes DEF Tunnel, FreeTun
  <2>5. tun' = [closed EXCEPT ![n] = z]
    <3> HIDE DEF closed, over
    <3>1. tun' = [closed EXCEPT ![n] = [closed[n] EXCEPT
                                          !.used = TRUE, !.down = c, !.req = TRUE]]
      BY <1>3, <2>1
    <3> QED
      BY <2>2, <2>3, <3>1
  <2>6. /\ tun' \in [Tun -> Tunnel] /\ tun'[n] = z
        /\ n # t => tun'[t] = FreeTun
        /\ \A y \in Tun \ {t, n} : tun'[y] = tun[y]
    BY <2>1, <2>4, <2>5
  <2> HIDE DEF closed, over
  <2>7. PICK g \in Handlers : g = "tunnel_local_process_request"
    BY DEF Handlers, DownHandlers
  <2>8. PICK x \in [Dir -> Handlers \cup {"NULL"}] :
          x = Both(g, "NULL") /\ x["r"] = g /\ x["w"] = "NULL"
    BY BothTypes
  <2>9. PICK i : i = cs[c]
    OBVIOUS
  <2>10. PICK k : k = [i EXCEPT !.data = n, !.h = x]
    OBVIOUS
  <2>11. k \in Connection /\ k.used /\ k.data = n /\ k.h = x /\ k.t = i.t
    <3>1. i \in Connection /\ i.used
      BY <1>1, <2>9
    <3> QED
      BY <2>10, <3>1 DEF Connection
  <2>12. conn' = [cs EXCEPT ![u] = FreeConn, ![c] = k]
    BY <1>1, <1>3, <2>7, <2>8, <2>9, <2>10 DEF net_free
  <2>13. Sides(k)
    BY <2>7, <2>8, <2>11 DEF Sides, ReadHandlers, WriteHandlers
  <2>14. HandshakeTimers(k, c)
    BY <2>9, <2>11 DEF HandshakeTimers
  <2>15. /\ conn' \in [Conn -> Connection] /\ conn'[c] = k /\ conn'[u] = FreeConn
         /\ \A y \in Conn \ {c, u} : conn'[y] = conn[y]
    BY <1>1, <2>11, <2>12, FreeTypes
  <2>16. \A y \in Conn : y \in {c, u} <=> conn[y].data = t
    BY <1>1, Owned DEF IInv, Ownership
  <2>17. \A y \in Conn \ {c, u} : conn[y].data \in (Tun \ {t, n}) \cup {Null}
    BY <1>1, <2>2, <2>16 DEF IInv, Ownership, Connection
  <2>18. ~FreeTun.used /\ ~FreeConn.used /\ FreeConn.data = Null
    BY DEF FreeTun, FreeConn
  <2>19. Ownership'
    <3>1. ASSUME NEW y \in Tun
          PROVE  IF tun'[y].used
                   THEN /\ tun'[y].down \in Conn /\ conn'[tun'[y].down].data = y
                        /\ tun'[y].up \in Conn => conn'[tun'[y].up].data = y
                        /\ tun'[y].up # tun'[y].down
                   ELSE tun'[y] = FreeTun
      <4>1. CASE y = n
        BY <1>1, <2>4, <2>6, <2>11, <2>15, <4>1
      <4>2. CASE y = t /\ y # n
        BY <2>6, <2>18, <4>2
      <4>3. CASE y \notin {t, n}
        <5>1. tun'[y] = tun[y]
          BY <2>6, <4>3
        <5>2. \A e \in Conn : conn[e].data = y => conn'[e] = conn[e]
          BY <2>15, <2>16, <4>3
        <5>3. IF tun[y].used
                THEN /\ tun[y].down \in Conn /\ conn[tun[y].down].data = y
                     /\ tun[y].up \in Conn => conn[tun[y].up].data = y
                     /\ tun[y].up # tun[y].down
                ELSE tun[y] = FreeTun
          BY DEF IInv, Ownership
        <5> QED
          BY <5>1, <5>2, <5>3
      <4> QED
        BY <4>1, <4>2, <4>3
    <3>2. ASSUME NEW y \in Conn
          PROVE  /\ ~conn'[y].used => conn'[y] = FreeConn
                 /\ conn'[y].data # Null =>
                      /\ conn'[y].used /\ tun'[conn'[y].data].used
                      /\ y \in {tun'[conn'[y].data].down,
                                tun'[conn'[y].data].up}
      <4>1. CASE y = c
        BY <2>4, <2>6, <2>11, <2>15, <4>1
      <4>2. CASE y = u
        BY <2>15, <2>18, <4>2
      <4>3. CASE y \notin {c, u}
        <5>1. conn'[y] = conn[y] /\ conn[y].data \in (Tun \ {t, n}) \cup {Null}
          BY <2>15, <2>17, <4>3
        <5> QED
          BY <2>6, <5>1 DEF IInv, Ownership
      <4> QED
        BY <4>1, <4>2, <4>3
    <3> QED
      BY <3>1, <3>2 DEF Ownership
  <2>20. RequestHeads'
    <3>1. ASSUME NEW y \in Tun, tun'[y].used PROVE tun'[y].req <=> Mode # "client"
      <4>1. CASE y = n
        BY <1>1, <2>4, <2>6, <4>1
      <4>2. CASE y # n
        BY <1>1, <2>6, <2>18, <3>1, <4>2 DEF IInv, RequestHeads
      <4> QED BY <4>1, <4>2
    <3> QED BY <3>1 DEF RequestHeads
  <2>21. Needs(g, c)'
    BY <2>4, <2>6, <2>7, <2>11, <2>15
       DEF Needs, DownHandlers, UpHandlers, GreetHandlers
  <2>22. SafeEvents(c)'
    BY <2>8, <2>11, <2>15, <2>21 DEF SafeEvents, Dir
  <2>23. /\ SafeEvents(u)' /\ Sides(FreeConn) /\ HandshakeTimers(FreeConn, u)
    BY <2>15 DEF SafeEvents, FreeConn, Sides, HandshakeTimers, ReadHandlers,
                 WriteHandlers, Dir
  <2>24. cur' = [h |-> g, c |-> c]
    BY <1>3, <2>7 DEF Call
  <2>25. cur'.h = g /\ cur'.c = c
         /\ cur' \in {Return} \cup [h : Handlers, c : Conn]
    BY <1>1, <2>24
  <2>26. conn'[cur'.c].used /\ Needs(cur.h, cur.c)'
    BY <2>11, <2>15, <2>21, <2>25
  <2>27. PICK S \in SUBSET Conn : S = {c, u}
    BY <1>1
  <2>28. \A y \in Conn \ S :
           /\ conn'[y] = conn[y]
           /\ conn[y].data # Null => tun'[conn[y].data] = tun[conn[y].data]
    BY <2>6, <2>15, <2>17, <2>27
  <2>29. \A y \in S : /\ SafeEvents(y)'
                      /\ Sides(conn'[y]) /\ HandshakeTimers(conn'[y], y)
    BY <2>13, <2>14, <2>15, <2>22, <2>23, <2>27
  <2> QED
    BY <2>6, <2>15, <2>19, <2>20, <2>25, <2>26, <2>28, <2>29, PoolFrame
<1> QED
  BY <1>2, <1>3 DEF tunnel_process_finish, Both

(* http_local_send_header keeps IInv.                                      *)
LEMMA SendHeader ==
  ASSUME IInv, UNCHANGED loopVars, http_local_send_header
  PROVE  IInv'
<1>0. cur.h = "http_local_send_header" /\ cur.h \in DownHandlers
  BY DEF http_local_send_header, In, DownHandlers
<1>1. PICK c \in Conn, t \in Tun : c = C /\ t = T
  BY <1>0, AtDown
<1>2. /\ tun[t].used /\ tun[t].req /\ tun[t].resp /\ tun[t].down = c
      /\ tun[t].up \in Conn /\ tun[t] \in Tunnel
  BY <1>0, <1>1, AtDown DEF Needs
<1>3. PICK u \in Conn : u = tun[t].up
  BY <1>2
<1>4. /\ c # u
      /\ conn[c] \in Connection /\ conn[c].used /\ conn[c].data = t
      /\ Sides(conn[c]) /\ HandshakeTimers(conn[c], c)
      /\ conn[u] \in Connection /\ conn[u].used /\ conn[u].data = t
      /\ Sides(conn[u]) /\ HandshakeTimers(conn[u], u)
      /\ conn \in [Conn -> Connection]
  BY <1>2, <1>3, BothSides
<1>5. PICK i : i = timer_del(conn[c], "w")
  OBVIOUS
<1>6. /\ i \in Connection /\ i.used /\ i.data = t /\ i.h = conn[c].h
      /\ i.t = [conn[c].t EXCEPT !["w"] = Null] /\ i.ssl = conn[c].ssl
      /\ i.sslh = conn[c].sslh
  BY <1>4, <1>5, TimerDel DEF Dir
<1>7. HandshakeTimers(i, c)
  BY <1>4, <1>6, TimersShrink DEF Connection, Dir
<1>8. PICK sent \in [Conn -> Connection] : sent = [conn EXCEPT ![c] = i]
  BY <1>4, <1>6
<1>9. sent = [conn EXCEPT ![c] = timer_del(@, "w")] /\ sent[c] = i
      /\ \A y \in Conn \ {c, u} : sent[y] = conn[y]
  BY <1>4, <1>5, <1>8
<1>10. CASE tunnel_over(T)
  BY <1>1, <1>10, Over
<1>11. CASE Await(C, "w")
  BY <1>0, <1>1, <1>11, AtDown, Awaits DEF Dir
<1>12. CASE tunnel_process_finish(t, sent)
  <2>1. sent[c].used /\ sent[c].data = t /\ HandshakeTimers(sent[c], c)
    BY <1>6, <1>7, <1>9
  <2> QED
    <3>1. /\ tun[t].used /\ tun[t].req /\ c = tun[t].down /\ u = tun[t].up
          /\ \A y \in Conn \ {c, u} : sent[y] = conn[y]
      BY <1>2, <1>3, <1>9
    <3> QED
      BY <1>12, <2>1, <3>1, Finish
<1>13. CASE /\ tun' = [tun EXCEPT ![t].respBody = TRUE]
            /\ conn' = [sent EXCEPT ![c].h["w"] = "http_local_send_body",
                                    ![u].h["r"] = "http_remote_recv_body"]
            /\ Call("http_remote_recv_body", u)
  <2>1. PICK g \in Handlers, f \in Handlers :
          g = "http_remote_recv_body" /\ f = "http_local_send_body"
    BY DEF Handlers, UpHandlers, DownHandlers
  <2>2. PICK k : k = [i EXCEPT !.h["w"] = f]
    OBVIOUS
  <2>3. /\ k \in Connection /\ k.used /\ k.data = t /\ k.t = i.t
        /\ k.h = [i.h EXCEPT !["w"] = f] /\ k.ssl = i.ssl /\ k.sslh = i.sslh
    BY <1>6, <2>2 DEF Connection
  <2>4. PICK j : j = [conn[u] EXCEPT !.h["r"] = g]
    OBVIOUS
  <2>5. /\ j \in Connection /\ j.used /\ j.data = t /\ j.t = conn[u].t
        /\ j.h = [conn[u].h EXCEPT !["r"] = g]
        /\ j.ssl = conn[u].ssl /\ j.sslh = conn[u].sslh
    BY <1>4, <2>4 DEF Connection
  <2>6. conn' = [conn EXCEPT ![c] = k, ![u] = j]
    BY <1>4, <1>8, <1>9, <1>13, <2>1, <2>2, <2>4
  <2>7. conn'[c] = k /\ conn'[u] = j
    BY <1>4, <2>6
  <2>8. Sides(k)
    BY <1>4, <1>6, <2>1, <2>3 DEF Sides, Connection, WriteHandlers, Dir
  <2>9. Sides(j)
    BY <1>4, <2>1, <2>5 DEF Sides, Connection, ReadHandlers, Dir
  <2>10. HandshakeTimers(k, c) /\ HandshakeTimers(j, u)
    BY <1>4, <1>6, <1>7, <2>3, <2>5, TimersShrink, ZenonT(60)
  <2>11. PICK z : z = [tun[t] EXCEPT !.respBody = TRUE]
    OBVIOUS
  <2>12. /\ z \in Tunnel /\ z.used = tun[t].used /\ z.down = tun[t].down
         /\ z.up = tun[t].up /\ z.req = tun[t].req
         /\ z.reqBody = tun[t].reqBody /\ z.resp = tun[t].resp
         /\ z.respBody /\ z.relay = tun[t].relay
    BY <1>2, <2>11 DEF Tunnel
  <2>13. tun' = [tun EXCEPT ![t] = z]
    BY <1>13, <2>11
  <2>14. TunnelsGrow
    BY <1>2, <2>12, <2>13, OneTunnel
  <2>15. /\ conn'[c].data = t /\ conn'[u].data = t
         /\ tun'[t].down = c /\ tun'[t].up = u
         /\ tun'[t].resp /\ tun'[t].req /\ tun'[t].respBody
    BY <1>2, <1>3, <2>3, <2>5, <2>7, <2>12, <2>13 DEF IInv, TypeOK
  <2>16. Needs(g, u)' /\ Needs(f, c)'
    BY <2>1, <2>15 DEF Needs, DownHandlers, UpHandlers, GreetHandlers
  <2>17. \A d \in Dir : k.h[d] \in {conn[c].h[d], f} /\ j.h[d] \in {conn[u].h[d], g}
    BY <1>4, <1>6, <2>3, <2>5 DEF Connection, Dir
  <2>18. Becomes(c, k, "NULL", f)
    BY <1>4, <1>6, <2>3, <2>7, <2>8, <2>10, <2>16, <2>17, NeedsNull DEF Becomes
  <2>19. Becomes(u, j, "NULL", g)
    BY <1>4, <2>5, <2>7, <2>9, <2>10, <2>16, <2>17, NeedsNull DEF Becomes
  <2>20. cur' = [h |-> g, c |-> u]
    BY <1>13, <2>1 DEF Call
  <2> QED
    BY <2>6, <2>14, <2>16, <2>18, <2>19, <2>20, TwoConns
<1> QED
  BY <1>0, <1>1, <1>3, <1>9, <1>10, <1>11, <1>12, <1>13 DEF http_local_send_header

(* http_body_transport keeps IInv, called for the tunnel at work.          *)
LEMMA Bodies ==
  ASSUME IInv, UNCHANGED loopVars, NEW t \in Tun, tun[t].used, tun[t].req,
         tun[t].up \in Conn, NEW done \in BOOLEAN, SendBody(t, done)
  PROVE  IInv'
<1> USE NameAssumption
<1>1. PICK c \in Conn, u \in Conn : c = tun[t].down /\ u = tun[t].up
  BY Owned
<1>2. /\ c # u
      /\ conn[c] \in Connection /\ conn[c].used /\ conn[c].data = t
      /\ HandshakeTimers(conn[c], c)
      /\ conn[u] \in Connection /\ conn[u].used /\ conn[u].data = t
      /\ Sides(conn[u]) /\ HandshakeTimers(conn[u], u)
      /\ conn \in [Conn -> Connection]
  BY <1>1, BothSides
<1>3. CASE tunnel_over(t)
  BY <1>3, Over
<1>4. CASE /\ conn' = [conn EXCEPT ![u] = timer_add(@, "r", t)]
           /\ tun' = [tun EXCEPT ![t].trans = done]
           /\ cur' = Return
  <2>1. PICK k : k = timer_add(conn[u], "r", t)
    OBVIOUS
  <2>2. t \in Timer /\ "r" \in Dir
    BY DEF Timer, Dir
  <2>3. /\ k \in Connection /\ k.used /\ k.data = conn[u].data
        /\ k.h = conn[u].h /\ k.t = [conn[u].t EXCEPT !["r"] = t]
        /\ k.ssl = conn[u].ssl /\ k.sslh = conn[u].sslh
    BY <1>2, <2>1, <2>2, TimerAdd
  <2>4. conn' = [conn EXCEPT ![u] = k]
    BY <1>4, <2>1
  <2>5. Sides(k) /\ HandshakeTimers(k, u)
    BY <1>2, <2>3, TimersShrink DEF Sides, Connection, Dir
  <2>6. PICK z : z = [tun[t] EXCEPT !.trans = done]
    OBVIOUS
  <2>7. /\ z \in Tunnel /\ z.used = tun[t].used /\ z.down = tun[t].down
        /\ z.up = tun[t].up /\ z.req = tun[t].req
        /\ z.reqBody = tun[t].reqBody /\ z.resp = tun[t].resp
        /\ z.respBody = tun[t].respBody /\ z.relay = tun[t].relay
    BY <2>6, ZenonT(60) DEF Tunnel, IInv, TypeOK
  <2>8. tun' = [tun EXCEPT ![t] = z]
    BY <1>4, <2>6
  <2>9. TunnelsGrow
    BY <2>7, <2>8, OneTunnel
  <2>10. /\ cur' \in {Return} \cup [h : Handlers, c : Conn] /\ cur' = Return
    BY <1>4
  <2> QED
    BY <1>2, <2>3, <2>4, <2>5, <2>9, <2>10, OneConn
<1>5. CASE tunnel_process_finish(t, [conn EXCEPT ![u] = timer_del(@, "r")])
  <2>1. PICK k : k = timer_del(conn[u], "r")
    OBVIOUS
  <2>2. k \in Connection
    BY <1>2, <2>1, TimerDel DEF Dir
  <2>3. PICK cs \in [Conn -> Connection] : cs = [conn EXCEPT ![u] = k]
    BY <1>2, <2>2
  <2>4. tunnel_process_finish(t, cs)
    BY <1>5, <2>1, <2>3
  <2>5. /\ \A y \in Conn \ {c, u} : cs[y] = conn[y]
        /\ cs[c].used /\ cs[c].data = t /\ HandshakeTimers(cs[c], c)
    BY <1>2, <2>3
  <2> QED
    BY <1>1, <2>4, <2>5, Finish
<1> QED
  BY <1>1, <1>3, <1>4, <1>5 DEF SendBody

(* http_local_send_body and http_remote_recv_body keep IInv.               *)
LEMMA SendBodies ==
  ASSUME IInv, UNCHANGED loopVars, http_local_send_body \/ http_remote_recv_body
  PROVE  IInv'
<1>0. cur.h \in {"http_local_send_body", "http_remote_recv_body"}
  <2>1. http_local_send_body => cur.h = "http_local_send_body"
    BY DEF http_local_send_body, In
  <2>2. http_remote_recv_body => cur.h = "http_remote_recv_body"
    BY DEF http_remote_recv_body, In
  <2> QED
    BY <2>1, <2>2
<1>1. /\ cur.h \in {"http_local_send_body", "http_remote_recv_body"}
      /\ cur # Return
  BY <1>0 DEF Return
<1>2. /\ T \in Tun /\ tun[T].used /\ tun[T] \in Tunnel
      /\ C \in Conn /\ Needs(cur.h, C) /\ tun[T].req
  BY <1>1, AtDown, AtUp DEF DownHandlers, UpHandlers, Needs, T, C
<1>3. tun[T].up \in Conn
  <2>1. CASE cur.h = "http_local_send_body"
    BY <1>2, <2>1 DEF Needs, T, C
  <2>2. CASE cur.h = "http_remote_recv_body"
    <3>1. cur.h \in UpHandlers
      BY <2>2 DEF UpHandlers
    <3> QED
      BY <1>2, <3>1, AtUp
  <2> QED
    BY <1>1, <2>1, <2>2
<1>4. PICK t \in Tun : t = T
  BY <1>2
<1>5. tun[t].trans \in BOOLEAN
  BY <1>2, <1>4 DEF Tunnel
<1>6. PICK done \in BOOLEAN : SendBody(t, done)
  BY <1>4, <1>5 DEF http_local_send_body, http_remote_recv_body
<1> QED
  BY <1>2, <1>3, <1>4, <1>6, Bodies

-----------------------------------------------------------------------------
(* The loop.                                                               *)

(* epoll_wait keeps IInv.                                                  *)
LEMMA Waits ==
  ASSUME IInv, epoll_wait
  PROVE  IInv'
<1> USE NameAssumption
<1>1. /\ conn \in [Conn -> Connection] /\ tun \in [Tun -> Tunnel]
      /\ tun' = tun /\ cur' = Return /\ cur = Return /\ TypeOK
      /\ half' = half /\ accepting' = accepting
  BY DEF epoll_wait, Sleeping, Idle, IInv, TypeOK
<1>2. PICK B \in SUBSET ({<<Listener, "r">>} \cup
                         UNION {{c} \X conn[c].epoll : c \in Conn}) :
        /\ batch' = B
        /\ conn' = [c \in Conn |-> [conn[c] EXCEPT
                      !.edge = @ /\ <<c, "w">> \notin B]]
  BY DEF epoll_wait
<1>3. B \subseteq (Conn \cup {Listener}) \X Dir
  <2>1. \A c \in Conn : conn[c].epoll \subseteq Dir
    BY <1>1 DEF Connection
  <2> QED
    BY <2>1 DEF Dir
<1>4. ASSUME NEW c \in Conn
      PROVE  /\ conn'[c] \in Connection
             /\ conn'[c].used = conn[c].used /\ conn'[c].data = conn[c].data
             /\ conn'[c].h = conn[c].h /\ conn'[c].t = conn[c].t
             /\ conn'[c].ssl = conn[c].ssl /\ conn'[c].sslh = conn[c].sslh
             /\ ~conn[c].used => conn'[c] = FreeConn
  <2>1. PICK k \in Connection : k = conn[c]
    BY <1>1
  <2>2. PICK e \in BOOLEAN : e = (k.edge /\ <<c, "w">> \notin B)
    OBVIOUS
  <2>3. conn'[c] = [k EXCEPT !.edge = e]
    BY <1>2, <2>1, <2>2
  <2>4. /\ [k EXCEPT !.edge = e] \in Connection
        /\ [k EXCEPT !.edge = e].used = k.used
        /\ [k EXCEPT !.edge = e].data = k.data
        /\ [k EXCEPT !.edge = e].h = k.h
        /\ [k EXCEPT !.edge = e].t = k.t
        /\ [k EXCEPT !.edge = e].ssl = k.ssl
        /\ [k EXCEPT !.edge = e].sslh = k.sslh
    BY DEF Connection
  <2>5. ASSUME ~k.used PROVE [k EXCEPT !.edge = e] = FreeConn
    <3>1. k = FreeConn
      BY <2>1, <2>5 DEF IInv, Ownership
    <3>2. k.edge = FALSE
      BY <3>1 DEF FreeConn
    <3>3. e = FALSE
      BY <2>2, <3>2
    <3>4. [k EXCEPT !.edge = e] = k
      BY <3>2, <3>3 DEF Connection
    <3> QED
      BY <3>1, <3>4
  <2> QED
    BY <2>1, <2>3, <2>4, <2>5
<1>5. TypeOK'
  <2>1. conn' \in [Conn -> Connection]
    BY <1>2, <1>4
  <2> QED
    BY <1>1, <1>2, <1>3, <2>1 DEF TypeOK
<1>6. Ownership'
  BY <1>1, <1>4 DEF IInv, Ownership
<1>7. NoWildHandler'
  <2>1. ASSUME NEW c \in Conn PROVE SafeEvents(c)'
    <3>1. SafeEvents(c) /\ conn'[c].h = conn[c].h /\ TunnelsGrow
      BY <1>1, <1>4, TunnelsStay DEF IInv, NoWildHandler
    <3>2. ASSUME NEW d \in Dir, NEW h, h = conn[c].h[d], h # "NULL"
          PROVE  conn'[c].used /\ Needs(h, c)'
      <4>1. conn[c].used /\ Needs(h, c)
        BY <3>1, <3>2 DEF SafeEvents
      <4>2. ConnKept(c) /\ conn'[c].sslh = conn[c].sslh
        BY <1>4 DEF ConnKept
      <4>3. h = "ssl_handshake_handler" => conn'[c].ssl # "none"
        BY <1>4, <4>1 DEF Needs
      <4> QED
        BY <1>1, <1>4, <3>1, <4>1, <4>2, <4>3, NeedsKept
    <3> QED
      BY <3>1, <3>2 DEF SafeEvents
  <2> QED
    BY <1>1, <2>1 DEF NoWildHandler, Idle
<1>8. RequestHeads'
  BY <1>1 DEF IInv, RequestHeads
<1>9. \A c \in Conn : Sides(conn'[c]) /\ HandshakeTimers(conn'[c], c)
  BY <1>4 DEF IInv, Sides, HandshakeTimers
<1> QED
  BY <1>5, <1>6, <1>7, <1>8, <1>9 DEF IInv, Sides, HandshakeTimers

(* timer_expire keeps IInv.                                                *)
LEMMA Expires ==
  ASSUME IInv, NEW c \in Conn, NEW d \in Dir, timer_expire(c, d)
  PROVE  IInv'
<1>1. conn[c].t[d] \in Conn \cup Tun /\ UNCHANGED loopVars
  BY DEF timer_expire, IInv, TypeOK, Connection, Timer
<1>2. CASE conn[c].t[d] \in Conn /\ tunnel_close_connection(conn[c].t[d])
  <2>1. conn[c].t[d] = c /\ conn[c].data = Null
    BY <1>2 DEF IInv, HandshakeTimers
  <2> QED
    BY <1>1, <1>2, <2>1, CloseGreeted
<1>3. CASE conn[c].t[d] \in Tun /\ tunnel_over(conn[c].t[d])
  BY <1>1, <1>3, Over
<1> QED
  BY <1>2, <1>3 DEF timer_expire

(* Dispatch runs a handler that SafeEvents says is safe.                   *)
LEMMA Dispatches ==
  ASSUME IInv, NEW c \in Conn, NEW d \in Dir, Dispatch(c, d),
         half' \in {c, Null}, UNCHANGED <<conn, tun, accepting>>
  PROVE  IInv'
<1>1. TypeOK /\ SafeEvents(c)
  BY DEF IInv, NoWildHandler
<1>2. PICK h : h = conn[c].h[d]
  OBVIOUS
<1>3. CASE cur' = Return
  BY <1>1, <1>3, LoopFrame DEF TypeOK, Dispatch
<1>4. CASE cur' = [h |-> h, c |-> c] /\ h # "NULL"
  <2>1. conn[c].used /\ Needs(h, c) /\ h \in Handlers
    BY <1>1, <1>2, <1>4 DEF SafeEvents, TypeOK, Connection
  <2>2. cur'.h = h /\ cur'.c = c
        /\ cur' \in {Return} \cup [h : Handlers, c : Conn]
    BY <1>4, <2>1
  <2>3. conn[cur'.c].used /\ Needs(cur'.h, cur'.c)
    BY <2>1, <2>2
  <2>4. /\ batch' \subseteq (Conn \cup {Listener}) \X Dir
        /\ half' \in Conn \cup {Null} /\ accepting' \in BOOLEAN
    BY <1>1 DEF TypeOK, Dispatch
  <2> QED
    BY <2>2, <2>3, <2>4, LoopFrame
<1> QED
  BY <1>2, <1>3, <1>4 DEF Dispatch

(* Every step of event_loop keeps IInv.                                    *)
LEMMA Loops ==
  ASSUME IInv, Loop
  PROVE  IInv'
<1>1. TypeOK
  BY DEF IInv
<1>2. CASE epoll_wait
  BY <1>2, Waits
<1>3. CASE event_loop_accept
  BY <1>1, <1>3, LoopFrame DEF event_loop_accept, Idle, TypeOK
<1>4. CASE event_accept
  BY <1>4, Accept
<1>5. ASSUME NEW c \in Conn, event_loop_skip(c) PROVE IInv'
  BY <1>1, <1>5, LoopFrame DEF event_loop_skip, Idle, TypeOK
<1>6. ASSUME NEW c \in Conn, event_loop_read(c) PROVE IInv'
  BY <1>6, Dispatches DEF event_loop_read, Dir
<1>7. ASSUME NEW c \in Conn, event_loop_write(c) PROVE IInv'
  BY <1>7, Dispatches DEF event_loop_write, Dir
<1>8. ASSUME NEW c \in Conn, NEW d \in Dir, timer_expire(c, d) PROVE IInv'
  BY <1>8, Expires
<1> QED
  BY <1>2, <1>3, <1>4, <1>5, <1>6, <1>7, <1>8 DEF Loop

-----------------------------------------------------------------------------
(* The theorems.                                                           *)

(* A worker starts with IInv.                                              *)
LEMMA Starts == Init => IInv
<1> USE NameAssumption, FreeTypes
<1> SUFFICES ASSUME Init PROVE IInv
  OBVIOUS
<1>1. TypeOK
  BY DEF Init, TypeOK
<1>2. Ownership
  BY DEF Init, Ownership, FreeConn, FreeTun
<1>3. NoWildHandler
  BY DEF Init, NoWildHandler, SafeEvents, Idle, FreeConn
<1>4. RequestHeads
  BY DEF Init, RequestHeads, FreeTun
<1>5. \A c \in Conn : Sides(conn[c]) /\ HandshakeTimers(conn[c], c)
  BY DEF Init, Sides, HandshakeTimers, FreeConn, ReadHandlers, WriteHandlers, Dir
<1> QED
  BY <1>1, <1>2, <1>3, <1>4, <1>5 DEF IInv

(* Every step of the worker keeps IInv.                                    *)
LEMMA Steps == IInv /\ [Next]_vars => IInv'
<1> SUFFICES ASSUME IInv, [Next]_vars PROVE IInv'
  OBVIOUS
<1>1. CASE Handler
  <2>1. UNCHANGED loopVars
    BY <1>1 DEF Handler
  <2>2. CASE Greet
    BY <2>1, <2>2, LocalInit, SslHandshake, LocalHandshake, LocalStart DEF Greet
  <2>3. CASE Request
    BY <2>1, <2>3, ProcessRequest, ProcessProcotol, ProcessBody DEF Request
  <2>4. CASE Connect
    BY <2>1, <2>4, RemoteInit, ConnectStart, ConnectCheck, RemoteHandshake, Start
       DEF Connect
  <2>5. CASE Relay
    BY <2>1, <2>5, HttpsConnected, HttpsStart, Transports DEF Relay
  <2>6. CASE Respond
    BY <2>1, <2>6, RemoteSend, RecvHeader, SendHeader, SendBodies DEF Respond
  <2> QED
    BY <1>1, <2>2, <2>3, <2>4, <2>5, <2>6 DEF Handler
<1>2. CASE Loop
  BY <1>2, Loops
<1>3. CASE UNCHANGED vars
  BY <1>3, SMTT(60) DEF vars, IInv, TypeOK, Ownership, NoWildHandler, SafeEvents, Needs,
     Idle, RequestHeads
<1> QED
  BY <1>1, <1>2, <1>3 DEF Next

(* The inductive invariant holds of every worker, whatever the sizes of    *)
(* its pools and whichever mode it runs in.                                *)
THEOREM Inductive == Spec => []IInv
BY Starts, Steps, PTL DEF Spec

(* Every variable of l_net.c, l_tunnel.c and l_event.c keeps its type.     *)
THEOREM Typed == Spec => []TypeOK
<1>1. IInv => TypeOK
  BY DEF IInv
<1> QED
  BY <1>1, Inductive, PTL

(* No connection is shared between tunnels, leaked or left behind,         *)
(* whatever path took its tunnel down (tunnel_over, tunnel_process_finish, *)
(* tunnel_time_out, tunnel_close_connection).                              *)
THEOREM Owning == Spec => []Ownership
<1>1. IInv => Ownership
  BY DEF IInv
<1> QED
  BY <1>1, Inductive, PTL

(* No handler that event_loop or a tail call runs follows a NULL or freed  *)
(* pointer: its connection, tunnel, heads, bodies and buffers are there.   *)
THEOREM Tame == Spec => []NoWildHandler
<1>1. IInv => NoWildHandler
  BY DEF IInv
<1> QED
  BY <1>1, Inductive, PTL

-----------------------------------------------------------------------------
(* Isolation.  One step of a worker works for one client: the tunnel T of  *)
(* the running handler, or the one whose timer expires; what IInv says of  *)
(* ownership is why the connections a handler reaches through T are T's.   *)


(* The step leaves every tunnel in use but x alone, and every connection   *)
(* that belongs to another tunnel.                                         *)
Only(x) ==
  /\ \A t \in Tun \ {x} : tun[t].used => tun'[t] = tun[t]
  /\ \A c \in Conn : conn[c].data \notin {x, Null} => conn'[c] = conn[c]

(* Then it touches no other.                                               *)
LEMMA TouchesOne ==
  ASSUME IInv, NEW x, Only(x)
  PROVE  \A t \in Tun : Touched(t) => t = x
<1> SUFFICES ASSUME NEW t \in Tun, Touched(t), t # x PROVE FALSE
  OBVIOUS
<1>1. tun[t].used /\ tun'[t] = tun[t]
  BY DEF Touched, Only
<1>2. ASSUME NEW c \in {tun[t].down, tun[t].up} \ {Null}
      PROVE  conn'[c] = conn[c]
  BY <1>1, Owned, NameAssumption DEF Only
<1> QED BY <1>1, <1>2 DEF Touched

(* tunnel_over closes its own two connections.                             *)
LEMMA OverOnly ==
  ASSUME IInv, NEW t \in Tun, tunnel_over(t)
  PROVE  Only(t)
<1>1. \A c \in {tun[t].down, tun[t].up} \ {Null} : c \in Conn =>
        conn[c].data \in {t, Null}
  BY Owned, NameAssumption DEF IInv, Ownership, FreeTun
<1>2. \A c \in Conn \ {tun[t].down, tun[t].up} : conn'[c] = conn[c]
  BY DEF tunnel_over
<1>3. \A y \in Tun \ {t} : tun'[y] = tun[y]
  BY DEF tunnel_over, IInv, TypeOK
<1>4. \A c \in Conn \cap {tun[t].down, tun[t].up} : conn[c].data \in {t, Null}
  BY <1>1, NameAssumption
<1> QED BY <1>2, <1>3, <1>4 DEF Only

(* A step that changes only the connection its handler runs on.            *)
LEMMA OneOnly ==
  ASSUME IInv, C \in Conn, NEW k, SetConn(C, k),
         \A t \in Tun \ {T} : tun[t].used => tun'[t] = tun[t]
  PROVE  Only(T)
BY DEF Only, SetConn, T, C, IInv, TypeOK

(* The handlers before a client has a tunnel.                              *)
LEMMA GreetOnly == ASSUME IInv, Greet PROVE Only(T)
<1>0. cur # Return /\ C \in Conn
  <2>1. cur.h \in GreetHandlers \cup {"ssl_handshake_handler"}
    BY DEF Greet, tunnel_local_init, ssl_handshake_handler, In, GreetHandlers,
       tunnel_local_handshake_handler, tunnel_local_start
  <2>2. cur # Return
    BY <2>1 DEF Return, GreetHandlers
  <2> QED BY <2>2, AtWork
<1>1. CASE tunnel_local_init
  BY <1>0, <1>1, OneOnly DEF tunnel_local_init, tunnel_close_connection
<1>2. CASE ssl_handshake_handler
  BY <1>0, <1>2, OneOnly DEF ssl_handshake_handler
<1>3. CASE tunnel_local_handshake_handler
  BY <1>0, <1>3, OneOnly
     DEF tunnel_local_handshake_handler, tunnel_close_connection
<1>4. CASE tunnel_local_start
  <2>1. CASE tunnel_close_connection(C)
    BY <1>0, <2>1, OneOnly DEF tunnel_close_connection
  <2>2. ASSUME NEW t \in Tun, ~tun[t].used, NEW k, SetConn(C, k),
               tun' = [tun EXCEPT ![t].used = TRUE, ![t].down = C,
                                  ![t].req = (Mode # "client")]
        PROVE  Only(T)
    <3>1. \A y \in Tun \ {t} : tun'[y] = tun[y]
      BY <2>2 DEF IInv, TypeOK
    <3> QED BY <1>0, <2>2, <3>1, OneOnly
  <2> QED BY <1>4, <2>1, <2>2 DEF tunnel_local_start
<1> QED BY <1>1, <1>2, <1>3, <1>4 DEF Greet

(* The handlers that read the request.                                     *)
LEMMA RequestOnly == ASSUME IInv, Request PROVE Only(T)
<1>0. C \in Conn /\ T \in Tun
  BY AtDown DEF Request, tunnel_local_process_request, In, DownHandlers,
     tunnel_local_process_procotol, tunnel_local_process_body
<1>1. CASE tunnel_over(T)
  BY <1>0, <1>1, OverOnly
<1>2. ASSUME NEW k, SetConn(C, k),
             tun' = tun \/ \E z : tun' = [tun EXCEPT ![T] = z]
      PROVE  Only(T)
  <2>1. \A t \in Tun \ {T} : tun'[t] = tun[t]
    BY <1>2 DEF IInv, TypeOK
  <2> QED BY <1>0, <1>2, <2>1, OneOnly
<1>3. CASE tunnel_local_process_request
  BY <1>1, <1>2, <1>3 DEF tunnel_local_process_request, Await
<1>4. CASE tunnel_local_process_procotol
  BY <1>1, <1>2, <1>4 DEF tunnel_local_process_procotol
<1>5. CASE tunnel_local_process_body
  BY <1>1, <1>2, <1>5 DEF tunnel_local_process_body, Await
<1> QED BY <1>3, <1>4, <1>5 DEF Request

(* The handlers that connect to upstream.                                  *)
LEMMA ConnectOnly == ASSUME IInv, Connect PROVE Only(T)
<1>0. /\ C \in Conn /\ T \in Tun /\ tun[T].used /\ conn[C].data = T
  <2>1. cur.h \in DownHandlers \cup UpHandlers
    BY DEF Connect, tunnel_remote_init, tunnel_remote_connect_start, In,
       tunnel_remote_connect_check, tunnel_remote_handshake_handler,
       tunnel_start, DownHandlers, UpHandlers
  <2> QED BY <2>1, AtDown, AtUp
<1>1. CASE tunnel_over(T)
  BY <1>0, <1>1, OverOnly
<1>2. ASSUME NEW k, SetConn(C, k), tun' = tun
      PROVE  Only(T)
  BY <1>0, <1>2, OneOnly
<1>3. CASE tunnel_remote_init
  <2>1. ASSUME NEW u \in Usable, NEW z, tun' = [tun EXCEPT ![T].up = u],
               NEW k, NEW j, conn' = [conn EXCEPT ![C] = k, ![u] = j]
        PROVE  Only(T)
    <3>1. \A y \in Tun \ {T} : tun'[y] = tun[y]
      BY <2>1 DEF IInv, TypeOK
    <3>2. u \in Conn /\ conn[u].data = Null
      BY DEF Usable, IInv, Ownership, FreeConn
    <3>3. \A c \in Conn \ {C, u} : conn'[c] = conn[c]
      BY <2>1 DEF IInv, TypeOK
    <3> QED BY <1>0, <3>1, <3>2, <3>3 DEF Only
  <2> QED BY <1>1, <1>3, <2>1 DEF tunnel_remote_init
<1>4. CASE tunnel_remote_connect_start
  BY <1>1, <1>2, <1>4 DEF tunnel_remote_connect_start
<1>5. CASE tunnel_remote_connect_check
  BY <1>1, <1>2, <1>5 DEF tunnel_remote_connect_check
<1>6. CASE tunnel_remote_handshake_handler
  BY <1>1, <1>2, <1>6 DEF tunnel_remote_handshake_handler
<1>7. CASE tunnel_start
  <2>1. tun[T].down \in Conn /\ conn[tun[T].down].data = T
    BY <1>0, Owned
  <2>2. \A c \in Conn \ {C, tun[T].down} : conn'[c] = conn[c]
    BY <1>7 DEF tunnel_start, IInv, TypeOK
  <2>3. tun' = tun
    BY <1>7 DEF tunnel_start
  <2> QED BY <1>0, <2>1, <2>2, <2>3 DEF Only
<1> QED BY <1>3, <1>4, <1>5, <1>6, <1>7 DEF Connect

(* Of a step that changes its tunnel and the tunnel's two connections.     *)
LEMMA BothOnly ==
  ASSUME IInv, T \in Tun, tun[T].used,
         \A c \in Conn \ {tun[T].down, tun[T].up} : conn'[c] = conn[c],
         \A t \in Tun \ {T} : tun[t].used => tun'[t] = tun[t]
  PROVE  Only(T)
<1>1. \A c \in Conn : c \in {tun[T].down, tun[T].up} => conn[c].data = T
  BY Owned
<1> QED BY <1>1 DEF Only

(* The handlers of a relay.                                                *)
LEMMA RelayOnly == ASSUME IInv, Relay PROVE Only(T)
<1>0. /\ C \in Conn /\ T \in Tun /\ tun[T].used
      /\ C \in {tun[T].down, tun[T].up}
  <2>1. CASE cur.h = "https_start"
    <3>1. cur # Return
      BY <2>1 DEF Return
    <3>2. C \in Conn /\ T \in Tun /\ tun[T].used
      BY <2>1, <3>1, AtWork, NameAssumption DEF Needs, T, C
    <3>3. C \in {tun[T].down, tun[T].up}
      BY <3>2, NameAssumption DEF IInv, Ownership, T, C
    <3> QED BY <3>2, <3>3
  <2>2. CASE cur.h # "https_start"
    <3>1. cur.h \in DownHandlers \cup UpHandlers
      BY <2>2 DEF Relay, https_connected, https_start, tunnel_transport_in,
         tunnel_transport_out, In, DownHandlers, UpHandlers
    <3> QED BY <3>1, AtDown, AtUp
  <2> QED BY <2>1, <2>2
<1>1. CASE tunnel_over(T)
  BY <1>0, <1>1, OverOnly
<1>2. ASSUME NEW c \in {tun[T].down, tun[T].up}, NEW k, SetConn(c, k),
             tun' = tun
      PROVE  Only(T)
  <2>1. \A y \in Conn \ {c} : conn'[y] = conn[y]
    BY <1>2 DEF SetConn, IInv, TypeOK
  <2> QED BY <1>0, <1>2, <2>1, BothOnly
<1>3. CASE https_connected
  BY <1>0, <1>1, <1>2, <1>3 DEF https_connected, Await
<1>4. CASE https_start
  <2>1. ASSUME tun' = [tun EXCEPT ![T].relay = TRUE],
               NEW k, NEW j,
               conn' = [conn EXCEPT ![tun[T].down] = k, ![tun[T].up] = j]
        PROVE  Only(T)
    <3>1. \A t \in Tun \ {T} : tun'[t] = tun[t]
      BY <2>1 DEF IInv, TypeOK
    <3>2. \A c \in Conn \ {tun[T].down, tun[T].up} : conn'[c] = conn[c]
      BY <2>1 DEF IInv, TypeOK
    <3> QED BY <1>0, <3>1, <3>2, BothOnly
  <2> QED BY <1>1, <1>4, <2>1 DEF https_start
<1>5. CASE tunnel_transport_in \/ tunnel_transport_out
  BY <1>1, <1>2, <1>5 DEF tunnel_transport_in, tunnel_transport_out, Await
<1> QED BY <1>3, <1>4, <1>5 DEF Relay

(* The end of a response, whatever of its connections was changed before.  *)
LEMMA FinishOnly ==
  ASSUME IInv, T \in Tun, tun[T].used, tun[T].up \in Conn, NEW cs,
         cs \in [Conn -> Connection], tunnel_process_finish(T, cs),
         \A c \in Conn \ {tun[T].down, tun[T].up} : cs[c] = conn[c]
  PROVE  Only(T)
<1> DEFINE down == tun[T].down
           up == tun[T].up
           closed == [tun EXCEPT ![T] = FreeTun]
           over == [c \in Conn |-> IF c \in {down, up} THEN net_free(cs[c])
                                   ELSE cs[c]]
<1>1. \A t \in Tun \ {T} : closed[t] = tun[t]
  BY DEF IInv, TypeOK
<1>2. CASE conn' = over /\ tun' = closed
  <2>1. \A c \in Conn \ {down, up} : conn'[c] = conn[c]
    BY <1>2
  <2> QED BY <1>1, <1>2, <2>1, BothOnly
<1>3. ASSUME NEW n \in Tun, ~closed[n].used,
             tun' = [closed EXCEPT ![n].used = TRUE, ![n].down = down,
                                   ![n].req = TRUE],
             conn' = [cs EXCEPT
                 ![up] = net_free(@),
                 ![down].data = n,
                 ![down].h = [r |-> "tunnel_local_process_request",
                              w |-> "NULL"]]
      PROVE  Only(T)
  <2>1. \A t \in Tun \ {n} : tun'[t] = closed[t]
    BY <1>3 DEF IInv, TypeOK
  <2>2. n = T \/ ~tun[n].used
    BY <1>1, <1>3
  <2>3. \A t \in Tun \ {T} : tun[t].used => tun'[t] = tun[t]
    BY <1>1, <2>1, <2>2
  <2>4. \A c \in Conn \ {down, up} : conn'[c] = conn[c]
    BY <1>3
  <2> QED BY <2>3, <2>4, BothOnly
<1> QED BY <1>2, <1>3 DEF tunnel_process_finish

(* The handlers of a response.                                             *)
LEMMA RespondOnly == ASSUME IInv, Respond PROVE Only(T)
<1>0. /\ C \in Conn /\ T \in Tun /\ tun[T].used
      /\ C \in {tun[T].down, tun[T].up} /\ conn \in [Conn -> Connection]
  <2>1. cur.h \in DownHandlers \cup UpHandlers
    BY DEF Respond, http_remote_send, http_remote_recv_header, In,
       http_local_send_header, http_local_send_body, http_remote_recv_body,
       DownHandlers, UpHandlers
  <2> QED BY <2>1, AtDown, AtUp DEF IInv, TypeOK
<1>1. CASE tunnel_over(T)
  BY <1>0, <1>1, OverOnly
<1>2. ASSUME NEW c \in {tun[T].down, tun[T].up}, NEW k, SetConn(c, k),
             tun' = tun \/ \E z : tun' = [tun EXCEPT ![T] = z]
      PROVE  Only(T)
  <2>1. \A y \in Conn \ {c} : conn'[y] = conn[y]
    BY <1>2 DEF SetConn, IInv, TypeOK
  <2>2. \A t \in Tun \ {T} : tun'[t] = tun[t]
    BY <1>2 DEF IInv, TypeOK
  <2> QED BY <1>0, <1>2, <2>1, <2>2, BothOnly
<1>3. CASE http_remote_send
  <2>1. ASSUME NEW k, SetConn(C, k), tun' = [tun EXCEPT ![T].resp = TRUE]
        PROVE  Only(T)
    BY <1>0, <1>2, <2>1
  <2> QED BY <1>0, <1>1, <1>2, <1>3, <2>1 DEF http_remote_send, Await
<1>4. CASE http_remote_recv_header
  <2>1. ASSUME NEW v, tun' = [tun EXCEPT ![T].rbody = v], NEW k, NEW j,
               conn' = [conn EXCEPT ![C] = k, ![tun[T].down] = j]
        PROVE  Only(T)
    <3>1. \A t \in Tun \ {T} : tun'[t] = tun[t]
      BY <2>1 DEF IInv, TypeOK
    <3>2. \A c \in Conn \ {tun[T].down, tun[T].up} : conn'[c] = conn[c]
      BY <1>0, <2>1 DEF IInv, TypeOK
    <3> QED BY <1>0, <3>1, <3>2, BothOnly
  <2> QED BY <1>0, <1>1, <1>2, <1>4, <2>1 DEF http_remote_recv_header, Await
<1>5. CASE http_local_send_header
  <2> DEFINE sent == [conn EXCEPT ![C] = timer_del(@, "w")]
             up == tun[T].up
  <2>0. /\ tun[T].up \in Conn /\ tun[T].down = C
        /\ conn[C] \in Connection
    <3>1. cur.h \in DownHandlers /\ cur.h = "http_local_send_header"
      BY <1>5 DEF http_local_send_header, In, DownHandlers
    <3> QED BY <3>1, AtDown DEF Needs, T, C
  <2>1. /\ sent \in [Conn -> Connection]
        /\ \A c \in Conn \ {tun[T].down, tun[T].up} : sent[c] = conn[c]
    <3>1. timer_del(conn[C], "w") \in Connection
      BY <2>0, TimerDel DEF Dir
    <3> QED BY <1>0, <2>0, <3>1
  <2>2. CASE tunnel_process_finish(T, sent)
    <3> HIDE DEF sent
    <3> QED BY <1>0, <2>0, <2>1, <2>2, FinishOnly
  <2>3. ASSUME tun' = [tun EXCEPT ![T].respBody = TRUE],
               conn' = [sent EXCEPT ![C].h["w"] = "http_local_send_body",
                                    ![up].h["r"] = "http_remote_recv_body"]
        PROVE  Only(T)
    <3>1. \A t \in Tun \ {T} : tun'[t] = tun[t]
      BY <2>3 DEF IInv, TypeOK
    <3> HIDE DEF sent
    <3>2. \A c \in Conn \ {tun[T].down, tun[T].up} : conn'[c] = conn[c]
      BY <2>0, <2>1, <2>3
    <3> QED BY <1>0, <3>1, <3>2, BothOnly
  <2>4. CASE Await(C, "w")
    BY <1>0, <1>2, <2>4 DEF Await
  <2> QED BY <1>1, <1>5, <2>2, <2>3, <2>4 DEF http_local_send_header
<1>6. ASSUME NEW done, SendBody(T, done), tun[T].up \in Conn PROVE Only(T)
  <2> DEFINE up == tun[T].up
             cs == [conn EXCEPT ![up] = timer_del(@, "r")]
  <2>1. /\ cs \in [Conn -> Connection]
        /\ \A c \in Conn \ {tun[T].down, tun[T].up} : cs[c] = conn[c]
    <3>1. timer_del(conn[up], "r") \in Connection
      BY <1>0, <1>6, TimerDel DEF Dir
    <3> QED BY <1>0, <1>6, <3>1
  <2>2. CASE tunnel_process_finish(T, cs)
    <3> HIDE DEF cs
    <3> QED BY <1>0, <1>6, <2>1, <2>2, FinishOnly
  <2>3. CASE /\ conn' = [conn EXCEPT ![up] = timer_add(@, "r", T)]
             /\ tun' = [tun EXCEPT ![T].trans = done]
    <3>1. \A t \in Tun \ {T} : tun'[t] = tun[t]
      BY <2>3 DEF IInv, TypeOK
    <3>2. \A c \in Conn \ {tun[T].down, tun[T].up} : conn'[c] = conn[c]
      BY <1>0, <1>6, <2>3
    <3> QED BY <1>0, <3>1, <3>2, BothOnly
  <2> QED BY <1>1, <1>6, <2>2, <2>3 DEF SendBody
<1>7. CASE http_local_send_body
  <2>1. cur.h \in DownHandlers /\ cur.h = "http_local_send_body"
    BY <1>7 DEF http_local_send_body, In, DownHandlers
  <2>2. tun[T].up \in Conn
    BY <2>1, AtDown DEF Needs, T, C
  <2> QED BY <1>6, <1>7, <2>2 DEF http_local_send_body
<1>8. CASE http_remote_recv_body
  <2>1. cur.h \in UpHandlers
    BY <1>8 DEF http_remote_recv_body, In, UpHandlers
  <2>2. tun[T].up \in Conn
    BY <2>1, AtUp
  <2> QED BY <1>6, <1>8, <2>2 DEF http_remote_recv_body
<1> QED BY <1>3, <1>4, <1>5, <1>7, <1>8 DEF Respond

(* The steps of the event loop that are for somebody.                      *)
LEMMA LoopOnly ==
  ASSUME IInv, Loop, ~epoll_wait
  PROVE  \E x : Only(x)
<1>1. ASSUME UNCHANGED <<conn, tun>> PROVE Only(Null)
  BY <1>1 DEF Only
<1>2. CASE event_accept
  <2>1. ASSUME NEW c \in Usable, NEW k, SetConn(c, k) PROVE Only(Null)
    <3>1. c \in Conn /\ conn[c].data = Null /\ tun' = tun
      BY <1>2 DEF event_accept, Usable, IInv, Ownership, FreeConn
    <3>2. \A y \in Conn \ {c} : conn'[y] = conn[y]
      BY <2>1 DEF SetConn, IInv, TypeOK
    <3> QED BY <3>1, <3>2 DEF Only
  <2>2. tun' = tun
    BY <1>2 DEF event_accept
  <2> QED BY <1>1, <1>2, <2>1, <2>2 DEF event_accept
<1>3. ASSUME NEW c \in Conn, NEW d \in Dir, timer_expire(c, d)
      PROVE  \E x : Only(x)
  <2>1. CASE conn[c].t[d] \in Conn /\ tunnel_close_connection(conn[c].t[d])
    <3>1. conn[c].t[d] = c /\ conn[c].data = Null
      BY <2>1 DEF IInv, HandshakeTimers
    <3>2. tun' = tun /\ \A y \in Conn \ {c} : conn'[y] = conn[y]
      BY <2>1, <3>1 DEF tunnel_close_connection, SetConn, IInv, TypeOK
    <3>3. Only(Null)
      BY <3>1, <3>2 DEF Only
    <3> QED BY <3>3
  <2>2. CASE conn[c].t[d] \in Tun /\ tunnel_over(conn[c].t[d])
    BY <2>2, OverOnly
  <2> QED BY <1>3, <2>1, <2>2 DEF timer_expire
<1> QED BY <1>1, <1>2, <1>3
           DEF Loop, event_loop_accept, event_loop_skip, event_loop_read,
               event_loop_write

(* epoll_wait takes note of the notifications that it delivers.            *)
LEMMA WaitTouchesNone ==
  ASSUME IInv, epoll_wait
  PROVE  \A t \in Tun : ~Touched(t)
<1> TAKE t \in Tun
<1>1. tun' = tun
  BY DEF epoll_wait
<1>2. PICK B : conn' = [c \in Conn |-> [conn[c] EXCEPT
                          !.edge = @ /\ <<c, "w">> \notin B]]
  BY DEF epoll_wait
<1>3. ASSUME NEW c \in Conn
      PROVE  <<conn'[c].used, conn'[c].data, conn'[c].h, conn'[c].t>>
               = <<conn[c].used, conn[c].data, conn[c].h, conn[c].t>>
  <2>1. conn[c] \in Connection
    BY DEF IInv, TypeOK
  <2>2. conn'[c] = [conn[c] EXCEPT !.edge = @ /\ <<c, "w">> \notin B]
    BY <1>2
  <2> QED BY <2>1, <2>2 DEF Connection
<1>4. tun[t].used => {tun[t].down, tun[t].up} \ {Null} \subseteq Conn
  BY Owned
<1> QED BY <1>1, <1>3, <1>4 DEF Touched

(* One client's step changes nothing of another's, in pools of every size  *)
(* and in every mode.                                                      *)
THEOREM Isolated == Spec => Isolation
<1>1. ASSUME IInv, [Next]_vars
      PROVE  [\A t1, t2 \in Tun : Touched(t1) /\ Touched(t2) => t1 = t2]_vars
  <2>1. CASE \E x : Only(x)
    BY <1>1, <2>1, TouchesOne
  <2>2. CASE Handler
    BY <1>1, <2>1, <2>2, GreetOnly, RequestOnly, ConnectOnly, RelayOnly,
       RespondOnly DEF Handler
  <2>3. CASE epoll_wait
    BY <1>1, <2>3, WaitTouchesNone
  <2>4. CASE Loop /\ ~epoll_wait
    BY <1>1, <2>1, <2>4, LoopOnly
  <2>5. CASE UNCHANGED vars
    BY <2>5
  <2> QED BY <1>1, <2>2, <2>3, <2>4, <2>5 DEF Next
<1> QED BY <1>1, Inductive, PTL DEF Spec, Isolation

-----------------------------------------------------------------------------
(* Tunnel implements Sessions, and no event it waits for is one that epoll *)
(* was not told of.                                                        *)
(*                                                                         *)
(* Most of a worker's steps are nothing to Sessions; what could break its  *)
(* promise is a tunnel that is relayed and answered.  Ways is the          *)
(* invariant that excludes it: https_connected and http_remote_send begin  *)
(* two ways, the request chose one of them for good, and every handler     *)
(* that is left anywhere is on that way.                                   *)

(* A CONNECT, and any connection of client mode, is relayed.               *)
Relayed(t) == tun[t].https \/ Mode = "client"

(* A handler that only one of the two ways leads to.                       *)
Way(h, c) ==
  /\ h = "http_remote_send" => ~Relayed(conn[c].data)
  /\ h \in {"https_connected", "https_start"} => Relayed(conn[c].data)
  /\ h = "tunnel_remote_handshake_handler" => Mode = "client"
Special == {"http_remote_send", "https_connected", "https_start",
            "tunnel_remote_handshake_handler"}
Plain == (Handlers \cup {"NULL"}) \ Special

OneWay(z) ==
  /\ z.relay => z.https \/ Mode = "client"
  /\ z.resp => ~z.https /\ Mode # "client"
  /\ z.up = Null => ~z.relay /\ ~z.resp

(* Every handler that runs or can be called, and every tunnel, goes one.   *)
Ways ==
  /\ ~Idle => Way(cur.h, cur.c)
  /\ \A c \in Conn : \A d \in Dir : Way(conn[c].h[d], c)
  /\ \A c \in Conn :
       conn[c].sslh = "tunnel_remote_handshake_handler" => Mode = "client"
  /\ \A t \in Tun : OneWay(tun[t])

(* What Sessions sees of the worker.                                       *)
phase == [c \in Conn |-> Phase(conn[c], c)]
peer == [c \in Conn |-> Peer(conn[c], c)]
Session == Service!Next \/ UNCHANGED <<phase, peer>>

-----------------------------------------------------------------------------
(* Steps that Sessions does not see.                                       *)

(* A handler that is not special is on both ways.                          *)
LEMMA PlainWay ==
  ASSUME NEW h \in Plain, NEW c
  PROVE  Way(h, c) /\ Way(h, c)'
BY DEF Plain, Special, Way

(* What the request asked for does not change while there is an upstream.  *)
Settled(t) ==
  t \in Tun /\ tun[t].used /\ tun[t].up \in Conn =>
    tun'[t].https = tun[t].https

(* Then a handler left on its connection stays on its way.                 *)
LEMMA WayKept ==
  ASSUME IInv, NEW c \in Conn, NEW d \in Dir, NEW h, h = conn[c].h[d],
         Way(h, c), conn'[c].data = conn[c].data, Settled(conn[c].data)
  PROVE  Way(h, c)'
<1>1. CASE h \in Plain
  BY <1>1, PlainWay
<1>2. CASE h \in Special
  <2>1. h # "NULL" /\ SafeEvents(c)
    BY <1>2 DEF Special, IInv, NoWildHandler
  <2>2. Needs(h, c) /\ conn[c].used
    BY <2>1 DEF SafeEvents
  <2>3. h # "tunnel_remote_handshake_handler" =>
          /\ conn[c].data \in Tun /\ tun[conn[c].data].used
          /\ tun[conn[c].data].up \in Conn
    BY <1>2, <2>2, NameAssumption
       DEF Needs, Special, UpHandlers, DownHandlers, IInv, Ownership
  <2> QED BY <1>2, <2>3 DEF Way, Relayed, Special, Settled
<1>3. h \in Handlers \cup {"NULL"}
  BY DEF IInv, TypeOK, Connection
<1> QED BY <1>1, <1>2, <1>3 DEF Plain

SameWay == \A t \in Tun : OneWay(tun'[t]) /\ Settled(t)

(* The handlers left by a step: those that were there, plain ones, and g   *)
(* on connection e.                                                        *)
Leaves(e, g) ==
  /\ \A c \in Conn :
       /\ \A d \in Dir : \/ conn'[c].h[d] \in Plain
                         \/ c = e /\ conn'[c].h[d] = g
                         \/ /\ conn'[c].h[d] = conn[c].h[d]
                            /\ conn'[c].data = conn[c].data
                            /\ Settled(conn[c].data)
       /\ \/ Mode = "client"
          \/ conn'[c].sslh \in {conn[c].sslh, "NULL",
                                "tunnel_local_handshake_handler"}
  /\ \/ cur' = Return
     \/ cur'.h \in Plain
     \/ cur' = [h |-> g, c |-> e]

(* Such a step keeps Ways.                                                 *)
LEMMA WaysFrame ==
  ASSUME IInv, Ways, \A t \in Tun : OneWay(tun'[t]),
         NEW e, NEW g, Way(g, e)', Leaves(e, g)
  PROVE  Ways'
<1>1. ASSUME NEW c \in Conn, NEW d \in Dir PROVE Way(conn[c].h[d], c)'
  <2>1. PICK h : h = conn'[c].h[d]
    OBVIOUS
  <2>2. CASE h \in Plain
    BY <2>1, <2>2, PlainWay
  <2>3. CASE c = e /\ h = g
    BY <2>1, <2>3
  <2>4. CASE /\ conn'[c].h[d] = conn[c].h[d] /\ conn'[c].data = conn[c].data
             /\ Settled(conn[c].data)
    <3>1. h = conn[c].h[d] /\ Way(h, c)
      BY <2>1, <2>4 DEF Ways
    <3> QED BY <2>1, <2>4, <3>1, WayKept
  <2> QED BY <2>1, <2>2, <2>3, <2>4 DEF Leaves
<1>2. ASSUME cur' # Return PROVE Way(cur.h, cur.c)'
  <2>1. CASE cur'.h \in Plain
    BY <2>1, PlainWay
  <2>2. CASE cur' = [h |-> g, c |-> e]
    <3>1. cur'.h = g /\ cur'.c = e
      BY <2>2
    <3> QED BY <3>1
  <2> QED BY <1>2, <2>1, <2>2 DEF Leaves
<1> QED BY <1>1, <1>2 DEF Ways, Leaves, Idle

(* Sessions does not see a step that keeps which connections there are,    *)
(* whose they are, and how far their tunnels came.                         *)
SameTunnels ==
  \A t \in Tun :
    tun[t].used =>
      /\ tun'[t].down = tun[t].down /\ tun'[t].up = tun[t].up
      /\ tun'[t].relay = tun[t].relay /\ tun'[t].resp = tun[t].resp

(* A connection that keeps its tunnel keeps its place in Sessions.         *)
LEMMA SamePhase ==
  ASSUME IInv, NEW c \in Conn, ConnKept(c),
         conn[c].data # Null =>
           LET t == conn[c].data
           IN /\ tun'[t].down = tun[t].down /\ tun'[t].up = tun[t].up
              /\ tun'[t].relay = tun[t].relay /\ tun'[t].resp = tun[t].resp
  PROVE  phase'[c] = phase[c] /\ peer'[c] = peer[c]
BY DEF phase, peer, Phase, Peer, ConnKept

(* So a step that lets all of them keep theirs is not seen.                *)
LEMMA Unseen ==
  ASSUME IInv, \A c \in Conn : ConnKept(c), SameTunnels
  PROVE  UNCHANGED <<phase, peer>>
<1>1. ASSUME NEW c \in Conn
      PROVE  phase'[c] = phase[c] /\ peer'[c] = peer[c]
  <2>1. conn[c].data # Null =>
          conn[c].data \in Tun /\ tun[conn[c].data].used
    BY DEF IInv, Ownership, TypeOK, Connection
  <2> QED BY <2>1, SamePhase DEF SameTunnels
<1> QED BY <1>1 DEF phase, peer

(* A handler that changes one connection, keeps its tunnel, and leaves the *)
(* handlers that were there, plain ones and g.                             *)
Solo(c, k, g) ==
  /\ c \in Conn /\ conn' = [conn EXCEPT ![c] = k]
  /\ k.used = conn[c].used /\ k.data = conn[c].data
  /\ \A d \in Dir : k.h[d] \in Plain \cup {g, conn[c].h[d]}
  /\ \/ Mode = "client"
     \/ k.sslh \in {conn[c].sslh, "NULL", "tunnel_local_handshake_handler"}
  /\ cur' = Return \/ cur'.h \in Plain \/ cur' = [h |-> g, c |-> c]

(* Such a handler keeps Ways and is not seen.                              *)
LEMMA SoloStep ==
  ASSUME IInv, Ways, SameWay, SameTunnels,
         NEW c, NEW k, NEW g, Way(g, c)', Solo(c, k, g)
  PROVE  Ways' /\ Session
<1>1. c \in Conn /\ conn'[c] = k /\ \A x \in Conn \ {c} : conn'[x] = conn[x]
  BY DEF Solo, IInv, TypeOK
<1>2. \A x \in Conn : ConnKept(x)
  BY <1>1 DEF Solo, ConnKept
<1>3. Leaves(c, g)
  <2>1. ASSUME NEW x \in Conn
        PROVE  /\ \A d \in Dir : \/ conn'[x].h[d] \in Plain
                                 \/ x = c /\ conn'[x].h[d] = g
                                 \/ /\ conn'[x].h[d] = conn[x].h[d]
                                    /\ conn'[x].data = conn[x].data
                                    /\ Settled(conn[x].data)
               /\ \/ Mode = "client"
                  \/ conn'[x].sslh \in {conn[x].sslh, "NULL",
                                        "tunnel_local_handshake_handler"}
    <3>0. \A t : Settled(t)
      BY DEF SameWay, Settled
    <3>1. CASE x # c
      BY <1>1, <3>0, <3>1
    <3>2. CASE x = c
      <4>1. ASSUME NEW d \in Dir
            PROVE  \/ conn'[x].h[d] \in Plain
                   \/ x = c /\ conn'[x].h[d] = g
                   \/ /\ conn'[x].h[d] = conn[x].h[d]
                      /\ conn'[x].data = conn[x].data
                      /\ Settled(conn[x].data)
        <5>1. k.h[d] \in Plain \cup {g, conn[c].h[d]} /\ k.data = conn[c].data
          BY DEF Solo
        <5> QED BY <1>1, <3>0, <3>2, <5>1
      <4>2. \/ Mode = "client"
            \/ conn'[c].sslh \in {conn[c].sslh, "NULL",
                                  "tunnel_local_handshake_handler"}
        BY <1>1 DEF Solo
      <4> QED BY <3>2, <4>1, <4>2
    <3> QED BY <3>1, <3>2
  <2>2. cur' = Return \/ cur'.h \in Plain \/ cur' = [h |-> g, c |-> c]
    BY DEF Solo
  <2> QED BY <2>1, <2>2 DEF Leaves
<1>4. Ways'
  BY <1>3, WaysFrame DEF SameWay
<1> QED BY <1>2, <1>4, Unseen DEF Session

-----------------------------------------------------------------------------
(* Connections that are closed.                                            *)

(* A connection as net_free leaves it.                                     *)
LEMMA FreeFacts ==
  /\ ~FreeConn.used /\ FreeConn.data = Null /\ FreeConn.sslh = "NULL"
  /\ \A d \in Dir : FreeConn.h[d] = "NULL"
  /\ ~FreeTun.used /\ FreeTun.up = Null /\ FreeTun.down = Null
  /\ ~FreeTun.relay /\ ~FreeTun.resp /\ ~FreeTun.https
  /\ "NULL" \in Plain
BY DEF FreeConn, FreeTun, Plain, Special

(* Tunnel t and its connections are freed.                                 *)
Ends(t) ==
  /\ \A c \in Conn : conn'[c] = IF c \in {tun[t].down, tun[t].up}
                                 THEN FreeConn ELSE conn[c]
  /\ tun' = [tun EXCEPT ![t] = FreeTun]
  /\ cur' = Return

(* Sessions closes the client.                                             *)
LEMMA EndSeen ==
  ASSUME IInv, NEW t \in Tun, tun[t].used, Ends(t)
  PROVE  Service!Next
<1> DEFINE c == tun[t].down
           u == tun[t].up
<1>1. /\ c \in Conn /\ conn[c].used /\ conn[c].data = t /\ u # c
      /\ u \in Conn \cup {Null} /\ t # Null
      /\ \A x \in Conn : conn[x].data = t <=> x \in {c, u}
  BY Owned, NameAssumption DEF IInv, Ownership
<1>2. \A y \in Tun : tun'[y] = IF y = t THEN FreeTun ELSE tun[y]
  BY DEF Ends, IInv, TypeOK
<1>3. phase[c] \in Service!Client /\ peer[c] = u
  BY <1>1 DEF phase, peer, Phase, Peer, Service!Client
<1>4. ASSUME NEW x \in Conn, x \in {c, u}
      PROVE  phase'[x] = "free" /\ peer'[x] = Null
  BY <1>4, FreeFacts DEF Ends, phase, peer, Phase, Peer
<1>5. ASSUME NEW x \in Conn \ {c, u}
      PROVE  phase'[x] = phase[x] /\ peer'[x] = peer[x]
  <2>1. conn'[x] = conn[x] /\ conn[x].data # t
    BY <1>1, <1>5 DEF Ends
  <2>2. conn[x].data \in Tun \cup {Null}
    BY DEF IInv, TypeOK, Connection
  <2> QED BY <1>2, <2>1, <2>2 DEF phase, peer, Phase, Peer
<1>6. u \in Conn => peer[u] = Null
  BY <1>1 DEF peer, Peer
<1>7. Service!Close(c)
  <2>1. phase' = [x \in Conn |-> IF x = c THEN "free"
                      ELSE IF x = peer[c] THEN "free" ELSE phase[x]]
    BY <1>3, <1>4, <1>5 DEF phase
  <2>2. peer' = [peer EXCEPT ![c] = Null]
    BY <1>4, <1>5, <1>6 DEF peer
  <2> QED BY <1>3, <2>1, <2>2 DEF Service!Close, Service!GiveBack, phase, peer
<1> QED BY <1>1, <1>7 DEF Service!Next

(* What is freed leaves no handlers.                                       *)
LEMMA EndWays ==
  ASSUME IInv, Ways, NEW t \in Tun, Ends(t)
  PROVE  Ways'
<1>1. \A y \in Tun : tun'[y] = IF y = t THEN FreeTun ELSE tun[y]
  BY DEF Ends, IInv, TypeOK
<1>2. \A y \in Tun : OneWay(tun'[y])
  BY <1>1, FreeFacts DEF Ways, OneWay
<1>3. ASSUME NEW x \in Conn, conn'[x] = conn[x], conn[x].data # t
      PROVE  Settled(conn[x].data)
  BY <1>1, <1>3 DEF Settled
<1>4. \A x \in Conn \ {tun[t].down, tun[t].up} :
        conn'[x] = conn[x] /\ conn[x].data # t
  BY NameAssumption DEF Ends, IInv, Ownership
<1>5. \A x \in Conn : x \in {tun[t].down, tun[t].up} => conn'[x] = FreeConn
  BY DEF Ends
<1>6. Leaves(Null, "NULL")
  BY <1>3, <1>4, <1>5, FreeFacts DEF Leaves, Ends
<1> QED BY <1>2, <1>6, FreeFacts, PlainWay, WaysFrame

(* tunnel_over, also when a timer calls it.                                *)
LEMMA OverStep ==
  ASSUME IInv, Ways, NEW t \in Tun, tunnel_over(t)
  PROVE  Ways' /\ Session
<1>1. Ends(t)
  BY DEF tunnel_over, net_free, Ends
<1>2. CASE tun[t].used
  BY <1>1, <1>2, EndSeen, EndWays DEF Session
<1>3. CASE ~tun[t].used
  <2>1. tun[t] = FreeTun
    BY <1>3 DEF IInv, Ownership
  <2>2. \A c \in Conn : conn'[c] = conn[c]
    BY <1>1, <2>1, FreeFacts, NameAssumption DEF Ends
  <2>3. \A y \in Tun : tun'[y] = tun[y]
    BY <1>1, <2>1 DEF Ends, IInv, TypeOK
  <2>4. UNCHANGED <<phase, peer>>
    BY <2>2, <2>3, Unseen DEF ConnKept, SameTunnels
  <2> QED BY <1>1, <2>4, EndWays DEF Session
<1> QED BY <1>2, <1>3

(* tunnel_close_connection of a client without a tunnel.                   *)
LEMMA CloseStep ==
  ASSUME IInv, Ways, NEW c \in Conn, conn[c].used, conn[c].data = Null,
         tunnel_close_connection(c)
  PROVE  Ways' /\ Session
<1>1. /\ conn'[c] = FreeConn /\ \A x \in Conn \ {c} : conn'[x] = conn[x]
      /\ tun' = tun /\ cur' = Return
  BY DEF tunnel_close_connection, SetConn, net_free, IInv, TypeOK
<1>2. Leaves(Null, "NULL")
  <2>1. \A x : Settled(x)
    BY <1>1 DEF Settled
  <2> QED BY <1>1, <2>1, FreeFacts DEF Leaves
<1>3. \A t \in Tun : OneWay(tun'[t])
  BY <1>1 DEF Ways
<1>4. Ways'
  BY <1>2, <1>3, FreeFacts, PlainWay, WaysFrame
<1>5. \A x \in Conn \ {c} : phase'[x] = phase[x] /\ peer'[x] = peer[x]
  BY <1>1 DEF phase, peer, Phase, Peer
<1>6. /\ phase[c] = "greet" /\ phase'[c] = "free"
      /\ peer[c] = Null /\ peer'[c] = Null
  BY <1>1, FreeFacts DEF phase, peer, Phase, Peer
<1>7. Service!Close(c)
  <2>1. phase' = [x \in Conn |-> IF x = c THEN "free"
                      ELSE IF x = peer[c] THEN "free" ELSE phase[x]]
    BY <1>5, <1>6, NameAssumption DEF phase
  <2>2. peer' = [peer EXCEPT ![c] = Null]
    BY <1>5, <1>6 DEF peer
  <2>3. phase[c] \in Service!Client
    BY <1>6 DEF Service!Client
  <2> QED BY <2>1, <2>2, <2>3 DEF Service!Close, Service!GiveBack, phase, peer
<1> QED BY <1>4, <1>7 DEF Session, Service!Next

-----------------------------------------------------------------------------
(* The handlers before a client has a tunnel.                              *)

(* No tunnel is written.                                                   *)
LEMMA TunStays ==
  ASSUME Ways, tun' = tun
  PROVE  SameWay /\ SameTunnels
BY DEF Ways, SameWay, Settled, SameTunnels

(* A plain handler of one connection.                                      *)
LEMMA PlainStep ==
  ASSUME IInv, Ways, SameWay, SameTunnels, NEW c, NEW k, Solo(c, k, "NULL")
  PROVE  Ways' /\ Session
BY SoloStep, PlainWay, FreeFacts

(* The names of handlers that are not special.                             *)
LEMMA PlainNames ==
  {"NULL", "tunnel_local_init", "tunnel_local_handshake_handler",
   "tunnel_local_start", "ssl_handshake_handler",
   "tunnel_local_process_request", "tunnel_local_process_procotol",
   "tunnel_local_process_body", "tunnel_remote_init",
   "tunnel_remote_connect_start", "tunnel_remote_connect_check",
   "tunnel_start", "http_remote_recv_header", "http_remote_recv_body",
   "http_local_send_header", "http_local_send_body",
   "tunnel_transport_in_recv", "tunnel_transport_out_send",
   "tunnel_transport_in_send", "tunnel_transport_out_recv"} \subseteq Plain
BY DEF Plain, Special, Handlers, DownHandlers, UpHandlers, GreetHandlers

(* tunnel_local_init.                                                      *)
LEMMA LocalInitStep ==
  ASSUME IInv, Ways, tunnel_local_init
  PROVE  Ways' /\ Session
<1>0. cur.h \in GreetHandlers
  BY DEF tunnel_local_init, In, GreetHandlers
<1>1. PICK c \in Conn : c = C
  BY <1>0, AtGreet
<1>2. /\ conn[c] \in Connection /\ conn[c].used /\ conn[c].data = Null
      /\ SameWay /\ SameTunnels
  BY <1>0, <1>1, AtGreet, TunStays DEF tunnel_local_init
<1>3. ASSUME SetConn(c, [conn[c] EXCEPT !.h["r"] = "tunnel_local_start"]),
             Call("tunnel_local_start", c)
      PROVE  Ways' /\ Session
  <2>1. PICK k : k = [conn[c] EXCEPT !.h["r"] = "tunnel_local_start"]
    OBVIOUS
  <2>2. /\ k.used = conn[c].used /\ k.data = conn[c].data
        /\ k.h = [conn[c].h EXCEPT !["r"] = "tunnel_local_start"]
        /\ k.sslh = conn[c].sslh
    BY <1>2, <2>1 DEF Connection
  <2>3. Solo(c, k, "NULL")
    BY <1>2, <1>3, <2>1, <2>2, PlainNames DEF Solo, SetConn, Call, Connection
  <2> QED BY <1>2, <2>3, PlainStep
<1>4. ASSUME NEW d \in Dir, cur' = Return,
             SetConn(c, [timer_add(ssl_want(conn[c], d), "r", c) EXCEPT
                 !.ssl = "init", !.sslh = "tunnel_local_handshake_handler"])
      PROVE  Ways' /\ Session
  <2>1. PICK j \in Connection : j = conn[c]
    BY <1>2
  <2>2. PICK k : k = Wanting(j, d, "r", c, "tunnel_local_handshake_handler")
    OBVIOUS
  <2>3. c \in Timer /\ "r" \in Dir
    BY DEF Timer, Dir
  <2>4. /\ k.used = j.used /\ k.data = j.data
        /\ k.t = [j.t EXCEPT !["r"] = c]
        /\ k.sslh = "tunnel_local_handshake_handler"
        /\ \A y \in Dir : k.h[y] \in {"NULL", "ssl_handshake_handler"}
    BY <2>1, <2>2, <2>3, Wants
  <2>5. Solo(c, k, "NULL")
    BY <1>4, <2>1, <2>2, <2>4, PlainNames DEF Solo, SetConn, Wanting
  <2> QED BY <1>2, <2>5, PlainStep
<1>5. ASSUME SetConn(c, [conn[c] EXCEPT !.ssl = "handshaked"]),
             Call("tunnel_local_handshake_handler", c)
      PROVE  Ways' /\ Session
  <2>1. PICK k : k = [conn[c] EXCEPT !.ssl = "handshaked"]
    OBVIOUS
  <2>2. /\ k.used = conn[c].used /\ k.data = conn[c].data
        /\ k.h = conn[c].h /\ k.sslh = conn[c].sslh
    BY <1>2, <2>1 DEF Connection
  <2>3. Solo(c, k, "NULL")
    BY <1>5, <2>1, <2>2, PlainNames DEF Solo, SetConn, Call
  <2> QED BY <1>2, <2>3, PlainStep
<1> QED
  BY <1>1, <1>2, <1>3, <1>4, <1>5, CloseStep DEF tunnel_local_init

(* ssl_handshake_handler, whose last step calls the handler that was left  *)
(* in ssl->handler.                                                        *)
LEMMA SslStep ==
  ASSUME IInv, Ways, ssl_handshake_handler
  PROVE  Ways' /\ Session
<1>0. cur.h = "ssl_handshake_handler" /\ cur # Return
  BY DEF ssl_handshake_handler, In, Return
<1>1. PICK c \in Conn : c = C
  BY <1>0, AtWork
<1>2. /\ conn[c] \in Connection /\ conn[c].used
      /\ Needs("ssl_handshake_handler", c) /\ SameWay /\ SameTunnels
  BY <1>0, <1>1, AtWork, TunStays DEF ssl_handshake_handler
<1>3. ASSUME NEW d \in Dir, SetConn(c, ssl_want(conn[c], d)), cur' = Return
      PROVE  Ways' /\ Session
  <2>1. PICK k : k = ssl_want(conn[c], d)
    OBVIOUS
  <2>2. /\ k.used = conn[c].used /\ k.data = conn[c].data
        /\ k.h = [e \in Dir |-> IF e = d THEN "ssl_handshake_handler"
                                         ELSE "NULL"]
        /\ k.sslh = conn[c].sslh
    BY <1>2, <2>1, SslWant
  <2>3. Solo(c, k, "NULL")
    BY <1>3, <2>1, <2>2, PlainNames DEF Solo, SetConn
  <2> QED BY <1>2, <2>3, PlainStep
<1>4. ASSUME NEW v, SetConn(c, [conn[c] EXCEPT !.ssl = v]),
             Call(conn[c].sslh, c)
      PROVE  Ways' /\ Session
  <2>1. PICK k : k = [conn[c] EXCEPT !.ssl = v]
    OBVIOUS
  <2>2. /\ k.used = conn[c].used /\ k.data = conn[c].data
        /\ k.h = conn[c].h /\ k.sslh = conn[c].sslh
    BY <1>2, <2>1 DEF Connection
  <2>3. PICK g : g = conn[c].sslh
    OBVIOUS
  <2>4. Way(g, c)'
    BY <1>2, <2>3, PlainWay, PlainNames DEF Needs, Ways, Way
  <2>5. Solo(c, k, g)
    BY <1>4, <2>1, <2>2, <2>3 DEF Solo, SetConn, Call
  <2> QED BY <1>2, <2>4, <2>5, SoloStep
<1> QED
  BY <1>1, <1>3, <1>4 DEF ssl_handshake_handler

(* tunnel_local_handshake_handler.                                         *)
LEMMA LocalHandshakeStep ==
  ASSUME IInv, Ways, tunnel_local_handshake_handler
  PROVE  Ways' /\ Session
<1>0. cur.h \in GreetHandlers
  BY DEF tunnel_local_handshake_handler, In, GreetHandlers
<1>1. PICK c \in Conn : c = C
  BY <1>0, AtGreet
<1>2. /\ conn[c] \in Connection /\ conn[c].used /\ conn[c].data = Null
  BY <1>0, <1>1, AtGreet
<1>3. ASSUME SetConn(c, [timer_del(conn[c], "r") EXCEPT
                           !.h = [r |-> "tunnel_local_start", w |-> "NULL"]]),
             Call("tunnel_local_start", c), tun' = tun
      PROVE  Ways' /\ Session
  <2>1. PICK j : j = timer_del(conn[c], "r")
    OBVIOUS
  <2>2. /\ j \in Connection /\ j.used = conn[c].used
        /\ j.data = conn[c].data /\ j.sslh = conn[c].sslh
    BY <1>2, <2>1, TimerDel DEF Dir
  <2>3. PICK k : k = [j EXCEPT !.h = Both("tunnel_local_start", "NULL")]
    OBVIOUS
  <2>4. /\ k.used = conn[c].used /\ k.data = conn[c].data
        /\ k.h = Both("tunnel_local_start", "NULL")
        /\ k.sslh = conn[c].sslh
    BY <2>2, <2>3 DEF Connection
  <2>5. Solo(c, k, "NULL")
    BY <1>3, <2>1, <2>3, <2>4, PlainNames DEF Solo, SetConn, Call, Both, Dir
  <2> QED BY <1>3, <2>5, PlainStep, TunStays
<1> QED
  BY <1>1, <1>2, <1>3, CloseStep DEF tunnel_local_handshake_handler

(* tunnel_local_start: the client has been greeted.                        *)
LEMMA LocalStartStep ==
  ASSUME IInv, Ways, tunnel_local_start
  PROVE  Ways' /\ Session
<1>0. cur.h \in GreetHandlers
  BY DEF tunnel_local_start, In, GreetHandlers
<1>1. PICK c \in Conn : c = C
  BY <1>0, AtGreet
<1>2. /\ conn[c] \in Connection /\ conn[c].used /\ conn[c].data = Null
  BY <1>0, <1>1, AtGreet
<1>3. PICK g \in Plain : g = IF Mode = "client" THEN "tunnel_remote_init"
                             ELSE "tunnel_local_process_request"
  BY PlainNames
<1>4. ASSUME NEW t \in Tun, ~tun[t].used,
             tun' = [tun EXCEPT ![t].used = TRUE, ![t].down = c,
                                ![t].req = (Mode # "client")],
             SetConn(c, event_opt([timer_del(conn[c], "r") EXCEPT
                      !.data = t, !.h = [r |-> g, w |-> "NULL"]], "r")),
             Call(g, c)
      PROVE  Ways' /\ Session
  <2>1. PICK j : j = timer_del(conn[c], "r")
    OBVIOUS
  <2>2. j \in Connection /\ j.used /\ j.sslh = conn[c].sslh
    BY <1>2, <2>1, TimerDel DEF Dir
  <2>3. PICK i : i = [j EXCEPT !.data = t, !.h = Both(g, "NULL")]
    OBVIOUS
  <2>4. Both(g, "NULL") \in [Dir -> Handlers \cup {"NULL"}]
    BY <1>3, BothTypes DEF Plain
  <2>5. /\ i \in Connection /\ i.used /\ i.data = t
        /\ i.h = Both(g, "NULL") /\ i.sslh = conn[c].sslh
    BY <2>2, <2>3, <2>4 DEF Connection
  <2>6. PICK k : k = event_opt(i, "r")
    OBVIOUS
  <2>7. /\ k.used /\ k.data = t /\ k.h = Both(g, "NULL")
        /\ k.sslh = conn[c].sslh
    BY <2>5, <2>6, EventOpt DEF Dir
  <2>8. conn' = [conn EXCEPT ![c] = k]
    BY <1>4, <2>1, <2>3, <2>6 DEF SetConn, Both
  <2>9. conn'[c] = k /\ \A x \in Conn \ {c} : conn'[x] = conn[x]
    BY <2>8 DEF IInv, TypeOK
  <2>10. tun[t] = FreeTun /\ t # Null
    BY <1>4, NameAssumption DEF IInv, Ownership
  <2>11. /\ tun'[t].used /\ tun'[t].down = c /\ tun'[t].up = Null
         /\ ~tun'[t].relay /\ ~tun'[t].resp
         /\ \A y \in Tun \ {t} : tun'[y] = tun[y]
    BY <1>4, <2>10, FreeFacts, FreeTypes DEF IInv, TypeOK, Tunnel
  <2>12. \A y \in Tun : OneWay(tun'[y])
    BY <2>11 DEF Ways, OneWay
  <2>13. Leaves(c, g)
    <3>1. \A y : Settled(y)
      BY <1>4, <2>11 DEF Settled
    <3>2. \A d \in Dir : k.h[d] \in Plain
      BY <1>3, <2>7, PlainNames DEF Both, Dir
    <3>3. cur'.h \in Plain
      BY <1>3, <1>4 DEF Call
    <3> QED BY <2>7, <2>9, <3>1, <3>2, <3>3 DEF Leaves
  <2>14. Ways'
    BY <1>3, <2>12, <2>13, PlainWay, WaysFrame
  <2>15. \A x \in Conn \ {c} : phase'[x] = phase[x] /\ peer'[x] = peer[x]
    <3>1. \A x \in Conn : conn[x].data # t /\ conn[x].data \in Tun \cup {Null}
      BY <1>4, <2>10 DEF IInv, Ownership, TypeOK, Connection
    <3> QED BY <2>9, <2>11, <3>1 DEF phase, peer, Phase, Peer
  <2>16. /\ phase[c] = "greet" /\ phase'[c] = "request"
         /\ peer[c] = Null /\ peer'[c] = Null
    BY <1>2, <2>7, <2>9, <2>10, <2>11, NameAssumption
       DEF phase, peer, Phase, Peer
  <2>17. Service!Greeted(c)
    BY <2>15, <2>16 DEF Service!Greeted, Service!Move, phase, peer
  <2> QED BY <2>14, <2>17 DEF Session, Service!Next
<1> QED
  BY <1>1, <1>2, <1>3, <1>4, CloseStep DEF tunnel_local_start

-----------------------------------------------------------------------------
(* The request, which decides on the way.                                  *)

(* A step of a tunnel without an upstream, or one that only learns what    *)
(* body there is and how much of it was received, changes no way.          *)
LEMMA RequestRead ==
  ASSUME IInv, Ways, NEW t \in Tun, tun[t].used, NEW z,
         tun' = [tun EXCEPT ![t] = z],
         z.down = tun[t].down, z.up = tun[t].up,
         z.relay = tun[t].relay, z.resp = tun[t].resp,
         tun[t].up = Null \/ z.https = tun[t].https
  PROVE  SameWay /\ SameTunnels
<1>1. tun'[t] = z /\ \A y \in Tun \ {t} : tun'[y] = tun[y]
  BY DEF IInv, TypeOK
<1>2. OneWay(z)
  BY DEF Ways, OneWay
<1> QED
  BY <1>1, <1>2, NameAssumption DEF Ways, SameWay, Settled, SameTunnels

(* Arming a timer of the tunnel and returning.                             *)
LEMMA AwaitStep ==
  ASSUME IInv, Ways, NEW c \in Conn, NEW d \in Dir, T \in Tun, Await(c, d)
  PROVE  Ways' /\ Session
<1>1. PICK k : k = timer_add(conn[c], d, T)
  OBVIOUS
<1>2. conn[c] \in Connection /\ T \in Timer
  BY DEF IInv, TypeOK, Timer
<1>3. /\ k.used = conn[c].used /\ k.data = conn[c].data
      /\ k.h = conn[c].h /\ k.sslh = conn[c].sslh
      /\ k.t = [conn[c].t EXCEPT ![d] = T]
  BY <1>1, <1>2, TimerAdd
<1>4. Solo(c, k, "NULL")
  BY <1>1, <1>3 DEF Await, SetConn, Solo
<1> QED
  BY <1>4, TunStays, PlainStep DEF Await

(* A timer of the connection is deleted and a plain handler is next.       *)
LEMMA NextPlain ==
  ASSUME IInv, Ways, SameWay, SameTunnels, NEW c \in Conn, NEW d \in Dir,
         NEW j, j = conn[c] \/ j = timer_del(conn[c], d),
         NEW g \in Plain, NEW e \in Dir, SetConn(c, [j EXCEPT !.h[e] = g]),
         Call(g, c)
  PROVE  Ways' /\ Session
<1>1. conn[c] \in Connection
  BY DEF IInv, TypeOK
<1>2. /\ j \in Connection /\ j.used = conn[c].used
      /\ j.data = conn[c].data /\ j.h = conn[c].h /\ j.sslh = conn[c].sslh
  <2>1. CASE j = conn[c]
    BY <1>1, <2>1
  <2>2. CASE j = timer_del(conn[c], d)
    BY <1>1, <2>2, TimerDel
  <2> QED BY <2>1, <2>2
<1>3. PICK k : k = [j EXCEPT !.h[e] = g]
  OBVIOUS
<1>4. /\ k.used = j.used /\ k.data = j.data /\ k.sslh = j.sslh
      /\ k.h = [j.h EXCEPT ![e] = g]
  BY <1>2, <1>3 DEF Connection
<1>5. \A y \in Dir : k.h[y] \in Plain \cup {"NULL", conn[c].h[y]}
  BY <1>2, <1>4 DEF Connection
<1>6. Solo(c, k, "NULL")
  BY <1>2, <1>3, <1>4, <1>5 DEF Solo, SetConn, Call
<1> QED
  BY <1>6, PlainStep

(* tunnel_local_process_request.                                           *)
LEMMA ProcessRequestStep ==
  ASSUME IInv, Ways, tunnel_local_process_request
  PROVE  Ways' /\ Session
<1>0. cur.h = "tunnel_local_process_request" /\ cur.h \in DownHandlers
  BY DEF tunnel_local_process_request, In, DownHandlers
<1>1. PICK c \in Conn, t \in Tun : c = C /\ t = T
  BY <1>0, AtDown
<1>2. tun[t].used /\ tun[t].up = Null /\ tun[t] \in Tunnel
  BY <1>0, <1>1, AtDown DEF Needs
<1>3. ASSUME NEW https \in BOOLEAN, NEW keep \in BOOLEAN, NEW body \in BOOLEAN,
             tun' = [tun EXCEPT ![t].https = https, ![t].keep = keep,
                                ![t].body = body],
             SetConn(c, [timer_del(conn[c], "r") EXCEPT
                 !.h["r"] = "tunnel_local_process_procotol"]),
             Call("tunnel_local_process_procotol", c)
      PROVE  Ways' /\ Session
  <2>1. PICK z : z = [tun[t] EXCEPT !.https = https, !.keep = keep,
                                    !.body = body]
    OBVIOUS
  <2>2. /\ z.down = tun[t].down /\ z.up = tun[t].up
        /\ z.relay = tun[t].relay /\ z.resp = tun[t].resp
    BY <1>2, <2>1 DEF Tunnel
  <2>3. tun' = [tun EXCEPT ![t] = z]
    BY <1>3, <2>1 DEF IInv, TypeOK
  <2>4. SameWay /\ SameTunnels
    BY <1>2, <2>2, <2>3, RequestRead
  <2>5. PICK j : j = timer_del(conn[c], "r")
    OBVIOUS
  <2>6. PICK g \in Plain : g = "tunnel_local_process_procotol"
    BY PlainNames
  <2>7. SetConn(c, [j EXCEPT !.h["r"] = g]) /\ Call(g, c) /\ "r" \in Dir
    BY <1>3, <2>5, <2>6 DEF Dir
  <2> QED BY <2>4, <2>5, <2>7, NextPlain
<1>4. CASE tunnel_over(T)
  BY <1>1, <1>4, OverStep
<1>5. CASE Await(C, "r")
  BY <1>1, <1>5, AwaitStep DEF Dir
<1> QED
  BY <1>1, <1>3, <1>4, <1>5 DEF tunnel_local_process_request

(* tunnel_local_process_procotol.                                          *)
LEMMA ProcessProcotolStep ==
  ASSUME IInv, Ways, tunnel_local_process_procotol
  PROVE  Ways' /\ Session
<1>0. cur.h = "tunnel_local_process_procotol" /\ cur.h \in DownHandlers
  BY DEF tunnel_local_process_procotol, In, DownHandlers
<1>1. PICK c \in Conn, t \in Tun : c = C /\ t = T
  BY <1>0, AtDown
<1>2. tun[t].used /\ tun[t] \in Tunnel
  BY <1>0, <1>1, AtDown
<1>3. PICK w \in BOOLEAN : w = (~tun[t].https /\ tun[t].body)
  OBVIOUS
<1>4. PICK g \in Plain : g = IF w THEN "tunnel_local_process_body"
                                  ELSE "tunnel_remote_init"
  BY PlainNames
<1>5. CASE tunnel_over(T)
  BY <1>1, <1>5, OverStep
<1>6. CASE /\ tun' = [tun EXCEPT ![t].reqBody = @ \/ w]
           /\ SetConn(c, [conn[c] EXCEPT !.h["r"] = g])
           /\ Call(g, c)
  <2>1. PICK z : z = [tun[t] EXCEPT !.reqBody = @ \/ w]
    OBVIOUS
  <2>2. /\ z.down = tun[t].down /\ z.up = tun[t].up
        /\ z.relay = tun[t].relay /\ z.resp = tun[t].resp
        /\ z.https = tun[t].https
    BY <1>2, <2>1 DEF Tunnel
  <2>3. tun' = [tun EXCEPT ![t] = z]
    BY <1>6, <2>1
  <2>4. SameWay /\ SameTunnels
    BY <1>2, <2>2, <2>3, RequestRead
  <2>5. PICK j : j = conn[c]
    OBVIOUS
  <2>6. SetConn(c, [j EXCEPT !.h["r"] = g]) /\ Call(g, c) /\ "r" \in Dir
    BY <1>6, <2>5 DEF Dir
  <2> QED BY <2>4, <2>5, <2>6, NextPlain
<1> QED
  BY <1>0, <1>1, <1>3, <1>4, <1>5, <1>6 DEF tunnel_local_process_procotol

(* tunnel_local_process_body.                                              *)
LEMMA ProcessBodyStep ==
  ASSUME IInv, Ways, tunnel_local_process_body
  PROVE  Ways' /\ Session
<1>0. cur.h = "tunnel_local_process_body" /\ cur.h \in DownHandlers
  BY DEF tunnel_local_process_body, In, DownHandlers
<1>1. PICK c \in Conn, t \in Tun : c = C /\ t = T
  BY <1>0, AtDown
<1>2. CASE tunnel_over(T)
  BY <1>1, <1>2, OverStep
<1>3. CASE Await(C, "r")
  BY <1>1, <1>3, AwaitStep DEF Dir
<1>4. CASE /\ SetConn(c, [timer_del(conn[c], "r") EXCEPT
                            !.h["r"] = "tunnel_remote_init"])
           /\ tun' = tun /\ Call("tunnel_remote_init", c)
  <2>1. PICK j : j = timer_del(conn[c], "r")
    OBVIOUS
  <2>2. PICK g \in Plain : g = "tunnel_remote_init"
    BY PlainNames
  <2>3. SetConn(c, [j EXCEPT !.h["r"] = g]) /\ Call(g, c) /\ "r" \in Dir
    BY <1>4, <2>1, <2>2 DEF Dir
  <2> QED BY <1>4, <2>1, <2>3, TunStays, NextPlain
<1> QED
  BY <1>1, <1>2, <1>3, <1>4 DEF tunnel_local_process_body

-----------------------------------------------------------------------------
(* The upstream connection.                                                *)

(* A handler that changes both connections of a tunnel.                    *)
Fits(c, k, g) ==
  /\ k.used = conn[c].used /\ k.data = conn[c].data
  /\ \A d \in Dir : k.h[d] \in Plain \cup {g, conn[c].h[d]}
  /\ \/ Mode = "client"
     \/ k.sslh \in {conn[c].sslh, "NULL", "tunnel_local_handshake_handler"}
Pair(c, k, e, j, g) ==
  /\ c \in Conn /\ e \in Conn /\ c # e
  /\ conn' = [conn EXCEPT ![c] = k, ![e] = j]
  /\ Fits(c, k, "NULL") /\ Fits(e, j, g)
  /\ cur' = Return \/ cur'.h \in Plain \/ cur' = [h |-> g, c |-> e]

(* What it leaves, and that it keeps whose the connections are.            *)
LEMMA PairLeaves ==
  ASSUME IInv, SameWay, NEW c, NEW k, NEW e, NEW j, NEW g,
         Pair(c, k, e, j, g)
  PROVE  Leaves(e, g) /\ \A x \in Conn : ConnKept(x)
<1>1. /\ conn'[c] = k /\ conn'[e] = j /\ c \in Conn /\ e \in Conn
      /\ \A x \in Conn \ {c, e} : conn'[x] = conn[x]
  BY DEF Pair, IInv, TypeOK
<1>2. \A t : Settled(t)
  BY DEF SameWay, Settled
<1>3. Fits(c, k, "NULL") /\ Fits(e, j, g) /\ "NULL" \in Plain
  BY FreeFacts DEF Pair
<1>4. \A x \in Conn : ConnKept(x)
  BY <1>1, <1>3 DEF Fits, ConnKept
<1>5. ASSUME NEW x \in Conn, NEW d \in Dir
      PROVE  \/ conn'[x].h[d] \in Plain
             \/ x = e /\ conn'[x].h[d] = g
             \/ /\ conn'[x].h[d] = conn[x].h[d]
                /\ conn'[x].data = conn[x].data
                /\ Settled(conn[x].data)
  <2>1. CASE x = c
    BY <1>1, <1>2, <1>3, <2>1 DEF Fits
  <2>2. CASE x = e
    BY <1>1, <1>2, <1>3, <2>2 DEF Fits
  <2>3. CASE x \notin {c, e}
    BY <1>1, <1>2, <2>3
  <2> QED BY <2>1, <2>2, <2>3
<1>6. ASSUME NEW x \in Conn
      PROVE  \/ Mode = "client"
             \/ conn'[x].sslh \in {conn[x].sslh, "NULL",
                                   "tunnel_local_handshake_handler"}
  <2>1. CASE x = c
    BY <1>1, <1>3, <2>1 DEF Fits
  <2>2. CASE x = e
    BY <1>1, <1>3, <2>2 DEF Fits
  <2>3. CASE x \notin {c, e}
    BY <1>1, <2>3
  <2> QED BY <2>1, <2>2, <2>3
<1>7. cur' = Return \/ cur'.h \in Plain \/ cur' = [h |-> g, c |-> e]
  BY DEF Pair
<1> QED BY <1>4, <1>5, <1>6, <1>7 DEF Leaves

(* It keeps Ways and is not seen, when the tunnel did not come further.    *)
LEMMA PairStep ==
  ASSUME IInv, Ways, SameWay, SameTunnels, NEW c, NEW k, NEW e, NEW j,
         NEW g, Way(g, e)', Pair(c, k, e, j, g)
  PROVE  Ways' /\ Session
<1>1. Leaves(e, g) /\ \A x \in Conn : ConnKept(x)
  BY PairLeaves
<1>2. Ways'
  BY <1>1, WaysFrame DEF SameWay
<1> QED BY <1>1, <1>2, Unseen DEF Session

(* Where the client of a connected tunnel is, and a step that lets its     *)
(* tunnel t become z.                                                      *)
Stage(z) == IF z.relay THEN "relay" ELSE IF z.resp THEN "respond"
            ELSE "connect"
Further(t, c, z) ==
  /\ \A x \in Conn : ConnKept(x)
  /\ t \in Tun /\ tun[t].used /\ tun[t].up \in Conn /\ c = tun[t].down
  /\ tun' = [tun EXCEPT ![t] = z]
  /\ z.down = tun[t].down /\ z.up = tun[t].up

(* Only that client is seen to move.                                       *)
LEMMA StageSeen ==
  ASSUME IInv, NEW t, NEW c, NEW z, Further(t, c, z)
  PROVE  /\ c \in Conn /\ peer' = peer
         /\ phase[c] = Stage(tun[t])
         /\ phase' = [phase EXCEPT ![c] = Stage(z)]
<1> USE DEF Further
<1>1. /\ c \in Conn /\ conn[c].used /\ conn[c].data = t /\ tun[t].up # c
      /\ t \in Tun
      /\ \A x \in Conn : conn[x].data = t <=> x \in {c, tun[t].up}
  BY Owned, NameAssumption DEF IInv, Ownership
<1>2. tun'[t] = z /\ \A y \in Tun \ {t} : tun'[y] = tun[y]
  BY DEF IInv, TypeOK
<1>3. phase[c] = Stage(tun[t]) /\ phase'[c] = Stage(z)
  BY <1>1, <1>2, NameAssumption, SMTT(60) DEF phase, Phase, Stage, ConnKept
<1>4. ASSUME NEW x \in Conn, x # c PROVE phase'[x] = phase[x]
  <2>1. CASE x = tun[t].up
    <3>1. conn[x].data = t /\ conn[x].used
      BY <1>1, <2>1, NameAssumption DEF IInv, Ownership
    <3>2. conn'[x].data = t /\ conn'[x].used
      BY <3>1 DEF ConnKept
    <3> QED BY <1>2, <2>1, <3>1, <3>2, NameAssumption, SMTT(60) DEF phase, Phase
  <2>2. CASE conn[x].data # t
    <3>1. conn[x].data \in (Tun \ {t}) \cup {Null}
      BY <2>2 DEF IInv, TypeOK, Connection
    <3> QED BY <1>2, <3>1 DEF phase, Phase, ConnKept
  <2> QED BY <1>1, <1>4, <2>1, <2>2
<1>5. ASSUME NEW x \in Conn PROVE peer'[x] = peer[x]
  <2>1. conn[x].data \in Tun \cup {Null}
    BY DEF IInv, TypeOK, Connection
  <2> QED BY <1>2, <2>1 DEF peer, Peer, ConnKept
<1>6. phase' = [phase EXCEPT ![c] = Stage(z)]
  BY <1>3, <1>4 DEF phase
<1>7. peer' = peer
  BY <1>5 DEF peer
<1> QED BY <1>1, <1>3, <1>6, <1>7

(* tunnel_remote_connect_start.                                            *)
LEMMA ConnectStartStep ==
  ASSUME IInv, Ways, tunnel_remote_connect_start
  PROVE  Ways' /\ Session
<1>0. cur.h = "tunnel_remote_connect_start" /\ cur.h \in UpHandlers
  BY DEF tunnel_remote_connect_start, In, UpHandlers
<1>1. PICK c \in Conn, t \in Tun : c = C /\ t = T
  BY <1>0, AtUp
<1>2. conn[c] \in Connection
  BY <1>0, <1>1, AtUp
<1>3. PICK g \in Plain : g = "tunnel_remote_connect_check"
                           /\ g \in Handlers
  BY PlainNames DEF Handlers, UpHandlers
<1>4. PICK i : i = [conn[c] EXCEPT !.h["w"] = g]
  OBVIOUS
<1>5. /\ i \in Connection /\ i.used = conn[c].used
      /\ i.data = conn[c].data /\ i.h = [conn[c].h EXCEPT !["w"] = g]
      /\ i.sslh = conn[c].sslh
  BY <1>2, <1>3, <1>4 DEF Connection
<1>6. PICK k : k = event_opt(i, "w")
  OBVIOUS
<1>7. /\ k \in Connection /\ k.used = conn[c].used
      /\ k.data = conn[c].data /\ k.h = [conn[c].h EXCEPT !["w"] = g]
      /\ k.sslh = conn[c].sslh
  BY <1>5, <1>6, EventOpt DEF Dir
<1>8. \A d \in Dir : k.h[d] \in Plain \cup {"NULL", conn[c].h[d]}
  BY <1>2, <1>7 DEF Connection
<1>9. CASE tunnel_over(T)
  BY <1>1, <1>9, OverStep
<1>10. CASE /\ SetConn(c, timer_add(k, "w", t)) /\ tun' = tun
            /\ cur' = Return
  <2>1. PICK j : j = timer_add(k, "w", t)
    OBVIOUS
  <2>2. t \in Timer /\ "w" \in Dir
    BY DEF Timer, Dir
  <2>3. /\ j.used = k.used /\ j.data = k.data /\ j.h = k.h
        /\ j.sslh = k.sslh
    BY <1>7, <2>1, <2>2, TimerAdd, ZenonT(60)
  <2>4. Solo(c, j, "NULL")
    BY <1>7, <1>8, <1>10, <2>1, <2>3 DEF Solo, SetConn
  <2> QED BY <1>10, <2>4, TunStays, PlainStep
<1>11. CASE /\ SetConn(c, k) /\ tun' = tun /\ Call(g, c)
  <2>1. Solo(c, k, "NULL")
    BY <1>7, <1>8, <1>11 DEF Solo, SetConn, Call
  <2> QED BY <1>11, <2>1, TunStays, PlainStep
<1> QED
  BY <1>0, <1>1, <1>3, <1>4, <1>6, <1>9, <1>10, <1>11
     DEF tunnel_remote_connect_start

(* tunnel_remote_connect_check.                                            *)
LEMMA ConnectCheckStep ==
  ASSUME IInv, Ways, tunnel_remote_connect_check
  PROVE  Ways' /\ Session
<1>0. cur.h = "tunnel_remote_connect_check" /\ cur.h \in UpHandlers
  BY DEF tunnel_remote_connect_check, In, UpHandlers
<1>1. PICK c \in Conn, t \in Tun : c = C /\ t = T
  BY <1>0, AtUp
<1>2. conn[c] \in Connection /\ conn[c].used
  BY <1>0, <1>1, AtUp
<1>3. PICK j : j = timer_del(conn[c], "w")
  OBVIOUS
<1>4. /\ j \in Connection /\ j.used = conn[c].used
      /\ j.data = conn[c].data /\ j.h = conn[c].h /\ j.sslh = conn[c].sslh
  BY <1>2, <1>3, TimerDel DEF Dir
<1>5. CASE tunnel_over(T)
  BY <1>1, <1>5, OverStep
<1>6. CASE /\ SetConn(c, [j EXCEPT !.h["w"] = "tunnel_start"])
           /\ tun' = tun /\ Call("tunnel_start", c)
  <2>1. PICK g \in Plain : g = "tunnel_start"
    BY PlainNames
  <2>2. SetConn(c, [j EXCEPT !.h["w"] = g]) /\ Call(g, c) /\ "w" \in Dir
    BY <1>6, <2>1 DEF Dir
  <2> QED BY <1>3, <1>6, <2>2, TunStays, NextPlain
<1>7. ASSUME NEW d \in Dir, Mode = "client",
             SetConn(c, [timer_add(ssl_want(j, d), "w", t) EXCEPT
                 !.ssl = "init", !.sslh = "tunnel_remote_handshake_handler"]),
             tun' = tun, cur' = Return
      PROVE  Ways' /\ Session
  <2>1. PICK k : k = Wanting(j, d, "w", t, "tunnel_remote_handshake_handler")
    OBVIOUS
  <2>2. t \in Timer /\ "w" \in Dir
    BY DEF Timer, Dir
  <2>3. /\ k.used = j.used /\ k.data = j.data
        /\ k.t = [j.t EXCEPT !["w"] = t]
        /\ \A y \in Dir : k.h[y] \in {"NULL", "ssl_handshake_handler"}
    BY <1>4, <2>1, <2>2, Wants
  <2>4. Solo(c, k, "NULL")
    BY <1>4, <1>7, <2>1, <2>3, PlainNames DEF Solo, SetConn, Wanting
  <2> QED BY <1>7, <2>4, TunStays, PlainStep
<1>8. CASE /\ Mode = "client" /\ SetConn(c, [j EXCEPT !.ssl = "handshaked"])
           /\ tun' = tun /\ Call("tunnel_remote_handshake_handler", c)
  <2>1. PICK k : k = [j EXCEPT !.ssl = "handshaked"]
    OBVIOUS
  <2>2. /\ k.used = conn[c].used /\ k.data = conn[c].data
        /\ k.h = conn[c].h /\ k.sslh = conn[c].sslh
    BY <1>4, <2>1 DEF Connection
  <2>3. PICK g : g = "tunnel_remote_handshake_handler"
    OBVIOUS
  <2>4. Way(g, c)'
    BY <1>8, <2>3 DEF Way
  <2>5. Solo(c, k, g)
    BY <1>8, <2>1, <2>2, <2>3 DEF Solo, SetConn, Call
  <2> QED BY <1>8, <2>4, <2>5, TunStays, SoloStep
<1> QED
  BY <1>0, <1>1, <1>3, <1>5, <1>6, <1>7, <1>8 DEF tunnel_remote_connect_check

(* tunnel_remote_handshake_handler, which client mode alone calls.         *)
LEMMA RemoteHandshakeStep ==
  ASSUME IInv, Ways, tunnel_remote_handshake_handler
  PROVE  Ways' /\ Session
<1>0. cur.h = "tunnel_remote_handshake_handler" /\ cur.h \in UpHandlers
  BY DEF tunnel_remote_handshake_handler, In, UpHandlers
<1>1. PICK c \in Conn, t \in Tun : c = C /\ t = T
  BY <1>0, AtUp
<1>2. conn[c] \in Connection /\ Mode = "client"
  BY <1>0, <1>1, AtUp DEF Ways, Way, Idle
<1>3. CASE tunnel_over(T)
  BY <1>1, <1>3, OverStep
<1>4. CASE /\ SetConn(c, [timer_del(conn[c], "w") EXCEPT
                            !.h = Both("NULL", "https_start")])
           /\ tun' = tun /\ Call("https_start", c)
  <2>1. PICK j : j = timer_del(conn[c], "w")
    OBVIOUS
  <2>2. /\ j \in Connection /\ j.used = conn[c].used
        /\ j.data = conn[c].data /\ j.sslh = conn[c].sslh
    BY <1>2, <2>1, TimerDel DEF Dir
  <2>3. PICK g : g = "https_start"
    OBVIOUS
  <2>4. PICK k : k = [j EXCEPT !.h = Both("NULL", g)]
    OBVIOUS
  <2>5. /\ k.used = conn[c].used /\ k.data = conn[c].data
        /\ k.h = Both("NULL", g) /\ k.sslh = conn[c].sslh
    BY <2>2, <2>4 DEF Connection
  <2>6. Way(g, c)'
    BY <1>2, <2>3 DEF Way, Relayed
  <2>7. Solo(c, k, g)
    BY <1>4, <2>1, <2>3, <2>4, <2>5, FreeFacts
       DEF Solo, SetConn, Call, Both, Dir
  <2> QED BY <1>4, <2>6, <2>7, TunStays, SoloStep
<1> QED
  BY <1>1, <1>3, <1>4 DEF tunnel_remote_handshake_handler, Both

(* tunnel_start begins one of the two ways.                                *)
LEMMA StartStep ==
  ASSUME IInv, Ways, tunnel_start
  PROVE  Ways' /\ Session
<1>0. cur.h = "tunnel_start" /\ cur.h \in UpHandlers
  BY DEF tunnel_start, In, UpHandlers
<1>1. PICK u \in Conn, t \in Tun, c \in Conn :
        u = C /\ t = T /\ c = tun[t].down
  BY <1>0, AtUp, Owned
<1>2. tun[t].up = u /\ tun[t].used /\ tun[t].req /\ tun' = tun
  BY <1>0, <1>1, AtUp DEF Needs, tunnel_start, T, C
<1>3. /\ c # u
      /\ conn[c] \in Connection /\ conn[c].used /\ conn[c].data = t
      /\ conn[u] \in Connection /\ conn[u].used /\ conn[u].data = t
      /\ conn \in [Conn -> Connection] /\ Mode # "client"
  BY <1>1, <1>2, BothSides DEF IInv, RequestHeads
<1>4. CASE /\ ~tun[t].https
           /\ conn' = [conn EXCEPT
                  ![c].h = [d \in Dir |-> "NULL"],
                  ![u].h = Both("NULL", "http_remote_send")]
           /\ Call("http_remote_send", u)
  <2>1. PICK g : g = "http_remote_send"
    OBVIOUS
  <2>2. PICK k : k = [conn[c] EXCEPT !.h = [d \in Dir |-> "NULL"]]
    OBVIOUS
  <2>3. PICK j : j = [conn[u] EXCEPT !.h = Both("NULL", g)]
    OBVIOUS
  <2>4. conn' = [conn EXCEPT ![c] = k, ![u] = j]
    BY <1>3, <1>4, <2>1, <2>2, <2>3
  <2>5. /\ k.used = conn[c].used /\ k.data = conn[c].data
        /\ k.sslh = conn[c].sslh /\ \A d \in Dir : k.h[d] = "NULL"
    BY <1>3, <2>2, Silenced
  <2>6. /\ j.used = conn[u].used /\ j.data = conn[u].data
        /\ j.sslh = conn[u].sslh /\ j.h = Both("NULL", g)
    BY <1>3, <2>3 DEF Connection
  <2>7. Fits(c, k, "NULL")
    BY <2>5 DEF Fits
  <2>8. Fits(u, j, g)
    BY <2>6, FreeFacts DEF Fits, Both, Dir
  <2>9. conn'[u] = j
    BY <1>3, <2>4
  <2>10. Way(g, u)'
    BY <1>2, <1>3, <1>4, <2>1, <2>6, <2>9 DEF Way, Relayed
  <2>11. cur' = [h |-> g, c |-> u]
    BY <1>4, <2>1 DEF Call
  <2>12. Pair(c, k, u, j, g)
    BY <1>3, <2>4, <2>7, <2>8, <2>11 DEF Pair
  <2> QED BY <1>2, <2>10, <2>12, TunStays, PairStep
<1>5. CASE /\ tun[t].https
           /\ conn' = [conn EXCEPT
                  ![c] = event_opt([@ EXCEPT !.h["w"] = "https_connected"],
                                   "w"),
                  ![u].h = [d \in Dir |-> "NULL"]]
           /\ Call("https_connected", c)
  <2>1. PICK g \in Handlers : g = "https_connected"
    BY DEF Handlers, DownHandlers
  <2>2. PICK i : i = [conn[c] EXCEPT !.h["w"] = g]
    OBVIOUS
  <2>3. /\ i \in Connection /\ i.used = conn[c].used
        /\ i.data = conn[c].data /\ i.sslh = conn[c].sslh
        /\ i.h = [conn[c].h EXCEPT !["w"] = g]
    BY <1>3, <2>2 DEF Connection
  <2>4. PICK k : k = event_opt(i, "w")
    OBVIOUS
  <2>5. /\ k.used = i.used /\ k.data = i.data /\ k.h = i.h
        /\ k.sslh = i.sslh
    BY <2>3, <2>4, EventOpt DEF Dir
  <2>6. PICK j : j = [conn[u] EXCEPT !.h = [d \in Dir |-> "NULL"]]
    OBVIOUS
  <2>7. /\ j.used = conn[u].used /\ j.data = conn[u].data
        /\ j.sslh = conn[u].sslh /\ \A d \in Dir : j.h[d] = "NULL"
    BY <1>3, <2>6, Silenced
  <2>8. conn' = [conn EXCEPT ![u] = j, ![c] = k]
    BY <1>3, <1>5, <2>1, <2>2, <2>4, <2>6
  <2>9. \A d \in Dir : k.h[d] \in {conn[c].h[d], g}
    BY <1>3, <2>3, <2>5 DEF Connection
  <2>10. Fits(c, k, g) /\ Fits(u, j, "NULL")
    BY <2>3, <2>5, <2>7, <2>9 DEF Fits
  <2>11. conn'[c] = k
    BY <1>3, <2>8
  <2>12. Way(g, c)'
    BY <1>2, <1>3, <1>5, <2>1, <2>3, <2>5, <2>11 DEF Way, Relayed
  <2>13. cur' = [h |-> g, c |-> c]
    BY <1>5, <2>1 DEF Call
  <2>14. Pair(u, j, c, k, g)
    BY <1>3, <2>8, <2>10, <2>13 DEF Pair
  <2> QED BY <1>2, <2>12, <2>14, TunStays, PairStep
<1> QED
  BY <1>0, <1>1, <1>4, <1>5 DEF tunnel_start, Both

-----------------------------------------------------------------------------
(* CONNECT.                                                                *)

(* https_connected.                                                        *)
LEMMA HttpsConnectedStep ==
  ASSUME IInv, Ways, https_connected
  PROVE  Ways' /\ Session
<1>0. cur.h = "https_connected" /\ cur.h \in DownHandlers
  BY DEF https_connected, In, DownHandlers
<1>1. PICK c \in Conn, t \in Tun : c = C /\ t = T
  BY <1>0, AtDown
<1>2. /\ conn[c] \in Connection /\ conn[c].data = t /\ cur # Return
      /\ Way("https_connected", c)
  BY <1>0, <1>1, AtDown DEF Ways, Idle, C
<1>3. Relayed(t)
  BY <1>2 DEF Way
<1>4. CASE tunnel_over(T)
  BY <1>1, <1>4, OverStep
<1>5. CASE Await(C, "w")
  BY <1>1, <1>5, AwaitStep DEF Dir
<1>6. CASE /\ SetConn(c, [timer_del(conn[c], "w") EXCEPT
                            !.h["r"] = "https_start"])
           /\ tun' = tun /\ Call("https_start", c)
  <2>1. PICK j : j = timer_del(conn[c], "w")
    OBVIOUS
  <2>2. /\ j \in Connection /\ j.used = conn[c].used
        /\ j.data = t /\ j.h = conn[c].h /\ j.sslh = conn[c].sslh
    BY <1>2, <2>1, TimerDel DEF Dir
  <2>3. PICK g : g = "https_start"
    OBVIOUS
  <2>4. PICK k : k = [j EXCEPT !.h["r"] = g]
    OBVIOUS
  <2>5. /\ k.used = conn[c].used /\ k.data = conn[c].data
        /\ k.h = [conn[c].h EXCEPT !["r"] = g] /\ k.sslh = conn[c].sslh
    BY <1>2, <2>2, <2>4 DEF Connection
  <2>6. \A d \in Dir : k.h[d] \in Plain \cup {g, conn[c].h[d]}
    BY <1>2, <2>5 DEF Connection
  <2>7. conn'[c] = k
    BY <1>6, <2>1, <2>3, <2>4 DEF SetConn, IInv, TypeOK
  <2>8. Way(g, c)'
    BY <1>2, <1>3, <1>6, <2>3, <2>5, <2>7 DEF Way, Relayed
  <2>9. Solo(c, k, g)
    BY <1>6, <2>1, <2>3, <2>4, <2>5, <2>6 DEF Solo, SetConn, Call
  <2> QED BY <1>6, <2>8, <2>9, TunStays, SoloStep
<1> QED
  BY <1>1, <1>4, <1>5, <1>6 DEF https_connected

(* A tunnel becomes z, which came further on the way of the old one.       *)
LEMMA FurtherWay ==
  ASSUME IInv, Ways, NEW t \in Tun, NEW z,
         tun' = [tun EXCEPT ![t] = z], z.https = tun[t].https, OneWay(z)
  PROVE  SameWay
<1>1. tun'[t] = z /\ \A y \in Tun \ {t} : tun'[y] = tun[y]
  BY DEF IInv, TypeOK
<1> QED BY <1>1 DEF Ways, SameWay, Settled

(* https_start, the relay of Sessions.                                     *)
LEMMA HttpsStartStep ==
  ASSUME IInv, Ways, https_start
  PROVE  Ways' /\ Session
<1>0. cur.h = "https_start" /\ cur # Return
  BY DEF https_start, In, Return
<1>1. PICK t \in Tun : t = T /\ tun[t].used /\ tun[t].up \in Conn
  BY <1>0, AtWork, NameAssumption DEF Needs, T, C
<1>2. PICK c \in Conn, u \in Conn : c = tun[t].down /\ u = tun[t].up
  BY <1>1, Owned
<1>3. /\ c # u
      /\ conn[c] \in Connection /\ conn[c].used /\ conn[c].data = t
      /\ conn[u] \in Connection /\ conn[u].used /\ conn[u].data = t
      /\ conn \in [Conn -> Connection]
  BY <1>1, <1>2, BothSides
<1>4. Relayed(t)
  BY <1>0, <1>1 DEF Ways, Idle, Way, T
<1>5. CASE tunnel_over(T)
  BY <1>1, <1>5, OverStep
<1>6. CASE /\ tun' = [tun EXCEPT ![t].relay = TRUE]
           /\ conn' = [conn EXCEPT
                  ![c] = RelayConn(@, "tunnel_transport_in_recv",
                                      "tunnel_transport_out_send"),
                  ![u] = RelayConn(@, "tunnel_transport_out_recv",
                                      "tunnel_transport_in_send")]
           /\ cur' = Return
  <2>1. PICK a \in Handlers, b \in Handlers, p \in Handlers, q \in Handlers :
          /\ a = "tunnel_transport_in_recv" /\ b = "tunnel_transport_out_send"
          /\ p = "tunnel_transport_out_recv" /\ q = "tunnel_transport_in_send"
    BY DEF Handlers, UpHandlers, DownHandlers
  <2>2. a \in Plain /\ b \in Plain /\ p \in Plain /\ q \in Plain
    BY <2>1, PlainNames
  <2>3. PICK y \in Connection, z \in Connection : y = conn[c] /\ z = conn[u]
    BY <1>3
  <2>4. PICK k, j : k = RelayConn(y, a, b) /\ j = RelayConn(z, p, q)
    OBVIOUS
  <2>5. conn' = [conn EXCEPT ![c] = k, ![u] = j]
    BY <1>3, <1>6, <2>1, <2>3, <2>4
  <2>6. /\ k.used = y.used /\ k.data = y.data /\ k.sslh = y.sslh
        /\ k.h = Both(a, b)
    BY <2>4, RelayConnKeeps, ZenonT(60)
  <2>7. /\ j.used = z.used /\ j.data = z.data /\ j.sslh = z.sslh
        /\ j.h = Both(p, q)
    BY <2>4, RelayConnKeeps, ZenonT(60)
  <2>8. Fits(c, k, "NULL")
    BY <2>2, <2>3, <2>6 DEF Fits, Both, Dir
  <2>9. Fits(u, j, "NULL")
    BY <2>2, <2>3, <2>7 DEF Fits, Both, Dir
  <2>10. Pair(c, k, u, j, "NULL")
    BY <1>3, <1>6, <2>5, <2>8, <2>9 DEF Pair
  <2>11. PICK x : x = [tun[t] EXCEPT !.relay = TRUE]
    OBVIOUS
  <2>12. /\ x.down = tun[t].down /\ x.up = tun[t].up
         /\ x.https = tun[t].https /\ x.resp = tun[t].resp /\ x.relay
    BY <2>11 DEF IInv, TypeOK, Tunnel
  <2>13. tun' = [tun EXCEPT ![t] = x]
    BY <1>6, <2>11
  <2>14. ~tun[t].resp
    BY <1>4 DEF Ways, OneWay, Relayed
  <2>15. OneWay(x)
    BY <1>1, <1>4, <2>12, <2>14, NameAssumption DEF OneWay, Relayed
  <2>16. SameWay
    BY <2>12, <2>13, <2>15, FurtherWay
  <2>17. Leaves(u, "NULL") /\ \A y2 \in Conn : ConnKept(y2)
    BY <2>10, <2>16, PairLeaves
  <2>18. Ways'
    BY <2>16, <2>17, FreeFacts, PlainWay, WaysFrame DEF SameWay
  <2>19. /\ peer' = peer /\ phase[c] = Stage(tun[t])
         /\ phase' = [phase EXCEPT ![c] = Stage(x)]
    <3>1. Further(t, c, x)
      BY <1>1, <1>2, <2>12, <2>13, <2>17 DEF Further
    <3> QED BY <3>1, StageSeen
  <2>20. Stage(x) = "relay"
         /\ Stage(tun[t]) = IF tun[t].relay THEN "relay" ELSE "connect"
    BY <2>12, <2>14 DEF Stage
  <2>21. CASE tun[t].relay
    BY <2>18, <2>19, <2>20, <2>21 DEF Session, phase
  <2>22. CASE ~tun[t].relay
    <3>1. Service!Relay(c)
      BY <2>19, <2>20, <2>22 DEF Service!Relay, Service!Move, phase, peer
    <3> QED BY <2>18, <3>1 DEF Session, Service!Next
  <2> QED BY <2>21, <2>22
<1> QED
  BY <1>0, <1>1, <1>2, <1>5, <1>6 DEF https_start

(* The relay itself.                                                       *)
LEMMA TransportsStep ==
  ASSUME IInv, Ways, tunnel_transport_in \/ tunnel_transport_out
  PROVE  Ways' /\ Session
<1>1. cur.h \in DownHandlers \cup UpHandlers
  BY DEF tunnel_transport_in, tunnel_transport_out, DownHandlers, UpHandlers
<1>2. PICK t \in Tun, c \in Conn :
        t = T /\ tun[t].used /\ c = tun[t].down
  BY <1>1, AtDown, AtUp, Owned
<1>3. tun[t].up \in Conn
  <2>1. cur.h \in {"tunnel_transport_in_recv", "tunnel_transport_in_send",
                   "tunnel_transport_out_recv", "tunnel_transport_out_send"}
    BY DEF tunnel_transport_in, tunnel_transport_out
  <2>2. CASE cur.h \in {"tunnel_transport_in_recv",
                        "tunnel_transport_out_send"}
    BY <1>2, <2>2, AtDown DEF Needs, DownHandlers, T, C
  <2>3. CASE cur.h \in {"tunnel_transport_in_send",
                        "tunnel_transport_out_recv"}
    BY <1>2, <2>3, AtUp DEF UpHandlers, T, C
  <2> QED BY <2>1, <2>2, <2>3
<1> QED
  BY <1>2, <1>3, OverStep, AwaitStep
     DEF tunnel_transport_in, tunnel_transport_out, Dir

-----------------------------------------------------------------------------
(* Any other request.                                                      *)

(* http_remote_send, after which the answer begins.                        *)
LEMMA RemoteSendStep ==
  ASSUME IInv, Ways, http_remote_send
  PROVE  Ways' /\ Session
<1>0. cur.h = "http_remote_send" /\ cur.h \in UpHandlers
  BY DEF http_remote_send, In, UpHandlers
<1>1. PICK u \in Conn, t \in Tun, c \in Conn :
        u = C /\ t = T /\ c = tun[t].down
  BY <1>0, AtUp, Owned
<1>2. /\ conn[u] \in Connection /\ conn[u].data = t /\ tun[t].up = u
      /\ tun[t].used /\ tun[t] \in Tunnel /\ cur # Return
      /\ Way("http_remote_send", u)
  BY <1>0, <1>1, AtUp DEF Ways, Idle, C
<1>3. ~Relayed(t)
  BY <1>2 DEF Way
<1>4. CASE tunnel_over(T)
  BY <1>1, <1>4, OverStep
<1>5. CASE Await(C, "w")
  BY <1>1, <1>5, AwaitStep DEF Dir
<1>6. CASE /\ SetConn(u, event_opt([timer_del(conn[u], "w") EXCEPT
                  !.h = Both("http_remote_recv_header", "NULL")], "r"))
           /\ tun' = [tun EXCEPT ![t].resp = TRUE]
           /\ Call("http_remote_recv_header", u)
  <2>1. PICK g \in Plain : g = "http_remote_recv_header"
    BY PlainNames
  <2>2. PICK j : j = timer_del(conn[u], "w")
    OBVIOUS
  <2>3. j \in Connection /\ j.used = conn[u].used /\ j.data = conn[u].data
        /\ j.sslh = conn[u].sslh
    BY <1>2, <2>2, TimerDel DEF Dir
  <2>4. PICK i : i = [j EXCEPT !.h = Both(g, "NULL")]
    OBVIOUS
  <2>5. Both(g, "NULL") \in [Dir -> Handlers \cup {"NULL"}]
    BY BothTypes DEF Plain
  <2>6. /\ i \in Connection /\ i.used = conn[u].used
        /\ i.data = conn[u].data /\ i.h = Both(g, "NULL")
        /\ i.sslh = conn[u].sslh
    BY <2>3, <2>4, <2>5 DEF Connection
  <2>7. PICK k : k = event_opt(i, "r")
    OBVIOUS
  <2>8. /\ k.used = conn[u].used /\ k.data = conn[u].data
        /\ k.h = Both(g, "NULL") /\ k.sslh = conn[u].sslh
    BY <2>6, <2>7, EventOpt DEF Dir
  <2>9. conn' = [conn EXCEPT ![u] = k]
    BY <1>6, <2>1, <2>2, <2>4, <2>7 DEF SetConn
  <2>10. conn'[u] = k /\ \A x \in Conn \ {u} : conn'[x] = conn[x]
    BY <2>9 DEF IInv, TypeOK
  <2>11. PICK z : z = [tun[t] EXCEPT !.resp = TRUE]
    OBVIOUS
  <2>12. /\ z.down = tun[t].down /\ z.up = tun[t].up
         /\ z.https = tun[t].https /\ z.relay = tun[t].relay /\ z.resp
    BY <1>2, <2>11 DEF Tunnel
  <2>13. tun' = [tun EXCEPT ![t] = z]
    BY <1>6, <2>11
  <2>14. ~tun[t].relay
    BY <1>3 DEF Ways, OneWay, Relayed
  <2>15. OneWay(z)
    BY <1>2, <1>3, <2>12, <2>14, NameAssumption DEF OneWay, Relayed
  <2>16. SameWay
    BY <2>12, <2>13, <2>15, FurtherWay
  <2>17. \A x \in Conn : ConnKept(x)
    BY <2>8, <2>10 DEF ConnKept
  <2>18. Leaves(u, "NULL")
    <3>1. \A x : Settled(x)
      BY <2>16 DEF SameWay, Settled
    <3>2. \A d \in Dir : k.h[d] \in Plain
      BY <2>8, FreeFacts DEF Both, Dir
    <3>3. cur'.h \in Plain
      BY <1>6, <2>1 DEF Call
    <3> QED BY <2>8, <2>10, <3>1, <3>2, <3>3 DEF Leaves
  <2>19. Ways'
    BY <2>16, <2>18, FreeFacts, PlainWay, WaysFrame DEF SameWay
  <2>20. /\ peer' = peer /\ phase[c] = Stage(tun[t])
         /\ phase' = [phase EXCEPT ![c] = Stage(z)]
    <3>1. Further(t, c, z)
      BY <1>1, <1>2, <2>12, <2>13, <2>17 DEF Further
    <3> QED BY <3>1, StageSeen
  <2>21. Stage(z) = "respond"
         /\ Stage(tun[t]) = IF tun[t].resp THEN "respond" ELSE "connect"
    BY <2>12, <2>14 DEF Stage
  <2>22. CASE tun[t].resp
    BY <2>19, <2>20, <2>21, <2>22 DEF Session, phase
  <2>23. CASE ~tun[t].resp
    <3>1. Service!Respond(c)
      BY <2>20, <2>21, <2>23 DEF Service!Respond, Service!Move, phase, peer
    <3> QED BY <1>1, <2>19, <3>1 DEF Session, Service!Next
  <2> QED BY <2>22, <2>23
<1> QED
  BY <1>0, <1>1, <1>4, <1>5, <1>6 DEF http_remote_send, Both

(* http_remote_recv_header.                                                *)
LEMMA RecvHeaderStep ==
  ASSUME IInv, Ways, http_remote_recv_header
  PROVE  Ways' /\ Session
<1>0. cur.h = "http_remote_recv_header" /\ cur.h \in UpHandlers
  BY DEF http_remote_recv_header, In, UpHandlers
<1>1. PICK u \in Conn, t \in Tun, c \in Conn :
        u = C /\ t = T /\ c = tun[t].down
  BY <1>0, AtUp, Owned
<1>2. tun[t].up = u /\ tun[t].used /\ tun[t] \in Tunnel
  BY <1>0, <1>1, AtUp
<1>3. /\ c # u
      /\ conn[c] \in Connection /\ conn[c].used /\ conn[c].data = t
      /\ conn[u] \in Connection /\ conn[u].used /\ conn[u].data = t
      /\ conn \in [Conn -> Connection]
  BY <1>1, <1>2, BothSides
<1>4. CASE tunnel_over(T)
  BY <1>1, <1>4, OverStep
<1>5. CASE Await(C, "r")
  BY <1>1, <1>5, AwaitStep DEF Dir
<1>6. ASSUME NEW rbody \in BOOLEAN,
             tun' = [tun EXCEPT ![t].rbody = rbody],
             conn' = [conn EXCEPT
                  ![u] = [timer_del(@, "r") EXCEPT
                            !.h = [d \in Dir |-> "NULL"]],
                  ![c] = event_opt([@ EXCEPT
                            !.h["w"] = "http_local_send_header"], "w")],
             Call("http_local_send_header", c)
      PROVE  Ways' /\ Session
  <2>1. PICK g \in Plain : g = "http_local_send_header" /\ g \in Handlers
    BY PlainNames DEF Handlers, DownHandlers
  <2>2. PICK i : i = [conn[c] EXCEPT !.h["w"] = g]
    OBVIOUS
  <2>3. /\ i \in Connection /\ i.used = conn[c].used
        /\ i.data = conn[c].data /\ i.sslh = conn[c].sslh
        /\ i.h = [conn[c].h EXCEPT !["w"] = g]
    BY <1>3, <2>1, <2>2 DEF Connection
  <2>4. PICK k : k = event_opt(i, "w")
    OBVIOUS
  <2>5. k.used = i.used /\ k.data = i.data /\ k.h = i.h /\ k.sslh = i.sslh
    BY <2>3, <2>4, EventOpt DEF Dir
  <2>6. PICK y : y = timer_del(conn[u], "r")
    OBVIOUS
  <2>7. /\ y \in Connection /\ y.used = conn[u].used
        /\ y.data = conn[u].data /\ y.sslh = conn[u].sslh
    BY <1>3, <2>6, TimerDel DEF Dir
  <2>8. PICK j : j = [y EXCEPT !.h = [d \in Dir |-> "NULL"]]
    OBVIOUS
  <2>9. /\ j.used = y.used /\ j.data = y.data /\ j.sslh = y.sslh
        /\ \A d \in Dir : j.h[d] = "NULL"
    BY <2>7, <2>8, Silenced
  <2>10. conn' = [conn EXCEPT ![u] = j, ![c] = k]
    BY <1>3, <1>6, <2>1, <2>2, <2>4, <2>6, <2>8
  <2>11. \A d \in Dir : k.h[d] \in {conn[c].h[d], g}
    BY <1>3, <2>3, <2>5 DEF Connection
  <2>12. Fits(c, k, "NULL") /\ Fits(u, j, "NULL")
    BY <2>1, <2>3, <2>5, <2>7, <2>9, <2>11 DEF Fits
  <2>13. Pair(u, j, c, k, "NULL")
    BY <1>3, <1>6, <2>1, <2>10, <2>12 DEF Pair, Call
  <2>14. PICK z : z = [tun[t] EXCEPT !.rbody = rbody]
    OBVIOUS
  <2>15. /\ z.down = tun[t].down /\ z.up = tun[t].up
         /\ z.relay = tun[t].relay /\ z.resp = tun[t].resp
         /\ z.https = tun[t].https
    BY <1>2, <2>14 DEF Tunnel
  <2>16. tun' = [tun EXCEPT ![t] = z]
    BY <1>6, <2>14
  <2>17. SameWay /\ SameTunnels
    BY <1>2, <2>15, <2>16, RequestRead
  <2> QED BY <2>13, <2>17, FreeFacts, PlainWay, PairStep
<1> QED
  BY <1>0, <1>1, <1>4, <1>5, <1>6 DEF http_remote_recv_header

(* A tunnel whose upstream has begun to answer.                            *)
Answered(t, c, u) ==
  /\ t \in Tun /\ tun[t].used /\ tun[t].resp
  /\ c = tun[t].down /\ u = tun[t].up /\ u \in Conn

(* tunnel_process_finish: the client is closed, or asks again.             *)
LEMMA FinishStep ==
  ASSUME IInv, Ways, NEW t, NEW c, NEW u, Answered(t, c, u),
         NEW cs \in [Conn -> Connection],
         \A y \in Conn \ {c, u} : cs[y] = conn[y],
         cs[c].used, cs[c].sslh = conn[c].sslh,
         tunnel_process_finish(t, cs)
  PROVE  Ways' /\ Session
<1> DEFINE closed == [tun EXCEPT ![t] = FreeTun]
           over == [y \in Conn |-> IF y \in {c, u} THEN net_free(cs[y])
                                   ELSE cs[y]]
<1>1. /\ c \in Conn /\ u \in Conn /\ c # u /\ t \in Tun /\ tun[t].used
      /\ conn \in [Conn -> Connection] /\ tun \in [Tun -> Tunnel]
      /\ c = tun[t].down /\ u = tun[t].up
      /\ conn[c].used /\ conn[c].data = t
  BY BothSides DEF Answered, IInv, TypeOK
<1>2. CASE conn' = over /\ tun' = closed /\ cur' = Return
  <2>1. Ends(t)
    BY <1>1, <1>2 DEF Ends, net_free
  <2> QED BY <1>1, <2>1, EndSeen, EndWays DEF Session
<1>3. ASSUME NEW n \in Tun, ~closed[n].used,
             tun' = [closed EXCEPT ![n].used = TRUE, ![n].down = c,
                                   ![n].req = TRUE],
             conn' = [cs EXCEPT
                 ![u] = net_free(@), ![c].data = n,
                 ![c].h = Both("tunnel_local_process_request", "NULL")],
             Call("tunnel_local_process_request", c)
      PROVE  Ways' /\ Session
  <2>1. closed \in [Tun -> Tunnel] /\ closed[t] = FreeTun
        /\ \A y \in Tun \ {t} : closed[y] = tun[y]
    BY <1>1, FreeTypes
  <2>2. closed[n] = FreeTun /\ (n = t \/ ~tun[n].used) /\ n # Null
    BY <1>3, <2>1, NameAssumption DEF IInv, Ownership
  <2>3. PICK z : z = [FreeTun EXCEPT !.used = TRUE, !.down = c, !.req = TRUE]
    OBVIOUS
  <2>4. z.down = c /\ z.up = Null /\ ~z.relay /\ ~z.resp
    BY <1>1, <2>3, FreeTypes, FreeFacts DEF Tunnel
  <2>5. tun' = [closed EXCEPT ![n] = z]
    <3> HIDE DEF closed, over
    <3>1. tun' = [closed EXCEPT ![n] = [closed[n] EXCEPT
                              !.used = TRUE, !.down = c, !.req = TRUE]]
      BY <1>3, <2>1
    <3> QED BY <2>2, <2>3, <3>1
  <2>6. /\ tun'[n] = z
        /\ n # t => tun'[t] = FreeTun
        /\ \A y \in Tun \ {t, n} : tun'[y] = tun[y]
    BY <2>1, <2>5
  <2> HIDE DEF closed, over
  <2>7. PICK g \in Plain : g = "tunnel_local_process_request"
    BY PlainNames
  <2>8. Both(g, "NULL") \in [Dir -> Handlers \cup {"NULL"}]
    BY BothTypes DEF Plain
  <2>9. PICK i \in Connection : i = cs[c] /\ i.used
    BY <1>1
  <2>10. PICK k : k = [i EXCEPT !.data = n, !.h = Both(g, "NULL")]
    OBVIOUS
  <2>11. /\ k.used /\ k.data = n /\ k.h = Both(g, "NULL")
         /\ k.sslh = conn[c].sslh
    BY <2>8, <2>9, <2>10 DEF Connection
  <2>12. conn' = [cs EXCEPT ![u] = FreeConn, ![c] = k]
    BY <1>1, <1>3, <2>7, <2>9, <2>10 DEF net_free
  <2>13. /\ conn'[c] = k /\ conn'[u] = FreeConn
         /\ \A y \in Conn \ {c, u} : conn'[y] = conn[y]
    BY <1>1, <2>12
  <2>14. \A y \in Conn : conn[y].data = t <=> y \in {c, u}
    BY <1>1, Owned, NameAssumption DEF IInv, Ownership
  <2>15. \A y \in Conn \ {c, u} : conn[y].data \in (Tun \ {t, n}) \cup {Null}
    BY <1>1, <2>2, <2>14 DEF IInv, Ownership, Connection
  <2>16. \A y \in Tun : OneWay(tun'[y])
    <3>1. OneWay(z) /\ OneWay(FreeTun)
      BY <2>4, FreeFacts DEF OneWay
    <3>2. ASSUME NEW y \in Tun PROVE tun'[y] \in {z, FreeTun, tun[y]}
      BY <2>6
    <3>3. \A y \in Tun : OneWay(tun[y])
      BY DEF Ways
    <3>4. ASSUME NEW y \in Tun PROVE OneWay(tun'[y])
      <4>1. CASE tun'[y] = z
        BY <3>1, <4>1
      <4>2. CASE tun'[y] = FreeTun
        BY <3>1, <4>2
      <4>3. CASE tun'[y] = tun[y]
        BY <3>3, <4>3
      <4> QED BY <3>2, <4>1, <4>2, <4>3
    <3> QED BY <3>4
  <2>17. Leaves(c, "NULL")
    <3>1. \A y \in Conn \ {c, u} : Settled(conn[y].data)
      BY <2>6, <2>15, NameAssumption DEF Settled
    <3>2. \A d \in Dir : k.h[d] \in Plain
      BY <2>11, FreeFacts DEF Both, Dir
    <3>3. cur'.h \in Plain
      BY <1>3, <2>7 DEF Call
    <3>4. ASSUME NEW y \in Conn
          PROVE  /\ \A d \in Dir : \/ conn'[y].h[d] \in Plain
                                   \/ /\ conn'[y].h[d] = conn[y].h[d]
                                      /\ conn'[y].data = conn[y].data
                                      /\ Settled(conn[y].data)
                 /\ conn'[y].sslh \in {conn[y].sslh, "NULL"}
      <4>1. CASE y = c
        BY <2>11, <2>13, <3>2, <4>1
      <4>2. CASE y = u
        BY <2>13, <4>2, FreeFacts
      <4>3. CASE y \notin {c, u}
        BY <2>13, <3>1, <4>3
      <4> QED BY <4>1, <4>2, <4>3
    <3> QED BY <3>3, <3>4 DEF Leaves
  <2>18. Ways'
    BY <2>16, <2>17, FreeFacts, PlainWay, WaysFrame
  <2>19. ~tun[t].relay /\ tun[t].resp
    BY <1>1 DEF Answered, Ways, OneWay
  <2>20. /\ phase[c] = "respond" /\ peer[c] = u
         /\ phase'[c] = "request" /\ peer'[c] = Null
    <3>1. phase[c] = "respond" /\ peer[c] = u
      BY <1>1, <2>19, NameAssumption, SMTT(60) DEF phase, peer, Phase, Peer
    <3>2. /\ conn'[c].used /\ conn'[c].data = n /\ n # Null
          /\ tun'[n].up = Null /\ tun'[n].down = c /\ c # Null
      BY <1>1, <2>2, <2>4, <2>6, <2>11, <2>13, NameAssumption
    <3> QED BY <1>1, <3>1, <3>2 DEF phase, peer, Phase, Peer
  <2>21. phase'[u] = "free" /\ peer[u] = Null /\ peer'[u] = Null
    BY <1>1, <2>13, <2>14, FreeFacts, SMTT(60) DEF phase, peer, Phase, Peer
  <2>22. ASSUME NEW y \in Conn \ {c, u}
         PROVE  phase'[y] = phase[y] /\ peer'[y] = peer[y]
    BY <2>6, <2>13, <2>15 DEF phase, peer, Phase, Peer
  <2>23. Service!AskAgain(c)
    <3>1. phase' = [x \in Conn |-> IF x = c THEN "request"
                        ELSE IF x = peer[c] THEN "free" ELSE phase[x]]
      BY <2>20, <2>21, <2>22 DEF phase
    <3>2. peer' = [peer EXCEPT ![c] = Null]
      BY <2>20, <2>21, <2>22 DEF peer
    <3> QED BY <2>20, <3>1, <3>2
          DEF Service!AskAgain, Service!GiveBack, phase, peer
  <2> QED BY <1>1, <2>18, <2>23 DEF Session, Service!Next
<1> QED
  BY <1>1, <1>2, <1>3 DEF tunnel_process_finish, Both

(* http_local_send_header.                                                 *)
LEMMA SendHeaderStep ==
  ASSUME IInv, Ways, http_local_send_header
  PROVE  Ways' /\ Session
<1>0. cur.h = "http_local_send_header" /\ cur.h \in DownHandlers
  BY DEF http_local_send_header, In, DownHandlers
<1>1. PICK c \in Conn, t \in Tun : c = C /\ t = T
  BY <1>0, AtDown
<1>2. /\ tun[t].used /\ tun[t].resp /\ tun[t].down = c
      /\ tun[t].up \in Conn /\ tun[t] \in Tunnel
  BY <1>0, <1>1, AtDown DEF Needs
<1>3. PICK u \in Conn : u = tun[t].up
  BY <1>2
<1>4. /\ c # u
      /\ conn[c] \in Connection /\ conn[c].used /\ conn[c].data = t
      /\ conn[u] \in Connection /\ conn[u].used /\ conn[u].data = t
      /\ conn \in [Conn -> Connection]
  BY <1>2, <1>3, BothSides
<1>5. PICK i : i = timer_del(conn[c], "w")
  OBVIOUS
<1>6. /\ i \in Connection /\ i.used = conn[c].used
      /\ i.data = conn[c].data /\ i.h = conn[c].h /\ i.sslh = conn[c].sslh
  BY <1>4, <1>5, TimerDel DEF Dir
<1>7. PICK sent \in [Conn -> Connection] : sent = [conn EXCEPT ![c] = i]
  BY <1>4, <1>6
<1>8. sent = [conn EXCEPT ![c] = timer_del(@, "w")] /\ sent[c] = i
      /\ \A y \in Conn \ {c, u} : sent[y] = conn[y]
  BY <1>4, <1>5, <1>7
<1>9. CASE tunnel_over(T)
  BY <1>1, <1>9, OverStep
<1>10. CASE Await(C, "w")
  BY <1>1, <1>10, AwaitStep DEF Dir
<1>11. CASE tunnel_process_finish(t, sent)
  <2>1. sent[c].used /\ sent[c].sslh = conn[c].sslh
    BY <1>4, <1>6, <1>8
  <2>2. Answered(t, c, u)
    BY <1>2, <1>3 DEF Answered
  <2> QED BY <1>8, <1>11, <2>1, <2>2, FinishStep
<1>12. CASE /\ tun' = [tun EXCEPT ![t].respBody = TRUE]
            /\ conn' = [sent EXCEPT ![c].h["w"] = "http_local_send_body",
                                    ![u].h["r"] = "http_remote_recv_body"]
            /\ Call("http_remote_recv_body", u)
  <2>1. PICK g \in Plain, f \in Plain :
          g = "http_remote_recv_body" /\ f = "http_local_send_body"
    BY PlainNames
  <2>2. PICK k : k = [i EXCEPT !.h["w"] = f]
    OBVIOUS
  <2>3. /\ k.used = conn[c].used /\ k.data = conn[c].data
        /\ k.h = [i.h EXCEPT !["w"] = f] /\ k.sslh = conn[c].sslh
    BY <1>6, <2>2 DEF Connection
  <2>4. PICK j : j = [conn[u] EXCEPT !.h["r"] = g]
    OBVIOUS
  <2>5. /\ j.used = conn[u].used /\ j.data = conn[u].data
        /\ j.h = [conn[u].h EXCEPT !["r"] = g] /\ j.sslh = conn[u].sslh
    BY <1>4, <2>4 DEF Connection
  <2>6. conn' = [conn EXCEPT ![c] = k, ![u] = j]
    BY <1>4, <1>7, <1>8, <1>12, <2>1, <2>2, <2>4
  <2>7. \A d \in Dir : k.h[d] \in {conn[c].h[d], f}
                       /\ j.h[d] \in {conn[u].h[d], g}
    BY <1>4, <1>6, <2>3, <2>5 DEF Connection
  <2>8. Fits(c, k, "NULL") /\ Fits(u, j, "NULL")
    BY <2>1, <2>3, <2>5, <2>7 DEF Fits
  <2>9. Pair(c, k, u, j, "NULL")
    BY <1>4, <1>12, <2>1, <2>6, <2>8 DEF Pair, Call
  <2>10. PICK z : z = [tun[t] EXCEPT !.respBody = TRUE]
    OBVIOUS
  <2>11. /\ z.down = tun[t].down /\ z.up = tun[t].up
         /\ z.relay = tun[t].relay /\ z.resp = tun[t].resp
         /\ z.https = tun[t].https
    BY <1>2, <2>10 DEF Tunnel
  <2>12. tun' = [tun EXCEPT ![t] = z]
    BY <1>12, <2>10
  <2>13. SameWay /\ SameTunnels
    BY <1>2, <2>11, <2>12, RequestRead
  <2> QED BY <2>9, <2>13, FreeFacts, PlainWay, PairStep
<1> QED
  BY <1>0, <1>1, <1>3, <1>8, <1>9, <1>10, <1>11, <1>12
     DEF http_local_send_header

(* The inner loop of http_body_transport( t, 1 ).                          *)
LEMMA SendBodyStep ==
  ASSUME IInv, Ways, NEW t \in Tun, tun[t].used, tun[t].resp,
         tun[t].up \in Conn, NEW done, SendBody(t, done)
  PROVE  Ways' /\ Session
<1>1. PICK c \in Conn, u \in Conn : c = tun[t].down /\ u = tun[t].up
  BY Owned
<1>2. /\ c # u
      /\ conn[c] \in Connection /\ conn[c].used
      /\ conn[u] \in Connection
      /\ conn \in [Conn -> Connection] /\ tun[t] \in Tunnel
  BY <1>1, BothSides, Owned
<1>3. CASE tunnel_over(t)
  BY <1>3, OverStep
<1>4. CASE /\ conn' = [conn EXCEPT ![u] = timer_add(@, "r", t)]
           /\ tun' = [tun EXCEPT ![t].trans = done]
           /\ cur' = Return
  <2>1. PICK k : k = timer_add(conn[u], "r", t)
    OBVIOUS
  <2>2. t \in Timer /\ "r" \in Dir
    BY DEF Timer, Dir
  <2>3. /\ k.used = conn[u].used /\ k.data = conn[u].data
        /\ k.h = conn[u].h /\ k.sslh = conn[u].sslh
        /\ k.t = [conn[u].t EXCEPT !["r"] = t]
    BY <1>2, <2>1, <2>2, TimerAdd
  <2>4. conn' = [conn EXCEPT ![u] = k]
    BY <1>4, <2>1
  <2>5. Solo(u, k, "NULL")
    BY <1>4, <2>3, <2>4 DEF Solo
  <2>6. PICK z : z = [tun[t] EXCEPT !.trans = done]
    OBVIOUS
  <2>7. /\ z.down = tun[t].down /\ z.up = tun[t].up
        /\ z.relay = tun[t].relay /\ z.resp = tun[t].resp
        /\ z.https = tun[t].https
    BY <1>2, <2>6 DEF Tunnel
  <2>8. tun' = [tun EXCEPT ![t] = z]
    BY <1>4, <2>6
  <2>9. SameWay /\ SameTunnels
    BY <2>7, <2>8, RequestRead
  <2> QED BY <2>5, <2>9, PlainStep
<1>5. CASE tunnel_process_finish(t, [conn EXCEPT ![u] = timer_del(@, "r")])
  <2>1. PICK k : k = timer_del(conn[u], "r")
    OBVIOUS
  <2>2. k \in Connection
    BY <1>2, <2>1, TimerDel DEF Dir
  <2>3. PICK cs \in [Conn -> Connection] : cs = [conn EXCEPT ![u] = k]
    BY <1>2, <2>2
  <2>4. tunnel_process_finish(t, cs)
    BY <1>5, <2>1, <2>3
  <2>5. /\ \A y \in Conn \ {c, u} : cs[y] = conn[y]
        /\ cs[c].used /\ cs[c].sslh = conn[c].sslh
    BY <1>2, <2>3
  <2>6. Answered(t, c, u)
    BY <1>1 DEF Answered
  <2> QED BY <2>4, <2>5, <2>6, FinishStep
<1> QED
  BY <1>1, <1>3, <1>4, <1>5 DEF SendBody

(* http_local_send_body and http_remote_recv_body.                         *)
LEMMA SendBodiesStep ==
  ASSUME IInv, Ways, http_local_send_body \/ http_remote_recv_body
  PROVE  Ways' /\ Session
<1>1. cur.h \in {"http_local_send_body", "http_remote_recv_body"}
  <2>1. http_local_send_body => cur.h = "http_local_send_body"
    BY DEF http_local_send_body, In
  <2>2. http_remote_recv_body => cur.h = "http_remote_recv_body"
    BY DEF http_remote_recv_body, In
  <2> QED BY <2>1, <2>2
<1>2. PICK t \in Tun : t = T /\ tun[t].used
  BY <1>1, AtDown, AtUp DEF DownHandlers, UpHandlers
<1>3. tun[t].up \in Conn /\ tun[t].resp
  <2>1. CASE cur.h = "http_local_send_body"
    BY <1>2, <2>1, AtDown DEF Needs, DownHandlers, T, C
  <2>2. CASE cur.h = "http_remote_recv_body"
    BY <1>2, <2>2, AtUp DEF Needs, UpHandlers, T, C
  <2> QED BY <1>1, <2>1, <2>2
<1>4. PICK done : SendBody(t, done)
  BY <1>2 DEF http_local_send_body, http_remote_recv_body
<1> QED
  BY <1>2, <1>3, <1>4, SendBodyStep

-----------------------------------------------------------------------------
(* Connections that are taken from the pool.                               *)

(* A client that is taken into the pool.                                   *)
LEMMA AdmitStep ==
  ASSUME IInv, Ways, NEW c \in Usable, tun' = tun, cur = Return, Greets(c),
         SetConn(c, event_opt([net_alloc(conn[c]) EXCEPT
                                  !.h["r"] = "tunnel_local_init"], "r"))
  PROVE  Ways' /\ Session
<1>1. c \in Conn /\ conn[c] = FreeConn /\ conn \in [Conn -> Connection]
  BY DEF Usable, IInv, Ownership, TypeOK
<1>2. PICK g \in Plain : g = "tunnel_local_init" /\ g \in Handlers
  BY PlainNames DEF Handlers, GreetHandlers
<1>3. PICK m, i : m = net_alloc(FreeConn) /\ i = [m EXCEPT !.h["r"] = g]
  OBVIOUS
<1>4. /\ m \in Connection /\ m.used /\ m.data = Null
      /\ m.h = [d \in Dir |-> "NULL"]
  BY <1>3, Allocated
<1>5. m.sslh = "NULL"
  BY <1>3, FreeFacts, FreeTypes DEF net_alloc, Connection
<1>6. /\ i \in Connection /\ i.used /\ i.data = Null /\ i.sslh = "NULL"
      /\ i.h = [m.h EXCEPT !["r"] = g]
  BY <1>2, <1>3, <1>4, <1>5 DEF Connection
<1>7. PICK k : k = event_opt(i, "r")
  OBVIOUS
<1>8. k.used /\ k.data = Null /\ k.h = i.h /\ k.sslh = "NULL"
  BY <1>6, <1>7, EventOpt DEF Dir
<1>9. conn' = [conn EXCEPT ![c] = k]
  BY <1>1, <1>2, <1>3, <1>7 DEF SetConn
<1>10. conn'[c] = k /\ \A x \in Conn \ {c} : conn'[x] = conn[x]
  BY <1>1, <1>9
<1>11. Leaves(c, "NULL")
  <2>1. \A x : Settled(x)
    BY DEF Settled
  <2>2. \A d \in Dir : k.h[d] \in Plain
    BY <1>2, <1>4, <1>6, <1>8, FreeFacts DEF Dir
  <2>3. cur'.h \in Plain
    BY <1>2, FreeFacts DEF Greets, Return
  <2> QED BY <1>8, <1>10, <2>1, <2>2, <2>3 DEF Leaves
<1>12. Ways'
  <2>1. \A t \in Tun : OneWay(tun'[t])
    BY DEF Ways
  <2> QED BY <1>11, <2>1, FreeFacts, PlainWay, WaysFrame
<1>13. /\ phase[c] = "free" /\ phase'[c] = "greet"
       /\ peer[c] = Null /\ peer'[c] = Null
  BY <1>1, <1>8, <1>10, FreeFacts DEF phase, peer, Phase, Peer
<1>14. \A x \in Conn \ {c} : phase'[x] = phase[x] /\ peer'[x] = peer[x]
  BY <1>10 DEF phase, peer, Phase, Peer
<1>15. Service!Accept(c)
  BY <1>13, <1>14 DEF Service!Accept, Service!Move, phase, peer
<1> QED BY <1>1, <1>12, <1>15 DEF Session, Service!Next

(* event_accept.                                                           *)
LEMMA AcceptStep ==
  ASSUME IInv, Ways, event_accept
  PROVE  Ways' /\ Session
<1>1. CASE accepting' = FALSE /\ UNCHANGED <<conn, tun, cur>>
  BY <1>1 DEF Ways, Way, Relayed, OneWay, Idle, Session, phase, peer,
              Phase, Peer
<1>2. ASSUME NEW c \in Usable, tun' = tun, cur = Return,
             SetConn(c, event_opt([net_alloc(conn[c]) EXCEPT
                                     !.h["r"] = "tunnel_local_init"], "r")),
             Call("tunnel_local_init", c)
      PROVE  Ways' /\ Session
  BY <1>2, AdmitStep DEF Call, Greets
<1> QED
  BY <1>1, <1>2 DEF event_accept, Idle

(* tunnel_remote_init, the connect of Sessions.                            *)
LEMMA RemoteInitStep ==
  ASSUME IInv, Ways, tunnel_remote_init
  PROVE  Ways' /\ Session
<1> USE NameAssumption
<1>0. cur.h = "tunnel_remote_init" /\ cur.h \in DownHandlers
  BY DEF tunnel_remote_init, In, DownHandlers
<1>1. PICK c \in Conn, t \in Tun : c = C /\ t = T
  BY <1>0, AtDown
<1>2. /\ conn[c] \in Connection /\ conn[c].used /\ conn[c].data = t
      /\ tun[t] \in Tunnel
      /\ tun[t].used /\ tun[t].down = c /\ tun[t].up = Null
      /\ conn \in [Conn -> Connection] /\ tun \in [Tun -> Tunnel]
  BY <1>0, <1>1, AtDown DEF IInv, TypeOK, Needs
<1>3. CASE tunnel_over(T)
  BY <1>1, <1>3, OverStep
<1>4. ASSUME NEW u \in Usable,
             tun' = [tun EXCEPT ![t].up = u],
             conn' = [conn EXCEPT
                 ![c] = [timer_del(conn[c], "r") EXCEPT
                           !.h = [d \in Dir |-> "NULL"]],
                 ![u] = [net_alloc(conn[u]) EXCEPT !.data = t,
                           !.h = Both("NULL",
                                      "tunnel_remote_connect_start")]],
             Call("tunnel_remote_connect_start", u)
      PROVE  Ways' /\ Session
  <2>1. u \in Conn /\ u # c /\ conn[u] = FreeConn
    BY <1>2, <1>4 DEF Usable, IInv, Ownership
  <2>2. PICK g \in Plain : g = "tunnel_remote_connect_start"
    BY PlainNames
  <2>3. PICK i : i = timer_del(conn[c], "r")
    OBVIOUS
  <2>4. i \in Connection /\ i.used /\ i.data = t /\ i.sslh = conn[c].sslh
    BY <1>2, <2>3, TimerDel DEF Dir
  <2>5. PICK k : k = [i EXCEPT !.h = [d \in Dir |-> "NULL"]]
    OBVIOUS
  <2>6. /\ k.used /\ k.data = t /\ k.sslh = conn[c].sslh
        /\ \A d \in Dir : k.h[d] = "NULL"
    BY <2>4, <2>5, Silenced
  <2>7. Both("NULL", g) \in [Dir -> Handlers \cup {"NULL"}]
    BY BothTypes DEF Plain
  <2>8. PICK m, j : /\ m = net_alloc(FreeConn)
                    /\ j = [m EXCEPT !.data = t, !.h = Both("NULL", g)]
    OBVIOUS
  <2>9. m \in Connection /\ m.used
    BY <2>8, Allocated
  <2>10. m.sslh = "NULL"
    BY <2>8, FreeFacts, FreeTypes DEF net_alloc, Connection
  <2>11. j.used /\ j.data = t /\ j.h = Both("NULL", g) /\ j.sslh = "NULL"
    BY <2>7, <2>8, <2>9, <2>10 DEF Connection
  <2>12. conn' = [conn EXCEPT ![c] = k, ![u] = j]
    BY <1>2, <1>4, <2>1, <2>2, <2>3, <2>5, <2>8
  <2>13. PICK z : z = [tun[t] EXCEPT !.up = u]
    OBVIOUS
  <2>14. /\ z.down = c /\ z.up = u /\ z.relay = tun[t].relay
         /\ z.resp = tun[t].resp /\ ~tun[t].relay /\ ~tun[t].resp
    <3>1. ~tun[t].relay /\ ~tun[t].resp
      BY <1>2 DEF Ways, OneWay
    <3> QED BY <1>2, <2>13, <3>1 DEF Tunnel
  <2>15. tun' = [tun EXCEPT ![t] = z]
    BY <1>4, <2>13
  <2>16. /\ conn'[c] = k /\ conn'[u] = j /\ tun'[t] = z
         /\ \A y \in Conn \ {c, u} : conn'[y] = conn[y]
         /\ \A y \in Tun \ {t} : tun'[y] = tun[y]
    BY <1>2, <2>1, <2>12, <2>15
  <2>17. \A y \in Conn \ {c, u} : conn[y].data \in (Tun \ {t}) \cup {Null}
    BY <1>2 DEF IInv, Ownership, Connection
  <2>18. \A y \in Tun : OneWay(tun'[y])
    <3>1. OneWay(z)
      BY <2>14 DEF OneWay
    <3> QED BY <2>16, <3>1 DEF Ways
  <2>19. Leaves(u, "NULL")
    <3>1. \A y \in Conn \ {c, u} : Settled(conn[y].data)
      BY <2>16, <2>17 DEF Settled
    <3>2. \A d \in Dir : k.h[d] \in Plain /\ j.h[d] \in Plain
      BY <2>6, <2>11, FreeFacts DEF Both, Dir
    <3>3. cur'.h \in Plain
      BY <1>4, <2>2 DEF Call
    <3>4. ASSUME NEW y \in Conn
          PROVE  /\ \A d \in Dir : \/ conn'[y].h[d] \in Plain
                                   \/ /\ conn'[y].h[d] = conn[y].h[d]
                                      /\ conn'[y].data = conn[y].data
                                      /\ Settled(conn[y].data)
                 /\ conn'[y].sslh \in {conn[y].sslh, "NULL"}
      <4>1. CASE y = c
        BY <2>6, <2>16, <3>2, <4>1
      <4>2. CASE y = u
        BY <2>11, <2>16, <3>2, <4>2
      <4>3. CASE y \notin {c, u}
        BY <2>16, <3>1, <4>3
      <4> QED BY <4>1, <4>2, <4>3
    <3> QED BY <3>3, <3>4 DEF Leaves
  <2>20. Ways'
    BY <2>18, <2>19, FreeFacts, PlainWay, WaysFrame
  <2>21. phase[c] = "request" /\ peer[c] = Null
    BY <1>2 DEF phase, peer, Phase, Peer
  <2>22. phase'[c] = "connect" /\ peer'[c] = u
    BY <2>1, <2>6, <2>14, <2>16 DEF phase, peer, Phase, Peer
  <2>23. phase[u] = "free" /\ peer[u] = Null
    BY <2>1, FreeFacts DEF phase, peer, Phase, Peer
  <2>24. phase'[u] = "upstream" /\ peer'[u] = Null
    BY <2>1, <2>11, <2>14, <2>16 DEF phase, peer, Phase, Peer
  <2>25. ASSUME NEW y \in Conn \ {c, u}
         PROVE  phase'[y] = phase[y] /\ peer'[y] = peer[y]
    BY <2>16, <2>17 DEF phase, peer, Phase, Peer
  <2>26. Service!Connect(c, u)
    <3>1. phase' = [phase EXCEPT ![c] = "connect", ![u] = "upstream"]
      BY <2>1, <2>22, <2>24, <2>25 DEF phase
    <3>2. peer' = [peer EXCEPT ![c] = u]
      BY <2>1, <2>22, <2>23, <2>24, <2>25 DEF peer
    <3> QED BY <2>21, <2>23, <3>1, <3>2 DEF Service!Connect, phase, peer
  <2> QED BY <2>1, <2>20, <2>26 DEF Session, Service!Next
<1> QED
  BY <1>0, <1>1, <1>3, <1>4 DEF tunnel_remote_init, Both

-----------------------------------------------------------------------------
(* The loop.                                                               *)

(* epoll_wait.                                                             *)
LEMMA WaitStep ==
  ASSUME IInv, Ways, epoll_wait
  PROVE  Ways' /\ Session
<1>1. PICK B : conn' = [c \in Conn |-> [conn[c] EXCEPT
                          !.edge = @ /\ <<c, "w">> \notin B]]
  BY DEF epoll_wait
<1>2. tun' = tun /\ cur' = Return
  BY DEF epoll_wait, Sleeping, Idle
<1>3. ASSUME NEW c \in Conn
      PROVE  /\ conn'[c].used = conn[c].used
             /\ conn'[c].data = conn[c].data
             /\ conn'[c].h = conn[c].h /\ conn'[c].sslh = conn[c].sslh
  <2>1. PICK k \in Connection : k = conn[c]
    BY DEF IInv, TypeOK
  <2>2. PICK e : conn'[c] = [k EXCEPT !.edge = e]
    BY <1>1, <2>1
  <2> QED BY <2>1, <2>2 DEF Connection
<1>4. \A x : Settled(x)
  BY <1>2 DEF Settled
<1>5. Leaves(Null, "NULL")
  BY <1>2, <1>3, <1>4 DEF Leaves
<1>6. Ways'
  <2>1. \A t \in Tun : OneWay(tun'[t])
    BY <1>2 DEF Ways
  <2> QED BY <1>5, <2>1, FreeFacts, PlainWay, WaysFrame
<1>7. UNCHANGED <<phase, peer>>
  BY <1>2, <1>3, Unseen DEF ConnKept, SameTunnels
<1> QED BY <1>6, <1>7 DEF Session

(* A step of the loop that changes neither pool.                           *)
LEMMA PoolsStay ==
  ASSUME IInv, Ways, conn' = conn, tun' = tun,
         cur' = Return \/ \E c \in Conn, d \in Dir :
                            cur' = [h |-> conn[c].h[d], c |-> c]
  PROVE  Ways' /\ Session
<1>1. ASSUME cur' # Return PROVE Way(cur.h, cur.c)'
  <2>1. PICK c \in Conn, d \in Dir : cur' = [h |-> conn[c].h[d], c |-> c]
    BY <1>1
  <2>2. cur'.h = conn[c].h[d] /\ cur'.c = c /\ Way(conn[c].h[d], c)
    BY <2>1 DEF Ways
  <2> QED BY <2>2 DEF Way, Relayed
<1>2. ASSUME NEW c \in Conn, NEW d \in Dir PROVE Way(conn[c].h[d], c)'
  <2>1. Way(conn[c].h[d], c)
    BY DEF Ways
  <2> QED BY <2>1 DEF Way, Relayed
<1>3. Ways'
  BY <1>1, <1>2 DEF Ways, Idle
<1>4. UNCHANGED <<phase, peer>>
  BY DEF phase, peer, Phase, Peer
<1> QED BY <1>3, <1>4 DEF Session

(* timer_expire, with the data its timer was armed with.                   *)
LEMMA ExpireStep ==
  ASSUME IInv, Ways, NEW c \in Conn, NEW d \in Dir, timer_expire(c, d)
  PROVE  Ways' /\ Session
<1>1. CASE conn[c].t[d] \in Conn /\ tunnel_close_connection(conn[c].t[d])
  <2>1. conn[c].t[d] = c /\ conn[c].data = Null
    BY <1>1 DEF IInv, HandshakeTimers
  <2>2. conn[c].used
    <3>1. FreeConn.t[d] = Null
      BY DEF FreeConn
    <3> QED BY <3>1 DEF timer_expire, IInv, Ownership
  <2> QED BY <1>1, <2>1, <2>2, CloseStep
<1>2. CASE conn[c].t[d] \in Tun /\ tunnel_over(conn[c].t[d])
  BY <1>2, OverStep
<1> QED
  BY <1>1, <1>2 DEF timer_expire

(* Every step of the worker is a step of Sessions, or none.                *)
LEMMA SessionStep ==
  ASSUME IInv, Ways, [Next]_vars
  PROVE  Ways' /\ Session
<1>1. CASE Greet
  BY <1>1, LocalInitStep, SslStep, LocalHandshakeStep, LocalStartStep
     DEF Greet
<1>2. CASE Request
  BY <1>2, ProcessRequestStep, ProcessProcotolStep, ProcessBodyStep
     DEF Request
<1>3. CASE Connect
  BY <1>3, RemoteInitStep, ConnectStartStep, ConnectCheckStep,
     RemoteHandshakeStep, StartStep DEF Connect
<1>4. CASE Relay
  BY <1>4, HttpsConnectedStep, HttpsStartStep, TransportsStep DEF Relay
<1>5. CASE Respond
  BY <1>5, RemoteSendStep, RecvHeaderStep, SendHeaderStep, SendBodiesStep
     DEF Respond
<1>6. CASE Loop
  <2>1. CASE epoll_wait
    BY <2>1, WaitStep
  <2>2. CASE event_loop_accept
    BY <2>2, PoolsStay DEF event_loop_accept, Idle
  <2>3. CASE event_accept
    BY <2>3, AcceptStep
  <2>4. ASSUME NEW c \in Conn, event_loop_skip(c) PROVE Ways' /\ Session
    BY <2>4, PoolsStay DEF event_loop_skip, Idle
  <2>5. ASSUME NEW c \in Conn, event_loop_read(c) PROVE Ways' /\ Session
    BY <2>5, PoolsStay DEF event_loop_read, Dispatch, Dir
  <2>6. ASSUME NEW c \in Conn, event_loop_write(c) PROVE Ways' /\ Session
    BY <2>6, PoolsStay DEF event_loop_write, Dispatch, Dir
  <2>7. ASSUME NEW c \in Conn, NEW d \in Dir, timer_expire(c, d)
        PROVE  Ways' /\ Session
    BY <2>7, ExpireStep
  <2> QED BY <1>6, <2>1, <2>2, <2>3, <2>4, <2>5, <2>6, <2>7 DEF Loop
<1>7. CASE UNCHANGED vars
  BY <1>7 DEF vars, Ways, Way, Relayed, OneWay, Idle, Session, phase, peer,
              Phase, Peer
<1> QED
  BY <1>1, <1>2, <1>3, <1>4, <1>5, <1>6, <1>7 DEF Next, Handler

(* It starts with all connections free.                                    *)
LEMMA SessionInit ==
  ASSUME Init
  PROVE  Ways /\ Service!Init
<1>1. /\ \A c \in Conn : conn[c] = FreeConn
      /\ \A t \in Tun : tun[t] = FreeTun
      /\ cur = Return
  BY DEF Init
<1>2. \A c \in Conn : \A d \in Dir : Way(conn[c].h[d], c)
  <2>1. Special \cap {"NULL"} = {} /\ \A c \in Conn, d \in Dir :
                                        conn[c].h[d] = "NULL"
    BY <1>1, FreeFacts DEF Special
  <2> QED BY <2>1 DEF Way
<1>3. Ways
  BY <1>1, <1>2, FreeFacts DEF Ways, Idle, OneWay
<1>4. Service!Init
  BY <1>1, FreeFacts DEF Service!Init, Phase, Peer
<1> QED BY <1>3, <1>4

(* A worker keeps the promise of Sessions: in every mode, with pools of    *)
(* every size, whatever the order of events, timeouts and failures, an     *)
(* upstream is in the hands of one client from tunnel_remote_init until it *)
(* is given back, and a tunnel is either relayed or answered, never both.  *)
THEOREM Serving == Spec => Implements
<1>1. Init => Ways /\ Service!Init
  BY SessionInit
<1>2. IInv /\ Ways /\ [Next]_vars =>
        /\ Ways'
        /\ [Service!Next]_<<[c \in Conn |-> Phase(conn[c], c)],
                            [c \in Conn |-> Peer(conn[c], c)]>>
  BY SessionStep DEF Session, phase, peer
<1> QED
  BY <1>1, <1>2, Inductive, PTL DEF Spec, Implements, Service!Spec

-----------------------------------------------------------------------------
(* No handler of Tunnel is left where epoll will not call it, for pools of *)
(* every size and every mode.  No step clears the registration of an event *)
(* but net_free, so it is enough that whoever leaves a handler has         *)
(* registered its event, or knows of one who did: the downstream read      *)
(* event in event_accept, the upstream write event in connect_start, the   *)
(* upstream read event before an answer begins.                            *)

(* What l_event.c keeps of a connection agrees with what it told epoll.    *)
Wired(k) ==
  /\ k.epoll = {d \in Dir : k.f[d]}
  /\ k.active <=> k.epoll # {}

(* The upstream connection that tunnel_remote_init has just allocated.     *)
Fresh(c) == cur = [h |-> "tunnel_remote_connect_start", c |-> c]
Sending(c) == cur = [h |-> "http_local_send_header", c |-> c]

(* The events of connection c that are registered.                         *)
Reg(c) ==
  /\ Wired(conn[c])
  /\ \A d \in Dir : conn[c].h[d] # "NULL" =>
       conn[c].f[d] \/ (d = "w" /\ Fresh(c))
  /\ Sending(c) => conn[c].f["w"]
  /\ conn[c].used =>
       LET t == conn[c].data
       IN IF t = Null \/ tun[t].down = c THEN conn[c].f["r"]
          ELSE /\ conn[c].f["w"] \/ Fresh(c)
               /\ tun[t].resp => conn[c].f["r"]
Heard == \A c \in Conn : Reg(c)

-----------------------------------------------------------------------------
(* Operations on a connection.                                             *)

(* One connection record after another.                                    *)
Grows(j, k) == Wired(k) /\ \A d \in Dir : j.f[d] => k.f[d]

(* event_opt tells epoll of d and of the other direction if it was told.   *)
LEMMA OptGrows ==
  ASSUME NEW k \in Connection, NEW d \in Dir, Wired(k)
  PROVE  Grows(k, event_opt(k, d)) /\ event_opt(k, d).f[d]
<1>1. CASE k.f[d]
  BY <1>1 DEF event_opt, Grows
<1>2. CASE ~k.f[d]
  <2>1. PICK j : j = event_opt(k, d)
    OBVIOUS
  <2>2. /\ j.f = [k.f EXCEPT ![d] = TRUE] /\ j.active
        /\ j.epoll = {d} \cup (IF k.f[Other(d)] THEN {Other(d)} ELSE {})
    BY <1>2, <2>1 DEF event_opt, Connection
  <2>3. \A e \in Dir : j.f[e] <=> e = d \/ k.f[e]
    BY <2>2 DEF Connection
  <2>4. Other(d) \in Dir /\ \A e \in Dir : e = d \/ e = Other(d)
    BY DEF Other, Dir
  <2>5. j.epoll = {e \in Dir : j.f[e]} /\ j.epoll # {}
    BY <2>2, <2>3, <2>4
  <2> QED BY <2>1, <2>2, <2>3, <2>5 DEF Grows, Wired
<1> QED BY <1>1, <1>2

(* What leaves the registration alone.                                     *)
SameWires(j, k) == k.f = j.f /\ k.epoll = j.epoll /\ k.active = j.active

(* Then nothing that was registered is lost.                               *)
LEMMA SameGrows ==
  ASSUME NEW j, NEW k, Wired(j), SameWires(j, k)
  PROVE  Grows(j, k)
BY DEF SameWires, Wired, Grows

(* Nor by one change after another.                                        *)
LEMMA GrowsOn ==
  ASSUME NEW i, NEW j, NEW k, Grows(i, j), Grows(j, k)
  PROVE  Grows(i, k)
BY DEF Grows

(* timer_add and timer_del do.                                             *)
LEMMA TimerWires ==
  ASSUME NEW k \in Connection, NEW d \in Dir, NEW x
  PROVE  SameWires(k, timer_add(k, d, x)) /\ SameWires(k, timer_del(k, d))
BY DEF SameWires, timer_add, timer_del, Connection

(* ssl_want leaves one handler, and registers its event.                   *)
LEMMA WantGrows ==
  ASSUME NEW k \in Connection, NEW d \in Dir, Wired(k)
  PROVE  LET j == ssl_want(k, d)
         IN Grows(k, j) /\ \A e \in Dir : j.h[e] # "NULL" => j.f[e]
<1>1. PICK i : i = [k EXCEPT !.h[d] = "ssl_handshake_handler",
                             !.h[Other(d)] = "NULL"]
  OBVIOUS
<1>2. i \in Connection /\ SameWires(k, i)
  BY <1>1 DEF Connection, Other, Dir, Handlers, SameWires
<1>3. PICK j : j = event_opt(i, d)
  OBVIOUS
<1>4. Grows(k, i)
  BY <1>2, SameGrows
<1>5. Grows(i, j) /\ j.f[d]
  BY <1>2, <1>3, <1>4, OptGrows DEF Grows
<1>6. j = ssl_want(k, d)
  BY <1>1, <1>3 DEF ssl_want
<1>7. \A e \in Dir : j.h[e] # "NULL" => e = d
  BY <1>6, SslWant
<1> QED BY <1>4, <1>5, <1>6, <1>7, GrowsOn

(* A connection as net_free leaves it.                                     *)
LEMMA FreeWired ==
  Wired(FreeConn) /\ \A d \in Dir : FreeConn.h[d] = "NULL"
BY DEF FreeConn, Wired

-----------------------------------------------------------------------------
(* Steps.                                                                  *)

(* A tunnel stays with its client; for the connections that read an answer *)
(* it does not begin one.                                                  *)
Unmoved(t, x) ==
  /\ tun'[t].down = tun[t].down
  /\ tun'[t].resp => tun[t].resp \/ tun[t].down = x

(* The step is about the connections in S.                                 *)
Elsewhere(S) ==
  /\ cur = Return \/ cur.c \in S
  /\ cur'.h # "http_local_send_header" \/ cur'.c \in S
  /\ \A x \in Conn \ S :
       /\ conn'[x] = conn[x]
       /\ conn[x].data # Null => Unmoved(conn[x].data, x)

(* Connections that no handler works on stay registered.                   *)
LEMMA RegFrame ==
  ASSUME IInv, Heard, NEW S, Elsewhere(S),
         \A x \in Conn : x \in S => Reg(x)'
  PROVE  Heard'
<1>1. ASSUME NEW x \in Conn, x \notin S PROVE Reg(x)'
  <2>1. ~Fresh(x) /\ ~Sending(x)'
    <3>1. ~Fresh(x)
      BY <1>1 DEF Fresh, Return, Elsewhere
    <3>2. ~Sending(x)'
      BY <1>1 DEF Sending, Elsewhere
    <3> QED BY <3>1, <3>2
  <2>2. Reg(x) /\ conn'[x] = conn[x]
    BY <1>1 DEF Heard, Elsewhere
  <2>3. conn[x].data # Null => Unmoved(conn[x].data, x)
    BY <1>1 DEF Elsewhere
  <2>4. Wired(conn'[x])
        /\ \A d \in Dir : conn'[x].h[d] # "NULL" => conn'[x].f[d]
    BY <2>1, <2>2 DEF Reg
  <2>5. conn[x].used =>
          LET t == conn[x].data
          IN IF t = Null \/ tun'[t].down = x THEN conn[x].f["r"]
             ELSE conn[x].f["w"] /\ (tun'[t].resp => conn[x].f["r"])
    BY <2>1, <2>2, <2>3 DEF Reg, Unmoved
  <2> QED BY <2>1, <2>2, <2>4, <2>5 DEF Reg
<1> QED BY <1>1 DEF Heard

(* A connection keeps its tunnel and what is registered, and each handler  *)
(* left on it was there or is one whose event is registered.               *)
Opted(c, k) ==
  /\ k.used = conn[c].used /\ k.data = conn[c].data
  /\ Grows(conn[c], k)
  /\ \A d \in Dir : k.h[d] \in {"NULL", conn[c].h[d]} \/ k.f[d]
  /\ Fresh(c) => k.f["w"]
  /\ cur' = [h |-> "http_local_send_header", c |-> c] => k.f["w"]
  /\ k.data # Null =>
       /\ tun'[k.data].down = tun[k.data].down
       /\ tun'[k.data].resp => tun[k.data].resp \/ k.f["r"]

(* Such a connection is registered where it must be.                       *)
LEMMA OptedReg ==
  ASSUME IInv, Heard, NEW c \in Conn, NEW k, Opted(c, k), conn'[c] = k
  PROVE  Reg(c)'
<1>1. Reg(c)
  BY DEF Heard
<1>2. /\ conn'[c] = k /\ Wired(k) /\ \A d \in Dir : conn[c].f[d] => k.f[d]
      /\ k.used = conn[c].used /\ k.data = conn[c].data
      /\ Fresh(c) => k.f["w"]
  BY DEF Opted, Grows
<1>3. \A d \in Dir : k.h[d] # "NULL" => k.f[d]
  BY <1>1, <1>2 DEF Opted, Reg
<1>4. Sending(c)' => k.f["w"]
  BY DEF Opted, Sending
<1>5. k.used =>
        LET t == k.data
        IN IF t = Null \/ tun'[t].down = c THEN k.f["r"]
           ELSE k.f["w"] /\ (tun'[t].resp => k.f["r"])
  <2>1. ASSUME k.used, k.data = Null \/ tun'[k.data].down = c
        PROVE  k.f["r"]
    BY <1>1, <1>2, <2>1 DEF Opted, Reg, Dir
  <2>2. ASSUME k.used, ~(k.data = Null \/ tun'[k.data].down = c)
        PROVE  k.f["w"] /\ (tun'[k.data].resp => k.f["r"])
    BY <1>1, <1>2, <2>2 DEF Opted, Reg, Dir
  <2> QED BY <2>1, <2>2
<1> QED BY <1>2, <1>3, <1>4, <1>5 DEF Reg

(* No tunnel gets another client, and no answer begins.                    *)
SameTunnel ==
  \A t \in Tun :
    tun'[t].down = tun[t].down /\ (tun'[t].resp => tun[t].resp)

(* A handler that changes only its connection.                             *)
One(c, k) ==
  /\ conn' = [conn EXCEPT ![c] = k]
  /\ Opted(c, k) /\ SameTunnel
  /\ cur = Return \/ c = C
  /\ cur'.h # "http_local_send_header" \/ cur'.c = c

(* Heard is kept by such a handler.                                        *)
LEMMA OneHeard ==
  ASSUME IInv, Heard, NEW c \in Conn, NEW k, One(c, k)
  PROVE  Heard'
<1>1. conn'[c] = k /\ \A x \in Conn \ {c} : conn'[x] = conn[x]
  BY DEF One, IInv, TypeOK
<1>2. Reg(c)'
  BY <1>1, OptedReg DEF One
<1>3. \A x \in Conn : conn[x].data # Null => Unmoved(conn[x].data, x)
  BY DEF One, SameTunnel, Unmoved, IInv, TypeOK, Connection
<1>4. Elsewhere({c})
  BY <1>1, <1>3 DEF Elsewhere, One, C
<1>5. \A x \in Conn : x \in {c} => Reg(x)'
  BY <1>2
<1> QED BY <1>4, <1>5, RegFrame

(* A handler that changes both connections of its tunnel.                  *)
Two(c, k, e, j) ==
  /\ conn' = [conn EXCEPT ![c] = k, ![e] = j]
  /\ Opted(c, k) /\ Opted(e, j) /\ SameTunnel
  /\ C \in {c, e}
  /\ cur'.h # "http_local_send_header" \/ cur'.c \in {c, e}

(* Heard is kept by such a handler.                                        *)
LEMMA TwoHeard ==
  ASSUME IInv, Heard, NEW c \in Conn, NEW e \in Conn, c # e, NEW k, NEW j,
         Two(c, k, e, j)
  PROVE  Heard'
<1>1. /\ conn'[c] = k /\ conn'[e] = j
      /\ \A x \in Conn \ {c, e} : conn'[x] = conn[x]
  BY DEF Two, IInv, TypeOK
<1>2. Reg(c)' /\ Reg(e)'
  BY <1>1, OptedReg DEF Two
<1>3. \A x \in Conn : conn[x].data # Null => Unmoved(conn[x].data, x)
  BY DEF Two, SameTunnel, Unmoved, IInv, TypeOK, Connection
<1>4. Elsewhere({c, e})
  BY <1>1, <1>3 DEF Elsewhere, Two, C
<1>5. \A x \in Conn : x \in {c, e} => Reg(x)'
  BY <1>2
<1> QED BY <1>4, <1>5, RegFrame

(* A connection that was given back to the pool.                           *)
LEMMA FreeReg ==
  ASSUME NEW c \in Conn, conn'[c] = FreeConn,
         cur'.h # "http_local_send_header"
  PROVE  Reg(c)'
<1>1. ~FreeConn.used
  BY FreeFacts
<1> QED BY <1>1, FreeWired DEF Reg, Sending

(* Tunnel t ends.                                                          *)
LEMMA EndHeard ==
  ASSUME IInv, Heard, NEW t \in Tun, Ends(t),
         (tun[t].used /\ C \in {tun[t].down, tun[t].up}) \/ cur = Return
  PROVE  Heard'
<1>1. PICK S : S = {tun[t].down, tun[t].up}
  OBVIOUS
<1>2. cur'.h # "http_local_send_header"
  BY DEF Ends, Return
<1>3. \A x \in Conn : x \in S => Reg(x)'
  BY <1>1, <1>2, FreeReg DEF Ends
<1>4. ASSUME NEW x \in Conn \ S
      PROVE  /\ conn'[x] = conn[x]
             /\ conn[x].data # Null => Unmoved(conn[x].data, x)
  <2>1. conn'[x] = conn[x]
    BY <1>1, <1>4 DEF Ends
  <2>2. ASSUME conn[x].data # Null PROVE Unmoved(conn[x].data, x)
    <3>1. conn[x].data \in Tun /\ conn[x].data # t
      BY <1>1, <1>4, <2>2 DEF IInv, Ownership, TypeOK, Connection
    <3> QED BY <3>1 DEF Ends, Unmoved, IInv, TypeOK
  <2> QED BY <2>1, <2>2
<1>5. cur = Return \/ cur.c \in S
  BY <1>1 DEF C
<1>6. Elsewhere(S)
  BY <1>2, <1>4, <1>5 DEF Elsewhere
<1> QED BY <1>3, <1>6, RegFrame

(* tunnel_over from a handler of the tunnel, or from a timer.              *)
LEMMA OverHeard ==
  ASSUME IInv, Heard, NEW t \in Tun, tunnel_over(t),
         (cur # Return /\ T = t) \/ cur = Return
  PROVE  Heard'
<1>1. Ends(t)
  BY DEF tunnel_over, net_free, Ends
<1>2. ASSUME cur # Return, T = t
      PROVE  tun[t].used /\ C \in {tun[t].down, tun[t].up}
  BY <1>2, AtWork, NameAssumption DEF IInv, Ownership, T, C
<1> QED BY <1>1, <1>2, EndHeard

(* tunnel_close_connection of a client without a tunnel.                   *)
LEMMA CloseHeard ==
  ASSUME IInv, Heard, NEW c \in Conn, tunnel_close_connection(c),
         c = C \/ cur = Return
  PROVE  Heard'
<1>1. /\ conn'[c] = FreeConn /\ \A x \in Conn \ {c} : conn'[x] = conn[x]
      /\ tun' = tun /\ cur' = Return
  BY DEF tunnel_close_connection, SetConn, net_free, IInv, TypeOK
<1>2. cur'.h # "http_local_send_header"
  BY <1>1 DEF Return
<1>3. \A x \in Conn : x \in {c} => Reg(x)'
  BY <1>1, <1>2, FreeReg
<1>4. Elsewhere({c})
  BY <1>1, <1>2 DEF Elsewhere, Unmoved, C
<1> QED BY <1>3, <1>4, RegFrame

(* Arming a timer of the tunnel and returning.                             *)
LEMMA AwaitHeard ==
  ASSUME IInv, Heard, cur # Return, T \in Tun, NEW c \in Conn,
         NEW d \in Dir, Await(c, d), cur.h # "tunnel_remote_connect_start"
  PROVE  Heard'
<1>1. PICK k : k = timer_add(conn[c], d, T)
  OBVIOUS
<1>2. conn[c] \in Connection /\ T \in Timer
  BY DEF IInv, TypeOK, Timer
<1>3. /\ k.used = conn[c].used /\ k.data = conn[c].data
      /\ k.h = conn[c].h /\ SameWires(conn[c], k)
      /\ k.t = [conn[c].t EXCEPT ![d] = T]
  BY <1>1, <1>2, TimerAdd, TimerWires
<1>4. /\ conn' = [conn EXCEPT ![c] = k] /\ tun' = tun /\ cur' = Return
  BY <1>1 DEF Await, SetConn
<1>5. Wired(conn[c])
  BY DEF Heard, Reg
<1>6. Opted(c, k)
  BY <1>3, <1>4, <1>5, SameGrows DEF Opted, Return, Fresh
<1>7. conn'[c] = k /\ \A x \in Conn \ {c} : conn'[x] = conn[x]
  BY <1>4 DEF IInv, TypeOK
<1>8. \A x \in Conn : ~Fresh(x) /\ cur'.h # "http_local_send_header"
  BY <1>4 DEF Fresh, Return
<1>9. ASSUME NEW x \in Conn, x # c PROVE Reg(x)'
  <2>1. Reg(x) /\ conn'[x] = conn[x] /\ tun' = tun
    BY <1>4, <1>7, <1>9 DEF Heard
  <2>2. ~Fresh(x) /\ ~Sending(x)'
    BY <1>8 DEF Sending
  <2> QED BY <2>1, <2>2 DEF Reg
<1> QED BY <1>6, <1>7, <1>9, OptedReg DEF Heard

-----------------------------------------------------------------------------
(* The handlers that leave the registration alone.                         *)

(* Who may count on which event.                                           *)
LEMMA Registered ==
  ASSUME IInv, Heard, NEW c \in Conn, conn[c].used
  PROVE  LET t == conn[c].data
         IN IF t = Null \/ tun[t].down = c THEN conn[c].f["r"]
            ELSE /\ conn[c].f["w"] \/ Fresh(c)
                 /\ tun[t].resp => conn[c].f["r"]
BY DEF Heard, Reg

(* A downstream handler has its read event, an upstream one its write      *)
(* event, and its read event too once the answer has begun.                *)
LEMMA DownHeard ==
  ASSUME IInv, Heard, cur.h \in DownHandlers
  PROVE  conn[C].f["r"] /\ cur.h # "tunnel_remote_connect_start"
BY AtDown, Registered, NameAssumption DEF DownHandlers, T, C

(* An upstream handler after connect_start.                                *)
LEMMA UpHeard ==
  ASSUME IInv, Heard, cur.h \in UpHandlers,
         cur.h # "tunnel_remote_connect_start"
  PROVE  conn[C].f["w"] /\ (tun[T].resp => conn[C].f["r"])
<1>1. /\ C \in Conn /\ conn[C].used /\ T \in Tun /\ conn[C].data = T
      /\ tun[T].used /\ tun[T].up = C
  BY AtUp
<1>2. tun[T].down # C /\ T # Null
  BY <1>1, Owned, NameAssumption
<1>3. ~Fresh(C)
  BY DEF Fresh
<1> QED BY <1>1, <1>2, <1>3, Registered

(* A handler that leaves on its connection what is registered.             *)
Quiet(c, k) ==
  /\ conn' = [conn EXCEPT ![c] = k]
  /\ c = C
  /\ k.used = conn[c].used /\ k.data = conn[c].data /\ SameWires(conn[c], k)
  /\ \A d \in Dir : k.h[d] \in {"NULL", conn[c].h[d]} \/ conn[c].f[d]
  /\ cur.h # "tunnel_remote_connect_start"
  /\ cur'.h # "http_local_send_header"
  /\ SameTunnel

(* Heard is kept by such a handler.                                        *)
LEMMA QuietHeard ==
  ASSUME IInv, Heard, NEW c \in Conn, NEW k, Quiet(c, k)
  PROVE  Heard'
<1>1. Wired(conn[c])
  BY DEF Heard, Reg
<1>2. Grows(conn[c], k) /\ k.f = conn[c].f
  BY <1>1, SameGrows DEF Quiet, SameWires
<1>3. ~Fresh(c) /\ cur' # [h |-> "http_local_send_header", c |-> c]
  BY DEF Fresh, Quiet
<1>4. k.data # Null => k.data \in Tun
  BY DEF Quiet, IInv, TypeOK, Connection
<1>5. Opted(c, k)
  BY <1>2, <1>3, <1>4 DEF Quiet, Opted, SameTunnel
<1> QED BY <1>5, OneHeard DEF Quiet, One

(* The next handler g is called, left on the event d of its connection.    *)
Passes(c, j, d, g) ==
  /\ j = conn[c] \/ j = timer_del(conn[c], "r") \/ j = timer_del(conn[c], "w")
  /\ SetConn(c, [j EXCEPT !.h[d] = g]) /\ Call(g, c)
  /\ c = C /\ conn[c].f[d]
  /\ cur.h # "tunnel_remote_connect_start" /\ g # "http_local_send_header"
  /\ SameTunnel

(* Heard is kept by such a handler.                                        *)
LEMMA PassesHeard ==
  ASSUME IInv, Heard, NEW c \in Conn, NEW j, NEW d \in Dir, NEW g,
         Passes(c, j, d, g)
  PROVE  Heard'
<1>1. conn[c] \in Connection
  BY DEF IInv, TypeOK
<1>2. /\ j \in Connection /\ j.used = conn[c].used
      /\ j.data = conn[c].data /\ j.h = conn[c].h /\ SameWires(conn[c], j)
  <2>1. CASE j = conn[c]
    BY <1>1, <2>1 DEF SameWires
  <2>2. ASSUME NEW e \in Dir, j = timer_del(conn[c], e)
        PROVE  /\ j \in Connection /\ j.used = conn[c].used
               /\ j.data = conn[c].data /\ j.h = conn[c].h
               /\ SameWires(conn[c], j)
    BY <1>1, <2>2, TimerDel, TimerWires
  <2> QED BY <2>1, <2>2 DEF Passes, Dir
<1>3. PICK k : k = [j EXCEPT !.h[d] = g]
  OBVIOUS
<1>4. /\ k.used = j.used /\ k.data = j.data
      /\ k.h = [j.h EXCEPT ![d] = g] /\ SameWires(j, k)
  BY <1>2, <1>3 DEF Connection, SameWires
<1>5. \A y \in Dir : k.h[y] \in {"NULL", conn[c].h[y]} \/ conn[c].f[y]
  BY <1>2, <1>4 DEF Connection, Passes
<1>6. conn' = [conn EXCEPT ![c] = k] /\ cur'.h # "http_local_send_header"
  BY <1>3 DEF Passes, SetConn, Call
<1>7. Quiet(c, k)
  BY <1>2, <1>4, <1>5, <1>6 DEF Quiet, SameWires, Passes
<1> QED BY <1>7, QuietHeard

(* Steps that write no tunnel, or of one tunnel only what is not looked at *)
(* here.                                                                   *)
LEMMA SameTuns ==
  ASSUME tun' = tun
  PROVE  SameTunnel
BY DEF SameTunnel

(* A tunnel that keeps its client and has no new answer.                   *)
LEMMA OneSame ==
  ASSUME IInv, NEW t \in Tun, NEW z, tun' = [tun EXCEPT ![t] = z],
         z.down = tun[t].down, z.resp = tun[t].resp
  PROVE  SameTunnel
BY DEF SameTunnel, IInv, TypeOK

(* tunnel_local_process_request.                                           *)
LEMMA ProcessRequestHeard ==
  ASSUME IInv, Heard, tunnel_local_process_request
  PROVE  Heard'
<1>0. cur.h = "tunnel_local_process_request" /\ cur.h \in DownHandlers
  BY DEF tunnel_local_process_request, In, DownHandlers
<1>1. PICK c \in Conn, t \in Tun : c = C /\ t = T
  BY <1>0, AtDown
<1>2. tun[t] \in Tunnel /\ cur # Return /\ conn[c].f["r"]
  BY <1>0, <1>1, AtDown, DownHeard
<1>3. ASSUME NEW https \in BOOLEAN, NEW keep \in BOOLEAN, NEW body \in BOOLEAN,
             tun' = [tun EXCEPT ![t].https = https, ![t].keep = keep,
                                ![t].body = body],
             SetConn(c, [timer_del(conn[c], "r") EXCEPT
                 !.h["r"] = "tunnel_local_process_procotol"]),
             Call("tunnel_local_process_procotol", c)
      PROVE  Heard'
  <2>1. PICK z : z = [tun[t] EXCEPT !.https = https, !.keep = keep,
                                    !.body = body]
    OBVIOUS
  <2>2. z.down = tun[t].down /\ z.resp = tun[t].resp
    BY <1>2, <2>1 DEF Tunnel
  <2>3. tun' = [tun EXCEPT ![t] = z]
    BY <1>3, <2>1 DEF IInv, TypeOK
  <2>4. SameTunnel
    BY <2>2, <2>3, OneSame
  <2>5. PICK j : j = timer_del(conn[c], "r")
    OBVIOUS
  <2>6. Passes(c, j, "r", "tunnel_local_process_procotol")
    BY <1>0, <1>1, <1>2, <1>3, <2>4, <2>5 DEF Passes
  <2> QED BY <2>6, PassesHeard DEF Dir
<1>4. CASE tunnel_over(T)
  BY <1>1, <1>2, <1>4, OverHeard
<1>5. CASE Await(C, "r")
  BY <1>0, <1>1, <1>2, <1>5, AwaitHeard DEF Dir
<1> QED
  BY <1>1, <1>3, <1>4, <1>5 DEF tunnel_local_process_request

(* tunnel_local_process_procotol.                                          *)
LEMMA ProcessProcotolHeard ==
  ASSUME IInv, Heard, tunnel_local_process_procotol
  PROVE  Heard'
<1>0. cur.h = "tunnel_local_process_procotol" /\ cur.h \in DownHandlers
  BY DEF tunnel_local_process_procotol, In, DownHandlers
<1>1. PICK c \in Conn, t \in Tun : c = C /\ t = T
  BY <1>0, AtDown
<1>2. tun[t] \in Tunnel /\ cur # Return /\ conn[c].f["r"]
  BY <1>0, <1>1, AtDown, DownHeard
<1>3. PICK w \in BOOLEAN : w = (~tun[t].https /\ tun[t].body)
  OBVIOUS
<1>4. PICK g : g = IF w THEN "tunnel_local_process_body"
                        ELSE "tunnel_remote_init"
  OBVIOUS
<1>5. CASE tunnel_over(T)
  BY <1>1, <1>2, <1>5, OverHeard
<1>6. CASE /\ tun' = [tun EXCEPT ![t].reqBody = @ \/ w]
           /\ SetConn(c, [conn[c] EXCEPT !.h["r"] = g])
           /\ Call(g, c)
  <2>1. PICK z : z = [tun[t] EXCEPT !.reqBody = @ \/ w]
    OBVIOUS
  <2>2. z.down = tun[t].down /\ z.resp = tun[t].resp
    BY <1>2, <2>1 DEF Tunnel
  <2>3. SameTunnel
    BY <1>6, <2>1, <2>2, OneSame
  <2>4. PICK j : j = conn[c]
    OBVIOUS
  <2>5. Passes(c, j, "r", g)
    BY <1>0, <1>1, <1>2, <1>4, <1>6, <2>3, <2>4 DEF Passes
  <2> QED BY <2>5, PassesHeard DEF Dir
<1> QED
  BY <1>0, <1>1, <1>3, <1>4, <1>5, <1>6 DEF tunnel_local_process_procotol

(* tunnel_local_process_body.                                              *)
LEMMA ProcessBodyHeard ==
  ASSUME IInv, Heard, tunnel_local_process_body
  PROVE  Heard'
<1>0. cur.h = "tunnel_local_process_body" /\ cur.h \in DownHandlers
  BY DEF tunnel_local_process_body, In, DownHandlers
<1>1. PICK c \in Conn, t \in Tun : c = C /\ t = T
  BY <1>0, AtDown
<1>2. cur # Return /\ conn[c].f["r"]
  BY <1>0, <1>1, AtDown, DownHeard
<1>3. CASE tunnel_over(T)
  BY <1>1, <1>2, <1>3, OverHeard
<1>4. CASE Await(C, "r")
  BY <1>0, <1>1, <1>2, <1>4, AwaitHeard DEF Dir
<1>5. CASE /\ SetConn(c, [timer_del(conn[c], "r") EXCEPT
                            !.h["r"] = "tunnel_remote_init"])
           /\ tun' = tun /\ Call("tunnel_remote_init", c)
  <2>1. PICK j : j = timer_del(conn[c], "r")
    OBVIOUS
  <2>2. Passes(c, j, "r", "tunnel_remote_init")
    BY <1>0, <1>1, <1>2, <1>5, <2>1, SameTuns DEF Passes
  <2> QED BY <2>2, PassesHeard DEF Dir
<1> QED
  BY <1>1, <1>3, <1>4, <1>5 DEF tunnel_local_process_body

-----------------------------------------------------------------------------
(* Greeting, and the SSL handshake on either side.                         *)

(* A handshake that must wait, with its timer armed.                       *)
LEMMA WantsGrows ==
  ASSUME NEW k \in Connection, NEW d \in Dir, NEW e \in Dir, NEW x, NEW g,
         Wired(k)
  PROVE  LET j == Wanting(k, d, e, x, g)
         IN Grows(k, j) /\ \A y \in Dir : j.h[y] # "NULL" => j.f[y]
<1>1. PICK i : i = ssl_want(k, d)
  OBVIOUS
<1>2. i \in Connection
  BY <1>1, SslWant
<1>3. Grows(k, i) /\ \A y \in Dir : i.h[y] # "NULL" => i.f[y]
  BY <1>1, WantGrows
<1>4. PICK j : j = Wanting(k, d, e, x, g)
  OBVIOUS
<1>5. SameWires(i, j) /\ j.h = i.h
  BY <1>1, <1>2, <1>4 DEF Wanting, timer_add, SameWires, Connection
<1>6. Grows(i, j)
  BY <1>5, <1>3, SameGrows DEF Grows
<1>7. \A y \in Dir : j.h[y] # "NULL" => j.f[y]
  BY <1>5, <1>3 DEF SameWires
<1> QED BY <1>4, <1>6, <1>7, <1>3, GrowsOn

(* The handler waits for its handshake.                                    *)
Shakes(c, k) ==
  /\ conn' = [conn EXCEPT ![c] = k]
  /\ c = C
  /\ k.used = conn[c].used /\ k.data = conn[c].data
  /\ Grows(conn[c], k) /\ \A d \in Dir : k.h[d] # "NULL" => k.f[d]
  /\ cur.h # "tunnel_remote_connect_start"
  /\ tun' = tun /\ cur' = Return

(* Heard is kept by such a handler.                                        *)
LEMMA ShakesHeard ==
  ASSUME IInv, Heard, NEW c \in Conn, NEW k, Shakes(c, k)
  PROVE  Heard'
<1>1. ~Fresh(c) /\ cur'.h # "http_local_send_header"
  BY DEF Fresh, Shakes, Return
<1>2. SameTunnel
  BY SameTuns DEF Shakes
<1>3. Opted(c, k)
  BY <1>1 DEF Opted, Shakes
<1> QED BY <1>1, <1>2, <1>3, OneHeard DEF Shakes, One

(* A handshake that ended changes ssl->handshaked.                         *)
LEMMA ShookHeard ==
  ASSUME IInv, Heard, NEW c \in Conn, c = C, NEW j, NEW v,
         j = conn[c] \/ j = timer_del(conn[c], "w"),
         SetConn(c, [j EXCEPT !.ssl = v]), NEW g, Call(g, c),
         g # "http_local_send_header", tun' = tun,
         cur.h # "tunnel_remote_connect_start"
  PROVE  Heard'
<1>1. conn[c] \in Connection
  BY DEF IInv, TypeOK
<1>2. /\ j \in Connection /\ j.used = conn[c].used
      /\ j.data = conn[c].data /\ j.h = conn[c].h /\ SameWires(conn[c], j)
  <2>1. CASE j = conn[c]
    BY <1>1, <2>1 DEF SameWires
  <2>2. CASE j = timer_del(conn[c], "w")
    BY <1>1, <2>2, TimerDel, TimerWires DEF Dir
  <2> QED BY <2>1, <2>2
<1>3. PICK k : k = [j EXCEPT !.ssl = v]
  OBVIOUS
<1>4. k.used = j.used /\ k.data = j.data /\ k.h = j.h /\ SameWires(j, k)
  BY <1>2, <1>3 DEF Connection, SameWires
<1>5. conn' = [conn EXCEPT ![c] = k] /\ cur'.h # "http_local_send_header"
  BY <1>3 DEF SetConn, Call
<1>6. Quiet(c, k)
  BY <1>2, <1>4, <1>5, SameTuns DEF Quiet, SameWires
<1> QED BY <1>6, QuietHeard

(* tunnel_local_init.                                                      *)
LEMMA LocalInitHeard ==
  ASSUME IInv, Heard, tunnel_local_init
  PROVE  Heard'
<1>0. /\ cur.h = "tunnel_local_init" /\ cur.h \in GreetHandlers
      /\ tun' = tun \/ tunnel_close_connection(C)
  BY DEF tunnel_local_init, In, GreetHandlers
<1>1. PICK c \in Conn : c = C
  BY <1>0, AtGreet
<1>2. /\ conn[c] \in Connection /\ conn[c].used /\ conn[c].data = Null
  BY <1>0, <1>1, AtGreet
<1>3. conn[c].f["r"] /\ Wired(conn[c])
  BY <1>2, Registered DEF Heard, Reg
<1>4. CASE /\ SetConn(c, [conn[c] EXCEPT !.h["r"] = "tunnel_local_start"])
           /\ Call("tunnel_local_start", c) /\ tun' = tun
  <2>1. PICK j : j = conn[c]
    OBVIOUS
  <2>2. Passes(c, j, "r", "tunnel_local_start")
    BY <1>0, <1>1, <1>3, <1>4, <2>1, SameTuns DEF Passes
  <2> QED BY <2>2, PassesHeard DEF Dir
<1>5. ASSUME NEW d \in Dir, cur' = Return, tun' = tun,
             SetConn(c, [timer_add(ssl_want(conn[c], d), "r", c) EXCEPT
                 !.ssl = "init", !.sslh = "tunnel_local_handshake_handler"])
      PROVE  Heard'
  <2>1. PICK j \in Connection : j = conn[c]
    BY <1>2
  <2>2. PICK k : k = Wanting(j, d, "r", c, "tunnel_local_handshake_handler")
    OBVIOUS
  <2>3. c \in Timer /\ "r" \in Dir
    BY DEF Timer, Dir
  <2>4. /\ k.used = j.used /\ k.data = j.data
        /\ k.t = [j.t EXCEPT !["r"] = c]
    BY <2>1, <2>2, <2>3, Wants
  <2>5. Grows(j, k) /\ \A y \in Dir : k.h[y] # "NULL" => k.f[y]
    BY <1>3, <2>1, <2>2, <2>3, WantsGrows
  <2>6. Shakes(c, k)
    BY <1>0, <1>1, <1>5, <2>1, <2>2, <2>4, <2>5 DEF Shakes, SetConn, Wanting
  <2> QED BY <2>6, ShakesHeard
<1>6. CASE /\ SetConn(c, [conn[c] EXCEPT !.ssl = "handshaked"])
           /\ Call("tunnel_local_handshake_handler", c) /\ tun' = tun
  <2>1. PICK j : j = conn[c]
    OBVIOUS
  <2>2. PICK g : g = "tunnel_local_handshake_handler"
    OBVIOUS
  <2>3. SetConn(c, [j EXCEPT !.ssl = "handshaked"]) /\ Call(g, c)
        /\ g # "http_local_send_header"
    BY <1>6, <2>1, <2>2
  <2> QED BY <1>0, <1>1, <1>6, <2>1, <2>3, ShookHeard
<1> QED
  BY <1>1, <1>4, <1>5, <1>6, CloseHeard DEF tunnel_local_init

(* ssl_handshake_handler.                                                  *)
LEMMA SslHeard ==
  ASSUME IInv, Heard, ssl_handshake_handler
  PROVE  Heard'
<1>0. cur.h = "ssl_handshake_handler" /\ cur # Return /\ tun' = tun
  BY DEF ssl_handshake_handler, In, Return
<1>1. PICK c \in Conn : c = C
  BY <1>0, AtWork
<1>2. /\ conn[c] \in Connection /\ conn[c].used
      /\ Needs("ssl_handshake_handler", c)
  BY <1>0, <1>1, AtWork
<1>3. Wired(conn[c])
  BY DEF Heard, Reg
<1>4. ASSUME NEW d \in Dir, SetConn(c, ssl_want(conn[c], d)), cur' = Return
      PROVE  Heard'
  <2>1. PICK k : k = ssl_want(conn[c], d)
    OBVIOUS
  <2>2. k.used = conn[c].used /\ k.data = conn[c].data
    BY <1>2, <2>1, SslWant
  <2>3. Grows(conn[c], k) /\ \A y \in Dir : k.h[y] # "NULL" => k.f[y]
    BY <1>2, <1>3, <2>1, WantGrows
  <2>4. Shakes(c, k)
    BY <1>0, <1>1, <1>4, <2>1, <2>2, <2>3 DEF Shakes, SetConn
  <2> QED BY <2>4, ShakesHeard
<1>5. ASSUME NEW v, SetConn(c, [conn[c] EXCEPT !.ssl = v]),
             Call(conn[c].sslh, c)
      PROVE  Heard'
  <2>1. PICK g : g = conn[c].sslh
    OBVIOUS
  <2>2. g # "http_local_send_header"
    BY <1>2, <2>1 DEF Needs
  <2>3. PICK j : j = conn[c]
    OBVIOUS
  <2> QED BY <1>0, <1>1, <1>5, <2>1, <2>2, <2>3, ShookHeard
<1> QED
  BY <1>1, <1>4, <1>5 DEF ssl_handshake_handler

(* tunnel_local_handshake_handler.                                         *)
LEMMA LocalHandshakeHeard ==
  ASSUME IInv, Heard, tunnel_local_handshake_handler
  PROVE  Heard'
<1>0. /\ cur.h = "tunnel_local_handshake_handler"
      /\ cur.h \in GreetHandlers
  BY DEF tunnel_local_handshake_handler, In, GreetHandlers
<1>1. PICK c \in Conn : c = C
  BY <1>0, AtGreet
<1>2. /\ conn[c] \in Connection /\ conn[c].used /\ conn[c].data = Null
  BY <1>0, <1>1, AtGreet
<1>3. conn[c].f["r"]
  BY <1>2, Registered
<1>4. CASE /\ SetConn(c, [timer_del(conn[c], "r") EXCEPT
                            !.h = Both("tunnel_local_start", "NULL")])
           /\ Call("tunnel_local_start", c) /\ tun' = tun
  <2>1. PICK j : j = timer_del(conn[c], "r")
    OBVIOUS
  <2>2. /\ j \in Connection /\ j.used = conn[c].used
        /\ j.data = conn[c].data /\ SameWires(conn[c], j)
    BY <1>2, <2>1, TimerDel, TimerWires DEF Dir
  <2>3. PICK k : k = [j EXCEPT !.h = Both("tunnel_local_start", "NULL")]
    OBVIOUS
  <2>4. /\ k.used = conn[c].used /\ k.data = conn[c].data
        /\ k.h = Both("tunnel_local_start", "NULL") /\ SameWires(j, k)
    BY <2>2, <2>3 DEF Connection, SameWires
  <2>5. \A d \in Dir : k.h[d] \in {"NULL", conn[c].h[d]} \/ conn[c].f[d]
    BY <1>3, <2>4 DEF Both, Dir
  <2>6. conn' = [conn EXCEPT ![c] = k] /\ cur'.h = "tunnel_local_start"
    BY <1>4, <2>1, <2>3 DEF SetConn, Call
  <2>7. Quiet(c, k)
    BY <1>0, <1>1, <1>4, <2>2, <2>4, <2>5, <2>6, SameTuns
       DEF Quiet, SameWires
  <2> QED BY <2>7, QuietHeard
<1> QED
  BY <1>1, <1>4, CloseHeard DEF tunnel_local_handshake_handler, Both

(* tunnel_local_start: the client, which event_accept registered for       *)
(* reading, has a tunnel.                                                  *)
LEMMA LocalStartHeard ==
  ASSUME IInv, Heard, tunnel_local_start
  PROVE  Heard'
<1>0. cur.h \in GreetHandlers
  BY DEF tunnel_local_start, In, GreetHandlers
<1>1. PICK c \in Conn : c = C
  BY <1>0, AtGreet
<1>2. /\ conn[c] \in Connection /\ conn[c].used /\ conn[c].data = Null
      /\ Wired(conn[c])
  BY <1>0, <1>1, AtGreet DEF Heard, Reg
<1>3. PICK g : g = IF Mode = "client" THEN "tunnel_remote_init"
                   ELSE "tunnel_local_process_request"
  OBVIOUS
<1>4. g \in Plain /\ g # "http_local_send_header"
  BY <1>3, PlainNames
<1>5. ASSUME NEW t \in Tun, ~tun[t].used,
             tun' = [tun EXCEPT ![t].used = TRUE, ![t].down = c,
                                ![t].req = (Mode # "client")],
             SetConn(c, event_opt([timer_del(conn[c], "r") EXCEPT
                      !.data = t, !.h = Both(g, "NULL")], "r")),
             Call(g, c)
      PROVE  Heard'
  <2>1. PICK j : j = timer_del(conn[c], "r")
    OBVIOUS
  <2>2. j \in Connection /\ j.used /\ SameWires(conn[c], j)
    BY <1>2, <2>1, TimerDel, TimerWires DEF Dir
  <2>3. PICK i : i = [j EXCEPT !.data = t, !.h = Both(g, "NULL")]
    OBVIOUS
  <2>4. Both(g, "NULL") \in [Dir -> Handlers \cup {"NULL"}]
    BY <1>4, BothTypes DEF Plain
  <2>5. i \in Connection /\ i.used /\ i.data = t /\ i.h = Both(g, "NULL")
    BY <2>2, <2>3, <2>4 DEF Connection
  <2>6. SameWires(j, i)
    BY <2>2, <2>3 DEF SameWires, Connection
  <2>7. Wired(i)
    BY <1>2, <2>2, <2>6 DEF SameWires, Wired
  <2>8. PICK k : k = event_opt(i, "r")
    OBVIOUS
  <2>9. k.used /\ k.data = t /\ k.h = Both(g, "NULL")
    BY <2>5, <2>8, EventOpt DEF Dir
  <2>10. Wired(k) /\ k.f["r"]
    BY <2>5, <2>7, <2>8, OptGrows DEF Dir, Grows
  <2>11. conn' = [conn EXCEPT ![c] = k]
    BY <1>5, <2>1, <2>3, <2>8 DEF SetConn
  <2>12. conn'[c] = k /\ \A x \in Conn \ {c} : conn'[x] = conn[x]
    BY <2>11 DEF IInv, TypeOK
  <2>13. tun'[t].down = c /\ \A y \in Tun \ {t} : tun'[y] = tun[y]
    BY <1>5 DEF IInv, TypeOK, Tunnel
  <2>14. cur'.h = g
    BY <1>5 DEF Call
  <2>15. Reg(c)'
    <3>1. \A d \in Dir : k.h[d] # "NULL" => k.f[d]
      BY <2>9, <2>10 DEF Both, Dir
    <3>2. ~Sending(c)'
      BY <1>4, <2>14 DEF Sending
    <3> QED BY <2>9, <2>10, <2>12, <2>13, <3>1, <3>2 DEF Reg
  <2>16. \A x \in Conn \ {c} : conn[x].data # Null => Unmoved(conn[x].data, x)
    <3>1. \A x \in Conn : conn[x].data # Null => conn[x].data \in Tun \ {t}
      BY <1>5 DEF IInv, Ownership, TypeOK, Connection
    <3> QED BY <2>13, <3>1 DEF Unmoved
  <2>17. Elsewhere({c})
    BY <1>1, <1>4, <2>12, <2>14, <2>16 DEF Elsewhere, C
  <2>18. \A x \in Conn : x \in {c} => Reg(x)'
    BY <2>15
  <2> QED BY <2>17, <2>18, RegFrame
<1> QED
  BY <1>1, <1>3, <1>5, CloseHeard DEF tunnel_local_start, Both

-----------------------------------------------------------------------------
(* Connecting.                                                             *)

(* tunnel_remote_init: the new upstream is Fresh.                          *)
LEMMA RemoteInitHeard ==
  ASSUME IInv, Ways, Heard, tunnel_remote_init
  PROVE  Heard'
<1> USE NameAssumption
<1>0. cur.h = "tunnel_remote_init" /\ cur.h \in DownHandlers
  BY DEF tunnel_remote_init, In, DownHandlers
<1>1. PICK c \in Conn, t \in Tun : c = C /\ t = T
  BY <1>0, AtDown
<1>2. /\ conn[c] \in Connection /\ conn[c].used /\ conn[c].data = t
      /\ tun[t] \in Tunnel /\ cur # Return
      /\ tun[t].used /\ tun[t].down = c /\ tun[t].up = Null
      /\ conn \in [Conn -> Connection] /\ tun \in [Tun -> Tunnel]
  BY <1>0, <1>1, AtDown DEF IInv, TypeOK, Needs
<1>3. CASE tunnel_over(T)
  BY <1>1, <1>2, <1>3, OverHeard
<1>4. ASSUME NEW u \in Usable,
             tun' = [tun EXCEPT ![t].up = u],
             conn' = [conn EXCEPT
                 ![c] = [timer_del(conn[c], "r") EXCEPT
                           !.h = [d \in Dir |-> "NULL"]],
                 ![u] = [net_alloc(conn[u]) EXCEPT !.data = t,
                           !.h = Both("NULL",
                                      "tunnel_remote_connect_start")]],
             Call("tunnel_remote_connect_start", u)
      PROVE  Heard'
  <2>1. u \in Conn /\ u # c /\ conn[u] = FreeConn
    BY <1>2, <1>4 DEF Usable, IInv, Ownership
  <2>2. PICK g \in Plain : g = "tunnel_remote_connect_start"
    BY PlainNames
  <2>3. PICK i : i = timer_del(conn[c], "r")
    OBVIOUS
  <2>4. /\ i \in Connection /\ i.used = conn[c].used /\ i.data = t
        /\ SameWires(conn[c], i)
    BY <1>2, <2>3, TimerDel, TimerWires DEF Dir
  <2>5. PICK k : k = [i EXCEPT !.h = [d \in Dir |-> "NULL"]]
    OBVIOUS
  <2>6. /\ k.used = i.used /\ k.data = t /\ \A d \in Dir : k.h[d] = "NULL"
    BY <2>4, <2>5, Silenced
  <2>7. SameWires(i, k)
    BY <2>4, <2>5 DEF SameWires, Connection
  <2>8. Both("NULL", g) \in [Dir -> Handlers \cup {"NULL"}]
    BY BothTypes DEF Plain
  <2>9. PICK m, j : /\ m = net_alloc(FreeConn)
                    /\ j = [m EXCEPT !.data = t, !.h = Both("NULL", g)]
    OBVIOUS
  <2>10. m \in Connection /\ m.used
    BY <2>9, Allocated
  <2>11. SameWires(FreeConn, m)
    BY <2>9, FreeTypes DEF net_alloc, SameWires, Connection
  <2>12. /\ j.used /\ j.data = t /\ j.h = Both("NULL", g) /\ SameWires(m, j)
    BY <2>8, <2>9, <2>10 DEF Connection, SameWires
  <2>13. conn' = [conn EXCEPT ![c] = k, ![u] = j]
    BY <1>2, <1>4, <2>1, <2>2, <2>3, <2>5, <2>9
  <2>14. /\ tun'[t].down = c /\ tun'[t].resp = tun[t].resp
         /\ \A y \in Tun \ {t} : tun'[y] = tun[y]
    BY <1>2, <1>4 DEF Tunnel
  <2>15. ~tun[t].resp
    BY <1>2 DEF Ways, OneWay
  <2>16. /\ conn'[c] = k /\ conn'[u] = j
         /\ \A y \in Conn \ {c, u} : conn'[y] = conn[y]
    BY <1>2, <2>1, <2>13
  <2>17. cur' = [h |-> "tunnel_remote_connect_start", c |-> u]
    BY <1>4, <2>2 DEF Call
  <2>18. Reg(c)'
    <3>1. Wired(conn[c]) /\ ~Fresh(c) /\ k.f = conn[c].f
      BY <1>0, <2>4, <2>7 DEF Heard, Reg, Fresh, SameWires
    <3>2. SameWires(conn[c], k)
      BY <2>4, <2>7 DEF SameWires
    <3>3. Opted(c, k)
      BY <1>2, <2>4, <2>6, <2>14, <2>17, <3>1, <3>2, SameGrows DEF Opted
    <3> QED BY <2>16, <3>3, OptedReg
  <2>19. Reg(u)'
    <3>1. Wired(j)
      BY <2>11, <2>12, FreeWired DEF SameWires, Wired
    <3>2. \A d \in Dir : j.h[d] # "NULL" => d = "w"
      BY <2>12 DEF Both, Dir
    <3>3. Fresh(u)' /\ ~Sending(u)'
      BY <2>17 DEF Fresh, Sending
    <3>4. tun'[j.data].down # u /\ ~tun'[j.data].resp
      BY <2>1, <2>12, <2>14, <2>15
    <3> QED BY <2>12, <2>16, <3>1, <3>2, <3>3, <3>4 DEF Reg
  <2>20. \A x \in Conn \ {c, u} :
           conn[x].data # Null => Unmoved(conn[x].data, x)
    <3>1. \A x \in Conn \ {c, u} : conn[x].data \in (Tun \ {t}) \cup {Null}
      BY <1>2 DEF IInv, Ownership, Connection
    <3> QED BY <2>14, <3>1 DEF Unmoved
  <2>21. Elsewhere({c, u})
    BY <1>1, <2>16, <2>17, <2>20 DEF Elsewhere, C
  <2>22. \A x \in Conn : x \in {c, u} => Reg(x)'
    BY <2>18, <2>19
  <2> QED BY <2>21, <2>22, RegFrame
<1> QED
  BY <1>0, <1>1, <1>3, <1>4 DEF tunnel_remote_init, Both

(* tunnel_remote_connect_start registers the write event.                  *)
LEMMA ConnectStartHeard ==
  ASSUME IInv, Heard, tunnel_remote_connect_start
  PROVE  Heard'
<1>0. cur.h = "tunnel_remote_connect_start" /\ cur.h \in UpHandlers
  BY DEF tunnel_remote_connect_start, In, UpHandlers
<1>1. PICK c \in Conn, t \in Tun : c = C /\ t = T
  BY <1>0, AtUp
<1>2. conn[c] \in Connection /\ cur # Return /\ Wired(conn[c])
  BY <1>0, <1>1, AtUp DEF Heard, Reg
<1>3. PICK g \in Plain : g = "tunnel_remote_connect_check"
                           /\ g \in Handlers
  BY PlainNames DEF Handlers, UpHandlers
<1>4. PICK i : i = [conn[c] EXCEPT !.h["w"] = g]
  OBVIOUS
<1>5. /\ i \in Connection /\ i.used = conn[c].used
      /\ i.data = conn[c].data /\ i.h = [conn[c].h EXCEPT !["w"] = g]
  BY <1>2, <1>3, <1>4 DEF Connection
<1>6. SameWires(conn[c], i)
  BY <1>2, <1>4 DEF Connection, SameWires
<1>7. PICK k : k = event_opt(i, "w")
  OBVIOUS
<1>8. /\ k \in Connection /\ k.used = conn[c].used
      /\ k.data = conn[c].data /\ k.h = [conn[c].h EXCEPT !["w"] = g]
  BY <1>5, <1>7, EventOpt DEF Dir
<1>9. Grows(conn[c], k) /\ k.f["w"]
  <2>1. Grows(conn[c], i)
    BY <1>2, <1>6, SameGrows
  <2>2. Wired(i)
    BY <2>1 DEF Grows
  <2>3. Grows(i, k) /\ k.f["w"]
    BY <1>5, <1>7, <2>2, OptGrows DEF Dir
  <2> QED BY <2>1, <2>3, GrowsOn
<1>10. \A d \in Dir : k.h[d] \in {"NULL", conn[c].h[d]} \/ k.f[d]
  BY <1>2, <1>8, <1>9 DEF Connection
<1>11. ASSUME NEW q, q.used = k.used, q.data = k.data, q.h = k.h,
              SameWires(k, q), SetConn(c, q), tun' = tun,
              cur'.h # "http_local_send_header"
       PROVE  Heard'
  <2>1. SameTunnel
    BY <1>11, SameTuns
  <2>2. Grows(conn[c], q) /\ q.f = k.f
    BY <1>9, <1>11, SameGrows, GrowsOn DEF Grows, SameWires
  <2>3. Opted(c, q)
    BY <1>8, <1>9, <1>10, <1>11, <2>2 DEF Opted
  <2>4. One(c, q)
    BY <1>1, <1>11, <2>1, <2>3 DEF One, SetConn
  <2> QED BY <2>4, OneHeard
<1>12. CASE tunnel_over(T)
  BY <1>1, <1>2, <1>12, OverHeard
<1>13. CASE /\ SetConn(c, timer_add(k, "w", t)) /\ tun' = tun
            /\ cur' = Return
  <2>1. PICK q : q = timer_add(k, "w", t)
    OBVIOUS
  <2>2. t \in Timer /\ "w" \in Dir
    BY DEF Timer, Dir
  <2>3. /\ q.used = k.used /\ q.data = k.data /\ q.h = k.h
        /\ q.t = [k.t EXCEPT !["w"] = t]
    BY <1>8, <2>1, <2>2, TimerAdd
  <2>4. SameWires(k, q)
    BY <1>8, <2>1, <2>2, TimerWires
  <2> QED BY <1>11, <1>13, <2>1, <2>3, <2>4 DEF Return
<1>14. CASE /\ SetConn(c, k) /\ tun' = tun /\ Call(g, c)
  <2>1. SameWires(k, k) /\ cur'.h # "http_local_send_header"
    BY <1>3, <1>14 DEF SameWires, Call
  <2> QED BY <1>11, <1>14, <2>1
<1> QED
  BY <1>0, <1>1, <1>3, <1>4, <1>7, <1>12, <1>13, <1>14
     DEF tunnel_remote_connect_start

(* tunnel_remote_connect_check.                                            *)
LEMMA ConnectCheckHeard ==
  ASSUME IInv, Heard, tunnel_remote_connect_check
  PROVE  Heard'
<1>0. cur.h = "tunnel_remote_connect_check" /\ cur.h \in UpHandlers
  BY DEF tunnel_remote_connect_check, In, UpHandlers
<1>1. PICK c \in Conn, t \in Tun : c = C /\ t = T
  BY <1>0, AtUp
<1>2. /\ conn[c] \in Connection /\ conn[c].used /\ cur # Return
      /\ conn[c].f["w"] /\ Wired(conn[c])
  BY <1>0, <1>1, AtUp, UpHeard DEF Heard, Reg
<1>3. PICK j : j = timer_del(conn[c], "w")
  OBVIOUS
<1>4. /\ j \in Connection /\ j.used = conn[c].used
      /\ j.data = conn[c].data /\ SameWires(conn[c], j)
  BY <1>2, <1>3, TimerDel, TimerWires DEF Dir
<1>5. CASE tunnel_over(T)
  BY <1>1, <1>2, <1>5, OverHeard
<1>6. CASE /\ SetConn(c, [j EXCEPT !.h["w"] = "tunnel_start"])
           /\ tun' = tun /\ Call("tunnel_start", c)
  <2>1. Passes(c, j, "w", "tunnel_start")
    BY <1>0, <1>1, <1>2, <1>3, <1>6, SameTuns DEF Passes
  <2> QED BY <2>1, PassesHeard DEF Dir
<1>7. ASSUME NEW d \in Dir,
             SetConn(c, [timer_add(ssl_want(j, d), "w", t) EXCEPT
                 !.ssl = "init", !.sslh = "tunnel_remote_handshake_handler"]),
             tun' = tun, cur' = Return
      PROVE  Heard'
  <2>1. PICK k : k = Wanting(j, d, "w", t, "tunnel_remote_handshake_handler")
    OBVIOUS
  <2>2. t \in Timer /\ "w" \in Dir
    BY DEF Timer, Dir
  <2>3. /\ k.used = j.used /\ k.data = j.data
        /\ k.t = [j.t EXCEPT !["w"] = t]
    BY <1>4, <2>1, <2>2, Wants
  <2>4. Grows(conn[c], j)
    BY <1>2, <1>4, SameGrows
  <2>5. Wired(j)
    BY <2>4 DEF Grows
  <2>6. Grows(j, k) /\ \A y \in Dir : k.h[y] # "NULL" => k.f[y]
    BY <1>4, <2>1, <2>2, <2>5, WantsGrows
  <2>7. Grows(conn[c], k)
    BY <2>4, <2>6, GrowsOn
  <2>8. Shakes(c, k)
    BY <1>0, <1>1, <1>4, <1>7, <2>1, <2>3, <2>6, <2>7
       DEF Shakes, SetConn, Wanting
  <2> QED BY <2>8, ShakesHeard
<1>8. CASE /\ SetConn(c, [j EXCEPT !.ssl = "handshaked"])
           /\ tun' = tun /\ Call("tunnel_remote_handshake_handler", c)
  <2>1. PICK g : g = "tunnel_remote_handshake_handler"
    OBVIOUS
  <2>2. g # "http_local_send_header" /\ Call(g, c)
    BY <1>8, <2>1
  <2> QED BY <1>0, <1>1, <1>3, <1>8, <2>2, ShookHeard
<1> QED
  BY <1>0, <1>1, <1>3, <1>5, <1>6, <1>7, <1>8 DEF tunnel_remote_connect_check

(* tunnel_remote_handshake_handler.                                        *)
LEMMA RemoteHandshakeHeard ==
  ASSUME IInv, Heard, tunnel_remote_handshake_handler
  PROVE  Heard'
<1>0. cur.h = "tunnel_remote_handshake_handler" /\ cur.h \in UpHandlers
  BY DEF tunnel_remote_handshake_handler, In, UpHandlers
<1>1. PICK c \in Conn, t \in Tun : c = C /\ t = T
  BY <1>0, AtUp
<1>2. conn[c] \in Connection /\ conn[c].f["w"] /\ cur # Return
  BY <1>0, <1>1, AtUp, UpHeard
<1>3. CASE tunnel_over(T)
  BY <1>1, <1>2, <1>3, OverHeard
<1>4. CASE /\ SetConn(c, [timer_del(conn[c], "w") EXCEPT
                            !.h = Both("NULL", "https_start")])
           /\ tun' = tun /\ Call("https_start", c)
  <2>1. PICK j : j = timer_del(conn[c], "w")
    OBVIOUS
  <2>2. /\ j \in Connection /\ j.used = conn[c].used
        /\ j.data = conn[c].data /\ SameWires(conn[c], j)
    BY <1>2, <2>1, TimerDel, TimerWires DEF Dir
  <2>3. PICK k : k = [j EXCEPT !.h = Both("NULL", "https_start")]
    OBVIOUS
  <2>4. /\ k.used = conn[c].used /\ k.data = conn[c].data
        /\ k.h = Both("NULL", "https_start") /\ SameWires(j, k)
    BY <2>2, <2>3 DEF Connection, SameWires
  <2>5. \A d \in Dir : k.h[d] \in {"NULL", conn[c].h[d]} \/ conn[c].f[d]
    BY <1>2, <2>4 DEF Both, Dir
  <2>6. conn' = [conn EXCEPT ![c] = k] /\ cur'.h = "https_start"
    BY <1>4, <2>1, <2>3 DEF SetConn, Call
  <2>7. Quiet(c, k)
    BY <1>0, <1>1, <1>4, <2>2, <2>4, <2>5, <2>6, SameTuns
       DEF Quiet, SameWires
  <2> QED BY <2>7, QuietHeard
<1> QED
  BY <1>1, <1>3, <1>4 DEF tunnel_remote_handshake_handler, Both

-----------------------------------------------------------------------------
(* The handlers that change both connections of their tunnel.              *)

(* What is registered for the two sides.                                   *)
LEMMA SidesHeard ==
  ASSUME IInv, Heard, NEW t \in Tun, tun[t].used, tun[t].up \in Conn,
         cur.h # "tunnel_remote_connect_start",
         NEW c, c = tun[t].down, NEW u, u = tun[t].up
  PROVE  /\ Wired(conn[c]) /\ conn[c].f["r"]
         /\ Wired(conn[u]) /\ conn[u].f["w"]
         /\ tun[t].resp => conn[u].f["r"]
<1>1. /\ c \in Conn /\ u \in Conn /\ c # u /\ t # Null
      /\ conn[c].used /\ conn[c].data = t
      /\ conn[u].used /\ conn[u].data = t
  BY BothSides, NameAssumption
<1>2. ~Fresh(u)
  BY DEF Fresh
<1>3. conn[c].f["r"]
  BY <1>1, Registered
<1>4. conn[u].f["w"] /\ (tun[t].resp => conn[u].f["r"])
  BY <1>1, <1>2, Registered
<1> QED BY <1>1, <1>3, <1>4 DEF Heard, Reg

(* One of the two connections, and what is left on it.                     *)
Ready(c, k) ==
  /\ k.used = conn[c].used /\ k.data = conn[c].data
  /\ Grows(conn[c], k)
  /\ \A d \in Dir : k.h[d] \in {"NULL", conn[c].h[d]} \/ k.f[d]
  /\ cur' = [h |-> "http_local_send_header", c |-> c] => k.f["w"]
Together(c, k, e, j) ==
  /\ conn' = [conn EXCEPT ![c] = k, ![e] = j]
  /\ Ready(c, k) /\ Ready(e, j) /\ SameTunnel
  /\ C \in {c, e} /\ cur.h # "tunnel_remote_connect_start"
  /\ cur'.h # "http_local_send_header" \/ cur'.c \in {c, e}

(* Heard is kept by such a handler.                                        *)
LEMMA TogetherHeard ==
  ASSUME IInv, Heard, NEW c \in Conn, NEW e \in Conn, c # e, NEW k, NEW j,
         Together(c, k, e, j)
  PROVE  Heard'
<1>1. ASSUME NEW x \in Conn, NEW y, Ready(x, y) PROVE Opted(x, y)
  <2>1. y.data # Null => y.data \in Tun
    BY <1>1 DEF Ready, IInv, TypeOK, Connection
  <2>2. ~Fresh(x)
    BY DEF Together, Fresh
  <2> QED BY <1>1, <2>1, <2>2 DEF Ready, Opted, Together, SameTunnel
<1>2. Two(c, k, e, j)
  BY <1>1 DEF Together, Two
<1> QED BY <1>2, TwoHeard

(* Handlers that are set to nothing.                                       *)
LEMMA SilentReady ==
  ASSUME NEW c \in Conn, conn[c] \in Connection, Wired(conn[c]), NEW j,
         j = conn[c] \/ j = timer_del(conn[c], "r"), NEW k,
         k = [j EXCEPT !.h = [d \in Dir |-> "NULL"]],
         cur' # [h |-> "http_local_send_header", c |-> c]
  PROVE  Ready(c, k)
<1>1. /\ j \in Connection /\ j.used = conn[c].used
      /\ j.data = conn[c].data /\ SameWires(conn[c], j)
  <2>1. CASE j = conn[c]
    BY <2>1 DEF SameWires
  <2>2. CASE j = timer_del(conn[c], "r")
    BY <2>2, TimerDel, TimerWires DEF Dir
  <2> QED BY <2>1, <2>2
<1>2. k.used = j.used /\ k.data = j.data /\ \A d \in Dir : k.h[d] = "NULL"
  BY <1>1, Silenced
<1>3. SameWires(j, k)
  BY <1>1 DEF Connection, SameWires
<1>4. SameWires(conn[c], k)
  BY <1>1, <1>3 DEF SameWires
<1>5. Grows(conn[c], k)
  BY <1>4, SameGrows
<1> QED BY <1>1, <1>2, <1>5 DEF Ready

(* A handler is left on a write event that event_opt registers.            *)
LEMMA OptReady ==
  ASSUME NEW c \in Conn, conn[c] \in Connection, Wired(conn[c]),
         NEW g \in Handlers, NEW k,
         k = event_opt([conn[c] EXCEPT !.h["w"] = g], "w")
  PROVE  Ready(c, k)
<1>1. PICK i : i = [conn[c] EXCEPT !.h["w"] = g]
  OBVIOUS
<1>2. /\ i \in Connection /\ i.used = conn[c].used
      /\ i.data = conn[c].data /\ i.h = [conn[c].h EXCEPT !["w"] = g]
  BY <1>1 DEF Connection
<1>3. SameWires(conn[c], i)
  BY <1>1 DEF Connection, SameWires
<1>4. Grows(conn[c], i)
  BY <1>3, SameGrows
<1>5. Wired(i)
  BY <1>4 DEF Grows
<1>6. k.used = i.used /\ k.data = i.data /\ k.h = i.h
  BY <1>1, <1>2, EventOpt DEF Dir
<1>7. Grows(i, k) /\ k.f["w"]
  BY <1>1, <1>2, <1>5, OptGrows DEF Dir
<1>8. \A d \in Dir : k.h[d] \in {"NULL", conn[c].h[d]} \/ k.f[d]
  BY <1>2, <1>6, <1>7 DEF Connection
<1> QED BY <1>2, <1>4, <1>6, <1>7, <1>8, GrowsOn DEF Ready

(* tunnel_start.                                                           *)
LEMMA StartHeard ==
  ASSUME IInv, Heard, tunnel_start
  PROVE  Heard'
<1>0. cur.h = "tunnel_start" /\ cur.h \in UpHandlers
  BY DEF tunnel_start, In, UpHandlers
<1>1. PICK u \in Conn, t \in Tun, c \in Conn :
        u = C /\ t = T /\ c = tun[t].down
  BY <1>0, AtUp, Owned
<1>2. tun[t].up = u /\ tun[t].used /\ tun' = tun
  BY <1>0, <1>1, AtUp DEF tunnel_start, T, C
<1>3. /\ c # u /\ conn[c] \in Connection /\ conn[u] \in Connection
      /\ conn \in [Conn -> Connection]
  BY <1>1, <1>2, BothSides
<1>4. Wired(conn[c]) /\ Wired(conn[u]) /\ conn[u].f["w"]
  BY <1>0, <1>1, <1>2, SidesHeard
<1>5. CASE /\ conn' = [conn EXCEPT
                  ![c].h = [d \in Dir |-> "NULL"],
                  ![u].h = Both("NULL", "http_remote_send")]
           /\ Call("http_remote_send", u)
  <2>1. PICK k : k = [conn[c] EXCEPT !.h = [d \in Dir |-> "NULL"]]
    OBVIOUS
  <2>2. PICK j : j = [conn[u] EXCEPT !.h = Both("NULL", "http_remote_send")]
    OBVIOUS
  <2>3. conn' = [conn EXCEPT ![c] = k, ![u] = j]
    BY <1>3, <1>5, <2>1, <2>2
  <2>4. cur'.h = "http_remote_send"
    BY <1>5 DEF Call
  <2>5. Ready(c, k)
    BY <1>3, <1>4, <2>1, <2>4, SilentReady
  <2>6. /\ j.used = conn[u].used /\ j.data = conn[u].data
        /\ j.h = Both("NULL", "http_remote_send") /\ SameWires(conn[u], j)
    BY <1>3, <2>2 DEF Connection, SameWires
  <2>7. \A d \in Dir : j.h[d] \in {"NULL", conn[u].h[d]} \/ j.f[d]
    BY <1>4, <2>6 DEF Both, Dir, SameWires
  <2>8. Ready(u, j)
    BY <1>4, <2>4, <2>6, <2>7, SameGrows DEF Ready
  <2>9. Together(c, k, u, j)
    BY <1>0, <1>1, <1>2, <2>3, <2>4, <2>5, <2>8, SameTuns DEF Together
  <2> QED BY <1>3, <2>9, TogetherHeard
<1>6. CASE /\ conn' = [conn EXCEPT
                  ![c] = event_opt([@ EXCEPT !.h["w"] = "https_connected"],
                                   "w"),
                  ![u].h = [d \in Dir |-> "NULL"]]
           /\ Call("https_connected", c)
  <2>1. PICK g \in Handlers : g = "https_connected"
    BY DEF Handlers, DownHandlers
  <2>2. PICK k : k = event_opt([conn[c] EXCEPT !.h["w"] = g], "w")
    OBVIOUS
  <2>3. PICK j : j = [conn[u] EXCEPT !.h = [d \in Dir |-> "NULL"]]
    OBVIOUS
  <2>4. conn' = [conn EXCEPT ![u] = j, ![c] = k]
    BY <1>3, <1>6, <2>1, <2>2, <2>3
  <2>5. cur'.h = "https_connected"
    BY <1>6 DEF Call
  <2>6. Ready(c, k)
    BY <1>3, <1>4, <2>2, OptReady
  <2>7. Ready(u, j)
    BY <1>3, <1>4, <2>3, <2>5, SilentReady
  <2>8. Together(u, j, c, k)
    BY <1>0, <1>1, <1>2, <2>4, <2>5, <2>6, <2>7, SameTuns DEF Together
  <2> QED BY <1>3, <2>8, TogetherHeard
<1> QED
  BY <1>0, <1>1, <1>5, <1>6 DEF tunnel_start, Both

(* https_connected.                                                        *)
LEMMA HttpsConnectedHeard ==
  ASSUME IInv, Heard, https_connected
  PROVE  Heard'
<1>0. cur.h = "https_connected" /\ cur.h \in DownHandlers
  BY DEF https_connected, In, DownHandlers
<1>1. PICK c \in Conn, t \in Tun : c = C /\ t = T
  BY <1>0, AtDown
<1>2. cur # Return /\ conn[c].f["r"]
  BY <1>0, <1>1, AtDown, DownHeard
<1>3. CASE tunnel_over(T)
  BY <1>1, <1>2, <1>3, OverHeard
<1>4. CASE Await(C, "w")
  BY <1>0, <1>1, <1>2, <1>4, AwaitHeard DEF Dir
<1>5. CASE /\ SetConn(c, [timer_del(conn[c], "w") EXCEPT
                            !.h["r"] = "https_start"])
           /\ tun' = tun /\ Call("https_start", c)
  <2>1. PICK j : j = timer_del(conn[c], "w")
    OBVIOUS
  <2>2. Passes(c, j, "r", "https_start")
    BY <1>0, <1>1, <1>2, <1>5, <2>1, SameTuns DEF Passes
  <2> QED BY <2>2, PassesHeard DEF Dir
<1> QED
  BY <1>1, <1>3, <1>4, <1>5 DEF https_connected

(* https_start registers both events of both connections.                  *)
LEMMA RelayReady ==
  ASSUME NEW c \in Conn, conn[c] \in Connection, Wired(conn[c]),
         NEW a \in Handlers, NEW b \in Handlers, NEW k,
         k = RelayConn(conn[c], a, b)
  PROVE  Ready(c, k)
<1>1. PICK y \in Connection : y = conn[c]
  OBVIOUS
<1>2. PICK i : i = event_opt(y, "r")
  OBVIOUS
<1>3. i \in Connection
  BY <1>2, EventOpt DEF Dir
<1>4. Grows(y, i) /\ i.f["r"]
  BY <1>1, <1>2, OptGrows DEF Dir
<1>5. PICK o : o = event_opt(i, "w")
  OBVIOUS
<1>6. o \in Connection
  BY <1>3, <1>5, EventOpt DEF Dir
<1>7. Wired(i)
  BY <1>4 DEF Grows
<1>8. Grows(i, o) /\ o.f["w"]
  BY <1>3, <1>5, <1>7, OptGrows DEF Dir
<1>9. o.f["r"]
  BY <1>4, <1>8 DEF Grows, Dir
<1>10. PICK e : k = [o EXCEPT !.h = Both(a, b), !.edge = e]
  BY <1>1, <1>2, <1>5 DEF RelayConn, Both
<1>11. SameWires(o, k)
  BY <1>6, <1>10 DEF SameWires, Connection
<1>12. k.used = y.used /\ k.data = y.data
  BY <1>1, RelayConnKeeps
<1>13. Grows(o, k) /\ k.f = o.f
  BY <1>8, <1>11, SameGrows DEF Grows, SameWires
<1>14. Grows(y, k)
  BY <1>4, <1>8, <1>13, GrowsOn
<1>15. \A d \in Dir : k.f[d]
  BY <1>8, <1>9, <1>13 DEF Dir
<1> QED BY <1>1, <1>12, <1>14, <1>15 DEF Ready, Dir

(* https_start.                                                            *)
LEMMA HttpsStartHeard ==
  ASSUME IInv, Heard, https_start
  PROVE  Heard'
<1>0. cur.h = "https_start" /\ cur # Return
  BY DEF https_start, In, Return
<1>1. PICK t \in Tun : t = T /\ tun[t].used /\ tun[t].up \in Conn
  BY <1>0, AtWork, NameAssumption DEF Needs, T, C
<1>2. PICK c \in Conn, u \in Conn : c = tun[t].down /\ u = tun[t].up
  BY <1>1, Owned
<1>3. /\ c # u /\ conn[c] \in Connection /\ conn[u] \in Connection
      /\ conn \in [Conn -> Connection] /\ tun[t] \in Tunnel
  BY <1>1, <1>2, BothSides, Owned
<1>4. Wired(conn[c]) /\ Wired(conn[u])
  BY <1>0, <1>1, <1>2, SidesHeard
<1>5. C \in {c, u}
  BY <1>0, <1>1, <1>2, AtWork, NameAssumption DEF IInv, Ownership, T, C
<1>6. CASE tunnel_over(T)
  BY <1>0, <1>1, <1>6, OverHeard
<1>7. CASE /\ tun' = [tun EXCEPT ![t].relay = TRUE]
           /\ conn' = [conn EXCEPT
                  ![c] = RelayConn(@, "tunnel_transport_in_recv",
                                      "tunnel_transport_out_send"),
                  ![u] = RelayConn(@, "tunnel_transport_out_recv",
                                      "tunnel_transport_in_send")]
           /\ cur' = Return
  <2>1. PICK a \in Handlers, b \in Handlers, p \in Handlers, q \in Handlers :
          /\ a = "tunnel_transport_in_recv" /\ b = "tunnel_transport_out_send"
          /\ p = "tunnel_transport_out_recv" /\ q = "tunnel_transport_in_send"
    BY DEF Handlers, UpHandlers, DownHandlers
  <2>2. PICK k, j : /\ k = RelayConn(conn[c], a, b)
                    /\ j = RelayConn(conn[u], p, q)
    OBVIOUS
  <2>3. conn' = [conn EXCEPT ![c] = k, ![u] = j]
    BY <1>3, <1>7, <2>1, <2>2
  <2>4. Ready(c, k) /\ Ready(u, j)
    BY <1>3, <1>4, <2>2, RelayReady
  <2>5. PICK x : x = [tun[t] EXCEPT !.relay = TRUE]
    OBVIOUS
  <2>6. x.down = tun[t].down /\ x.resp = tun[t].resp
    BY <1>3, <2>5 DEF Tunnel
  <2>7. SameTunnel
    BY <1>7, <2>5, <2>6, OneSame
  <2>8. Together(c, k, u, j)
    BY <1>0, <1>5, <1>7, <2>3, <2>4, <2>7 DEF Together, Return
  <2> QED BY <1>3, <2>8, TogetherHeard
<1> QED
  BY <1>0, <1>1, <1>2, <1>6, <1>7 DEF https_start

(* The relay itself.                                                       *)
LEMMA TransportsHeard ==
  ASSUME IInv, Heard, tunnel_transport_in \/ tunnel_transport_out
  PROVE  Heard'
<1>0. cur.h \in {"tunnel_transport_in_recv", "tunnel_transport_in_send",
                 "tunnel_transport_out_recv", "tunnel_transport_out_send"}
  BY DEF tunnel_transport_in, tunnel_transport_out
<1>1. cur.h \in DownHandlers \cup UpHandlers
  BY <1>0 DEF DownHandlers, UpHandlers
<1>2. PICK t \in Tun, c \in Conn :
        t = T /\ tun[t].used /\ c = tun[t].down /\ cur # Return
  BY <1>1, AtDown, AtUp, Owned
<1>3. tun[t].up \in Conn
  <2>1. CASE cur.h \in {"tunnel_transport_in_recv",
                        "tunnel_transport_out_send"}
    BY <1>2, <2>1, AtDown DEF Needs, DownHandlers, T, C
  <2>2. CASE cur.h \in {"tunnel_transport_in_send",
                        "tunnel_transport_out_recv"}
    BY <1>2, <2>2, AtUp DEF UpHandlers, T, C
  <2> QED BY <1>0, <2>1, <2>2
<1> QED
  BY <1>0, <1>2, <1>3, OverHeard, AwaitHeard
     DEF tunnel_transport_in, tunnel_transport_out, Dir

-----------------------------------------------------------------------------
(* Any other request.                                                      *)

(* http_remote_send registers the upstream read event when the answer      *)
(* begins.                                                                 *)
LEMMA RemoteSendHeard ==
  ASSUME IInv, Heard, http_remote_send
  PROVE  Heard'
<1>0. cur.h = "http_remote_send" /\ cur.h \in UpHandlers
  BY DEF http_remote_send, In, UpHandlers
<1>1. PICK u \in Conn, t \in Tun, c \in Conn :
        u = C /\ t = T /\ c = tun[t].down
  BY <1>0, AtUp, Owned
<1>2. /\ conn[u] \in Connection /\ conn[u].data = t /\ tun[t].up = u
      /\ tun[t].used /\ tun[t] \in Tunnel /\ cur # Return /\ ~Fresh(u)
      /\ Wired(conn[u])
  BY <1>0, <1>1, AtUp DEF Fresh, Heard, Reg
<1>3. CASE tunnel_over(T)
  BY <1>1, <1>2, <1>3, OverHeard
<1>4. CASE Await(C, "w")
  BY <1>0, <1>1, <1>2, <1>4, AwaitHeard DEF Dir
<1>5. CASE /\ SetConn(u, event_opt([timer_del(conn[u], "w") EXCEPT
                  !.h = Both("http_remote_recv_header", "NULL")], "r"))
           /\ tun' = [tun EXCEPT ![t].resp = TRUE]
           /\ Call("http_remote_recv_header", u)
  <2>1. PICK g \in Plain : g = "http_remote_recv_header"
    BY PlainNames
  <2>2. PICK j : j = timer_del(conn[u], "w")
    OBVIOUS
  <2>3. /\ j \in Connection /\ j.used = conn[u].used /\ j.data = t
        /\ SameWires(conn[u], j)
    BY <1>2, <2>2, TimerDel, TimerWires DEF Dir
  <2>4. PICK i : i = [j EXCEPT !.h = Both(g, "NULL")]
    OBVIOUS
  <2>5. Both(g, "NULL") \in [Dir -> Handlers \cup {"NULL"}]
    BY BothTypes DEF Plain
  <2>6. /\ i \in Connection /\ i.used = conn[u].used
        /\ i.data = t /\ i.h = Both(g, "NULL")
    BY <2>3, <2>4, <2>5 DEF Connection
  <2>7. SameWires(j, i)
    BY <2>3, <2>4 DEF SameWires, Connection
  <2>8. Grows(conn[u], i)
    BY <1>2, <2>3, <2>7, SameGrows DEF SameWires
  <2>9. Wired(i)
    BY <2>8 DEF Grows
  <2>10. PICK k : k = event_opt(i, "r")
    OBVIOUS
  <2>11. k.used = conn[u].used /\ k.data = t /\ k.h = Both(g, "NULL")
    BY <2>6, <2>10, EventOpt DEF Dir
  <2>12. Grows(i, k) /\ k.f["r"]
    BY <2>6, <2>9, <2>10, OptGrows DEF Dir
  <2>13. Grows(conn[u], k)
    BY <2>8, <2>12, GrowsOn
  <2>14. conn' = [conn EXCEPT ![u] = k]
    BY <1>5, <2>1, <2>2, <2>4, <2>10 DEF SetConn
  <2>15. conn'[u] = k /\ \A x \in Conn \ {u} : conn'[x] = conn[x]
    BY <2>14 DEF IInv, TypeOK
  <2>16. /\ tun'[t].down = c
         /\ \A y \in Tun \ {t} : tun'[y] = tun[y]
    BY <1>1, <1>2, <1>5 DEF IInv, TypeOK, Tunnel
  <2>17. cur'.h = "http_remote_recv_header"
    BY <1>5 DEF Call
  <2>18. \A d \in Dir : k.h[d] \in {"NULL", conn[u].h[d]} \/ k.f[d]
    BY <2>11, <2>12 DEF Both, Dir
  <2>19. Opted(u, k)
    BY <1>1, <1>2, <2>11, <2>12, <2>13, <2>16, <2>17, <2>18 DEF Opted
  <2>20. \A x \in Conn : x \in {u} => Reg(x)'
    BY <2>15, <2>19, OptedReg
  <2>21. ASSUME NEW x \in Conn \ {u}, conn[x].data # Null
         PROVE  Unmoved(conn[x].data, x)
    <3>1. conn[x].data \in Tun
      BY <2>21 DEF IInv, TypeOK, Connection
    <3>2. CASE conn[x].data = t
      <4>1. tun[t].down = x
        BY <1>2, <2>21, <3>2 DEF IInv, Ownership
      <4> QED BY <1>1, <2>16, <3>2, <4>1 DEF Unmoved
    <3>3. CASE conn[x].data # t
      BY <2>16, <3>1, <3>3 DEF Unmoved
    <3> QED BY <3>2, <3>3
  <2>22. Elsewhere({u})
    BY <1>1, <2>15, <2>17, <2>21 DEF Elsewhere, C
  <2> QED BY <2>20, <2>22, RegFrame
<1> QED
  BY <1>0, <1>1, <1>3, <1>4, <1>5 DEF http_remote_send, Both

(* http_remote_recv_header registers the downstream write event.           *)
LEMMA RecvHeaderHeard ==
  ASSUME IInv, Heard, http_remote_recv_header
  PROVE  Heard'
<1>0. cur.h = "http_remote_recv_header" /\ cur.h \in UpHandlers
  BY DEF http_remote_recv_header, In, UpHandlers
<1>1. PICK u \in Conn, t \in Tun, c \in Conn :
        u = C /\ t = T /\ c = tun[t].down
  BY <1>0, AtUp, Owned
<1>2. tun[t].up = u /\ tun[t].used /\ tun[t] \in Tunnel /\ cur # Return
  BY <1>0, <1>1, AtUp
<1>3. /\ c # u /\ conn[c] \in Connection /\ conn[u] \in Connection
      /\ conn \in [Conn -> Connection]
  BY <1>1, <1>2, BothSides
<1>4. Wired(conn[c]) /\ Wired(conn[u])
  BY <1>0, <1>1, <1>2, SidesHeard
<1>5. CASE tunnel_over(T)
  BY <1>1, <1>2, <1>5, OverHeard
<1>6. CASE Await(C, "r")
  BY <1>0, <1>1, <1>2, <1>6, AwaitHeard DEF Dir
<1>7. ASSUME NEW rbody \in BOOLEAN,
             tun' = [tun EXCEPT ![t].rbody = rbody],
             conn' = [conn EXCEPT
                  ![u] = [timer_del(@, "r") EXCEPT
                            !.h = [d \in Dir |-> "NULL"]],
                  ![c] = event_opt([@ EXCEPT
                            !.h["w"] = "http_local_send_header"], "w")],
             Call("http_local_send_header", c)
      PROVE  Heard'
  <2>1. PICK g \in Handlers : g = "http_local_send_header"
    BY DEF Handlers, DownHandlers
  <2>2. PICK k : k = event_opt([conn[c] EXCEPT !.h["w"] = g], "w")
    OBVIOUS
  <2>3. PICK y : y = timer_del(conn[u], "r")
    OBVIOUS
  <2>4. PICK j : j = [y EXCEPT !.h = [d \in Dir |-> "NULL"]]
    OBVIOUS
  <2>5. conn' = [conn EXCEPT ![u] = j, ![c] = k]
    BY <1>3, <1>7, <2>1, <2>2, <2>3, <2>4
  <2>6. cur'.c = c
    BY <1>7 DEF Call
  <2>7. Ready(c, k)
    BY <1>3, <1>4, <2>2, OptReady
  <2>8. Ready(u, j)
    BY <1>3, <1>4, <2>3, <2>4, <2>6, SilentReady
  <2>9. PICK z : z = [tun[t] EXCEPT !.rbody = rbody]
    OBVIOUS
  <2>10. z.down = tun[t].down /\ z.resp = tun[t].resp
    BY <1>2, <2>9 DEF Tunnel
  <2>11. SameTunnel
    BY <1>7, <2>9, <2>10, OneSame
  <2>12. Together(u, j, c, k)
    BY <1>0, <1>1, <2>5, <2>6, <2>7, <2>8, <2>11 DEF Together
  <2> QED BY <1>3, <2>12, TogetherHeard
<1> QED
  BY <1>0, <1>1, <1>5, <1>6, <1>7 DEF http_remote_recv_header

(* tunnel_process_finish, before which at most timers were deleted.        *)
LEMMA FinishHeard ==
  ASSUME IInv, Heard, NEW t, NEW c, NEW u, Answered(t, c, u),
         NEW cs \in [Conn -> Connection],
         \A y \in Conn \ {c, u} : cs[y] = conn[y],
         cs[c].used, SameWires(conn[c], cs[c]),
         C \in {c, u}, cur.h # "tunnel_remote_connect_start",
         tunnel_process_finish(t, cs)
  PROVE  Heard'
<1> DEFINE closed == [tun EXCEPT ![t] = FreeTun]
           over == [y \in Conn |-> IF y \in {c, u} THEN net_free(cs[y])
                                   ELSE cs[y]]
<1>1. /\ c \in Conn /\ u \in Conn /\ c # u /\ t \in Tun /\ tun[t].used
      /\ conn \in [Conn -> Connection] /\ tun \in [Tun -> Tunnel]
      /\ c = tun[t].down /\ u = tun[t].up /\ conn[c].data = t
  BY BothSides DEF Answered, IInv, TypeOK
<1>2. Wired(conn[c]) /\ conn[c].f["r"]
  BY <1>1, SidesHeard
<1>3. CASE conn' = over /\ tun' = closed /\ cur' = Return
  <2>1. Ends(t)
    BY <1>1, <1>3 DEF Ends, net_free
  <2> QED BY <1>1, <2>1, EndHeard
<1>4. ASSUME NEW n \in Tun, ~closed[n].used,
             tun' = [closed EXCEPT ![n].used = TRUE, ![n].down = c,
                                   ![n].req = TRUE],
             conn' = [cs EXCEPT
                 ![u] = net_free(@), ![c].data = n,
                 ![c].h = Both("tunnel_local_process_request", "NULL")],
             Call("tunnel_local_process_request", c)
      PROVE  Heard'
  <2>1. closed \in [Tun -> Tunnel] /\ closed[t] = FreeTun
        /\ \A y \in Tun \ {t} : closed[y] = tun[y]
    BY <1>1, FreeTypes
  <2>2. n = t \/ ~tun[n].used
    BY <1>4, <2>1
  <2>3. /\ tun'[n].down = c
        /\ \A y \in Tun \ {t, n} : tun'[y] = tun[y]
    <3> HIDE DEF closed, over
    <3>1. tun'[n].down = c
      BY <1>4, <2>1 DEF Tunnel
    <3>2. \A y \in Tun \ {n} : tun'[y] = closed[y]
      BY <1>4, <2>1
    <3> QED BY <2>1, <3>1, <3>2
  <2> HIDE DEF closed, over
  <2>4. PICK g \in Plain : g = "tunnel_local_process_request"
    BY PlainNames
  <2>5. Both(g, "NULL") \in [Dir -> Handlers \cup {"NULL"}]
    BY BothTypes DEF Plain
  <2>6. PICK i \in Connection : i = cs[c] /\ i.used
    BY <1>1
  <2>7. PICK k : k = [i EXCEPT !.data = n, !.h = Both(g, "NULL")]
    OBVIOUS
  <2>8. k.used /\ k.data = n /\ k.h = Both(g, "NULL") /\ SameWires(i, k)
    BY <2>5, <2>6, <2>7 DEF Connection, SameWires
  <2>9. conn' = [cs EXCEPT ![u] = FreeConn, ![c] = k]
    BY <1>1, <1>4, <2>4, <2>6, <2>7 DEF net_free
  <2>10. /\ conn'[c] = k /\ conn'[u] = FreeConn
         /\ \A y \in Conn \ {c, u} : conn'[y] = conn[y]
    BY <1>1, <2>9
  <2>11. cur'.h = "tunnel_local_process_request"
    BY <1>4 DEF Call
  <2>12. Reg(c)'
    <3>1. Wired(k) /\ k.f["r"]
      BY <1>2, <2>6, <2>8 DEF SameWires, Wired
    <3>2. \A d \in Dir : k.h[d] # "NULL" => k.f[d]
      BY <2>8, <3>1 DEF Both, Dir
    <3> QED BY <2>3, <2>8, <2>10, <2>11, <3>1, <3>2 DEF Reg, Sending
  <2>13. Reg(u)'
    BY <1>1, <2>10, <2>11, FreeReg
  <2>14. \A y \in Conn : conn[y].data = t <=> y \in {c, u}
    BY <1>1, Owned, NameAssumption DEF IInv, Ownership
  <2>15. \A y \in Conn \ {c, u} : conn[y].data \in (Tun \ {t, n}) \cup {Null}
    BY <1>1, <2>2, <2>14 DEF IInv, Ownership, Connection
  <2>16. Elsewhere({c, u})
    BY <2>3, <2>10, <2>11, <2>15 DEF Elsewhere, Unmoved, C
  <2>17. \A x \in Conn : x \in {c, u} => Reg(x)'
    BY <2>12, <2>13
  <2> QED BY <2>16, <2>17, RegFrame
<1> QED
  BY <1>1, <1>3, <1>4 DEF tunnel_process_finish, Both

(* http_local_send_header: its write event is registered although it may   *)
(* be called, and the upstream's read event since the answer began.        *)
LEMMA SendHeaderHeard ==
  ASSUME IInv, Heard, http_local_send_header
  PROVE  Heard'
<1>0. cur.h = "http_local_send_header" /\ cur.h \in DownHandlers
  BY DEF http_local_send_header, In, DownHandlers
<1>1. PICK c \in Conn, t \in Tun : c = C /\ t = T
  BY <1>0, AtDown
<1>2. /\ tun[t].used /\ tun[t].resp /\ tun[t].down = c
      /\ tun[t].up \in Conn /\ tun[t] \in Tunnel /\ cur # Return
  BY <1>0, <1>1, AtDown DEF Needs
<1>3. PICK u \in Conn : u = tun[t].up
  BY <1>2
<1>4. /\ c # u
      /\ conn[c] \in Connection /\ conn[c].used /\ conn[c].data = t
      /\ conn[u] \in Connection /\ conn[u].used /\ conn[u].data = t
      /\ conn \in [Conn -> Connection]
  BY <1>2, <1>3, BothSides
<1>5. Wired(conn[c]) /\ Wired(conn[u]) /\ conn[u].f["r"]
  BY <1>0, <1>2, <1>3, SidesHeard
<1>6. conn[c].f["w"]
  <2>1. Sending(c)
    BY <1>0, <1>1, <1>2 DEF Sending, C, IInv, TypeOK
  <2> QED BY <2>1 DEF Heard, Reg
<1>7. PICK i : i = timer_del(conn[c], "w")
  OBVIOUS
<1>8. /\ i \in Connection /\ i.used = conn[c].used
      /\ i.data = conn[c].data /\ i.h = conn[c].h /\ SameWires(conn[c], i)
  BY <1>4, <1>7, TimerDel, TimerWires DEF Dir
<1>9. PICK sent \in [Conn -> Connection] : sent = [conn EXCEPT ![c] = i]
  BY <1>4, <1>8
<1>10. sent = [conn EXCEPT ![c] = timer_del(@, "w")] /\ sent[c] = i
       /\ \A y \in Conn \ {c, u} : sent[y] = conn[y]
  BY <1>4, <1>7, <1>9
<1>11. CASE tunnel_over(T)
  BY <1>1, <1>2, <1>11, OverHeard
<1>12. CASE Await(C, "w")
  BY <1>0, <1>1, <1>2, <1>12, AwaitHeard DEF Dir
<1>13. CASE tunnel_process_finish(t, sent)
  <2>1. sent[c].used /\ SameWires(conn[c], sent[c])
    BY <1>4, <1>8, <1>10
  <2>2. Answered(t, c, u)
    BY <1>2, <1>3 DEF Answered
  <2> QED BY <1>0, <1>1, <1>10, <1>13, <2>1, <2>2, FinishHeard
<1>14. CASE /\ tun' = [tun EXCEPT ![t].respBody = TRUE]
            /\ conn' = [sent EXCEPT ![c].h["w"] = "http_local_send_body",
                                    ![u].h["r"] = "http_remote_recv_body"]
            /\ Call("http_remote_recv_body", u)
  <2>1. PICK k : k = [i EXCEPT !.h["w"] = "http_local_send_body"]
    OBVIOUS
  <2>2. /\ k.used = i.used /\ k.data = i.data
        /\ k.h = [i.h EXCEPT !["w"] = "http_local_send_body"]
        /\ SameWires(i, k)
    BY <1>8, <2>1 DEF Connection, SameWires
  <2>3. PICK j : j = [conn[u] EXCEPT !.h["r"] = "http_remote_recv_body"]
    OBVIOUS
  <2>4. /\ j.used = conn[u].used /\ j.data = conn[u].data
        /\ j.h = [conn[u].h EXCEPT !["r"] = "http_remote_recv_body"]
        /\ SameWires(conn[u], j)
    BY <1>4, <2>3 DEF Connection, SameWires
  <2>5. conn' = [conn EXCEPT ![c] = k, ![u] = j]
    BY <1>4, <1>9, <1>10, <1>14, <2>1, <2>3
  <2>6. SameWires(conn[c], k) /\ k.f = conn[c].f /\ j.f = conn[u].f
    BY <1>8, <2>2, <2>4 DEF SameWires
  <2>7. \A d \in Dir : k.h[d] \in {"NULL", conn[c].h[d]} \/ k.f[d]
    BY <1>4, <1>6, <1>8, <2>2, <2>6 DEF Connection
  <2>8. \A d \in Dir : j.h[d] \in {"NULL", conn[u].h[d]} \/ j.f[d]
    BY <1>4, <1>5, <2>4, <2>6 DEF Connection
  <2>9. cur'.h = "http_remote_recv_body"
    BY <1>14 DEF Call
  <2>10. Ready(c, k) /\ Ready(u, j)
    BY <1>5, <1>8, <2>2, <2>4, <2>6, <2>7, <2>8, <2>9, SameGrows DEF Ready
  <2>11. PICK z : z = [tun[t] EXCEPT !.respBody = TRUE]
    OBVIOUS
  <2>12. z.down = tun[t].down /\ z.resp = tun[t].resp
    BY <1>2, <2>11 DEF Tunnel
  <2>13. SameTunnel
    BY <1>14, <2>11, <2>12, OneSame
  <2>14. Together(c, k, u, j)
    BY <1>0, <1>1, <2>5, <2>9, <2>10, <2>13 DEF Together
  <2> QED BY <1>4, <2>14, TogetherHeard
<1> QED
  BY <1>0, <1>1, <1>3, <1>10, <1>11, <1>12, <1>13, <1>14
     DEF http_local_send_header

(* The inner loop of http_body_transport( t, 1 ).                          *)
LEMMA SendBodyHeard ==
  ASSUME IInv, Heard, NEW t \in Tun, tun[t].used, tun[t].resp,
         tun[t].up \in Conn, t = T, cur # Return,
         C \in {tun[t].down, tun[t].up},
         cur.h # "tunnel_remote_connect_start", NEW done, SendBody(t, done)
  PROVE  Heard'
<1>1. PICK c \in Conn, u \in Conn : c = tun[t].down /\ u = tun[t].up
  BY Owned
<1>2. /\ c # u
      /\ conn[c] \in Connection /\ conn[c].used /\ conn[u] \in Connection
      /\ conn \in [Conn -> Connection] /\ tun[t] \in Tunnel
  BY <1>1, BothSides, Owned
<1>3. CASE tunnel_over(t)
  BY <1>3, OverHeard
<1>4. CASE /\ conn' = [conn EXCEPT ![u] = timer_add(@, "r", t)]
           /\ tun' = [tun EXCEPT ![t].trans = done]
           /\ cur' = Return
  <2>1. PICK j : j = timer_add(conn[u], "r", t)
    OBVIOUS
  <2>2. t \in Timer /\ "r" \in Dir
    BY DEF Timer, Dir
  <2>3. /\ j.used = conn[u].used /\ j.data = conn[u].data
        /\ j.h = conn[u].h /\ j.t = [conn[u].t EXCEPT !["r"] = t]
    BY <1>2, <2>1, <2>2, TimerAdd
  <2>4. SameWires(conn[u], j)
    BY <1>2, <2>1, <2>2, TimerWires
  <2>5. PICK k : k = conn[c]
    OBVIOUS
  <2>6. conn' = [conn EXCEPT ![c] = k, ![u] = j]
    BY <1>2, <1>4, <2>1, <2>5
  <2>7. Wired(conn[c]) /\ Wired(conn[u]) /\ SameWires(conn[c], k)
    BY <2>5 DEF Heard, Reg, SameWires
  <2>8. cur'.h # "http_local_send_header"
    BY <1>4 DEF Return
  <2>9. Ready(c, k) /\ Ready(u, j)
    BY <2>3, <2>4, <2>5, <2>7, <2>8, SameGrows DEF Ready
  <2>10. PICK z : z = [tun[t] EXCEPT !.trans = done]
    OBVIOUS
  <2>11. z.down = tun[t].down /\ z.resp = tun[t].resp
    BY <1>2, <2>10 DEF Tunnel
  <2>12. SameTunnel
    BY <1>4, <2>10, <2>11, OneSame
  <2>13. Together(c, k, u, j)
    BY <1>1, <2>6, <2>8, <2>9, <2>12 DEF Together
  <2> QED BY <1>2, <2>13, TogetherHeard
<1>5. CASE tunnel_process_finish(t, [conn EXCEPT ![u] = timer_del(@, "r")])
  <2>1. PICK k : k = timer_del(conn[u], "r")
    OBVIOUS
  <2>2. k \in Connection
    BY <1>2, <2>1, TimerDel DEF Dir
  <2>3. PICK cs \in [Conn -> Connection] : cs = [conn EXCEPT ![u] = k]
    BY <1>2, <2>2
  <2>4. tunnel_process_finish(t, cs)
    BY <1>5, <2>1, <2>3
  <2>5. /\ \A y \in Conn \ {c, u} : cs[y] = conn[y]
        /\ cs[c].used /\ SameWires(conn[c], cs[c])
    BY <1>2, <2>3 DEF SameWires
  <2>6. Answered(t, c, u)
    BY <1>1 DEF Answered
  <2> QED BY <1>1, <2>4, <2>5, <2>6, FinishHeard
<1> QED
  BY <1>1, <1>3, <1>4, <1>5 DEF SendBody

(* http_local_send_body and http_remote_recv_body.                         *)
LEMMA SendBodiesHeard ==
  ASSUME IInv, Heard, http_local_send_body \/ http_remote_recv_body
  PROVE  Heard'
<1>1. cur.h \in {"http_local_send_body", "http_remote_recv_body"}
  <2>1. http_local_send_body => cur.h = "http_local_send_body"
    BY DEF http_local_send_body, In
  <2>2. http_remote_recv_body => cur.h = "http_remote_recv_body"
    BY DEF http_remote_recv_body, In
  <2> QED BY <2>1, <2>2
<1>2. PICK t \in Tun : t = T /\ tun[t].used /\ cur # Return
                         /\ C \in {tun[t].down, tun[t].up}
  BY <1>1, AtDown, AtUp DEF DownHandlers, UpHandlers
<1>3. tun[t].up \in Conn /\ tun[t].resp
  <2>1. CASE cur.h = "http_local_send_body"
    BY <1>2, <2>1, AtDown DEF Needs, DownHandlers, T, C
  <2>2. CASE cur.h = "http_remote_recv_body"
    BY <1>2, <2>2, AtUp DEF Needs, UpHandlers, T, C
  <2> QED BY <1>1, <2>1, <2>2
<1>4. PICK done : SendBody(t, done)
  BY <1>2 DEF http_local_send_body, http_remote_recv_body
<1> QED
  BY <1>1, <1>2, <1>3, <1>4, SendBodyHeard

-----------------------------------------------------------------------------
(* The loop.                                                               *)

(* A client that is taken into the pool.                                   *)
LEMMA AdmitHeard ==
  ASSUME IInv, Heard, NEW c \in Usable, tun' = tun, cur = Return, Greets(c),
         SetConn(c, event_opt([net_alloc(conn[c]) EXCEPT
                                  !.h["r"] = "tunnel_local_init"], "r"))
  PROVE  Heard'
<1>1. c \in Conn /\ conn[c] = FreeConn /\ conn \in [Conn -> Connection]
  BY DEF Usable, IInv, Ownership, TypeOK
<1>2. PICK g \in Handlers : g = "tunnel_local_init"
  BY DEF Handlers, GreetHandlers
<1>3. PICK m, i : m = net_alloc(FreeConn) /\ i = [m EXCEPT !.h["r"] = g]
  OBVIOUS
<1>4. /\ m \in Connection /\ m.used /\ m.data = Null
      /\ m.h = [d \in Dir |-> "NULL"]
  BY <1>3, Allocated
<1>5. SameWires(FreeConn, m)
  BY <1>3, FreeTypes DEF net_alloc, SameWires, Connection
<1>6. /\ i \in Connection /\ i.used /\ i.data = Null
      /\ i.h = [m.h EXCEPT !["r"] = g] /\ SameWires(m, i)
  BY <1>2, <1>3, <1>4 DEF Connection, SameWires
<1>7. Wired(i)
  BY <1>5, <1>6, FreeWired DEF SameWires, Wired
<1>8. PICK k : k = event_opt(i, "r")
  OBVIOUS
<1>9. k.used /\ k.data = Null /\ k.h = i.h
  BY <1>6, <1>8, EventOpt DEF Dir
<1>10. Wired(k) /\ k.f["r"]
  BY <1>6, <1>7, <1>8, OptGrows DEF Dir, Grows
<1>11. \A d \in Dir : k.h[d] # "NULL" => k.f[d]
  BY <1>4, <1>6, <1>9, <1>10 DEF Dir
<1>12. conn' = [conn EXCEPT ![c] = k]
  BY <1>1, <1>2, <1>3, <1>8 DEF SetConn
<1>13. conn'[c] = k /\ \A x \in Conn \ {c} : conn'[x] = conn[x]
  BY <1>1, <1>12
<1>14. cur'.h # "http_local_send_header"
  BY DEF Greets, Return
<1>15. \A x \in Conn : x \in {c} => Reg(x)'
  BY <1>9, <1>10, <1>11, <1>13, <1>14 DEF Reg, Sending
<1>16. Elsewhere({c})
  BY <1>13, <1>14 DEF Elsewhere, Unmoved
<1> QED BY <1>15, <1>16, RegFrame

(* event_accept registers the read event of the client.                    *)
LEMMA AcceptHeard ==
  ASSUME IInv, Heard, event_accept
  PROVE  Heard'
<1>0. cur = Return /\ tun' = tun
  BY DEF event_accept, Idle
<1>1. CASE UNCHANGED <<conn, cur>>
  BY <1>0, <1>1 DEF Heard, Reg, Fresh, Sending
<1>2. ASSUME NEW c \in Usable, tun' = tun, cur = Return,
             SetConn(c, event_opt([net_alloc(conn[c]) EXCEPT
                                     !.h["r"] = "tunnel_local_init"], "r")),
             Call("tunnel_local_init", c)
      PROVE  Heard'
  BY <1>2, AdmitHeard DEF Call, Greets
<1> QED
  BY <1>1, <1>2 DEF event_accept, Idle

(* A step of the loop that changes neither pool: a handler is only called  *)
(* for an event that is registered.                                        *)
Calls ==
  cur' = Return \/ \E c \in Conn, d \in Dir :
                     conn[c].f[d] /\ cur' = [h |-> conn[c].h[d], c |-> c]

(* Heard is kept by such a step.                                           *)
LEMMA PoolsHeard ==
  ASSUME IInv, Heard, conn' = conn, tun' = tun, cur = Return, Calls
  PROVE  Heard'
<1>1. ASSUME NEW x \in Conn PROVE Reg(x)'
  <2>1. Reg(x) /\ ~Fresh(x)
    BY DEF Heard, Fresh, Return
  <2>2. ASSUME Sending(x)' PROVE conn[x].f["w"]
    <3>1. PICK c \in Conn, d \in Dir :
            conn[c].f[d] /\ cur' = [h |-> conn[c].h[d], c |-> c]
      BY <2>2 DEF Calls, Sending, Return
    <3>2. x = c /\ conn[c].h[d] = "http_local_send_header"
      BY <2>2, <3>1 DEF Sending
    <3>3. d # "r"
      BY <3>2 DEF IInv, Sides, ReadHandlers
    <3> QED BY <3>1, <3>2, <3>3 DEF Dir
  <2> QED BY <2>1, <2>2 DEF Reg
<1> QED BY <1>1 DEF Heard

(* epoll_wait.                                                             *)
LEMMA WaitHeard ==
  ASSUME IInv, Heard, epoll_wait
  PROVE  Heard'
<1>1. PICK B : conn' = [c \in Conn |-> [conn[c] EXCEPT
                          !.edge = @ /\ <<c, "w">> \notin B]]
  BY DEF epoll_wait
<1>2. tun' = tun /\ cur' = Return /\ cur = Return
  BY DEF epoll_wait, Sleeping, Idle
<1>3. ASSUME NEW c \in Conn PROVE Reg(c)'
  <2>1. PICK k \in Connection : k = conn[c]
    BY DEF IInv, TypeOK
  <2>2. PICK j : j = conn'[c]
    OBVIOUS
  <2>3. PICK e : j = [k EXCEPT !.edge = e]
    BY <1>1, <2>1, <2>2
  <2>4. j.used = k.used /\ j.data = k.data /\ j.h = k.h /\ SameWires(k, j)
    BY <2>1, <2>3 DEF Connection, SameWires
  <2>5. Reg(c) /\ ~Fresh(c) /\ ~Sending(c)'
    BY <1>2 DEF Heard, Fresh, Sending, Return
  <2>6. Wired(j)
    BY <2>1, <2>4, <2>5 DEF Reg, SameWires, Wired
  <2> QED BY <1>2, <2>1, <2>2, <2>4, <2>5, <2>6 DEF Reg, SameWires
<1> QED BY <1>3 DEF Heard

(* timer_expire.                                                           *)
LEMMA ExpireHeard ==
  ASSUME IInv, Heard, NEW c \in Conn, NEW d \in Dir, timer_expire(c, d)
  PROVE  Heard'
BY CloseHeard, OverHeard DEF timer_expire, Sleeping, Idle

(* Every step of the worker leaves every handler registered.               *)
LEMMA HeardStep ==
  ASSUME IInv, Ways, Heard, [Next]_vars
  PROVE  Heard'
<1>1. CASE Greet
  BY <1>1, LocalInitHeard, SslHeard, LocalHandshakeHeard, LocalStartHeard
     DEF Greet
<1>2. CASE Request
  BY <1>2, ProcessRequestHeard, ProcessProcotolHeard, ProcessBodyHeard
     DEF Request
<1>3. CASE Connect
  BY <1>3, RemoteInitHeard, ConnectStartHeard, ConnectCheckHeard,
     RemoteHandshakeHeard, StartHeard DEF Connect
<1>4. CASE Relay
  BY <1>4, HttpsConnectedHeard, HttpsStartHeard, TransportsHeard DEF Relay
<1>5. CASE Respond
  BY <1>5, RemoteSendHeard, RecvHeaderHeard, SendHeaderHeard,
     SendBodiesHeard DEF Respond
<1>6. CASE Loop
  <2>1. CASE epoll_wait
    BY <2>1, WaitHeard
  <2>2. CASE event_loop_accept
    BY <2>2, PoolsHeard DEF event_loop_accept, Idle, Calls
  <2>3. CASE event_accept
    BY <2>3, AcceptHeard
  <2>4. ASSUME NEW c \in Conn, event_loop_skip(c) PROVE Heard'
    BY <2>4, PoolsHeard DEF event_loop_skip, Idle, Calls
  <2>5. ASSUME NEW c \in Conn, event_loop_read(c) PROVE Heard'
    BY <2>5, PoolsHeard DEF event_loop_read, Dispatch, Dir, Idle, Calls
  <2>6. ASSUME NEW c \in Conn, event_loop_write(c) PROVE Heard'
    BY <2>6, PoolsHeard DEF event_loop_write, Dispatch, Dir, Idle, Calls
  <2>7. ASSUME NEW c \in Conn, NEW d \in Dir, timer_expire(c, d)
        PROVE  Heard'
    BY <2>7, ExpireHeard
  <2> QED BY <1>6, <2>1, <2>2, <2>3, <2>4, <2>5, <2>6, <2>7 DEF Loop
<1>7. CASE UNCHANGED vars
  BY <1>7 DEF vars, Heard, Reg, Fresh, Sending
<1> QED
  BY <1>1, <1>2, <1>3, <1>4, <1>5, <1>6, <1>7 DEF Next, Handler

(* A worker starts with nothing to call.                                   *)
LEMMA HeardInit ==
  ASSUME Init
  PROVE  Heard
<1>1. \A c \in Conn : conn[c] = FreeConn
  BY DEF Init
<1>2. \A c \in Conn : ~Sending(c)
  BY DEF Init, Sending, Return
<1> QED BY <1>1, <1>2, FreeWired, FreeFacts DEF Heard, Reg

(* Heard says it of a worker at any time, NoDeafHandler of one in its loop. *)
LEMMA HeardNotDeaf == Heard => NoDeafHandler
<1>1. ASSUME Heard, NEW c \in Conn
      PROVE  /\ conn[c].epoll = {d \in Dir : conn[c].f[d]}
             /\ conn[c].active <=> conn[c].epoll # {}
             /\ Idle => \A d \in Dir : conn[c].h[d] # "NULL" =>
                                         d \in conn[c].epoll
  <2>1. Reg(c) /\ (Idle => ~Fresh(c))
    BY <1>1 DEF Heard, Idle, Fresh, Return
  <2> QED BY <2>1 DEF Reg, Wired
<1> QED BY <1>1 DEF NoDeafHandler

(* No handler is deaf: in every mode, with pools of every size, whatever   *)
(* the order of events, timeouts and failures, whenever the worker is back *)
(* in its loop each handler that is left on an event is one that epoll was *)
(* told of, and f_active, active_flag and epoll's interest agree.          *)
THEOREM NeverDeaf == Spec => []NoDeafHandler
<1>1. Init => Ways /\ Heard
  BY SessionInit, HeardInit
<1>2. IInv /\ Ways /\ [Next]_vars => Ways'
  BY SessionStep
<1>3. IInv /\ Ways /\ Heard /\ [Next]_vars => Heard'
  BY HeardStep
<1> QED
  BY <1>1, <1>2, <1>3, HeardNotDeaf, Inductive, PTL DEF Spec
=============================================================================
