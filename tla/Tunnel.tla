------------------------------- MODULE Tunnel -------------------------------
(***************************************************************************)
(* One worker process of k_tunnel serving connections: the connection pool *)
(* (l_net.c), the epoll loop without the accept mutex (l_event.c), the     *)
(* per-event timers (l_timer.c), the SSL handshake (l_ssl.c) and the       *)
(* handler chain that is the tunnel itself (l_tunnel.c).                   *)
(*                                                                         *)
(* A worker is single threaded.  `cur' is the handler that is running; the *)
(* source's tail call `return c->read->handler( c->read )' sets `cur', and *)
(* a return to the event loop makes it Return.  What recv, send, connect,  *)
(* the HTTP parsers and malloc answer is chosen by \E.                     *)
(***************************************************************************)
EXTENDS Naturals, FiniteSets

CONSTANTS
  Conn,      \* pool entries of l_net.c that are left after the listener's
  Tun,       \* pool entries of l_tunnel.c
  Listener,  \* the listening connection
  Null,      \* C's NULL
  Mode,      \* conf.tunnel_mode
  MaxBatch   \* bound: events one epoll_wait returns

(* Both pools have MAXCON entries and the listener occupies one.           *)
ASSUME PoolAssumption ==
  /\ IsFiniteSet(Conn) /\ IsFiniteSet(Tun)
  /\ Cardinality(Tun) >= Cardinality(Conn)

ASSUME NameAssumption ==
  /\ Conn \cap Tun = {}
  /\ Listener \notin Conn
  /\ Null \notin Conn \cup Tun

ASSUME ModeAssumption == Mode \in {"single", "server", "client"}

VARIABLES
  conn,       \* the connection pool
  tun,        \* the tunnel pool
  cur,        \* the running handler and its connection
  batch,      \* epoll events returned and not yet looked at
  half,       \* the entry of batch whose read event was just handled
  accepting   \* inside the loop of event_accept

loopVars == <<batch, half, accepting>>
vars == <<conn, tun, cur, batch, half, accepting>>

Dir == {"r", "w"}
Other(d) == IF d = "r" THEN "w" ELSE "r"

-----------------------------------------------------------------------------
(* Handler names are those of the source.                                  *)
DownHandlers == {
  "tunnel_local_process_request", "tunnel_local_process_procotol",
  "tunnel_local_process_body", "tunnel_remote_init", "https_connected",
  "tunnel_transport_in_recv", "tunnel_transport_out_send",
  "http_local_send_header", "http_local_send_body"}
UpHandlers == {
  "tunnel_remote_connect_start", "tunnel_remote_connect_check",
  "tunnel_remote_handshake_handler", "tunnel_start", "http_remote_send",
  "http_remote_recv_header", "http_remote_recv_body",
  "tunnel_transport_in_send", "tunnel_transport_out_recv"}
GreetHandlers == {
  "tunnel_local_init", "tunnel_local_handshake_handler", "tunnel_local_start"}
Handlers == DownHandlers \cup UpHandlers \cup GreetHandlers
              \cup {"ssl_handshake_handler", "https_start"}

(* A connection as net_free leaves it.  h is the handler, t the timer's    *)
(* data pointer (Null when not armed) and f the f_active flag of each of   *)
(* its two events; epoll is the interest the kernel holds for its fd, edge *)
(* a write-readiness notification that epoll_wait still owes.              *)
FreeConn == [used |-> FALSE, data |-> Null,
             h |-> [d \in Dir |-> "NULL"], t |-> [d \in Dir |-> Null],
             f |-> [d \in Dir |-> FALSE], active |-> FALSE,
             epoll |-> {}, edge |-> FALSE, ssl |-> "none", sslh |-> "NULL"]

(* A tunnel as tunnel_free leaves it.  keep and body are fields of the     *)
(* request head, rbody of the response head (its body_type is not NULL);   *)
(* reqBody and respBody are the two entity bodies, relay the pair of       *)
(* net_transport buffers.                                                  *)
FreeTun == [used |-> FALSE, down |-> Null, up |-> Null, https |-> FALSE,
            req |-> FALSE, keep |-> FALSE, body |-> FALSE, reqBody |-> FALSE,
            resp |-> FALSE, rbody |-> FALSE, respBody |-> FALSE,
            trans |-> FALSE, relay |-> FALSE]

Return == [h |-> "NULL", c |-> Null]
Idle == cur = Return
Call(h, c) == cur' = [h |-> h, c |-> c]
In(h) == cur.h = h

(* The locals `c' and `t' of every handler: ev->data and c->data.          *)
C == cur.c
T == conn[cur.c].data

-----------------------------------------------------------------------------
(* l_event.c, l_net.c, l_ssl.c: operations on one connection.              *)

(* event_opt: nothing when the event is already registered; otherwise one  *)
(* EPOLL_CTL_ADD or, with the other direction registered, EPOLL_CTL_MOD.   *)
event_opt(k, d) ==
  IF k.f[d] THEN k
  ELSE [k EXCEPT !.f[d] = TRUE, !.active = TRUE,
                 !.epoll = {d} \cup (IF k.f[Other(d)] THEN {Other(d)} ELSE {})]

(* Slips of net_free, each keeping one field that it must clear.           *)
net_free_keep_data(k) == [FreeConn EXCEPT !.data = k.data]
net_free_keep_handler(k) == [FreeConn EXCEPT !.h = k.h]
net_free_keep_timer(k) == [FreeConn EXCEPT !.t = k.t]
net_free_keep_active(k) == [FreeConn EXCEPT !.f = k.f]
net_free(k) == FreeConn

net_alloc(k) == [k EXCEPT !.used = TRUE]
Usable_all == Conn              \* slip: the entry stays on the usable queue
Usable == {c \in Conn : ~conn[c].used}

(* ssl_handshake when SSL_do_handshake wants direction d (first a slip that *)
(* loses ssl->handler).                                                    *)
ssl_want_reset(k, d) ==
  event_opt([k EXCEPT !.h[d] = "ssl_handshake_handler",
                      !.h[Other(d)] = "NULL", !.sslh = "NULL"], d)
ssl_want(k, d) ==
  event_opt([k EXCEPT !.h[d] = "ssl_handshake_handler",
                      !.h[Other(d)] = "NULL"], d)

timer_add_lost(k, d, data) == k                 \* slip: the timer is not armed
timer_add(k, d, data) == [k EXCEPT !.t[d] = data]
timer_del(k, d) == [k EXCEPT !.t[d] = Null]

SetConn(c, k) == conn' = [conn EXCEPT ![c] = k]

-----------------------------------------------------------------------------
(* l_tunnel.c: the ways out of a tunnel.                                   *)

(* Always frees: ssl_shutdown answers AGAIN only for a WANT_* that          *)
(* SSL_get_error reports with a non-empty error queue, and OpenSSL reports *)
(* SSL or SYSCALL then.                                                    *)
tunnel_close_connection(c) ==
  /\ SetConn(c, net_free(conn[c]))
  /\ UNCHANGED tun
  /\ cur' = Return

tunnel_over_leak(t) ==                    \* slip: tunnel_free is not reached
  /\ conn' = [c \in Conn |-> IF c \in {tun[t].down, tun[t].up}
                               THEN net_free(conn[c]) ELSE conn[c]]
  /\ UNCHANGED tun
  /\ cur' = Return
tunnel_over_half(t) ==                    \* slip: downstream is not closed
  /\ conn' = [c \in Conn |-> IF c = tun[t].up
                               THEN net_free(conn[c]) ELSE conn[c]]
  /\ tun' = [tun EXCEPT ![t] = FreeTun]
  /\ cur' = Return
tunnel_over(t) ==
  /\ conn' = [c \in Conn |-> IF c \in {tun[t].down, tun[t].up}
                               THEN net_free(conn[c]) ELSE conn[c]]
  /\ tun' = [tun EXCEPT ![t] = FreeTun]
  /\ cur' = Return

(* Return AGAIN with the timer of event (c, d) armed for tunnel T.         *)
Await(c, d) ==
  /\ SetConn(c, timer_add(conn[c], d, T))
  /\ UNCHANGED tun
  /\ cur' = Return

-----------------------------------------------------------------------------
(* Downstream connection before it has a tunnel.                           *)

tunnel_local_init ==
  /\ In("tunnel_local_init")
  /\ UNCHANGED tun
  /\ \/ /\ Mode # "server"                        \* listen type TCP
        /\ SetConn(C, [conn[C] EXCEPT !.h["r"] = "tunnel_local_start"])
        /\ Call("tunnel_local_start", C)
     \/ /\ Mode = "server"                        \* listen type HTTPS
        /\ \/ tunnel_close_connection(C)
           \/ \E d \in Dir :
                /\ SetConn(C, [timer_add(ssl_want(conn[C], d), "r", C) EXCEPT
                       !.ssl = "init",
                       !.sslh = "tunnel_local_handshake_handler"])
                /\ cur' = Return
           \/ /\ SetConn(C, [conn[C] EXCEPT !.ssl = "handshaked"])
              /\ Call("tunnel_local_handshake_handler", C)

(* A later step of a handshake: wants more, or ends well or badly and      *)
(* calls the handler left in ssl->handler.                                 *)
ssl_handshake_handler ==
  /\ In("ssl_handshake_handler")
  /\ UNCHANGED tun
  /\ \/ \E d \in Dir : SetConn(C, ssl_want(conn[C], d)) /\ cur' = Return
     \/ \E s \in {"init", "handshaked"} :
          /\ SetConn(C, [conn[C] EXCEPT !.ssl = s])
          /\ Call(conn[C].sslh, C)

tunnel_local_handshake_handler ==
  /\ In("tunnel_local_handshake_handler")
  /\ \/ /\ conn[C].ssl # "handshaked"
        /\ tunnel_close_connection(C)
     \/ /\ conn[C].ssl = "handshaked"
        /\ SetConn(C, [timer_del(conn[C], "r") EXCEPT
                         !.h = [r |-> "tunnel_local_start", w |-> "NULL"]])
        /\ Call("tunnel_local_start", C)
        /\ UNCHANGED tun

tunnel_local_start ==
  /\ In("tunnel_local_start")
  /\ \/ tunnel_close_connection(C)       \* meta, tunnel or request head alloc
     \/ \E t \in Tun :
          LET next == IF Mode = "client" THEN "tunnel_remote_init"
                      ELSE "tunnel_local_process_request"
          IN /\ ~tun[t].used
             /\ tun' = [tun EXCEPT ![t].used = TRUE, ![t].down = C,
                                   ![t].req = (Mode # "client")]
             /\ SetConn(C, event_opt([timer_del(conn[C], "r") EXCEPT
                      !.data = t, !.h = [r |-> next, w |-> "NULL"]], "r"))
             /\ Call(next, C)

-----------------------------------------------------------------------------
(* The request, read from downstream (modes single and server).            *)

tunnel_local_process_request ==
  /\ In("tunnel_local_process_request")
  /\ \/ tunnel_over(T)                  \* parse error, or CONNECT with a body
     \/ Await(C, "r")
     \/ \E https, keep, body \in BOOLEAN :
          /\ https => ~keep /\ ~body               \* not looked at for CONNECT
          /\ tun' = [tun EXCEPT ![T].https = https, ![T].keep = keep,
                                ![T].body = body]
          /\ SetConn(C, [timer_del(conn[C], "r") EXCEPT
                 !.h["r"] = "tunnel_local_process_procotol"])
          /\ Call("tunnel_local_process_procotol", C)

tunnel_local_process_procotol ==
  LET withBody == ~tun[T].https /\ tun[T].body
      next == IF withBody THEN "tunnel_local_process_body"
              ELSE "tunnel_remote_init"
  IN /\ In("tunnel_local_process_procotol")
     /\ \/ withBody /\ tunnel_over(T)             \* http_entitybody_create
        \/ /\ tun' = [tun EXCEPT ![T].reqBody = @ \/ withBody]
           /\ SetConn(C, [conn[C] EXCEPT !.h["r"] = next])
           /\ Call(next, C)

tunnel_local_process_body ==
  /\ In("tunnel_local_process_body")
  /\ \/ tunnel_over(T)
     \/ Await(C, "r")
     \/ /\ SetConn(C, [timer_del(conn[C], "r") EXCEPT
                         !.h["r"] = "tunnel_remote_init"])
        /\ UNCHANGED tun
        /\ Call("tunnel_remote_init", C)

-----------------------------------------------------------------------------
(* The upstream connection.                                                *)

tunnel_remote_init ==
  /\ In("tunnel_remote_init")
  /\ \/ tunnel_over(T)               \* net_alloc, meta_alloc or getaddrinfo
     \/ \E u \in Usable :
          /\ tun' = [tun EXCEPT ![T].up = u]
          /\ conn' = [conn EXCEPT
                 ![C] = [timer_del(conn[C], "r") EXCEPT
                           !.h = [d \in Dir |-> "NULL"]],
                 ![u] = [net_alloc(conn[u]) EXCEPT !.data = T,
                           !.h = [r |-> "NULL",
                                  w |-> "tunnel_remote_connect_start"]]]
          /\ Call("tunnel_remote_connect_start", u)

tunnel_remote_connect_start ==
  LET k == event_opt([conn[C] EXCEPT
                        !.h["w"] = "tunnel_remote_connect_check"], "w")
  IN /\ In("tunnel_remote_connect_start")
     /\ \/ tunnel_over(T)
        \/ /\ SetConn(C, timer_add(k, "w", T))     \* EINPROGRESS
           /\ UNCHANGED tun
           /\ cur' = Return
        \/ /\ SetConn(C, k)
           /\ UNCHANGED tun
           /\ Call("tunnel_remote_connect_check", C)

tunnel_remote_connect_check ==
  LET k == timer_del(conn[C], "w")
  IN /\ In("tunnel_remote_connect_check")
     /\ \/ tunnel_over(T)               \* SO_ERROR, or the handshake fails
        \/ /\ Mode # "client"
           /\ SetConn(C, [k EXCEPT !.h["w"] = "tunnel_start"])
           /\ UNCHANGED tun
           /\ Call("tunnel_start", C)
        \/ /\ Mode = "client"
           /\ UNCHANGED tun
           /\ \/ \E d \in Dir :
                   /\ SetConn(C, [timer_add(ssl_want(k, d), "w", T) EXCEPT
                          !.ssl = "init",
                          !.sslh = "tunnel_remote_handshake_handler"])
                   /\ cur' = Return
              \/ /\ SetConn(C, [k EXCEPT !.ssl = "handshaked"])
                 /\ Call("tunnel_remote_handshake_handler", C)

tunnel_remote_handshake_handler ==
  /\ In("tunnel_remote_handshake_handler")
  /\ \/ /\ conn[C].ssl # "handshaked"
        /\ tunnel_over(T)
     \/ /\ conn[C].ssl = "handshaked"
        /\ SetConn(C, [timer_del(conn[C], "w") EXCEPT
                         !.h = [r |-> "NULL", w |-> "https_start"]])
        /\ UNCHANGED tun
        /\ Call("https_start", C)

(* Upstream is connected: send the request on, or answer a CONNECT.        *)
tunnel_start ==
  LET down == tun[T].down
  IN /\ In("tunnel_start")
     /\ UNCHANGED tun
     /\ \/ /\ ~tun[T].https
           /\ conn' = [conn EXCEPT
                  ![down].h = [d \in Dir |-> "NULL"],
                  ![C].h = [r |-> "NULL", w |-> "http_remote_send"]]
           /\ Call("http_remote_send", C)
        \/ /\ tun[T].https
           /\ conn' = [conn EXCEPT
                  ![down] = event_opt([@ EXCEPT !.h["w"] = "https_connected"],
                                      "w"),
                  ![C].h = [d \in Dir |-> "NULL"]]
           /\ Call("https_connected", down)

-----------------------------------------------------------------------------
(* CONNECT: the 200 answer, then bytes both ways.                          *)

https_connected ==
  /\ In("https_connected")
  /\ \/ tunnel_over(T)
     \/ Await(C, "w")
     \/ /\ SetConn(C, [timer_del(conn[C], "w") EXCEPT !.h["r"] = "https_start"])
        /\ UNCHANGED tun
        /\ Call("https_start", C)

(* The four event_opt are the only thing that will wake the relay: one of  *)
(* them that issues EPOLL_CTL_MOD for a socket to which nothing was sent   *)
(* yet makes the kernel report it writable.                                *)
RelayConn_quiet(k, rh, wh) ==            \* slip: event_opt for reading only
  [event_opt(k, "r") EXCEPT !.h = [r |-> rh, w |-> wh]]
RelayConn(k, rh, wh) ==
  LET opted == event_opt(event_opt(k, "r"), "w")
  IN [opted EXCEPT !.h = [r |-> rh, w |-> wh],
                       !.edge = opted.epoll # k.epoll /\ k.ssl = "none"]

https_start ==
  LET down == tun[T].down
      up   == tun[T].up
  IN /\ In("https_start")
     /\ \/ tunnel_over(T)                         \* net_transport_alloc
        \/ /\ tun' = [tun EXCEPT ![T].relay = TRUE]
           /\ conn' = [conn EXCEPT
                  ![down] = RelayConn(@, "tunnel_transport_in_recv",
                                         "tunnel_transport_out_send"),
                  ![up] = RelayConn(@, "tunnel_transport_out_recv",
                                       "tunnel_transport_in_send")]
           /\ cur' = Return

(* net_transport moves what it can and fails when its peer is gone; both  *)
(* ends of a direction re-arm the read timer of the side it reads from.    *)
tunnel_transport_out ==
  /\ cur.h \in {"tunnel_transport_out_recv", "tunnel_transport_out_send"}
  /\ \/ tunnel_over(T)
     \/ Await(tun[T].up, "r")

tunnel_transport_in ==
  /\ cur.h \in {"tunnel_transport_in_recv", "tunnel_transport_in_send"}
  /\ \/ tunnel_over(T)
     \/ Await(tun[T].down, "r")

-----------------------------------------------------------------------------
(* Any other request: send it, read the response head, relay the response. *)

http_remote_send ==
  /\ In("http_remote_send")
  /\ \/ tunnel_over(T)
     \/ Await(C, "w")
     \/ /\ SetConn(C, event_opt([timer_del(conn[C], "w") EXCEPT
              !.h = [r |-> "http_remote_recv_header", w |-> "NULL"]], "r"))
        /\ tun' = [tun EXCEPT ![T].resp = TRUE]
        /\ Call("http_remote_recv_header", C)

http_remote_recv_header ==
  LET down == tun[T].down
  IN /\ In("http_remote_recv_header")
     /\ \/ tunnel_over(T)
        \/ Await(C, "r")
        \/ \E rbody \in BOOLEAN :
             /\ tun' = [tun EXCEPT ![T].rbody = rbody]
             /\ conn' = [conn EXCEPT
                    ![C] = [timer_del(@, "r") EXCEPT
                              !.h = [d \in Dir |-> "NULL"]],
                    ![down] = event_opt([@ EXCEPT
                              !.h["w"] = "http_local_send_header"], "w")]
             /\ Call("http_local_send_header", down)

(* tunnel_process_finish of tunnel t, whose connections are cs: the end of *)
(* a response.  Without keep-alive both sides close; with it upstream      *)
(* closes and a new tunnel reads the next request from downstream.         *)
tunnel_process_finish(t, cs) ==
  LET down   == tun[t].down
      up     == tun[t].up
      closed == [tun EXCEPT ![t] = FreeTun]
      over   == [c \in Conn |-> IF c \in {down, up} THEN net_free(cs[c])
                               ELSE cs[c]]
  IN \/ /\ ~tun[t].keep
        /\ conn' = over
        /\ tun' = closed
        /\ cur' = Return
     \/ /\ tun[t].keep
        /\ \/ /\ conn' = over            \* tunnel or request head alloc fails
              /\ tun' = closed
              /\ cur' = Return
           \/ \E n \in Tun :
                /\ ~closed[n].used
                /\ tun' = [closed EXCEPT ![n].used = TRUE, ![n].down = down,
                                         ![n].req = TRUE]
                /\ conn' = [cs EXCEPT
                       ![up] = net_free(@),
                       ![down].data = n,
                       ![down].h = [r |-> "tunnel_local_process_request",
                                    w |-> "NULL"]]
                /\ Call("tunnel_local_process_request", down)

http_local_send_header ==
  LET up   == tun[T].up
      sent == [conn EXCEPT ![C] = timer_del(@, "w")]
  IN /\ In("http_local_send_header")
     /\ \/ tunnel_over(T)
        \/ Await(C, "w")
        \/ ~tun[T].rbody /\ tunnel_process_finish(T, sent)
        \/ /\ tun[T].rbody
           /\ tun' = [tun EXCEPT ![T].respBody = TRUE]
           /\ conn' = [sent EXCEPT ![C].h["w"] = "http_local_send_body",
                                   ![up].h["r"] = "http_remote_recv_body"]
           /\ Call("http_remote_recv_body", up)

(* http_body_transport( t, 1 ), its inner loop: everything buffered goes   *)
(* out (and the response is complete when trans_body_done), or the socket  *)
(* takes no more, or it fails.                                             *)
SendBody(t, done) ==
  LET up == tun[t].up
  IN \/ tunnel_over(t)
     \/ /\ conn' = [conn EXCEPT ![up] = timer_add(@, "r", t)]
        /\ tun' = [tun EXCEPT ![t].trans = done]
        /\ cur' = Return
     \/ /\ done
        /\ tunnel_process_finish(t, [conn EXCEPT ![up] = timer_del(@, "r")])

http_local_send_body ==
  /\ In("http_local_send_body")
  /\ SendBody(T, tun[T].trans)

http_remote_recv_body ==
  /\ In("http_remote_recv_body")
  /\ \E done \in {tun[T].trans, TRUE} : SendBody(T, done)

-----------------------------------------------------------------------------
(* l_event.c and l_timer.c: the worker's loop.                             *)

(* Nothing runs and the last batch of events is dealt with: the worker is  *)
(* between timer_expire and epoll_wait.                                    *)
Sleeping == Idle /\ batch = {} /\ ~accepting

(* timer_expire: the timer is taken off and its handler called with its    *)
(* data, tunnel_time_out_connection for a connection and tunnel_time_out   *)
(* for a tunnel.                                                           *)
timer_expire(c, d) ==
  /\ Sleeping
  /\ conn[c].t[d] # Null
  /\ \/ conn[c].t[d] \in Conn /\ tunnel_close_connection(conn[c].t[d])
     \/ conn[c].t[d] \in Tun /\ tunnel_over(conn[c].t[d])
  /\ UNCHANGED loopVars

(* epoll_wait returns some of the registered events; an event reported is  *)
(* not owed any more.                                                      *)
epoll_wait ==
  /\ Sleeping
  /\ \E B \in SUBSET ({<<Listener, "r">>} \cup
                       UNION {{c} \X conn[c].epoll : c \in Conn}) :
       /\ B # {} /\ Cardinality(B) <= MaxBatch
       /\ batch' = B
       /\ conn' = [c \in Conn |-> [conn[c] EXCEPT
                     !.edge = @ /\ <<c, "w">> \notin B]]
  /\ UNCHANGED <<tun, cur, half, accepting>>

Dispatch(c, d) ==
  /\ batch' = batch \ {<<c, d>>}
  /\ cur' = IF conn[c].f[d] /\ conn[c].h[d] # "NULL"
              THEN [h |-> conn[c].h[d], c |-> c] ELSE Return

(* event_loop on one entry of the batch: passed over when the connection   *)
(* was freed meanwhile, otherwise its read event and then its write event. *)
event_loop_skip(c) ==
  /\ Idle /\ ~accepting /\ half = Null
  /\ batch \cap ({c} \X Dir) # {}
  /\ ~conn[c].active
  /\ batch' = batch \ ({c} \X Dir)
  /\ UNCHANGED <<conn, tun, cur, half, accepting>>

event_loop_read(c) ==
  /\ Idle /\ ~accepting /\ half = Null
  /\ <<c, "r">> \in batch /\ conn[c].active
  /\ Dispatch(c, "r")
  /\ half' = IF <<c, "w">> \in batch THEN c ELSE Null
  /\ UNCHANGED <<conn, tun, accepting>>

event_loop_write(c) ==
  /\ Idle /\ ~accepting
  /\ <<c, "w">> \in batch
  /\ half = c \/ (half = Null /\ <<c, "r">> \notin batch /\ conn[c].active)
  /\ Dispatch(c, "w")
  /\ half' = Null
  /\ UNCHANGED <<conn, tun, accepting>>

event_loop_accept ==
  /\ Idle /\ ~accepting /\ half = Null
  /\ <<Listener, "r">> \in batch
  /\ batch' = batch \ {<<Listener, "r">>}
  /\ accepting' = TRUE
  /\ UNCHANGED <<conn, tun, cur, half>>

(* event_accept, once per connection that accept() returns; a client for   *)
(* which the pool has no entry is closed and ends the loop, as EAGAIN does.*)
event_accept ==
  /\ Idle /\ accepting
  /\ \/ /\ accepting' = FALSE
        /\ UNCHANGED <<conn, cur>>
     \/ \E c \in Usable :
          /\ SetConn(c, event_opt([net_alloc(conn[c]) EXCEPT
                                     !.h["r"] = "tunnel_local_init"], "r"))
          /\ Call("tunnel_local_init", c)
          /\ UNCHANGED accepting
  /\ UNCHANGED <<tun, batch, half>>

-----------------------------------------------------------------------------
Greet ==
  \/ tunnel_local_init \/ ssl_handshake_handler
  \/ tunnel_local_handshake_handler \/ tunnel_local_start

Request ==
  \/ tunnel_local_process_request \/ tunnel_local_process_procotol
  \/ tunnel_local_process_body

Connect ==
  \/ tunnel_remote_init \/ tunnel_remote_connect_start
  \/ tunnel_remote_connect_check \/ tunnel_remote_handshake_handler
  \/ tunnel_start

Relay ==
  \/ https_connected \/ https_start
  \/ tunnel_transport_in \/ tunnel_transport_out

Respond ==
  \/ http_remote_send \/ http_remote_recv_header
  \/ http_local_send_header \/ http_local_send_body \/ http_remote_recv_body

Handler == (Greet \/ Request \/ Connect \/ Relay \/ Respond)
             /\ UNCHANGED loopVars

Loop ==
  \/ epoll_wait \/ event_loop_accept \/ event_accept
  \/ \E c \in Conn :
       \/ event_loop_skip(c) \/ event_loop_read(c) \/ event_loop_write(c)
       \/ \E d \in Dir : timer_expire(c, d)

Init ==
  /\ conn = [c \in Conn |-> FreeConn]
  /\ tun = [t \in Tun |-> FreeTun]
  /\ cur = Return
  /\ batch = {} /\ half = Null /\ accepting = FALSE

Next == Handler \/ Loop

Spec == Init /\ [][Next]_vars

(* The worker runs as long as it has something to run, timer_expire comes  *)
(* to every armed timer that is not re-armed, and the kernel delivers the  *)
(* notifications it owes.  Nothing is assumed of the peers.                *)
OwedEvent(c) == conn[c].edge /\ epoll_wait /\ <<c, "w">> \in batch'
Running ==
  \/ Handler \/ event_loop_accept \/ event_accept
  \/ \E c \in Conn :
       event_loop_skip(c) \/ event_loop_read(c) \/ event_loop_write(c)

FairSpec ==
  /\ Spec
  /\ WF_vars(Running)
  /\ \A c \in Conn :
       /\ WF_vars(OwedEvent(c))
       /\ \A d \in Dir : WF_vars(timer_expire(c, d))

-----------------------------------------------------------------------------
(* Properties.                                                             *)

Timer == Conn \cup Tun \cup {Null}
Connection == [
  used : BOOLEAN, data : Tun \cup {Null}, h : [Dir -> Handlers \cup {"NULL"}],
  t : [Dir -> Timer], f : [Dir -> BOOLEAN], active : BOOLEAN,
  epoll : SUBSET Dir, edge : BOOLEAN, ssl : {"none", "init", "handshaked"},
  sslh : {"NULL", "tunnel_local_handshake_handler",
          "tunnel_remote_handshake_handler"}]
Tunnel == [
  used : BOOLEAN, down : Conn \cup {Null}, up : Conn \cup {Null},
  https : BOOLEAN, req : BOOLEAN, keep : BOOLEAN, body : BOOLEAN,
  reqBody : BOOLEAN, resp : BOOLEAN, rbody : BOOLEAN, respBody : BOOLEAN,
  trans : BOOLEAN, relay : BOOLEAN]

(* The variables have their types.                                         *)
TypeOK ==
  /\ conn \in [Conn -> Connection]
  /\ tun \in [Tun -> Tunnel]
  /\ cur \in {Return} \cup [h : Handlers, c : Conn]
  /\ batch \subseteq (Conn \cup {Listener}) \X Dir
  /\ half \in Conn \cup {Null}
  /\ accepting \in BOOLEAN

(* A tunnel in use and its connections refer to each other and to nothing  *)
(* else: no connection is shared, leaked or left behind when tunnel_over,  *)
(* tunnel_process_finish or a timeout takes a tunnel down.                 *)
Ownership ==
  /\ \A t \in Tun :
       IF tun[t].used
         THEN /\ tun[t].down \in Conn /\ conn[tun[t].down].data = t
              /\ tun[t].up \in Conn => conn[tun[t].up].data = t
              /\ tun[t].up # tun[t].down
         ELSE tun[t] = FreeTun
  /\ \A c \in Conn :
       /\ ~conn[c].used => conn[c] = FreeConn
       /\ conn[c].data # Null =>
            /\ conn[c].used /\ tun[conn[c].data].used
            /\ c \in {tun[conn[c].data].down, tun[conn[c].data].up}

(* What handler h dereferences when it runs on connection c is there.      *)
Needs(h, c) ==
  LET t == conn[c].data
  IN /\ h \in GreetHandlers => t = Null
     /\ h \in DownHandlers => t \in Tun /\ tun[t].down = c
     /\ h \in UpHandlers => t \in Tun /\ tun[t].up = c
     /\ h = "https_start" => t \in Tun /\ tun[t].up \in Conn
     /\ h \in {"tunnel_local_process_request",
              "tunnel_local_process_procotol", "tunnel_local_process_body"} =>
          tun[t].req /\ tun[t].up = Null
     /\ h = "tunnel_local_process_body" => tun[t].reqBody
     /\ h = "tunnel_remote_init" => tun[t].up = Null
     /\ h \in {"https_connected", "http_local_send_header",
              "http_local_send_body", "tunnel_transport_in_recv",
              "tunnel_transport_out_send"} => tun[t].up \in Conn
     /\ h \in {"tunnel_transport_in_recv", "tunnel_transport_in_send",
              "tunnel_transport_out_recv", "tunnel_transport_out_send"} =>
          tun[t].relay
     /\ h \in {"http_remote_recv_header", "http_local_send_header",
              "http_local_send_body", "http_remote_recv_body"} =>
          tun[t].resp /\ tun[t].req
     /\ h \in {"http_local_send_body", "http_remote_recv_body"} =>
          tun[t].respBody
     /\ h \in {"tunnel_start", "http_remote_send"} => tun[t].req
     /\ h = "ssl_handshake_handler" =>
          /\ conn[c].ssl # "none"
          /\ IF t = Null
               THEN conn[c].sslh = "tunnel_local_handshake_handler"
               ELSE /\ tun[t].up = c
                    /\ conn[c].sslh = "tunnel_remote_handshake_handler"

SafeEvents(c) ==
  \A d \in Dir :
    conn[c].h[d] # "NULL" => conn[c].used /\ Needs(conn[c].h[d], c)

(* The running handler and every handler an event or a stale epoll entry   *)
(* could call finds its connection in use, its tunnel, and each head, body *)
(* and buffer it dereferences: whatever the order of events, timeouts and  *)
(* reuse of pool entries, no NULL or freed object is followed.             *)
NoWildHandler ==
  /\ ~Idle => conn[cur.c].used /\ Needs(cur.h, cur.c)
  /\ \A c \in Conn : SafeEvents(c)

(* What Ownership and NoWildHandler need besides each other to be kept by  *)
(* every step: which event a handler may be left on, a request head in     *)
(* every tunnel of a worker that parses requests (and in no other), and a  *)
(* handshake timer only on a client that has no tunnel yet.                *)
ReadHandlers == {"NULL", "tunnel_local_init", "tunnel_local_start",
  "tunnel_local_process_request", "tunnel_local_process_procotol",
  "tunnel_local_process_body", "tunnel_remote_init", "ssl_handshake_handler",
  "https_start", "tunnel_transport_in_recv", "tunnel_transport_out_recv",
  "http_remote_recv_header", "http_remote_recv_body"}
WriteHandlers == {"NULL", "tunnel_remote_connect_start",
  "tunnel_remote_connect_check", "tunnel_start", "ssl_handshake_handler",
  "https_start", "https_connected", "tunnel_transport_in_send",
  "tunnel_transport_out_send", "http_remote_send", "http_local_send_header",
  "http_local_send_body"}
Sides(k) == k.h["r"] \in ReadHandlers /\ k.h["w"] \in WriteHandlers
HandshakeTimers(k, c) ==
  \A d \in Dir : k.t[d] \in Conn => d = "r" /\ k.t[d] = c /\ k.data = Null
RequestHeads ==
  \A t \in Tun : tun[t].used => (tun[t].req <=> Mode # "client")
IInv ==
  /\ TypeOK /\ Ownership /\ NoWildHandler
  /\ RequestHeads
  /\ \A c \in Conn : Sides(conn[c]) /\ HandshakeTimers(conn[c], c)

(* Whenever the worker is back in its loop, a handler left on an event is  *)
(* one the kernel will report: f_active, active_flag and the interest held *)
(* by epoll agree also for entries that were freed and reused.             *)
NoDeafHandler ==
  \A c \in Conn :
    /\ conn[c].epoll = {d \in Dir : conn[c].f[d]}
    /\ conn[c].active <=> conn[c].epoll # {}
    /\ Idle => \A d \in Dir : conn[c].h[d] # "NULL" => d \in conn[c].epoll

(* An armed timer belongs to a connection in use and its data is that      *)
(* connection's tunnel, or the connection itself while it has none: it can *)
(* neither close another client's tunnel nor outlive its own.              *)
TimersOwned ==
  \A c \in Conn, d \in Dir :
    conn[c].t[d] # Null =>
      /\ conn[c].used
      /\ conn[c].t[d] = IF conn[c].data = Null THEN c ELSE conn[c].data

(* No wait is unbounded: when the worker goes to sleep in epoll_wait every *)
(* tunnel in use has a timer armed, or is a relay that epoll owes a        *)
(* write-readiness event (which arms one); a client without a tunnel is in *)
(* its SSL handshake with the handshake timer armed.                       *)
Timed(c) == conn[c].t # [d \in Dir |-> Null]
EveryWaitTimed ==
  Sleeping =>
    /\ \A t \in Tun : tun[t].used =>
         \E c \in {tun[t].down, tun[t].up} \ {Null} :
           \/ Timed(c)
           \/ tun[t].relay /\ conn[c].edge
    /\ \A c \in Conn : conn[c].used /\ conn[c].data = Null =>
         conn[c].ssl = "init" /\ conn[c].t["r"] = c

(* tunnel_alloc never finds its pool empty, nor http_entitybody_create its *)
(* own (MAXCON bodies for MAXCON tunnels of up to two bodies each): the    *)
(* connection pool is always the first to run out.                         *)
PoolsSuffice ==
  LET bodies == Cardinality({t \in Tun : tun[t].reqBody})
                  + Cardinality({t \in Tun : tun[t].respBody})
  IN /\ In("tunnel_local_start") => \E t \in Tun : ~tun[t].used
     /\ In("tunnel_local_process_procotol") \/ In("http_local_send_header") =>
          bodies < Cardinality(Tun)

(* One step of the worker changes the connections, handlers and timers of  *)
(* at most one tunnel in use: nothing that happens to one client or to its *)
(* upstream is done to another's.                                          *)
Touched(t) ==
  tun[t].used /\ \/ tun'[t] # tun[t]
                 \/ \E c \in {tun[t].down, tun[t].up} \ {Null} :
                      <<conn'[c].used, conn'[c].data, conn'[c].h, conn'[c].t>>
                        # <<conn[c].used, conn[c].data, conn[c].h, conn[c].t>>
Isolation ==
  [][\A t1, t2 \in Tun : Touched(t1) /\ Touched(t2) => t1 = t2]_vars

(* When from some point on the peers are silent (epoll reports only what it *)
(* owed, no client is waiting in accept and no further request has been    *)
(* received) every connection is given back to the pool: no path through   *)
(* the handlers leaves a client or an upstream hanging for ever.           *)
PeersSilent ==
  /\ \A e \in batch' \ batch : e[2] = "w" /\ conn[e[1]].edge
  /\ Idle /\ accepting => ~accepting'
  /\ In("tunnel_local_process_request") =>
       cur'.h # "tunnel_local_process_procotol"
Drains ==
  <>[][PeersSilent]_vars => <>[](\A c \in Conn : ~conn[c].used)

(* The worker keeps the promise of Sessions, each step being one of its    *)
(* steps for one client, or none: an upstream connection is in the hands   *)
(* of one client from tunnel_remote_init to the end of its answer.         *)
Phase(k, c) ==
  IF ~k.used THEN "free"
  ELSE IF k.data = Null THEN "greet"
  ELSE IF tun[k.data].up = c THEN "upstream"
  ELSE IF tun[k.data].up = Null THEN "request"
  ELSE IF tun[k.data].relay THEN "relay"
  ELSE IF tun[k.data].resp THEN "respond" ELSE "connect"
Peer(k, c) ==
  IF k.data # Null /\ tun[k.data].down = c THEN tun[k.data].up ELSE Null
Service == INSTANCE Sessions WITH
             phase <- [c \in Conn |-> Phase(conn[c], c)],
             peer  <- [c \in Conn |-> Peer(conn[c], c)]
Implements == Service!Spec
=============================================================================
