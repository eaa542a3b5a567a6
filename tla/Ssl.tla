-------------------------------- MODULE Ssl --------------------------------
(***************************************************************************)
(* The SSL connections of a worker (l_ssl.c) under the handlers l_tunnel.c *)
(* gives their events: the clients of a server-mode worker, the upstreams  *)
(* of a client-mode one.                                                   *)
(*                                                                         *)
(* ssl_read and ssl_write may want the other event than their own while a  *)
(* renegotiation goes on.  They then put a handler on that event that      *)
(* calls the one they are called by, and give the old one back when they   *)
(* succeed.  OpenSSL's queue of errors is the process's, not a             *)
(* connection's: SSL_get_error answers an error while one is in it.        *)
(***************************************************************************)
CONSTANT Conn

VARIABLES
  mode,    \* conf.tunnel_mode
  conn,    \* every connection with its ssl_connection_t
  errors,  \* OpenSSL's error queue is not empty
  worker   \* running, or lost in calls of handlers

vars == <<mode, conn, errors, worker>>

-----------------------------------------------------------------------------
Handler == {"NULL", "ssl_handshake_handler", "ssl_shutdown_handler",
            "ssl_read_handler", "ssl_write_handler",
            "tunnel_local_process_request", "tunnel_local_process_body",
            "http_local_send_header", "http_local_send_body",
            "https_connected", "tunnel_transport_in_recv",
            "tunnel_transport_out_send", "tunnel_transport_out_recv",
            "tunnel_transport_in_send"}

(* What l_tunnel.c has the connection for at present.                      *)
Stage == {"free", "handshake", "request", "body", "idle", "header",
          "answer", "connected", "relay", "shutdown"}

Conns ==
  [stage : Stage,
   rh : Handler, wh : Handler,          \* read->handler, write->handler
   old_r : Handler, old_w : Handler,    \* old_read_handler, old_write_handler
   f_active : SUBSET {"read", "write"},
   unsent : BOOLEAN,                    \* there are bytes for ssl_write
   ended : BOOLEAN,                     \* the relay does not read any more
   renegotiates : BOOLEAN]              \* SSL_in_init after the handshake

Free == [stage |-> "free", rh |-> "NULL", wh |-> "NULL", old_r |-> "NULL",
         old_w |-> "NULL", f_active |-> {}, unsent |-> FALSE,
         ended |-> FALSE, renegotiates |-> FALSE]

event_opt(k, d) == [k EXCEPT !.f_active = @ \cup {d}]

-----------------------------------------------------------------------------
(* OpenSSL, as far as l_ssl.c can tell: what a call answers, whether the   *)
(* connection renegotiates after it, and the error queue.  Only a read     *)
(* learns that the peer wants to; a handshake, also this one, clears the   *)
(* queue when it goes on.                                                  *)
Answers(k, e, answer, renegs) ==
  {[answer |-> answer, renegotiates |-> r,
    errors |-> e /\ ~k.renegotiates /\ ~r] : r \in renegs}
Failures(k, e) ==
  {[answer |-> "SSL_ERROR_SSL", renegotiates |-> k.renegotiates,
    errors |-> TRUE],
   [answer |-> "SSL_ERROR_ZERO_RETURN", renegotiates |-> k.renegotiates,
    errors |-> e /\ ~k.renegotiates]}

SSL_read(k, e) ==
  Answers(k, e, "bytes", {FALSE})
    \cup Answers(k, e, "SSL_ERROR_WANT_READ", BOOLEAN)
    \cup Answers(k, e, "SSL_ERROR_WANT_WRITE", {TRUE})
    \cup Failures(k, e)

SSL_write(k, e) ==
  Answers(k, e, "bytes", {FALSE})
    \cup Answers(k, e, "SSL_ERROR_WANT_WRITE", {FALSE, k.renegotiates})
    \cup Answers(k, e, "SSL_ERROR_WANT_READ",
                 IF k.renegotiates THEN {TRUE} ELSE {})
    \cup Failures(k, e)

SSL_get_error(a) == IF a.errors THEN "SSL_ERROR_SSL" ELSE a.answer

-----------------------------------------------------------------------------
(* l_ssl.c.                                                                *)

(* ssl_read has bytes: the write handler is given back (slip: and also     *)
(* kept).                                                                  *)
RestoreWrite_kept(k) ==
  IF k.old_w # "NULL" THEN [k EXCEPT !.wh = k.old_w] ELSE k
RestoreWrite(k) ==
  IF k.old_w # "NULL" THEN [k EXCEPT !.wh = k.old_w, !.old_w = "NULL"] ELSE k
RestoreRead(k) ==
  IF k.old_r # "NULL" THEN [k EXCEPT !.rh = k.old_r, !.old_r = "NULL"] ELSE k

(* A handler that was NULL when it was replaced cannot be told from none:  *)
(* ssl_write_handler itself is saved when the same happens again.          *)
SwapWrite(k) ==
  IF k.old_w = "NULL"
    THEN [k EXCEPT !.old_w = k.wh, !.wh = "ssl_write_handler"] ELSE k
SwapRead(k) ==
  IF k.old_r = "NULL"
    THEN [k EXCEPT !.old_r = k.rh, !.rh = "ssl_read_handler"] ELSE k

Return(rc, k, e) == [rc |-> rc, k |-> k, errors |-> e]

ssl_read(k, e) ==
  {LET j == [k EXCEPT !.renegotiates = a.renegotiates]
       sslerr == SSL_get_error(a)
   IN  IF a.answer = "bytes" THEN Return("DONE", RestoreWrite(j), a.errors)
       ELSE IF sslerr = "SSL_ERROR_WANT_READ"
         THEN Return("AGAIN", j, a.errors)
       ELSE IF sslerr = "SSL_ERROR_WANT_WRITE"
         THEN Return("AGAIN", SwapWrite(j), a.errors)
       ELSE Return("ERROR", j, a.errors) : a \in SSL_read(k, e)}

ssl_write(k, e) ==
  {LET j == [k EXCEPT !.renegotiates = a.renegotiates]
       sslerr == SSL_get_error(a)
   IN  IF a.answer = "bytes" THEN Return("DONE", RestoreRead(j), a.errors)
       ELSE IF sslerr = "SSL_ERROR_WANT_WRITE"
         THEN Return("AGAIN", j, a.errors)
       ELSE IF sslerr = "SSL_ERROR_WANT_READ"
         THEN Return("AGAIN", SwapRead(j), a.errors)
       ELSE Return("ERROR", j, a.errors) : a \in SSL_write(k, e)}

(* The loops that call them, of the head and body parsers and of           *)
(* net_transport, and ssl_write_chain: after some calls that had bytes the *)
(* last one may have been enough (DONE), or not.                           *)
Reads(k, e) ==
  ssl_read(k, e) \cup
    UNION {ssl_read(r.k, r.errors) :
             r \in {s \in ssl_read(k, e) : s.rc = "DONE"}}
Writes(k, e) ==
  LET writes == ssl_write(k, e) \cup
        UNION {ssl_write(r.k, r.errors) :
                 r \in {s \in ssl_write(k, e) : s.rc = "DONE"}}
  IN  {[r EXCEPT !.k.unsent = (r.rc # "DONE")] : r \in writes}

(* ssl_shutdown: whether to wait before the connection is freed.  First a  *)
(* slip: SSL_get_error is asked without a look at the error queue.         *)
SSL_shutdown == {"1", "0", "SSL_ERROR_WANT_READ", "SSL_ERROR_WANT_WRITE"}
ssler_any(n, e) == SSL_get_error([answer |-> n, errors |-> e])
ssler(n, e) ==
  IF n # "1" /\ e THEN SSL_get_error([answer |-> n, errors |-> e]) ELSE "0"

Again(k, d) ==
  IF d = "read"
    THEN event_opt([k EXCEPT !.stage = "shutdown", !.wh = "NULL",
                             !.rh = "ssl_shutdown_handler"], d)
    ELSE event_opt([k EXCEPT !.stage = "shutdown", !.rh = "NULL",
                             !.wh = "ssl_shutdown_handler"], d)
ssl_shutdown(k, e) ==
  IF k.stage = "handshake" \/ k.renegotiates THEN {Free}     \* SSL_in_init
  ELSE {IF ssler(n, e) = "SSL_ERROR_WANT_READ" THEN Again(k, "read")
        ELSE IF ssler(n, e) = "SSL_ERROR_WANT_WRITE" THEN Again(k, "write")
        ELSE Free : n \in SSL_shutdown}

-----------------------------------------------------------------------------
(* l_tunnel.c: what a handler may make of its connection and of the error  *)
(* queue.                                                                  *)
Left(k, e) == [k |-> k, errors |-> e, over |-> FALSE]
Over(k, e) == [k |-> k, errors |-> e, over |-> TRUE]

RelayRead == IF mode = "server" THEN "tunnel_transport_in_recv"
                                ELSE "tunnel_transport_out_recv"
RelayWrite == IF mode = "server" THEN "tunnel_transport_out_send"
                                 ELSE "tunnel_transport_in_send"

https_start(k) ==
  [k EXCEPT !.stage = "relay", !.rh = RelayRead, !.wh = RelayWrite,
            !.f_active = {"read", "write"}, !.unsent = FALSE]

(* tunnel_remote_init: the upstream is connected to (slip: the write event *)
(* keeps its handler).                                                     *)
tunnel_remote_init_write(k) == [k EXCEPT !.stage = "idle", !.rh = "NULL"]
tunnel_remote_init(k) == [k EXCEPT !.stage = "idle", !.rh = "NULL",
                                   !.wh = "NULL"]

(* A body is there when enough was read, or came with the head.            *)
tunnel_local_process_body(k, e, came) ==
  came \cup
  {CASE r.rc = "DONE" -> Left(tunnel_remote_init(r.k), r.errors)
     [] r.rc = "AGAIN" -> Left(r.k, r.errors)
     [] OTHER -> Over(r.k, r.errors) : r \in Reads(k, e)}

(* The request is there; what follows it is the upstream's turn, or a body *)
tunnel_local_process_procotol(k, e) ==
  LET body == [k EXCEPT !.stage = "body", !.rh = "tunnel_local_process_body"]
  IN  {Left(tunnel_remote_init(k), e)}
        \cup tunnel_local_process_body(body, e,
               {Left(tunnel_remote_init(body), e)})

tunnel_local_process_request(k, e) ==
  UNION {CASE r.rc = "DONE" -> tunnel_local_process_procotol(r.k, r.errors)
           [] r.rc = "AGAIN" -> {Left(r.k, r.errors)}
           [] OTHER -> {Over(r.k, r.errors)} : r \in Reads(k, e)}

(* tunnel_process_finish: the next request may have come with the last.    *)
tunnel_process_finish(k, e) ==
  LET next == [k EXCEPT !.stage = "request", !.wh = "NULL",
                        !.rh = "tunnel_local_process_request"]
  IN  {Over(k, e)} \cup tunnel_local_process_request(next, e)
        \cup tunnel_local_process_procotol(next, e)

(* http_body_transport, called by either side's event.                     *)
http_local_send_body(k, e) ==
  (IF k.unsent THEN {}
   ELSE {Left(k, e)} \cup tunnel_process_finish(k, e))
    \cup
  UNION {CASE r.rc = "DONE" -> {Left(r.k, r.errors)}
                                 \cup tunnel_process_finish(r.k, r.errors)
           [] r.rc = "AGAIN" -> {Left(r.k, r.errors)}
           [] OTHER -> {Over(r.k, r.errors)} : r \in Writes(k, e)}

http_local_send_header(k, e) ==
  UNION {CASE r.rc = "DONE" ->
                tunnel_process_finish(r.k, r.errors) \cup
                http_local_send_body(
                  [r.k EXCEPT !.stage = "answer",
                              !.wh = "http_local_send_body"], r.errors)
           [] r.rc = "AGAIN" -> {Left(r.k, r.errors)}
           [] OTHER -> {Over(r.k, r.errors)} : r \in Writes(k, e)}

https_connected(k, e) ==
  {CASE r.rc = "DONE" -> Left(https_start(r.k), r.errors)
     [] r.rc = "AGAIN" -> Left(r.k, r.errors)
     [] OTHER -> Over(r.k, r.errors) : r \in Writes(k, e)}

(* net_transport from this connection: receives until there is no more; at *)
(* an error, or when there is no buffer, what was received is still sent   *)
(* on.                                                                     *)
Receive(k, e) ==
  IF k.ended THEN {Left(k, e), Over(k, e)}
  ELSE UNION {IF r.rc = "AGAIN" THEN {Left(r.k, r.errors)}
              ELSE {Over(r.k, r.errors),
                    Left([r.k EXCEPT !.ended = TRUE], r.errors)} :
                r \in Reads(k, e)}

(* And to this connection.                                                 *)
Transmit(k, e) ==
  (IF k.unsent THEN {} ELSE {Left(k, e)}) \cup
  {IF r.rc = "ERROR" THEN Over(r.k, r.errors) ELSE Left(r.k, r.errors) :
     r \in Writes(k, e)}

tunnel_local_handshake_handler(k, e) ==
  tunnel_local_process_request(
    event_opt([k EXCEPT !.stage = "request", !.wh = "NULL",
                        !.rh = "tunnel_local_process_request"], "read"), e)

Handshaken(k, e) ==
  IF mode = "server" THEN tunnel_local_handshake_handler(k, e)
                     ELSE {Left(https_start(k), e)}

(* SSL_do_handshake and what ssl_handshake makes of it.                    *)
ssl_handshake(k) ==
  Handshaken(k, FALSE) \cup
  {Left(event_opt([k EXCEPT !.wh = "NULL", !.rh = "ssl_handshake_handler"],
                  "read"), FALSE),
   Left(event_opt([k EXCEPT !.rh = "NULL", !.wh = "ssl_handshake_handler"],
                  "write"), FALSE),
   Over(k, FALSE), Over(k, TRUE)}

-----------------------------------------------------------------------------
(* Connection c after a handler.                                           *)
Leave(c, outcomes) ==
  \E o \in outcomes :
    /\ errors' = o.errors
    /\ \E k \in IF o.over THEN ssl_shutdown(o.k, o.errors) ELSE {o.k} :
         conn' = [conn EXCEPT ![c] = k]
    /\ UNCHANGED <<mode, worker>>

Run(c, h) ==
  LET k == conn[c]
  IN  CASE h = "ssl_handshake_handler" -> Leave(c, ssl_handshake(k))
        [] h = "ssl_shutdown_handler" -> Leave(c, {Over(k, errors)})
        [] h = "tunnel_local_process_request" ->
             Leave(c, tunnel_local_process_request(k, errors))
        [] h = "tunnel_local_process_body" ->
             Leave(c, tunnel_local_process_body(k, errors, {}))
        [] h = "http_local_send_header" ->
             Leave(c, http_local_send_header(k, errors))
        [] h = "http_local_send_body" ->
             Leave(c, http_local_send_body(k, errors))
        [] h = "https_connected" -> Leave(c, https_connected(k, errors))
        [] h = RelayRead -> Leave(c, Receive(k, errors))
        [] h = RelayWrite -> Leave(c, Transmit(k, errors))
        [] OTHER -> FALSE

Running == worker = "running"

(* event_loop calls read->handler; ssl_read_handler calls write->handler,  *)
(* which is not looked at before.                                          *)
Lost(as) == worker' = as /\ UNCHANGED <<mode, conn, errors>>

ReadEvent(c) ==
  /\ Running /\ "read" \in conn[c].f_active
  /\ IF conn[c].rh # "ssl_read_handler" THEN Run(c, conn[c].rh)
     ELSE CASE conn[c].wh = "ssl_write_handler" -> Lost("endless")
            [] conn[c].wh = "NULL" -> Lost("crashed")
            [] OTHER -> Run(c, conn[c].wh)

WriteEvent(c) ==
  /\ Running /\ "write" \in conn[c].f_active
  /\ IF conn[c].wh # "ssl_write_handler" THEN Run(c, conn[c].wh)
     ELSE CASE conn[c].rh = "ssl_read_handler" -> Lost("endless")
            [] conn[c].rh = "NULL" -> Lost("crashed")
            [] OTHER -> Run(c, conn[c].rh)

(* tunnel_local_init of a new client, or tunnel_remote_connect_check of a  *)
(* new upstream, whose write event is registered by now.                   *)
ssl_create_connection(c) ==
  /\ Running /\ conn[c].stage = "free"
  /\ LET k == [Free EXCEPT !.stage = "handshake",
                           !.f_active = IF mode = "server" THEN {"read"}
                                                           ELSE {"write"}]
     IN  Leave(c, ssl_handshake(k))

(* Handlers of the upstream go on with its client.                         *)
tunnel_start(c) ==
  /\ Running /\ conn[c].stage = "idle"
  /\ Leave(c, https_connected(
       event_opt([conn[c] EXCEPT !.stage = "connected", !.unsent = TRUE,
                                 !.wh = "https_connected"], "write"), errors))

http_remote_recv_header(c) ==
  /\ Running /\ conn[c].stage = "idle"
  /\ Leave(c, http_local_send_header(
       event_opt([conn[c] EXCEPT !.stage = "header", !.unsent = TRUE,
                                 !.wh = "http_local_send_header"], "write"),
       errors))

http_remote_recv_body(c) ==
  /\ Running /\ conn[c].stage = "answer"
  /\ Leave(c, http_local_send_body(conn[c], errors))

(* The other connection of a relay has received.                           *)
tunnel_transport(c) ==
  /\ Running /\ conn[c].stage = "relay"
  /\ Leave(c, Transmit(conn[c], errors))

(* A timer, or an error of the other connection, closes this one.          *)
tunnel_over(c) ==
  /\ Running /\ conn[c].stage \notin {"free", "shutdown"}
  /\ Leave(c, {Over(conn[c], errors)})

Init ==
  /\ mode \in {"server", "client"}
  /\ conn = [c \in Conn |-> Free]
  /\ errors = FALSE
  /\ worker = "running"

Next ==
  \E c \in Conn :
    \/ ReadEvent(c) \/ WriteEvent(c)
    \/ ssl_create_connection(c)
    \/ tunnel_start(c) \/ http_remote_recv_header(c)
    \/ http_remote_recv_body(c) \/ tunnel_transport(c)
    \/ tunnel_over(c)

Spec == Init /\ [][Next]_vars

-----------------------------------------------------------------------------
(* Properties.                                                             *)

(* The variables have their types.                                         *)
TypeOK ==
  /\ mode \in {"server", "client"}
  /\ conn \in [Conn -> Conns]
  /\ errors \in BOOLEAN
  /\ worker \in {"running", "endless", "crashed"}

(* In a relay every event has its own handler, or ssl_read_handler or      *)
(* ssl_write_handler stands in for it, until bytes pass again, and what    *)
(* these will give back is the relay's own: whatever was swapped before,   *)
(* in the request or in the answer, is not given back to the relay.        *)
Restored(k) ==
  k.stage = "relay" =>
    /\ \/ k.rh = RelayRead /\ k.old_r = "NULL"
       \/ k.rh = "ssl_read_handler" /\ k.old_r = RelayRead
    /\ \/ k.wh = RelayWrite /\ k.old_w = "NULL"
       \/ k.wh = "ssl_write_handler" /\ k.old_w = RelayWrite
RelayRestored == \A c \in Conn : Restored(conn[c])

(* ssl_read_handler and ssl_write_handler always have a handler to call,   *)
(* and only in a relay, where both events can have been swapped, do they   *)
(* call each other for ever.                                               *)
Swapped(k) == k.rh = "ssl_read_handler" /\ k.wh = "ssl_write_handler"
EventsReachHandlers ==
  /\ worker # "crashed"
  /\ worker = "endless" =>
       \E c \in Conn : Swapped(conn[c]) /\ conn[c].stage = "relay"

(* A connection that is closed is freed at once: ssl_shutdown never leaves *)
(* one behind, which no timer and no tunnel would look after.              *)
NoneLeftBehind == \A c \in Conn : conn[c].stage # "shutdown"
=============================================================================
