----------------------------- MODULE Ssl_proofs -----------------------------
(***************************************************************************)
(* What is kept by every step of the SSL connections of a worker, for any  *)
(* number of them: types, handlers that are given back to whom they were   *)
(* taken from, and no connection left in its shutdown.                     *)
(***************************************************************************)
EXTENDS Ssl, TLAPS

(* A connection that is only read has the handler h of its stage on its    *)
(* read event; of the write event ssl_read can only have saved nothing, or *)
(* ssl_write_handler.                                                      *)
Reading(k, h) ==
  /\ k.rh = h /\ k.old_r = "NULL"
  /\ \/ k.wh = "NULL" /\ k.old_w = "NULL"
     \/ k.wh = "ssl_write_handler" /\ k.old_w \in {"NULL", "ssl_write_handler"}

(* The same for one that is only written.                                  *)
Writing(k, h) ==
  /\ k.wh = h /\ k.old_w = "NULL"
  /\ \/ k.rh = "NULL" /\ k.old_r = "NULL"
     \/ k.rh = "ssl_read_handler" /\ k.old_r \in {"NULL", "ssl_read_handler"}

Untouched(k) == k.old_r = "NULL" /\ k.old_w = "NULL"

(* What holds of a connection in every stage.                              *)
Handled(k) ==
  /\ k \in Conns
  /\ k.stage = "handshake" =>
       /\ Untouched(k)
       /\ {k.rh, k.wh} \subseteq {"NULL", "ssl_handshake_handler"}
  /\ k.stage = "request" => Reading(k, "tunnel_local_process_request")
  /\ k.stage = "body" => Reading(k, "tunnel_local_process_body")
  /\ k.stage = "idle" => Untouched(k) /\ k.rh = "NULL" /\ k.wh = "NULL"
  /\ k.stage = "header" => Writing(k, "http_local_send_header")
  /\ k.stage = "answer" => Writing(k, "http_local_send_body")
  /\ k.stage = "connected" => Writing(k, "https_connected")
  /\ Restored(k)
  /\ k.stage = "free" => k.f_active = {}
  /\ k.stage # "shutdown"

(* And whenever a handler returns: ssl_write saved a handler only if it    *)
(* will be called again.                                                   *)
Sane(k) ==
  /\ Handled(k)
  /\ k.stage = "answer" /\ k.old_r # "NULL" => k.unsent

IInv ==
  /\ mode \in {"server", "client"}
  /\ errors \in BOOLEAN
  /\ conn \in [Conn -> Conns]
  /\ \A c \in Conn : Sane(conn[c])
  /\ worker \in {"running", "endless"}
  /\ worker = "endless" =>
       \E c \in Conn : Swapped(conn[c]) /\ conn[c].stage = "relay"

(* An outcome of a handler that keeps this.                                *)
Good(o) == o.errors \in BOOLEAN /\ o.over \in BOOLEAN /\ (~o.over => Sane(o.k))

Modes == mode \in {"server", "client"}

-----------------------------------------------------------------------------
(* One call of ssl_read, and of ssl_write.                                 *)

(* What a call of ssl_read does to the connection.                         *)
LEMMA ReadCall ==
  ASSUME NEW k \in Conns, NEW e \in BOOLEAN, NEW r \in ssl_read(k, e)
  PROVE  /\ r.errors \in BOOLEAN /\ r.rc \in {"DONE", "AGAIN", "ERROR"}
         /\ \E n \in BOOLEAN :
              LET j == [k EXCEPT !.renegotiates = n]
              IN  /\ r.rc = "DONE" => r.k = RestoreWrite(j)
                  /\ r.rc = "AGAIN" => r.k = j \/ r.k = SwapWrite(j)
                  /\ r.rc = "ERROR" => r.k = j
<1>1. PICK a \in SSL_read(k, e) :
        r = LET j == [k EXCEPT !.renegotiates = a.renegotiates]
                sslerr == SSL_get_error(a)
            IN  IF a.answer = "bytes"
                  THEN Return("DONE", RestoreWrite(j), a.errors)
                ELSE IF sslerr = "SSL_ERROR_WANT_READ"
                  THEN Return("AGAIN", j, a.errors)
                ELSE IF sslerr = "SSL_ERROR_WANT_WRITE"
                  THEN Return("AGAIN", SwapWrite(j), a.errors)
                ELSE Return("ERROR", j, a.errors)
  BY DEF ssl_read
<1>2. k.renegotiates \in BOOLEAN
  BY DEF Conns
<1>3. ASSUME NEW an, NEW rs \in SUBSET BOOLEAN, a \in Answers(k, e, an, rs)
      PROVE  a.renegotiates \in BOOLEAN /\ a.errors \in BOOLEAN
  <2>1. PICK x \in rs : a = [answer |-> an, renegotiates |-> x,
                             errors |-> e /\ ~k.renegotiates /\ ~x]
    BY <1>3 DEF Answers
  <2>2. (e /\ ~k.renegotiates /\ ~x) \in BOOLEAN
    OBVIOUS
  <2> QED BY <2>1, <2>2
<1>4. ASSUME a \in Failures(k, e)
      PROVE  a.renegotiates \in BOOLEAN /\ a.errors \in BOOLEAN
  <2>1. CASE a = [answer |-> "SSL_ERROR_SSL",
                  renegotiates |-> k.renegotiates, errors |-> TRUE]
    BY <1>2, <2>1
  <2>2. CASE a = [answer |-> "SSL_ERROR_ZERO_RETURN",
                  renegotiates |-> k.renegotiates,
                  errors |-> e /\ ~k.renegotiates]
    <3>1. (e /\ ~k.renegotiates) \in BOOLEAN
      OBVIOUS
    <3> QED BY <1>2, <2>2, <3>1
  <2> QED BY <1>4, <2>1, <2>2, Zenon DEF Failures
<1>5. a.renegotiates \in BOOLEAN /\ a.errors \in BOOLEAN
  BY <1>2, <1>3, <1>4 DEF SSL_read
<1> QED BY <1>1, <1>5 DEF Return

(* What a call of ssl_write does to the connection.                        *)
LEMMA WriteCall ==
  ASSUME NEW k \in Conns, NEW e \in BOOLEAN, NEW r \in ssl_write(k, e)
  PROVE  /\ r.errors \in BOOLEAN /\ r.rc \in {"DONE", "AGAIN", "ERROR"}
         /\ \E n \in BOOLEAN :
              LET j == [k EXCEPT !.renegotiates = n]
              IN  /\ r.rc = "DONE" => r.k = RestoreRead(j)
                  /\ r.rc = "AGAIN" => r.k = j \/ r.k = SwapRead(j)
                  /\ r.rc = "ERROR" => r.k = j
<1>1. PICK a \in SSL_write(k, e) :
        r = LET j == [k EXCEPT !.renegotiates = a.renegotiates]
                sslerr == SSL_get_error(a)
            IN  IF a.answer = "bytes"
                  THEN Return("DONE", RestoreRead(j), a.errors)
                ELSE IF sslerr = "SSL_ERROR_WANT_WRITE"
                  THEN Return("AGAIN", j, a.errors)
                ELSE IF sslerr = "SSL_ERROR_WANT_READ"
                  THEN Return("AGAIN", SwapRead(j), a.errors)
                ELSE Return("ERROR", j, a.errors)
  BY DEF ssl_write
<1>2. k.renegotiates \in BOOLEAN
  BY DEF Conns
<1>3. ASSUME NEW an, NEW rs \in SUBSET BOOLEAN, a \in Answers(k, e, an, rs)
      PROVE  a.renegotiates \in BOOLEAN /\ a.errors \in BOOLEAN
  <2>1. PICK x \in rs : a = [answer |-> an, renegotiates |-> x,
                             errors |-> e /\ ~k.renegotiates /\ ~x]
    BY <1>3 DEF Answers
  <2>2. (e /\ ~k.renegotiates /\ ~x) \in BOOLEAN
    OBVIOUS
  <2> QED BY <2>1, <2>2
<1>4. ASSUME a \in Failures(k, e)
      PROVE  a.renegotiates \in BOOLEAN /\ a.errors \in BOOLEAN
  <2>1. CASE a = [answer |-> "SSL_ERROR_SSL",
                  renegotiates |-> k.renegotiates, errors |-> TRUE]
    BY <1>2, <2>1
  <2>2. CASE a = [answer |-> "SSL_ERROR_ZERO_RETURN",
                  renegotiates |-> k.renegotiates,
                  errors |-> e /\ ~k.renegotiates]
    <3>1. (e /\ ~k.renegotiates) \in BOOLEAN
      OBVIOUS
    <3> QED BY <1>2, <2>2, <3>1
  <2> QED BY <1>4, <2>1, <2>2, Zenon DEF Failures
<1>5. a.renegotiates \in BOOLEAN /\ a.errors \in BOOLEAN
  <2>1. /\ {FALSE} \in SUBSET BOOLEAN
        /\ {FALSE, k.renegotiates} \in SUBSET BOOLEAN
        /\ (IF k.renegotiates THEN {TRUE} ELSE {}) \in SUBSET BOOLEAN
    BY <1>2
  <2> QED BY <1>3, <1>4, <2>1 DEF SSL_write
<1> QED BY <1>1, <1>5 DEF Return

(* Handlers that are saved and given back on one side of the connection.   *)
LEMMA GiveWrite ==
  ASSUME Modes, NEW k, Handled(k), k.stage \in {"request", "body", "relay"}
  PROVE  /\ Handled(RestoreWrite(k)) /\ RestoreWrite(k).stage = k.stage
         /\ RestoreWrite(k).old_w = "NULL"
         /\ Handled(SwapWrite(k)) /\ SwapWrite(k).stage = k.stage
<1>1. k \in Conns
  BY DEF Handled
<1>2. SUFFICES ASSUME NEW w \in Handler, NEW o \in Handler,
                     \/ /\ k.old_w # "NULL" /\ w = k.old_w /\ o = "NULL"
                     \/ /\ k.old_w = "NULL" /\ w = "ssl_write_handler"
                        /\ o = k.wh
              PROVE  LET j == [k EXCEPT !.wh = w, !.old_w = o]
                     IN  Handled(j) /\ j.stage = k.stage /\ j.old_w = o
  <2>1. "NULL" \in Handler /\ "ssl_write_handler" \in Handler
    BY DEF Handler
  <2>2. k.old_w \in Handler /\ k.wh \in Handler
    BY <1>1 DEF Conns
  <2>3. CASE k.old_w = "NULL"
    <3>1. RestoreWrite(k) = k /\ SwapWrite(k) =
            [k EXCEPT !.wh = "ssl_write_handler", !.old_w = k.wh]
      BY <2>3 DEF RestoreWrite, SwapWrite
    <3> DEFINE i == [k EXCEPT !.wh = "ssl_write_handler", !.old_w = k.wh]
    <3>2. Handled(i) /\ i.stage = k.stage /\ i.old_w = k.wh
      BY <1>2, <2>1, <2>2, <2>3, Zenon
    <3> HIDE DEF i
    <3> QED BY <2>3, <3>1, <3>2 DEF i
  <2>4. CASE k.old_w # "NULL"
    <3>1. SwapWrite(k) = k /\ RestoreWrite(k) =
            [k EXCEPT !.wh = k.old_w, !.old_w = "NULL"]
      BY <2>4 DEF RestoreWrite, SwapWrite
    <3> DEFINE i == [k EXCEPT !.wh = k.old_w, !.old_w = "NULL"]
    <3>2. Handled(i) /\ i.stage = k.stage /\ i.old_w = "NULL"
      BY <1>2, <2>1, <2>2, <2>4, Zenon
    <3> HIDE DEF i
    <3> QED BY <2>4, <3>1, <3>2 DEF i
  <2> QED BY <2>3, <2>4
<1> DEFINE j == [k EXCEPT !.wh = w, !.old_w = o]
<1>3. /\ j \in Conns
      /\ j.stage = k.stage /\ j.rh = k.rh /\ j.old_r = k.old_r
      /\ j.wh = w /\ j.old_w = o
  BY <1>1 DEF Conns
<1> HIDE DEF j
<1>4. ASSUME k.stage = "request" PROVE Handled(j)
  BY <1>2, <1>3, <1>4 DEF Handled, Reading, Restored
<1>5. ASSUME k.stage = "body" PROVE Handled(j)
  BY <1>2, <1>3, <1>5 DEF Handled, Reading, Restored
<1>6. ASSUME k.stage = "relay" PROVE Handled(j)
  BY <1>2, <1>3, <1>6 DEF Handled, Restored, RelayWrite, RelayRead, Modes
<1>7. Handled(j) /\ j.stage = k.stage /\ j.old_w = o
  BY <1>3, <1>4, <1>5, <1>6
<1> QED BY <1>7 DEF j

(* The same for the read handler.                                         *)
LEMMA GiveRead ==
  ASSUME Modes, NEW k, Handled(k),
         k.stage \in {"header", "answer", "connected", "relay"}
  PROVE  /\ Handled(RestoreRead(k)) /\ RestoreRead(k).stage = k.stage
         /\ RestoreRead(k).old_r = "NULL"
         /\ Handled(SwapRead(k)) /\ SwapRead(k).stage = k.stage
<1>1. k \in Conns
  BY DEF Handled
<1>2. SUFFICES ASSUME NEW h \in Handler, NEW o \in Handler,
                     \/ /\ k.old_r # "NULL" /\ h = k.old_r /\ o = "NULL"
                     \/ /\ k.old_r = "NULL" /\ h = "ssl_read_handler"
                        /\ o = k.rh
              PROVE  LET j == [k EXCEPT !.rh = h, !.old_r = o]
                     IN  Handled(j) /\ j.stage = k.stage /\ j.old_r = o
  <2>1. "NULL" \in Handler /\ "ssl_read_handler" \in Handler
    BY DEF Handler
  <2>2. k.old_r \in Handler /\ k.rh \in Handler
    BY <1>1 DEF Conns
  <2>3. CASE k.old_r = "NULL"
    <3>1. RestoreRead(k) = k /\ SwapRead(k) =
            [k EXCEPT !.rh = "ssl_read_handler", !.old_r = k.rh]
      BY <2>3 DEF RestoreRead, SwapRead
    <3> DEFINE i == [k EXCEPT !.rh = "ssl_read_handler", !.old_r = k.rh]
    <3>2. Handled(i) /\ i.stage = k.stage /\ i.old_r = k.rh
      BY <1>2, <2>1, <2>2, <2>3, Zenon
    <3> HIDE DEF i
    <3> QED BY <2>3, <3>1, <3>2 DEF i
  <2>4. CASE k.old_r # "NULL"
    <3>1. SwapRead(k) = k /\ RestoreRead(k) =
            [k EXCEPT !.rh = k.old_r, !.old_r = "NULL"]
      BY <2>4 DEF RestoreRead, SwapRead
    <3> DEFINE i == [k EXCEPT !.rh = k.old_r, !.old_r = "NULL"]
    <3>2. Handled(i) /\ i.stage = k.stage /\ i.old_r = "NULL"
      BY <1>2, <2>1, <2>2, <2>4, Zenon
    <3> HIDE DEF i
    <3> QED BY <2>4, <3>1, <3>2 DEF i
  <2> QED BY <2>3, <2>4
<1> DEFINE j == [k EXCEPT !.rh = h, !.old_r = o]
<1>3. /\ j \in Conns
      /\ j.stage = k.stage /\ j.wh = k.wh /\ j.old_w = k.old_w
      /\ j.rh = h /\ j.old_r = o
  BY <1>1 DEF Conns
<1> HIDE DEF j
<1>4. ASSUME k.stage = "header" PROVE Handled(j)
  BY <1>2, <1>3, <1>4 DEF Handled, Writing, Restored
<1>5. ASSUME k.stage = "answer" PROVE Handled(j)
  BY <1>2, <1>3, <1>5 DEF Handled, Writing, Restored
<1>6. ASSUME k.stage = "connected" PROVE Handled(j)
  BY <1>2, <1>3, <1>6 DEF Handled, Writing, Restored
<1>7. ASSUME k.stage = "relay" PROVE Handled(j)
  BY <1>2, <1>3, <1>7 DEF Handled, Restored, RelayWrite, RelayRead, Modes
<1>8. Handled(j) /\ j.stage = k.stage /\ j.old_r = o
  BY <1>3, <1>4, <1>5, <1>6, <1>7
<1> QED BY <1>8 DEF j

(* ssl_read keeps what holds of a connection in a stage that reads, and    *)
(* leaves nothing saved when it has bytes.                                 *)
LEMMA ReadKeeps ==
  ASSUME Modes, NEW k, Handled(k), k.stage \in {"request", "body", "relay"},
         NEW e \in BOOLEAN, NEW r \in ssl_read(k, e)
  PROVE  /\ r.errors \in BOOLEAN /\ r.rc \in {"DONE", "AGAIN", "ERROR"}
         /\ Handled(r.k) /\ r.k.stage = k.stage
         /\ r.rc = "DONE" => r.k.old_w = "NULL"
<1>0. k \in Conns
  BY DEF Handled
<1>1. /\ r.errors \in BOOLEAN /\ r.rc \in {"DONE", "AGAIN", "ERROR"}
      /\ \E n \in BOOLEAN :
           LET j == [k EXCEPT !.renegotiates = n]
           IN  /\ r.rc = "DONE" => r.k = RestoreWrite(j)
               /\ r.rc = "AGAIN" => r.k = j \/ r.k = SwapWrite(j)
               /\ r.rc = "ERROR" => r.k = j
  BY <1>0, ReadCall
<1>2. PICK n \in BOOLEAN :
        LET j == [k EXCEPT !.renegotiates = n]
        IN  /\ r.rc = "DONE" => r.k = RestoreWrite(j)
            /\ r.rc = "AGAIN" => r.k = j \/ r.k = SwapWrite(j)
            /\ r.rc = "ERROR" => r.k = j
  BY <1>1
<1> DEFINE j == [k EXCEPT !.renegotiates = n]
<1>3. Handled(j) /\ j.stage = k.stage
  BY <1>0 DEF Handled, Conns, Reading, Writing, Restored, Untouched
<1>4. j \in Conns
  BY <1>3 DEF Handled
<1>5. Handled(RestoreWrite(j)) /\ RestoreWrite(j).stage = k.stage
      /\ RestoreWrite(j).old_w = "NULL"
      /\ Handled(SwapWrite(j)) /\ SwapWrite(j).stage = k.stage
  BY <1>3, GiveWrite
<1> QED BY <1>1, <1>2, <1>3, <1>5

(* ssl_write keeps what holds of a connection in a stage that writes.      *)
LEMMA WriteKeeps ==
  ASSUME Modes, NEW k, Handled(k),
         k.stage \in {"header", "answer", "connected", "relay"},
         NEW e \in BOOLEAN, NEW r \in ssl_write(k, e)
  PROVE  /\ r.errors \in BOOLEAN /\ r.rc \in {"DONE", "AGAIN", "ERROR"}
         /\ Handled(r.k) /\ r.k.stage = k.stage
         /\ r.rc = "DONE" => r.k.old_r = "NULL"
<1>0. k \in Conns
  BY DEF Handled
<1>1. /\ r.errors \in BOOLEAN /\ r.rc \in {"DONE", "AGAIN", "ERROR"}
      /\ \E n \in BOOLEAN :
           LET j == [k EXCEPT !.renegotiates = n]
           IN  /\ r.rc = "DONE" => r.k = RestoreRead(j)
               /\ r.rc = "AGAIN" => r.k = j \/ r.k = SwapRead(j)
               /\ r.rc = "ERROR" => r.k = j
  BY <1>0, WriteCall
<1>2. PICK n \in BOOLEAN :
        LET j == [k EXCEPT !.renegotiates = n]
        IN  /\ r.rc = "DONE" => r.k = RestoreRead(j)
            /\ r.rc = "AGAIN" => r.k = j \/ r.k = SwapRead(j)
            /\ r.rc = "ERROR" => r.k = j
  BY <1>1
<1> DEFINE j == [k EXCEPT !.renegotiates = n]
<1>3. Handled(j) /\ j.stage = k.stage
  BY <1>0 DEF Handled, Conns, Reading, Writing, Restored, Untouched
<1>4. j \in Conns
  BY <1>3 DEF Handled
<1>5. Handled(RestoreRead(j)) /\ RestoreRead(j).stage = k.stage
      /\ RestoreRead(j).old_r = "NULL"
      /\ Handled(SwapRead(j)) /\ SwapRead(j).stage = k.stage
  BY <1>3, GiveRead
<1> QED BY <1>1, <1>2, <1>3, <1>5

(* The loops that call ssl_read.                                          *)
LEMMA ReadsKeep ==
  ASSUME Modes, NEW k, Handled(k), k.stage \in {"request", "body", "relay"},
         NEW e \in BOOLEAN, NEW r \in Reads(k, e)
  PROVE  /\ r.errors \in BOOLEAN /\ r.rc \in {"DONE", "AGAIN", "ERROR"}
         /\ Handled(r.k) /\ r.k.stage = k.stage
         /\ r.rc = "DONE" => r.k.old_w = "NULL"
<1>1. CASE r \in ssl_read(k, e)
  BY <1>1, ReadKeeps
<1>2. CASE \E s \in ssl_read(k, e) : r \in ssl_read(s.k, s.errors)
  <2>1. PICK s \in ssl_read(k, e) : r \in ssl_read(s.k, s.errors)
    BY <1>2
  <2>2. s.errors \in BOOLEAN /\ Handled(s.k) /\ s.k.stage = k.stage
    BY ReadKeeps
  <2> QED BY <2>1, <2>2, ReadKeeps
<1> QED BY <1>1, <1>2 DEF Reads

(* The loops that call ssl_write know what is still unsent.               *)
LEMMA WritesKeep ==
  ASSUME Modes, NEW k, Handled(k),
         k.stage \in {"header", "answer", "connected", "relay"},
         NEW e \in BOOLEAN, NEW r \in Writes(k, e)
  PROVE  /\ r.errors \in BOOLEAN /\ r.rc \in {"DONE", "AGAIN", "ERROR"}
         /\ Sane(r.k) /\ r.k.stage = k.stage
         /\ r.rc = "DONE" => r.k.old_r = "NULL"
<1>1. PICK s : /\ \/ s \in ssl_write(k, e)
                  \/ \E t \in ssl_write(k, e) : s \in ssl_write(t.k, t.errors)
               /\ r = [s EXCEPT !.k.unsent = (s.rc # "DONE")]
  BY DEF Writes
<1>2. /\ s.errors \in BOOLEAN /\ s.rc \in {"DONE", "AGAIN", "ERROR"}
      /\ Handled(s.k) /\ s.k.stage = k.stage
      /\ s.rc = "DONE" => s.k.old_r = "NULL"
  <2>1. CASE s \in ssl_write(k, e)
    BY <2>1, WriteKeeps
  <2>2. CASE \E t \in ssl_write(k, e) : s \in ssl_write(t.k, t.errors)
    <3>1. PICK t \in ssl_write(k, e) : s \in ssl_write(t.k, t.errors)
      BY <2>2
    <3>2. t.errors \in BOOLEAN /\ Handled(t.k) /\ t.k.stage = k.stage
      BY WriteKeeps
    <3> QED BY <3>1, <3>2, WriteKeeps
  <2> QED BY <1>1, <2>1, <2>2
<1>3. \E x, y, z : s = [rc |-> x, k |-> y, errors |-> z]
  BY <1>1 DEF ssl_write, Return
<1> DEFINE u == (s.rc # "DONE")
<1>4. r.errors = s.errors /\ r.rc = s.rc /\ r.k = [s.k EXCEPT !.unsent = u]
  BY <1>1, <1>3
<1> DEFINE j == [s.k EXCEPT !.unsent = u]
<1>5. u \in BOOLEAN
  OBVIOUS
<1>6. s.k \in Conns
  BY <1>2 DEF Handled
<1>7. /\ j \in Conns /\ j.stage = s.k.stage /\ j.rh = s.k.rh
      /\ j.wh = s.k.wh /\ j.old_r = s.k.old_r /\ j.old_w = s.k.old_w
      /\ j.f_active = s.k.f_active /\ j.unsent = u
  <2> HIDE DEF u
  <2> QED BY <1>5, <1>6 DEF Conns
<1> HIDE DEF j
<1>8. Handled(j)
  BY <1>2, <1>7 DEF Handled, Reading, Writing, Untouched, Restored
<1>9. Sane(j)
  BY <1>2, <1>7, <1>8 DEF Sane
<1> QED BY <1>2, <1>4, <1>7, <1>9 DEF j

-----------------------------------------------------------------------------
(* The handlers of l_tunnel.c: a connection they leave is sane again.      *)

(* One that is given up may be in any state.                               *)
LEMMA OverIsGood ==
  ASSUME NEW k, NEW e \in BOOLEAN
  PROVE  Good(Over(k, e))
BY DEF Good, Over

(* One that is left to wait has to be sane.                               *)
LEMMA LeftIsGood ==
  ASSUME NEW k, NEW e \in BOOLEAN, Sane(k)
  PROVE  Good(Left(k, e))
BY DEF Good, Left

(* The upstream's turn: the client waits for nothing.                     *)
LEMMA RemoteInitIsGood ==
  ASSUME NEW k \in Conns, Untouched(k), NEW e \in BOOLEAN
  PROVE  Good(Left(tunnel_remote_init(k), e))
<1> DEFINE j == tunnel_remote_init(k)
<1>1. /\ j \in Conns /\ j.stage = "idle" /\ j.rh = "NULL" /\ j.wh = "NULL"
      /\ j.old_r = k.old_r /\ j.old_w = k.old_w
  BY DEF tunnel_remote_init, Conns, Stage, Handler
<1> HIDE DEF j
<1>2. Sane(j)
  BY <1>1 DEF Sane, Handled, Untouched, Restored
<1> QED BY <1>2, LeftIsGood DEF j

(* tunnel_local_process_body.                                             *)
LEMMA BodyIsGood ==
  ASSUME Modes, NEW k, Handled(k), k.stage = "body", NEW e \in BOOLEAN,
         NEW came, \A o \in came : Good(o),
         NEW o \in tunnel_local_process_body(k, e, came)
  PROVE  Good(o)
<1>1. CASE o \in came
  BY <1>1
<1>2. CASE \E r \in Reads(k, e) :
             o = CASE r.rc = "DONE" -> Left(tunnel_remote_init(r.k), r.errors)
                   [] r.rc = "AGAIN" -> Left(r.k, r.errors)
                   [] OTHER -> Over(r.k, r.errors)
  <2>1. PICK r \in Reads(k, e) :
             o = CASE r.rc = "DONE" -> Left(tunnel_remote_init(r.k), r.errors)
                   [] r.rc = "AGAIN" -> Left(r.k, r.errors)
                   [] OTHER -> Over(r.k, r.errors)
    BY <1>2
  <2>2. /\ r.errors \in BOOLEAN /\ r.rc \in {"DONE", "AGAIN", "ERROR"}
        /\ Handled(r.k) /\ r.k.stage = k.stage
        /\ r.rc = "DONE" => r.k.old_w = "NULL"
    BY ReadsKeep
  <2>3. CASE r.rc = "DONE"
    <3>1. r.k \in Conns /\ Untouched(r.k)
      BY <2>2, <2>3 DEF Handled, Reading, Untouched
    <3> QED BY <2>1, <2>2, <2>3, <3>1, RemoteInitIsGood
  <2>4. CASE r.rc = "AGAIN"
    <3>1. Sane(r.k)
      BY <2>2 DEF Sane
    <3> QED BY <2>1, <2>2, <2>4, <3>1, LeftIsGood
  <2>5. CASE r.rc = "ERROR"
    BY <2>1, <2>2, <2>5, OverIsGood
  <2> QED BY <2>2, <2>3, <2>4, <2>5
<1> QED BY <1>1, <1>2 DEF tunnel_local_process_body

(* tunnel_local_process_procotol, once nothing is saved any more.         *)
LEMMA ProcotolIsGood ==
  ASSUME Modes, NEW k \in Conns, Untouched(k),
         k.wh \in {"NULL", "ssl_write_handler"}, NEW e \in BOOLEAN,
         NEW o \in tunnel_local_process_procotol(k, e)
  PROVE  Good(o)
<1> DEFINE body == [k EXCEPT !.stage = "body",
                             !.rh = "tunnel_local_process_body"]
<1>1. /\ body \in Conns /\ body.stage = "body"
      /\ body.rh = "tunnel_local_process_body" /\ body.wh = k.wh
      /\ body.old_r = k.old_r /\ body.old_w = k.old_w
  BY ZenonT(60) DEF Conns, Stage, Handler
<1>2. \/ o = Left(tunnel_remote_init(k), e)
      \/ o \in tunnel_local_process_body(body, e,
                  {Left(tunnel_remote_init(body), e)})
  BY DEF tunnel_local_process_procotol
<1> HIDE DEF body
<1>3. Handled(body) /\ Untouched(body)
  BY <1>1 DEF Handled, Reading, Untouched, Restored
<1>4. CASE o = Left(tunnel_remote_init(k), e)
  BY <1>4, RemoteInitIsGood
<1>5. CASE o \in tunnel_local_process_body(body, e,
                   {Left(tunnel_remote_init(body), e)})
  <2>1. Good(Left(tunnel_remote_init(body), e))
    BY <1>1, <1>3, RemoteInitIsGood
  <2>2. \A p \in {Left(tunnel_remote_init(body), e)} : Good(p)
    BY <2>1
  <2> QED BY <1>1, <1>3, <1>5, <2>2, BodyIsGood
<1> QED BY <1>2, <1>4, <1>5

(* tunnel_local_process_request.                                          *)
LEMMA RequestIsGood ==
  ASSUME Modes, NEW k, Handled(k), k.stage = "request", NEW e \in BOOLEAN,
         NEW o \in tunnel_local_process_request(k, e)
  PROVE  Good(o)
<1>1. PICK r \in Reads(k, e) :
        o \in CASE r.rc = "DONE" ->
                     tunnel_local_process_procotol(r.k, r.errors)
                [] r.rc = "AGAIN" -> {Left(r.k, r.errors)}
                [] OTHER -> {Over(r.k, r.errors)}
  BY DEF tunnel_local_process_request
<1>2. /\ r.errors \in BOOLEAN /\ r.rc \in {"DONE", "AGAIN", "ERROR"}
      /\ Handled(r.k) /\ r.k.stage = k.stage
      /\ r.rc = "DONE" => r.k.old_w = "NULL"
  BY ReadsKeep
<1>3. CASE r.rc = "DONE"
  <2>1. /\ r.k \in Conns /\ Untouched(r.k)
        /\ r.k.wh \in {"NULL", "ssl_write_handler"}
    BY <1>2, <1>3 DEF Handled, Reading, Untouched
  <2> QED BY <1>1, <1>2, <1>3, <2>1, ProcotolIsGood
<1>4. CASE r.rc = "AGAIN"
  <2>1. Sane(r.k)
    BY <1>2 DEF Sane
  <2> QED BY <1>1, <1>2, <1>4, <2>1, LeftIsGood
<1>5. CASE r.rc = "ERROR"
  BY <1>1, <1>2, <1>5, OverIsGood
<1> QED BY <1>2, <1>3, <1>4, <1>5

(* tunnel_process_finish, once nothing is saved any more.                 *)
LEMMA FinishIsGood ==
  ASSUME Modes, NEW k \in Conns, Untouched(k), NEW e \in BOOLEAN,
         NEW o \in tunnel_process_finish(k, e)
  PROVE  Good(o)
<1> DEFINE next == [k EXCEPT !.stage = "request", !.wh = "NULL",
                             !.rh = "tunnel_local_process_request"]
<1>1. /\ next \in Conns /\ next.stage = "request" /\ next.wh = "NULL"
      /\ next.rh = "tunnel_local_process_request"
      /\ next.old_r = k.old_r /\ next.old_w = k.old_w
  BY DEF Conns, Stage, Handler
<1>2. \/ o = Over(k, e)
      \/ o \in tunnel_local_process_request(next, e)
      \/ o \in tunnel_local_process_procotol(next, e)
  BY DEF tunnel_process_finish
<1> HIDE DEF next
<1>3. Handled(next) /\ Untouched(next)
  BY <1>1 DEF Handled, Reading, Untouched, Restored
<1> QED BY <1>1, <1>2, <1>3, OverIsGood, RequestIsGood, ProcotolIsGood

(* http_local_send_body, also when http_remote_recv_body calls it.        *)
LEMMA SendBodyIsGood ==
  ASSUME Modes, NEW k, Sane(k), k.stage = "answer", NEW e \in BOOLEAN,
         NEW o \in http_local_send_body(k, e)
  PROVE  Good(o)
<1>1. Handled(k)
  BY DEF Sane
<1>2. CASE ~k.unsent /\ o \in {Left(k, e)} \cup tunnel_process_finish(k, e)
  <2>1. k \in Conns /\ Untouched(k)
    BY <1>1, <1>2 DEF Sane, Handled, Writing, Untouched
  <2> QED BY <1>2, <2>1, LeftIsGood, FinishIsGood
<1>3. CASE \E r \in Writes(k, e) :
             o \in CASE r.rc = "DONE" -> {Left(r.k, r.errors)}
                                  \cup tunnel_process_finish(r.k, r.errors)
                     [] r.rc = "AGAIN" -> {Left(r.k, r.errors)}
                     [] OTHER -> {Over(r.k, r.errors)}
  <2>1. PICK r \in Writes(k, e) :
             o \in CASE r.rc = "DONE" -> {Left(r.k, r.errors)}
                                  \cup tunnel_process_finish(r.k, r.errors)
                     [] r.rc = "AGAIN" -> {Left(r.k, r.errors)}
                     [] OTHER -> {Over(r.k, r.errors)}
    BY <1>3
  <2>2. /\ r.errors \in BOOLEAN /\ r.rc \in {"DONE", "AGAIN", "ERROR"}
        /\ Sane(r.k) /\ r.k.stage = k.stage
        /\ r.rc = "DONE" => r.k.old_r = "NULL"
    BY <1>1, WritesKeep
  <2>3. CASE r.rc = "DONE"
    <3>1. r.k \in Conns /\ Untouched(r.k)
      BY <2>2, <2>3 DEF Sane, Handled, Writing, Untouched
    <3> QED BY <2>1, <2>2, <2>3, <3>1, LeftIsGood, FinishIsGood
  <2>4. CASE r.rc = "AGAIN"
    BY <2>1, <2>2, <2>4, LeftIsGood
  <2>5. CASE r.rc = "ERROR"
    BY <2>1, <2>2, <2>5, OverIsGood
  <2> QED BY <2>2, <2>3, <2>4, <2>5
<1> QED BY <1>2, <1>3 DEF http_local_send_body

(* http_local_send_header.                                                *)
LEMMA SendHeaderIsGood ==
  ASSUME Modes, NEW k, Handled(k), k.stage = "header", NEW e \in BOOLEAN,
         NEW o \in http_local_send_header(k, e)
  PROVE  Good(o)
<1>1. PICK r \in Writes(k, e) :
        o \in CASE r.rc = "DONE" ->
                     tunnel_process_finish(r.k, r.errors) \cup
                     http_local_send_body(
                       [r.k EXCEPT !.stage = "answer",
                                   !.wh = "http_local_send_body"], r.errors)
                [] r.rc = "AGAIN" -> {Left(r.k, r.errors)}
                [] OTHER -> {Over(r.k, r.errors)}
  BY DEF http_local_send_header
<1>2. /\ r.errors \in BOOLEAN /\ r.rc \in {"DONE", "AGAIN", "ERROR"}
      /\ Sane(r.k) /\ r.k.stage = k.stage
      /\ r.rc = "DONE" => r.k.old_r = "NULL"
  BY WritesKeep
<1>3. CASE r.rc = "DONE"
  <2> DEFINE j == [r.k EXCEPT !.stage = "answer",
                              !.wh = "http_local_send_body"]
  <2>1. /\ r.k \in Conns /\ Untouched(r.k)
        /\ Writing(r.k, "http_local_send_header")
    BY <1>2, <1>3 DEF Sane, Handled, Writing, Untouched
  <2>2. /\ j \in Conns /\ j.stage = "answer"
        /\ j.wh = "http_local_send_body" /\ j.rh = r.k.rh
        /\ j.old_r = r.k.old_r /\ j.old_w = r.k.old_w
    BY <2>1 DEF Conns, Stage, Handler
  <2>3. o \in tunnel_process_finish(r.k, r.errors)
        \/ o \in http_local_send_body(j, r.errors)
    BY <1>1, <1>3
  <2> HIDE DEF j
  <2>4. Sane(j)
    BY <2>1, <2>2 DEF Sane, Handled, Writing, Untouched, Restored
  <2> QED BY <1>2, <2>1, <2>2, <2>3, <2>4, FinishIsGood, SendBodyIsGood
<1>4. CASE r.rc = "AGAIN"
  BY <1>1, <1>2, <1>4, LeftIsGood
<1>5. CASE r.rc = "ERROR"
  BY <1>1, <1>2, <1>5, OverIsGood
<1> QED BY <1>2, <1>3, <1>4, <1>5

(* The relay begins with nothing saved.                                   *)
LEMMA HttpsStartIsSane ==
  ASSUME Modes, NEW k \in Conns, Untouched(k)
  PROVE  Sane(https_start(k))
<1> DEFINE j == https_start(k)
<1>1. /\ j \in Conns /\ j.stage = "relay" /\ j.rh = RelayRead
      /\ j.wh = RelayWrite /\ j.old_r = k.old_r /\ j.old_w = k.old_w
  <2>1. RelayRead \in Handler /\ RelayWrite \in Handler
    BY DEF RelayRead, RelayWrite, Handler
  <2>2. "relay" \in Stage /\ {"read", "write"} \in SUBSET {"read", "write"}
    BY DEF Stage
  <2> QED BY <2>1, <2>2 DEF https_start, Conns
<1> HIDE DEF j
<1>2. Sane(j)
  BY <1>1 DEF Sane, Handled, Untouched, Restored
<1> QED BY <1>2 DEF j

(* https_connected.                                                       *)
LEMMA ConnectedIsGood ==
  ASSUME Modes, NEW k, Handled(k), k.stage = "connected", NEW e \in BOOLEAN,
         NEW o \in https_connected(k, e)
  PROVE  Good(o)
<1>1. PICK r \in Writes(k, e) :
        o = CASE r.rc = "DONE" -> Left(https_start(r.k), r.errors)
              [] r.rc = "AGAIN" -> Left(r.k, r.errors)
              [] OTHER -> Over(r.k, r.errors)
  BY DEF https_connected
<1>2. /\ r.errors \in BOOLEAN /\ r.rc \in {"DONE", "AGAIN", "ERROR"}
      /\ Sane(r.k) /\ r.k.stage = k.stage
      /\ r.rc = "DONE" => r.k.old_r = "NULL"
  BY WritesKeep
<1>3. CASE r.rc = "DONE"
  <2>1. r.k \in Conns /\ Untouched(r.k)
    BY <1>2, <1>3 DEF Sane, Handled, Writing, Untouched
  <2> QED BY <1>1, <1>2, <1>3, <2>1, HttpsStartIsSane, LeftIsGood
<1>4. CASE r.rc = "AGAIN"
  BY <1>1, <1>2, <1>4, LeftIsGood
<1>5. CASE r.rc = "ERROR"
  BY <1>1, <1>2, <1>5, OverIsGood
<1> QED BY <1>2, <1>3, <1>4, <1>5

(* net_transport from this connection.                                    *)
LEMMA ReceiveIsGood ==
  ASSUME Modes, NEW k, Handled(k), k.stage = "relay", NEW e \in BOOLEAN,
         NEW o \in Receive(k, e)
  PROVE  Good(o)
<1>1. Sane(k)
  BY DEF Sane
<1>2. CASE o \in {Left(k, e), Over(k, e)}
  BY <1>1, <1>2, LeftIsGood, OverIsGood
<1>3. CASE \E r \in Reads(k, e) :
             o \in IF r.rc = "AGAIN" THEN {Left(r.k, r.errors)}
                   ELSE {Over(r.k, r.errors),
                         Left([r.k EXCEPT !.ended = TRUE], r.errors)}
  <2>1. PICK r \in Reads(k, e) :
             o \in IF r.rc = "AGAIN" THEN {Left(r.k, r.errors)}
                   ELSE {Over(r.k, r.errors),
                         Left([r.k EXCEPT !.ended = TRUE], r.errors)}
    BY <1>3
  <2>2. r.errors \in BOOLEAN /\ Handled(r.k) /\ r.k.stage = k.stage
    BY ReadsKeep
  <2>3. Sane(r.k)
    BY <2>2 DEF Sane
  <2> DEFINE j == [r.k EXCEPT !.ended = TRUE]
  <2>4. /\ j \in Conns /\ j.stage = r.k.stage /\ j.rh = r.k.rh
        /\ j.wh = r.k.wh /\ j.old_r = r.k.old_r /\ j.old_w = r.k.old_w
    BY <2>2 DEF Handled, Conns
  <2>5. o \in {Left(r.k, r.errors), Over(r.k, r.errors), Left(j, r.errors)}
    BY <2>1
  <2> HIDE DEF j
  <2>6. Sane(j)
    BY <2>2, <2>4 DEF Sane, Handled, Restored
  <2> QED BY <2>2, <2>3, <2>5, <2>6, LeftIsGood, OverIsGood
<1> QED BY <1>2, <1>3 DEF Receive

(* net_transport to this connection.                                      *)
LEMMA TransmitIsGood ==
  ASSUME Modes, NEW k, Handled(k), k.stage = "relay", NEW e \in BOOLEAN,
         NEW o \in Transmit(k, e)
  PROVE  Good(o)
<1>1. Sane(k)
  BY DEF Sane
<1>2. CASE o = Left(k, e)
  BY <1>1, <1>2, LeftIsGood
<1>3. CASE \E r \in Writes(k, e) :
             o = IF r.rc = "ERROR" THEN Over(r.k, r.errors)
                                   ELSE Left(r.k, r.errors)
  <2>1. PICK r \in Writes(k, e) :
             o = IF r.rc = "ERROR" THEN Over(r.k, r.errors)
                                   ELSE Left(r.k, r.errors)
    BY <1>3
  <2>2. r.errors \in BOOLEAN /\ Sane(r.k)
    BY WritesKeep
  <2> QED BY <2>1, <2>2, LeftIsGood, OverIsGood
<1> QED BY <1>2, <1>3 DEF Transmit

(* What comes after the handshake.                                        *)
LEMMA HandshakenIsGood ==
  ASSUME Modes, NEW k \in Conns, Untouched(k), NEW e \in BOOLEAN,
         NEW o \in Handshaken(k, e)
  PROVE  Good(o)
<1>1. CASE mode = "server"
  <2> DEFINE j == event_opt([k EXCEPT !.stage = "request", !.wh = "NULL",
                        !.rh = "tunnel_local_process_request"], "read")
  <2>1. /\ j \in Conns /\ j.stage = "request" /\ j.wh = "NULL"
        /\ j.rh = "tunnel_local_process_request"
        /\ j.old_r = k.old_r /\ j.old_w = k.old_w
    BY DEF event_opt, Conns, Stage, Handler
  <2>2. o \in tunnel_local_process_request(j, e)
    BY <1>1 DEF Handshaken, tunnel_local_handshake_handler
  <2> HIDE DEF j
  <2>3. Handled(j)
    BY <2>1 DEF Handled, Reading, Untouched, Restored
  <2> QED BY <2>1, <2>2, <2>3, RequestIsGood
<1>2. CASE mode # "server"
  BY <1>2, HttpsStartIsSane, LeftIsGood DEF Handshaken
<1> QED BY <1>1, <1>2

(* ssl_handshake, which puts its handler on one event only.               *)
LEMMA HandshakeIsGood ==
  ASSUME Modes, NEW k, Handled(k), k.stage = "handshake",
         NEW o \in ssl_handshake(k)
  PROVE  Good(o)
<1>0. k \in Conns /\ Untouched(k)
  BY DEF Handled
<1> DEFINE r == event_opt([k EXCEPT !.wh = "NULL",
                                    !.rh = "ssl_handshake_handler"], "read")
           w == event_opt([k EXCEPT !.rh = "NULL",
                                    !.wh = "ssl_handshake_handler"], "write")
<1>1. /\ r \in Conns /\ r.stage = "handshake" /\ r.wh = "NULL"
      /\ r.rh = "ssl_handshake_handler"
      /\ r.old_r = k.old_r /\ r.old_w = k.old_w
  BY <1>0 DEF event_opt, Conns, Handler
<1>2. /\ w \in Conns /\ w.stage = "handshake" /\ w.rh = "NULL"
      /\ w.wh = "ssl_handshake_handler"
      /\ w.old_r = k.old_r /\ w.old_w = k.old_w
  BY <1>0 DEF event_opt, Conns, Handler
<1>3. \/ o \in Handshaken(k, FALSE)
      \/ o \in {Left(r, FALSE), Left(w, FALSE), Over(k, FALSE), Over(k, TRUE)}
  BY DEF ssl_handshake
<1> HIDE DEF r, w
<1>4. Sane(r) /\ Sane(w)
  BY <1>0, <1>1, <1>2 DEF Sane, Handled, Untouched, Restored
<1>5. TRUE \in BOOLEAN /\ FALSE \in BOOLEAN
  OBVIOUS
<1> QED BY <1>0, <1>3, <1>4, <1>5, HandshakenIsGood, LeftIsGood, OverIsGood

-----------------------------------------------------------------------------
(* Every step keeps the invariant.                                         *)

(* ssl_shutdown never waits: it looks at what SSL_get_error answers only   *)
(* when an error is queued, and then that is neither of the WANTs.         *)
LEMMA ShutdownFrees ==
  ASSUME NEW k, NEW e \in BOOLEAN, NEW j \in ssl_shutdown(k, e)
  PROVE  j = Free
<1>1. ASSUME NEW n \in SSL_shutdown
      PROVE  ssler(n, e) \notin {"SSL_ERROR_WANT_READ", "SSL_ERROR_WANT_WRITE"}
  BY DEF ssler, SSL_get_error
<1> QED BY <1>1 DEF ssl_shutdown

(* An entry of the pool that nobody uses.                                 *)
LEMMA FreeIsSane == Sane(Free)
<1>1. Free \in Conns
  BY DEF Free, Conns, Stage, Handler
<1> QED BY <1>1 DEF Sane, Handled, Free, Restored

(* A handler of one connection that leaves it sane keeps IInv.             *)
LEMMA LeaveKeeps ==
  ASSUME IInv, Running, NEW c \in Conn, NEW outcomes, Leave(c, outcomes),
         \A o \in outcomes : Good(o)
  PROVE  IInv'
<1>1. PICK o \in outcomes :
        /\ errors' = o.errors
        /\ \E k \in IF o.over THEN ssl_shutdown(o.k, o.errors) ELSE {o.k} :
             conn' = [conn EXCEPT ![c] = k]
        /\ UNCHANGED <<mode, worker>>
  BY DEF Leave
<1>2. PICK k \in IF o.over THEN ssl_shutdown(o.k, o.errors) ELSE {o.k} :
        conn' = [conn EXCEPT ![c] = k]
  BY <1>1
<1>3. o.errors \in BOOLEAN /\ o.over \in BOOLEAN /\ (~o.over => Sane(o.k))
  BY DEF Good
<1>4. Sane(k)
  <2>1. CASE o.over
    BY <1>2, <1>3, <2>1, ShutdownFrees, FreeIsSane
  <2>2. CASE ~o.over
    BY <1>2, <1>3, <2>2
  <2> QED BY <2>1, <2>2
<1>5. k \in Conns
  BY <1>4 DEF Sane, Handled
<1>6. conn' \in [Conn -> Conns] /\ conn \in [Conn -> Conns]
  BY <1>2, <1>5 DEF IInv
<1>7. ASSUME NEW x \in Conn PROVE Sane(conn[x])'
  <2>1. PICK i : i = conn'[x]
    OBVIOUS
  <2>2. Sane(i)
    BY <1>2, <1>4, <1>6, <2>1 DEF IInv
  <2>3. mode' = mode
    BY <1>1
  <2> QED BY <2>1, <2>2, <2>3 DEF Sane, Handled, Restored, RelayRead,
                                  RelayWrite
<1>8. worker' = "running" /\ mode' = mode /\ errors' = o.errors
  BY <1>1 DEF Running
<1> QED BY <1>3, <1>6, <1>7, <1>8 DEF IInv

(* The stage a handler on an event belongs to.                             *)
LEMMA StageOf ==
  ASSUME Modes, NEW k, Handled(k), k.stage # "free",
         NEW h \in {k.rh, k.wh}
  PROVE  /\ h = "ssl_handshake_handler" => k.stage = "handshake"
         /\ h = "tunnel_local_process_request" => k.stage = "request"
         /\ h = "tunnel_local_process_body" => k.stage = "body"
         /\ h = "http_local_send_header" => k.stage = "header"
         /\ h = "http_local_send_body" => k.stage = "answer"
         /\ h = "https_connected" => k.stage = "connected"
         /\ h \in {RelayRead, RelayWrite} => k.stage = "relay"
<1>1. /\ k.stage \in {"handshake", "request", "body", "idle", "header",
                      "answer", "connected", "relay"}
  BY DEF Handled, Conns, Stage
<1>2. RelayRead \in {"tunnel_transport_in_recv", "tunnel_transport_out_recv"}
      /\ RelayWrite \in {"tunnel_transport_out_send",
                         "tunnel_transport_in_send"}
  BY DEF RelayRead, RelayWrite
<1>3. CASE k.stage = "handshake"
  BY <1>2, <1>3 DEF Handled
<1>4. CASE k.stage \in {"request", "body"}
  BY <1>2, <1>4 DEF Handled, Reading
<1>5. CASE k.stage \in {"header", "answer", "connected"}
  BY <1>2, <1>5 DEF Handled, Writing
<1>6. CASE k.stage = "idle"
  BY <1>2, <1>6 DEF Handled
<1>7. CASE k.stage = "relay"
  BY <1>2, <1>7 DEF Handled, Restored
<1> QED BY <1>1, <1>3, <1>4, <1>5, <1>6, <1>7

(* ssl_read_handler and ssl_write_handler find one to call; each other     *)
(* only in a relay.                                                        *)
LEMMA SwapsReach ==
  ASSUME Modes, NEW k, Handled(k), k.stage # "free"
  PROVE  /\ k.rh = "ssl_read_handler" => k.wh # "NULL"
         /\ k.wh = "ssl_write_handler" => k.rh # "NULL"
         /\ Swapped(k) => k.stage = "relay"
<1>1. /\ k.stage \in {"handshake", "request", "body", "idle", "header",
                      "answer", "connected", "relay"}
  BY DEF Handled, Conns, Stage
<1>2. RelayRead \in {"tunnel_transport_in_recv", "tunnel_transport_out_recv"}
      /\ RelayWrite \in {"tunnel_transport_out_send",
                         "tunnel_transport_in_send"}
  BY DEF RelayRead, RelayWrite
<1>3. CASE k.stage = "handshake"
  BY <1>3 DEF Handled, Swapped
<1>4. CASE k.stage \in {"request", "body"}
  BY <1>4 DEF Handled, Reading, Swapped
<1>5. CASE k.stage \in {"header", "answer", "connected"}
  BY <1>5 DEF Handled, Writing, Swapped
<1>6. CASE k.stage = "idle"
  BY <1>6 DEF Handled, Swapped
<1>7. CASE k.stage = "relay"
  BY <1>2, <1>7 DEF Handled, Restored, Swapped
<1> QED BY <1>1, <1>3, <1>4, <1>5, <1>6, <1>7

(* A handler that an event calls, itself or through a swapped one.        *)
LEMMA RunKeeps ==
  ASSUME IInv, Running, NEW c \in Conn, conn[c].f_active # {},
         NEW h \in {conn[c].rh, conn[c].wh}, Run(c, h)
  PROVE  IInv'
<1> DEFINE k == conn[c]
<1>1. /\ Modes /\ errors \in BOOLEAN /\ Sane(k) /\ Handled(k)
      /\ k.stage # "free"
  BY DEF IInv, Sane, Handled, Modes
<1>2. /\ h = "ssl_handshake_handler" => k.stage = "handshake"
      /\ h = "tunnel_local_process_request" => k.stage = "request"
      /\ h = "tunnel_local_process_body" => k.stage = "body"
      /\ h = "http_local_send_header" => k.stage = "header"
      /\ h = "http_local_send_body" => k.stage = "answer"
      /\ h = "https_connected" => k.stage = "connected"
      /\ h \in {RelayRead, RelayWrite} => k.stage = "relay"
  BY <1>1, StageOf
<1> HIDE DEF k
<1>3. CASE h = "ssl_handshake_handler" /\ Leave(c, ssl_handshake(k))
  BY <1>1, <1>2, <1>3, HandshakeIsGood, LeaveKeeps
<1>4. CASE Leave(c, {Over(k, errors)})
  <2>1. Good(Over(k, errors))
    BY <1>1, OverIsGood
  <2> DEFINE outcomes == {Over(k, errors)}
  <2>2. \A o \in outcomes : Good(o)
    BY <2>1
  <2>3. Leave(c, outcomes)
    BY <1>4
  <2> HIDE DEF outcomes
  <2> QED BY <2>2, <2>3, LeaveKeeps
<1>5. CASE h = "tunnel_local_process_request"
           /\ Leave(c, tunnel_local_process_request(k, errors))
  BY <1>1, <1>2, <1>5, RequestIsGood, LeaveKeeps
<1>6. CASE h = "tunnel_local_process_body"
           /\ Leave(c, tunnel_local_process_body(k, errors, {}))
  <2>1. \A o \in tunnel_local_process_body(k, errors, {}) : Good(o)
    BY <1>1, <1>2, <1>6, BodyIsGood
  <2> QED BY <1>6, <2>1, LeaveKeeps
<1>7. CASE h = "http_local_send_header"
           /\ Leave(c, http_local_send_header(k, errors))
  BY <1>1, <1>2, <1>7, SendHeaderIsGood, LeaveKeeps
<1>8. CASE h = "http_local_send_body"
           /\ Leave(c, http_local_send_body(k, errors))
  BY <1>1, <1>2, <1>8, SendBodyIsGood, LeaveKeeps
<1>9. CASE h = "https_connected" /\ Leave(c, https_connected(k, errors))
  BY <1>1, <1>2, <1>9, ConnectedIsGood, LeaveKeeps
<1>10. CASE h = RelayRead /\ Leave(c, Receive(k, errors))
  BY <1>1, <1>2, <1>10, ReceiveIsGood, LeaveKeeps
<1>11. CASE h = RelayWrite /\ Leave(c, Transmit(k, errors))
  BY <1>1, <1>2, <1>11, TransmitIsGood, LeaveKeeps
<1> QED BY <1>3, <1>4, <1>5, <1>6, <1>7, <1>8, <1>9, <1>10, <1>11
        DEF Run, k

(* A worker lost in two handlers that call each other.                     *)
LEMMA LostKeeps ==
  ASSUME IInv, NEW c \in Conn, Swapped(conn[c]), conn[c].stage = "relay",
         Lost("endless")
  PROVE  IInv'
<1>1. worker' = "endless" /\ mode' = mode /\ conn' = conn /\ errors' = errors
  BY DEF Lost
<1>2. ASSUME NEW x \in Conn PROVE Sane(conn[x])'
  <2>1. Sane(conn[x])
    BY DEF IInv
  <2> QED BY <1>1, <2>1 DEF Sane, Handled, Restored, RelayRead, RelayWrite
<1>3. (\E x \in Conn : Swapped(conn[x]) /\ conn[x].stage = "relay")'
  BY <1>1 DEF Swapped
<1>4. (conn \in [Conn -> Conns])'
  BY <1>1 DEF IInv
<1> QED BY <1>1, <1>2, <1>3, <1>4 DEF IInv

(* The read event.                                                        *)
LEMMA ReadEventKeeps ==
  ASSUME IInv, NEW c \in Conn, ReadEvent(c)
  PROVE  IInv'
<1>1. Running /\ conn[c].f_active # {} /\ Handled(conn[c]) /\ Modes
  BY DEF ReadEvent, IInv, Sane, Modes
<1>2. conn[c].stage # "free"
  BY <1>1 DEF Handled
<1>3. CASE conn[c].rh # "ssl_read_handler"
  BY <1>1, <1>3, RunKeeps DEF ReadEvent
<1>4. CASE conn[c].rh = "ssl_read_handler"
  <2>1. conn[c].wh # "NULL"
        /\ (Swapped(conn[c]) => conn[c].stage = "relay")
    BY <1>1, <1>2, <1>4, SwapsReach
  <2>2. CASE conn[c].wh = "ssl_write_handler"
    <3>1. Swapped(conn[c]) /\ conn[c].stage = "relay"
      BY <1>4, <2>1, <2>2 DEF Swapped
    <3>2. Lost("endless")
      BY <1>4, <2>2 DEF ReadEvent
    <3> QED BY <3>1, <3>2, LostKeeps
  <2>3. CASE conn[c].wh # "ssl_write_handler"
    BY <1>1, <1>4, <2>1, <2>3, RunKeeps DEF ReadEvent
  <2> QED BY <2>2, <2>3
<1> QED BY <1>3, <1>4

(* The write event.                                                       *)
LEMMA WriteEventKeeps ==
  ASSUME IInv, NEW c \in Conn, WriteEvent(c)
  PROVE  IInv'
<1>1. Running /\ conn[c].f_active # {} /\ Handled(conn[c]) /\ Modes
  BY DEF WriteEvent, IInv, Sane, Modes
<1>2. conn[c].stage # "free"
  BY <1>1 DEF Handled
<1>3. CASE conn[c].wh # "ssl_write_handler"
  BY <1>1, <1>3, RunKeeps DEF WriteEvent
<1>4. CASE conn[c].wh = "ssl_write_handler"
  <2>1. conn[c].rh # "NULL"
        /\ (Swapped(conn[c]) => conn[c].stage = "relay")
    BY <1>1, <1>2, <1>4, SwapsReach
  <2>2. CASE conn[c].rh = "ssl_read_handler"
    <3>1. Swapped(conn[c]) /\ conn[c].stage = "relay"
      BY <1>4, <2>1, <2>2 DEF Swapped
    <3>2. Lost("endless")
      BY <1>4, <2>2 DEF WriteEvent
    <3> QED BY <3>1, <3>2, LostKeeps
  <2>3. CASE conn[c].rh # "ssl_read_handler"
    BY <1>1, <1>4, <2>1, <2>3, RunKeeps DEF WriteEvent
  <2> QED BY <2>2, <2>3
<1> QED BY <1>3, <1>4

(* The upstream is there: the answer to a CONNECT is sent.                *)
LEMMA StartKeeps ==
  ASSUME IInv, NEW c \in Conn, tunnel_start(c)
  PROVE  IInv'
<1>1. /\ Running /\ Sane(conn[c]) /\ conn[c] \in Conns /\ Modes
      /\ errors \in BOOLEAN /\ conn[c].stage = "idle"
  BY DEF tunnel_start, IInv, Sane, Handled, Modes
<1> DEFINE j == event_opt([conn[c] EXCEPT !.stage = "connected",
                             !.unsent = TRUE, !.wh = "https_connected"],
                          "write")
<1>2. /\ j \in Conns /\ j.stage = "connected" /\ j.wh = "https_connected"
      /\ j.rh = conn[c].rh /\ j.old_r = conn[c].old_r
      /\ j.old_w = conn[c].old_w
  BY <1>1 DEF event_opt, Conns, Stage, Handler
<1>3. Leave(c, https_connected(j, errors))
  BY DEF tunnel_start
<1> HIDE DEF j
<1>4. Handled(j)
  BY <1>1, <1>2 DEF Sane, Handled, Writing, Untouched, Restored
<1> QED BY <1>1, <1>2, <1>3, <1>4, ConnectedIsGood, LeaveKeeps

(* The upstream's response is there: its head is sent.                    *)
LEMMA HeaderKeeps ==
  ASSUME IInv, NEW c \in Conn, http_remote_recv_header(c)
  PROVE  IInv'
<1>1. /\ Running /\ Sane(conn[c]) /\ conn[c] \in Conns /\ Modes
      /\ errors \in BOOLEAN /\ conn[c].stage = "idle"
  BY DEF http_remote_recv_header, IInv, Sane, Handled, Modes
<1> DEFINE j == event_opt([conn[c] EXCEPT !.stage = "header",
                             !.unsent = TRUE, !.wh = "http_local_send_header"],
                          "write")
<1>2. /\ j \in Conns /\ j.stage = "header" /\ j.wh = "http_local_send_header"
      /\ j.rh = conn[c].rh /\ j.old_r = conn[c].old_r
      /\ j.old_w = conn[c].old_w
  BY <1>1 DEF event_opt, Conns, Stage, Handler
<1>3. Leave(c, http_local_send_header(j, errors))
  BY DEF http_remote_recv_header
<1> HIDE DEF j
<1>4. Handled(j)
  BY <1>1, <1>2 DEF Sane, Handled, Writing, Untouched, Restored
<1> QED BY <1>1, <1>2, <1>3, <1>4, SendHeaderIsGood, LeaveKeeps

(* A new SSL connection.                                                  *)
LEMMA CreateKeeps ==
  ASSUME IInv, NEW c \in Conn, ssl_create_connection(c)
  PROVE  IInv'
<1> DEFINE k == [Free EXCEPT !.stage = "handshake",
                     !.f_active = IF mode = "server" THEN {"read"}
                                                     ELSE {"write"}]
<1>1. /\ k \in Conns /\ k.stage = "handshake"
      /\ k.rh = "NULL" /\ k.wh = "NULL"
      /\ k.old_r = "NULL" /\ k.old_w = "NULL"
  <2>1. (IF mode = "server" THEN {"read"} ELSE {"write"})
          \in SUBSET {"read", "write"}
    OBVIOUS
  <2> QED BY <2>1 DEF Free, Conns, Stage, Handler
<1>2. Running /\ Leave(c, ssl_handshake(k))
  BY DEF ssl_create_connection
<1> HIDE DEF k
<1>3. Handled(k)
  BY <1>1 DEF Handled, Untouched, Restored
<1> QED BY <1>1, <1>2, <1>3, HandshakeIsGood, LeaveKeeps DEF IInv, Modes

(* The other events of the worker that reach an SSL connection.            *)
LEMMA OthersKeep ==
  ASSUME IInv, NEW c \in Conn,
         http_remote_recv_body(c) \/ tunnel_transport(c) \/ tunnel_over(c)
  PROVE  IInv'
<1>1. Sane(conn[c]) /\ Handled(conn[c]) /\ Modes /\ errors \in BOOLEAN
  BY DEF IInv, Sane, Modes
<1>2. CASE http_remote_recv_body(c)
  BY <1>1, <1>2, SendBodyIsGood, LeaveKeeps DEF http_remote_recv_body
<1>3. CASE tunnel_transport(c)
  BY <1>1, <1>3, TransmitIsGood, LeaveKeeps DEF tunnel_transport
<1>4. CASE tunnel_over(c)
  <2> DEFINE outcomes == {Over(conn[c], errors)}
  <2>1. \A o \in outcomes : Good(o)
    BY <1>1, OverIsGood
  <2>2. Running /\ Leave(c, outcomes)
    BY <1>4 DEF tunnel_over
  <2> HIDE DEF outcomes
  <2> QED BY <2>1, <2>2, LeaveKeeps
<1> QED BY <1>2, <1>3, <1>4

(* Nothing is open at first.                                              *)
LEMMA IInvInit == Init => IInv
<1> SUFFICES ASSUME Init PROVE IInv
  OBVIOUS
<1>1. \A c \in Conn : conn[c] = Free
  BY DEF Init
<1>2. Sane(Free) /\ Free \in Conns
  BY FreeIsSane DEF Sane, Handled
<1>3. conn \in [Conn -> Conns]
  BY <1>2 DEF Init
<1>4. \A c \in Conn : Sane(conn[c])
  BY <1>1, <1>2
<1> QED BY <1>3, <1>4 DEF IInv, Init

(* One step per action.                                                   *)
LEMMA IInvNext == IInv /\ [Next]_vars => IInv'
<1> SUFFICES ASSUME IInv, [Next]_vars PROVE IInv'
  OBVIOUS
<1>1. ASSUME NEW c \in Conn, ReadEvent(c) PROVE IInv'
  BY <1>1, ReadEventKeeps
<1>2. ASSUME NEW c \in Conn, WriteEvent(c) PROVE IInv'
  BY <1>2, WriteEventKeeps
<1>3. ASSUME NEW c \in Conn, ssl_create_connection(c) PROVE IInv'
  BY <1>3, CreateKeeps
<1>4. ASSUME NEW c \in Conn, tunnel_start(c) PROVE IInv'
  BY <1>4, StartKeeps
<1>5. ASSUME NEW c \in Conn, http_remote_recv_header(c) PROVE IInv'
  BY <1>5, HeaderKeeps
<1>6. ASSUME NEW c \in Conn,
             http_remote_recv_body(c) \/ tunnel_transport(c) \/ tunnel_over(c)
      PROVE  IInv'
  BY <1>6, OthersKeep
<1>7. CASE UNCHANGED vars
  BY <1>7 DEF IInv, vars, Sane, Handled, Reading, Writing, Untouched, Restored,
              RelayRead, RelayWrite, Swapped
<1> QED BY <1>1, <1>2, <1>3, <1>4, <1>5, <1>6, <1>7 DEF Next

-----------------------------------------------------------------------------
(* The theorems.                                                           *)

(* Whatever the peers, OpenSSL and the other connections do, connections   *)
(* stay sane.                                                              *)
THEOREM Inductive == Spec => []IInv
<1> QED BY IInvInit, IInvNext, PTL DEF Spec

(* The variables have their types.                                         *)
THEOREM Typed == Spec => []TypeOK
<1>1. IInv => TypeOK
  BY DEF IInv, TypeOK
<1> QED BY <1>1, Inductive, PTL

(* In a relay, ssl_read and ssl_write give back the relay's own handlers.  *)
THEOREM GivesBack == Spec => []RelayRestored
<1>1. IInv => RelayRestored
  BY DEF IInv, Sane, Handled, RelayRestored
<1> QED BY <1>1, Inductive, PTL

(* ssl_read_handler and ssl_write_handler never call NULL, and call each   *)
(* other only in a relay.                                                  *)
THEOREM Reaches == Spec => []EventsReachHandlers
<1>1. IInv => EventsReachHandlers
  BY DEF IInv, EventsReachHandlers
<1> QED BY <1>1, Inductive, PTL

(* No closed connection is left waiting in ssl_shutdown.                   *)
THEOREM Closes == Spec => []NoneLeftBehind
<1>1. IInv => NoneLeftBehind
  BY DEF IInv, Sane, Handled, NoneLeftBehind
<1> QED BY <1>1, Inductive, PTL
=============================================================================
