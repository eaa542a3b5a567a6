----------------------------- MODULE EntityBody -----------------------------
(***************************************************************************)
(* One entry of the body pool of l_http_entitybody.c, used for one body    *)
(* after the other: a request body, received whole before it is sent on    *)
(* (tunnel_local_process_body), or a response body, sent on while it is    *)
(* received (http_body_transport).  A byte is a member of Token; a place   *)
(* in the body is the number of wire bytes before it.                      *)
(***************************************************************************)
EXTENDS Integers, SequencesExt

CONSTANTS
  Buffer,     \* ENTITY_BODY_BUFFER_SIZE
  MaxChunks,  \* bound: chunks of a body
  MaxContent, \* bound: bytes of a body with a length
  MaxEarly    \* bound: body bytes that came with the head

(* The head and what comes with it share a buffer of the same size.        *)
ASSUME SizeAssumption ==
  /\ Buffer \in Nat \ {0}
  /\ MaxChunks \in Nat /\ MaxContent \in Nat
  /\ MaxEarly \in 0 .. Buffer - 1

VARIABLES
  role,   \* request or response body
  wire,   \* what the peer sends
  bd,     \* http_entitybody_t without its buffers
  chain,  \* body_head and its successors
  last,   \* body_last: the end of chain, NULL, or freed
  got,    \* bytes received
  sent,   \* bytes sent on
  net,    \* whether recv, and send, will find bytes, and room
  at      \* what the tunnel does with the body

vars == <<role, wire, bd, chain, last, got, sent, net, at>>

-----------------------------------------------------------------------------
(* What a peer may send: sizes and data and, for keep-alive, the first     *)
(* byte of what follows the body; or a body, of one chunk at most, with    *)
(* something else in it that begins at `odd'.  Data may look like framing. *)
(* A size is a zero and one more digit; `b' and `B' stand for the letters, *)
(* `other' for a byte that is no digit, "x", "\r" or "\n".                 *)
Value == [d \in {"0", "1", "b", "B"} |->
            CASE d = "0" -> 0 [] d = "1" -> 1 [] OTHER -> 2]
Digit == DOMAIN Value
Token == Digit \cup {"cr", "lf", "data", "other"}
Bytes(n, b) == [i \in 1 .. n |-> b]
Chunk(d, b) ==
  <<"0", d, "cr", "lf">> \o Bytes(Value[d], b) \o <<"cr", "lf">>
Chunked(sizes, b) ==
  FlattenSeq([i \in DOMAIN sizes |-> Chunk(sizes[i], b)])
    \o <<"0", "cr", "lf", "cr", "lf">>
Wire(type, bytes, odd, extra) ==
  [type |-> type, end |-> Len(bytes), odd |-> odd,
   bytes |-> bytes \o Bytes(extra, "data")]

(* A byte of the framing is damaged; a chunk extension (";...") follows a  *)
(* size; a trailer ("x...\r\n") follows the last chunk.                    *)
Damaged(body) ==
  {Wire("chunk", [body EXCEPT ![i] = "other"], i, 0) :
     i \in {i \in DOMAIN body : body[i] # "data"}}
Extended(body) ==
  {Wire("chunk", InsertAt(body, i, "other"), i, 0) :
     i \in {i \in 2 .. Len(body) : body[i] = "cr" /\ body[i - 1] \in Digit}}
Trailed(body) ==
  LET last_r == Len(body) - 1
  IN Wire("chunk", SubSeq(body, 1, last_r - 1)
                     \o <<"other", "cr", "lf", "cr", "lf">>, last_r, 0)

ChunkedWires ==
  UNION {LET body == Chunked(sizes, b)
         IN {Wire("chunk", body, 0, extra) : extra \in 0 .. 1}
              \cup IF b = "data" /\ Len(sizes) <= 1
                     THEN Damaged(body) \cup Extended(body) \cup {Trailed(body)}
                     ELSE {}
         : sizes \in BoundedSeq(Digit \ {"0"}, MaxChunks), b \in {"data", "cr"}}
ContentWires ==
  {Wire("content", Bytes(n, "data"), 0, extra) :
     n \in 0 .. MaxContent, extra \in 0 .. 1}
Wires == ChunkedWires \cup ContentWires

-----------------------------------------------------------------------------
(* An entry as http_entitybody_free leaves it.  pos is chunk_pos, end what *)
(* follows the body (chunk_pos or content_end once DONE), rc the decoder's *)
(* answer; overread is history: it looked at a byte that was not received. *)
FreeBody == [h |-> "NULL", state |-> "start", hex |-> <<>>,
             chunk_need |-> 0, content_need |-> 0, pos |-> 0, end |-> -1,
             rc |-> "AGAIN", overread |-> FALSE]

(* Slip: an unfinished chunk size is left in hex_str.                      *)
http_entitybody_free_hex == [FreeBody EXCEPT !.hex = bd.hex]
http_entitybody_free == FreeBody

Silent == [recv |-> FALSE, send |-> FALSE]
NewMeta(from, size) == [pos |-> from, last |-> from, room |-> size]
Back == chain[Len(chain)]

-----------------------------------------------------------------------------
(* http_entitybody_decode_chunk.                                           *)

Expected == [start |-> Digit, hex |-> Digit \cup {"cr"}, hex_rn |-> {"lf"},
             part |-> Token, part_r |-> {"cr"}, part_rn |-> {"lf"},
             last_r |-> {"cr"}, last_rn |-> {"lf"}]

(* The decoder lets upper-case digits through, l_hex2dec refuses them.     *)
Refused(hex) == "B" \in ToSet(hex)
l_hex2dec(hex) ==
  LET n[i \in 0 .. Len(hex)] ==
        IF i = 0 THEN 0 ELSE 16 * n[i - 1] + Value[hex[i]]
  IN n[Len(hex)]

(* The state after byte b.  In `part' the code skips a whole run of data   *)
(* bytes at once.                                                          *)
NextState(s, b) ==
  CASE s.state = "start" -> "hex"
    [] s.state = "hex" -> IF b = "cr" THEN "hex_rn" ELSE "hex"
    [] s.state = "hex_rn" -> IF l_hex2dec(s.hex) = 0 THEN "last_r" ELSE "part"
    [] s.state = "part" -> IF s.chunk_need = 1 THEN "part_r" ELSE "part"
    [] s.state = "part_r" -> "part_rn"
    [] s.state = "last_r" -> "last_rn"
    [] s.state \in {"part_rn", "last_rn"} -> "start"

(* Slip: DONE is answered before the last byte is passed over.             *)
Passed_last(s) == IF s.state = "last_rn" THEN s.pos ELSE s.pos + 1
Passed(s) == s.pos + 1

Decoded(s, b) ==
  IF s.rc # "AGAIN" THEN s
  ELSE IF b \notin Expected[s.state] \/ (s.state = "hex_rn" /\ Refused(s.hex))
    THEN [s EXCEPT !.rc = "ERROR"]
  ELSE [s EXCEPT
          !.state = NextState(s, b),
          !.hex = IF s.state \in {"start", "hex"} /\ b # "cr"
                    THEN Append(@, b)
                  ELSE IF s.state = "hex_rn" THEN <<>> ELSE @,
          !.chunk_need = IF s.state = "hex_rn" THEN l_hex2dec(s.hex)
                         ELSE IF s.state = "part" THEN @ - 1 ELSE @,
          !.pos = Passed(s),
          !.end = IF s.state = "last_rn" THEN Passed(s) ELSE @,
          !.rc = IF s.state = "last_rn" THEN "DONE" ELSE "AGAIN"]

(* The outcomes of decoding what was received up to n into entry k.  When  *)
(* a chunk's data ends there, the decoder goes on to the byte after it: a  *)
(* zero of meta_alloc, or, past the end of a full buffer, any byte.        *)
Overread(s, room) ==
  {[s EXCEPT !.rc = "ERROR", !.overread = TRUE]}
    \cup (IF room > 0 THEN {}
          ELSE {[s EXCEPT !.state = "part_rn", !.pos = @ + 1,
                          !.overread = TRUE]})
decode_chunk(k, n, room) ==
  LET decoded[i \in k.pos .. n] ==
        IF i = k.pos THEN {k}
        ELSE {Decoded(s, wire.bytes[i]) : s \in decoded[i - 1]}
  IN UNION {IF s.rc = "AGAIN" /\ s.state = "part_r" THEN Overread(s, room)
            ELSE {s} : s \in decoded[n]}

(* http_entitybody_decode_content, also inlined in http_entitybody_start.  *)
decode_content(k, n, need) ==
  [k EXCEPT !.content_need = need,
            !.end = IF need <= 0 THEN n + need ELSE @,
            !.rc = IF need <= 0 THEN "DONE" ELSE "AGAIN"]

-----------------------------------------------------------------------------
(* http_entitybody_start and _process, called through bd->handler.         *)

(* tunnel_over and tunnel_close_tunnel free the body; its peer is gone, or *)
(* is asked for something else.                                            *)
Release ==
  /\ at' = "free"
  /\ bd' = http_entitybody_free
  /\ chain' = <<>> /\ last' = "null"
  /\ got' = 0 /\ sent' = 0 /\ net' = Silent
  /\ UNCHANGED <<role, wire>>
tunnel_over == Release

(* What the caller does with the handler's answer: http_body_transport     *)
(* goes on to send; tunnel_local_process_body waits for more, or takes the *)
(* body to the upstream.                                                   *)
Answered(rc) ==
  CASE rc = "ERROR" -> "rejected"
    [] rc # "ERROR" /\ role = "response" -> "send"
    [] rc = "DONE" /\ role = "request" -> "finish"
    [] rc = "AGAIN" /\ role = "request" -> "wait"

(* Entry k is decoded up to n with the given room left in body_last; the   *)
(* loop goes round unless the decoder has an answer.                       *)
Decode(k, n, need, room) ==
  \E s \in IF wire.type = "chunk" THEN decode_chunk(k, n, room)
                                  ELSE {decode_content(k, n, need)} :
    /\ bd' = s
    /\ at' = IF s.rc = "AGAIN" THEN "handler" ELSE Answered(s.rc)

(* The bytes that came with the head are copied to the first buffer.  A    *)
(* chunked body is only decoded by http_entitybody_process.                *)
http_entitybody_start ==
  /\ at = "handler" /\ bd.h = "http_entitybody_start"
  /\ \/ tunnel_over                                         \* meta_alloc
     \/ \E n \in 0 .. MaxEarly :
          LET s == IF wire.type = "chunk" THEN bd
                   ELSE decode_content(bd, n, wire.end - n)
          IN /\ n <= Len(wire.bytes)
             /\ got' = n
             /\ chain' = <<[pos |-> 0, last |-> n,
                            room |-> Max({n, Buffer}) - n]>>
             /\ last' = "tail"
             /\ IF s.rc = "DONE"
                  THEN bd' = s /\ at' = Answered("DONE")
                  ELSE /\ bd' = [s EXCEPT !.h = "http_entitybody_process"]
                       /\ UNCHANGED at
             /\ net' = [net EXCEPT !.recv = @ /\ n < Len(wire.bytes)]
             /\ UNCHANGED <<role, wire, sent>>

(* The chain with room for recv at its end.                                *)
NeedsMeta == last # "null" => Back.room = 0
Roomy == IF NeedsMeta THEN Append(chain, NewMeta(got, Buffer)) ELSE chain

(* http_entitybody_recv does not receive while bytes of a chunked body are *)
(* left to decode (slip: it always receives).                              *)
AlreadyHave_never == FALSE
AlreadyHave == wire.type = "chunk" /\ ~NeedsMeta /\ got > bd.pos

(* One turn of http_entitybody_process's loop.                             *)
http_entitybody_process ==
  LET k == IF NeedsMeta THEN [bd EXCEPT !.pos = got] ELSE bd
      end == Len(Roomy)
      room == Roomy[end].room
  IN /\ at = "handler" /\ bd.h = "http_entitybody_process"
     /\ \/ NeedsMeta /\ tunnel_over                          \* meta_alloc
        \/ /\ AlreadyHave
           /\ Decode(k, got, bd.content_need, room)
           /\ UNCHANGED <<role, wire, chain, last, got, sent, net>>
        \/ ~AlreadyHave /\ tunnel_over                       \* recv: ERROR
        \/ /\ ~AlreadyHave /\ ~net.recv                      \* recv: AGAIN
           /\ chain' = Roomy /\ last' = "tail" /\ bd' = k
           /\ at' = Answered("AGAIN")
           /\ UNCHANGED <<role, wire, got, sent, net>>
        \/ /\ ~AlreadyHave /\ net.recv
           /\ \E n \in got + 1 .. Len(wire.bytes), more \in BOOLEAN :
                /\ n - got <= room
                /\ n = Len(wire.bytes) => ~more
                /\ got' = n
                /\ net' = [net EXCEPT !.recv = more]
                /\ chain' = [Roomy EXCEPT ![end].last = n,
                                          ![end].room = @ - (n - got)]
                /\ Decode(k, n, bd.content_need - (n - got), room - (n - got))
           /\ last' = "tail"
           /\ UNCHANGED <<role, wire, sent>>

-----------------------------------------------------------------------------
(* The write loop of http_body_transport, for a response.                  *)

trans_body_done == bd.rc = "DONE"

http_body_transport_send_necessary ==
  IF Len(chain) = 1 THEN chain[1].pos < chain[1].last ELSE chain # <<>>

(* body_last after a look at an empty chain (slip: it is left as it is).   *)
body_last_kept == last
body_last == IF chain = <<>> THEN "null" ELSE last

(* The chain after n bytes of its head were sent: the head is freed with   *)
(* its last byte.  Slips: whatever was sent of it; pos is not moved.       *)
Unsent_none(n) == Tail(chain)
Unsent_still(n) == IF Head(chain).pos + n = Head(chain).last THEN Tail(chain)
                   ELSE chain
Unsent(n) ==
  IF Head(chain).pos + n = Head(chain).last THEN Tail(chain)
  ELSE [chain EXCEPT ![1].pos = @ + n]

http_body_transport ==
  /\ at = "send"
  /\ \/ /\ ~http_body_transport_send_necessary
        /\ last' = body_last
        /\ at' = IF trans_body_done THEN "finish" ELSE "wait"
        /\ UNCHANGED <<role, wire, bd, chain, got, sent, net>>
     \/ http_body_transport_send_necessary /\ tunnel_over    \* send: ERROR
     \/ /\ http_body_transport_send_necessary /\ ~net.send   \* send: AGAIN
        /\ at' = "wait"
        /\ UNCHANGED <<role, wire, bd, chain, last, got, sent, net>>
     \/ /\ http_body_transport_send_necessary /\ net.send
        /\ \E n \in 1 .. Head(chain).last - Head(chain).pos, more \in BOOLEAN :
             /\ sent' = sent + n
             /\ chain' = Unsent(n)
             /\ last' = IF Unsent(n) = <<>> THEN "freed" ELSE last
             /\ net' = [net EXCEPT !.send = more]
        /\ UNCHANGED <<role, wire, bd, got, at>>

-----------------------------------------------------------------------------
(* Edge-triggered events, the time-out, and the entry's next body.         *)

(* tunnel_local_process_body, http_remote_recv_body.                       *)
ReadEvent ==
  /\ at = "wait" /\ ~net.recv /\ got < Len(wire.bytes)
  /\ net' = [net EXCEPT !.recv = TRUE]
  /\ at' = IF trans_body_done THEN "send" ELSE "handler"
  /\ UNCHANGED <<role, wire, bd, chain, last, got, sent>>

(* http_local_send_body.                                                   *)
WriteEvent ==
  /\ at = "wait" /\ ~net.send /\ role = "response"
  /\ net' = [net EXCEPT !.send = TRUE]
  /\ at' = "send"
  /\ UNCHANGED <<role, wire, bd, chain, last, got, sent>>

tunnel_time_out == at = "wait" /\ tunnel_over

tunnel_process_finish == at = "finish" /\ Release
Rejected == at = "rejected" /\ tunnel_over

http_entitybody_create ==
  /\ at = "free"
  /\ role' \in {"request", "response"}
  /\ wire' \in Wires
  /\ net' \in [recv : IF wire'.bytes = <<>> THEN {FALSE} ELSE BOOLEAN,
               send : BOOLEAN]
  /\ bd' = [bd EXCEPT !.h = "http_entitybody_start", !.state = "start"]
  /\ at' = "handler"
  /\ UNCHANGED <<chain, last, got, sent>>

Init ==
  /\ role = "request" /\ wire = Wire("content", <<>>, 0, 0)
  /\ bd = FreeBody /\ chain = <<>> /\ last = "null"
  /\ got = 0 /\ sent = 0
  /\ net = Silent
  /\ at = "free"

Next ==
  \/ http_entitybody_start \/ http_entitybody_process \/ http_body_transport
  \/ ReadEvent \/ WriteEvent \/ tunnel_time_out
  \/ tunnel_process_finish \/ Rejected \/ http_entitybody_create

Spec == Init /\ [][Next]_vars

(* The worker runs, the peer sends its body, and takes what is sent.       *)
FairSpec ==
  /\ Spec
  /\ WF_vars(http_entitybody_start) /\ WF_vars(http_entitybody_process)
  /\ WF_vars(http_body_transport)
  /\ WF_vars(ReadEvent) /\ WF_vars(WriteEvent)

-----------------------------------------------------------------------------
(* Values of the right kind; the buffers hold what they say they hold.     *)
TypeOK ==
  /\ role \in {"request", "response"}
  /\ wire.end \in 0 .. Len(wire.bytes) /\ wire.odd \in 0 .. wire.end
  /\ bd.state \in DOMAIN Expected /\ bd.hex \in Seq(Digit)
  /\ bd.chunk_need \in Nat /\ bd.content_need \in Int
  /\ \A i \in DOMAIN chain :
       /\ chain[i].pos \in 0 .. chain[i].last
       /\ chain[i].room \in 0 .. Buffer
       /\ i < Len(chain) => chain[i].room = 0
  /\ last \in {"tail", "null", "freed"}
  /\ got \in 0 .. Len(wire.bytes) /\ sent \in 0 .. got
  /\ at \in {"handler", "send", "wait", "finish", "rejected", "free"}

(* A body is DONE with its last byte, and what follows it, the next        *)
(* request of a keep-alive client, begins exactly where tunnel_process_    *)
(* finish will look for it, however recv cut the body in pieces.           *)
EndsWhereItEnds == bd.rc = "DONE" => bd.end = wire.end /\ got >= wire.end

(* No body with a damaged byte, an extension or a trailer is ever DONE,    *)
(* and the decoder rejects no other, also not after a body that was given  *)
(* up half-way on the same pool entry, but for two: one that it cut by     *)
(* looking at the byte after the last one received, and one with an        *)
(* upper-case digit in a size.                                             *)
RejectsTheOdd ==
  /\ bd.rc = "DONE" => wire.odd = 0
  /\ bd.rc = "ERROR" =>
       \/ wire.odd # 0 /\ got >= wire.odd
       \/ bd.overread
       \/ \E i \in 1 .. got : wire.bytes[i] = "B"

(* The buffers hold, in order and once, the bytes that were received and   *)
(* not sent; a response is finished when all of it was sent.               *)
NothingLost ==
  /\ chain # <<>> => Head(chain).pos = sent /\ Back.last = got
  /\ chain = <<>> => sent = got
  /\ \A i \in 1 .. Len(chain) - 1 : chain[i].last = chain[i + 1].pos
  /\ at = "finish" /\ role = "response" => sent = got /\ got >= wire.end

(* body_last is not used after http_body_transport freed its buffer.       *)
NoFreedBuffer == at = "handler" => last # "freed"

(* Every body comes to an end, finished or given up, although events are   *)
(* edge-triggered and only the peer's bytes and room make any.             *)
Completes == at = "handler" ~> at \in {"finish", "rejected", "free"}
=============================================================================
