------------------------------- MODULE Relay -------------------------------
(***************************************************************************)
(* The relay of one tunnel: l_net_transport.c for both ways, called by the *)
(* four transport handlers of l_tunnel.c for edge-triggered events.  `in'  *)
(* goes from downstream to upstream, `out' back.  Each peer sends the      *)
(* bytes 1, 2, 3 ...  The kernel puts a socket on epoll's ready list when  *)
(* something happens to it, and epoll_wait reports what it is ready for.   *)
(***************************************************************************)
EXTENDS Naturals, Sequences

CONSTANTS
  Buffer,    \* NET_TRANSPORT_BUFFER_SIZE
  Socket,    \* bytes that fit in a socket's send buffer
  MaxDown,   \* bound: bytes the client sends
  MaxUp      \* bound: bytes the upstream peer sends

ASSUME SizeAssumption ==
  /\ Buffer \in Nat \ {0} /\ Socket \in Nat \ {0}
  /\ MaxDown \in Nat \ {0} /\ MaxUp \in Nat

VARIABLES
  sock,    \* the two sockets
  pipe,    \* the two net_transport_t
  run,     \* the way at work, and the loop it is in
  batch,   \* events to dispatch
  over     \* what made tunnel_over be called, or Open

vars == <<sock, pipe, run, batch, over>>

Side == {"down", "up"}
Way == {"in", "out"}
From(w) == IF w = "in" THEN "down" ELSE "up"
To(w) == IF w = "in" THEN "up" ELSE "down"
MaxSent(s) == IF s = "down" THEN MaxDown ELSE MaxUp
Byte == 1 .. IF MaxDown > MaxUp THEN MaxDown ELSE MaxUp

(* wrote, fin: what the peer sent; read: what recv took; taken: what the   *)
(* peer took of the bytes sent to it; broken: send fails; nospace: send    *)
(* answered EAGAIN, and the kernel will tell of new space; ready: on the   *)
(* ready list.                                                             *)
NewSocket == [wrote |-> 0, fin |-> FALSE, read |-> 0, taken |-> 0,
              broken |-> FALSE, nospace |-> FALSE, ready |-> TRUE]

(* chain is the list from send_meta on: of each buffer the bytes not sent  *)
(* yet (between pos and last) and how far it is filled.  recv_meta is its  *)
(* last buffer, or NULL when `receiving' is FALSE.  sent is history.       *)
Transport == [chain |-> <<>>, receiving |-> FALSE, recv_error |-> FALSE,
              sent |-> <<>>]
EmptyMeta == [bytes |-> <<>>, filled |-> 0]

Open == <<"open", "none">>
Nobody == [way |-> "none", at |-> "none"]
Sleeping == run = Nobody /\ batch = {} /\ over = Open

Readable(s) == sock[s].read < sock[s].wrote \/ sock[s].fin
Room(w) == Socket - (Len(pipe[w].sent) - sock[To(w)].taken)

Returns == run' = Nobody
Sends(w) == run' = [way |-> w, at |-> "send"]
tunnel_over(why) == over' = why /\ UNCHANGED <<sock, pipe, run, batch>>

-----------------------------------------------------------------------------
(* net_transport_recv: one turn of its loop.                               *)

Last(chain) == chain[Len(chain)]
(* The chain with a buffer that has room for recv at its end.              *)
Grown(p) ==
  IF p.receiving /\ Last(p.chain).filled < Buffer THEN p.chain
  ELSE Append(p.chain, EmptyMeta)
(* What recv may write (slip: as if the buffer were new).                  *)
Free_whole(p) == Buffer
Free(p) == Buffer - Last(Grown(p)).filled
Filled(p, bytes) ==
  LET chain == Grown(p)
      meta == [bytes |-> Last(chain).bytes \o bytes,
               filled |-> Last(chain).filled + Len(bytes)]
  IN [p EXCEPT !.chain = [chain EXCEPT ![Len(chain)] = meta],
               !.receiving = TRUE]

(* After bytes came, recv is called again (slip: only until it was short). *)
Again_once(w) == Sends(w)
Again(w) == UNCHANGED run

net_transport_recv(w) ==
  LET s == From(w)
      p == pipe[w]
  IN /\ run = [way |-> w, at |-> "recv"] /\ over = Open
     /\ UNCHANGED <<batch, over>>
     /\ \/ /\ p.recv_error
           /\ Sends(w)
           /\ UNCHANGED <<sock, pipe>>
        \/ /\ ~p.recv_error                        \* meta_alloc fails
           /\ Grown(p) # p.chain
           /\ pipe' = [pipe EXCEPT ![w].recv_error = TRUE]
           /\ Sends(w)
           /\ UNCHANGED sock
        \/ /\ ~p.recv_error
           /\ \E n \in 1 .. Free(p) :
                /\ sock[s].read + n <= sock[s].wrote
                /\ pipe' = [pipe EXCEPT ![w] =
                       Filled(p, [i \in 1 .. n |-> sock[s].read + i])]
                /\ sock' = [sock EXCEPT ![s].read = @ + n]
           /\ Again(w)
        \/ /\ ~p.recv_error
           /\ sock[s].read = sock[s].wrote         \* AGAIN, or ERROR at the end
           /\ pipe' = [pipe EXCEPT ![w].chain = Grown(p),
                                   ![w].receiving = TRUE,
                                   ![w].recv_error = sock[s].fin]
           /\ Sends(w)
           /\ UNCHANGED sock

(* net_transport_send: one turn of its loop.                               *)

(* net_transport_send_necessary (slip: a buffer that recv still fills is   *)
(* nothing to send).                                                       *)
Necessary_early(p) == p.chain # <<>> /\ (p.receiving => Len(p.chain) > 1)
Necessary(p) ==
  p.chain # <<>> /\ (p.receiving /\ Len(p.chain) = 1 =>
                       p.chain[1].bytes # <<>>)

(* The first n bytes are sent; an emptied buffer is freed (slip: with what *)
(* is left of it).                                                         *)
Sent_whole(p, n) ==
  [p EXCEPT !.sent = @ \o SubSeq(p.chain[1].bytes, 1, n),
            !.chain = Tail(@)]
Sent(p, n) ==
  LET rest == SubSeq(p.chain[1].bytes, n + 1, Len(p.chain[1].bytes))
  IN [p EXCEPT !.sent = @ \o SubSeq(p.chain[1].bytes, 1, n),
               !.chain = IF rest = <<>> THEN Tail(@)
                         ELSE [@ EXCEPT ![1].bytes = rest]]

(* recv_meta once there is nothing to send (slip: it keeps the freed one). *)
Receiving_kept(p) == p.receiving
Receiving(p) == p.receiving /\ p.chain # <<>>

(* What net_transport_send answers when there is nothing to send (slip:    *)
(* the error at once, whatever is still to be sent).                       *)
Ended_early(p) == p.recv_error
Ended(p) == ~Necessary(p) /\ p.recv_error

net_transport_send(w) ==
  LET p == pipe[w]
      s == To(w)
  IN /\ run = [way |-> w, at |-> "send"] /\ over = Open
     /\ \/ Ended(p) /\ tunnel_over(<<"recv", w>>)
        \/ /\ ~Necessary(p) /\ ~p.recv_error
           /\ pipe' = [pipe EXCEPT ![w].receiving = Receiving(p)]
           /\ Returns
           /\ UNCHANGED <<sock, batch, over>>
        \/ /\ Necessary(p)
           /\ sock[s].broken \/ p.chain[1].bytes = <<>>
           /\ tunnel_over(<<"send", w>>)
        \/ /\ Necessary(p) /\ ~sock[s].broken
           /\ \E n \in 1 .. Len(p.chain[1].bytes) :
                /\ n <= Room(w)
                /\ pipe' = [pipe EXCEPT ![w] = Sent(p, n)]
           /\ UNCHANGED <<sock, run, batch, over>>
        \/ /\ Necessary(p) /\ ~sock[s].broken
           /\ Room(w) = 0
           /\ sock' = [sock EXCEPT ![s].nospace = TRUE]
           /\ Returns
           /\ UNCHANGED <<pipe, batch, over>>

-----------------------------------------------------------------------------
(* The worker's loop, and the transport handlers' timers.                  *)

ReadyFor(s) ==
  (IF Readable(s) THEN {<<s, "r">>} ELSE {}) \cup
  (IF Room(CHOOSE w \in Way : To(w) = s) > 0 \/ sock[s].broken
     THEN {<<s, "w">>} ELSE {})

epoll_wait ==
  /\ Sleeping
  /\ \E S \in SUBSET {s \in Side : sock[s].ready} :
       /\ S # {}
       /\ batch' = UNION {ReadyFor(s) : s \in S}
       /\ sock' = [s \in Side |-> IF s \in S THEN [sock[s] EXCEPT !.ready = FALSE]
                                  ELSE sock[s]]
  /\ UNCHANGED <<pipe, run, over>>

Handle(e, w, at) ==
  /\ run = Nobody /\ over = Open
  /\ e \in batch
  /\ batch' = batch \ {e}
  /\ run' = [way |-> w, at |-> at]
  /\ UNCHANGED <<sock, pipe, over>>

tunnel_transport_in_recv == Handle(<<"down", "r">>, "in", "recv")
tunnel_transport_out_recv == Handle(<<"up", "r">>, "out", "recv")
tunnel_transport_in_send ==
  <<"up", "r">> \notin batch /\ Handle(<<"up", "w">>, "in", "send")
tunnel_transport_out_send ==
  <<"down", "r">> \notin batch /\ Handle(<<"down", "w">>, "out", "send")

tunnel_time_out == Sleeping /\ tunnel_over(<<"time out", "none">>)

-----------------------------------------------------------------------------
(* The peers and the kernel.                                               *)

Kernel(s, k) ==
  /\ over = Open
  /\ sock' = [sock EXCEPT ![s] = k]
  /\ UNCHANGED <<pipe, run, batch, over>>

PeerSends(s) ==
  /\ sock[s].wrote < MaxSent(s) /\ ~sock[s].fin
  /\ Kernel(s, [sock[s] EXCEPT !.wrote = @ + 1, !.ready = TRUE])

(* The peer shuts down its side, or resets the connection.                 *)
PeerEnds(s) ==
  \/ ~sock[s].fin /\ Kernel(s, [sock[s] EXCEPT !.fin = TRUE, !.ready = TRUE])
  \/ /\ ~sock[s].broken
     /\ Kernel(s, [sock[s] EXCEPT !.fin = TRUE, !.broken = TRUE,
                                  !.ready = TRUE])

PeerTakes(s) ==
  /\ \E w \in Way : To(w) = s /\ sock[s].taken < Len(pipe[w].sent)
  /\ Kernel(s, [sock[s] EXCEPT !.taken = @ + 1, !.nospace = FALSE,
                               !.ready = @ \/ sock[s].nospace])

(* As https_start leaves them: upstream is newly registered for reading,   *)
(* downstream may have been for both before.  A client that has sent data  *)
(* then was not registered for writing before (client mode).               *)
Init ==
  /\ \E early \in 0 .. 1, ready \in BOOLEAN :
       /\ early > 0 => ready
       /\ sock = [s \in Side |-> IF s = "up" THEN NewSocket
                                 ELSE [NewSocket EXCEPT !.wrote = early,
                                                        !.ready = ready]]
  /\ pipe = [w \in Way |-> Transport]
  /\ run = Nobody /\ batch = {} /\ over = Open

Worker ==
  \/ \E w \in Way : net_transport_recv(w) \/ net_transport_send(w)
  \/ epoll_wait
  \/ tunnel_transport_in_recv \/ tunnel_transport_out_recv
  \/ tunnel_transport_in_send \/ tunnel_transport_out_send

Next ==
  \/ Worker \/ tunnel_time_out
  \/ \E s \in Side : PeerSends(s) \/ PeerEnds(s) \/ PeerTakes(s)

Spec == Init /\ [][Next]_vars

(* The worker runs, and peers take what was sent to them.                  *)
FairSpec ==
  /\ Spec
  /\ WF_vars(Worker)
  /\ \A s \in Side : WF_vars(PeerTakes(s))

-----------------------------------------------------------------------------
(* Properties.                                                             *)

(* The variables have their types.                                         *)
TypeOK ==
  /\ sock \in [Side -> [wrote : {0} \cup Byte, fin : BOOLEAN,
                        read : {0} \cup Byte, taken : {0} \cup Byte,
                        broken : BOOLEAN, nospace : BOOLEAN, ready : BOOLEAN]]
  /\ \A w \in Way :
       /\ pipe[w].sent \in Seq(Byte)
       /\ pipe[w].chain \in Seq([bytes : Seq(Byte), filled : 0 .. Buffer])
       /\ {pipe[w].receiving, pipe[w].recv_error} \subseteq BOOLEAN
  /\ run \in {Nobody} \cup [way : Way, at : {"recv", "send"}]
  /\ batch \subseteq Side \X {"r", "w"}
  /\ over \in {Open, <<"time out", "none">>} \cup ({"recv", "send"} \X Way)

Stream(from, to) == [i \in 1 .. to - from |-> from + i]

Ordered(p, read) ==
  \E cut \in [0 .. Len(p.chain) -> 0 .. read] :
    /\ cut[0] = Len(p.sent) /\ cut[Len(p.chain)] = read
    /\ p.sent = Stream(0, cut[0])
    /\ \A i \in 1 .. Len(p.chain) :
         /\ cut[i - 1] <= cut[i]
         /\ p.chain[i].bytes = Stream(cut[i - 1], cut[i])

(* What was received is what was sent and what is buffered, in order:      *)
(* allocating, filling, sending and freeing buffers in any interleaving    *)
(* loses, repeats and reorders nothing.  Buffer i holds the bytes between  *)
(* cut[i - 1] and cut[i] of the stream.                                    *)
InOrder == \A w \in Way : Ordered(pipe[w], sock[From(w)].read)

(* recv_meta is the last buffer of the chain whenever recv will write to   *)
(* it: the buffer that net_transport_send freed is not written to.         *)
NoFreedBuffer ==
  \A w \in Way :
    run # [way |-> w, at |-> "send"] /\ over = Open =>
      (pipe[w].receiving <=> pipe[w].chain # <<>>)

(* The end of one side, or an error, is all that ends a relay besides time *)
(* outs (send is never called for no bytes, which it would take for a      *)
(* closed peer), and everything that a side sent before its end was sent on*)
(* before the tunnel is closed.                                            *)
EndDelivers ==
  \A w \in Way :
    /\ over = <<"recv", w>> => Len(pipe[w].sent) = sock[From(w)].read
    /\ over = <<"send", w>> => sock[To(w)].broken

(* Edge-triggered events suffice: when the worker sleeps, a socket that    *)
(* has something to read, or takes bytes that are buffered for it, is on   *)
(* the ready list.                                                         *)
NoLostEdge ==
  Sleeping =>
    \A w \in Way :
      /\ Readable(From(w)) /\ ~pipe[w].recv_error => sock[From(w)].ready
      /\ Necessary(pipe[w]) /\ Room(w) > 0 => sock[To(w)].ready

(* Every byte is delivered, or the tunnel closed, as long as peers take    *)
(* what is sent to them; of a side that could not be received to its end   *)
(* (meta_alloc failed), every byte that was.                               *)
Delivered ==
  \A w \in Way, n \in Byte :
    sock[From(w)].wrote >= n ~>
      \/ Len(pipe[w].sent) >= n \/ over # Open
      \/ pipe[w].recv_error /\ sock[From(w)].read < n
=============================================================================
