# k_tunnel: models and proofs

TLA+ modules of [k_tunnel](../src/README.md), a tunnel proxy written in C: a
master process and its workers; a worker accepts clients over SSL, reads an
HTTP request (server mode) or nothing at all (client mode), opens an upstream
connection, and then either relays bytes both ways or sends a request on and
its response back.  Everything a worker does happens in one thread, in
handlers called by an edge-triggered epoll loop and by timers, on objects of
fixed pools.

Paths below are relative to `src/src/` unless they start with `src/`.

## 1. The system

| component | source | state | operations |
|---|---|---|---|
| tunnel | `app/l_tunnel.c` | pool of `tunnel_t`: downstream, upstream, heads, bodies, relay buffers | a chain of handlers from accept to relay or answer; `tunnel_over`; keep-alive restart in `tunnel_process_finish` |
| connection pool | `base/l_net.c` | entries with two events (handler, timer, `f_active`), SSL state, `data` | `net_alloc`, `net_free` |
| event loop | `base/l_event.c` | epoll interest, `active_flag`, accept mutex, listener | `event_opt`, `event_close`, `event_accept`, `event_loop` |
| timers | `base/l_timer.c`, `util/l_bheap.c` | a binary heap of nodes inside the events | `timer_add`, `timer_del`, `timer_expire` |
| SSL | `base/l_ssl.c` | per connection: handshake state and the handler to go back to | handshake, read, write, shutdown, each of which may want the other direction |
| relay buffers | `base/l_net_transport.c`, `base/l_send.c` | per way: a list of buffers, where to send from, where to receive to | `net_transport`, `recvs`, `sends` |
| entity bodies | `http/l_http_entitybody.c` | pool of decoders with a list of buffers | start, process (chunked or length), free; `http_body_transport` |
| heads | `http/l_http_request_head.c`, `http/l_http_response_head.c` | pool of incremental parsers | create, process, free |
| master | `base/l_process.c`, `base/l_signal.c`, `lk.c` | `process_arr`, signal flags, the signal mask | fork, reap, respawn, `-stop`, `-reload` |
| configuration, JSON, listeners, logs, strings, containers | the rest | none once the service runs | |

How they interact.  The loop calls `event->handler( event )`; handlers find
their connection in `event->data` and their tunnel in `connection->data`, and
pass control on by assigning the next handler to an event and calling it.
Timers hold a raw pointer, to the tunnel or (during the handshake) to the
connection.  Master and workers share nothing but signals, and the semaphore of
the accept mutex if it is configured.

What is hard about it:

- **stale pointers**: one `epoll_wait` returns several events; a handler may free,
  and another reuse, the connection of an event that is still to be handled.
  Timers and `data` must never outlive their object;
- **waiting**: a handler that returns must leave an interest, a handler and a
  timer behind, or its client hangs; with edge-triggered events it must first
  have drained what it was told about;
- **failure in the middle**: each allocation, pool and system call may fail
  half-way through building a tunnel, and one call must take all of it down;
- **incremental decoding**: bodies arrive in pieces cut anywhere, partly with the
  head;
- **signals**: they arrive between any two steps, coalesce, and meet `fork` failures
  and crashes;
- **timers**: the order of a heap after deletions in the middle.

Correctness, per component: the tunnel never follows a NULL or freed object,
never disturbs another client, and gives every connection back; the relay and
the bodies lose, repeat and reorder nothing and do not stall; a body ends where
it ends; timers expire, and in time; the master knows its workers, replaces
them, and stops them; one worker at a time holds the listener.

## 2. The modules

| module | models | abstracts |
|---|---|---|
| `Tunnel` | every handler of `l_tunnel.c`, the connection and tunnel pools, `event_opt`, the dispatch of a batch of events, handshake, timers | data to what chooses the next handler; the free lists to sets; the heap to "any armed timer may expire"; SSL reads and writes to OK / AGAIN / ERROR |
| `Deferred` | the same worker with the accept mutex: `event_loop`'s event queues, with every handler and timer of `Tunnel` | whether this worker listens (`AcceptMutex`): the listener's event may come with any batch |
| `Sessions` | what a worker promises from outside: the life of a client and its upstream | everything else; `Tunnel` and `Deferred` implement it |
| `Ssl` | `l_ssl.c` under the handlers the tunnel puts on an SSL connection: handshake, read, write, shutdown, their handler swaps, OpenSSL's error queue | bytes; which tunnel a connection belongs to; OpenSSL to the answers `SSL_get_error` can give |
| `Relay` | one relay: both ways of `net_transport`, sockets, epoll's ready list, peers that send, end, reset, take | bytes to their number |
| `Heads` | both incremental head parsers, the headers they look at, the buffer and its reuse for the next head | bytes to tokens; a line's states to a table of transitions |
| `EntityBody` | one entry of the body pool: both decoders, its buffers, `http_body_transport`, reuse | bytes to tokens; head parsing to the bytes that came with the head |
| `TimerHeap` | heap and timers, the worker's expire-and-wait loop | which event a timer belongs to |
| `Master` | master, workers, signals | the work of a worker |
| `AcceptMutex` | the accept mutex in the workers' loops | all other connections |
| `*_proofs` | theorems about `Tunnel` (`Tunnel_proofs`, and `Course_proofs`, whose end is about `Deferred`), `Ssl`, `Relay`, `Heads`, `EntityBody`, `TimerHeap`, and `Master` and `AcceptMutex` (`Processes_proofs`) | |
| `MC*` | the small instances for TLC: symmetry sets, constants | |

`Tunnel` is the module that composes: connections, tunnels, timers, epoll and the
handler chain act on shared state there, and what `Ssl`, `Relay`, `Heads`,
`EntityBody` and `TimerHeap` model in detail appears as the answers they may give.
`Tunnel` is the worker without the accept mutex; `Deferred` extends it with the
queues that the mutex brings.

### How a module reads against the code

**Tunnel.** `cur` is the handler that runs; the tail call
`return c->read->handler( c->read )` sets it, a return to the loop makes it
`Return`.  An action is one handler, from its first line to its return, with
one disjunct per path; `\E` chooses what `recv`, `connect`, the parsers and
`malloc` answer.  `conn[c]` holds `h` (the two handlers), `t` (what the two
timers point at, `Null` when not armed), `f` (`f_active`), and on the kernel's
side `epoll` (the interest) and `edge` (a write notification owed after the
interest was registered).  `batch` holds the events `epoll_wait` returned and
`half` the entry between its read and write events: the code tests
`active_flag` only before the first.  An entry of `batch` may therefore name
a connection that was freed, or reused, meanwhile.  The operators named `x_...`
next to an `x`, marked as slips in comments, are variations of the code used to
see that a property can fail; no specification uses them.

`net_free` always reaches the end of the entry: the path on which
`ssl_shutdown` asks for another event is not reachable with OpenSSL, which
answers 0 or 1, or an error that is not retried.  `epoll_ctl` is taken to
succeed.  Single mode reads like server mode behind a plain TCP accept; that
accept branch is the client mode's.

**Deferred.** `epoll_wait`'s batch goes to `queue_event` (`event_loop_queue`, where
the stale entries are left out), clients are accepted (`event_accept_queue`, one
step per `accept`, whose handler is not called but queued), and when that is
over `event_loop_run` takes the queue from its head, one handler at a time,
with `Tunnel`'s handlers running in between.  `queue_insert` inserts at the
head; as the kernel returns a batch in any order, `Queues` takes every order in
which a connection's write event lies right before its read event.
`active_flag` and `f_active` are not looked at again when an event leaves the
queue, only its handler is.  The queue of listeners is `accepting`, as in
`Tunnel`; `sem_post` between the two queues is in `AcceptMutex`.

**Relay.** An action is one call of `recv` or `send` with what surrounds it in
the loop.  The kernel's rules are those of epoll with `EPOLLET`: a socket goes on
the ready list on new data, end, error, and when room appears after `EAGAIN`.

**Ssl.** An action is one call from the loop (`ReadEvent`, `WriteEvent`) or from a
handler of the other side (`tunnel_start`, `http_remote_recv_header`, ...),
followed to its return: the operators named after handlers give the set of all
results.  `Answers` and `Failures` are OpenSSL as far as `l_ssl.c` can tell it:
`SSL_get_error` looks at the queue of errors first, which is the process's, so
that an error left there by one connection turns another's would-block into an
error.  `worker` becomes "crashed" if a swapped handler calls NULL, "endless" if
`ssl_read_handler` and `ssl_write_handler` call each other.

**Heads.** A token is a byte, or a run of bytes every state treats alike
(`"NECT"` of CONNECT, a header's name); the tables `RequestLine`, `ResponseLine`
and `HeaderLine` are the `switch` statements, one transition per case.  `heads`
is what the peer sends, chosen from sound heads with every optional part, from
heads with one damaged token, and from heads whose method, URI, version or code
is one token longer (`Longer`), which for all but a response's version is more
than its limit; its pieces end anywhere.  `cuts` counts how
often a piece ended inside a status line, which the response parser does not
survive (section 4): the properties speak of heads without such a cut.

**EntityBody.** A byte is a token (`0`, `1`, the letters `b` and `B`, `cr`, `lf`,
`data`, `other`).  `wire` is chosen from well-formed bodies, with or without the
first byte of the next message, and bodies with one damaged byte of framing, a
chunk extension or a trailer; its `end` and `odd` (where what the decoder does
not know begins) are the reference against which the decoder's answers are
judged.  A body begins on the pool entry as the last one left it: what
`http_entitybody_create` sets is set there, what only `http_entitybody_free`
clears (the digits of a chunk size) is cleared there.  The `part` state, which skips a run of bytes at once in the code, is
one step per byte here; the code's look at the byte after the last one
received is kept (`Overread`).

**TimerHeap.** Times are relative to `cache_time_msec`.  `Up` and `Down` are the
sifting loops of `heap_add` and `heap_del`.

**Master.** SIGHUP is not in the set the master blocks, so `Reload` may run between
any two steps; other signals wait in `pending` for `sigsuspend`.  The SIGCHLD
handler is two steps (`Wake`, `l_signal_child_status`), so that a child may die
between them and leave another SIGCHLD pending; `NestedQuit` is a SIGINT during
a handler.  A process id that `process_arr` still names is taken not to be
reused.

**AcceptMutex.** `accept_mutex_user` is an ordinary variable of each process, so
the master's copy is never set.  A turn that ends in a time out or an
interrupt returns before `sem_post`; `event_close` clears the `f_active` of the
other event.  Both are in the model as they are in the code.

## 3. Runs

| run | instance | shows |
|---|---|---|
| `tunnel_server` | 3 connections, 3 tunnels, 2 events a batch, server mode | types and ownership; no handler that can be called follows NULL or a freed object; no handler waits for an event epoll does not report; timers belong to whoever they would close; no wait without a timer; pools suffice; one step touches one client; `Sessions` is implemented |
| `deferred_client` | 4 connections, client mode, accept mutex, 3 events a batch and any number of clients | no event queued twice, no wait without a timer, and `Sessions` again, with the other handler chain, two clients and their upstreams at once, and handlers that are put off |
| `drain_server` | 2 connections, fairness | with silent peers, timers give every connection back |
| `ssl` | 3 connections, renegotiation at any time, errors in the queue | a relay runs under its own handlers whatever was swapped before; no swapped handler calls NULL; a closed connection is freed at once |
| `relay` | buffers of 2 bytes, send buffers of 1, three bytes one way and one the other | nothing lost, repeated, reordered; no freed buffer written; the end of a stream comes after all of it; no edge lost, everything delivered |
| `heads` | a buffer of 28 tokens, up to 2 headers, 3 cuts in a status line | heads are read as they were written whatever the pieces, those within the limits that fit are taken, damage is refused where it is, and no word longer than its limit is kept |
| `entity_body` | buffers of 6, up to two chunks of one or two bytes, lengths to 7, up to 5 bytes with the head | ends exactly, nothing refused but damage, chunk extensions, trailers and the two cases named below, nothing lost on the way, no freed buffer used, everything comes to an end |
| `timer_heap` | 7 timers | no overflow, every node knows its place, all timers expire |
| `master` | 2 slots, 4 process ids, `fork` may fail, traffic | no worker lost or doubled; all told to quit; crashed and reloaded workers are replaced; `-stop` ends the master |
| `master_orphans` | the same | **finding** |
| `accept_mutex` | 3 workers | one listens at a time; the semaphore never exceeds 1 |
| `accept_mutex_dead` | 2 workers | **finding** |

**Bounds.** Three connections are a client with its upstream beside another
client, four are two such pairs: interference needs two tunnels, reuse a
freed entry and a batch that still names it, so `MaxBatch` is 2 (3 with the
accept mutex, where the events of clients accepted meanwhile come on top).
`Ssl` needs two connections for one's error to meet another's read, and has
three.  Two-byte
buffers are the smallest that can be partly sent and partly filled; three
bytes need a second buffer.  The head buffer of 28 tokens takes every line
without headers, with one header all but an absolute URI with a port or a long
header, and most of the shortest lines with two, so that a head may also be too long for
it.  The words of a sound head are at their limits (`MethodMax`, `UriMax`,
`CodeLen`, ...) or just within, and a word of `Longer` is one token over, so that
the parsers' refusals of such words are taken; a cut is only counted, and
three are more than a status line of two fields has.  Bodies are longer than
their buffers, chunks straddle them, data bytes may look like framing, and a
whole empty body of five bytes may come with its head (never more than fits
beside the head: both lie in one buffer of the same 8192 bytes).  Time passes in
steps of up to 2, so that an instant at which a timer is due may be skipped.
Seven timers are the fewest with which the heap order can break (with six it
holds).  Two slots let one worker crash while the other runs; ids are twice as
many so that old and new workers of both slots overlap.  `MaxLate` in
`TimerHeap` stops counting how late a timer is, at one timeout.

**Deadlock** is checked for `Tunnel`, `Deferred`, `TimerHeap` and `AcceptMutex`.  It is off
for `Master` (everything may have ended), `Relay` (the tunnel is closed),
`EntityBody` (nothing is required after a body is released), `Heads` (the last
head is read, or the connection over) and `Ssl` (the worker is lost in calls).

**Fairness.** `Tunnel!FairSpec`: a worker that has something to run runs; an
armed timer that is not re-armed expires (`timer_expire` comes round in every
turn of the loop, and `TimerHeap!AllExpire` shows that heap disorder does not
hide a timer for ever); the kernel reports the write-readiness it owes for a
newly registered interest.  Nothing is assumed of peers.
`Deferred!FairDeferredSpec` is the same, running the queue being part of the
worker's run.  `Relay`: the worker
runs, peers take what is sent to them.  `EntityBody`: the worker runs, the peer
sends its body and takes what it is sent.  `TimerHeap`: the worker runs and time
passes.  `Master!BusySpec`: processes run, and traffic ends every `epoll_wait`;
without traffic a worker has no reason to look at its flags.

## 4. Findings

- **`NoOrphans`**: `live` is set by the last reap for the workers it respawned or
  that are exiting.  A worker that crashes together with `-stop` makes a reap
  that respawns nothing while others run: `live` is 0, the master leaves its loop
  without a broadcast, and the other workers stay.
- **`DeadUnlocked`**: a worker that dies with the accept mutex keeps it for ever.

Seen in the models, without a run of their own because no doc or test of the
repository says otherwise:

- *timers*: `heap_del` only lets the replacing node go down.  All timers have one
  timeout, which makes the last node look late enough, but an earlier deletion
  may have moved an early node to the end; put below a later one it is not at
  the root when it is due, and the worker sleeps past it (it still expires);
- *bodies*: a chunk whose data ends where the received bytes end is rejected (the
  decoder reads one byte on), and so is a chunk size with an upper-case digit,
  which the decoder admits and `l_hex2dec` refuses: the two exceptions in
  `EntityBody!RejectsTheOdd`.  Chunk extensions (a `;` behind the size,
  `http/l_http_entitybody.c:73-91`) and trailers (lines 147-150) are refused as
  damage is;
- *heads*: a status line received in two pieces loses a byte (the parser returns
  with `pos` one past the last byte received) and leaves its state to the header
  parser; an empty header value, and an empty reason phrase, swallow the line
  behind them; `GET http://host` without a path and `CONNECT host` without a port are
  refused; the bytes of a next request longer than the one before it are moved by
  a `memcpy` whose arguments overlap (`"garbled"` in `Heads`);
- *SSL*: in a renegotiation under a relay, `ssl_read_handler` and
  `ssl_write_handler` may each have been put in place of the handler the other
  one calls: they call each other without end (`"endless"` in `Ssl`); an event
  that comes while its handler is swapped away is spent on the other
  direction's; a write that is wanted while the write event is not registered
  waits for the time-out; an error that one connection left in the queue closes
  another one whose read would only have blocked;
- *signals*: a `-reload` handled between the test of `sig_reload` and `sigsuspend` is
  not acted on, and a SIGINT between a worker's test of `sig_quit` and `epoll_wait`
  not before the next event;
- *accept mutex*: a turn that times out keeps the semaphore, and a listener
  closed once is never registered again.

## 5. What is proved

Every theorem holds for every value of its module's constants that satisfies the
module's assumptions (finite pools, distinct names, a known mode, sizes that are
positive, limits no smaller than the regular words of `Heads`); nothing else is assumed.

| module | theorem | says |
|---|---|---|
| `Tunnel_proofs` | `Inductive` | `Spec => []IInv` |
| | `Typed` | `TypeOK` |
| | `Owning` | `Ownership`: connections in use and tunnels refer to each other and to nothing else |
| | `Tame` | `NoWildHandler`: whatever runs, or could be called by an event, a stale entry or a handler chain, finds what it dereferences |
| | `Isolated` | `Isolation`: no step changes two clients' tunnels or connections |
| | `Serving` | `Spec => Implements`: a worker keeps the promise of `Sessions` |
| | `NeverDeaf` | `NoDeafHandler`: what is left on an event, epoll was told of |
| `Course_proofs` | `OwnTimers` | `TimersOwned`: an armed timer closes its own connection's tunnel, or the connection |
| | `Enough` | `PoolsSuffice`: the connection pool is the first to run out |
| | `Timely` | `EveryWaitTimed`: a tunnel in use has a handler running, a timer armed, or is a relay that epoll has yet to tell of an edge |
| | `QueuedOnce` | `Deferred`: `Queued`, no event is on the queue twice |
| | `TameDeferred`, `HeardDeferred`, `OwnTimersDeferred`, `EnoughDeferred`, `TimelyDeferred`, `ServingDeferred` | `DeferredSpec => ...`: `NoWildHandler`, `NoDeafHandler`, `TimersOwned`, `PoolsSuffice`, `EveryWaitTimed` and `Implements` with the accept mutex |
| `Ssl_proofs` | `Inductive`, `Typed` | `IInv`, `TypeOK` |
| | `GivesBack` | `RelayRestored`: a relay has its own handlers whatever SSL swapped before |
| | `Reaches` | `EventsReachHandlers`: no swapped handler calls NULL, and two call each other without end in a relay only |
| | `Closes` | `NoneLeftBehind`: closing frees at once |
| `Relay_proofs` | `Inductive`, `Typed` | `IInv`, `TypeOK` |
| | `Orderly` | `InOrder`: nothing is lost, repeated or reordered, for streams and buffers of every size |
| | `NeverFreed` | `NoFreedBuffer` |
| | `Flushed` | `EndDelivers`: an end of stream closes the tunnel after all of it was sent on |
| | `Woken` | `NoLostEdge`: a sleeping worker has missed no edge |
| `EntityBody_proofs` | `Inductive`, `Typed` | `IInv`, `TypeOK` |
| | `Ends` | `EndsWhereItEnds`: a decoder that is done has taken the body and no byte behind it, for bodies and buffers of every size and however they are cut |
| | `Rejects` | `RejectsTheOdd`: no body with damage, a chunk extension or a trailer is taken for whole, and the only others refused are the two cases of section 4 |
| | `Loses` | `NothingLost` |
| | `Unfreed` | `NoFreedBuffer` |
| `TimerHeap_proofs` | `Placing` | `Indexed`: every armed node, and no other, is in the array once and knows its index, for a heap of any size |
| `Heads_proofs` | `Typed` | `TypeOK`: the buffer is not overrun, no field reaches beyond it or its own limit, and a state is one of its table, for a buffer and limits of every size and any number of headers |
| | `AllReadAsWritten` | `ReadsAsWritten`: a head that is read is the one that was written, to its last byte, however it was cut in pieces and whatever was read before it |
| | `WhatFitsIsTaken` | `TakesWhatFits`: only a head larger than the buffer is refused, and no parser waits for a head that has arrived |
| | `DamageIsRejected` | `RejectsDamage`: nothing is read beyond a damaged byte |
| `Processes_proofs` | `Inductive`, `Typed` | `Master`'s `IInv`, `TypeOK` |
| | `Known` | `KnowsWorkers`, for any number of slots and process ids |
| | `Told` | `ToldToQuit` |
| | `MutexInductive`, `MutexTyped` | `AcceptMutex`'s `MutexInv`, `MutexTypeOK` |
| | `Exclusive`, `Alone` | `MutualExclusion`, `OneListens`, for any number of workers |

The arguments.

**Tunnel.** Neither `Ownership` nor `NoWildHandler` is inductive alone.  A handler
finds its tunnel because `Ownership` ties the pools together; `Ownership` survives
because the handler that runs satisfies the needs `NoWildHandler` states.  `IInv`
adds three facts both lean on: which event a handler may be left on (so that
clearing one event's handler clears the right one), that handshake timers
belong to clients without a tunnel, and that tunnels of a worker that parses
requests have a request head, and others none.  The proof has a lemma per
operation on a connection, frame lemmas (a step that changes one connection, one
tunnel, or a tunnel with both connections keeps the others safe), lemmas for the
ways out of a handler (`tunnel_over`, `Await`, `tunnel_process_finish`), one lemma
per handler and loop step, and the theorems.

**Isolation.** `Only(x)` says of a step that it leaves alone every tunnel in use
but x and every connection of another tunnel than x.  Every handler is `Only(T)`
for the tunnel of the connection it runs on, because `IInv` says that the
connections it reaches through T are T's or nobody's; a timer is `Only` the
tunnel it would close.

**Sessions.** `Phase` and `Peer` map the two pools to a client's phase and its
upstream.  Most handlers map to a stutter (`Unseen`): they keep every connection's
tunnel and how far it came.  The steps that Sessions sees are `event_accept`,
`tunnel_local_start`, `tunnel_remote_init`, `https_start`, `http_remote_send`, the
end of an answer and whatever closes a client.  What `IInv` does not give is that
a tunnel cannot be relayed and answered: `Ways` says that `https_connected`,
`https_start` and `http_remote_send`, running or left on an event, agree with what
the request asked for, and that this does not change while there is an upstream.

**Events.** No step takes an event back from epoll but `net_free`, so it is enough
that whoever leaves a handler on an event has registered it, or knows who did.
`Reg` names them: the downstream's read event is registered in `event_accept`; the
upstream's write event in `tunnel_remote_connect_start` (until that has run the
connection is `Fresh`); its read event before an answer begins, in
`http_remote_send`; the downstream's write event before
`http_local_send_header` runs (`Sending`).  `Ways` is needed again: a tunnel
without an upstream has no answer to wait for.

**Timers and pools.** Handlers stay on an event after their work is done, so what
has to be shown is that none is called late: `Due` says that a handler of the
connect is not run, or left, once the answer has begun (`resp`), one of the
answer's head not once its body has (`respBody`), one that reads the request not
once the request's body is allocated.  With that, a tunnel allocates each of its
bodies once, and counting does the rest: a request's body is held for its
downstream, an answer's for its upstream, no connection serves twice, and the
running tunnel has a connection to which nothing is allocated yet.  `Clock`
says when the timers are off: the downstream's read timer from
`tunnel_remote_init` to the relay, its write timer from
`http_local_send_header` on.  That is why `tunnel_process_finish` may put a new
tunnel in the old one's place: no timer still points at the old one.

**Waiting.** `Attended` is `EveryWaitTimed` taken apart by connection (`Minded`) and by
tunnel (`Tended`): whoever returns to the loop before the relay leaves a timer
armed behind, on the event it waits for or on the other one of the same client;
`Clock` says which of the two.  A relay may leave none: `https_start`
registers what nobody had registered before, whose edge epoll then owes, and
a relay's handler arms a timer.  What else may still be left on a
connection that came out of a handshake has to be known for that, so that no
handler of another stage can spend the edge.

**Deferred.** Every step of `Deferred` is a handler or a timer of `Tunnel`, which
keep `Tunnel`'s invariants whatever the batch is, or one of three steps of its
own: `event_loop_queue` changes no connection, `event_accept_queue` only puts a
client into a free entry (the `Admit...` lemmas, one per invariant of `Tunnel`),
and `event_loop_run` runs a handler that `NoWildHandler` already says may be
called.  What is new is the queue: while clients are accepted no handler runs,
so that the events queued are those of entries in use, and an entry that
`event_accept` takes has none.  Hence each event is inserted once, and `batch`,
the set that `Tunnel`'s invariants speak of, is what the queue holds.

**Ssl.** `Reading`, `Writing`, `Untouched` and `Restored` say for each stage of a
connection which handlers SSL may have swapped away and what it saved of them.
`Sane` adds that a read handler is only saved during an answer while bytes
are unsent: that is why the request's swap has been undone before the relay
begins.  One lemma per handler; `LeaveKeeps` carries a set of results over to
the connection; `ShutdownFrees` is the closing.

**Relay.** `Chained`: only the last buffer has room, and an empty one was never
filled.  `Ordered` gives the stream's cut points, one between every two buffers;
`recv_meta` is the last buffer except in the middle of a send.  `Flow` and `Edges`
say who is to look at an event next: what can be read is on the ready list, in
the batch, or being received; what is unsent waits for `EAGAIN`'s notice, or for
a write event; `EAGAIN` was for lack of room.  One lemma per turn of each loop,
and `OtherKeeps` for the way that is not at work.

**EntityBody.** The wire is known by its `Starts`, the places where a chunk's size
line begins (`Chopped`).  `Sync` says for each state of the decoder where in that
framing its position is, and what of it `length` and the digits seen hold;
`OneByte` shows that one byte keeps this, with a case per state, and `Decodes` that
any number of bytes given at once does, by induction over them.  `Astray` is the
decoder that has looked at a byte it had not received: one of the two exceptions
of `RejectsTheOdd`.  `Links` says that the chain's buffers hold, in order and without a
gap, what lies between the bytes sent on and the bytes taken; `Told`, what the
decoder's last answer means for it.  TLC has checked `IInv` on the instance of the
run `entity_body`.

**TimerHeap.** `Up` and `Down` are recursive functions on heap and index.  `Induct`,
an induction over a measure, shows that a loop whose measure falls with each
turn is defined everywhere by its equation (`Terminates`), and hands on whatever each
turn keeps (`Keeps`): here `Sound`, that a swap exchanges two nodes and their
indices.  That a heap's order is kept is not claimed; it is not (section 4).

**Heads.** `Parse` is a course of bytes (`Course`), and what one `Byte` keeps is kept
along it (`Along`): no field reaches beyond the byte looked at, and a state is one of
its table (`Parsed`).  `FlattenSeq`, which puts the headers of a head one behind the
other, is followed by an induction over them (`Flat`).  `TypeInv` adds to `TypeOK`
that heads are sequences of tagged bytes and that a parser is at most one byte beyond
what was received, or two after a cut status line.

That a head is read as written needs its layout: a line, headers that end at `P[1]`,
..., `P[N]`, and an empty line (`Outline`; `TalksKept` finds it in every head that
`Init` sends, with or without one damaged byte).  In each of these sections the table
takes the bytes of the head, and only them, along a known row of states, so that a
parser that began the section at its first byte ends it at its last and has every field
at the bytes tagged with it (`LineEnd`, `HeaderEnd`, and a lemma for each of the lines);
a control byte in a place where damage falls meets a state that has no transition for
it (`Deaf`).  `ReadInv` says of a parser that reads: what it has saved is what one
uninterrupted pass from the beginning of its section to `pos` would have (`InSection`),
and of the headers before, `hd` says what they mean (`Means`).  A call of `Parse` goes
on with that pass, whatever `recv` added, and has three outcomes: the section ends, more
is wanted, or the damaged byte was met (`LineOutcome`, `HeaderOutcome`); one lemma per
outcome keeps `ReadInv`.  `FreshHead` carries it to the next head on the connection, and
needs `free` to leave nothing of the last one.  `LimitsAssumption` is what the regular
words written in the module require of the limits; their lengths in tokens are fixed
there.  What is claimed of a head with a `Longer` word is `Typed`: that the word is
not kept if it exceeds its limit.

**Master** and **AcceptMutex.** Slots name their processes, and a process that was
forked for a slot is the one the slot names; the semaphore and its holders
add up to at most one, and a listener in an epoll is a holder's or one that its
next turn closes.

The type invariants of `Master` and `AcceptMutex` are proved and have no run of
their own.

Only model-checked: liveness under fairness, which is out of the prover's reach
(`Drains`, `Delivered`, `Completes`, `AllExpire`, `Replaced`, `MasterStops`).  Every
invariant that a passing run checks is also a theorem.

## 6. What is not modelled

- Data a client sends right behind its CONNECT: when the 200 answer could not be
  sent at once, the edge of such data is spent on the NULL handler that
  `tunnel_remote_init` left, and `https_start` registers nothing anew because both
  events are active; the relay reads it with whatever the client sends next.
  `Relay` may begin with a byte in the client's socket, whose event is still to
  come; `Tunnel`, where it is spent, knows no bytes.
- Clients left in the listener's backlog when `event_accept` returns early, which
  with an edge-triggered listener wait for the next client.  `Tunnel` lets
  `event_accept` be called, and end, at any time; no property can promise that a
  client is accepted.
- A broadcast that meets a foreign process under a pid that `process_arr` still
  names.
- A failing `epoll_ctl`; `send_chains` beyond its answer.
- Several listeners: one stands for all, which differ in `ssl_flag` only.
- In the heads: header fields nobody reads, the memory list they are kept in, the
  sign and the overflow of `l_atoi`.
- The wall clock being set back.
- Configuration and JSON, listeners, the pid file and daemonisation: work done
  once at start, or plain I/O; logs, strings, memory and containers: helpers
  without protocol state (`l_bst.c` is not used).
- `src/lib/openssl`: headers of a vendored library, which are most of the lines in
  `src/`.  The program itself is some 8,000 lines of C; the modules stand for more
  than two fifths of them, and what is left is listed above.

## 7. Plan

Done: all modules of section 2 with their runs, and the theorems of section 5.

What would be next, in this order:

1. the composition of `Relay` with `https_start` for early data, and of
   `event_accept` with a backlog;
2. `Heads` composed with `EntityBody`, whose bytes that came with the head it
   hands over.
