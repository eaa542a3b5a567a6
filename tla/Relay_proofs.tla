---------------------------- MODULE Relay_proofs ----------------------------
(***************************************************************************)
(* What holds of a relay with buffers and sockets of every size, and       *)
(* streams of every length.                                                *)
(***************************************************************************)
EXTENDS Relay, TLAPS, SequenceTheorems

Meta == [bytes : Seq(Byte), filled : 0 .. Buffer]
Pipes == [chain : Seq(Meta), receiving : BOOLEAN, recv_error : BOOLEAN,
          sent : Seq(Byte)]

(* Only the last buffer of a chain has room, and one that has nothing to   *)
(* send was never filled.                                                  *)
Chained(p) ==
  /\ \A i \in 1 .. Len(p.chain) :
       p.chain[i].bytes = <<>> => p.chain[i].filled = 0
  /\ \A i \in 1 .. Len(p.chain) - 1 : p.chain[i].filled = Buffer

(* recv_meta is the last buffer of the chain, if there is one.             *)
Named(p) == p.receiving <=> p.chain # <<>>

(* The two ends of a piece of the stream.                                  *)
LEMMA StreamLen ==
  ASSUME NEW a \in Nat, NEW b \in Nat, a <= b
  PROVE  /\ Stream(a, b) \in Seq(Nat) /\ Len(Stream(a, b)) = b - a
         /\ \A i \in 1 .. b - a : Stream(a, b)[i] = a + i
         /\ Stream(a, b) = <<>> <=> a = b
<1>1. b - a \in Nat
  OBVIOUS
<1>2. Stream(a, b) \in [1 .. b - a -> Nat]
  BY DEF Stream
<1>3. Stream(a, b) \in Seq(Nat) /\ Len(Stream(a, b)) = b - a
  BY <1>1, <1>2
<1>4. \A i \in 1 .. b - a : Stream(a, b)[i] = a + i
  BY DEF Stream
<1>5. Stream(a, b) = <<>> <=> a = b
  BY <1>3, EmptySeq
<1> QED BY <1>3, <1>4, <1>5

(* The stream's first bytes.                                               *)
LEMMA StreamStart ==
  \A b \in Nat : Len(Stream(0, b)) = b
<1> TAKE b \in Nat
<1>1. 0 \in Nat /\ 0 <= b /\ b - 0 = b
  OBVIOUS
<1>2. Len(Stream(0, b)) = b - 0
  BY <1>1, StreamLen
<1> QED BY <1>1, <1>2

(* Two pieces that meet are one.                                           *)
LEMMA StreamJoins ==
  ASSUME NEW a \in Nat, NEW b \in Nat, NEW c \in Nat, a <= b, b <= c
  PROVE  Stream(a, b) \o Stream(b, c) = Stream(a, c)
<1> DEFINE s == Stream(a, b)  t == Stream(b, c)  u == Stream(a, c)
<1>0. a <= c
  OBVIOUS
<1>1. s \in Seq(Nat) /\ Len(s) = b - a /\ \A i \in 1 .. b - a : s[i] = a + i
  BY StreamLen
<1>2. t \in Seq(Nat) /\ Len(t) = c - b /\ \A i \in 1 .. c - b : t[i] = b + i
  BY StreamLen
<1>3. u \in Seq(Nat) /\ Len(u) = c - a /\ \A i \in 1 .. c - a : u[i] = a + i
  BY <1>0, StreamLen
<1> HIDE DEF s, t, u
<1>4. s \o t \in Seq(Nat) /\ Len(s \o t) = Len(u)
  BY <1>1, <1>2, <1>3
<1>5. ASSUME NEW i \in 1 .. Len(s \o t) PROVE (s \o t)[i] = u[i]
  <2>1. i \in 1 .. c - a
    BY <1>3, <1>4
  <2>2. CASE i <= b - a
    BY <1>1, <1>2, <1>3, <2>1, <2>2
  <2>3. CASE i > b - a
    <3>1. i - (b - a) \in 1 .. c - b
      BY <2>1, <2>3
    <3>2. (s \o t)[i] = t[i - (b - a)]
      BY <1>1, <1>2, <2>1, <2>3
    <3>3. t[i - (b - a)] = b + (i - (b - a))
      BY <1>2, <3>1
    <3> QED BY <1>3, <2>1, <3>2, <3>3
  <2> QED BY <2>1, <2>2, <2>3
<1>6. s \o t = u
  BY <1>3, <1>4, <1>5, SeqEqual
<1> QED BY <1>6 DEF s, t, u

(* A piece that is cut is two pieces.                                      *)
LEMMA StreamParts ==
  ASSUME NEW a \in Nat, NEW b \in Nat, a <= b, NEW n \in 0 .. b - a
  PROVE  /\ SubSeq(Stream(a, b), 1, n) = Stream(a, a + n)
         /\ SubSeq(Stream(a, b), n + 1, Len(Stream(a, b))) = Stream(a + n, b)
<1> DEFINE s == Stream(a, b)
<1>1. s \in Seq(Nat) /\ Len(s) = b - a /\ \A i \in 1 .. b - a : s[i] = a + i
  BY StreamLen
<1> HIDE DEF s
<1>2. SubSeq(s, 1, n) = Stream(a, a + n)
  BY <1>1 DEF Stream
<1>3. SubSeq(s, n + 1, b - a) = Stream(a + n, b)
  BY <1>1 DEF Stream
<1> QED BY <1>1, <1>2, <1>3 DEF s

-----------------------------------------------------------------------------
(* A chain after one turn of a loop.                                       *)

(* Of a transport, the order depends on its chain and what was sent.       *)
LEMMA SameOrder ==
  ASSUME NEW p, NEW q, NEW read, Ordered(p, read),
         q.chain = p.chain, q.sent = p.sent
  PROVE  Ordered(q, read)
<1>1. PICK cut \in [0 .. Len(p.chain) -> 0 .. read] :
         /\ cut[0] = Len(p.sent) /\ cut[Len(p.chain)] = read
         /\ p.sent = Stream(0, cut[0])
         /\ \A i \in 1 .. Len(p.chain) :
              /\ cut[i - 1] <= cut[i]
              /\ p.chain[i].bytes = Stream(cut[i - 1], cut[i])
  BY DEF Ordered
<1>2. cut \in [0 .. Len(q.chain) -> 0 .. read]
  BY <1>1
<1>3. /\ cut[0] = Len(q.sent) /\ cut[Len(q.chain)] = read
      /\ q.sent = Stream(0, cut[0])
  BY <1>1
<1>4. \A i \in 1 .. Len(q.chain) :
        /\ cut[i - 1] <= cut[i]
        /\ q.chain[i].bytes = Stream(cut[i - 1], cut[i])
  BY <1>1
<1> QED BY Zenon, <1>2, <1>3, <1>4 DEF Ordered

(* A buffer is allocated, if need be.                                      *)
LEMMA GrownKeeps ==
  ASSUME NEW read \in Nat, NEW p \in Pipes, Chained(p), Named(p),
         Ordered(p, read), NEW q, q.chain = Grown(p), q.receiving,
         q.sent = p.sent
  PROVE  /\ q.chain \in Seq(Meta) /\ q.chain # <<>>
         /\ Chained(q) /\ Ordered(q, read)
<1>1. /\ p.chain \in Seq(Meta) /\ Len(p.chain) \in Nat
      /\ \A i \in 1 .. Len(p.chain) : p.chain[i] \in Meta
  BY DEF Pipes
<1>2. CASE Grown(p) = p.chain /\ p.receiving
  <2>1. q.chain = p.chain
    BY <1>2
  <2>2. q.chain # <<>>
    BY <1>2, <2>1 DEF Named
  <2>3. Chained(q)
    BY <2>1 DEF Chained
  <2>4. Ordered(q, read)
    BY <2>1, SameOrder
  <2> QED BY <1>1, <2>1, <2>2, <2>3, <2>4
<1>3. CASE ~(p.receiving /\ Last(p.chain).filled < Buffer)
  <2> DEFINE c == Append(p.chain, EmptyMeta)
             m == Len(p.chain)
  <2>1. EmptyMeta \in Meta /\ EmptyMeta.bytes = <<>> /\ EmptyMeta.filled = 0
    BY SizeAssumption DEF EmptyMeta, Meta
  <2>2. /\ c \in Seq(Meta) /\ Len(c) = m + 1 /\ c[m + 1] = EmptyMeta
        /\ \A i \in 1 .. m : c[i] = p.chain[i]
    BY <1>1, <2>1
  <2>3. q.chain = c
    BY <1>3 DEF Grown
  <2>4. Chained(q)
    <3>1. ASSUME NEW i \in 1 .. m PROVE c[i].filled = Buffer
      <4>1. CASE i < m
        BY <1>1, <2>2, <4>1 DEF Chained
      <4>2. CASE i = m
        <5>1. p.chain # <<>> /\ p.receiving
          BY <1>1, <4>2 DEF Named
        <5>2. /\ p.chain[m].filled \in 0 .. Buffer
              /\ ~(p.chain[m].filled < Buffer)
          BY <1>1, <1>3, <4>2, <5>1 DEF Last, Meta
        <5> QED BY <2>2, <4>2, <5>2, SizeAssumption
      <4> QED BY <1>1, <4>1, <4>2
    <3>2. ASSUME NEW i \in 1 .. m + 1, c[i].bytes = <<>>
          PROVE  c[i].filled = 0
      BY <1>1, <2>1, <2>2, <3>2 DEF Chained
    <3> HIDE DEF c, m
    <3> QED BY <2>2, <2>3, <3>1, <3>2, <1>1 DEF Chained, m
  <2>5. Ordered(q, read)
    <3>1. PICK cut \in [0 .. m -> 0 .. read] :
            /\ cut[0] = Len(p.sent) /\ cut[m] = read
            /\ p.sent = Stream(0, cut[0])
            /\ \A i \in 1 .. m :
                 /\ cut[i - 1] <= cut[i]
                 /\ p.chain[i].bytes = Stream(cut[i - 1], cut[i])
      BY DEF Ordered
    <3> DEFINE d == [i \in 0 .. m + 1 |-> IF i <= m THEN cut[i] ELSE read]
    <3>2. /\ d \in [0 .. m + 1 -> 0 .. read] /\ d[0] = cut[0]
          /\ d[m + 1] = read /\ \A i \in 0 .. m : d[i] = cut[i]
      BY <1>1, <3>1
    <3>3. Stream(read, read) = <<>>
      BY StreamLen
    <3>4. ASSUME NEW i \in 1 .. m + 1
          PROVE  /\ d[i - 1] <= d[i] /\ c[i].bytes = Stream(d[i - 1], d[i])
      <4>1. CASE i \in 1 .. m
        <5>1. i - 1 \in 0 .. m /\ i \in 0 .. m
          BY <1>1, <4>1
        <5>2. d[i - 1] = cut[i - 1] /\ d[i] = cut[i] /\ c[i] = p.chain[i]
          BY <2>2, <3>2, <4>1, <5>1
        <5> QED BY <3>1, <4>1, <5>2
      <4>2. CASE i = m + 1
        <5>1. d[i - 1] = read /\ d[i] = read /\ c[i].bytes = <<>>
          BY <1>1, <2>1, <2>2, <3>1, <3>2, <4>2
        <5> QED BY <3>3, <5>1
      <4> QED BY <1>1, <4>1, <4>2
    <3> HIDE DEF d, c
    <3>5. Len(q.chain) = m + 1 /\ q.chain = c /\ q.sent = p.sent
      BY <2>2, <2>3
    <3>6. d \in [0 .. Len(q.chain) -> 0 .. read]
      BY <3>2, <3>5
    <3>7. /\ d[0] = Len(q.sent) /\ d[Len(q.chain)] = read
          /\ q.sent = Stream(0, d[0])
      BY <3>1, <3>2, <3>5
    <3>8. \A i \in 1 .. Len(q.chain) :
            /\ d[i - 1] <= d[i] /\ q.chain[i].bytes = Stream(d[i - 1], d[i])
      BY <3>4, <3>5
    <3> QED BY Zenon, <3>6, <3>7, <3>8 DEF Ordered
  <2>6. q.chain # <<>>
    BY <1>1, <2>2, <2>3
  <2> QED BY <2>2, <2>3, <2>4, <2>5, <2>6
<1>4. (p.receiving /\ Last(p.chain).filled < Buffer) => Grown(p) = p.chain
  BY DEF Grown
<1> QED BY <1>2, <1>3, <1>4
(* What recv gets is the next piece of the stream.                         *)
LEMMA StreamBytes ==
  ASSUME NEW read \in Nat, NEW n \in Nat \ {0}, read + n \in Byte
  PROVE  /\ Stream(read, read + n) \in Seq(Byte)
         /\ Len(Stream(read, read + n)) = n
         /\ [i \in 1 .. n |-> read + i] = Stream(read, read + n)
<1>1. read + n - read = n /\ n \in Nat
  OBVIOUS
<1>2. [i \in 1 .. n |-> read + i] = Stream(read, read + n)
  BY <1>1 DEF Stream
<1>3. [i \in 1 .. n |-> read + i] \in [1 .. n -> Byte]
  <2>1. ASSUME NEW i \in 1 .. n PROVE read + i \in Byte
    BY SizeAssumption DEF Byte
  <2> QED BY <2>1
<1>4. [i \in 1 .. n |-> read + i] \in Seq(Byte)
  BY <1>1, <1>3
<1>5. Len([i \in 1 .. n |-> read + i]) = n
  BY <1>1, <1>3
<1> QED BY <1>2, <1>4, <1>5

(* What net_transport_recv gets is put behind what is in the last buffer.  *)
LEMMA LastFilled ==
  ASSUME NEW read \in Nat, NEW n \in Nat \ {0}, NEW g \in Pipes,
         Chained(g), Ordered(g, read), g.chain # <<>>,
         read + n \in Byte, NEW q, q.sent = g.sent, q.chain \in Seq(Meta),
         Len(q.chain) = Len(g.chain),
         \A i \in 1 .. Len(g.chain) - 1 : q.chain[i] = g.chain[i],
         Last(q.chain).bytes = Last(g.chain).bytes \o Stream(read, read + n)
  PROVE  Chained(q) /\ Ordered(q, read + n)
<1> DEFINE m == Len(g.chain)
           old == g.chain[m]
           new == q.chain[m]
<1>1. /\ g.chain \in Seq(Meta) /\ m \in Nat \ {0} /\ old \in Meta
      /\ \A i \in 1 .. m : g.chain[i] \in Meta
  BY EmptySeq DEF Pipes
<1>3. new.bytes # <<>> /\ new.bytes = old.bytes \o Stream(read, read + n)
  <2>1. old.bytes \in Seq(Byte)
    BY <1>1 DEF Meta
  <2>2. new.bytes = old.bytes \o Stream(read, read + n)
    BY DEF Last
  <2>3. Stream(read, read + n) \in Seq(Byte) /\ Len(Stream(read, read + n)) = n
    BY StreamBytes
  <2>4. old.bytes \o Stream(read, read + n) # <<>>
    <3> DEFINE a == old.bytes  b == Stream(read, read + n)
    <3>1. a \in Seq(Byte) /\ b \in Seq(Byte) /\ Len(b) = n /\ n # 0
      BY <2>1, <2>3
    <3> HIDE DEF a, b
    <3>2. a \o b # <<>>
      BY <3>1
    <3> QED BY <3>2 DEF a, b
  <2> HIDE DEF old
  <2> QED BY <2>2, <2>4
<1>4. /\ q.chain \in Seq(Meta) /\ Len(q.chain) = m
      /\ \A i \in 1 .. m - 1 : q.chain[i] = g.chain[i]
  OBVIOUS
<1>5. Chained(q)
  <2>1. ASSUME NEW i \in 1 .. m, q.chain[i].bytes = <<>>
        PROVE  q.chain[i].filled = 0
    <3>1. i # m
      BY <1>3, <1>4, <2>1
    <3>2. i \in 1 .. m - 1 /\ i \in 1 .. m
      BY <1>1, <3>1
    <3>3. q.chain[i] = g.chain[i]
      BY <1>4, <3>2
    <3> QED BY <2>1, <3>2, <3>3 DEF Chained
  <2>2. ASSUME NEW i \in 1 .. m - 1 PROVE q.chain[i].filled = Buffer
    BY <1>1, <1>4 DEF Chained
  <2> QED BY <1>4, <2>1, <2>2 DEF Chained
<1>6. Ordered(q, read + n)
  <2>1. PICK cut \in [0 .. m -> 0 .. read] :
          /\ cut[0] = Len(g.sent) /\ cut[m] = read
          /\ g.sent = Stream(0, cut[0])
          /\ \A i \in 1 .. m :
               /\ cut[i - 1] <= cut[i]
               /\ g.chain[i].bytes = Stream(cut[i - 1], cut[i])
    BY DEF Ordered
  <2> DEFINE d == [cut EXCEPT ![m] = read + n]
  <2>2. /\ d \in [0 .. m -> 0 .. read + n] /\ d[m] = read + n
        /\ d[0] = cut[0] /\ \A i \in 0 .. m - 1 : d[i] = cut[i]
    BY <1>1, <2>1
  <2> HIDE DEF d
  <2>3. ASSUME NEW i \in 1 .. m
        PROVE  /\ d[i - 1] <= d[i]
               /\ q.chain[i].bytes = Stream(d[i - 1], d[i])
    <3>1. CASE i \in 1 .. m - 1
      <4>1. i - 1 \in 0 .. m - 1 /\ i \in 0 .. m - 1
        BY <1>1, <3>1
      <4>2. /\ d[i - 1] = cut[i - 1] /\ d[i] = cut[i]
            /\ q.chain[i] = g.chain[i]
        BY <1>4, <2>2, <3>1, <4>1
      <4> QED BY <2>1, <4>2
    <3>2. CASE i = m
      <4>1. /\ m - 1 \in 0 .. m - 1 /\ m - 1 \in 0 .. m /\ m \in 1 .. m
        BY <1>1
      <4>2. d[i - 1] = cut[m - 1] /\ d[i] = read + n
        BY <2>2, <3>2, <4>1
      <4>3. cut[m - 1] \in 0 .. read /\ old.bytes = Stream(cut[m - 1], read)
        BY <2>1, <4>1
      <4>4. Stream(cut[m - 1], read) \o Stream(read, read + n)
              = Stream(cut[m - 1], read + n)
        <5>1. /\ cut[m - 1] \in Nat /\ cut[m - 1] <= read
              /\ read + n \in Nat /\ read <= read + n
          BY <4>3
        <5> HIDE DEF m
        <5> QED BY <5>1, StreamJoins
      <4>5. q.chain[i].bytes = Stream(cut[m - 1], read + n)
        BY <1>3, <1>4, <3>2, <4>3, <4>4
      <4>6. cut[m - 1] <= read + n
        BY <4>3
      <4> QED BY <4>2, <4>5, <4>6
    <3> QED BY <1>1, <3>1, <3>2
  <2>4. d \in [0 .. Len(q.chain) -> 0 .. read + n]
    BY <1>4, <2>2
  <2>5. /\ d[0] = Len(q.sent) /\ d[Len(q.chain)] = read + n
        /\ q.sent = Stream(0, d[0])
    BY <1>4, <2>1, <2>2
  <2>6. \A i \in 1 .. Len(q.chain) :
          /\ d[i - 1] <= d[i] /\ q.chain[i].bytes = Stream(d[i - 1], d[i])
    BY <1>4, <2>3
  <2> QED BY Zenon, <2>4, <2>5, <2>6 DEF Ordered
<1> QED BY <1>5, <1>6

(* What is sent is the front of what is buffered, and no more is freed.    *)
LEMMA SentKeeps ==
  ASSUME NEW read \in Nat, NEW p \in Pipes, Chained(p), Ordered(p, read),
         p.chain # <<>>, NEW n \in 1 .. Len(p.chain[1].bytes)
  PROVE  /\ Sent(p, n) \in Pipes /\ Chained(Sent(p, n))
         /\ Ordered(Sent(p, n), read)
         /\ Len(Sent(p, n).sent) = Len(p.sent) + n
         /\ Sent(p, n).receiving = p.receiving
         /\ Sent(p, n).recv_error = p.recv_error
<1> DEFINE q == Sent(p, n)
           m == Len(p.chain)
           first == p.chain[1].bytes
           rest == SubSeq(first, n + 1, Len(first))
           head == SubSeq(first, 1, n)
           chain == IF rest = <<>> THEN Tail(p.chain)
                    ELSE [p.chain EXCEPT ![1].bytes = rest]
<1>1. /\ p.chain \in Seq(Meta) /\ m \in Nat \ {0} /\ 1 \in 1 .. m
      /\ \A i \in 1 .. m : p.chain[i] \in Meta
      /\ p.sent \in Seq(Byte) /\ p.receiving \in BOOLEAN
      /\ p.recv_error \in BOOLEAN
  BY EmptySeq DEF Pipes
<1>2. first \in Seq(Byte) /\ n \in Nat /\ n <= Len(first)
  BY <1>1 DEF Meta
<1>3. /\ head \in Seq(Byte) /\ rest \in Seq(Byte) /\ Len(head) = n
      /\ Len(rest) = Len(first) - n
  <2> HIDE DEF first
  <2> QED BY <1>2
<1> DEFINE all == p.sent \o head
<1>4. q = [p EXCEPT !.sent = all, !.chain = chain]
  BY DEF Sent
<1>7. all \in Seq(Byte)
  <2> HIDE DEF head
  <2> QED BY <1>1, <1>3
<1>5. CASE rest = <<>>
  <2>1. chain = Tail(p.chain)
    BY <1>5
  <2>2. /\ chain \in Seq(Meta) /\ Len(chain) = m - 1
        /\ \A i \in 1 .. m - 1 : chain[i] = p.chain[i + 1]
    <3>1. Tail(p.chain) \in Seq(Meta)
      BY <1>1
    <3>2. Len(Tail(p.chain)) = m - 1
      BY <1>1
    <3>3. \A i \in 1 .. m - 1 : Tail(p.chain)[i] = p.chain[i + 1]
      BY <1>1
    <3> QED BY <2>1, <3>1, <3>2, <3>3
  <2> HIDE DEF chain, head, rest, all, first, m
  <2>3. /\ q \in Pipes /\ q.chain = chain /\ q.sent = all
        /\ q.receiving = p.receiving /\ q.recv_error = p.recv_error
    BY <1>1, <1>4, <1>7, <2>2 DEF Pipes
  <2> HIDE DEF q
  <2>4. Chained(q)
    <3>1. ASSUME NEW i \in 1 .. m - 1, chain[i].bytes = <<>>
          PROVE  chain[i].filled = 0
      <4>1. i + 1 \in 1 .. m
        BY <1>1
      <4> QED BY <2>2, <3>1, <4>1 DEF Chained, m
    <3>2. ASSUME NEW i \in 1 .. m - 2 PROVE chain[i].filled = Buffer
      <4>1. i + 1 \in 1 .. m - 1 /\ i \in 1 .. m - 1
        BY <1>1
      <4> QED BY <2>2, <4>1 DEF Chained, m
    <3>3. m - 1 - 1 = m - 2
      BY <1>1
    <3> QED BY <2>2, <2>3, <3>1, <3>2, <3>3 DEF Chained
  <2>5. PICK cut \in [0 .. m -> 0 .. read] :
          /\ cut[0] = Len(p.sent) /\ cut[m] = read
          /\ p.sent = Stream(0, cut[0])
          /\ \A i \in 1 .. m :
               /\ cut[i - 1] <= cut[i]
               /\ p.chain[i].bytes = Stream(cut[i - 1], cut[i])
    BY DEF Ordered, m
  <2>6. /\ cut[0] \in 0 .. read /\ cut[1] \in 0 .. read
        /\ cut[0] <= cut[1] /\ first = Stream(cut[0], cut[1])
    <3>1. 0 \in 0 .. m /\ 1 \in 0 .. m /\ 1 - 1 = 0
      BY <1>1
    <3> QED BY <1>1, <2>5, <3>1 DEF first
  <2>7. /\ Len(first) = cut[1] - cut[0] /\ n \in 0 .. cut[1] - cut[0]
        /\ cut[0] + n = cut[1]
    <3>1. Len(first) = cut[1] - cut[0]
      <4>1. cut[0] \in Nat /\ cut[1] \in Nat /\ cut[0] <= cut[1]
        BY <2>6
      <4> QED BY <2>6, <4>1, StreamLen
    <3>2. Len(rest) = 0
      BY <1>5
    <3> QED BY <1>2, <1>3, <2>6, <3>1, <3>2
  <2>8. head = Stream(cut[0], cut[1])
    <3>1. cut[0] \in Nat /\ cut[1] \in Nat /\ cut[0] <= cut[1]
      BY <2>6
    <3>2. SubSeq(Stream(cut[0], cut[1]), 1, n) = Stream(cut[0], cut[0] + n)
      BY <2>7, <3>1, StreamParts
    <3> QED BY <2>6, <2>7, <3>2 DEF head
  <2>9. q.sent = Stream(0, cut[1])
    <3>1. /\ cut[0] \in Nat /\ cut[1] \in Nat /\ 0 \in Nat
          /\ 0 <= cut[0] /\ cut[0] <= cut[1]
      BY <2>6
    <3>2. Stream(0, cut[0]) \o Stream(cut[0], cut[1]) = Stream(0, cut[1])
      BY <3>1, StreamJoins
    <3> QED BY <2>3, <2>5, <2>8, <3>2 DEF all
  <2> DEFINE d == [i \in 0 .. m - 1 |-> cut[i + 1]]
  <2>10. /\ d \in [0 .. m - 1 -> 0 .. read] /\ d[0] = cut[1]
         /\ d[m - 1] = read /\ \A i \in 0 .. m - 1 : d[i] = cut[i + 1]
    <3>1. /\ \A i \in 0 .. m - 1 : i + 1 \in 0 .. m
          /\ 0 \in 0 .. m - 1 /\ m - 1 \in 0 .. m - 1 /\ m - 1 + 1 = m
          /\ 0 + 1 = 1
      BY <1>1
    <3> QED BY <2>5, <3>1
  <2> HIDE DEF d
  <2>11. ASSUME NEW i \in 1 .. m - 1
         PROVE  d[i - 1] <= d[i] /\ chain[i].bytes = Stream(d[i - 1], d[i])
    <3>1. /\ i - 1 \in 0 .. m - 1 /\ i \in 0 .. m - 1 /\ i + 1 \in 1 .. m
          /\ i - 1 + 1 = i /\ i + 1 - 1 = i
      BY <1>1
    <3>2. d[i - 1] = cut[i] /\ d[i] = cut[i + 1]
      BY <2>10, <3>1
    <3>3. /\ cut[i] <= cut[i + 1]
          /\ p.chain[i + 1].bytes = Stream(cut[i], cut[i + 1])
      BY <2>5, <3>1
    <3> QED BY <2>2, <3>2, <3>3
  <2>12. d \in [0 .. Len(q.chain) -> 0 .. read]
    BY <2>2, <2>3, <2>10
  <2>13. Len(q.sent) = cut[1]
    <3>1. cut[1] \in Nat
      BY <2>6
    <3> QED BY Zenon, <2>9, <3>1, StreamStart
  <2>14. /\ d[0] = Len(q.sent) /\ d[Len(q.chain)] = read
         /\ q.sent = Stream(0, d[0])
    BY <2>2, <2>3, <2>9, <2>10, <2>13
  <2>15. \A i \in 1 .. Len(q.chain) :
           /\ d[i - 1] <= d[i] /\ q.chain[i].bytes = Stream(d[i - 1], d[i])
    BY <2>2, <2>3, <2>11
  <2>16. Ordered(q, read)
    BY Zenon, <2>12, <2>14, <2>15 DEF Ordered
  <2> QED BY <2>3, <2>4, <2>5, <2>7, <2>13, <2>16 DEF q
<1>6. CASE rest # <<>>
  <2> DEFINE new == [p.chain[1] EXCEPT !.bytes = rest]
  <2>1. chain = [p.chain EXCEPT ![1] = new]
    BY <1>6
  <2>2. new \in Meta /\ new.bytes = rest /\ new.filled = p.chain[1].filled
    <3> HIDE DEF rest
    <3> QED BY <1>1, <1>3 DEF Meta
  <2>3. /\ chain \in Seq(Meta) /\ Len(chain) = m /\ chain[1] = new
        /\ \A i \in 2 .. m : chain[i] = p.chain[i]
    <3> HIDE DEF chain, new
    <3> QED BY <1>1, <2>1, <2>2
  <2> HIDE DEF chain, head, rest, new, all, first, m
  <2>4. /\ q \in Pipes /\ q.chain = chain /\ q.sent = all
        /\ q.receiving = p.receiving /\ q.recv_error = p.recv_error
    BY <1>1, <1>4, <1>7, <2>3 DEF Pipes
  <2> HIDE DEF q
  <2>5. Chained(q)
    <3>1. ASSUME NEW i \in 1 .. m, chain[i].bytes = <<>>
          PROVE  chain[i].filled = 0
      <4>1. i # 1
        BY <1>6, <2>2, <2>3, <3>1
      <4>2. i \in 2 .. m
        BY <1>1, <4>1
      <4> QED BY <2>3, <3>1, <4>2 DEF Chained, m
    <3>2. ASSUME NEW i \in 1 .. m - 1 PROVE chain[i].filled = Buffer
      <4>1. p.chain[i].filled = Buffer
        BY DEF Chained, m
      <4>2. i = 1 \/ i \in 2 .. m
        BY <1>1
      <4> QED BY <2>2, <2>3, <4>1, <4>2
    <3> QED BY <2>3, <2>4, <3>1, <3>2 DEF Chained
  <2>6. PICK cut \in [0 .. m -> 0 .. read] :
          /\ cut[0] = Len(p.sent) /\ cut[m] = read
          /\ p.sent = Stream(0, cut[0])
          /\ \A i \in 1 .. m :
               /\ cut[i - 1] <= cut[i]
               /\ p.chain[i].bytes = Stream(cut[i - 1], cut[i])
    BY DEF Ordered, m
  <2>7. /\ cut[0] \in 0 .. read /\ cut[1] \in 0 .. read
        /\ cut[0] <= cut[1] /\ first = Stream(cut[0], cut[1])
    <3>1. 0 \in 0 .. m /\ 1 \in 0 .. m /\ 1 - 1 = 0
      BY <1>1
    <3> QED BY <1>1, <2>6, <3>1 DEF first
  <2>8. /\ Len(first) = cut[1] - cut[0] /\ n \in 0 .. cut[1] - cut[0]
        /\ cut[0] + n \in 0 .. read /\ cut[0] + n <= cut[1]
    <3>1. Len(first) = cut[1] - cut[0]
      <4>1. cut[0] \in Nat /\ cut[1] \in Nat /\ cut[0] <= cut[1]
        BY <2>7
      <4> QED BY <2>7, <4>1, StreamLen
    <3> QED BY <1>2, <2>7, <3>1
  <2>9. /\ head = Stream(cut[0], cut[0] + n)
        /\ rest = Stream(cut[0] + n, cut[1])
    <3>1. cut[0] \in Nat /\ cut[1] \in Nat /\ cut[0] <= cut[1]
      BY <2>7
    <3> DEFINE s == Stream(cut[0], cut[1])
    <3>2. /\ SubSeq(s, 1, n) = Stream(cut[0], cut[0] + n)
          /\ SubSeq(s, n + 1, Len(s)) = Stream(cut[0] + n, cut[1])
      BY <2>8, <3>1, StreamParts
    <3> QED BY <2>7, <3>2 DEF head, rest
  <2>10. q.sent = Stream(0, cut[0] + n)
    <3>1. /\ cut[0] \in Nat /\ cut[0] + n \in Nat /\ 0 \in Nat
          /\ 0 <= cut[0] /\ cut[0] <= cut[0] + n
      BY <2>7, <2>8
    <3>2. Stream(0, cut[0]) \o Stream(cut[0], cut[0] + n)
            = Stream(0, cut[0] + n)
      BY <3>1, StreamJoins
    <3> QED BY <2>4, <2>6, <2>9, <3>2 DEF all
  <2> DEFINE d == [cut EXCEPT ![0] = cut[0] + n]
  <2>11. /\ d \in [0 .. m -> 0 .. read] /\ d[0] = cut[0] + n
         /\ d[m] = read /\ \A i \in 1 .. m : d[i] = cut[i]
    BY <1>1, <2>6, <2>8
  <2> HIDE DEF d
  <2>12. ASSUME NEW i \in 1 .. m
         PROVE  d[i - 1] <= d[i] /\ chain[i].bytes = Stream(d[i - 1], d[i])
    <3>1. CASE i = 1
      <4>1. d[i - 1] = cut[0] + n /\ d[i] = cut[1] /\ chain[i].bytes = rest
        BY <2>2, <2>3, <2>11, <3>1
      <4> QED BY <2>8, <2>9, <4>1
    <3>2. CASE i # 1
      <4>1. i \in 2 .. m /\ i - 1 \in 1 .. m
        BY <1>1, <3>2
      <4>2. /\ d[i - 1] = cut[i - 1] /\ d[i] = cut[i]
            /\ chain[i] = p.chain[i]
        BY <2>3, <2>11, <4>1
      <4> QED BY <2>6, <4>2
    <3> QED BY <3>1, <3>2
  <2>13. d \in [0 .. Len(q.chain) -> 0 .. read]
    BY <2>3, <2>4, <2>11
  <2>14. Len(q.sent) = cut[0] + n
    <3>1. cut[0] + n \in Nat
      BY <2>8
    <3> QED BY Zenon, <2>10, <3>1, StreamStart
  <2>15. /\ d[0] = Len(q.sent) /\ d[Len(q.chain)] = read
         /\ q.sent = Stream(0, d[0])
    BY <2>3, <2>4, <2>10, <2>11, <2>14
  <2>16. \A i \in 1 .. Len(q.chain) :
           /\ d[i - 1] <= d[i] /\ q.chain[i].bytes = Stream(d[i - 1], d[i])
    BY <2>3, <2>4, <2>12
  <2>17. Ordered(q, read)
    BY Zenon, <2>13, <2>15, <2>16 DEF Ordered
  <2> QED BY <2>4, <2>5, <2>6, <2>14, <2>17 DEF q
<1> QED BY <1>5, <1>6

(* A chain with nothing to send holds nothing that was received.           *)
LEMMA Drained ==
  ASSUME NEW read \in Nat, NEW p \in Pipes, Ordered(p, read), ~Necessary(p)
  PROVE  Len(p.sent) = read
<1> DEFINE m == Len(p.chain)
<1>1. p.chain \in Seq(Meta) /\ m \in Nat
  BY DEF Pipes
<1>2. PICK cut \in [0 .. m -> 0 .. read] :
        /\ cut[0] = Len(p.sent) /\ cut[m] = read
        /\ \A i \in 1 .. m :
             /\ cut[i - 1] <= cut[i]
             /\ p.chain[i].bytes = Stream(cut[i - 1], cut[i])
  BY DEF Ordered
<1>3. CASE p.chain = <<>>
  <2>1. m = 0
    BY <1>3
  <2> QED BY <1>2, <2>1
<1>4. CASE m = 1 /\ p.chain[1].bytes = <<>>
  <2>1. 0 \in 0 .. m /\ 1 \in 0 .. m /\ 1 - 1 = 0 /\ 1 \in 1 .. m
    BY <1>4
  <2>2. /\ cut[0] \in Nat /\ cut[1] \in Nat /\ cut[0] <= cut[1]
        /\ Stream(cut[0], cut[1]) = <<>>
    BY <1>2, <1>4, <2>1
  <2>3. cut[0] = cut[1]
    <3> HIDE DEF m
    <3> QED BY <2>2, StreamLen
  <2> QED BY <1>2, <1>4, <2>3
<1> QED BY <1>3, <1>4 DEF Necessary

-----------------------------------------------------------------------------
(* The inductive invariant.                                                *)

Types ==
  /\ sock \in [Side -> [wrote : Nat, fin : BOOLEAN, read : Nat, taken : Nat,
                        broken : BOOLEAN, nospace : BOOLEAN,
                        ready : BOOLEAN]]
  /\ pipe \in [Way -> Pipes]
  /\ run \in {Nobody} \cup [way : Way, at : {"recv", "send"}]
  /\ batch \subseteq Side \X {"r", "w"}
  /\ over \in {Open, <<"time out", "none">>} \cup ({"recv", "send"} \X Way)

(* What a way has received, buffered and sent.                             *)
Flow(w) ==
  /\ sock[From(w)].read <= sock[From(w)].wrote
  /\ sock[From(w)].wrote <= MaxSent(From(w))
  /\ sock[To(w)].taken <= Len(pipe[w].sent)
  /\ Chained(pipe[w])
  /\ Ordered(pipe[w], sock[From(w)].read)
  /\ pipe[w].chain # <<>> => pipe[w].receiving
  /\ run # [way |-> w, at |-> "send"] /\ over = Open => Named(pipe[w])
  /\ over = <<"recv", w>> => Len(pipe[w].sent) = sock[From(w)].read
  /\ over = <<"send", w>> => sock[To(w)].broken

(* Somebody is about to look at what can be received, and at what can be   *)
(* sent, or the kernel will tell of new space.                             *)
Edges(w) ==
  /\ over = Open /\ Readable(From(w)) /\ ~pipe[w].recv_error =>
       \/ sock[From(w)].ready \/ <<From(w), "r">> \in batch
       \/ run = [way |-> w, at |-> "recv"]
  /\ over = Open /\ Necessary(pipe[w]) /\ run.way # w =>
       \/ sock[To(w)].nospace
       \/ Room(w) > 0 /\ (sock[To(w)].ready \/ <<To(w), "w">> \in batch)
  /\ sock[To(w)].nospace => Room(w) = 0

IInv == Types /\ \A w \in Way : Flow(w) /\ Edges(w)

(* The two ways run opposite to each other.                                *)
LEMMA Apart ==
  ASSUME NEW w \in Way
  PROVE  /\ From(w) \in Side /\ To(w) \in Side /\ From(w) # To(w)
         /\ \A v \in Way : v # w => From(v) = To(w) /\ To(v) = From(w)
         /\ (CHOOSE v \in Way : To(v) = To(w)) = w
BY DEF Way, Side, From, To

(* A way that is not at work keeps what it has, when the other leaves its  *)
(* sockets' fields alone.                                                  *)
LEMMA OtherKeeps ==
  ASSUME NEW v \in Way, Flow(v), Edges(v), run.way # v, run'.way # v,
         pipe'[v] = pipe[v], over = Open, over' # <<"recv", v>>,
         over' # <<"send", v>>, batch' = batch,
         sock'[From(v)].read = sock[From(v)].read,
         sock'[From(v)].wrote = sock[From(v)].wrote,
         sock'[From(v)].fin = sock[From(v)].fin,
         sock'[From(v)].ready = sock[From(v)].ready,
         sock'[To(v)].taken = sock[To(v)].taken,
         sock'[To(v)].nospace = sock[To(v)].nospace,
         sock'[To(v)].ready = sock[To(v)].ready,
         sock'[To(v)].broken = sock[To(v)].broken
  PROVE  Flow(v)' /\ Edges(v)'
<1>1. /\ run # [way |-> v, at |-> "send"] /\ run' # [way |-> v, at |-> "send"]
      /\ run # [way |-> v, at |-> "recv"] /\ run' # [way |-> v, at |-> "recv"]
  OBVIOUS
<1>2. Room(v)' = Room(v)
  BY DEF Room
<1>3. Readable(From(v))' = Readable(From(v))
  BY DEF Readable
<1>4. Flow(v)'
  BY <1>1 DEF Flow
<1>5. Edges(v)'
  BY <1>1, <1>2, <1>3 DEF Edges
<1> QED BY <1>4, <1>5

(* One turn of net_transport_recv's loop keeps the invariant.              *)
LEMMA RecvKeeps ==
  ASSUME NEW w \in Way, IInv, net_transport_recv(w)
  PROVE  IInv'
<1> DEFINE s == From(w)
           p == pipe[w]
           q == pipe'[w]
<1>1. /\ run = [way |-> w, at |-> "recv"] /\ over = Open
      /\ batch' = batch /\ over' = over
  BY DEF net_transport_recv
<1>2. /\ p \in Pipes /\ Chained(p) /\ Ordered(p, sock[s].read) /\ Named(p)
      /\ sock[s].read \in Nat /\ sock[s].wrote \in Nat
      /\ sock[s].fin \in BOOLEAN /\ Flow(w) /\ Edges(w)
  <2>1. run # [way |-> w, at |-> "send"]
    BY <1>1
  <2> QED BY <1>1, <2>1, Apart DEF IInv, Types, Flow
<1>4. /\ q \in Pipes /\ Chained(q) /\ Ordered(q, sock'[s].read) /\ Named(q)
      /\ q.sent = p.sent
      /\ pipe' = [pipe EXCEPT ![w] = q]
      /\ \/ sock' = sock
         \/ \E n \in Nat : /\ sock' = [sock EXCEPT ![s].read = @ + n]
                           /\ sock[s].read + n <= sock[s].wrote
      /\ \/ run' = [way |-> w, at |-> "recv"]
         \/ /\ run' = [way |-> w, at |-> "send"]
            /\ \/ q.recv_error
               \/ sock'[s].read = sock'[s].wrote /\ ~sock'[s].fin
  <2>1. CASE /\ p.recv_error /\ Sends(w) /\ UNCHANGED <<sock, pipe>>
    <3>1. q = p /\ pipe' = [pipe EXCEPT ![w] = q]
      BY <2>1 DEF IInv, Types
    <3> HIDE DEF q
    <3> QED BY <1>2, <2>1, <3>1 DEF Sends
  <2>2. CASE /\ ~p.recv_error /\ Grown(p) # p.chain
             /\ pipe' = [pipe EXCEPT ![w].recv_error = TRUE]
             /\ Sends(w) /\ UNCHANGED sock
    <3>1. q = [p EXCEPT !.recv_error = TRUE]
      BY <2>2 DEF IInv, Types
    <3>2. /\ q.chain = p.chain /\ q.sent = p.sent /\ q \in Pipes
          /\ q.receiving = p.receiving /\ q.recv_error
      BY <1>2, <3>1 DEF Pipes
    <3>3. Ordered(q, sock[s].read)
      BY <1>2, <3>2, SameOrder
    <3>4. Chained(q) /\ Named(q)
      BY <1>2, <3>2 DEF Chained, Named
    <3>5. pipe' = [pipe EXCEPT ![w] = q]
      BY <2>2 DEF IInv, Types
    <3> HIDE DEF q, p, s
    <3> QED BY <2>2, <3>2, <3>3, <3>4, <3>5 DEF Sends
  <2>3. CASE /\ ~p.recv_error
             /\ \E n \in 1 .. Free(p) :
                  /\ sock[s].read + n <= sock[s].wrote
                  /\ pipe' = [pipe EXCEPT ![w] =
                         Filled(p, [i \in 1 .. n |-> sock[s].read + i])]
                  /\ sock' = [sock EXCEPT ![s].read = @ + n]
             /\ Again(w)
    <3> PICK n \in 1 .. Free(p) :
               /\ sock[s].read + n <= sock[s].wrote
               /\ pipe' = [pipe EXCEPT ![w] =
                      Filled(p, [i \in 1 .. n |-> sock[s].read + i])]
               /\ sock' = [sock EXCEPT ![s].read = @ + n]
      BY <2>3
    <3> DEFINE g == [p EXCEPT !.chain = Grown(p), !.receiving = TRUE,
                              !.recv_error = p.recv_error]
               new == [bytes |-> Last(g.chain).bytes
                                   \o Stream(sock[s].read, sock[s].read + n),
                       filled |-> Last(g.chain).filled + n]
    <3>2. /\ g.chain = Grown(p) /\ g.receiving /\ g.sent = p.sent
          /\ g.recv_error = p.recv_error
          /\ Grown(p) \in Seq(Meta) => g \in Pipes
      BY <1>2 DEF Pipes
    <3>1. /\ g \in Pipes /\ Chained(g) /\ Ordered(g, sock[s].read)
          /\ g.chain # <<>>
      <4> HIDE DEF g, p
      <4> QED BY <1>2, <3>2, GrownKeeps
    <3>3. /\ Last(g.chain).filled \in 0 .. Buffer
          /\ Last(g.chain).bytes \in Seq(Byte)
      <4> HIDE DEF g
      <4>1. g.chain \in Seq(Meta) /\ g.chain # <<>>
        BY <3>1 DEF Pipes
      <4>2. Last(g.chain) \in Meta
        BY <4>1, EmptySeq DEF Last
      <4> QED BY <4>2 DEF Meta
    <3>4. n \in Nat \ {0} /\ Last(g.chain).filled + n <= Buffer
      <4> HIDE DEF g
      <4> QED BY <3>2, <3>3, SizeAssumption DEF Free
    <3>5. sock[s].read + n \in Byte
      BY <1>2, <3>4, SizeAssumption, SMTT(60) DEF Flow, MaxSent, Byte
    <3>6. /\ Stream(sock[s].read, sock[s].read + n) \in Seq(Byte)
          /\ Len(Stream(sock[s].read, sock[s].read + n)) = n
          /\ [i \in 1 .. n |-> sock[s].read + i]
               = Stream(sock[s].read, sock[s].read + n)
      BY <1>2, <3>4, <3>5, StreamBytes
    <3>7. /\ new \in Meta
          /\ new.bytes = Last(g.chain).bytes
                           \o Stream(sock[s].read, sock[s].read + n)
          /\ new.filled = Last(g.chain).filled + n
      <4> DEFINE all == Last(g.chain).bytes
                          \o Stream(sock[s].read, sock[s].read + n)
                 sum == Last(g.chain).filled + n
      <4>1. all \in Seq(Byte)
        BY <3>3, <3>6
      <4>2. sum \in 0 .. Buffer
        BY <3>3, <3>4, SizeAssumption
      <4> HIDE DEF all, sum
      <4>3. [bytes |-> all, filled |-> sum] \in Meta
        BY <4>1, <4>2 DEF Meta
      <4> QED BY <4>3 DEF all, sum
    <3>8. q = [g EXCEPT !.chain = [g.chain EXCEPT ![Len(g.chain)] = new]]
      <4>1. q = Filled(p, Stream(sock[s].read, sock[s].read + n))
        BY <3>6 DEF IInv, Types
      <4>2. [Grown(p) EXCEPT ![Len(Grown(p))] = new]
              = [g.chain EXCEPT ![Len(g.chain)] = new]
        BY <3>2
      <4>3. Filled(p, Stream(sock[s].read, sock[s].read + n))
              = [p EXCEPT !.chain = [Grown(p) EXCEPT ![Len(Grown(p))] = new],
                          !.receiving = TRUE]
        BY <3>2, <3>6 DEF Filled
      <4> DEFINE c == [Grown(p) EXCEPT ![Len(Grown(p))] = new]
      <4>4. c = [g.chain EXCEPT ![Len(g.chain)] = new]
        BY <4>2
      <4> HIDE DEF c, new
      <4>5. [p EXCEPT !.chain = c, !.receiving = TRUE] = [g EXCEPT !.chain = c]
        BY <1>2 DEF Pipes
      <4> QED BY <4>1, <4>3, <4>4, <4>5 DEF c
    <3> DEFINE c == [g.chain EXCEPT ![Len(g.chain)] = new]
    <3>9. /\ q.chain = c /\ q.sent = p.sent /\ q.receiving
          /\ (c \in Seq(Meta) => q \in Pipes)
      <4>1. q = [g EXCEPT !.chain = c]
        BY <3>8
      <4>2. g.receiving /\ g \in Pipes /\ g.sent = p.sent
        BY <3>1, <3>2
      <4> HIDE DEF c, g
      <4> QED BY <4>1, <4>2 DEF Pipes
    <3>10. /\ q.chain \in Seq(Meta) /\ q.chain # <<>> /\ Chained(q)
           /\ Ordered(q, sock[s].read + n)
      <4>1. g.chain \in Seq(Meta) /\ g.chain # <<>>
        BY <3>1 DEF Pipes
      <4>2. /\ c \in Seq(Meta) /\ Len(c) = Len(g.chain) /\ c # <<>>
            /\ \A i \in 1 .. Len(g.chain) - 1 : c[i] = g.chain[i]
            /\ Last(c) = new
        <5> DEFINE d == g.chain
        <5>1. Len(d) \in Nat \ {0} /\ d \in Seq(Meta) /\ new \in Meta
          BY <3>7, <4>1, EmptySeq
        <5> HIDE DEF d, new
        <5>2. /\ [d EXCEPT ![Len(d)] = new] \in Seq(Meta)
              /\ Len([d EXCEPT ![Len(d)] = new]) = Len(d)
              /\ \A i \in 1 .. Len(d) - 1 :
                   [d EXCEPT ![Len(d)] = new][i] = d[i]
              /\ [d EXCEPT ![Len(d)] = new][Len(d)] = new
          BY <5>1
        <5> QED BY <5>1, <5>2 DEF d, Last
      <4> HIDE DEF g, new, q, c
      <4> DEFINE r == sock[s].read
      <4>3. /\ r \in Nat /\ n \in Nat \ {0} /\ g \in Pipes /\ Chained(g)
            /\ Ordered(g, r) /\ g.chain # <<>> /\ r + n \in Byte
            /\ q.chain = c /\ q.sent = g.sent
            /\ Last(c).bytes = Last(g.chain).bytes \o Stream(r, r + n)
        BY <1>2, <3>1, <3>2, <3>4, <3>5, <3>7, <3>9, <4>2
      <4> HIDE DEF r, s
      <4>4. Chained(q) /\ Ordered(q, r + n)
        BY <4>2, <4>3, LastFilled
      <4> QED BY <4>2, <4>3, <4>4 DEF r
    <3>11. sock'[s].read = sock[s].read + n
      <4>1. s \in Side /\ sock[s].read \in Nat
        BY <1>2, Apart
      <4>2. sock'[s] = [sock[s] EXCEPT !.read = @ + n]
        BY <4>1 DEF IInv, Types
      <4>3. sock[s] \in [wrote : Nat, fin : BOOLEAN, read : Nat, taken : Nat,
                         broken : BOOLEAN, nospace : BOOLEAN,
                         ready : BOOLEAN]
        BY <4>1 DEF IInv, Types
      <4> HIDE DEF s
      <4> QED BY <4>2, <4>3
    <3>12. run' = [way |-> w, at |-> "recv"]
      BY <1>1, <2>3 DEF Again
    <3>13. pipe' = [pipe EXCEPT ![w] = q]
      BY DEF IInv, Types
    <3> HIDE DEF g, new, c, q
    <3> QED BY <3>4, <3>9, <3>10, <3>11, <3>12, <3>13 DEF Named
  <2>4. CASE /\ ~p.recv_error /\ sock[s].read = sock[s].wrote
             /\ pipe' = [pipe EXCEPT ![w].chain = Grown(p),
                                     ![w].receiving = TRUE,
                                     ![w].recv_error = sock[s].fin]
             /\ Sends(w) /\ UNCHANGED sock
    <3>1. q = [p EXCEPT !.chain = Grown(p), !.receiving = TRUE,
                        !.recv_error = sock[s].fin]
      BY <2>4 DEF IInv, Types
    <3>2. pipe' = [pipe EXCEPT ![w] = q]
      BY <2>4 DEF IInv, Types
    <3>3. /\ q.chain = Grown(p) /\ q.receiving /\ q.sent = p.sent
          /\ q.recv_error = sock[s].fin
          /\ Grown(p) \in Seq(Meta) => q \in Pipes
      BY <1>2, <3>1 DEF Pipes
    <3> HIDE DEF p, q
    <3>4. /\ q \in Pipes /\ Chained(q) /\ Ordered(q, sock[s].read)
          /\ q.chain # <<>>
      BY <1>2, <3>3, GrownKeeps
    <3> QED BY <2>4, <3>2, <3>3, <3>4 DEF Sends, Named
  <2> QED BY <2>1, <2>2, <2>3, <2>4 DEF net_transport_recv
<1> HIDE DEF q
<1>5. /\ sock'[s].wrote = sock[s].wrote /\ sock'[s].fin = sock[s].fin
      /\ sock'[s].read \in Nat /\ sock'[s].read <= sock'[s].wrote
      /\ \A x \in Side : /\ sock'[x].taken = sock[x].taken
                         /\ sock'[x].nospace = sock[x].nospace
                         /\ sock'[x].ready = sock[x].ready
                         /\ sock'[x].broken = sock[x].broken
      /\ sock'[To(w)] = sock[To(w)]
  <2>1. CASE sock' = sock
    BY <1>2, <2>1 DEF Flow
  <2>2. ASSUME NEW n \in Nat, sock' = [sock EXCEPT ![s].read = @ + n],
               sock[s].read + n <= sock[s].wrote
        PROVE  <1>5
    <3>1. s \in Side /\ To(w) \in Side /\ s # To(w)
      BY Apart
    <3>2. sock'[s] = [sock[s] EXCEPT !.read = @ + n]
      BY <2>2, <3>1 DEF IInv, Types
    <3>3. \A x \in Side : sock[x] \in [wrote : Nat, fin : BOOLEAN,
                                      read : Nat, taken : Nat,
                                      broken : BOOLEAN, nospace : BOOLEAN,
                                      ready : BOOLEAN]
      BY DEF IInv, Types
    <3>4. \A x \in Side : x # s => sock'[x] = sock[x]
      BY <2>2, <3>1 DEF IInv, Types
    <3> HIDE DEF s
    <3>5. /\ sock'[s].read = sock[s].read + n
          /\ sock'[s].wrote = sock[s].wrote /\ sock'[s].fin = sock[s].fin
          /\ sock'[s].taken = sock[s].taken
          /\ sock'[s].nospace = sock[s].nospace
          /\ sock'[s].ready = sock[s].ready
          /\ sock'[s].broken = sock[s].broken
      BY <3>1, <3>2, <3>3
    <3> QED BY <1>2, <2>2, <3>1, <3>4, <3>5
  <2> QED BY <1>4, <2>1, <2>2
<1>6. Types'
  <2>1. sock' \in [Side -> [wrote : Nat, fin : BOOLEAN, read : Nat,
                            taken : Nat, broken : BOOLEAN,
                            nospace : BOOLEAN, ready : BOOLEAN]]
    <3> DEFINE T == [wrote : Nat, fin : BOOLEAN, read : Nat, taken : Nat,
                     broken : BOOLEAN, nospace : BOOLEAN, ready : BOOLEAN]
    <3>1. sock \in [Side -> T] /\ s \in Side
      BY Apart DEF IInv, Types
    <3>2. ASSUME NEW n \in Nat, sock' = [sock EXCEPT ![s].read = @ + n]
          PROVE  sock' \in [Side -> T]
      <4>1. [sock[s] EXCEPT !.read = @ + n] \in T
        BY <1>2, <3>1
      <4> HIDE DEF T, s
      <4>2. [sock EXCEPT ![s] = [sock[s] EXCEPT !.read = @ + n]]
              \in [Side -> T]
        BY <3>1, <4>1
      <4> QED BY <3>2, <4>2
    <3> QED BY <1>4, <3>1, <3>2
  <2>2. pipe' \in [Way -> Pipes]
    BY <1>4 DEF IInv, Types
  <2>3. run' \in [way : Way, at : {"recv", "send"}]
    BY <1>4
  <2> QED BY <1>1, <2>1, <2>2, <2>3 DEF IInv, Types
<1>7. pipe'[w] = q /\ run'.way = w /\ run.way = w
  BY <1>1, <1>4 DEF q
<1>8. Flow(w)'
  BY <1>1, <1>2, <1>4, <1>5, <1>7, Apart DEF Flow, Named, Open
<1>9. Edges(w)'
  <2>1. Room(w)' = Room(w) /\ (sock'[To(w)].nospace = sock[To(w)].nospace)
    BY <1>4, <1>5, <1>7 DEF Room
  <2>2. \/ ~Readable(s)' \/ q.recv_error
        \/ run' = [way |-> w, at |-> "recv"]
    BY <1>4, <1>5 DEF Readable
  <2> QED BY <1>2, <1>7, <2>1, <2>2 DEF Edges
<1>10. ASSUME NEW v \in Way, v # w PROVE Flow(v)' /\ Edges(v)'
  <2>1. /\ From(v) = To(w) /\ To(v) = s /\ s \in Side /\ To(w) \in Side
    BY <1>10, Apart
  <2>2. pipe'[v] = pipe[v]
    BY <1>4, <1>10 DEF IInv, Types
  <2>3. /\ over' # <<"recv", v>> /\ over' # <<"send", v>>
        /\ run.way # v /\ run'.way # v
    BY <1>1, <1>7, <1>10 DEF Open
  <2>4. Flow(v) /\ Edges(v)
    BY DEF IInv
  <2> HIDE DEF s
  <2> QED BY <1>1, <1>5, <2>1, <2>2, <2>3, <2>4, OtherKeeps
<1> QED BY <1>6, <1>8, <1>9, <1>10 DEF IInv

(* The tunnel is over: nothing else changes.                               *)
LEMMA OverKeeps ==
  ASSUME IInv, NEW k \in {"time out", "recv", "send"}, NEW u,
         tunnel_over(<<k, u>>),
         IF k = "time out" THEN u = "none" ELSE u \in Way,
         k = "recv" => Len(pipe[u].sent) = sock[From(u)].read,
         k = "send" => sock[To(u)].broken
  PROVE  IInv'
<1>1. /\ over' = <<k, u>> /\ sock' = sock /\ pipe' = pipe /\ run' = run
      /\ batch' = batch
  BY DEF tunnel_over
<1>2. over' # Open
  BY <1>1 DEF Open
<1>3. Types'
  <2>1. <<k, u>> \in {Open, <<"time out", "none">>}
                        \cup ({"recv", "send"} \X Way)
    OBVIOUS
  <2> QED BY <1>1, <2>1 DEF IInv, Types
<1>4. ASSUME NEW v \in Way PROVE Flow(v)' /\ Edges(v)'
  <2>1. Flow(v) /\ Edges(v) /\ Room(v)' = Room(v)
    BY <1>1 DEF IInv, Room
  <2>2. /\ over' = <<"recv", v>> => Len(pipe[v].sent) = sock[From(v)].read
        /\ over' = <<"send", v>> => sock[To(v)].broken
    BY <1>1
  <2>3. Flow(v)'
    BY <1>1, <1>2, <2>1, <2>2 DEF Flow
  <2>4. Edges(v)'
    BY <1>1, <1>2, <2>1 DEF Edges
  <2> QED BY <2>3, <2>4
<1> QED BY <1>3, <1>4 DEF IInv

(* One turn of net_transport_send's loop keeps the invariant.              *)
LEMMA SendKeeps ==
  ASSUME NEW w \in Way, IInv, net_transport_send(w)
  PROVE  IInv'
<1> DEFINE p == pipe[w]
           s == To(w)
           T == [wrote : Nat, fin : BOOLEAN, read : Nat, taken : Nat,
                 broken : BOOLEAN, nospace : BOOLEAN, ready : BOOLEAN]
<1>1. /\ run = [way |-> w, at |-> "send"] /\ over = Open
      /\ run.way = w /\ run.way # "none"
  BY DEF net_transport_send, Way
<1>2. /\ p \in Pipes /\ Chained(p) /\ Ordered(p, sock[From(w)].read)
      /\ sock[From(w)].read \in Nat /\ Flow(w) /\ Edges(w)
      /\ sock \in [Side -> T] /\ s \in Side /\ From(w) \in Side
      /\ From(w) # s /\ pipe \in [Way -> Pipes]
  BY Apart DEF IInv, Types, Flow
<1>3. CASE Ended(p) /\ tunnel_over(<<"recv", w>>)
  <2>1. Len(p.sent) = sock[From(w)].read
    BY <1>2, <1>3, Drained DEF Ended
  <2> HIDE DEF p
  <2> QED BY <1>3, <2>1, OverKeeps DEF p
<1>4. Necessary(p) => p.chain # <<>> /\ p.chain[1].bytes # <<>>
  <2> SUFFICES ASSUME Necessary(p)
               PROVE  p.chain # <<>> /\ p.chain[1].bytes # <<>>
    OBVIOUS
  <2>1. p.chain \in Seq(Meta) /\ p.chain # <<>> /\ p.receiving
    BY <1>2 DEF Necessary, Pipes, Flow
  <2>2. CASE Len(p.chain) = 1
    BY <2>1, <2>2 DEF Necessary
  <2>3. CASE Len(p.chain) # 1
    <3>0. Len(p.chain) \in Nat /\ Len(p.chain) # 0
      BY <2>1, EmptySeq
    <3>1. 1 \in 1 .. Len(p.chain) - 1 /\ 1 \in 1 .. Len(p.chain)
      <4> DEFINE m == Len(p.chain)
      <4>1. m \in Nat /\ m # 0 /\ m # 1
        BY <2>3, <3>0
      <4> HIDE DEF m
      <4>2. 1 \in 1 .. m - 1 /\ 1 \in 1 .. m
        BY <4>1
      <4> QED BY <4>2 DEF m
    <3>2. p.chain[1].filled = Buffer /\ Buffer # 0
      BY <1>2, <3>1, SizeAssumption DEF Chained
    <3> QED BY <1>2, <2>1, <3>1, <3>2 DEF Chained
  <2> QED BY <2>2, <2>3
<1>5. CASE /\ Necessary(p)
           /\ sock[s].broken \/ p.chain[1].bytes = <<>>
           /\ tunnel_over(<<"send", w>>)
  <2>1. sock[s].broken /\ tunnel_over(<<"send", w>>)
    BY <1>4, <1>5
  <2> QED BY <2>1, OverKeeps
<1>6. CASE /\ ~Necessary(p) /\ ~p.recv_error
           /\ pipe' = [pipe EXCEPT ![w].receiving = Receiving(p)]
           /\ Returns
           /\ UNCHANGED <<sock, batch, over>>
  <2> DEFINE q == pipe'[w]
  <2>1. q = [p EXCEPT !.receiving = Receiving(p)]
    BY <1>2, <1>6
  <2>2. /\ q.chain = p.chain /\ q.sent = p.sent /\ q.receiving = Receiving(p)
        /\ q.recv_error = p.recv_error /\ q \in Pipes
    BY <1>2, <2>1 DEF Pipes, Receiving
  <2>3. \A v \in Way : v # w => pipe'[v] = pipe[v]
    BY <1>2, <1>6
  <2>4. pipe' \in [Way -> Pipes]
    BY <1>2, <1>6, <2>2
  <2> HIDE DEF q
  <2>5. Chained(q) /\ Ordered(q, sock[From(w)].read) /\ Named(q)
    <3>1. Ordered(q, sock[From(w)].read)
      BY <1>2, <2>2, SameOrder
    <3>2. Chained(q)
      BY <1>2, <2>2 DEF Chained
    <3>3. Named(q)
      BY <1>2, <2>2 DEF Named, Receiving, Flow
    <3> QED BY <3>1, <3>2, <3>3
  <2>6. ~Necessary(q)
    BY <1>6, <2>2 DEF Necessary, Receiving
  <2>7. Types'
    BY <1>6, <2>4 DEF IInv, Types, Returns
  <2>8. Flow(w)'
    BY <1>2, <1>6, <2>2, <2>5 DEF Flow, Named, q
  <2>9. Edges(w)'
    <3>1. Room(w)' = Room(w) /\ Readable(From(w))' = Readable(From(w))
      BY <1>6, <2>2 DEF Room, Readable, q
    <3>2. run # [way |-> w, at |-> "recv"]
      BY <1>1
    <3> QED BY <1>2, <1>6, <2>2, <2>6, <3>1, <3>2 DEF Edges, q
  <2>10. ASSUME NEW v \in Way, v # w PROVE Flow(v)' /\ Edges(v)'
    <3>1. /\ over' # <<"recv", v>> /\ over' # <<"send", v>>
          /\ run.way # v /\ run'.way # v
      BY <1>1, <1>6, <2>10 DEF Open, Returns, Nobody, Way
    <3>2. Flow(v) /\ Edges(v)
      BY DEF IInv
    <3> QED BY <1>1, <1>6, <2>3, <2>10, <3>1, <3>2, OtherKeeps
  <2> QED BY <2>7, <2>8, <2>9, <2>10 DEF IInv
<1>7. ASSUME Necessary(p), ~sock[s].broken,
             NEW n \in 1 .. Len(p.chain[1].bytes), n <= Room(w),
             pipe' = [pipe EXCEPT ![w] = Sent(p, n)],
             UNCHANGED <<sock, run, batch, over>>
      PROVE  IInv'
  <2> DEFINE q == Sent(p, n)
  <2>1. /\ q \in Pipes /\ Chained(q) /\ Ordered(q, sock[From(w)].read)
        /\ Len(q.sent) = Len(p.sent) + n
        /\ q.receiving = p.receiving /\ q.recv_error = p.recv_error
    BY <1>2, <1>4, <1>7, SentKeeps
  <2> HIDE DEF q
  <2>2. pipe'[w] = q /\ \A v \in Way : v # w => pipe'[v] = pipe[v]
    BY <1>2, <1>7 DEF q
  <2>3. pipe' \in [Way -> Pipes]
    BY <1>2, <1>7, <2>1 DEF q
  <2>4. n \in Nat \ {0} /\ Len(p.sent) \in Nat /\ sock[s].taken \in Nat
    BY <1>2 DEF Pipes
  <2>5. Types'
    BY <1>7, <2>3 DEF IInv, Types
  <2>6. p.receiving
    BY <1>2, <1>4, <1>7 DEF Flow
  <2>7. Flow(w)'
    <3>1. sock[s].taken <= Len(q.sent)
      BY <1>2, <2>1, <2>4 DEF Flow
    <3>2. sock' = sock /\ over' = Open /\ run' = [way |-> w, at |-> "send"]
      BY <1>1, <1>7
    <3> QED BY <1>2, <2>1, <2>2, <2>6, <3>1, <3>2 DEF Flow, Open
  <2>8. Edges(w)'
    <3>1. Readable(From(w))' = Readable(From(w))
      BY <1>7 DEF Readable
    <3>2. ~sock[s].nospace
      BY <1>2, <1>7, <2>4 DEF Edges
    <3> QED BY <1>1, <1>2, <1>7, <2>1, <2>2, <3>1, <3>2 DEF Edges
  <2>9. ASSUME NEW v \in Way, v # w PROVE Flow(v)' /\ Edges(v)'
    <3>1. /\ over' # <<"recv", v>> /\ over' # <<"send", v>>
          /\ run.way # v /\ run'.way # v
      BY <1>1, <1>7, <2>9 DEF Open
    <3>2. Flow(v) /\ Edges(v)
      BY DEF IInv
    <3> QED BY <1>1, <1>7, <2>2, <2>9, <3>1, <3>2, OtherKeeps
  <2> QED BY <2>5, <2>7, <2>8, <2>9 DEF IInv
<1>8. CASE /\ Necessary(p) /\ ~sock[s].broken /\ Room(w) = 0
           /\ sock' = [sock EXCEPT ![s].nospace = TRUE]
           /\ Returns
           /\ UNCHANGED <<pipe, batch, over>>
  <2>1. sock'[s] = [sock[s] EXCEPT !.nospace = TRUE]
    BY <1>2, <1>8
  <2>2. sock'[From(w)] = sock[From(w)]
    BY <1>2, <1>8
  <2>3. sock' \in [Side -> T] /\ sock[s] \in T
    BY <1>2, <1>8
  <2> HIDE DEF s
  <2>4. /\ sock'[s].wrote = sock[s].wrote /\ sock'[s].fin = sock[s].fin
        /\ sock'[s].read = sock[s].read /\ sock'[s].taken = sock[s].taken
        /\ sock'[s].ready = sock[s].ready
        /\ sock'[s].broken = sock[s].broken /\ sock'[s].nospace
    BY <2>1, <2>3
  <2>5. Types'
    BY <1>8, <2>3 DEF IInv, Types, Returns
  <2>6. p.chain # <<>> /\ p.receiving
    BY <1>2, <1>4, <1>8 DEF Flow
  <2>7. Flow(w)'
    BY <1>1, <1>2, <1>8, <2>2, <2>4, <2>6 DEF Flow, Named, Open, s
  <2>8. Edges(w)'
    <3>1. Readable(From(w))' = Readable(From(w)) /\ Room(w)' = Room(w)
      BY <1>8, <2>2, <2>4 DEF Readable, Room, s
    <3>2. run # [way |-> w, at |-> "recv"]
      BY <1>1
    <3> QED BY <1>2, <1>8, <2>2, <2>4, <3>1, <3>2 DEF Edges, s
  <2>9. ASSUME NEW v \in Way, v # w PROVE Flow(v)' /\ Edges(v)'
    <3>1. /\ over' # <<"recv", v>> /\ over' # <<"send", v>>
          /\ run.way # v /\ run'.way # v
      BY <1>1, <1>8, <2>9 DEF Open, Returns, Nobody, Way
    <3>2. Flow(v) /\ Edges(v)
      BY DEF IInv
    <3>3. From(v) = s /\ To(v) = From(w)
      BY <2>9, Apart DEF s
    <3> QED BY <1>1, <1>8, <2>2, <2>4, <2>9, <3>1, <3>2, <3>3, OtherKeeps
  <2> QED BY <2>5, <2>7, <2>8, <2>9 DEF IInv
<1> QED BY <1>3, <1>5, <1>6, <1>7, <1>8 DEF net_transport_send

(* epoll_wait reports every socket that is taken off the ready list.       *)
LEMMA EpollKeeps ==
  ASSUME IInv, epoll_wait
  PROVE  IInv'
<1> DEFINE T == [wrote : Nat, fin : BOOLEAN, read : Nat, taken : Nat,
                 broken : BOOLEAN, nospace : BOOLEAN, ready : BOOLEAN]
<1>1. PICK S \in SUBSET {s \in Side : sock[s].ready} :
        /\ batch' = UNION {ReadyFor(s) : s \in S}
        /\ sock' = [s \in Side |-> IF s \in S
                                   THEN [sock[s] EXCEPT !.ready = FALSE]
                                   ELSE sock[s]]
  BY DEF epoll_wait
<1>2. /\ run = Nobody /\ batch = {} /\ over = Open
      /\ pipe' = pipe /\ run' = run /\ over' = over
      /\ sock \in [Side -> T]
  BY DEF epoll_wait, Sleeping, IInv, Types
<1>3. ASSUME NEW s \in Side
      PROVE  /\ sock'[s] \in T
             /\ sock'[s].wrote = sock[s].wrote /\ sock'[s].fin = sock[s].fin
             /\ sock'[s].read = sock[s].read /\ sock'[s].taken = sock[s].taken
             /\ sock'[s].broken = sock[s].broken
             /\ sock'[s].nospace = sock[s].nospace
             /\ s \notin S => sock'[s].ready = sock[s].ready
  BY <1>1, <1>2
<1>4. ASSUME NEW s \in Side
      PROVE  ReadyFor(s) \subseteq Side \X {"r", "w"}
  BY DEF ReadyFor
<1>5. Types'
  <2>1. sock' \in [Side -> T]
    BY <1>1, <1>3
  <2>2. batch' \subseteq Side \X {"r", "w"}
    BY <1>1, <1>4
  <2> QED BY <1>2, <2>1, <2>2 DEF IInv, Types
<1>6. ASSUME NEW v \in Way PROVE Flow(v)' /\ Edges(v)'
  <2>1. /\ Flow(v) /\ Edges(v) /\ From(v) \in Side /\ To(v) \in Side
        /\ (CHOOSE u \in Way : To(u) = To(v)) = v
    BY Apart DEF IInv
  <2>2. Room(v)' = Room(v) /\ Readable(From(v))' = Readable(From(v))
    BY <1>2, <1>3, <2>1 DEF Room, Readable
  <2>3. Flow(v)'
    BY <1>2, <1>3, <2>1 DEF Flow
  <2>4. From(v) \in S /\ Readable(From(v)) => <<From(v), "r">> \in batch'
    BY <1>1 DEF ReadyFor
  <2>5. To(v) \in S /\ Room(v) > 0 => <<To(v), "w">> \in batch'
    <3>1. Room(v) > 0 => <<To(v), "w">> \in ReadyFor(To(v))
      BY <2>1 DEF ReadyFor
    <3> QED BY <1>1, <3>1
  <2>6. Edges(v)'
    BY <1>2, <1>3, <2>1, <2>2, <2>4, <2>5 DEF Edges
  <2> QED BY <2>3, <2>6
<1> QED BY <1>5, <1>6 DEF IInv

(* The event that is taken from the batch starts the way it is for.        *)
LEMMA HandleKeeps ==
  ASSUME IInv, NEW w \in Way,
         \/ Handle(<<From(w), "r">>, w, "recv")
         \/ Handle(<<To(w), "w">>, w, "send")
  PROVE  IInv'
<1>1. PICK e \in batch, at \in {"recv", "send"} :
        /\ run = Nobody /\ over = Open /\ batch' = batch \ {e}
        /\ run' = [way |-> w, at |-> at]
        /\ sock' = sock /\ pipe' = pipe /\ over' = over
        /\ \/ e = <<From(w), "r">> /\ at = "recv"
           \/ e = <<To(w), "w">> /\ at = "send"
  BY DEF Handle
<1>2. Types'
  <2>1. batch' \subseteq Side \X {"r", "w"}
    BY <1>1 DEF IInv, Types
  <2> QED BY <1>1, <2>1 DEF IInv, Types
<1>3. ASSUME NEW v \in Way PROVE Flow(v)' /\ Edges(v)'
  <2>1. Flow(v) /\ Edges(v) /\ Room(v)' = Room(v)
        /\ Readable(From(v))' = Readable(From(v))
    BY <1>1 DEF IInv, Room, Readable
  <2>2. run # [way |-> v, at |-> "send"] /\ run.way # v
    BY <1>1 DEF Nobody, Way
  <2>3. Flow(v)'
    BY <1>1, <2>1, <2>2 DEF Flow
  <2>4. /\ e # <<From(v), "r">> => (<<From(v), "r">> \in batch' <=>
                                     <<From(v), "r">> \in batch)
        /\ e # <<To(v), "w">> => (<<To(v), "w">> \in batch' <=>
                                   <<To(v), "w">> \in batch)
    BY <1>1
  <2>5. /\ e = <<From(v), "r">> => v = w /\ at = "recv"
        /\ e = <<To(v), "w">> => v = w
    BY <1>1, Apart
  <2>6. Edges(v)'
    <3>1. e = <<From(v), "r">> => run' = [way |-> v, at |-> "recv"]
      BY <1>1, <2>5
    <3>2. e = <<To(v), "w">> => run'.way = v
      BY <1>1, <2>5
    <3>3. run # [way |-> v, at |-> "recv"]
      BY <2>2
    <3> QED BY <1>1, <2>1, <2>2, <2>4, <3>1, <3>2, <3>3 DEF Edges
  <2> QED BY <2>3, <2>6
<1> QED BY <1>2, <1>3 DEF IInv

(* What a peer or the kernel does to a socket.                             *)
LEMMA KernelKeeps ==
  ASSUME IInv, NEW s \in Side, PeerSends(s) \/ PeerEnds(s) \/ PeerTakes(s)
  PROVE  IInv'
<1> DEFINE T == [wrote : Nat, fin : BOOLEAN, read : Nat, taken : Nat,
                 broken : BOOLEAN, nospace : BOOLEAN, ready : BOOLEAN]
           k == sock[s]
<1>1. /\ over = Open /\ over' = over /\ pipe' = pipe /\ run' = run
      /\ batch' = batch /\ sock \in [Side -> T] /\ k \in T
  BY DEF PeerSends, PeerEnds, PeerTakes, Kernel, IInv, Types
<1>2. PICK new \in T :
        /\ sock' = [sock EXCEPT ![s] = new]
        /\ new.read = k.read /\ (k.ready => new.ready)
        /\ \/ /\ new.wrote = k.wrote + 1 /\ k.wrote < MaxSent(s)
              /\ new.taken = k.taken /\ new.nospace = k.nospace
              /\ new.fin = k.fin /\ new.broken = k.broken /\ new.ready
           \/ /\ new.wrote = k.wrote /\ new.taken = k.taken
              /\ new.nospace = k.nospace /\ (k.broken => new.broken)
              /\ new.ready
           \/ /\ new.wrote = k.wrote /\ new.fin = k.fin
              /\ new.broken = k.broken /\ new.taken = k.taken + 1
              /\ ~new.nospace /\ (k.nospace => new.ready)
              /\ \E w \in Way : To(w) = s /\ k.taken < Len(pipe[w].sent)
  <2>1. CASE PeerSends(s)
    <3> DEFINE new == [k EXCEPT !.wrote = @ + 1, !.ready = TRUE]
    <3>1. /\ new \in T /\ new.read = k.read /\ new.wrote = k.wrote + 1
          /\ new.taken = k.taken /\ new.nospace = k.nospace
          /\ new.fin = k.fin /\ new.broken = k.broken /\ new.ready
      <4> DEFINE a == k.wrote + 1
      <4>1. a \in Nat /\ k \in T
        BY <1>1
      <4>2. new = [k EXCEPT !.wrote = a, !.ready = TRUE]
        OBVIOUS
      <4> HIDE DEF k, a, new
      <4>3. new \in T /\ new.wrote = a /\ new.ready
        BY <4>1, <4>2
      <4>4. /\ new.read = k.read /\ new.taken = k.taken
            /\ new.nospace = k.nospace /\ new.fin = k.fin
            /\ new.broken = k.broken
        BY <4>1, <4>2
      <4> QED BY <4>3, <4>4 DEF a
    <3> HIDE DEF T
    <3> QED BY <2>1, <3>1 DEF PeerSends, Kernel
  <2>2. CASE PeerEnds(s)
    <3>1. ASSUME NEW new \in {[k EXCEPT !.fin = TRUE, !.ready = TRUE],
                              [k EXCEPT !.fin = TRUE, !.broken = TRUE,
                                        !.ready = TRUE]}
          PROVE  /\ new \in T /\ new.read = k.read /\ new.ready
                 /\ new.wrote = k.wrote /\ new.taken = k.taken
                 /\ new.nospace = k.nospace /\ (k.broken => new.broken)
      BY <1>1, <3>1
    <3>2. PICK new \in {[k EXCEPT !.fin = TRUE, !.ready = TRUE],
                        [k EXCEPT !.fin = TRUE, !.broken = TRUE,
                                  !.ready = TRUE]} :
            sock' = [sock EXCEPT ![s] = new]
      BY <2>2 DEF PeerEnds, Kernel
    <3> QED BY <3>1, <3>2
  <2>3. CASE PeerTakes(s)
    <3> DEFINE new == [k EXCEPT !.taken = @ + 1, !.nospace = FALSE,
                                !.ready = @ \/ k.nospace]
    <3>1. /\ new \in T /\ new.read = k.read /\ (k.ready => new.ready)
          /\ new.wrote = k.wrote /\ new.fin = k.fin
          /\ new.broken = k.broken /\ new.taken = k.taken + 1
          /\ ~new.nospace /\ (k.nospace => new.ready)
      <4> DEFINE b == k.ready \/ k.nospace
      <4>1. b \in BOOLEAN /\ (k.ready => b) /\ (k.nospace => b)
        BY <1>1
      <4> DEFINE a == k.taken + 1
      <4>2. new = [k EXCEPT !.taken = a, !.nospace = FALSE, !.ready = b]
        OBVIOUS
      <4>3. a \in Nat /\ k \in T
        BY <1>1
      <4> HIDE DEF k, a, b, new
      <4>4. new \in T /\ new.taken = a /\ new.ready = b /\ ~new.nospace
        BY <4>1, <4>2, <4>3
      <4>5. /\ new.read = k.read /\ new.wrote = k.wrote
            /\ new.fin = k.fin /\ new.broken = k.broken
        BY <4>2, <4>3
      <4> QED BY <4>1, <4>4, <4>5 DEF a
    <3> HIDE DEF T
    <3> QED BY <2>3, <3>1 DEF PeerTakes, Kernel
  <2> QED BY <2>1, <2>2, <2>3
<1>3. sock'[s] = new /\ \A x \in Side : x # s => sock'[x] = sock[x]
  BY <1>1, <1>2
<1>4. Types'
  <2>1. sock' \in [Side -> T]
    BY <1>1, <1>2
  <2> QED BY <1>1, <2>1 DEF IInv, Types
<1>5. ASSUME NEW v \in Way PROVE Flow(v)' /\ Edges(v)'
  <2> DEFINE f == From(v)
             t == To(v)
  <2>1. /\ f \in Side /\ t \in Side /\ f # t /\ Flow(v) /\ Edges(v)
        /\ \A u \in Way : To(u) = t => u = v
        /\ sock[f] \in T /\ sock[t] \in T /\ pipe[v] \in Pipes
    BY <1>1, Apart DEF IInv, Types, Way, To
  <2>2. CASE s = f
    <3>1. /\ sock'[f] = new /\ k = sock[f] /\ sock'[t] = sock[t]
      BY <1>3, <2>1, <2>2
    <3>2. Room(v)' = Room(v)
      BY <1>1, <3>1 DEF Room
    <3>3. /\ sock'[f].read = sock[f].read
          /\ sock[f].wrote <= sock'[f].wrote
          /\ sock'[f].wrote <= MaxSent(f)
          /\ Readable(f)' /\ ~Readable(f) => sock'[f].ready
          /\ sock[f].ready => sock'[f].ready
      <4>1. /\ sock[f].wrote \in Nat /\ sock[f].read \in Nat
            /\ sock[f].wrote <= MaxSent(f) /\ MaxSent(f) \in Nat
        BY <2>1, SizeAssumption DEF Flow, MaxSent
      <4> HIDE DEF f, k, T
      <4> QED BY <1>2, <2>2, <3>1, <4>1 DEF Readable
    <3>4. Flow(v)'
      BY <1>1, <2>1, <3>1, <3>3, SizeAssumption DEF Flow, MaxSent
    <3>5. Edges(v)'
      BY <1>1, <2>1, <3>1, <3>2, <3>3 DEF Edges
    <3> QED BY <3>4, <3>5
  <2>3. CASE s = t
    <3>1. /\ sock'[t] = new /\ k = sock[t] /\ sock'[f] = sock[f]
      BY <1>3, <2>1, <2>3
    <3>2. /\ sock[t].taken \in Nat /\ Len(pipe[v].sent) \in Nat
          /\ sock[t].taken <= Len(pipe[v].sent)
      BY <2>1 DEF Pipes, Flow
    <3>3. /\ sock'[t].taken \in {sock[t].taken, sock[t].taken + 1}
          /\ sock'[t].taken <= Len(pipe[v].sent)
          /\ sock[t].broken => sock'[t].broken
          /\ sock[t].ready => sock'[t].ready
          /\ \/ /\ sock'[t].taken = sock[t].taken
                /\ sock'[t].nospace = sock[t].nospace
             \/ /\ ~sock'[t].nospace /\ (sock[t].nospace => sock'[t].ready)
                /\ sock'[t].taken = sock[t].taken + 1
      <4> HIDE DEF f, t, k, T
      <4> QED BY <1>2, <2>1, <2>3, <3>1, <3>2
    <3>4. Readable(f)' = Readable(f)
      BY <3>1 DEF Readable
    <3>5. /\ sock'[t].taken = sock[t].taken => Room(v)' = Room(v)
          /\ sock'[t].taken = sock[t].taken + 1 => Room(v)' = Room(v) + 1
          /\ Room(v) \in Int
      <4>1. Room(v) = Socket - (Len(pipe[v].sent) - sock[t].taken)
        BY DEF Room
      <4>2. Room(v)' = Socket - (Len(pipe[v].sent) - sock'[t].taken)
        BY <1>1 DEF Room
      <4> DEFINE a == sock[t].taken  b == sock'[t].taken
                 l == Len(pipe[v].sent)  r == Room(v)  z == Room(v)'
      <4>3. /\ a \in Nat /\ l \in Nat /\ r = Socket - (l - a)
            /\ z = Socket - (l - b) /\ Socket \in Nat
        BY <3>2, <4>1, <4>2, SizeAssumption
      <4> HIDE DEF a, b, l, r, z
      <4>4. (b = a => z = r) /\ (b = a + 1 => z = r + 1) /\ r \in Int
        BY <4>3
      <4> QED BY <4>4 DEF a, b, r, z
    <3>6. Flow(v)'
      BY <1>1, <2>1, <3>1, <3>3 DEF Flow, Open
    <3>7. Edges(v)'
      BY <1>1, <2>1, <3>1, <3>3, <3>4, <3>5 DEF Edges
    <3> QED BY <3>6, <3>7
  <2> QED BY <2>1, <2>2, <2>3 DEF Side
<1> QED BY <1>4, <1>5 DEF IInv

-----------------------------------------------------------------------------
(* The invariant starts true and every step keeps it.                      *)

(* A relay starts as https_start leaves it.                                *)
LEMMA InitEstablishes == Init => IInv
<1> SUFFICES ASSUME Init PROVE IInv
  OBVIOUS
<1>1. /\ pipe = [w \in Way |-> Transport] /\ run = Nobody /\ batch = {}
      /\ over = Open
  BY DEF Init
<1>2. Transport \in Pipes /\ Transport.chain = <<>> /\ Transport.sent = <<>>
      /\ ~Transport.receiving /\ ~Transport.recv_error
  BY DEF Transport, Pipes
<1>3. /\ sock \in [Side -> [wrote : Nat, fin : BOOLEAN, read : Nat,
                            taken : Nat, broken : BOOLEAN,
                            nospace : BOOLEAN, ready : BOOLEAN]]
      /\ \A s \in Side : /\ sock[s].read = 0 /\ sock[s].taken = 0
                         /\ ~sock[s].fin /\ ~sock[s].nospace
                         /\ sock[s].wrote <= MaxSent(s)
                         /\ sock[s].wrote > 0 => sock[s].ready
  <2>1. PICK early \in 0 .. 1, ready \in BOOLEAN :
          /\ early > 0 => ready
          /\ sock = [s \in Side |-> IF s = "up" THEN NewSocket
                                    ELSE [NewSocket EXCEPT !.wrote = early,
                                                           !.ready = ready]]
    BY DEF Init
  <2>2. ASSUME NEW s \in Side
        PROVE  /\ sock[s] \in [wrote : Nat, fin : BOOLEAN, read : Nat,
                               taken : Nat, broken : BOOLEAN,
                               nospace : BOOLEAN, ready : BOOLEAN]
               /\ sock[s].read = 0 /\ sock[s].taken = 0
               /\ ~sock[s].fin /\ ~sock[s].nospace
               /\ sock[s].wrote <= MaxSent(s)
               /\ sock[s].wrote > 0 => sock[s].ready
    <3>1. CASE s = "up"
      BY <2>1, <3>1, SizeAssumption DEF NewSocket, MaxSent, Side
    <3>2. CASE s = "down"
      <4>1. sock[s] = [NewSocket EXCEPT !.wrote = early, !.ready = ready]
        BY <2>1, <3>2
      <4>2. MaxSent(s) \in Nat \ {0}
        BY <3>2, SizeAssumption DEF MaxSent
      <4>3. sock[s] = [wrote |-> early, fin |-> FALSE, read |-> 0,
                       taken |-> 0, broken |-> FALSE, nospace |-> FALSE,
                       ready |-> ready]
        BY <4>1 DEF NewSocket
      <4>4. /\ sock[s].wrote = early /\ sock[s].fin = FALSE
            /\ sock[s].read = 0 /\ sock[s].taken = 0
            /\ sock[s].nospace = FALSE /\ sock[s].ready = ready
        BY <4>3
      <4>5. early \in Nat /\ early <= MaxSent(s) /\ (early > 0 => ready)
        BY <2>1, <4>2
      <4>6. sock[s] \in [wrote : Nat, fin : BOOLEAN, read : Nat,
                         taken : Nat, broken : BOOLEAN, nospace : BOOLEAN,
                         ready : BOOLEAN]
        BY <4>3, <4>5
      <4> QED BY <4>4, <4>5, <4>6
    <3> QED BY <3>1, <3>2 DEF Side
  <2>3. sock = [s \in Side |-> sock[s]]
    BY <2>1
  <2> QED BY <2>2, <2>3
<1>4. Types
  BY <1>1, <1>2, <1>3 DEF Types
<1>5. ASSUME NEW w \in Way PROVE Flow(w) /\ Edges(w)
  <2>1. /\ pipe[w] = Transport /\ From(w) \in Side /\ To(w) \in Side
    BY <1>1, Apart
  <2>2. Ordered(pipe[w], sock[From(w)].read)
    <3> DEFINE cut == [i \in 0 .. 0 |-> 0]
    <3>1. Len(pipe[w].chain) = 0 /\ Len(pipe[w].sent) = 0
      BY <1>2, <2>1
    <3>2. cut \in [0 .. Len(pipe[w].chain) -> 0 .. sock[From(w)].read]
      BY <1>3, <2>1, <3>1
    <3>3. Stream(0, 0) = <<>>
      BY StreamLen
    <3>4. /\ cut[0] = Len(pipe[w].sent)
          /\ cut[Len(pipe[w].chain)] = sock[From(w)].read
          /\ pipe[w].sent = Stream(0, cut[0])
      BY <1>2, <1>3, <2>1, <3>1, <3>3
    <3>5. \A i \in 1 .. Len(pipe[w].chain) :
            /\ cut[i - 1] <= cut[i]
            /\ pipe[w].chain[i].bytes = Stream(cut[i - 1], cut[i])
      BY <3>1
    <3> HIDE DEF cut
    <3> QED BY Zenon, <3>2, <3>4, <3>5 DEF Ordered
  <2>3. Chained(pipe[w]) /\ Named(pipe[w])
    BY <1>2, <2>1 DEF Chained, Named
  <2>4. over # <<"recv", w>> /\ over # <<"send", w>>
    BY <1>1 DEF Open
  <2>5. Flow(w)
    BY <1>2, <1>3, <2>1, <2>2, <2>3, <2>4 DEF Flow
  <2>6. Readable(From(w)) => sock[From(w)].ready
    BY <1>3, <2>1 DEF Readable, Types
  <2>7. ~Necessary(pipe[w])
    BY <1>2, <2>1 DEF Necessary
  <2>8. Edges(w)
    BY <1>3, <2>1, <2>6, <2>7 DEF Edges
  <2> QED BY <2>5, <2>8
<1> QED BY <1>4, <1>5 DEF IInv

(* Each step of the worker, of a peer and of the kernel keeps it.          *)
LEMMA NextKeeps == IInv /\ [Next]_vars => IInv'
<1> SUFFICES ASSUME IInv, [Next]_vars PROVE IInv'
  OBVIOUS
<1>1. ASSUME NEW w \in Way, net_transport_recv(w) \/ net_transport_send(w)
      PROVE  IInv'
  BY <1>1, RecvKeeps, SendKeeps
<1>2. CASE epoll_wait
  BY <1>2, EpollKeeps
<1>3. CASE tunnel_transport_in_recv
  <2>1. "in" \in Way /\ From("in") = "down"
    BY DEF Way, From
  <2> QED BY <1>3, <2>1, HandleKeeps DEF tunnel_transport_in_recv
<1>4. CASE tunnel_transport_out_recv
  <2>1. "out" \in Way /\ From("out") = "up"
    BY DEF Way, From
  <2> QED BY <1>4, <2>1, HandleKeeps DEF tunnel_transport_out_recv
<1>5. CASE tunnel_transport_in_send
  <2>1. "in" \in Way /\ To("in") = "up"
    BY DEF Way, To
  <2> QED BY <1>5, <2>1, HandleKeeps DEF tunnel_transport_in_send
<1>6. CASE tunnel_transport_out_send
  <2>1. "out" \in Way /\ To("out") = "down"
    BY DEF Way, To
  <2> QED BY <1>6, <2>1, HandleKeeps DEF tunnel_transport_out_send
<1>7. CASE tunnel_time_out
  <2>1. tunnel_over(<<"time out", "none">>)
    BY <1>7 DEF tunnel_time_out
  <2> QED BY <2>1, OverKeeps
<1>8. ASSUME NEW s \in Side, PeerSends(s) \/ PeerEnds(s) \/ PeerTakes(s)
      PROVE  IInv'
  BY <1>8, KernelKeeps
<1>9. CASE UNCHANGED vars
  <2>1. /\ sock' = sock /\ pipe' = pipe /\ run' = run /\ batch' = batch
        /\ over' = over
    BY <1>9 DEF vars
  <2>2. Types'
    BY <2>1 DEF IInv, Types
  <2>3. ASSUME NEW w \in Way PROVE Flow(w)' /\ Edges(w)'
    <3>1. Room(w)' = Room(w) /\ Readable(From(w))' = Readable(From(w))
      BY <2>1 DEF Room, Readable
    <3> QED BY <2>1, <3>1 DEF IInv, Flow, Edges
  <2> QED BY <2>2, <2>3 DEF IInv
<1> QED BY <1>1, <1>2, <1>3, <1>4, <1>5, <1>6, <1>7, <1>8, <1>9
           DEF Next, Worker

-----------------------------------------------------------------------------
(* What the invariant shows.                                               *)

(* IInv holds in every reachable state.                                    *)
THEOREM Inductive == Spec => []IInv
<1>1. Init => IInv
  BY InitEstablishes
<1>2. IInv /\ [Next]_vars => IInv'
  BY NextKeeps
<1> QED BY <1>1, <1>2, PTL DEF Spec

(* What arrives on one side is sent on the other, whole and in order,      *)
(* whatever is allocated, filled, sent in part and freed on the way.       *)
THEOREM Orderly == Spec => []InOrder
<1>1. IInv => InOrder
  BY DEF IInv, Flow, InOrder
<1> QED BY <1>1, Inductive, PTL

(* recv never writes to a buffer that net_transport_send has freed.        *)
THEOREM NeverFreed == Spec => []NoFreedBuffer
<1>1. IInv => NoFreedBuffer
  BY DEF IInv, Flow, Named, NoFreedBuffer
<1> QED BY <1>1, Inductive, PTL

(* A relay that one side's end closes has sent all that was received.      *)
THEOREM Flushed == Spec => []EndDelivers
<1>1. IInv => EndDelivers
  BY DEF IInv, Flow, EndDelivers
<1> QED BY <1>1, Inductive, PTL

(* A sleeping worker misses no event that a transport waits for.           *)
THEOREM Woken == Spec => []NoLostEdge
<1>1. IInv => NoLostEdge
  <2> SUFFICES ASSUME IInv, Sleeping, NEW w \in Way
               PROVE  /\ Readable(From(w)) /\ ~pipe[w].recv_error =>
                           sock[From(w)].ready
                      /\ Necessary(pipe[w]) /\ Room(w) > 0 =>
                           sock[To(w)].ready
    BY DEF NoLostEdge
  <2>1. /\ run = Nobody /\ batch = {} /\ over = Open /\ run.way # w
        /\ run # [way |-> w, at |-> "recv"] /\ Edges(w)
    BY DEF Sleeping, Nobody, Way, IInv
  <2>2. Room(w) > 0 => Room(w) # 0
    OBVIOUS
  <2> QED BY <2>1, <2>2 DEF Edges
<1> QED BY <1>1, Inductive, PTL

(* The variables have their types.                                         *)
THEOREM Typed == Spec => []TypeOK
<1>1. IInv => TypeOK
  <2> SUFFICES ASSUME IInv PROVE TypeOK
    OBVIOUS
  <2> DEFINE N == {0} \cup Byte
             T == [wrote : N, fin : BOOLEAN, read : N, taken : N,
                   broken : BOOLEAN, nospace : BOOLEAN, ready : BOOLEAN]
  <2>1. \A s \in Side, i \in Nat : i <= MaxSent(s) => i \in N
    BY SizeAssumption DEF Byte, MaxSent, Side
  <2>2. ASSUME NEW s \in Side PROVE sock[s] \in T
    <3>1. PICK w \in Way : From(w) = s
      BY DEF Way, From, Side
    <3>2. PICK v \in Way : To(v) = s
      BY DEF Way, To, Side
    <3>3. /\ sock[s].wrote \in Nat /\ sock[s].read \in Nat
          /\ sock[s].taken \in Nat /\ sock[s].wrote <= MaxSent(s)
          /\ sock[s].read <= MaxSent(s)
      <4>1. /\ Flow(w) /\ sock[s].wrote \in Nat /\ sock[s].read \in Nat
            /\ sock[s].taken \in Nat
        BY DEF IInv, Types
      <4>2. /\ sock[s].wrote <= MaxSent(s) /\ sock[s].read <= sock[s].wrote
            /\ MaxSent(s) \in Nat
        BY <3>1, <4>1, SizeAssumption DEF Flow, MaxSent
      <4> QED BY <4>1, <4>2
    <3>4. From(v) \in Side /\ sock[From(v)].read \in Nat
      BY Apart DEF IInv, Types
    <3>5. sock[s].taken <= MaxSent(From(v))
      <4> DEFINE r == sock[From(v)].read
      <4>0. Len(pipe[v].sent) \in Nat /\ Len(pipe[v].chain) \in Nat
        <5>1. pipe[v] \in Pipes
          BY DEF IInv, Types
        <5> QED BY <5>1 DEF Pipes
      <4>1. /\ Ordered(pipe[v], r) /\ sock[s].taken <= Len(pipe[v].sent)
            /\ r <= MaxSent(From(v)) /\ MaxSent(From(v)) \in Nat
        <5>1. Flow(v) /\ sock[From(v)].wrote \in Nat /\ To(v) = s
          BY <3>2, <3>4 DEF IInv, Types
        <5>2. MaxSent(From(v)) \in Nat
          BY SizeAssumption DEF MaxSent
        <5>3. /\ Ordered(pipe[v], r) /\ sock[s].taken <= Len(pipe[v].sent)
              /\ r <= sock[From(v)].wrote
              /\ sock[From(v)].wrote <= MaxSent(From(v))
          BY <5>1 DEF Flow
        <5> QED BY <3>4, <5>1, <5>2, <5>3
      <4>2. Len(pipe[v].sent) <= r
        <5>1. PICK cut \in [0 .. Len(pipe[v].chain) -> 0 .. r] :
                cut[0] = Len(pipe[v].sent)
          BY <4>1 DEF Ordered
        <5>2. 0 \in 0 .. Len(pipe[v].chain)
          BY <4>0
        <5> QED BY <3>4, <5>1, <5>2
      <4>3. Len(pipe[v].sent) \in Nat
        BY <4>0
      <4> HIDE DEF r
      <4> QED BY <3>3, <3>4, <4>1, <4>2, <4>3 DEF r
    <3>6. /\ sock[s].wrote \in N /\ sock[s].read \in N /\ sock[s].taken \in N
      BY <2>1, <3>3, <3>4, <3>5
    <3>7. sock[s] \in [wrote : Nat, fin : BOOLEAN, read : Nat, taken : Nat,
                       broken : BOOLEAN, nospace : BOOLEAN, ready : BOOLEAN]
      BY DEF IInv, Types
    <3> HIDE DEF N
    <3> QED BY <3>6, <3>7
  <2>3. sock \in [Side -> T]
    <3>1. sock = [s \in Side |-> sock[s]]
      BY DEF IInv, Types
    <3> HIDE DEF T
    <3> QED BY <2>2, <3>1
  <2>4. ASSUME NEW w \in Way
        PROVE  /\ pipe[w].sent \in Seq(Byte)
               /\ pipe[w].chain \in Seq([bytes : Seq(Byte),
                                         filled : 0 .. Buffer])
               /\ {pipe[w].receiving, pipe[w].recv_error} \subseteq BOOLEAN
    BY DEF IInv, Types, Pipes, Meta
  <2> QED BY <2>3, <2>4 DEF TypeOK, IInv, Types
<1> QED BY <1>1, Inductive, PTL

=============================================================================
