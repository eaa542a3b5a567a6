-------------------------- MODULE EntityBody_proofs --------------------------
(***************************************************************************)
(* The body of a request or a response, for buffers of every size, bodies  *)
(* of any number of chunks, and however recv and send cut them in pieces.  *)
(*                                                                         *)
(* What the decoder does in a loop over the bytes it is given, and what is *)
(* on the wire, are recursive functions; what is proved of them is proved  *)
(* by induction over the natural numbers (Induct).                         *)
(***************************************************************************)
EXTENDS EntityBody, WellFoundedInduction, SequenceTheorems, TLAPS

-----------------------------------------------------------------------------
(* Induction over the natural numbers, for a set of them: what is left out *)
(* of it has no least member.                                              *)
LEMMA Induct ==
  ASSUME NEW M, 0 \in M, \A n \in Nat : n \in M => n + 1 \in M
  PROVE  Nat \subseteq M
<1> SUFFICES ASSUME Nat \ M # {} PROVE FALSE
  OBVIOUS
<1>1. PICK R : R = OpToRel(<, Nat)
  OBVIOUS
<1>2. IsWellFoundedOn(R, Nat)
  BY <1>1, NatLessThanWellFounded
<1>3. PICK x \in Nat \ M : \A y \in Nat \ M : <<y, x>> \notin R
  BY <1>2, WFMin
<1>4. x - 1 \in Nat \ M
  OBVIOUS
<1>5. <<x - 1, x>> \in R
  BY <1>1, <1>4 DEF OpToRel
<1> QED BY <1>3, <1>4, <1>5

-----------------------------------------------------------------------------
(* The wire.  It is known by the places where a chunk, or what ends the    *)
(* chunks, begins: from each the framing leads to the next.                *)

(* The byte at i is x, unless something else is there or came before it.   *)
Before(w, p) == w.odd = 0 \/ p < w.odd
Is(w, i, x) == Before(w, i) => w.bytes[i] = x

LastChunk(w, p) ==
  /\ Is(w, p + 1, "0") /\ Is(w, p + 2, "cr") /\ Is(w, p + 3, "lf")
  /\ Is(w, p + 4, "cr") /\ Is(w, p + 5, "lf")
  /\ w.odd <= p + 5 /\ (w.odd = 0 => w.end = p + 5)
OneChunk(w, p, d, S) ==
  /\ Is(w, p + 1, "0") /\ Is(w, p + 2, d)
  /\ Is(w, p + 3, "cr") /\ Is(w, p + 4, "lf")
  /\ Is(w, p + 5 + Value[d], "cr") /\ Is(w, p + 6 + Value[d], "lf")
  /\ w.odd \notin p + 5 .. p + 4 + Value[d]
  /\ p + 6 + Value[d] \in S /\ p + 6 + Value[d] < w.end
Sizes == Digit \ {"0"}
Chopped(w, S) ==
  /\ S \subseteq Nat /\ 0 \in S
  /\ w.odd # 0 => w.bytes[w.odd] = "other"
  /\ \A p \in S : LastChunk(w, p) \/ \E d \in Sizes : OneChunk(w, p, d, S)
Starts(w) == CHOOSE S : Chopped(w, S)

-----------------------------------------------------------------------------
(* The decoder.  Where it is in the body, from the state it is in.         *)
Handler == {"NULL", "http_entitybody_start", "http_entitybody_process"}
BodyState == [h : Handler,
              state : DOMAIN Expected, hex : Seq(Digit), chunk_need : Nat,
              content_need : Int, pos : Nat, end : Int,
              rc : {"AGAIN", "DONE", "ERROR"}, overread : BOOLEAN]

AtLast(w, s, k) == s.pos - k \in Starts(w) /\ LastChunk(w, s.pos - k)
AtChunk(w, s, k) ==
  \E d \in Sizes : /\ s.pos - k \in Starts(w)
                   /\ OneChunk(w, s.pos - k, d, Starts(w))
                   /\ s.hex = <<"0", d>>
BehindData(w, s, k) ==
  /\ s.hex = <<>>
  /\ \E q \in Starts(w), d \in Sizes :
       /\ OneChunk(w, q, d, Starts(w))
       /\ s.pos = q + k + Value[d]
AmongData(w, s) ==
  /\ s.hex = <<>>
  /\ \E q \in Starts(w), d \in Sizes :
       /\ OneChunk(w, q, d, Starts(w))
       /\ s.chunk_need \in 1 .. Value[d]
       /\ s.pos + s.chunk_need = q + 4 + Value[d]
Placed(w, s) ==
  \/ s.state = "start" /\ s.hex = <<>> /\ s.pos \in Starts(w)
  \/ s.state = "hex" /\ s.hex = <<"0">> /\ s.pos - 1 \in Starts(w)
  \/ s.state = "hex" /\ AtChunk(w, s, 2)
  \/ s.state = "hex_rn" /\ AtChunk(w, s, 3)
  \/ s.state = "hex_rn" /\ s.hex = <<"0">> /\ AtLast(w, s, 2)
  \/ s.state = "part" /\ AmongData(w, s)
  \/ s.state = "part_r" /\ BehindData(w, s, 4)
  \/ s.state = "part_rn" /\ BehindData(w, s, 5)
  \/ s.state = "last_r" /\ s.hex = <<>> /\ AtLast(w, s, 3)
  \/ s.state = "last_rn" /\ s.hex = <<>> /\ AtLast(w, s, 4)
Sync(w, s) == Placed(w, s) /\ Before(w, s.pos)

(* It went on to a byte that was not received, took it for the "\r" that   *)
(* is yet to come, and waits for the "\n" behind it.                       *)
Astray(w, s, n) ==
  /\ s.overread /\ s.state = "part_rn" /\ s.hex \in Seq(Digit)
  /\ n < Len(w.bytes) /\ w.bytes[n + 1] # "lf"

(* Why the decoder may answer ERROR, with n bytes received.                *)
Upper(w, n) == \E i \in 1 .. n : w.bytes[i] = "B"
Damage(w, s, n) ==
  \/ w.odd # 0 /\ n >= w.odd
  \/ s.overread
  \/ Upper(w, n)

-----------------------------------------------------------------------------
(* The inductive invariant.                                                *)

(* The buffers in c hold the bytes from s up to n.                         *)
Meta == [pos : Nat, last : Nat, room : 0 .. Buffer]
Links(c, s, n) ==
  /\ c \in Seq(Meta)
  /\ \A i \in 1 .. Len(c) : c[i].pos <= c[i].last /\ c[i].last <= n
  /\ \A i \in 1 .. Len(c) - 1 : c[i].room = 0 /\ c[i].last = c[i + 1].pos
  /\ c # <<>> => c[1].pos = s /\ c[Len(c)].last = n
  /\ c = <<>> => s = n
Chained ==
  /\ Links(chain, sent, got)
  /\ last \in {"tail", "null", "freed"}
  /\ last = "tail" <=> chain # <<>>
  /\ last = "freed" => at = "send"

(* A decoder that is to go on: it is where the body says, and has decoded  *)
(* all that was received, but for what came with the head; or it is astray *)
(* and the buffer that it left is full.                                    *)
Going(w, s, c, p, n) ==
  \/ /\ ~s.overread /\ Sync(w, s) /\ s.pos <= n
     /\ s.pos < n => p = "handler" /\ c # <<>> /\ c[Len(c)].room > 0
  \/ /\ Astray(w, s, n)
     /\ s.pos = n \/ (s.pos = n + 1 /\ (c # <<>> => c[Len(c)].room = 0))

(* What is known of the entry, by its last answer.                         *)
Told(w, s, c, p, n) ==
  /\ s.rc = "AGAIN" /\ s.h = "http_entitybody_process" =>
       IF w.type = "chunk" THEN Going(w, s, c, p, n)
                           ELSE s.content_need = w.end - n
  /\ s.rc = "DONE" => s.end = w.end /\ n >= w.end /\ w.odd = 0
  /\ s.rc = "ERROR" => Damage(w, s, n)

(* An entry that is free, and one that was given to a tunnel.              *)
Created == [FreeBody EXCEPT !.h = "http_entitybody_start", !.state = "start"]
Fresh == chain = <<>> /\ last = "null" /\ got = 0 /\ sent = 0
Phases ==
  /\ at \in {"handler", "send", "wait", "finish", "rejected", "free"}
  /\ at = "free" => bd = FreeBody /\ Fresh
  /\ at = "handler" /\ bd.h = "http_entitybody_start" => bd = Created /\ Fresh
  /\ at = "handler" => bd.rc = "AGAIN"
  /\ at \in {"send", "wait"} =>
       bd.rc = "DONE" \/ (bd.rc = "AGAIN" /\ bd.h = "http_entitybody_process")
  /\ at = "finish" => bd.rc = "DONE" /\ (role = "response" => sent = got)

IInv ==
  /\ role \in {"request", "response"} /\ wire \in Wires
  /\ bd \in BodyState
  /\ got \in 0 .. Len(wire.bytes) /\ sent \in 0 .. got
  /\ net \in [recv : BOOLEAN, send : BOOLEAN]
  /\ Chained /\ Told(wire, bd, chain, at, got) /\ Phases
(* FlattenSeq of some sequences is what its recursion says.                *)
LEMMA Flattens ==
  ASSUME NEW seqs, Len(seqs) \in Nat \ {0}
  PROVE  \E g : /\ g = [i \in 1 .. Len(seqs) |->
                          IF i = 1 THEN seqs[i] ELSE g[i - 1] \o seqs[i]]
                /\ FlattenSeq(seqs) = g[Len(seqs)]
<1> DEFINE M == {m \in Nat : \E g :
                   g = [i \in 1 .. m |->
                          IF i = 1 THEN seqs[i] ELSE g[i - 1] \o seqs[i]]}
<1>1. 0 \in M
  <2>1. PICK g : g = [i \in 1 .. 0 |-> seqs]
    OBVIOUS
  <2>2. g = [i \in 1 .. 0 |->
               IF i = 1 THEN seqs[i] ELSE g[i - 1] \o seqs[i]]
    BY <2>1
  <2> QED BY <2>2
<1>2. ASSUME NEW m \in Nat, m \in M PROVE m + 1 \in M
  <2>1. PICK g : g = [i \in 1 .. m |->
                        IF i = 1 THEN seqs[i] ELSE g[i - 1] \o seqs[i]]
    BY <1>2
  <2>2. PICK x : x = IF m = 0 THEN seqs[1] ELSE g[m] \o seqs[m + 1]
    OBVIOUS
  <2>3. PICK f : f = [i \in 1 .. m + 1 |-> IF i = m + 1 THEN x ELSE g[i]]
    OBVIOUS
  <2>4. ASSUME NEW i \in 1 .. m + 1
        PROVE  f[i] = IF i = 1 THEN seqs[i] ELSE f[i - 1] \o seqs[i]
    <3>1. CASE i = m + 1 /\ m = 0
      BY <2>2, <2>3, <3>1
    <3>2. CASE i = m + 1 /\ m # 0
      <4>1. f[m] = g[m] /\ i - 1 = m /\ f[i] = x
        BY <2>3, <3>2
      <4>2. x = g[m] \o seqs[i]
        BY <2>2, <3>2
      <4>3. x = f[i - 1] \o seqs[i]
        BY <4>1, <4>2
      <4>4. i # 1
        BY <3>2
      <4> QED BY <4>1, <4>3, <4>4, Zenon
    <3>3. CASE i # m + 1
      <4>1. f[i] = g[i] /\ (i # 1 => f[i - 1] = g[i - 1])
        BY <2>3, <3>3
      <4>2. g[i] = IF i = 1 THEN seqs[i] ELSE g[i - 1] \o seqs[i]
        <5>1. i \in 1 .. m
          BY <3>3
        <5> QED BY <2>1, <5>1, Zenon
      <4> QED BY <4>1, <4>2
    <3> QED BY <3>1, <3>2, <3>3
  <2>5. f = [i \in 1 .. m + 1 |->
               IF i = 1 THEN seqs[i] ELSE f[i - 1] \o seqs[i]]
    BY <2>3, <2>4
  <2>6. m + 1 \in Nat
    OBVIOUS
  <2> QED BY <2>5, <2>6, Zenon
<1>3. Len(seqs) \in M
  <2> HIDE DEF M
  <2> QED BY <1>1, <1>2, Induct
<1>4. PICK g : g = [i \in 1 .. Len(seqs) |->
                      IF i = 1 THEN seqs[i] ELSE g[i - 1] \o seqs[i]]
  BY <1>3
<1> QED BY <1>4, Zenon DEF FlattenSeq

(* A byte of two sequences, one after the other.                           *)
LEMMA Joined ==
  ASSUME NEW A, NEW s \in Seq(A), NEW t \in Seq(A)
  PROVE  /\ s \o t \in Seq(A) /\ Len(s \o t) = Len(s) + Len(t)
         /\ \A i \in 1 .. Len(s) : (s \o t)[i] = s[i]
         /\ \A i \in 1 .. Len(t) : (s \o t)[Len(s) + i] = t[i]
OBVIOUS

(* A chunk.                                                                *)
IsChunk(c, d, v, b) ==
  /\ v \in 1 .. 2
  /\ c \in Seq(Token) /\ Len(c) = 6 + v
  /\ c[1] = "0" /\ c[2] = d /\ c[3] = "cr" /\ c[4] = "lf"
  /\ c[5 + v] = "cr" /\ c[6 + v] = "lf"
  /\ \A i \in 5 .. 4 + v : c[i] = b
LEMMA Chunks ==
  ASSUME NEW d \in Sizes, NEW b \in Token
  PROVE  IsChunk(Chunk(d, b), d, Value[d], b)
<1>1. Value[d] \in 1 .. 2
  BY DEF Sizes, Digit, Value
<1>2. Digit \subseteq Token /\ {"0", "cr", "lf", d} \subseteq Token
  BY DEF Token, Digit, Value, Sizes
<1>3. PICK x, y, z, v : /\ x = <<"0", d, "cr", "lf">>
                        /\ v = Value[d] /\ y = Bytes(v, b)
                        /\ z = <<"cr", "lf">>
  OBVIOUS
<1>4. x \in Seq(Token) /\ Len(x) = 4
  BY <1>2, <1>3
<1>5. y \in Seq(Token) /\ Len(y) = v /\ \A i \in 1 .. v : y[i] = b
  <2>1. v \in Nat /\ y = [i \in 1 .. v |-> b]
    BY <1>1, <1>3 DEF Bytes
  <2> QED BY <2>1
<1>6. z \in Seq(Token) /\ Len(z) = 2
  BY <1>2, <1>3
<1>7. PICK u : u = x \o y
  OBVIOUS
<1>8. /\ u \in Seq(Token) /\ Len(u) = 4 + v
      /\ u[1] = "0" /\ u[2] = d /\ u[3] = "cr" /\ u[4] = "lf"
      /\ \A i \in 1 .. v : u[4 + i] = b
  <2>1. /\ x \o y \in Seq(Token) /\ Len(x \o y) = Len(x) + Len(y)
        /\ \A i \in 1 .. Len(x) : (x \o y)[i] = x[i]
        /\ \A i \in 1 .. Len(y) : (x \o y)[Len(x) + i] = y[i]
    <3>1. x \in Seq(Token) /\ y \in Seq(Token)
      BY <1>4, <1>5
    <3> QED BY <3>1, Joined
  <2>2. x[1] = "0" /\ x[2] = d /\ x[3] = "cr" /\ x[4] = "lf"
    BY <1>3
  <2> QED BY <1>1, <1>3, <1>4, <1>5, <1>7, <2>1, <2>2
<1>9. PICK c : c = u \o z
  OBVIOUS
<1>10. v \in 1 .. 2
  BY <1>1, <1>3
<1>11. /\ c \in Seq(Token) /\ Len(c) = 6 + v
       /\ \A i \in 1 .. 4 + v : c[i] = u[i]
       /\ \A i \in 1 .. 2 : c[4 + v + i] = z[i]
  <2>1. /\ u \o z \in Seq(Token) /\ Len(u \o z) = Len(u) + Len(z)
        /\ \A i \in 1 .. Len(u) : (u \o z)[i] = u[i]
        /\ \A i \in 1 .. Len(z) : (u \o z)[Len(u) + i] = z[i]
    <3>1. u \in Seq(Token) /\ z \in Seq(Token)
      BY <1>6, <1>8
    <3> QED BY <3>1, Joined
  <2>2. /\ c \in Seq(Token) /\ Len(c) = Len(u) + Len(z)
        /\ \A i \in 1 .. Len(u) : c[i] = u[i]
        /\ \A i \in 1 .. Len(z) : c[Len(u) + i] = z[i]
    BY <1>9, <2>1
  <2> QED BY <1>6, <1>8, <1>10, <2>2
<1>12. c[4 + v + 1] = z[1] /\ c[4 + v + 2] = z[2]
  BY <1>11
<1>13. 4 + v + 1 = 5 + v /\ 4 + v + 2 = 6 + v
  BY <1>10
<1>14. c = Chunk(d, b)
  BY <1>3, <1>7, <1>9 DEF Chunk
<1>15. /\ c[1] = "0" /\ c[2] = d /\ c[3] = "cr" /\ c[4] = "lf"
       /\ c[5 + v] = "cr" /\ c[6 + v] = "lf"
  <2>1. z[1] = "cr" /\ z[2] = "lf"
    BY <1>3
  <2>2. {1, 2, 3, 4} \subseteq 1 .. 4 + v
    BY <1>10
  <2>3. c[1] = u[1] /\ c[2] = u[2] /\ c[3] = u[3] /\ c[4] = u[4]
    BY <1>11, <2>2
  <2> QED BY <1>8, <1>12, <1>13, <2>1, <2>3
<1>16. ASSUME NEW i \in 5 .. 4 + v PROVE c[i] = b
  <2>1. i - 4 \in 1 .. v /\ 4 + (i - 4) = i /\ i \in 1 .. 4 + v
    BY <1>10
  <2>2. u[4 + (i - 4)] = b
    BY <1>8, <2>1
  <2> QED BY <1>11, <2>1, <2>2
<1>17. IsChunk(c, d, v, b)
  BY <1>10, <1>11, <1>15, <1>16 DEF IsChunk
<1> QED BY <1>3, <1>14, <1>17

(* A sequence of whole chunks with data b, which begin at the places in S. *)
Chunky(q, p, d, b) ==
  /\ q[p + 1] = "0" /\ q[p + 2] = d /\ q[p + 3] = "cr" /\ q[p + 4] = "lf"
  /\ q[p + 5 + Value[d]] = "cr" /\ q[p + 6 + Value[d]] = "lf"
  /\ \A i \in p + 5 .. p + 4 + Value[d] : q[i] = b
  /\ p + 6 + Value[d] <= Len(q)
Whole(q, S, b) ==
  /\ q \in Seq(Token) /\ S \subseteq Nat /\ 0 \in S
  /\ \A p \in S :
       \/ p = Len(q)
       \/ \E d \in Sizes : Chunky(q, p, d, b) /\ p + 6 + Value[d] \in S

LEMMA SizeValues == \A d \in Sizes : Value[d] \in 1 .. 2
BY DEF Sizes, Digit, Value

(* Another chunk.                                                          *)
LEMMA OneMore ==
  ASSUME NEW b \in Token, NEW q, NEW S, Whole(q, S, b), NEW d \in Sizes
  PROVE  Whole(q \o Chunk(d, b), S \cup {Len(q) + 6 + Value[d]}, b)
<1>1. PICK c, v, r : /\ c = Chunk(d, b) /\ v = Value[d] /\ r = q \o c
  OBVIOUS
<1>2. /\ v \in 1 .. 2 /\ c \in Seq(Token) /\ Len(c) = 6 + v
      /\ c[1] = "0" /\ c[2] = d /\ c[3] = "cr" /\ c[4] = "lf"
      /\ c[5 + v] = "cr" /\ c[6 + v] = "lf"
      /\ \A i \in 5 .. 4 + v : c[i] = b
  <2>1. IsChunk(c, d, v, b)
    BY <1>1, Chunks
  <2> QED BY <2>1 DEF IsChunk
<1>3. q \in Seq(Token) /\ Len(q) \in Nat
  BY DEF Whole
<1>4. /\ r \in Seq(Token) /\ Len(r) = Len(q) + 6 + v
      /\ \A i \in 1 .. Len(q) : r[i] = q[i]
      /\ \A i \in 1 .. 6 + v : r[Len(q) + i] = c[i]
  <2>1. /\ q \o c \in Seq(Token) /\ Len(q \o c) = Len(q) + Len(c)
        /\ \A i \in 1 .. Len(q) : (q \o c)[i] = q[i]
        /\ \A i \in 1 .. Len(c) : (q \o c)[Len(q) + i] = c[i]
    <3>1. q \in Seq(Token) /\ c \in Seq(Token)
      BY <1>2, <1>3
    <3> QED BY <3>1, Joined
  <2>2. /\ r \in Seq(Token) /\ Len(r) = Len(q) + Len(c)
        /\ \A i \in 1 .. Len(q) : r[i] = q[i]
        /\ \A i \in 1 .. Len(c) : r[Len(q) + i] = c[i]
    BY <1>1, <2>1
  <2> QED BY <1>2, <1>3, <2>2
<1>5. PICK Z : Z = S \cup {Len(q) + 6 + v}
  OBVIOUS
<1>6. Z \subseteq Nat /\ 0 \in Z /\ S \subseteq Nat
  <2>1. Len(q) + 6 + v \in Nat
    BY <1>2, <1>3
  <2>2. S \subseteq Nat /\ 0 \in S
    BY DEF Whole
  <2> QED BY <1>5, <2>1, <2>2
<1>7. ASSUME NEW p \in S, NEW e \in Sizes, Chunky(q, p, e, b)
      PROVE  Chunky(r, p, e, b)
  <2>1. PICK x : x = Value[e]
    OBVIOUS
  <2>2. x \in 1 .. 2 /\ p \in Nat /\ p + 6 + x <= Len(q)
    BY <1>6, <1>7, <2>1, SizeValues DEF Chunky
  <2>3. \A i \in 1 .. 6 + x : r[p + i] = q[p + i]
    <3> TAKE i \in 1 .. 6 + x
    <3>1. p + i \in 1 .. Len(q)
      BY <1>3, <2>2
    <3> QED BY <1>4, <3>1
  <2>4. /\ p + 5 + x = p + (5 + x) /\ p + 6 + x = p + (6 + x)
        /\ 5 + x \in 1 .. 6 + x /\ 6 + x \in 1 .. 6 + x
        /\ {1, 2, 3, 4} \subseteq 1 .. 6 + x
    BY <2>2
  <2>5. p + 6 + x <= Len(r)
    BY <1>2, <1>3, <1>4, <2>2
  <2>6. /\ r[p + 1] = q[p + 1] /\ r[p + 2] = q[p + 2]
        /\ r[p + 3] = q[p + 3] /\ r[p + 4] = q[p + 4]
        /\ r[p + 5 + x] = q[p + 5 + x] /\ r[p + 6 + x] = q[p + 6 + x]
    BY <2>3, <2>4
  <2>7. ASSUME NEW i \in p + 5 .. p + 4 + x PROVE r[i] = b
    <3>1. i - p \in 1 .. 6 + x /\ p + (i - p) = i
      BY <2>2
    <3>2. r[p + (i - p)] = q[p + (i - p)]
      BY <2>3, <3>1
    <3>3. q[i] = b
      BY <1>7, <2>1 DEF Chunky
    <3> QED BY <3>1, <3>2, <3>3
  <2> QED BY <1>7, <2>1, <2>5, <2>6, <2>7 DEF Chunky
<1>8. Chunky(r, Len(q), d, b)
  <2>1. /\ Len(q) + 5 + v = Len(q) + (5 + v)
        /\ Len(q) + 6 + v = Len(q) + (6 + v)
        /\ 5 + v \in 1 .. 6 + v /\ 6 + v \in 1 .. 6 + v
        /\ {1, 2, 3, 4} \subseteq 1 .. 6 + v
    BY <1>2, <1>3
  <2>2. /\ r[Len(q) + 1] = c[1] /\ r[Len(q) + 2] = c[2]
        /\ r[Len(q) + 3] = c[3] /\ r[Len(q) + 4] = c[4]
        /\ r[Len(q) + 5 + v] = c[5 + v] /\ r[Len(q) + 6 + v] = c[6 + v]
    BY <1>4, <2>1
  <2>3. Len(q) + 6 + v <= Len(r)
    BY <1>2, <1>3, <1>4
  <2>4. ASSUME NEW i \in Len(q) + 5 .. Len(q) + 4 + v PROVE r[i] = b
    <3>1. PICK k : k = i - Len(q)
      OBVIOUS
    <3>2. k \in 5 .. 4 + v /\ k \in 1 .. 6 + v /\ Len(q) + k = i
      BY <1>2, <1>3, <3>1
    <3>3. r[Len(q) + k] = c[k] /\ c[k] = b
      BY <1>2, <1>4, <3>2
    <3> QED BY <3>2, <3>3
  <2> QED BY <1>1, <1>2, <2>2, <2>3, <2>4 DEF Chunky
<1>9. ASSUME NEW p \in Z
      PROVE  \/ p = Len(r)
             \/ \E e \in Sizes : Chunky(r, p, e, b) /\ p + 6 + Value[e] \in Z
  <2>1. CASE p = Len(q) + 6 + v
    BY <1>4, <2>1
  <2>2. CASE p \in S /\ p # Len(q)
    <3>1. PICK e \in Sizes : Chunky(q, p, e, b) /\ p + 6 + Value[e] \in S
      BY <2>2 DEF Whole
    <3>2. Chunky(r, p, e, b) /\ p + 6 + Value[e] \in Z
      BY <1>5, <1>7, <2>2, <3>1
    <3> QED BY <3>2
  <2>3. CASE p = Len(q)
    <3>1. Chunky(r, p, d, b) /\ p + 6 + Value[d] \in Z
      BY <1>1, <1>5, <1>8, <2>3
    <3> QED BY <3>1
  <2> QED BY <1>5, <2>1, <2>2, <2>3
<1>10. Whole(r, Z, b)
  BY <1>4, <1>6, <1>9 DEF Whole
<1> QED BY <1>1, <1>5, <1>10

(* A chunked body: whole chunks and what ends them.                        *)
Ending == <<"0", "cr", "lf", "cr", "lf">>
LEMMA Bodies ==
  ASSUME NEW sizes \in BoundedSeq(Sizes, MaxChunks), NEW b \in Token
  PROVE  \E q, S : Whole(q, S, b) /\ Chunked(sizes, b) = q \o Ending
<1>1. PICK m \in 0 .. MaxChunks : sizes \in [1 .. m -> Sizes]
  BY DEF BoundedSeq, SeqOf
<1>2. m \in Nat /\ DOMAIN sizes = 1 .. m
  BY <1>1, SizeAssumption
<1>3. PICK seqs : seqs = [i \in DOMAIN sizes |-> Chunk(sizes[i], b)]
  OBVIOUS
<1>4. seqs = [i \in 1 .. m |-> Chunk(sizes[i], b)]
  BY <1>2, <1>3
<1>5. Len(seqs) = m
  BY <1>2, <1>4
<1>6. Chunked(sizes, b) = FlattenSeq(seqs) \o Ending
  BY <1>3 DEF Chunked, Ending
<1>7. \E q, S : Whole(q, S, b) /\ q = FlattenSeq(seqs)
  <2>1. CASE m = 0
    <3>1. seqs = <<>>
      BY <1>4, <2>1
    <3>2. FlattenSeq(seqs) = <<>>
      BY <1>5, <2>1, <3>1 DEF FlattenSeq
    <3>3. Whole(<<>>, {0}, b)
      BY DEF Whole
    <3> QED BY <3>2, <3>3
  <2>2. CASE m # 0
    <3>1. m \in Nat \ {0}
      BY <1>2, <2>2
    <3>2. PICK g : /\ g = [i \in 1 .. m |->
                             IF i = 1 THEN seqs[i] ELSE g[i - 1] \o seqs[i]]
                   /\ FlattenSeq(seqs) = g[m]
      BY <1>5, <3>1, Flattens
    <3> DEFINE M == {i \in Nat : i + 1 <= m => \E S : Whole(g[i + 1], S, b)}
    <3>3. \A i \in 1 .. m : seqs[i] = Chunk(sizes[i], b) /\ sizes[i] \in Sizes
      BY <1>1, <1>4
    <3>4. \A i \in 1 .. m : g[i] = IF i = 1 THEN seqs[i] ELSE g[i - 1] \o seqs[i]
      BY <3>2, Zenon
    <3>5. 0 \in M
      <4>1. 1 \in 1 .. m
        BY <3>1
      <4>2. g[1] = Chunk(sizes[1], b) /\ sizes[1] \in Sizes
        BY <3>3, <3>4, <4>1
      <4>3. Whole(<<>>, {0}, b)
        BY DEF Whole
      <4>4. \E S : Whole(<<>> \o Chunk(sizes[1], b), S, b)
        BY <4>2, <4>3, OneMore
      <4>5. Chunk(sizes[1], b) \in Seq(Token)
        BY <4>2, Chunks DEF IsChunk
      <4>6. <<>> \o Chunk(sizes[1], b) = Chunk(sizes[1], b)
        BY <4>5
      <4> QED BY <4>2, <4>4, <4>6
    <3>6. ASSUME NEW i \in Nat, i \in M PROVE i + 1 \in M
      <4> SUFFICES ASSUME i + 2 <= m PROVE \E S : Whole(g[i + 2], S, b)
        BY <3>1
      <4>1. i + 2 \in 1 .. m /\ i + 2 # 1 /\ (i + 2) - 1 = i + 1 /\ i + 1 <= m
        BY <3>1
      <4>2. PICK S : Whole(g[i + 1], S, b)
        BY <3>6, <4>1
      <4>3. g[i + 2] = g[(i + 2) - 1] \o seqs[i + 2]
        BY <3>4, <4>1, Zenon
      <4>4. g[i + 2] = g[i + 1] \o Chunk(sizes[i + 2], b)
        BY <3>3, <4>1, <4>3
      <4>5. \E Z : Whole(g[i + 1] \o Chunk(sizes[i + 2], b), Z, b)
        BY <3>3, <4>1, <4>2, OneMore
      <4> QED BY <4>4, <4>5
    <3>7. m - 1 \in M
      <4> HIDE DEF M
      <4>1. m - 1 \in Nat
        BY <3>1
      <4> QED BY <3>5, <3>6, <4>1, Induct
    <3>8. (m - 1) + 1 = m /\ (m - 1) + 1 <= m
      BY <3>1
    <3>9. \E S : Whole(g[m], S, b)
      BY <3>7, <3>8
    <3> QED BY <3>2, <3>9
  <2> QED BY <2>1, <2>2
<1> QED BY <1>6, <1>7

(* The bytes of a wire: a body, up to where something else begins.         *)
Carries(w, body) ==
  /\ w.bytes \in Seq(Token) /\ w.end \in 0 .. Len(w.bytes)
  /\ Len(body) <= w.end /\ (w.odd = 0 => w.end = Len(body))
  /\ w.odd \in 0 .. Len(body)
  /\ \A i \in 1 .. Len(body) : Before(w, i) => w.bytes[i] = body[i]
  /\ w.odd # 0 => w.bytes[w.odd] = "other" /\ body[w.odd] # "data"

Holds(w, type, bytes, odd) ==
  /\ w.type = type /\ w.end = Len(bytes) /\ w.odd = odd
  /\ w.bytes \in Seq(Token) /\ w.end \in 0 .. Len(w.bytes)
  /\ \A i \in 1 .. Len(bytes) : w.bytes[i] = bytes[i]
LEMMA OnTheWire ==
  ASSUME NEW type, NEW bytes \in Seq(Token), NEW odd, NEW extra \in 0 .. 1
  PROVE  Holds(Wire(type, bytes, odd, extra), type, bytes, odd)
<1> DEFINE w == Wire(type, bytes, odd, extra)
<1>1. "data" \in Token
  BY DEF Token
<1>2. PICK more : more = Bytes(extra, "data")
  OBVIOUS
<1>3. more \in Seq(Token) /\ Len(more) = extra
  BY <1>1, <1>2 DEF Bytes
<1>4. w = [type |-> type, end |-> Len(bytes), odd |-> odd,
           bytes |-> bytes \o more]
  BY <1>2 DEF Wire
<1>5. /\ w.type = type /\ w.end = Len(bytes) /\ w.odd = odd
      /\ w.bytes = bytes \o more
  BY <1>4
<1>6. /\ bytes \o more \in Seq(Token)
      /\ Len(bytes \o more) = Len(bytes) + Len(more)
      /\ \A i \in 1 .. Len(bytes) : (bytes \o more)[i] = bytes[i]
  BY <1>3, Joined
<1>7. w.end \in 0 .. Len(w.bytes)
  BY <1>3, <1>5, <1>6
<1> QED BY <1>5, <1>6, <1>7 DEF Holds

(* Something else at i, in a body that goes on with rest.                  *)
LEMMA OddWire ==
  ASSUME NEW body \in Seq(Token), NEW i \in 1 .. Len(body), body[i] # "data",
         NEW bytes \in Seq(Token), Len(body) <= Len(bytes),
         \A j \in 1 .. i - 1 : bytes[j] = body[j], bytes[i] = "other",
         NEW w, w = Wire("chunk", bytes, i, 0)
  PROVE  w.type = "chunk" /\ Carries(w, body)
<1>1. /\ w.type = "chunk" /\ w.end = Len(bytes) /\ w.odd = i
      /\ w.bytes \in Seq(Token) /\ w.end \in 0 .. Len(w.bytes)
      /\ \A j \in 1 .. Len(bytes) : w.bytes[j] = bytes[j]
  <2>1. 0 \in 0 .. 1
    OBVIOUS
  <2>2. Holds(w, "chunk", bytes, i)
    BY <2>1, OnTheWire
  <2> QED BY <2>2 DEF Holds
<1>2. i \in Nat /\ i # 0 /\ Len(body) \in Nat /\ Len(bytes) \in Nat
  OBVIOUS
<1>3. ASSUME NEW j \in 1 .. Len(body), Before(w, j) PROVE w.bytes[j] = body[j]
  <2>1. j \in 1 .. i - 1 /\ j \in 1 .. Len(bytes)
    BY <1>1, <1>2, <1>3 DEF Before
  <2> QED BY <1>1, <2>1
<1>4. w.bytes[w.odd] = "other" /\ body[w.odd] # "data"
  <2>1. i \in 1 .. Len(bytes)
    BY <1>2
  <2> QED BY <1>1, <2>1
<1> QED BY <1>1, <1>2, <1>3, <1>4 DEF Carries

LEMMA OddWires ==
  ASSUME NEW body \in Seq(Token), Len(body) >= 2,
         body[Len(body) - 1] = "cr",
         NEW w \in Damaged(body) \cup Extended(body) \cup {Trailed(body)}
  PROVE  w.type = "chunk" /\ Carries(w, body)
<1>1. {"other", "cr", "lf", "data"} \subseteq Token /\ "cr" # "data"
  BY DEF Token
<1>2. PICK n \in Nat : n = Len(body) /\ n >= 2
  OBVIOUS
<1>3. CASE w \in Damaged(body)
  <2>1. PICK i \in 1 .. n : /\ body[i] # "data"
                            /\ w = Wire("chunk", [body EXCEPT ![i] = "other"], i, 0)
    BY <1>2, <1>3 DEF Damaged
  <2>2. PICK bytes : bytes = [body EXCEPT ![i] = "other"]
    OBVIOUS
  <2>3. /\ bytes \in Seq(Token) /\ Len(bytes) = n /\ bytes[i] = "other"
        /\ \A j \in 1 .. i - 1 : bytes[j] = body[j]
    BY <1>1, <1>2, <2>1, <2>2
  <2>4. i \in 1 .. Len(body) /\ Len(body) <= Len(bytes)
    BY <1>2, <2>3
  <2> QED BY <2>1, <2>2, <2>3, <2>4, OddWire
<1>4. ASSUME NEW m \in 0 .. n, NEW tail \in Seq(Token), n <= m + Len(tail),
             m + 1 <= n, tail[1] = "other", body[m + 1] # "data",
             w = Wire("chunk", SubSeq(body, 1, m) \o tail, m + 1, 0)
      PROVE  w.type = "chunk" /\ Carries(w, body)
  <2>1. PICK front : front = SubSeq(body, 1, m)
    OBVIOUS
  <2>2. /\ front \in Seq(Token) /\ Len(front) = m
        /\ \A j \in 1 .. m : front[j] = body[j]
    BY <1>2, <2>1
  <2>3. PICK bytes : bytes = front \o tail
    OBVIOUS
  <2>4. /\ front \o tail \in Seq(Token)
        /\ Len(front \o tail) = Len(front) + Len(tail)
        /\ \A j \in 1 .. Len(front) : (front \o tail)[j] = front[j]
        /\ \A j \in 1 .. Len(tail) : (front \o tail)[Len(front) + j] = tail[j]
    <3>1. front \in Seq(Token) /\ tail \in Seq(Token)
      BY <1>4, <2>2
    <3> QED BY <3>1, Joined
  <2>5. /\ m \in Nat /\ m + 1 \in 1 .. Len(body) /\ (m + 1) - 1 = m
        /\ Len(tail) \in Nat /\ 1 \in 1 .. Len(tail)
    BY <1>2, <1>4
  <2>6. /\ bytes \in Seq(Token) /\ Len(body) <= Len(bytes)
        /\ \A j \in 1 .. (m + 1) - 1 : bytes[j] = body[j]
        /\ bytes[m + 1] = "other"
    BY <1>2, <1>4, <2>2, <2>3, <2>4, <2>5
  <2> QED BY <1>4, <2>1, <2>3, <2>5, <2>6, OddWire
<1>5. CASE w \in Extended(body)
  <2>1. PICK i \in 2 .. n : /\ body[i] = "cr"
                            /\ w = Wire("chunk", InsertAt(body, i, "other"), i, 0)
    BY <1>2, <1>5 DEF Extended
  <2>2. PICK front, back, one : /\ front = SubSeq(body, 1, i - 1)
                                /\ back = SubSeq(body, i, n)
                                /\ one = <<"other">>
    OBVIOUS
  <2>3. /\ front \in Seq(Token) /\ Len(front) = i - 1
        /\ back \in Seq(Token) /\ Len(back) = n - i + 1
        /\ one \in Seq(Token) /\ Len(one) = 1 /\ one[1] = "other"
    BY <1>1, <1>2, <2>1, <2>2
  <2>4. PICK head : head = front \o one
    OBVIOUS
  <2>5. /\ head \in Seq(Token) /\ Len(head) = i /\ head[i] = "other"
        /\ \A j \in 1 .. i - 1 : head[j] = body[j]
    <3>1. /\ front \o one \in Seq(Token)
          /\ Len(front \o one) = Len(front) + Len(one)
          /\ \A j \in 1 .. Len(front) : (front \o one)[j] = front[j]
          /\ \A j \in 1 .. Len(one) : (front \o one)[Len(front) + j] = one[j]
      <4>1. front \in Seq(Token) /\ one \in Seq(Token)
        BY <2>3
      <4> QED BY <4>1, Joined
    <3>2. \A j \in 1 .. i - 1 : front[j] = body[j]
      BY <1>2, <2>1, <2>2
    <3>3. (i - 1) + 1 = i /\ 1 \in 1 .. 1 /\ i \in Nat
      BY <1>2, <2>1
    <3>4. (front \o one)[(i - 1) + 1] = one[1]
      BY <2>3, <3>1, <3>3
    <3>5. /\ head \in Seq(Token) /\ Len(head) = (i - 1) + 1
          /\ head[(i - 1) + 1] = "other"
          /\ \A j \in 1 .. i - 1 : head[j] = front[j]
      BY <2>3, <2>4, <3>1, <3>4
    <3> QED BY <3>2, <3>3, <3>5
  <2>6. PICK bytes : bytes = head \o back
    OBVIOUS
  <2>7. /\ bytes \in Seq(Token) /\ Len(bytes) = n + 1
        /\ \A j \in 1 .. i : bytes[j] = head[j]
    <3>1. /\ head \o back \in Seq(Token)
          /\ Len(head \o back) = Len(head) + Len(back)
          /\ \A j \in 1 .. Len(head) : (head \o back)[j] = head[j]
      <4>1. head \in Seq(Token) /\ back \in Seq(Token)
        BY <2>3, <2>5
      <4> QED BY <4>1, Joined
    <3>2. /\ bytes \in Seq(Token) /\ Len(bytes) = i + (n - i + 1)
          /\ \A j \in 1 .. i : bytes[j] = head[j]
      BY <2>3, <2>5, <2>6, <3>1
    <3>3. i + (n - i + 1) = n + 1
      BY <1>2, <2>1
    <3> QED BY <3>2, <3>3
  <2>8. InsertAt(body, i, "other") = bytes
    BY <1>2, <2>2, <2>4, <2>6 DEF InsertAt
  <2>9. /\ i \in 1 .. Len(body) /\ body[i] # "data"
        /\ Len(body) <= Len(bytes) /\ bytes[i] = "other"
        /\ \A j \in 1 .. i - 1 : bytes[j] = body[j]
    BY <1>1, <1>2, <2>1, <2>5, <2>7
  <2> QED BY <2>1, <2>7, <2>8, <2>9, OddWire
<1>6. CASE w = Trailed(body)
  <2>1. PICK tail : tail = <<"other", "cr", "lf", "cr", "lf">>
    OBVIOUS
  <2>2. tail \in Seq(Token) /\ Len(tail) = 5 /\ tail[1] = "other"
    BY <1>1, <2>1
  <2>3. PICK m : m = n - 2
    OBVIOUS
  <2>4. /\ m \in 0 .. n /\ m + 1 <= n /\ m + 1 = n - 1 /\ (n - 1) - 1 = m
        /\ n <= m + Len(tail)
    BY <1>2, <2>2, <2>3
  <2>5. w = Wire("chunk", SubSeq(body, 1, m) \o tail, m + 1, 0)
    BY <1>2, <1>6, <2>1, <2>4 DEF Trailed
  <2>6. body[m + 1] # "data"
    BY <1>1, <1>2, <2>4
  <2> QED BY <1>4, <2>2, <2>4, <2>5, <2>6
<1> QED BY <1>3, <1>5, <1>6

LEMMA ChunkedWire ==
  ASSUME NEW w \in ChunkedWires
  PROVE  /\ w.type = "chunk" /\ w.bytes \in Seq(Token)
         /\ w.end \in 0 .. Len(w.bytes) /\ w.odd \in 0 .. w.end
         /\ Chopped(w, Starts(w))
<1>1. PICK sizes \in BoundedSeq(Sizes, MaxChunks), b \in {"data", "cr"} :
        LET body == Chunked(sizes, b)
        IN w \in {Wire("chunk", body, 0, extra) : extra \in 0 .. 1}
                   \cup IF b = "data" /\ Len(sizes) <= 1
                          THEN Damaged(body) \cup Extended(body) \cup {Trailed(body)}
                          ELSE {}
  BY DEF ChunkedWires, Sizes
<1>2. b \in Token /\ {"0", "cr", "lf"} \subseteq Token
  BY DEF Token, Digit, Value
<1>3. PICK q, S : Whole(q, S, b) /\ Chunked(sizes, b) = q \o Ending
  BY <1>1, <1>2, Bodies
<1>4. PICK body : body = q \o Ending
  OBVIOUS
<1>5. /\ q \in Seq(Token) /\ S \subseteq Nat /\ 0 \in S
      /\ Ending \in Seq(Token) /\ Len(Ending) = 5
      /\ Ending[1] = "0" /\ Ending[2] = "cr" /\ Ending[3] = "lf"
      /\ Ending[4] = "cr" /\ Ending[5] = "lf"
  BY <1>2, <1>3 DEF Whole, Ending
<1>6. /\ body \in Seq(Token) /\ Len(body) = Len(q) + 5
      /\ \A i \in 1 .. Len(q) : body[i] = q[i]
      /\ \A i \in 1 .. 5 : body[Len(q) + i] = Ending[i]
  <2>1. /\ q \o Ending \in Seq(Token)
        /\ Len(q \o Ending) = Len(q) + Len(Ending)
        /\ \A i \in 1 .. Len(q) : (q \o Ending)[i] = q[i]
        /\ \A i \in 1 .. Len(Ending) : (q \o Ending)[Len(q) + i] = Ending[i]
    <3>1. q \in Seq(Token) /\ Ending \in Seq(Token)
      BY <1>5
    <3> QED BY <3>1, Joined
  <2> QED BY <1>4, <1>5, <2>1
<1>7. w.type = "chunk" /\ Carries(w, body) /\ (w.odd # 0 => b = "data")
  <2>1. CASE w \in {Wire("chunk", body, 0, extra) : extra \in 0 .. 1}
    <3>1. PICK extra \in 0 .. 1 : w = Wire("chunk", body, 0, extra)
      BY <2>1
    <3>2. /\ w.type = "chunk" /\ w.end = Len(body) /\ w.odd = 0
          /\ w.bytes \in Seq(Token) /\ w.end \in 0 .. Len(w.bytes)
          /\ \A i \in 1 .. Len(body) : w.bytes[i] = body[i]
      <4>1. 0 \in 0 .. 1 /\ body \in Seq(Token)
        BY <1>6
      <4>2. Holds(w, "chunk", body, 0)
        BY <3>1, <4>1, OnTheWire
      <4> QED BY <4>2 DEF Holds
    <3>3. Len(body) \in Nat
      BY <1>6
    <3> QED BY <3>2, <3>3 DEF Carries
  <2>2. CASE /\ b = "data"
             /\ w \in Damaged(body) \cup Extended(body) \cup {Trailed(body)}
    <3>1. Len(q) \in Nat /\ Len(body) >= 2 /\ Len(body) - 1 = Len(q) + 4
      BY <1>5, <1>6
    <3>2. body[Len(body) - 1] = "cr"
      <4>1. 4 \in 1 .. 5
        OBVIOUS
      <4> QED BY <1>5, <1>6, <3>1, <4>1
    <3> QED BY <1>6, <2>2, <3>1, <3>2, OddWires
  <2> QED BY <1>1, <1>3, <1>4, <2>1, <2>2
<1>8. /\ w.bytes \in Seq(Token) /\ w.end \in 0 .. Len(w.bytes)
      /\ w.odd \in 0 .. w.end /\ w.odd \in Nat
      /\ w.odd <= Len(body) /\ Len(body) <= w.end
      /\ w.odd = 0 => w.end = Len(body)
      /\ \A i \in 1 .. Len(body) : Is(w, i, body[i])
      /\ w.odd # 0 => w.bytes[w.odd] = "other" /\ body[w.odd] # b
  <2>1. Len(body) \in Nat
    BY <1>6
  <2> QED BY <1>7, <2>1 DEF Carries, Is
<1>10. ASSUME NEW p \in S
       PROVE  LastChunk(w, p) \/ \E d \in Sizes : OneChunk(w, p, d, S)
  <2>1. CASE p = Len(q)
    <3>1. /\ body[p + 1] = "0" /\ body[p + 2] = "cr" /\ body[p + 3] = "lf"
          /\ body[p + 4] = "cr" /\ body[p + 5] = "lf"
          /\ {p + 1, p + 2, p + 3, p + 4, p + 5} \subseteq 1 .. Len(body)
      BY <1>5, <1>6, <2>1
    <3>2. /\ Is(w, p + 1, body[p + 1]) /\ Is(w, p + 2, body[p + 2])
          /\ Is(w, p + 3, body[p + 3]) /\ Is(w, p + 4, body[p + 4])
          /\ Is(w, p + 5, body[p + 5])
      BY <1>8, <3>1
    <3> QED BY <1>6, <1>8, <2>1, <3>1, <3>2 DEF LastChunk
  <2>2. CASE p # Len(q)
    <3>1. PICK d \in Sizes : Chunky(q, p, d, b) /\ p + 6 + Value[d] \in S
      BY <1>3, <2>2 DEF Whole
    <3>2. PICK v : v = Value[d]
      OBVIOUS
    <3>3. /\ v \in 1 .. 2 /\ p \in Nat /\ Len(q) \in Nat
          /\ p + 6 + v <= Len(q)
      BY <1>5, <3>1, <3>2, SizeValues DEF Chunky
    <3>4. /\ {p + 1, p + 2, p + 3, p + 4, p + 5 + v, p + 6 + v}
               \subseteq 1 .. Len(q)
          /\ 1 .. Len(q) \subseteq 1 .. Len(body)
          /\ p + 6 + v < Len(body) /\ p + 6 + v < w.end
          /\ p + 5 .. p + 4 + v \subseteq 1 .. Len(q)
      <4>1. Len(body) = Len(q) + 5 /\ Len(body) <= w.end /\ w.end \in Nat
        BY <1>6, <1>8
      <4> QED BY <3>3, <4>1
    <3>5. /\ body[p + 1] = "0" /\ body[p + 2] = d
          /\ body[p + 3] = "cr" /\ body[p + 4] = "lf"
          /\ body[p + 5 + v] = "cr" /\ body[p + 6 + v] = "lf"
          /\ \A i \in p + 5 .. p + 4 + v : body[i] = b
      BY <1>6, <3>1, <3>2, <3>4 DEF Chunky
    <3>6. /\ Is(w, p + 1, body[p + 1]) /\ Is(w, p + 2, body[p + 2])
          /\ Is(w, p + 3, body[p + 3]) /\ Is(w, p + 4, body[p + 4])
          /\ Is(w, p + 5 + v, body[p + 5 + v])
          /\ Is(w, p + 6 + v, body[p + 6 + v])
      BY <1>8, <3>4
    <3>7. w.odd \notin p + 5 .. p + 4 + v
      <4>1. ASSUME w.odd \in p + 5 .. p + 4 + v PROVE FALSE
        <5>1. w.odd # 0
          BY <3>3, <4>1
        <5> QED BY <1>8, <3>5, <4>1, <5>1
      <4> QED BY <4>1
    <3>8. OneChunk(w, p, d, S)
      BY <3>1, <3>2, <3>4, <3>5, <3>6, <3>7 DEF OneChunk
    <3> QED BY <3>8
  <2> QED BY <2>1, <2>2
<1>11. Chopped(w, S)
  BY <1>5, <1>8, <1>10 DEF Chopped
<1>12. Chopped(w, Starts(w))
  BY <1>11, Zenon DEF Starts
<1> QED BY <1>7, <1>8, <1>12

LEMMA ContentWire ==
  ASSUME NEW w \in ContentWires
  PROVE  /\ w.type = "content" /\ w.bytes \in Seq(Token)
         /\ w.end \in 0 .. Len(w.bytes) /\ w.odd = 0
<1>1. PICK n \in 0 .. MaxContent, extra \in 0 .. 1 :
        w = Wire("content", Bytes(n, "data"), 0, extra)
  BY DEF ContentWires
<1>2. PICK body : body = Bytes(n, "data")
  OBVIOUS
<1>3. n \in Nat /\ "data" \in Token
  BY SizeAssumption DEF Token
<1>4. body \in Seq(Token)
  BY <1>2, <1>3 DEF Bytes
<1>5. w = Wire("content", body, 0, extra)
  BY <1>1, <1>2
<1>6. Holds(w, "content", body, 0)
  BY <1>4, <1>5, OnTheWire
<1> QED BY <1>6 DEF Holds

LEMMA WireTypes ==
  ASSUME NEW w \in Wires
  PROVE  /\ w.type = "chunk" => w \in ChunkedWires /\ Chopped(w, Starts(w))
         /\ w.bytes \in Seq(Token)
         /\ w.end \in 0 .. Len(w.bytes) /\ w.odd \in 0 .. w.end
         /\ w.type # "chunk" => w.odd = 0
<1>1. CASE w \in ChunkedWires
  BY <1>1, ChunkedWire
<1>2. CASE w \in ContentWires
  <2>1. w.type = "content" /\ w.odd = 0 /\ w.bytes \in Seq(Token)
        /\ w.end \in 0 .. Len(w.bytes)
    BY <1>2, ContentWire
  <2>2. w.type # "chunk" /\ 0 \in 0 .. w.end
    BY <2>1
  <2> QED BY <2>1, <2>2
<1> QED BY <1>1, <1>2 DEF Wires

-----------------------------------------------------------------------------
(* The decoder, byte by byte.                                              *)

LEMMA HexRuns ==
  ASSUME NEW hex, NEW f,
         f = [i \in 0 .. Len(hex) |->
                IF i = 0 THEN 0 ELSE 16 * f[i - 1] + Value[hex[i]]]
  PROVE  \E g : /\ g = [i \in 0 .. Len(hex) |->
                          IF i = 0 THEN 0 ELSE 16 * g[i - 1] + Value[hex[i]]]
                /\ l_hex2dec(hex) = g[Len(hex)]
BY Zenon DEF l_hex2dec

(* The sizes that are on the wire.                                         *)
LEMMA HexValues ==
  /\ l_hex2dec(<<"0">>) = 0
  /\ \A d \in Digit : l_hex2dec(<<"0", d>>) = Value[d]
<1>1. \A d \in Digit : Value[d] \in 0 .. 2
  BY DEF Digit, Value
<1>2. Value["0"] = 0 /\ "0" \in Digit
  BY DEF Value, Digit
<1>3. ASSUME NEW hex, NEW n \in 1 .. 2, Len(hex) = n,
             hex[1] = "0", hex[n] \in Digit
      PROVE  l_hex2dec(hex) = Value[hex[n]]
  <2>1. PICK f : f = [i \in 0 .. n |-> IF i = 2 THEN Value[hex[2]] ELSE 0]
    OBVIOUS
  <2>2. ASSUME NEW i \in 0 .. n
        PROVE  f[i] = IF i = 0 THEN 0 ELSE 16 * f[i - 1] + Value[hex[i]]
    <3>1. CASE i = 0
      BY <2>1, <3>1
    <3>2. CASE i = 1
      BY <1>2, <1>3, <2>1, <3>2
    <3>3. CASE i = 2
      <4>1. n = 2 /\ Value[hex[2]] \in 0 .. 2
        BY <1>1, <1>3, <3>3
      <4> QED BY <2>1, <3>3, <4>1
    <3> QED BY <3>1, <3>2, <3>3
  <2>3. f = [i \in 0 .. Len(hex) |->
               IF i = 0 THEN 0 ELSE 16 * f[i - 1] + Value[hex[i]]]
    BY <1>3, <2>1, <2>2
  <2>4. PICK g : /\ g = [i \in 0 .. Len(hex) |->
                           IF i = 0 THEN 0 ELSE 16 * g[i - 1] + Value[hex[i]]]
                 /\ l_hex2dec(hex) = g[Len(hex)]
    BY <2>3, HexRuns
  <2>5. \A i \in 0 .. n :
          g[i] = IF i = 0 THEN 0 ELSE 16 * g[i - 1] + Value[hex[i]]
    BY <1>3, <2>4, Zenon
  <2>6. g[0] = 0 /\ g[1] = 16 * g[0] + Value[hex[1]]
    BY <1>3, <2>5
  <2>7. g[1] = 0
    BY <1>2, <1>3, <2>6
  <2>8. CASE n = 1
    BY <1>2, <1>3, <2>4, <2>7, <2>8
  <2>9. CASE n = 2
    <3>1. g[2] = 16 * g[1] + Value[hex[2]]
      BY <2>5, <2>9
    <3>2. Value[hex[2]] \in 0 .. 2
      BY <1>1, <1>3, <2>9
    <3> QED BY <1>3, <2>4, <2>7, <2>9, <3>1, <3>2
  <2> QED BY <1>3, <2>8, <2>9
<1>4. l_hex2dec(<<"0">>) = Value["0"]
  <2>1. PICK hex : hex = <<"0">>
    OBVIOUS
  <2>2. Len(hex) = 1 /\ hex[1] = "0"
    BY <2>1
  <2>3. l_hex2dec(hex) = Value[hex[1]]
    BY <1>2, <1>3, <2>2
  <2> QED BY <2>1, <2>2, <2>3
<1>5. ASSUME NEW d \in Digit PROVE l_hex2dec(<<"0", d>>) = Value[d]
  <2>1. PICK hex : hex = <<"0", d>>
    OBVIOUS
  <2>2. Len(hex) = 2 /\ hex[1] = "0" /\ hex[2] = d
    BY <2>1
  <2>3. l_hex2dec(hex) = Value[hex[2]]
    BY <1>3, <2>2
  <2> QED BY <2>1, <2>2, <2>3
<1> QED BY <1>2, <1>4, <1>5

(* A byte that is refused, and one that is taken.                          *)
Takes(s, b) == /\ b \in Expected[s.state]
               /\ ~(s.state = "hex_rn" /\ Refused(s.hex))
LEMMA Refusing ==
  ASSUME NEW s \in BodyState, s.rc = "AGAIN", NEW b, ~Takes(s, b)
  PROVE  LET r == Decoded(s, b)
         IN /\ r \in BodyState /\ r.h = s.h /\ r.overread = s.overread
            /\ r.state = s.state /\ r.hex = s.hex /\ r.rc = "ERROR"
<1>1. Decoded(s, b) = [s EXCEPT !.rc = "ERROR"]
  BY DEF Decoded, Takes
<1> QED BY <1>1 DEF BodyState

LEMMA Taking ==
  ASSUME NEW s \in BodyState, s.rc = "AGAIN", NEW b, Takes(s, b),
         NextState(s, b) \in DOMAIN Expected,
         s.state \in {"start", "hex"} /\ b # "cr" => b \in Digit,
         s.state = "hex_rn" => l_hex2dec(s.hex) \in Nat,
         s.state = "part" => s.chunk_need > 0
  PROVE  LET r == Decoded(s, b)
         IN /\ r \in BodyState /\ r.h = s.h /\ r.overread = s.overread
            /\ r.pos = s.pos + 1
            /\ r.state = NextState(s, b)
            /\ r.hex = IF s.state \in {"start", "hex"} /\ b # "cr"
                         THEN Append(s.hex, b)
                       ELSE IF s.state = "hex_rn" THEN <<>> ELSE s.hex
            /\ r.chunk_need = IF s.state = "hex_rn" THEN l_hex2dec(s.hex)
                              ELSE IF s.state = "part" THEN s.chunk_need - 1
                              ELSE s.chunk_need
            /\ r.rc = IF s.state = "last_rn" THEN "DONE" ELSE "AGAIN"
            /\ r.end = IF s.state = "last_rn" THEN s.pos + 1 ELSE s.end
<1>1. PICK st, hx, cn, en, rc :
        /\ st = NextState(s, b)
        /\ hx = IF s.state \in {"start", "hex"} /\ b # "cr"
                  THEN Append(s.hex, b)
                ELSE IF s.state = "hex_rn" THEN <<>> ELSE s.hex
        /\ cn = IF s.state = "hex_rn" THEN l_hex2dec(s.hex)
                ELSE IF s.state = "part" THEN s.chunk_need - 1
                ELSE s.chunk_need
        /\ en = IF s.state = "last_rn" THEN s.pos + 1 ELSE s.end
        /\ rc = IF s.state = "last_rn" THEN "DONE" ELSE "AGAIN"
  OBVIOUS
<1>2. Decoded(s, b) = [s EXCEPT !.state = st, !.hex = hx, !.chunk_need = cn,
                                !.pos = s.pos + 1, !.end = en, !.rc = rc]
  BY <1>1 DEF Decoded, Takes, Passed, BodyState
<1>3. /\ s.hex \in Seq(Digit) /\ s.chunk_need \in Nat /\ s.pos \in Nat
      /\ s.end \in Int
  BY DEF BodyState
<1>4. hx \in Seq(Digit)
  BY <1>1, <1>3
<1>5. /\ st \in DOMAIN Expected /\ cn \in Nat /\ en \in Int
      /\ rc \in {"AGAIN", "DONE"} /\ s.pos + 1 \in Nat
  BY <1>1, <1>3
<1>6. PICK r : r = [s EXCEPT !.state = st, !.hex = hx, !.chunk_need = cn,
                             !.pos = s.pos + 1, !.end = en, !.rc = rc]
  OBVIOUS
<1>7. /\ r \in BodyState /\ r.h = s.h /\ r.overread = s.overread
      /\ r.pos = s.pos + 1 /\ r.state = st /\ r.hex = hx
      /\ r.chunk_need = cn /\ r.rc = rc /\ r.end = en
  BY <1>4, <1>5, <1>6 DEF BodyState
<1> QED BY <1>1, <1>2, <1>6, <1>7

(* A byte in its place is the one the decoder waits for, or something else *)
(* begins there.                                                           *)
OneStep(s, r) ==
  /\ r \in BodyState /\ r.h = s.h /\ r.overread = s.overread
  /\ \/ r.rc = "AGAIN" /\ r.pos = s.pos + 1 /\ Sync(wire, r)
     \/ /\ r.rc = "DONE" /\ r.end = wire.end /\ s.pos + 1 = wire.end
        /\ wire.odd = 0
     \/ r.rc = "ERROR" /\ (wire.odd = s.pos + 1 \/ Upper(wire, s.pos))

LEMMA InPlace ==
  ASSUME Chopped(wire, Starts(wire)), wire.odd \in Nat,
         NEW s \in BodyState, s.rc = "AGAIN", NEW b, b = wire.bytes[s.pos + 1],
         Before(wire, s.pos),
         NEW x, Is(wire, s.pos + 1, x), s.state # "part",
         ASSUME b = x, Takes(s, b), Before(wire, s.pos + 1)
           PROVE OneStep(s, Decoded(s, b)),
         Takes(s, x) \/ (s.state = "hex_rn" /\ Refused(s.hex) /\ Upper(wire, s.pos))
  PROVE  OneStep(s, Decoded(s, b))
<1>1. CASE Takes(s, b)
  <2>1. b # "other"
    BY <1>1 DEF Takes, BodyState, Expected, Digit, Value
  <2>2. wire.odd # s.pos + 1 \/ wire.odd = 0
    BY <2>1 DEF Chopped
  <2>3. Before(wire, s.pos + 1)
    BY <2>2 DEF Before, BodyState
  <2>4. b = x
    BY <2>3 DEF Is
  <2> QED BY <1>1, <2>3, <2>4
<1>2. CASE ~Takes(s, b)
  <2>1. CASE Before(wire, s.pos + 1)
    <3>1. b = x
      BY <2>1 DEF Is
    <3>2. Upper(wire, s.pos)
      BY <1>2, <3>1
    <3> QED BY <1>2, <3>2, Refusing DEF OneStep
  <2>2. CASE ~Before(wire, s.pos + 1)
    <3>1. wire.odd = s.pos + 1
      BY <2>2 DEF Before, BodyState
    <3> QED BY <1>2, <3>1, Refusing DEF OneStep
  <2> QED BY <2>1, <2>2
<1> QED BY <1>1, <1>2

(* The only size that is refused has its digit on the wire.                *)
LEMMA Uppers ==
  ASSUME NEW d, Refused(<<"0", d>>)
  PROVE  d = "B"
<1>1. PICK h : h = <<"0", d>>
  OBVIOUS
<1>2. PICK i \in DOMAIN h : h[i] = "B"
  BY <1>1 DEF Refused, ToSet
<1>3. DOMAIN h = {1, 2} /\ h[1] = "0" /\ h[2] = d
  BY <1>1
<1> QED BY <1>2, <1>3

LEMMA NotUpper == ~Refused(<<"0">>)
<1>1. PICK h : h = <<"0">>
  OBVIOUS
<1>2. DOMAIN h = {1} /\ h[1] = "0"
  BY <1>1
<1> QED BY <1>1, <1>2 DEF Refused, ToSet

LEMMA TakingDigit ==
  ASSUME NEW s \in BodyState, s.rc = "AGAIN", s.state \in {"start", "hex"},
         NEW b \in Digit, Takes(s, b)
  PROVE  LET r == Decoded(s, b)
         IN /\ r \in BodyState /\ r.h = s.h /\ r.overread = s.overread
            /\ r.pos = s.pos + 1 /\ r.state = "hex"
            /\ r.hex = Append(s.hex, b) /\ r.rc = "AGAIN"
<1>1. b # "cr"
  BY DEF Digit, Value
<1>2. NextState(s, b) = "hex" /\ "hex" \in DOMAIN Expected
  BY <1>1 DEF NextState, Expected
<1>3. s.state # "hex_rn" /\ s.state # "part" /\ s.state # "last_rn"
  OBVIOUS
<1>4. PICK r : r = Decoded(s, b)
  OBVIOUS
<1>5. /\ r \in BodyState /\ r.h = s.h /\ r.overread = s.overread
      /\ r.pos = s.pos + 1 /\ r.state = NextState(s, b)
      /\ r.hex = IF s.state \in {"start", "hex"} /\ b # "cr"
                   THEN Append(s.hex, b)
                 ELSE IF s.state = "hex_rn" THEN <<>> ELSE s.hex
      /\ r.rc = IF s.state = "last_rn" THEN "DONE" ELSE "AGAIN"
  <2>1. NextState(s, b) \in DOMAIN Expected
    BY <1>2
  <2> QED BY <1>3, <1>4, <2>1, Taking
<1>6. r.hex = Append(s.hex, b) /\ r.rc = "AGAIN" /\ r.state = "hex"
  BY <1>1, <1>2, <1>3, <1>5
<1> QED BY <1>4, <1>5, <1>6

LEMMA Appended ==
  ASSUME NEW d \in Digit
  PROVE  Append(<<"0">>, d) = <<"0", d>>
<1>1. "0" \in Digit
  BY DEF Digit, Value
<1>2. PICK x, y : x = Append(<<"0">>, d) /\ y = <<"0", d>>
  OBVIOUS
<1>3. x \in Seq(Digit) /\ Len(x) = 2 /\ x[1] = "0" /\ x[2] = d
  BY <1>1, <1>2
<1>4. y \in Seq(Digit) /\ Len(y) = 2 /\ y[1] = "0" /\ y[2] = d
  BY <1>1, <1>2
<1>5. \A i \in 1 .. 2 : x[i] = y[i]
  BY <1>3, <1>4
<1>6. x = y
  BY <1>3, <1>4, <1>5
<1> QED BY <1>2, <1>6

LEMMA OneByte ==
  ASSUME Chopped(wire, Starts(wire)), wire.bytes \in Seq(Token),
         wire.odd \in Nat,
         NEW s \in BodyState, s.rc = "AGAIN", Sync(wire, s),
         s.pos < Len(wire.bytes)
  PROVE  OneStep(s, Decoded(s, wire.bytes[s.pos + 1]))
<1> DEFINE S == Starts(wire)
<1>1. PICK b, p, r : /\ b = wire.bytes[s.pos + 1] /\ p = s.pos
                     /\ r = Decoded(s, b)
  OBVIOUS
<1>2. /\ p \in Nat /\ b \in Token /\ s.hex \in Seq(Digit)
      /\ s.chunk_need \in Nat /\ Before(wire, s.pos)
  BY <1>1 DEF BodyState, Sync
<1>3. /\ S \subseteq Nat
      /\ \A q \in S : LastChunk(wire, q) \/ \E d \in Sizes : OneChunk(wire, q, d, S)
  BY DEF Chopped
<1>4. /\ \A d \in Sizes : Value[d] \in 1 .. 2 /\ d \in Digit
      /\ "0" \in Digit /\ "cr" \notin Digit /\ "0" # "cr"
  BY SizeValues DEF Sizes, Digit, Value
<1> HIDE DEF S
<1>5. CASE s.state = "start" /\ s.hex = <<>> /\ s.pos \in Starts(wire)
  <2>1. Is(wire, s.pos + 1, "0")
    BY <1>3, <1>5 DEF S, LastChunk, OneChunk
  <2>2. Takes(s, "0") /\ NextState(s, "0") = "hex"
    BY <1>4, <1>5 DEF Takes, NextState, Expected
  <2>3. ASSUME b = "0", Takes(s, b), Before(wire, s.pos + 1)
        PROVE  OneStep(s, r)
    <3>1. /\ r \in BodyState /\ r.h = s.h /\ r.overread = s.overread
          /\ r.pos = s.pos + 1 /\ r.state = "hex" /\ r.hex = Append(s.hex, b)
          /\ r.rc = "AGAIN"
      <4>1. b \in Digit /\ s.state \in {"start", "hex"}
        BY <1>4, <1>5, <2>3
      <4> QED BY <1>1, <2>3, <4>1, TakingDigit
    <3>2. r.hex = <<"0">>
      BY <1>5, <2>3, <3>1
    <3>3. r.pos - 1 = s.pos
      BY <1>1, <1>2, <3>1
    <3> QED BY <1>5, <3>1, <3>2, <3>3, <2>3 DEF OneStep, Sync, Placed
  <2> QED BY <1>1, <1>2, <1>5, <2>1, <2>2, <2>3, InPlace
<1>6. CASE s.state = "hex" /\ s.hex = <<"0">> /\ s.pos - 1 \in Starts(wire)
  <2>1. PICK q : q = s.pos - 1
    OBVIOUS
  <2>2. /\ q \in S /\ q \in Nat /\ s.pos + 1 = q + 2 /\ s.pos = q + 1
    BY <1>1, <1>2, <1>3, <1>6, <2>1 DEF S
  <2>3. CASE LastChunk(wire, q)
    <3>1. Is(wire, s.pos + 1, "cr")
      BY <2>2, <2>3 DEF LastChunk
    <3>2. Takes(s, "cr") /\ NextState(s, "cr") = "hex_rn"
      BY <1>6 DEF Takes, NextState, Expected
    <3>3. ASSUME b = "cr", Takes(s, b), Before(wire, s.pos + 1)
        PROVE  OneStep(s, r)
      <4>1. /\ r \in BodyState /\ r.h = s.h /\ r.overread = s.overread
            /\ r.pos = s.pos + 1 /\ r.state = "hex_rn" /\ r.hex = s.hex
            /\ r.rc = "AGAIN"
        BY <1>1, <1>6, <3>2, <3>3, Taking DEF Expected
      <4>2. r.pos - 2 = q
        BY <2>2, <4>1
      <4>3. AtLast(wire, r, 2) /\ r.hex = <<"0">>
        BY <1>6, <2>2, <2>3, <4>1, <4>2 DEF AtLast, S
      <4> QED BY <4>1, <4>3, <3>3 DEF OneStep, Sync, Placed
    <3> QED BY <1>1, <1>2, <1>6, <3>1, <3>2, <3>3, InPlace
  <2>4. CASE \E d \in Sizes : OneChunk(wire, q, d, S)
    <3>1. PICK d \in Sizes : OneChunk(wire, q, d, S)
      BY <2>4
    <3>2. Is(wire, s.pos + 1, d)
      BY <2>2, <3>1 DEF OneChunk
    <3>3. d \in Digit /\ d # "cr"
      BY <1>4
    <3>4. Takes(s, d) /\ NextState(s, d) = "hex"
      BY <1>6, <3>3 DEF Takes, NextState, Expected
    <3>5. ASSUME b = d, Takes(s, b), Before(wire, s.pos + 1)
        PROVE  OneStep(s, r)
      <4>1. /\ r \in BodyState /\ r.h = s.h /\ r.overread = s.overread
            /\ r.pos = s.pos + 1 /\ r.state = "hex"
            /\ r.hex = Append(s.hex, d) /\ r.rc = "AGAIN"
        <5>1. b \in Digit /\ b = d /\ s.state \in {"start", "hex"}
          BY <1>6, <3>3, <3>5
        <5> QED BY <1>1, <3>5, <5>1, TakingDigit
      <4>2. r.hex = <<"0", d>>
        BY <1>6, <3>3, <4>1, Appended
      <4>3. r.pos - 2 = q
        BY <2>2, <4>1
      <4>4. AtChunk(wire, r, 2)
        BY <2>2, <3>1, <4>2, <4>3 DEF AtChunk, S
      <4> QED BY <4>1, <4>4, <3>5 DEF OneStep, Sync, Placed
    <3> QED BY <1>1, <1>2, <1>6, <3>2, <3>4, <3>5, InPlace
  <2> QED BY <1>3, <2>2, <2>3, <2>4
<1>7. CASE s.state = "hex" /\ AtChunk(wire, s, 2)
  <2>1. PICK q : q = s.pos - 2
    OBVIOUS
  <2>2. PICK d \in Sizes : q \in S /\ OneChunk(wire, q, d, S) /\ s.hex = <<"0", d>>
    BY <1>7, <2>1 DEF AtChunk, S
  <2>3. q \in Nat /\ s.pos = q + 2 /\ s.pos + 1 = q + 3
    BY <1>1, <1>2, <1>3, <2>1, <2>2
  <2>4. Is(wire, s.pos + 1, "cr")
    BY <2>2, <2>3 DEF OneChunk
  <2>5. Takes(s, "cr") /\ NextState(s, "cr") = "hex_rn"
    BY <1>7 DEF Takes, NextState, Expected
  <2>6. ASSUME b = "cr", Takes(s, b), Before(wire, s.pos + 1)
        PROVE  OneStep(s, r)
    <3>1. /\ r \in BodyState /\ r.h = s.h /\ r.overread = s.overread
          /\ r.pos = s.pos + 1 /\ r.state = "hex_rn" /\ r.hex = s.hex
          /\ r.rc = "AGAIN"
      BY <1>1, <1>7, <2>5, <2>6, Taking DEF Expected
    <3>2. r.pos - 3 = q
      BY <2>3, <3>1
    <3>3. AtChunk(wire, r, 3)
      BY <2>2, <3>1, <3>2 DEF AtChunk, S
    <3> QED BY <3>1, <3>3, <2>6 DEF OneStep, Sync, Placed
  <2> QED BY <1>1, <1>2, <1>7, <2>4, <2>5, <2>6, InPlace
<1>8. CASE s.state = "hex_rn" /\ AtChunk(wire, s, 3)
  <2>1. PICK q : q = s.pos - 3
    OBVIOUS
  <2>2. PICK d \in Sizes : q \in S /\ OneChunk(wire, q, d, S) /\ s.hex = <<"0", d>>
    BY <1>8, <2>1 DEF AtChunk, S
  <2>3. q \in Nat /\ s.pos = q + 3 /\ s.pos + 1 = q + 4
    BY <1>1, <1>2, <1>3, <2>1, <2>2
  <2>4. Is(wire, s.pos + 1, "lf")
    BY <2>2, <2>3 DEF OneChunk
  <2>5. \/ Takes(s, "lf")
        \/ s.state = "hex_rn" /\ Refused(s.hex) /\ Upper(wire, s.pos)
    <3>1. ASSUME Refused(s.hex) PROVE Upper(wire, s.pos)
      <4>1. d = "B"
        BY <2>2, <3>1, Uppers
      <4>2. Before(wire, q + 2) /\ q + 2 \in 1 .. s.pos
        BY <1>2, <2>3 DEF Before
      <4>3. wire.bytes[q + 2] = "B"
        BY <2>2, <4>1, <4>2 DEF OneChunk, Is
      <4> QED BY <4>2, <4>3 DEF Upper
    <3>2. "lf" \in Expected[s.state]
      BY <1>8 DEF Expected
    <3> QED BY <1>8, <3>1, <3>2 DEF Takes
  <2>6. l_hex2dec(s.hex) = Value[d] /\ Value[d] \in 1 .. 2
    BY <1>4, <2>2, HexValues
  <2>7. NextState(s, "lf") = "part"
    BY <1>8, <2>6 DEF NextState
  <2>8. ASSUME b = "lf", Takes(s, b), Before(wire, s.pos + 1)
        PROVE  OneStep(s, r)
    <3>1. /\ r \in BodyState /\ r.h = s.h /\ r.overread = s.overread
          /\ r.pos = s.pos + 1 /\ r.state = "part" /\ r.hex = <<>>
          /\ r.chunk_need = Value[d] /\ r.rc = "AGAIN"
      BY <1>1, <1>8, <2>6, <2>7, <2>8, Taking DEF Expected
    <3>2. r.pos + r.chunk_need = q + 4 + Value[d] /\ r.chunk_need \in 1 .. Value[d]
      BY <2>3, <2>6, <3>1
    <3>3. AmongData(wire, r)
      BY <2>2, <3>1, <3>2 DEF AmongData, S
    <3> QED BY <3>1, <3>3, <2>8 DEF OneStep, Sync, Placed
  <2> QED BY <1>1, <1>2, <1>8, <2>4, <2>5, <2>8, InPlace
<1>9. CASE s.state = "hex_rn" /\ s.hex = <<"0">> /\ AtLast(wire, s, 2)
  <2>1. PICK q : q = s.pos - 2
    OBVIOUS
  <2>2. q \in S /\ LastChunk(wire, q)
    BY <1>9, <2>1 DEF AtLast, S
  <2>3. q \in Nat /\ s.pos = q + 2 /\ s.pos + 1 = q + 3
    BY <1>1, <1>2, <1>3, <2>1, <2>2
  <2>4. Is(wire, s.pos + 1, "lf")
    BY <2>2, <2>3 DEF LastChunk
  <2>5. Takes(s, "lf")
    BY <1>9, NotUpper DEF Takes, Expected
  <2>6. l_hex2dec(s.hex) = 0
    BY <1>9, HexValues
  <2>7. NextState(s, "lf") = "last_r"
    BY <1>9, <2>6 DEF NextState
  <2>8. ASSUME b = "lf", Takes(s, b), Before(wire, s.pos + 1)
        PROVE  OneStep(s, r)
    <3>1. /\ r \in BodyState /\ r.h = s.h /\ r.overread = s.overread
          /\ r.pos = s.pos + 1 /\ r.state = "last_r" /\ r.hex = <<>>
          /\ r.rc = "AGAIN"
      BY <1>1, <1>9, <2>6, <2>7, <2>8, Taking DEF Expected
    <3>2. r.pos - 3 = q
      BY <2>3, <3>1
    <3>3. AtLast(wire, r, 3)
      BY <2>2, <3>2 DEF AtLast, S
    <3> QED BY <3>1, <3>3, <2>8 DEF OneStep, Sync, Placed
  <2> QED BY <1>1, <1>2, <1>9, <2>4, <2>5, <2>8, InPlace
<1>10. CASE s.state = "part" /\ AmongData(wire, s)
  <2>1. PICK q \in S, d \in Sizes :
          /\ OneChunk(wire, q, d, S) /\ s.chunk_need \in 1 .. Value[d]
          /\ s.pos + s.chunk_need = q + 4 + Value[d]
    BY <1>10 DEF AmongData, S
  <2>2. Takes(s, b)
    BY <1>2, <1>10 DEF Takes, Expected
  <2>3. /\ q \in Nat /\ Value[d] \in 1 .. 2 /\ s.hex = <<>>
        /\ s.chunk_need > 0
    BY <1>3, <1>4, <1>10, <2>1 DEF AmongData
  <2>4. NextState(s, b) = IF s.chunk_need = 1 THEN "part_r" ELSE "part"
    BY <1>10 DEF NextState
  <2>5. /\ r \in BodyState /\ r.h = s.h /\ r.overread = s.overread
        /\ r.pos = s.pos + 1 /\ r.hex = s.hex /\ r.rc = "AGAIN"
        /\ r.state = IF s.chunk_need = 1 THEN "part_r" ELSE "part"
        /\ r.chunk_need = s.chunk_need - 1
    BY <1>1, <1>10, <2>2, <2>3, <2>4, Taking DEF Expected
  <2>8. Before(wire, r.pos)
    <3>1. PICK v \in 1 .. 2 : v = Value[d]
      BY <2>3
    <3>2. s.pos + 1 \in q + 5 .. q + 4 + v
      BY <1>1, <1>2, <2>1, <2>3, <3>1
    <3>3. wire.odd # s.pos + 1
      BY <2>1, <3>1, <3>2 DEF OneChunk
    <3> QED BY <1>1, <1>2, <2>5, <3>3 DEF Before
  <2>6. CASE s.chunk_need = 1
    <3>1. r.pos = q + 4 + Value[d]
      BY <1>1, <1>2, <2>1, <2>3, <2>5, <2>6
    <3>2. BehindData(wire, r, 4)
      BY <2>1, <2>3, <2>5, <3>1 DEF BehindData, S
    <3> QED BY <1>1, <2>5, <2>6, <2>8, <3>2 DEF OneStep, Sync, Placed
  <2>7. CASE s.chunk_need # 1
    <3>1. /\ r.chunk_need \in 1 .. Value[d]
          /\ r.pos + r.chunk_need = q + 4 + Value[d]
      BY <1>1, <1>2, <2>1, <2>3, <2>5, <2>7
    <3>2. AmongData(wire, r)
      BY <2>1, <2>3, <2>5, <3>1 DEF AmongData, S
    <3> QED BY <1>1, <2>5, <2>7, <2>8, <3>2 DEF OneStep, Sync, Placed
  <2> QED BY <2>6, <2>7
<1>11. CASE s.state = "part_r" /\ BehindData(wire, s, 4)
  <2>1. PICK q \in S, d \in Sizes :
          OneChunk(wire, q, d, S) /\ s.pos = q + 4 + Value[d]
    BY <1>11 DEF BehindData, S
  <2>2. /\ q \in Nat /\ Value[d] \in 1 .. 2 /\ s.hex = <<>>
        /\ s.pos + 1 = q + 5 + Value[d]
    BY <1>3, <1>4, <1>11, <2>1 DEF BehindData
  <2>3. Is(wire, s.pos + 1, "cr")
    BY <2>1, <2>2 DEF OneChunk
  <2>4. Takes(s, "cr") /\ NextState(s, "cr") = "part_rn"
    BY <1>11 DEF Takes, NextState, Expected
  <2>5. ASSUME b = "cr", Takes(s, b), Before(wire, s.pos + 1)
        PROVE  OneStep(s, r)
    <3>1. /\ r \in BodyState /\ r.h = s.h /\ r.overread = s.overread
          /\ r.pos = s.pos + 1 /\ r.state = "part_rn" /\ r.hex = s.hex
          /\ r.rc = "AGAIN"
      BY <1>1, <1>11, <2>4, <2>5, Taking DEF Expected
    <3>2. BehindData(wire, r, 5)
      BY <2>1, <2>2, <3>1 DEF BehindData, S
    <3> QED BY <3>1, <3>2, <2>5 DEF OneStep, Sync, Placed
  <2> QED BY <1>1, <1>2, <1>11, <2>3, <2>4, <2>5, InPlace
<1>12. CASE s.state = "part_rn" /\ BehindData(wire, s, 5)
  <2>1. PICK q \in S, d \in Sizes :
          OneChunk(wire, q, d, S) /\ s.pos = q + 5 + Value[d]
    BY <1>12 DEF BehindData, S
  <2>2. /\ q \in Nat /\ Value[d] \in 1 .. 2 /\ s.hex = <<>>
        /\ s.pos + 1 = q + 6 + Value[d]
    BY <1>3, <1>4, <1>12, <2>1 DEF BehindData
  <2>3. Is(wire, s.pos + 1, "lf")
    BY <2>1, <2>2 DEF OneChunk
  <2>4. Takes(s, "lf") /\ NextState(s, "lf") = "start"
    BY <1>12 DEF Takes, NextState, Expected
  <2>5. ASSUME b = "lf", Takes(s, b), Before(wire, s.pos + 1)
        PROVE  OneStep(s, r)
    <3>1. /\ r \in BodyState /\ r.h = s.h /\ r.overread = s.overread
          /\ r.pos = s.pos + 1 /\ r.state = "start" /\ r.hex = s.hex
          /\ r.rc = "AGAIN"
      BY <1>1, <1>12, <2>4, <2>5, Taking DEF Expected
    <3>2. r.pos \in S
      BY <2>1, <2>2, <3>1 DEF OneChunk
    <3> QED BY <2>2, <3>1, <3>2, <2>5 DEF OneStep, Sync, Placed, S
  <2> QED BY <1>1, <1>2, <1>12, <2>3, <2>4, <2>5, InPlace
<1>13. CASE s.state = "last_r" /\ s.hex = <<>> /\ AtLast(wire, s, 3)
  <2>1. PICK q : q = s.pos - 3
    OBVIOUS
  <2>2. q \in S /\ LastChunk(wire, q)
    BY <1>13, <2>1 DEF AtLast, S
  <2>3. q \in Nat /\ s.pos = q + 3 /\ s.pos + 1 = q + 4
    BY <1>1, <1>2, <1>3, <2>1, <2>2
  <2>4. Is(wire, s.pos + 1, "cr")
    BY <2>2, <2>3 DEF LastChunk
  <2>5. Takes(s, "cr") /\ NextState(s, "cr") = "last_rn"
    BY <1>13 DEF Takes, NextState, Expected
  <2>6. ASSUME b = "cr", Takes(s, b), Before(wire, s.pos + 1)
        PROVE  OneStep(s, r)
    <3>1. /\ r \in BodyState /\ r.h = s.h /\ r.overread = s.overread
          /\ r.pos = s.pos + 1 /\ r.state = "last_rn" /\ r.hex = s.hex
          /\ r.rc = "AGAIN"
      BY <1>1, <1>13, <2>5, <2>6, Taking DEF Expected
    <3>2. r.pos - 4 = q
      BY <2>3, <3>1
    <3>3. AtLast(wire, r, 4)
      BY <2>2, <3>2 DEF AtLast, S
    <3> QED BY <1>13, <3>1, <3>3, <2>6 DEF OneStep, Sync, Placed
  <2> QED BY <1>1, <1>2, <1>13, <2>4, <2>5, <2>6, InPlace
<1>14. CASE s.state = "last_rn" /\ s.hex = <<>> /\ AtLast(wire, s, 4)
  <2>1. PICK q : q = s.pos - 4
    OBVIOUS
  <2>2. q \in S /\ LastChunk(wire, q)
    BY <1>14, <2>1 DEF AtLast, S
  <2>3. q \in Nat /\ s.pos = q + 4 /\ s.pos + 1 = q + 5
    BY <1>1, <1>2, <1>3, <2>1, <2>2
  <2>4. /\ Is(wire, s.pos + 1, "lf") /\ wire.odd <= q + 5
        /\ wire.odd = 0 => wire.end = q + 5
    BY <2>2, <2>3 DEF LastChunk
  <2>5. Takes(s, "lf") /\ NextState(s, "lf") = "start"
    BY <1>14 DEF Takes, NextState, Expected
  <2>6. ASSUME b = "lf", Takes(s, b), Before(wire, s.pos + 1)
        PROVE  OneStep(s, r)
    <3>1. /\ r \in BodyState /\ r.h = s.h /\ r.overread = s.overread
          /\ r.rc = "DONE" /\ r.end = s.pos + 1
      BY <1>1, <1>14, <2>5, <2>6, Taking DEF Expected
    <3>2. wire.odd = 0
      BY <2>3, <2>4, <2>6 DEF Before
    <3> QED BY <2>3, <2>4, <3>1, <3>2 DEF OneStep
  <2> QED BY <1>1, <1>2, <1>14, <2>4, <2>5, <2>6, InPlace
<1> QED
  BY <1>1, <1>5, <1>6, <1>7, <1>8, <1>9, <1>10, <1>11, <1>12, <1>13, <1>14
     DEF Sync, Placed

-----------------------------------------------------------------------------
(* The decoder, over all it is given.                                      *)

(* The loop is what its recursion says.                                    *)
Turn(k, n, g) == [i \in k.pos .. n |->
                    IF i = k.pos THEN {k}
                    ELSE {Decoded(s, wire.bytes[i]) : s \in g[i - 1]}]
Stops(s, room) ==
  IF s.rc = "AGAIN" /\ s.state = "part_r" THEN Overread(s, room) ELSE {s}

LEMMA DecodeRuns ==
  ASSUME NEW k, NEW n, NEW room, NEW f, f = Turn(k, n, f)
  PROVE  \E g : /\ g = Turn(k, n, g)
                /\ decode_chunk(k, n, room) = UNION {Stops(s, room) : s \in g[n]}
BY Zenon DEF decode_chunk, Turn, Stops

LEMMA Loop ==
  ASSUME NEW k, NEW n \in Nat, k.pos \in Nat, k.pos <= n, NEW room
  PROVE  \E g : /\ g = Turn(k, n, g)
                /\ decode_chunk(k, n, room) = UNION {Stops(s, room) : s \in g[n]}
<1> DEFINE M == {m \in Nat : \E g : g = Turn(k, k.pos + m, g)}
<1>1. 0 \in M
  <2>1. PICK g : g = [i \in k.pos .. k.pos + 0 |-> {k}]
    OBVIOUS
  <2>2. \A i \in k.pos .. k.pos + 0 : i = k.pos
    OBVIOUS
  <2>3. g = Turn(k, k.pos + 0, g)
    BY <2>1, <2>2 DEF Turn
  <2> QED BY <2>3
<1>2. ASSUME NEW m \in Nat, m \in M PROVE m + 1 \in M
  <2>1. PICK g : g = Turn(k, k.pos + m, g)
    BY <1>2
  <2>2. PICK p, q : p = k.pos + m /\ q = k.pos + (m + 1)
    OBVIOUS
  <2>3. /\ p \in Nat /\ q = p + 1 /\ q - 1 = p /\ q # k.pos
        /\ k.pos .. q = (k.pos .. p) \cup {q}
        /\ q \notin k.pos .. p /\ p \in k.pos .. p
    BY <2>2
  <2>4. g = [i \in k.pos .. p |->
               IF i = k.pos THEN {k}
               ELSE {Decoded(s, wire.bytes[i]) : s \in g[i - 1]}]
    BY <2>1, <2>2 DEF Turn
  <2>5. PICK x : x = {Decoded(s, wire.bytes[q]) : s \in g[p]}
    OBVIOUS
  <2>6. PICK f : f = [i \in k.pos .. q |-> IF i = q THEN x ELSE g[i]]
    OBVIOUS
  <2>7. ASSUME NEW i \in k.pos .. q
        PROVE  f[i] = IF i = k.pos THEN {k}
                      ELSE {Decoded(s, wire.bytes[i]) : s \in f[i - 1]}
    <3>1. CASE i = q
      <4>1. f[i] = x /\ f[i - 1] = g[p] /\ i # k.pos
        BY <2>3, <2>6, <3>1
      <4> QED BY <2>5, <3>1, <4>1
    <3>2. CASE i # q
      <4>1. i \in k.pos .. p /\ f[i] = g[i]
        BY <2>3, <2>6, <3>2
      <4>2. g[i] = IF i = k.pos THEN {k}
                   ELSE {Decoded(s, wire.bytes[i]) : s \in g[i - 1]}
        BY <2>4, <4>1, Zenon
      <4>3. i # k.pos => f[i - 1] = g[i - 1]
        BY <2>3, <2>6, <4>1
      <4> QED BY <4>1, <4>2, <4>3
    <3> QED BY <3>1, <3>2
  <2>8. f = [i \in k.pos .. q |->
               IF i = k.pos THEN {k}
               ELSE {Decoded(s, wire.bytes[i]) : s \in f[i - 1]}]
    BY <2>6, <2>7, Zenon
  <2>9. f = Turn(k, k.pos + (m + 1), f)
    BY <2>2, <2>8 DEF Turn
  <2>10. m + 1 \in Nat
    OBVIOUS
  <2> QED BY <2>9, <2>10, Zenon
<1>3. n - k.pos \in M
  <2> HIDE DEF M
  <2>1. n - k.pos \in Nat
    OBVIOUS
  <2> QED BY <1>1, <1>2, <2>1, Induct
<1>4. k.pos + (n - k.pos) = n
  OBVIOUS
<1>5. \E g : g = Turn(k, k.pos + (n - k.pos), g)
  BY <1>3
<1>6. PICK f : f = Turn(k, n, f)
  BY <1>4, <1>5
<1> QED BY <1>6, DecodeRuns

(* What it may answer to what it was given up to n.                        *)
Answer(s, n, room) ==
  /\ s \in BodyState
  /\ s.rc = "AGAIN" =>
       \/ ~s.overread /\ Sync(wire, s) /\ s.pos = n
       \/ Astray(wire, s, n) /\ s.pos = n + 1 /\ room = 0
  /\ s.rc = "DONE" => s.end = wire.end /\ n >= wire.end /\ wire.odd = 0
  /\ s.rc = "ERROR" => Damage(wire, s, n)

LEMMA Decodes ==
  ASSUME wire \in ChunkedWires, NEW k \in BodyState, k.rc = "AGAIN",
         NEW n \in Nat, n <= Len(wire.bytes), k.pos <= n, NEW room \in Nat,
         \/ ~k.overread /\ Sync(wire, k)
         \/ Astray(wire, k, k.pos) /\ k.pos < n,
         NEW a \in decode_chunk(k, n, room)
  PROVE  Answer(a, n, room) /\ a.h = k.h
<1> DEFINE Midway(s, j) ==
             /\ s \in BodyState /\ s.h = k.h
             /\ s.rc = "AGAIN" => \/ ~s.overread /\ Sync(wire, s) /\ s.pos = j
                                  \/ s = k /\ j = k.pos
             /\ s.rc = "DONE" =>
                  s.end = wire.end /\ j >= wire.end /\ wire.odd = 0
             /\ s.rc = "ERROR" => Damage(wire, s, j)
<1>1. /\ Chopped(wire, Starts(wire)) /\ wire.bytes \in Seq(Token)
      /\ wire.end \in Nat /\ wire.odd \in Nat /\ Len(wire.bytes) \in Nat
  BY ChunkedWire
<1>2. k.pos \in Nat
  BY DEF BodyState
<1>3. PICK g : /\ g = Turn(k, n, g)
               /\ decode_chunk(k, n, room) = UNION {Stops(s, room) : s \in g[n]}
  BY <1>2, Loop
<1>4. \A i \in k.pos .. n :
        g[i] = IF i = k.pos THEN {k}
               ELSE {Decoded(s, wire.bytes[i]) : s \in g[i - 1]}
  BY <1>3, Zenon DEF Turn
<1>5. ASSUME NEW j \in Nat, j >= k.pos, j < n, NEW s, Midway(s, j)
      PROVE  Midway(Decoded(s, wire.bytes[j + 1]), j + 1)
  <2>1. PICK r : r = Decoded(s, wire.bytes[j + 1])
    OBVIOUS
  <2>2. CASE s.rc # "AGAIN"
    <3>1. r = s
      BY <2>1, <2>2 DEF Decoded
    <3>2. Damage(wire, s, j) => Damage(wire, s, j + 1)
      BY <1>1, <1>5 DEF Damage, Upper
    <3> QED BY <1>1, <1>5, <2>1, <2>2, <3>1, <3>2 DEF BodyState
  <2>3. CASE s.rc = "AGAIN" /\ ~s.overread /\ Sync(wire, s) /\ s.pos = j
    <3>1. OneStep(s, r)
      BY <1>1, <1>5, <2>1, <2>3, OneByte
    <3>2. r.rc = "ERROR" => Damage(wire, r, j + 1)
      BY <1>1, <1>5, <2>3, <3>1 DEF OneStep, Damage, Upper
    <3> QED BY <1>1, <1>5, <2>1, <2>3, <3>1, <3>2 DEF OneStep
  <2>4. CASE s.rc = "AGAIN" /\ s = k /\ j = k.pos /\ Astray(wire, k, k.pos)
    <3>1. ~Takes(s, wire.bytes[j + 1])
      BY <2>4 DEF Astray, Takes, Expected
    <3>2. r \in BodyState /\ r.h = s.h /\ r.overread /\ r.rc = "ERROR"
      BY <2>1, <2>4, <3>1, Refusing DEF Astray
    <3> QED BY <2>1, <2>4, <3>2 DEF Damage
  <2> QED BY <1>5, <2>2, <2>3, <2>4
<1> DEFINE M == {m \in Nat : k.pos + m <= n =>
                               \A s \in g[k.pos + m] : Midway(s, k.pos + m)}
<1>6. 0 \in M
  <2>1. k.pos + 0 = k.pos /\ k.pos \in k.pos .. n
    BY <1>2
  <2>2. g[k.pos] = {k}
    BY <1>4, <2>1
  <2>3. Midway(k, k.pos)
    OBVIOUS
  <2> HIDE DEF Midway
  <2> QED BY <2>1, <2>2, <2>3
<1>7. ASSUME NEW m \in Nat, m \in M PROVE m + 1 \in M
  <2> SUFFICES ASSUME k.pos + (m + 1) <= n, NEW r \in g[k.pos + (m + 1)]
               PROVE  Midway(r, k.pos + (m + 1))
    OBVIOUS
  <2>1. PICK j : j = k.pos + m
    OBVIOUS
  <2>2. /\ j \in Nat /\ j >= k.pos /\ j < n /\ j + 1 = k.pos + (m + 1)
        /\ j + 1 \in k.pos .. n /\ j + 1 # k.pos /\ (j + 1) - 1 = j
    BY <1>2, <2>1
  <2>3. g[j + 1] = {Decoded(s, wire.bytes[j + 1]) : s \in g[j]}
    BY <1>4, <2>2
  <2>4. PICK s \in g[j] : r = Decoded(s, wire.bytes[j + 1])
    BY <2>2, <2>3
  <2> HIDE DEF Midway
  <2>5. Midway(s, j)
    BY <1>7, <2>1, <2>2, <2>4
  <2>6. Midway(r, j + 1)
    BY <1>5, <2>2, <2>4, <2>5
  <2> QED BY <2>2, <2>6
<1>8. \A s \in g[n] : Midway(s, n)
  <2>1. n - k.pos \in Nat /\ k.pos + (n - k.pos) = n
    BY <1>2
  <2> HIDE DEF M, Midway
  <2>2. n - k.pos \in M
    BY <1>6, <1>7, <2>1, Induct
  <2> QED BY <2>1, <2>2 DEF M
<1>9. PICK s \in g[n] : a \in Stops(s, room)
  BY <1>3
<1>10. Midway(s, n)
  BY <1>8, <1>9
<1>11. CASE ~(s.rc = "AGAIN" /\ s.state = "part_r")
  <2>1. a = s
    BY <1>9, <1>11 DEF Stops
  <2>2. s.rc = "AGAIN" => ~s.overread /\ Sync(wire, s) /\ s.pos = n
    BY <1>10
  <2> QED BY <1>10, <2>1, <2>2 DEF Answer
<1>12. CASE s.rc = "AGAIN" /\ s.state = "part_r"
  <2>1. a \in Overread(s, room)
    BY <1>9, <1>12 DEF Stops
  <2>2. ~s.overread /\ Sync(wire, s) /\ s.pos = n /\ s \in BodyState /\ s.h = k.h
    BY <1>10, <1>12 DEF Astray
  <2>3. CASE a = [s EXCEPT !.rc = "ERROR", !.overread = TRUE]
    BY <2>2, <2>3 DEF BodyState, Answer, Damage
  <2>4. CASE /\ a = [s EXCEPT !.state = "part_rn", !.pos = @ + 1,
                              !.overread = TRUE]
             /\ ~(room > 0)
    <3>1. BehindData(wire, s, 4)
      BY <1>12, <2>2 DEF Sync, Placed
    <3>2. PICK q \in Starts(wire), d \in Sizes :
            OneChunk(wire, q, d, Starts(wire)) /\ n = q + 4 + Value[d]
      BY <2>2, <3>1 DEF BehindData
    <3>3. q \in Nat /\ Value[d] \in 1 .. 2 /\ n + 1 = q + 5 + Value[d]
      BY <1>1, <3>2, SizeValues DEF Chopped
    <3>4. wire.bytes[n + 1] # "lf"
      <4>1. Is(wire, n + 1, "cr") /\ Before(wire, n)
        BY <2>2, <3>2, <3>3 DEF OneChunk, Sync
      <4>2. CASE wire.odd = n + 1
        BY <1>1, <3>3, <4>2 DEF Chopped
      <4>3. CASE wire.odd # n + 1
        BY <1>1, <4>1, <4>3 DEF Is, Before
      <4> QED BY <4>2, <4>3
    <3>5. n < Len(wire.bytes)
      <4>1. wire.end <= Len(wire.bytes)
        BY ChunkedWire
      <4>2. q + 6 + Value[d] < wire.end
        BY <3>2 DEF OneChunk
      <4>3. PICK v \in 1 .. 2 : v = Value[d]
        BY <3>3
      <4>4. n + 1 = q + 5 + v /\ q + 6 + v < wire.end
        BY <3>3, <4>2, <4>3
      <4> QED BY <1>1, <3>3, <4>1, <4>3, <4>4
    <3>6. /\ a \in BodyState /\ a.h = s.h /\ a.rc = "AGAIN" /\ a.overread
          /\ a.state = "part_rn" /\ a.hex = s.hex /\ a.pos = n + 1
      <4>1. "part_rn" \in DOMAIN Expected
        BY DEF Expected
      <4>2. s.pos + 1 \in Nat /\ s.pos + 1 = n + 1
        BY <2>2 DEF BodyState
      <4> HIDE DEF Expected
      <4> QED BY <1>12, <2>2, <2>4, <4>1, <4>2 DEF BodyState
    <3>7. Astray(wire, a, n)
      BY <2>2, <3>4, <3>5, <3>6 DEF Astray, BodyState
    <3> QED BY <2>2, <2>4, <3>6, <3>7 DEF Answer
  <2> QED BY <2>1, <2>3, <2>4 DEF Overread
<1> QED BY <1>11, <1>12

-----------------------------------------------------------------------------
(* The buffers.                                                            *)

LEMMA NoLinks == \A n : Links(<<>>, n, n)
BY DEF Links

LEMMA LinkEnds ==
  ASSUME NEW c, NEW s, NEW n, Links(c, s, n), c # <<>>
  PROVE  /\ Len(c) \in Nat \ {0} /\ 1 \in 1 .. Len(c) /\ Len(c) \in 1 .. Len(c)
         /\ c[1] \in Meta /\ c[Len(c)] \in Meta /\ Head(c) = c[1]
         /\ c[1].pos = s /\ c[Len(c)].last = n
<1>1. c \in Seq(Meta) /\ Len(c) \in Nat /\ Len(c) # 0
  BY DEF Links
<1>2. 1 \in 1 .. Len(c) /\ Len(c) \in 1 .. Len(c)
  BY <1>1
<1> QED BY <1>1, <1>2 DEF Links

(* A new buffer behind full ones.                                          *)
LEMMA LinksMore ==
  ASSUME NEW c, NEW s \in Nat, NEW n \in Nat, Links(c, s, n),
         c # <<>> => c[Len(c)].room = 0,
         NEW z, z = Append(c, NewMeta(n, Buffer))
  PROVE  Links(z, s, n) /\ z # <<>> /\ z[Len(z)].room = Buffer
<1>1. PICK e : e = NewMeta(n, Buffer)
  OBVIOUS
<1>2. e \in Meta /\ e.pos = n /\ e.last = n /\ e.room = Buffer
  BY <1>1, SizeAssumption DEF NewMeta, Meta
<1>3. PICK m \in Nat : m = Len(c)
  BY DEF Links
<1>4. /\ z \in Seq(Meta) /\ Len(z) = m + 1 /\ z[m + 1] = e
      /\ \A i \in 1 .. m : z[i] = c[i]
  BY <1>1, <1>2, <1>3 DEF Links
<1>5. \A i \in 1 .. m + 1 : z[i].pos <= z[i].last /\ z[i].last <= n
  BY <1>2, <1>3, <1>4 DEF Links
<1>6. ASSUME NEW i \in 1 .. m
      PROVE  z[i].room = 0 /\ z[i].last = z[i + 1].pos
  <2>1. CASE i = m
    BY <1>2, <1>3, <1>4, <2>1 DEF Links
  <2>2. CASE i # m
    <3>1. i \in 1 .. m - 1 /\ i + 1 \in 1 .. m
      BY <2>2
    <3> QED BY <1>3, <1>4, <3>1 DEF Links
  <2> QED BY <2>1, <2>2
<1>7. z[1].pos = s
  BY <1>2, <1>3, <1>4 DEF Links
<1>8. (m + 1) - 1 = m /\ z # <<>>
  BY <1>3, <1>4
<1> QED BY <1>2, <1>4, <1>5, <1>6, <1>7, <1>8 DEF Links

LEMMA OneChanged ==
  ASSUME NEW A, NEW c \in Seq(A), NEW k \in 1 .. Len(c), NEW e \in A,
         NEW z, z = [c EXCEPT ![k] = e]
  PROVE  /\ z \in Seq(A) /\ Len(z) = Len(c) /\ z[k] = e
         /\ \A i \in 1 .. Len(c) : i # k => z[i] = c[i]
BY ExceptSeq

(* Bytes are received to the last buffer, which becomes e.                 *)
Put(c, k, e) == [c EXCEPT ![k] = e]
LEMMA LinksPut ==
  ASSUME NEW c, NEW s \in Nat, NEW n \in Nat, Links(c, s, n), c # <<>>,
         NEW k \in Nat \ {0}, k = Len(c), NEW m \in Nat, n <= m,
         NEW e \in Meta, e.pos = c[k].pos, e.last = m
  PROVE  /\ Links(Put(c, k, e), s, m)
         /\ Put(c, k, e) # <<>> /\ Put(c, k, e)[Len(Put(c, k, e))] = e
<1>1. PICK z : z = Put(c, k, e)
  OBVIOUS
<1>2. /\ c \in Seq(Meta) /\ c[k] \in Meta /\ c[k].last = n /\ c[1].pos = s
      /\ k \in 1 .. Len(c)
  BY LinkEnds DEF Links
<1>6. /\ z \in Seq(Meta) /\ Len(z) = k /\ z[k] = e
      /\ \A i \in 1 .. k : i # k => z[i] = c[i]
  BY <1>1, <1>2, OneChanged DEF Put
<1>7. ASSUME NEW i \in 1 .. k PROVE z[i].pos <= z[i].last /\ z[i].last <= m
  <2>1. c[i] \in Meta /\ c[i].pos <= c[i].last /\ c[i].last <= n
    BY <1>2 DEF Links
  <2>2. CASE i = k
    <3>1. z[i].pos = c[i].pos /\ z[i].last = m /\ c[i].last = n
      BY <1>2, <1>6, <2>2
    <3> QED BY <2>1, <3>1 DEF Meta
  <2>3. CASE i # k
    <3>1. z[i] = c[i]
      BY <1>6, <2>3
    <3> QED BY <2>1, <3>1 DEF Meta
  <2> QED BY <2>2, <2>3
<1>8. ASSUME NEW i \in 1 .. k - 1
      PROVE  z[i].room = 0 /\ z[i].last = z[i + 1].pos
  <2>1. i \in 1 .. k /\ i # k /\ i + 1 \in 1 .. k
    OBVIOUS
  <2>2. c[i].room = 0 /\ c[i].last = c[i + 1].pos
    BY DEF Links
  <2>3. z[i + 1].pos = c[i + 1].pos
    BY <1>6, <2>1
  <2> QED BY <1>6, <2>1, <2>2, <2>3
<1>9. z[1].pos = s
  <2>1. 1 \in 1 .. k
    OBVIOUS
  <2> QED BY <1>2, <1>6, <2>1
<1>10. z # <<>>
  BY <1>6
<1>11. Links(z, s, m)
  BY <1>6, <1>7, <1>8, <1>9, <1>10 DEF Links
<1> QED BY <1>1, <1>6, <1>10, <1>11

Filled(c, k, n, m) == [c EXCEPT ![k].last = m, ![k].room = @ - (m - n)]
LEMMA LinksFilled ==
  ASSUME NEW c, NEW s \in Nat, NEW n \in Nat, Links(c, s, n), c # <<>>,
         NEW m \in Nat, n <= m, m - n <= c[Len(c)].room
  PROVE  LET z == Filled(c, Len(c), n, m)
         IN /\ Links(z, s, m) /\ z # <<>>
            /\ z[Len(z)].room = c[Len(c)].room - (m - n)
<1>0. PICK z : z = Filled(c, Len(c), n, m)
  OBVIOUS
<1>1. PICK k \in Nat \ {0} : k = Len(c)
  BY LinkEnds
<1>2. /\ c \in Seq(Meta) /\ c[k] \in Meta /\ c[k].last = n /\ c[1].pos = s
      /\ k \in 1 .. k
  BY <1>1, LinkEnds DEF Links
<1>3. PICK e : e = [c[k] EXCEPT !.last = m, !.room = @ - (m - n)]
  OBVIOUS
<1>4. /\ e \in Meta /\ e.pos = c[k].pos /\ e.last = m
      /\ e.room = c[k].room - (m - n)
  <2>1. PICK y \in Meta : y = c[k]
    BY <1>2
  <2>2. y.room - (m - n) \in 0 .. Buffer
    BY <1>1, <2>1, SizeAssumption DEF Meta
  <2>3. e = [y EXCEPT !.last = m, !.room = @ - (m - n)]
    BY <1>3, <2>1
  <2> QED BY <2>1, <2>2, <2>3 DEF Meta
<1>5. z = Put(c, k, e)
  BY <1>0, <1>1, <1>2, <1>3 DEF Put, Filled
<1>6. e \in Meta /\ e.pos = c[k].pos /\ e.last = m
  BY <1>4
<1>7. Links(z, s, m) /\ z # <<>> /\ z[Len(z)] = e
  BY <1>1, <1>5, <1>6, LinksPut
<1> QED BY <1>0, <1>1, <1>4, <1>7

(* The first k bytes are sent on.                                          *)
Shorter(c, k) == IF c[1].pos + k = c[1].last THEN Tail(c)
                 ELSE [c EXCEPT ![1].pos = @ + k]
LEMMA LinksSent ==
  ASSUME NEW c, NEW s \in Nat, NEW n \in Nat, Links(c, s, n), c # <<>>,
         NEW k \in 1 .. c[1].last - c[1].pos
  PROVE  LET z == Shorter(c, k)
         IN /\ Links(z, s + k, n) /\ s + k <= n
            /\ z # <<>> => z[Len(z)].room = c[Len(c)].room
<1>0. PICK z : z = Shorter(c, k)
  OBVIOUS
<1>1. PICK m \in Nat \ {0} : m = Len(c)
  BY LinkEnds
<1>2. /\ c \in Seq(Meta) /\ c[1] \in Meta /\ c[m] \in Meta /\ c[m].last = n
      /\ c[1].pos = s /\ c[1].last <= n
      /\ 1 \in 1 .. m /\ m \in 1 .. m
  BY <1>1, LinkEnds DEF Links
<1>3. s + k <= c[1].last /\ k \in Nat /\ s + k \in Nat
  BY <1>2 DEF Meta
<1>4. CASE c[1].pos + k = c[1].last
  <2>1. /\ z \in Seq(Meta) /\ Len(z) = m - 1
        /\ \A i \in 1 .. m - 1 : z[i] = c[i + 1]
    BY <1>0, <1>1, <1>2, <1>4 DEF Shorter
  <2>2. \A i \in 1 .. m - 1 : i + 1 \in 1 .. m
    BY <1>1
  <2>3. \A i \in 1 .. Len(z) : z[i].pos <= z[i].last /\ z[i].last <= n
    BY <1>1, <2>1, <2>2 DEF Links
  <2>4. ASSUME NEW i \in 1 .. Len(z) - 1
        PROVE  z[i].room = 0 /\ z[i].last = z[i + 1].pos
    <3>1. /\ i \in 1 .. m - 1 /\ i + 1 \in 1 .. m - 1
      BY <1>1, <2>1
    <3>2. z[i] = c[i + 1] /\ z[i + 1] = c[(i + 1) + 1]
      BY <2>1, <3>1
    <3>3. c[i + 1].room = 0 /\ c[i + 1].last = c[(i + 1) + 1].pos
      BY <1>1, <3>1 DEF Links
    <3> QED BY <3>2, <3>3
  <2>5. CASE m = 1
    <3>1. z = <<>>
      BY <2>1, <2>5
    <3>2. s + k = n
      BY <1>2, <1>4, <2>5
    <3>3. Links(z, s + k, n)
      BY <3>1, <3>2, NoLinks
    <3> QED BY <1>0, <1>3, <3>1, <3>2, <3>3
  <2>6. CASE m # 1
    <3>1. 1 \in 1 .. m - 1 /\ m - 1 \in 1 .. m - 1 /\ (m - 1) + 1 = m /\ 1 + 1 = 2
      BY <2>6
    <3>2. z[1] = c[2] /\ z[m - 1] = c[m] /\ z # <<>>
      <4>1. z[1] = c[1 + 1] /\ z[m - 1] = c[(m - 1) + 1]
        BY <2>1, <3>1
      <4>2. Len(z) # 0
        BY <2>1, <2>6
      <4> QED BY <2>1, <3>1, <4>1, <4>2
    <3>3. c[1].last = c[2].pos
      BY <1>1, <3>1 DEF Links
    <3>4. z[1].pos = s + k
      BY <1>2, <1>4, <3>2, <3>3
    <3>5. z[Len(z)].last = n /\ z[Len(z)].room = c[m].room
      BY <1>2, <2>1, <3>2
    <3>6. s + k <= n
      BY <1>2, <1>3 DEF Meta
    <3> QED BY <1>0, <1>1, <2>1, <2>3, <2>4, <3>2, <3>4, <3>5, <3>6 DEF Links
  <2> QED BY <2>5, <2>6
<1>5. CASE c[1].pos + k # c[1].last
  <2>1. PICK e : e = [c[1] EXCEPT !.pos = @ + k]
    OBVIOUS
  <2>2. /\ e \in Meta /\ e.pos = s + k /\ e.last = c[1].last
        /\ e.room = c[1].room
    BY <1>2, <1>3, <2>1 DEF Meta
  <2>3. z = [c EXCEPT ![1] = e]
    BY <1>0, <1>2, <1>5, <2>1 DEF Shorter
  <2>4. /\ z \in Seq(Meta) /\ Len(z) = m /\ z[1] = e
        /\ \A i \in 1 .. m : i # 1 => z[i] = c[i]
    BY <1>1, <1>2, <2>2, <2>3
  <2>5. ASSUME NEW i \in 1 .. m
        PROVE  z[i].pos <= z[i].last /\ z[i].last <= n
    <3>1. CASE i = 1
      BY <1>2, <1>3, <2>2, <2>4, <3>1 DEF Meta
    <3>2. CASE i # 1
      BY <1>1, <2>4, <3>2 DEF Links
    <3> QED BY <3>1, <3>2
  <2>6. \A i \in 1 .. m : z[i].room = c[i].room /\ z[i].last = c[i].last
    BY <2>2, <2>4
  <2>7. ASSUME NEW i \in 1 .. m - 1
        PROVE  z[i].room = 0 /\ z[i].last = z[i + 1].pos
    <3>1. i \in 1 .. m /\ i + 1 \in 1 .. m /\ i + 1 # 1
      BY <1>1
    <3>2. c[i].room = 0 /\ c[i].last = c[i + 1].pos
      BY <1>1 DEF Links
    <3> QED BY <2>4, <2>6, <3>1, <3>2
  <2>8. z # <<>> /\ s + k <= n
    BY <1>1, <1>2, <1>3, <2>4 DEF Meta
  <2>9. /\ z[1].pos = s + k /\ z[Len(z)].last = n
        /\ z[Len(z)].room = c[Len(c)].room
    BY <1>1, <1>2, <2>2, <2>4, <2>6
  <2>10. Links(z, s + k, n)
    BY <2>4, <2>5, <2>7, <2>8, <2>9 DEF Links
  <2> QED BY <1>0, <2>8, <2>9, <2>10
<1> QED BY <1>4, <1>5

-----------------------------------------------------------------------------
(* What a step does to an entry.                                           *)

LEMMA FreeBodyIsBody == FreeBody \in BodyState
BY DEF FreeBody, BodyState, Handler, Expected

LEMMA ContentDecoded ==
  ASSUME NEW k \in BodyState, NEW n \in Nat, NEW need \in Int,
         NEW r \in {decode_content(k, n, need)}
  PROVE  /\ r \in BodyState /\ r.h = k.h /\ r.content_need = need
         /\ r.rc = IF need <= 0 THEN "DONE" ELSE "AGAIN"
         /\ need <= 0 => r.end = n + need
<1>1. n + need \in Int
  OBVIOUS
<1>2. CASE need <= 0
  BY <1>1, <1>2 DEF decode_content, BodyState
<1>3. CASE ~(need <= 0)
  BY <1>1, <1>3 DEF decode_content, BodyState
<1> QED BY <1>2, <1>3

(* The decoder's answer is what is told of the entry, whatever the tunnel  *)
(* does next.                                                              *)
LEMMA ContentTold ==
  ASSUME wire.type # "chunk", wire.end \in Nat, wire.odd = 0,
         NEW k \in BodyState, NEW n \in Nat, NEW need \in Int,
         NEW a \in {decode_content(k, n, need)}
  PROVE  /\ a \in BodyState /\ a.h = k.h
         /\ need = wire.end - n => \A c, p : Told(wire, a, c, p, n)
<1>1. /\ a \in BodyState /\ a.h = k.h /\ a.content_need = need
      /\ a.rc = IF need <= 0 THEN "DONE" ELSE "AGAIN"
      /\ need <= 0 => a.end = n + need
  BY ContentDecoded
<1>2. ASSUME need = wire.end - n
      PROVE  \A c, p : Told(wire, a, c, p, n)
  <2>1. a.rc = "DONE" => a.end = wire.end /\ n >= wire.end
    BY <1>1, <1>2
  <2> QED BY <1>1, <1>2, <2>1 DEF Told
<1> QED BY <1>1, <1>2

LEMMA ChunkTold ==
  ASSUME wire.type = "chunk", wire \in ChunkedWires,
         NEW k \in BodyState, k.rc = "AGAIN",
         NEW n \in Nat, n <= Len(wire.bytes), k.pos <= n, NEW room \in Nat,
         \/ ~k.overread /\ Sync(wire, k)
         \/ Astray(wire, k, k.pos) /\ k.pos < n,
         NEW a \in decode_chunk(k, n, room)
  PROVE  /\ a \in BodyState /\ a.h = k.h
         /\ \A c, p : (c # <<>> => c[Len(c)].room = room) => Told(wire, a, c, p, n)
<1>1. Answer(a, n, room) /\ a.h = k.h
  BY Decodes
<1>2. a \in BodyState /\ a.pos \in Nat
  BY <1>1 DEF Answer, BodyState
<1>3. ASSUME NEW c, NEW p, c # <<>> => c[Len(c)].room = room
      PROVE  Told(wire, a, c, p, n)
  <2>1. a.rc = "AGAIN" => Going(wire, a, c, p, n)
    BY <1>1, <1>2, <1>3 DEF Answer, Going
  <2> QED BY <1>1, <2>1 DEF Answer, Told
<1> QED BY <1>1, <1>2, <1>3

(* A decoder that is done for now with what was received knows no less     *)
(* when the tunnel turns to something else, or has sent from the chain.    *)
LEMMA ToldOn ==
  ASSUME NEW w, NEW s \in BodyState, NEW c, NEW p, NEW n \in Nat,
         Told(w, s, c, p, n), p # "handler",
         NEW z, z # <<>> => c # <<>> /\ z[Len(z)].room = c[Len(c)].room
  PROVE  \A q : Told(w, s, z, q, n)
<1>1. s.pos \in Nat
  BY DEF BodyState
<1>2. Going(w, s, c, p, n) => \A q : Going(w, s, z, q, n)
  BY <1>1 DEF Going
<1> QED BY <1>2 DEF Told

-----------------------------------------------------------------------------
(* The invariant holds at first, and no step breaks it.                    *)

LEMMA Initial == Init => IInv
<1> SUFFICES ASSUME Init PROVE IInv
  OBVIOUS
<1>1. wire \in Wires
  <2>1. PICK b : b = Bytes(0, "data")
    OBVIOUS
  <2>2. b = <<>>
    BY <2>1 DEF Bytes
  <2>3. 0 \in 0 .. MaxContent /\ 0 \in 0 .. 1
    BY SizeAssumption
  <2>4. Wire("content", b, 0, 0) \in ContentWires
    BY <2>1, <2>3 DEF ContentWires
  <2> QED BY <2>2, <2>4 DEF Init, Wires
<1>2. bd \in BodyState /\ bd = FreeBody
  BY FreeBodyIsBody DEF Init
<1>3. Chained
  BY NoLinks DEF Init, Chained
<1>4. Told(wire, bd, chain, at, got)
  BY DEF Init, Told, FreeBody
<1>5. Phases
  BY DEF Init, Phases, Fresh
<1>6. got \in 0 .. Len(wire.bytes) /\ sent \in 0 .. got
  <2>1. got = 0 /\ sent = 0
    BY DEF Init
  <2>2. Len(wire.bytes) \in Nat
    BY <1>1, WireTypes
  <2> QED BY <2>1, <2>2
<1> QED BY <1>1, <1>2, <1>3, <1>4, <1>5, <1>6 DEF Init, Silent, IInv

LEMMA Releasing == IInv /\ Release => IInv'
<1> SUFFICES ASSUME IInv, Release PROVE IInv'
  OBVIOUS
<1>1. wire' = wire /\ role' = role
  BY DEF Release
<1>2. bd' \in BodyState /\ bd' = FreeBody
  BY FreeBodyIsBody DEF Release, http_entitybody_free
<1>3. Chained'
  BY NoLinks DEF Release, Chained
<1>4. Told(wire', bd', chain', at', got')
  BY <1>2 DEF Told, FreeBody
<1>5. Phases'
  BY <1>2 DEF Release, Phases, Fresh
<1>6. got' \in 0 .. Len(wire'.bytes) /\ sent' \in 0 .. got'
  <2>1. got' = 0 /\ sent' = 0
    BY DEF Release
  <2>2. Len(wire.bytes) \in Nat
    BY WireTypes DEF IInv
  <2> QED BY <1>1, <2>1, <2>2
<1> QED BY <1>1, <1>2, <1>3, <1>4, <1>5, <1>6 DEF Release, Silent, IInv

LEMMA MaxBuffer ==
  ASSUME NEW n \in 0 .. MaxEarly
  PROVE  Max({n, Buffer}) = Buffer /\ Buffer - n \in 1 .. Buffer
<1>1. n \in Nat /\ Buffer \in Nat /\ n < Buffer
  BY SizeAssumption
<1>2. \A x \in {n, Buffer} : (\A y \in {n, Buffer} : x >= y) <=> x = Buffer
  BY <1>1
<1>3. \E x \in {n, Buffer} : \A y \in {n, Buffer} : x >= y
  BY <1>2
<1>4. Max({n, Buffer}) \in {n, Buffer}
      /\ \A y \in {n, Buffer} : Max({n, Buffer}) >= y
  BY <1>3 DEF Max
<1> QED BY <1>1, <1>2, <1>4

(* The first buffer.                                                       *)
LEMMA LinksFirst ==
  ASSUME NEW n \in 0 .. MaxEarly
  PROVE  LET z == <<[pos |-> 0, last |-> n, room |-> Max({n, Buffer}) - n]>>
         IN Links(z, 0, n) /\ z # <<>> /\ z[Len(z)].room > 0
<1>1. PICK e : e = [pos |-> 0, last |-> n, room |-> Buffer - n]
  OBVIOUS
<1>2. /\ n \in Nat /\ Buffer - n \in 1 .. Buffer
      /\ e = [pos |-> 0, last |-> n, room |-> Max({n, Buffer}) - n]
  BY <1>1, MaxBuffer, SizeAssumption
<1>3. e \in Meta /\ e.pos = 0 /\ e.last = n /\ e.room > 0
  BY <1>1, <1>2, SizeAssumption DEF Meta
<1>4. PICK z : z = <<e>>
  OBVIOUS
<1>5. /\ z \in Seq(Meta) /\ Len(z) = 1 /\ z[1] = e /\ z # <<>>
      /\ \A i \in 1 .. 1 : z[i] = e
  BY <1>3, <1>4
<1>6. Links(z, 0, n)
  BY <1>2, <1>3, <1>5 DEF Links
<1> QED BY <1>2, <1>3, <1>4, <1>5, <1>6

LEMMA Starting ==
  ASSUME IInv, http_entitybody_start PROVE IInv'
<1>1. CASE tunnel_over
  BY <1>1, Releasing DEF tunnel_over
<1>2. CASE ~tunnel_over
  <2>1. /\ at = "handler" /\ bd.h = "http_entitybody_start"
        /\ UNCHANGED <<role, wire, sent>>
        /\ last' = "tail"
    BY <1>2 DEF http_entitybody_start
  <2>2. PICK n \in 0 .. MaxEarly :
          LET s == IF wire.type = "chunk" THEN bd
                   ELSE decode_content(bd, n, wire.end - n)
          IN /\ n <= Len(wire.bytes)
             /\ got' = n
             /\ chain' = <<[pos |-> 0, last |-> n,
                            room |-> Max({n, Buffer}) - n]>>
             /\ IF s.rc = "DONE"
                  THEN bd' = s /\ at' = Answered("DONE")
                  ELSE /\ bd' = [s EXCEPT !.h = "http_entitybody_process"]
                       /\ UNCHANGED at
             /\ net' = [net EXCEPT !.recv = @ /\ n < Len(wire.bytes)]
    BY Zenon, <1>2 DEF http_entitybody_start
  <2>3. /\ Fresh /\ wire \in Wires /\ role \in {"request", "response"}
        /\ bd \in BodyState /\ bd = Created /\ sent = 0
        /\ net \in [recv : BOOLEAN, send : BOOLEAN]
    BY <2>1 DEF IInv, Phases, Fresh
  <2>4. /\ n \in Nat /\ n \in 0 .. Len(wire.bytes) /\ 0 \in 0 .. n
        /\ wire.end \in Nat /\ wire.end - n \in Int
    BY <2>2, <2>3, WireTypes, SizeAssumption
  <2>5. Links(chain', 0, n) /\ chain' # <<>> /\ chain'[Len(chain')].room > 0
    BY <2>2, LinksFirst
  <2>6. net' \in [recv : BOOLEAN, send : BOOLEAN]
    BY <2>2, <2>3
  <2>7. CASE wire.type = "chunk"
    <3>1. /\ bd' = [bd EXCEPT !.h = "http_entitybody_process"]
          /\ at' = "handler"
      BY <2>1, <2>2, <2>3, <2>7 DEF FreeBody, Created
    <3>2. /\ bd' \in BodyState /\ bd'.rc = "AGAIN" /\ ~bd'.overread
          /\ bd'.h = "http_entitybody_process"
          /\ bd'.state = "start" /\ bd'.hex = <<>> /\ bd'.pos = 0
      BY <2>3, <3>1 DEF FreeBody, Created, BodyState, Handler
    <3>3. Sync(wire, bd')
      <4>1. 0 \in Starts(wire)
        BY <2>3, <2>7, WireTypes DEF Chopped
      <4>2. wire.odd \in Nat
        BY <2>3, WireTypes
      <4> QED BY <3>2, <4>1, <4>2 DEF Sync, Placed, Before
    <3>4. Going(wire, bd', chain', at', n)
      BY <2>4, <2>5, <3>1, <3>2, <3>3 DEF Going
    <3>5. Told(wire, bd', chain', at', n)
      BY <2>7, <3>2, <3>4 DEF Told
    <3>6. Phases'
      BY <3>1, <3>2 DEF Phases
    <3>7. Chained'
      BY <2>1, <2>2, <2>3, <2>5 DEF Chained
    <3> QED BY <2>1, <2>2, <2>3, <2>4, <2>6, <3>2, <3>5, <3>6, <3>7 DEF IInv
  <2>8. CASE wire.type # "chunk"
    <3>1. PICK need \in Int : need = wire.end - n
      BY <2>4
    <3>2. PICK s \in {decode_content(bd, n, need)} : TRUE
      OBVIOUS
    <3>3. /\ s \in BodyState /\ s.h = bd.h
          /\ s.rc = IF need <= 0 THEN "DONE" ELSE "AGAIN"
          /\ s.content_need = need
      <4>1. bd \in BodyState /\ n \in Nat
        BY <2>3, <2>4
      <4> QED BY <4>1, ContentDecoded
    <3>4. \A c, p : Told(wire, s, c, p, n)
      <4>1. wire.odd = 0
        BY <2>3, <2>8, WireTypes
      <4> QED BY <2>3, <2>4, <2>8, <3>1, <4>1, ContentTold
    <3>5. IF s.rc = "DONE"
            THEN bd' = s /\ at' = Answered("DONE")
            ELSE bd' = [s EXCEPT !.h = "http_entitybody_process"] /\ at' = at
      BY <2>2, <2>8, <3>1, <3>2
    <3>6. CASE s.rc = "DONE"
      <4>1. bd' = s /\ at' = IF role = "response" THEN "send" ELSE "finish"
        BY <2>3, <3>5, <3>6 DEF Answered
      <4>2. Phases'
        BY <2>1, <2>3, <3>6, <4>1 DEF Phases
      <4>3. Chained'
        BY <2>1, <2>2, <2>3, <2>5 DEF Chained
      <4>4. Told(wire, bd', chain', at', n)
        BY <3>4, <4>1
      <4> QED BY <2>1, <2>2, <2>3, <2>4, <2>6, <3>3, <4>1, <4>2, <4>3, <4>4 DEF IInv
    <3>7. CASE s.rc # "DONE"
      <4>1. /\ bd' = [s EXCEPT !.h = "http_entitybody_process"]
            /\ at' = "handler"
        BY <2>1, <3>5, <3>7
      <4>2. /\ bd' \in BodyState /\ bd'.h = "http_entitybody_process"
            /\ bd'.rc = "AGAIN" /\ bd'.content_need = need
        BY <3>3, <3>7, <4>1 DEF BodyState, Handler
      <4>3. Phases'
        BY <4>1, <4>2 DEF Phases
      <4>4. Chained'
        BY <2>1, <2>2, <2>3, <2>5 DEF Chained
      <4>5. Told(wire, bd', chain', at', n)
        BY <2>8, <3>1, <4>2 DEF Told
      <4> QED BY <2>1, <2>2, <2>3, <2>4, <2>6, <4>2, <4>3, <4>4, <4>5 DEF IInv
    <3> QED BY <3>6, <3>7
  <2> QED BY <2>7, <2>8
<1> QED BY <1>1, <1>2

(* Where a decoder goes on, and the room that it is given.                 *)
LEMMA Resuming ==
  ASSUME IInv, at = "handler", bd.h = "http_entitybody_process",
         NEW k, k = IF NeedsMeta THEN [bd EXCEPT !.pos = got] ELSE bd
  PROVE  /\ k \in BodyState /\ k.rc = "AGAIN" /\ k.h = bd.h
         /\ wire.type = "chunk" =>
              \/ /\ ~k.overread /\ Sync(wire, k) /\ k.pos <= got
                 /\ k.pos < got => ~NeedsMeta
              \/ Astray(wire, k, got) /\ k.pos = got
         /\ wire.type # "chunk" => k.content_need = wire.end - got
         /\ ~NeedsMeta => k.pos = bd.pos
<1>1. /\ bd \in BodyState /\ bd.rc = "AGAIN" /\ bd.pos \in Nat /\ got \in Nat
      /\ chain # <<>> <=> last = "tail"
      /\ last \in {"tail", "null"}
  <2>1. Len(wire.bytes) \in Nat
    BY WireTypes DEF IInv
  <2> QED BY <2>1 DEF IInv, Phases, Chained, BodyState
<1>2. NeedsMeta <=> (chain = <<>> \/ chain[Len(chain)].room = 0)
  BY <1>1 DEF NeedsMeta, Back
<1>3. wire.type = "chunk" => Going(wire, bd, chain, at, got)
  BY <1>1 DEF IInv, Told
<1>4. wire.type # "chunk" => bd.content_need = wire.end - got
  BY <1>1 DEF IInv, Told
<1>5. CASE NeedsMeta
  <2>1. k = [bd EXCEPT !.pos = got]
    BY <1>5
  <2>2. /\ k \in BodyState /\ k.rc = "AGAIN" /\ k.h = bd.h /\ k.pos = got
        /\ k.content_need = bd.content_need /\ k.state = bd.state
        /\ k.hex = bd.hex /\ k.chunk_need = bd.chunk_need
        /\ k.overread = bd.overread
    BY <1>1, <2>1 DEF BodyState
  <2>3. ASSUME wire.type = "chunk"
        PROVE  \/ ~k.overread /\ Sync(wire, k)
               \/ Astray(wire, k, got)
    <3>1. CASE Astray(wire, bd, got)
      BY <2>2, <3>1 DEF Astray
    <3>2. CASE ~Astray(wire, bd, got)
      <4>1. /\ ~bd.overread /\ Sync(wire, bd) /\ bd.pos <= got
            /\ ~(bd.pos < got)
        BY <1>2, <1>3, <1>5, <2>3, <3>2 DEF Going
      <4>2. bd.pos = got
        BY <1>1, <4>1
      <4>3. Sync(wire, k)
        BY <2>2, <4>1, <4>2 DEF Sync, Placed, AtLast, AtChunk, BehindData, AmongData
      <4> QED BY <2>2, <4>1, <4>3
    <3> QED BY <3>1, <3>2
  <2> QED BY <1>1, <1>4, <1>5, <2>2, <2>3
<1>6. CASE ~NeedsMeta
  <2>1. k = bd
    BY <1>6
  <2>2. chain # <<>> /\ chain[Len(chain)].room # 0
    BY <1>2, <1>6
  <2>3. ASSUME wire.type = "chunk"
        PROVE  \/ ~bd.overread /\ Sync(wire, bd) /\ bd.pos <= got
               \/ Astray(wire, bd, got) /\ bd.pos = got
    BY <1>3, <2>2, <2>3 DEF Going
  <2> QED BY <1>1, <1>4, <1>6, <2>1, <2>3
<1> QED BY <1>5, <1>6

LEMMA Making ==
  ASSUME IInv, at = "handler"
  PROVE  /\ Links(Roomy, sent, got) /\ Roomy # <<>>
         /\ Roomy[Len(Roomy)] \in Meta /\ Roomy[Len(Roomy)].room > 0
<1>1. /\ Links(chain, sent, got) /\ sent \in Nat /\ got \in Nat
      /\ chain # <<>> <=> last = "tail"
      /\ last \in {"tail", "null"}
  <2>1. Len(wire.bytes) \in Nat
    BY WireTypes DEF IInv
  <2> QED BY <2>1 DEF IInv, Chained
<1>2. NeedsMeta <=> (chain = <<>> \/ chain[Len(chain)].room = 0)
  BY <1>1 DEF NeedsMeta, Back
<1>3. PICK z : z = Roomy
  OBVIOUS
<1>4. CASE NeedsMeta
  <2>1. z = Append(chain, NewMeta(got, Buffer))
    BY <1>3, <1>4 DEF Roomy
  <2>2. chain # <<>> => chain[Len(chain)].room = 0
    BY <1>2, <1>4
  <2>3. Links(z, sent, got) /\ z # <<>> /\ z[Len(z)].room = Buffer
    BY <1>1, <2>1, <2>2, LinksMore
  <2>4. z[Len(z)] \in Meta
    BY <2>3, LinkEnds
  <2>5. Buffer > 0
    BY SizeAssumption
  <2> QED BY <1>3, <2>3, <2>4, <2>5
<1>5. CASE ~NeedsMeta
  <2>1. z = chain
    BY <1>3, <1>5 DEF Roomy
  <2>2. chain # <<>> /\ chain[Len(chain)].room # 0
    BY <1>2, <1>5
  <2>3. chain[Len(chain)] \in Meta
    BY <1>1, <2>2, LinkEnds
  <2>4. chain[Len(chain)].room > 0
    BY <2>2, <2>3, SizeAssumption DEF Meta
  <2> QED BY <1>1, <1>3, <2>1, <2>2, <2>3, <2>4
<1> QED BY <1>4, <1>5

(* The loop's turn: what the decoder answers is where the tunnel goes.     *)
LEMMA DecodeTurn ==
  ASSUME wire \in Wires, role \in {"request", "response"}, UNCHANGED role,
         NEW k \in BodyState, k.rc = "AGAIN", k.h = "http_entitybody_process",
         NEW n \in Nat, n <= Len(wire.bytes), NEW room \in Nat, NEW need \in Int,
         wire.type = "chunk" =>
           /\ k.pos <= n
           /\ \/ ~k.overread /\ Sync(wire, k)
              \/ Astray(wire, k, k.pos) /\ k.pos < n,
         Decode(k, n, need, room)
  PROVE  /\ bd' \in BodyState /\ Phases'
         /\ (/\ wire.type # "chunk" => need = wire.end - n
             /\ chain' # <<>> => chain'[Len(chain')].room = room)
              => Told(wire, bd', chain', at', n)
<1>1. PICK s \in IF wire.type = "chunk" THEN decode_chunk(k, n, room)
                                       ELSE {decode_content(k, n, need)} :
        /\ bd' = s
        /\ at' = IF s.rc = "AGAIN" THEN "handler" ELSE Answered(s.rc)
  BY DEF Decode
<1>2. /\ s \in BodyState /\ s.h = k.h
      /\ (wire.type # "chunk" /\ need = wire.end - n) =>
           \A c, p : Told(wire, s, c, p, n)
      /\ wire.type = "chunk" =>
           \A c, p : (c # <<>> => c[Len(c)].room = room) => Told(wire, s, c, p, n)
  <2>1. CASE wire.type = "chunk"
    <3>1. s \in decode_chunk(k, n, room) /\ wire \in ChunkedWires
      BY <2>1, WireTypes
    <3> QED BY <2>1, <3>1, ChunkTold
  <2>2. CASE wire.type # "chunk"
    <3>1. s \in {decode_content(k, n, need)} /\ wire.end \in Nat
      BY <2>2, WireTypes
    <3>9. wire.odd = 0
      BY <2>2, WireTypes
    <3> QED BY <2>2, <3>1, <3>9, ContentTold
  <2> QED BY <2>1, <2>2
<1>3. s.rc \in {"AGAIN", "DONE", "ERROR"}
  BY <1>2 DEF BodyState
<1>4. /\ s.rc = "AGAIN" => at' = "handler"
      /\ s.rc = "ERROR" => at' = "rejected"
      /\ (s.rc = "DONE" /\ role = "response") => at' = "send"
      /\ (s.rc = "DONE" /\ role = "request") => at' = "finish"
  BY <1>1 DEF Answered
<1>5. Phases'
  <2>1. s.h = "http_entitybody_process"
    BY <1>2
  <2>2. CASE s.rc = "AGAIN"
    BY <1>1, <1>4, <2>1, <2>2 DEF Phases
  <2>3. CASE s.rc = "ERROR"
    BY <1>1, <1>4, <2>3 DEF Phases
  <2>4. CASE s.rc = "DONE" /\ role = "response"
    BY <1>1, <1>4, <2>4 DEF Phases
  <2>5. CASE s.rc = "DONE" /\ role = "request"
    BY <1>1, <1>4, <2>5 DEF Phases
  <2> QED BY <1>3, <2>2, <2>3, <2>4, <2>5
<1>6. ASSUME wire.type # "chunk" => need = wire.end - n,
             chain' # <<>> => chain'[Len(chain')].room = room
      PROVE  Told(wire, bd', chain', at', n)
  <2>1. CASE wire.type = "chunk"
    BY <1>1, <1>2, <1>6, <2>1
  <2>2. CASE wire.type # "chunk"
    BY <1>1, <1>2, <1>6, <2>2
  <2> QED BY <2>1, <2>2
<1> QED BY <1>1, <1>2, <1>5, <1>6

LEMMA Processing ==
  ASSUME IInv, http_entitybody_process PROVE IInv'
<1>1. CASE tunnel_over
  BY <1>1, Releasing DEF tunnel_over
<1>2. CASE ~tunnel_over
  <2>1. at = "handler" /\ bd.h = "http_entitybody_process"
    BY DEF http_entitybody_process
  <2>2. PICK k : k = IF NeedsMeta THEN [bd EXCEPT !.pos = got] ELSE bd
    OBVIOUS
  <2>3. PICK end, room : end = Len(Roomy) /\ room = Roomy[end].room
    OBVIOUS
  <2>4. \/ /\ AlreadyHave
           /\ Decode(k, got, bd.content_need, room)
           /\ UNCHANGED <<role, wire, chain, last, got, sent, net>>
        \/ /\ ~AlreadyHave
           /\ chain' = Roomy /\ last' = "tail" /\ bd' = k
           /\ at' = Answered("AGAIN")
           /\ UNCHANGED <<role, wire, got, sent, net>>
        \/ /\ ~AlreadyHave
           /\ \E n \in got + 1 .. Len(wire.bytes), more \in BOOLEAN :
                /\ n - got <= room
                /\ got' = n
                /\ net' = [net EXCEPT !.recv = more]
                /\ chain' = [Roomy EXCEPT ![end].last = n,
                                          ![end].room = @ - (n - got)]
                /\ Decode(k, n, bd.content_need - (n - got), room - (n - got))
           /\ last' = "tail"
           /\ UNCHANGED <<role, wire, sent>>
    BY Zenon, <1>2, <2>2, <2>3 DEF http_entitybody_process
  <2>5. /\ wire \in Wires /\ role \in {"request", "response"}
        /\ bd \in BodyState /\ bd.rc = "AGAIN" /\ bd.content_need \in Int
        /\ net \in [recv : BOOLEAN, send : BOOLEAN]
        /\ wire.end \in Nat /\ Len(wire.bytes) \in Nat
        /\ got \in Nat /\ got <= Len(wire.bytes)
        /\ sent \in Nat /\ sent <= got
    <3>1. Len(wire.bytes) \in Nat /\ wire.end \in Nat
      BY WireTypes DEF IInv
    <3> QED BY <2>1, <3>1 DEF IInv, Phases, BodyState
  <2>6. /\ k \in BodyState /\ k.rc = "AGAIN"
        /\ k.h = "http_entitybody_process"
        /\ wire.type = "chunk" =>
             \/ /\ ~k.overread /\ Sync(wire, k) /\ k.pos <= got
                /\ k.pos < got => ~NeedsMeta
             \/ Astray(wire, k, got) /\ k.pos = got
        /\ wire.type # "chunk" => k.content_need = wire.end - got
        /\ ~NeedsMeta => k.pos = bd.pos
    BY <2>1, <2>2, Resuming
  <2>7. k.pos \in Nat /\ k.content_need = bd.content_need
    BY <2>2, <2>5, <2>6 DEF BodyState
  <2>8. /\ Links(Roomy, sent, got) /\ Roomy # <<>> /\ end \in Nat \ {0}
        /\ Roomy[end] \in Meta /\ room \in 1 .. Buffer
    <3>1. Links(Roomy, sent, got) /\ Roomy # <<>> /\ Len(Roomy) \in Nat \ {0}
          /\ Roomy[Len(Roomy)] \in Meta /\ Roomy[Len(Roomy)].room > 0
      BY <2>1, Making, LinkEnds
    <3>2. Roomy[Len(Roomy)].room \in 1 .. Buffer
      BY <3>1, SizeAssumption DEF Meta
    <3> QED BY <2>3, <3>1, <3>2
  <2>9. Buffer \in Nat /\ room \in Nat /\ room > 0
    BY <2>8, SizeAssumption
  <2>10. CASE /\ AlreadyHave
              /\ Decode(k, got, bd.content_need, room)
              /\ UNCHANGED <<role, wire, chain, last, got, sent, net>>
    <3>1. wire.type = "chunk" /\ ~NeedsMeta /\ bd.pos < got
      BY <2>5, <2>7, <2>6, <2>10 DEF AlreadyHave
    <3>2. ~k.overread /\ Sync(wire, k) /\ k.pos <= got
      BY <2>5, <2>6, <2>7, <3>1
    <3>3. /\ bd' \in BodyState /\ Phases'
          /\ (/\ wire.type # "chunk" => bd.content_need = wire.end - got
              /\ chain' # <<>> => chain'[Len(chain')].room = room)
               => Told(wire, bd', chain', at', got)
      <4>1. Decode(k, got, bd.content_need, room) /\ UNCHANGED role
        BY <2>10
      <4> QED BY <2>5, <2>6, <2>9, <3>1, <3>2, <4>1, DecodeTurn
    <3>4. chain' # <<>> /\ chain'[Len(chain')].room = room
      <4>1. Roomy = chain
        BY <3>1 DEF Roomy
      <4> QED BY <2>3, <2>8, <2>10, <4>1
    <3>5. Told(wire, bd', chain', at', got)
      BY <3>1, <3>3, <3>4
    <3>6. Chained'
      <4>1. last # "freed" /\ chain' = chain /\ last' = last
        BY <2>1, <2>10 DEF IInv, Chained
      <4> QED BY <2>10, <4>1 DEF IInv, Chained
    <3> QED BY <2>10, <3>3, <3>5, <3>6 DEF IInv
  <2>11. CASE /\ ~AlreadyHave
              /\ chain' = Roomy /\ last' = "tail" /\ bd' = k
              /\ at' = Answered("AGAIN")
              /\ UNCHANGED <<role, wire, got, sent, net>>
    <3>1. wire.type = "chunk" =>
            \/ ~k.overread /\ Sync(wire, k) /\ k.pos = got
            \/ Astray(wire, k, got) /\ k.pos = got
      BY <2>5, <2>6, <2>7, <2>11 DEF AlreadyHave
    <3>2. wire.type = "chunk" => Going(wire, k, Roomy, at', got)
      BY <2>5, <3>1 DEF Going
    <3>3. Told(wire, k, Roomy, at', got)
      BY <2>6, <3>2 DEF Told
    <3>4. at' = IF role = "response" THEN "send" ELSE "wait"
      BY <2>5, <2>11 DEF Answered
    <3>5. Phases'
      BY <2>6, <2>11, <3>4 DEF Phases
    <3>6. Chained'
      BY <2>8, <2>11 DEF Chained
    <3> QED BY <2>5, <2>6, <2>11, <3>3, <3>5, <3>6 DEF IInv
  <2>12. CASE /\ ~AlreadyHave
              /\ \E n \in got + 1 .. Len(wire.bytes), more \in BOOLEAN :
                   /\ n - got <= room
                   /\ got' = n
                   /\ net' = [net EXCEPT !.recv = more]
                   /\ chain' = [Roomy EXCEPT ![end].last = n,
                                             ![end].room = @ - (n - got)]
                   /\ Decode(k, n, bd.content_need - (n - got), room - (n - got))
              /\ last' = "tail"
              /\ UNCHANGED <<role, wire, sent>>
    <3>1. PICK n \in got + 1 .. Len(wire.bytes), more \in BOOLEAN :
            /\ n - got <= room
            /\ got' = n
            /\ net' = [net EXCEPT !.recv = more]
            /\ chain' = [Roomy EXCEPT ![end].last = n,
                                      ![end].room = @ - (n - got)]
            /\ Decode(k, n, bd.content_need - (n - got), room - (n - got))
      BY <2>12
    <3>2. PICK need \in Int, left \in Nat :
            need = bd.content_need - (n - got) /\ left = room - (n - got)
      BY <2>5, <2>9, <3>1
    <3>3. /\ n \in Nat /\ got < n /\ got <= n /\ n <= Len(wire.bytes)
          /\ n - got <= room /\ n \in 0 .. Len(wire.bytes)
          /\ sent \in 0 .. n
      BY <2>5, <3>1
    <3>4. wire.type = "chunk" =>
            /\ k.pos <= n
            /\ \/ ~k.overread /\ Sync(wire, k)
               \/ Astray(wire, k, k.pos) /\ k.pos < n
      BY <2>5, <2>6, <2>7, <3>3
    <3>5. /\ bd' \in BodyState /\ Phases'
          /\ (/\ wire.type # "chunk" => need = wire.end - n
              /\ chain' # <<>> => chain'[Len(chain')].room = left)
               => Told(wire, bd', chain', at', n)
      <4>1. Decode(k, n, need, left) /\ UNCHANGED role
        BY <2>12, <3>1, <3>2
      <4> QED BY <2>5, <2>6, <3>3, <3>4, <4>1, DecodeTurn
    <3>6. wire.type # "chunk" => need = wire.end - n
      BY <2>5, <2>6, <2>7, <3>2, <3>3
    <3>7. /\ Links(chain', sent, n) /\ chain' # <<>>
          /\ chain'[Len(chain')].room = left
      <4>1. chain' = Filled(Roomy, Len(Roomy), got, n)
        BY <2>3, <3>1 DEF Filled
      <4>2. n - got <= Roomy[Len(Roomy)].room
        BY <2>3, <3>3
      <4>3. LET z == Filled(Roomy, Len(Roomy), got, n)
            IN /\ Links(z, sent, n) /\ z # <<>>
               /\ z[Len(z)].room = Roomy[Len(Roomy)].room - (n - got)
        BY <2>5, <2>8, <3>3, <4>2, LinksFilled
      <4> QED BY <2>3, <3>2, <4>1, <4>3
    <3>8. Told(wire, bd', chain', at', n)
      BY <3>5, <3>6, <3>7
    <3>9. Chained'
      BY <2>12, <3>1, <3>7 DEF Chained
    <3>10. net' \in [recv : BOOLEAN, send : BOOLEAN]
      BY <2>5, <3>1
    <3> QED BY <2>5, <2>12, <3>1, <3>3, <3>5, <3>8, <3>9, <3>10 DEF IInv
  <2> QED BY <2>4, <2>10, <2>11, <2>12
<1> QED BY <1>1, <1>2

LEMMA Transporting ==
  ASSUME IInv, http_body_transport PROVE IInv'
<1>1. /\ wire \in Wires /\ role \in {"request", "response"}
      /\ bd \in BodyState /\ at = "send"
      /\ bd.rc = "DONE" \/ (bd.rc = "AGAIN" /\ bd.h = "http_entitybody_process")
      /\ net \in [recv : BOOLEAN, send : BOOLEAN]
      /\ got \in 0 .. Len(wire.bytes) /\ got \in Nat
      /\ sent \in Nat /\ sent <= got
  <2>1. Len(wire.bytes) \in Nat
    BY WireTypes DEF IInv
  <2> QED BY <2>1 DEF IInv, Phases, http_body_transport
<1>2. Links(chain, sent, got) /\ Told(wire, bd, chain, at, got) /\ Chained
  BY DEF IInv, Chained
<1>3. /\ chain # <<>> <=> last = "tail"
      /\ last \in {"tail", "null", "freed"}
  BY <1>2 DEF Chained
<1>4. CASE tunnel_over
  BY <1>4, Releasing DEF tunnel_over
<1>5. CASE /\ ~http_body_transport_send_necessary
           /\ last' = body_last
           /\ at' = IF trans_body_done THEN "finish" ELSE "wait"
           /\ UNCHANGED <<role, wire, bd, chain, got, sent, net>>
  <2>1. sent = got
    <3>1. CASE chain = <<>>
      BY <1>2, <3>1 DEF Links
    <3>2. CASE chain # <<>>
      <4>1. Len(chain) = 1 /\ ~(chain[1].pos < chain[1].last)
        BY <1>5, <3>2 DEF http_body_transport_send_necessary
      <4>2. chain[1] \in Meta /\ chain[1].pos = sent /\ chain[1].last = got
        BY <1>2, <3>2, <4>1, LinkEnds
      <4> QED BY <1>1, <4>1, <4>2
    <3> QED BY <3>1, <3>2
  <2>2. Told(wire, bd, chain, at', got)
    <3>1. at # "handler"
      BY <1>1
    <3> QED BY <1>1, <1>2, <3>1, ToldOn
  <2>3. Chained'
    <3>1. /\ last' \in {"tail", "null"}
          /\ last' = "tail" <=> chain # <<>>
      BY <1>3, <1>5 DEF body_last
    <3> QED BY <1>2, <1>5, <3>1 DEF Chained
  <2>4. Phases'
    <3>1. at' \in {"finish", "wait"} /\ (at' = "finish" <=> bd.rc = "DONE")
      BY <1>5 DEF trans_body_done
    <3> QED BY <1>1, <1>5, <2>1, <3>1 DEF Phases
  <2> QED BY <1>1, <1>5, <2>2, <2>3, <2>4 DEF IInv
<1>6. CASE /\ at' = "wait"
           /\ http_body_transport_send_necessary
           /\ UNCHANGED <<role, wire, bd, chain, last, got, sent, net>>
  <2>1. chain # <<>>
    <3>1. Len(<<>>) # 1
      OBVIOUS
    <3> QED BY <1>6, <3>1 DEF http_body_transport_send_necessary
  <2>2. Told(wire, bd, chain, at', got)
    <3>1. at # "handler"
      BY <1>1
    <3> QED BY <1>1, <1>2, <3>1, ToldOn
  <2>3. Chained'
    <3>1. last = "tail"
      BY <1>3, <2>1
    <3> QED BY <1>2, <1>6, <3>1 DEF Chained
  <2>4. Phases'
    BY <1>1, <1>6 DEF Phases
  <2> QED BY <1>1, <1>6, <2>2, <2>3, <2>4 DEF IInv
<1>7. CASE /\ http_body_transport_send_necessary
           /\ \E n \in 1 .. Head(chain).last - Head(chain).pos,
                 more \in BOOLEAN :
                /\ sent' = sent + n
                /\ chain' = Unsent(n)
                /\ last' = IF Unsent(n) = <<>> THEN "freed" ELSE last
                /\ net' = [net EXCEPT !.send = more]
           /\ UNCHANGED <<role, wire, bd, got, at>>
  <2>1. chain # <<>>
    <3>1. Len(<<>>) # 1
      OBVIOUS
    <3> QED BY <1>7, <3>1 DEF http_body_transport_send_necessary
  <2>2. PICK n \in 1 .. Head(chain).last - Head(chain).pos,
             more \in BOOLEAN :
          /\ sent' = sent + n
          /\ chain' = Unsent(n)
          /\ last' = IF Unsent(n) = <<>> THEN "freed" ELSE last
          /\ net' = [net EXCEPT !.send = more]
    BY <1>7
  <2>3. PICK z : z = Shorter(chain, n)
    OBVIOUS
  <2>4. Head(chain) = chain[1]
    BY <1>1, <1>2, <2>1, LinkEnds
  <2>5. chain' = z /\ last' = (IF z = <<>> THEN "freed" ELSE last)
    BY <2>2, <2>3, <2>4 DEF Unsent, Shorter
  <2>6. /\ Links(z, sent + n, got) /\ sent + n <= got
        /\ z # <<>> => z[Len(z)].room = chain[Len(chain)].room
    <3>1. n \in 1 .. chain[1].last - chain[1].pos
      BY <2>4
    <3> QED BY <1>1, <1>2, <2>1, <2>3, <3>1, LinksSent
  <2>7. Told(wire, bd, chain', at', got)
    <3>1. at # "handler"
      BY <1>1
    <3>2. z # <<>> => chain # <<>> /\ z[Len(z)].room = chain[Len(chain)].room
      BY <2>1, <2>6
    <3>3. \A q : Told(wire, bd, z, q, got)
      BY <1>1, <1>2, <3>1, <3>2, ToldOn
    <3> QED BY <2>5, <3>3
  <2>8. Chained'
    BY <1>1, <1>3, <1>7, <2>1, <2>2, <2>5, <2>6 DEF Chained
  <2>9. Phases'
    BY <1>1, <1>7 DEF Phases
  <2>10. net' \in [recv : BOOLEAN, send : BOOLEAN]
    BY <1>1, <2>2
  <2>11. sent' \in 0 .. got
    BY <1>1, <2>2, <2>6
  <2> QED BY <1>1, <1>7, <2>7, <2>8, <2>9, <2>10, <2>11 DEF IInv
<1> QED BY Zenon, <1>4, <1>5, <1>6, <1>7 DEF http_body_transport

LEMMA Reading ==
  ASSUME IInv, ReadEvent PROVE IInv'
<1>1. /\ bd \in BodyState /\ at = "wait" /\ got \in Nat
      /\ bd.rc = "DONE" \/ (bd.rc = "AGAIN" /\ bd.h = "http_entitybody_process")
      /\ net' \in [recv : BOOLEAN, send : BOOLEAN]
      /\ at' = IF bd.rc = "DONE" THEN "send" ELSE "handler"
  <2>1. Len(wire.bytes) \in Nat
    BY WireTypes DEF IInv
  <2>2. net \in [recv : BOOLEAN, send : BOOLEAN]
    BY DEF IInv
  <2>3. net' \in [recv : BOOLEAN, send : BOOLEAN]
    BY <2>2 DEF ReadEvent
  <2> QED BY <2>1, <2>3 DEF IInv, Phases, ReadEvent, trans_body_done
<1>2. Told(wire, bd, chain, at', got)
  <2>1. at # "handler" /\ Told(wire, bd, chain, at, got)
    BY <1>1 DEF IInv
  <2> QED BY <1>1, <2>1, ToldOn
<1>3. Chained'
  <2>1. last # "freed"
    BY <1>1 DEF IInv, Chained
  <2> QED BY <2>1 DEF ReadEvent, IInv, Chained
<1>4. Phases'
  BY <1>1 DEF ReadEvent, Phases
<1> QED BY <1>1, <1>2, <1>3, <1>4 DEF ReadEvent, IInv

LEMMA Writing ==
  ASSUME IInv, WriteEvent PROVE IInv'
<1>1. /\ bd \in BodyState /\ at = "wait" /\ got \in Nat
      /\ bd.rc = "DONE" \/ (bd.rc = "AGAIN" /\ bd.h = "http_entitybody_process")
      /\ net' \in [recv : BOOLEAN, send : BOOLEAN]
      /\ at' = "send"
  <2>1. Len(wire.bytes) \in Nat
    BY WireTypes DEF IInv
  <2>2. net \in [recv : BOOLEAN, send : BOOLEAN]
    BY DEF IInv
  <2>3. net' \in [recv : BOOLEAN, send : BOOLEAN]
    BY <2>2 DEF WriteEvent
  <2> QED BY <2>1, <2>3 DEF IInv, Phases, WriteEvent
<1>2. Told(wire, bd, chain, at', got)
  <2>1. at # "handler" /\ Told(wire, bd, chain, at, got)
    BY <1>1 DEF IInv
  <2> QED BY <1>1, <2>1, ToldOn
<1>3. Chained'
  <2>1. last # "freed"
    BY <1>1 DEF IInv, Chained
  <2> QED BY <2>1 DEF WriteEvent, IInv, Chained
<1>4. Phases'
  BY <1>1 DEF WriteEvent, Phases
<1> QED BY <1>1, <1>2, <1>3, <1>4 DEF WriteEvent, IInv

LEMMA Creating ==
  ASSUME IInv, http_entitybody_create PROVE IInv'
<1>1. /\ at = "free" /\ Fresh /\ bd \in BodyState
      /\ bd = FreeBody /\ chain = <<>> /\ last = "null"
      /\ got = 0 /\ sent = 0
  BY DEF http_entitybody_create, IInv, Phases, Fresh
<1>2. /\ role' \in {"request", "response"} /\ wire' \in Wires
      /\ at' = "handler"
      /\ bd' = [bd EXCEPT !.h = "http_entitybody_start", !.state = "start"]
      /\ UNCHANGED <<chain, last, got, sent>>
  BY DEF http_entitybody_create
<1>3. net' \in [recv : BOOLEAN, send : BOOLEAN]
  <2>1. net' \in [recv : IF wire'.bytes = <<>> THEN {FALSE} ELSE BOOLEAN,
                  send : BOOLEAN]
    BY Zenon DEF http_entitybody_create
  <2> QED BY <2>1
<1>4. got' \in 0 .. Len(wire'.bytes) /\ sent' \in 0 .. got'
  <2>1. Len(wire'.bytes) \in Nat
    <3>1. PICK w \in Wires : w = wire'
      BY <1>2
    <3> QED BY <3>1, WireTypes
  <2> QED BY <1>1, <1>2, <2>1
<1>8. bd' = Created /\ bd' \in BodyState
  <2>1. bd' = Created
    BY <1>1, <1>2 DEF Created
  <2>2. /\ FreeBody \in BodyState /\ "start" \in DOMAIN Expected
        /\ "http_entitybody_start" \in Handler
    BY FreeBodyIsBody DEF Handler, Expected
  <2>3. Created \in BodyState
    BY <2>2 DEF Created, BodyState
  <2> QED BY <2>1, <2>3
<1>5. Told(wire', bd', chain', at', got')
  BY <1>8 DEF Told, FreeBody, Created
<1>6. Chained'
  BY <1>1, <1>2 DEF IInv, Chained
<1>7. Phases'
  BY <1>1, <1>2, <1>8 DEF Phases, Fresh, FreeBody, Created
<1> QED BY <1>1, <1>2, <1>8, <1>3, <1>4, <1>5, <1>6, <1>7 DEF IInv

LEMMA Stuttering == IInv /\ UNCHANGED vars => IInv'
<1> SUFFICES ASSUME IInv, UNCHANGED vars PROVE IInv'
  OBVIOUS
<1>1. Chained' /\ Phases'
  BY DEF IInv, Chained, Phases, Fresh, vars
<1>2. Told(wire', bd', chain', at', got')
  BY DEF IInv, vars
<1> QED BY <1>1, <1>2 DEF IInv, vars

LEMMA Step == IInv /\ [Next]_vars => IInv'
<1> SUFFICES ASSUME IInv, [Next]_vars PROVE IInv'
  OBVIOUS
<1>1. CASE tunnel_time_out \/ tunnel_process_finish \/ Rejected
  BY <1>1, Releasing DEF tunnel_time_out, tunnel_process_finish, Rejected,
                         tunnel_over
<1> QED BY <1>1, Starting, Processing, Transporting, Reading, Writing, Creating,
           Stuttering DEF Next

LEMMA Inductive == Spec => []IInv
BY Initial, Step, PTL DEF Spec

-----------------------------------------------------------------------------
(* What the runs check of a small pool entry.                              *)

(* Whatever its body and however it comes, the decoder's state, its hex    *)
(* digits, the buffers of the chain and the counters are what              *)
(* l_http_entitybody.c takes them for.                                     *)
THEOREM Typed == Spec => []TypeOK
<1>1. IInv => TypeOK
  <2> SUFFICES ASSUME IInv PROVE TypeOK
    OBVIOUS
  <2>1. /\ wire.end \in 0 .. Len(wire.bytes) /\ wire.odd \in 0 .. wire.end
    BY WireTypes DEF IInv
  <2>2. /\ bd.state \in DOMAIN Expected /\ bd.hex \in Seq(Digit)
        /\ bd.chunk_need \in Nat /\ bd.content_need \in Int
    BY DEF IInv, BodyState
  <2>3. ASSUME NEW i \in DOMAIN chain
        PROVE  /\ chain[i].pos \in 0 .. chain[i].last
               /\ chain[i].room \in 0 .. Buffer
               /\ i < Len(chain) => chain[i].room = 0
    <3>1. Links(chain, sent, got)
      BY DEF IInv, Chained
    <3>2. i \in 1 .. Len(chain) /\ chain[i] \in Meta
      BY <3>1 DEF Links
    <3>3. chain[i].pos <= chain[i].last
      BY <3>1, <3>2 DEF Links
    <3>4. ASSUME i < Len(chain) PROVE chain[i].room = 0
      <4>1. Len(chain) \in Nat
        BY <3>1 DEF Links
      <4>2. i \in 1 .. Len(chain) - 1
        BY <3>2, <3>4, <4>1
      <4> QED BY <3>1, <4>2 DEF Links
    <3> QED BY <3>2, <3>3, <3>4 DEF Meta
  <2>4. last \in {"tail", "null", "freed"}
    BY DEF IInv, Chained
  <2>5. at \in {"handler", "send", "wait", "finish", "rejected", "free"}
    BY DEF IInv, Phases
  <2> QED BY <2>1, <2>2, <2>3, <2>4, <2>5 DEF IInv, TypeOK
<1> QED BY <1>1, Inductive, PTL

(* A body is DONE when all of it was received, and what follows it, at     *)
(* chunk_pos or content_end, is where the next request begins, however     *)
(* recv cuts the body in pieces, where its chunks begin, and whatever its  *)
(* data looks like.                                                        *)
THEOREM Ends == Spec => []EndsWhereItEnds
<1>1. IInv => EndsWhereItEnds
  BY DEF IInv, Told, EndsWhereItEnds
<1> QED BY <1>1, Inductive, PTL

(* The decoder is never DONE with a body that has a damaged byte, a chunk  *)
(* extension or a trailer, and it answers ERROR only when it has received  *)
(* one of those or an upper-case digit of a size, or looked at a byte that *)
(* it has not received: nothing of an earlier body on the same entry is    *)
(* left.                                                                   *)
THEOREM Rejects == Spec => []RejectsTheOdd
<1>1. IInv => RejectsTheOdd
  BY DEF IInv, Told, Damage, Upper, RejectsTheOdd
<1> QED BY <1>1, Inductive, PTL

(* The buffers of a body hold what was received and not yet sent on, each  *)
(* byte once and in order, and http_body_transport does not call a         *)
(* response finished before the last of it was sent.                       *)
THEOREM Loses == Spec => []NothingLost
<1>1. IInv => NothingLost
  <2> SUFFICES ASSUME IInv PROVE NothingLost
    OBVIOUS
  <2>1. Links(chain, sent, got)
    BY DEF IInv, Chained
  <2>2. chain # <<>> => Head(chain).pos = sent /\ Back.last = got
    BY <2>1, LinkEnds DEF Back
  <2>3. chain = <<>> => sent = got
    BY <2>1 DEF Links
  <2>4. \A i \in 1 .. Len(chain) - 1 : chain[i].last = chain[i + 1].pos
    BY <2>1 DEF Links
  <2>5. at = "finish" /\ role = "response" => sent = got /\ got >= wire.end
    BY DEF IInv, Phases, Told
  <2> QED BY <2>2, <2>3, <2>4, <2>5 DEF NothingLost
<1> QED BY <1>1, Inductive, PTL

(* body_last, which http_entitybody_process receives to, is no buffer that *)
(* http_body_transport freed with its last byte.                           *)
THEOREM Unfreed == Spec => []NoFreedBuffer
<1>1. IInv => NoFreedBuffer
  BY DEF IInv, Chained, NoFreedBuffer
<1> QED BY <1>1, Inductive, PTL
=============================================================================
