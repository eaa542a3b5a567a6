-------------------------- MODULE TimerHeap_proofs --------------------------
(***************************************************************************)
(* The heap of timers, for heaps of every size: whatever is set and        *)
(* deleted, each node knows its place.                                     *)
(*                                                                         *)
(* The sifting loops are recursive functions.  Induct and Terminates,      *)
(* which are about no model in particular, say that such a function exists *)
(* when something decreases, and Keeps that it has a property which every  *)
(* turn of the loop hands back.                                            *)
(***************************************************************************)
EXTENDS TimerHeap, WellFoundedInduction, SequenceTheorems, TLAPS

-----------------------------------------------------------------------------
(* Induction over the natural numbers, for a set of them: what is left out *)
(* of it has no least member.                                              *)
LEMMA Induct ==
  ASSUME NEW M, 0 \in M, \A n \in Nat : n \in M => n + 1 \in M
  PROVE  Nat \subseteq M
<1> SUFFICES ASSUME Nat \ M # {} PROVE FALSE
  OBVIOUS
<1>1. PICK R : R = OpToRel(<, Nat)
  OBVIOUS
<1>2. IsWellFoundedOn(R, Nat)
  BY <1>1, NatLessThanWellFounded
<1>3. PICK x \in Nat \ M : \A y \in Nat \ M : <<y, x>> \notin R
  BY <1>2, WFMin
<1>4. x - 1 \in Nat \ M
  OBVIOUS
<1>5. <<x - 1, x>> \in R
  BY <1>1, <1>4 DEF OpToRel
<1> QED BY <1>3, <1>4, <1>5

(* A loop: from x in D it goes on to next[x], of a smaller measure, or     *)
(* ends with the value done[x].                                            *)
Loops(D, V, measure, goes, next, done) ==
  /\ measure \in [D -> Nat] /\ goes \in [D -> BOOLEAN]
  /\ next \in [D -> D] /\ done \in [D -> V]
  /\ \A x \in D : goes[x] => measure[next[x]] < measure[x]

(* There is a function that computes what such a loop does.                *)
LEMMA Terminates ==
  ASSUME NEW D, NEW V, NEW measure, NEW goes, NEW next, NEW done,
         Loops(D, V, measure, goes, next, done)
  PROVE  \E g : g = [x \in D |-> IF goes[x] THEN g[next[x]] ELSE done[x]]
<1> USE DEF Loops
<1> DEFINE Upto(g, n) ==
             \A x \in D : measure[x] < n =>
               g[x] = IF goes[x] THEN g[next[x]] ELSE done[x]
           Exists == {n \in Nat : \E g \in [D -> V] : Upto(g, n)}
           Agree(a, b, n) == \A x \in D : measure[x] < n => a[x] = b[x]
           Unique == {n \in Nat : \A a, b \in [D -> V] :
                        Upto(a, n) /\ Upto(b, n) => Agree(a, b, n)}
<1>1. Nat \subseteq Exists
  <2>1. 0 \in Exists
    <3>1. done \in [D -> V] /\ Upto(done, 0)
      OBVIOUS
    <3> HIDE DEF Upto
    <3> QED BY <3>1
  <2>2. ASSUME NEW n \in Nat, n \in Exists
        PROVE  n + 1 \in Exists
    <3>1. PICK g \in [D -> V] : Upto(g, n)
      BY <2>2
    <3> DEFINE g1 == [x \in D |-> IF goes[x] THEN g[next[x]] ELSE done[x]]
    <3>2. g1 \in [D -> V]
      OBVIOUS
    <3>3. Upto(g1, n + 1)
      <4> SUFFICES ASSUME NEW x \in D, measure[x] < n + 1, goes[x]
                   PROVE  g1[x] = g1[next[x]]
        OBVIOUS
      <4>1. next[x] \in D /\ measure[next[x]] < n
        OBVIOUS
      <4> QED BY <3>1, <4>1
    <3> HIDE DEF Upto, g1
    <3> QED BY <3>2, <3>3
  <2> HIDE DEF Exists
  <2> QED BY <2>1, <2>2, Induct
<1>2. Nat \subseteq Unique
  <2>1. 0 \in Unique
    OBVIOUS
  <2>2. ASSUME NEW n \in Nat, n \in Unique
        PROVE  n + 1 \in Unique
    <3> SUFFICES ASSUME NEW a \in [D -> V], NEW b \in [D -> V],
                        Upto(a, n + 1), Upto(b, n + 1)
                 PROVE  Agree(a, b, n + 1)
      OBVIOUS
    <3>1. Upto(a, n) /\ Upto(b, n)
      OBVIOUS
    <3>2. Agree(a, b, n)
      BY <2>2, <3>1
    <3> SUFFICES ASSUME NEW x \in D, measure[x] < n + 1
                 PROVE  a[x] = b[x]
      OBVIOUS
    <3>3. goes[x] => next[x] \in D /\ measure[next[x]] < n
      OBVIOUS
    <3> QED BY <3>2, <3>3
  <2> HIDE DEF Unique
  <2> QED BY <2>1, <2>2, Induct
<1> DEFINE at_(n) == CHOOSE g \in [D -> V] : Upto(g, n)
           whole == [x \in D |-> at_(measure[x] + 1)[x]]
<1>3. \A n \in Nat : at_(n) \in [D -> V] /\ Upto(at_(n), n)
  <2> TAKE n \in Nat
  <2>1. \E g \in [D -> V] : Upto(g, n)
    BY <1>1
  <2> HIDE DEF Upto
  <2> QED BY <2>1
<1>4. \A x \in D :
        whole[x] = IF goes[x] THEN whole[next[x]] ELSE done[x]
  <2> TAKE x \in D
  <2> DEFINE n == measure[x] + 1
             k == measure[next[x]] + 1
  <2>1. n \in Nat /\ k \in Nat /\ next[x] \in D
    OBVIOUS
  <2>2. /\ at_(n) \in [D -> V] /\ Upto(at_(n), n)
        /\ at_(k) \in [D -> V] /\ Upto(at_(k), k)
    BY <1>3, <2>1
  <2> HIDE DEF at_
  <2>3. at_(n)[x] = IF goes[x] THEN at_(n)[next[x]] ELSE done[x]
    BY <2>2
  <2>4. goes[x] => at_(n)[next[x]] = at_(k)[next[x]]
    <3> SUFFICES ASSUME goes[x] PROVE at_(n)[next[x]] = at_(k)[next[x]]
      OBVIOUS
    <3>1. k <= n
      OBVIOUS
    <3>2. Upto(at_(n), k)
      BY <2>1, <2>2, <3>1
    <3>3. k \in Unique
      BY <1>2, <2>1
    <3>4. Agree(at_(n), at_(k), k)
      <4> HIDE DEF Upto, Agree
      <4> QED BY <2>2, <3>2, <3>3
    <3> QED BY <2>1, <3>4
  <2> QED BY <2>1, <2>3, <2>4
<1> HIDE DEF whole
<1>5. whole = [x \in D |-> IF goes[x] THEN whole[next[x]] ELSE done[x]]
  <2>1. whole = [x \in D |-> whole[x]]
    BY DEF whole
  <2> QED BY <1>4, <2>1
<1> QED BY <1>5

(* What holds where it ends, and of next[x] if of x, holds of its results. *)
LEMMA Keeps ==
  ASSUME NEW D, NEW V, NEW measure, NEW goes, NEW next, NEW done,
         Loops(D, V, measure, goes, next, done),
         NEW g,
         g = [x \in D |-> IF goes[x] THEN g[next[x]] ELSE done[x]],
         NEW R,
         \A x \in D : ~goes[x] => <<x, done[x]>> \in R,
         \A x \in D : goes[x] /\ <<next[x], g[next[x]]>> \in R
                        => <<x, g[next[x]]>> \in R
  PROVE  \A x \in D : <<x, g[x]>> \in R
<1> USE DEF Loops
<1> DEFINE M == {n \in Nat : \A x \in D : measure[x] < n => <<x, g[x]>> \in R}
<1>1. 0 \in M
  OBVIOUS
<1>2. ASSUME NEW n \in Nat, n \in M
      PROVE  n + 1 \in M
  <2> SUFFICES ASSUME NEW x \in D, measure[x] < n + 1
               PROVE  <<x, g[x]>> \in R
    OBVIOUS
  <2>1. CASE ~goes[x]
    BY <2>1
  <2>2. CASE goes[x]
    <3>1. next[x] \in D /\ measure[next[x]] < n
      BY <2>2
    <3>2. <<next[x], g[next[x]]>> \in R
      BY <1>2, <3>1
    <3> QED BY <2>2, <3>2
  <2> QED BY <2>1, <2>2
<1>3. Nat \subseteq M
  <2> HIDE DEF M
  <2> QED BY <1>1, <1>2, Induct
<1> QED BY <1>3

-----------------------------------------------------------------------------
(* The heap as an array of nodes that know their places.                   *)
Num == -MaxLate .. TUNNEL_TIMEOUT
Sound(h) ==
  /\ h \in Seq(Node)
  /\ \A i \in DOMAIN h : h[i].index = i /\ h[i].num \in Num

LEMMA Indexing ==
  ASSUME NEW n \in Node, NEW i \in Nat
  PROVE  /\ [n EXCEPT !.index = i] \in Node
         /\ [n EXCEPT !.index = i].num = n.num
         /\ [n EXCEPT !.index = i].index = i
BY DEF Node

(* Two nodes that change places keep it so.                                *)
LEMMA ExchangedSound ==
  ASSUME NEW h \in Seq(Node), NEW i \in DOMAIN h, NEW p \in DOMAIN h
  PROVE  /\ Exchanged(h, i, p) \in Seq(Node)
         /\ Len(Exchanged(h, i, p)) = Len(h)
         /\ Sound(h) /\ i # p => Sound(Exchanged(h, i, p))
<1> DEFINE up == [h[i] EXCEPT !.index = h[p].index]
           down == [h[p] EXCEPT !.index = i]
           e == Exchanged(h, i, p)
<1>1. /\ h[i] \in Node /\ h[p] \in Node
      /\ DOMAIN h = 1 .. Len(h) /\ Len(h) \in Nat
  OBVIOUS
<1>2. /\ up \in Node /\ up.num = h[i].num /\ up.index = h[p].index
      /\ down \in Node /\ down.num = h[p].num /\ down.index = i
  <2>1. h[p].index \in Nat /\ i \in Nat
    BY <1>1 DEF Node
  <2> QED BY <1>1, <2>1, Indexing
<1>3. /\ DOMAIN e = 1 .. Len(h)
      /\ \A j \in 1 .. Len(h) :
           e[j] = IF j = i THEN down ELSE IF j = p THEN up ELSE h[j]
  <2> HIDE DEF up, down
  <2>1. e = [[h EXCEPT ![p] = up] EXCEPT ![i] = down]
    BY DEF Exchanged, up, down
  <2> QED BY <1>1, <2>1
<1> HIDE DEF up, down, e
<1>4. e \in [1 .. Len(h) -> Node]
  <2>1. \A j \in 1 .. Len(h) : e[j] \in Node
    BY <1>1, <1>2, <1>3
  <2>2. e = [j \in 1 .. Len(h) |-> e[j]]
    <3>1. e = [[h EXCEPT ![p] = up] EXCEPT ![i] = down]
      BY DEF Exchanged, e, up, down
    <3> QED BY <1>1, <3>1
  <2> QED BY <2>1, <2>2
<1>5. e \in Seq(Node) /\ Len(e) = Len(h)
  BY <1>1, <1>4
<1>6. Sound(h) /\ i # p => Sound(e)
  BY <1>1, <1>2, <1>3, <1>5 DEF Sound
<1> QED BY <1>5, <1>6 DEF e

(* The loop of heap_add.                                                   *)
Rises == [x \in Placed |->
  LET p == HEAP_PARENT(x[2]) IN p > 0 /\ x[1][x[2]].num < x[1][p].num]
Risen == [x \in Placed |->
  IF Rises[x]
    THEN <<Exchanged(x[1], x[2], HEAP_PARENT(x[2])), HEAP_PARENT(x[2])>>
    ELSE x]

LEMMA UpLoops ==
  Loops(Placed, Seq(Node), [x \in Placed |-> x[2]], Rises, Risen,
        [x \in Placed |-> x[1]])
<1>1. Rises \in [Placed -> BOOLEAN]
  BY DEF Rises
<1>2. ASSUME NEW x \in Placed
      PROVE  /\ x[1] \in Seq(Node) /\ x[2] \in Nat
             /\ Risen[x] \in Placed
             /\ Rises[x] => Risen[x][2] < x[2]
  <2>1. x[1] \in Seq(Node) /\ x[2] \in Nat /\ x[2] \in DOMAIN x[1]
    BY DEF Placed
  <2> DEFINE p == HEAP_PARENT(x[2])
  <2>2. CASE ~Rises[x]
    BY <2>1, <2>2 DEF Risen
  <2>3. CASE Rises[x]
    <3>1. p > 0
      BY <2>3 DEF Rises
    <3>2. p \in Nat /\ p < x[2] /\ p \in DOMAIN x[1]
      BY <2>1, <3>1 DEF HEAP_PARENT
    <3>3. Risen[x] = <<Exchanged(x[1], x[2], p), p>>
      BY <2>3 DEF Risen
    <3> HIDE DEF p
    <3>4. /\ Exchanged(x[1], x[2], p) \in Seq(Node)
          /\ Len(Exchanged(x[1], x[2], p)) = Len(x[1])
      BY <2>1, <3>2, ExchangedSound
    <3>5. p \in DOMAIN Exchanged(x[1], x[2], p)
      BY <2>1, <3>2, <3>4
    <3> QED BY <2>1, <3>2, <3>3, <3>4, <3>5 DEF Placed
  <2> QED BY <2>1, <2>2, <2>3
<1>3. Risen \in [Placed -> Placed]
  BY <1>2 DEF Risen
<1> QED BY <1>1, <1>2, <1>3 DEF Loops

LEMMA UpIs == Up = [x \in Placed |-> IF Rises[x] THEN Up[Risen[x]] ELSE x[1]]
<1> DEFINE done == [x \in Placed |-> x[1]]
           Turn(g) == [x \in Placed |->
                         IF Rises[x] THEN g[Risen[x]] ELSE done[x]]
           Body(g) == [x \in Placed |->
             LET h == x[1]
                 i == x[2]
                 p == HEAP_PARENT(i)
             IN IF p > 0 /\ h[i].num < h[p].num
                  THEN g[<<Exchanged(h, i, p), p>>] ELSE h]
<1>1. \A g : Turn(g) = Body(g)
  <2> TAKE g
  <2>1. \A x \in Placed : Turn(g)[x] = Body(g)[x]
    BY DEF Rises, Risen
  <2> QED BY <2>1
<1>2. \E g : g = Turn(g)
  BY UpLoops, Terminates
<1> HIDE DEF Turn
<1>3. \E g : g = Body(g)
  BY <1>1, <1>2
<1>4. Up = Body(Up)
  BY <1>3 DEF Up
<1> HIDE DEF Body
<1>5. Up = Turn(Up)
  BY <1>1, <1>4
<1> QED BY <1>5 DEF Turn

(* Going up leaves the nodes that there are, each in its place.            *)
LEMMA UpSound ==
  ASSUME NEW h, Sound(h), NEW i \in DOMAIN h
  PROVE  Sound(Up[<<h, i>>]) /\ Len(Up[<<h, i>>]) = Len(h)
<1> DEFINE done == [x \in Placed |-> x[1]]
           measure == [x \in Placed |-> x[2]]
           R == {r \in Placed \X Seq(Node) :
                   Sound(r[1][1]) => Sound(r[2]) /\ Len(r[2]) = Len(r[1][1])}
<1>1. \A x \in Placed : ~Rises[x] => <<x, done[x]>> \in R
  BY DEF Placed
<1>2. \A x \in Placed : Rises[x] /\ <<Risen[x], Up[Risen[x]]>> \in R
                           => <<x, Up[Risen[x]]>> \in R
  <2> SUFFICES ASSUME NEW x \in Placed, Rises[x],
                      <<Risen[x], Up[Risen[x]]>> \in R
               PROVE  <<x, Up[Risen[x]]>> \in R
    OBVIOUS
  <2> DEFINE p == HEAP_PARENT(x[2])
  <2>1. /\ x[1] \in Seq(Node) /\ x[2] \in DOMAIN x[1]
        /\ x[2] \in Nat /\ p > 0
    BY DEF Placed, Rises
  <2>2. p \in DOMAIN x[1] /\ p # x[2]
    BY <2>1 DEF HEAP_PARENT
  <2>3. Risen[x] = <<Exchanged(x[1], x[2], p), p>>
    BY DEF Risen
  <2> HIDE DEF p
  <2>4. /\ Len(Risen[x][1]) = Len(x[1])
        /\ Sound(x[1]) => Sound(Risen[x][1])
    BY <2>1, <2>2, <2>3, ExchangedSound
  <2> QED BY <2>4
<1>3. Up = [x \in Placed |-> IF Rises[x] THEN Up[Risen[x]] ELSE done[x]]
  <2>1. \A x \in Placed : x[1] = done[x]
    OBVIOUS
  <2> QED BY <2>1, UpIs
<1>4. <<h, i>> \in Placed
  BY DEF Sound, Placed
<1>5. \A x \in Placed : <<x, Up[x]>> \in R
  <2>1. Loops(Placed, Seq(Node), measure, Rises, Risen, done)
    BY UpLoops
  <2> HIDE DEF R, done, measure
  <2> QED BY <1>1, <1>2, <1>3, <2>1, Keeps
<1> QED BY <1>4, <1>5

-----------------------------------------------------------------------------
(* The loop of heap_del.                                                   *)
Falls == [x \in Vacated |->
  /\ HEAP_LCHILD(x[2]) <= Len(x[1])
  /\ x[1][x[2]].num > x[1][min_index(x[1], x[2])].num]
Fallen == [x \in Vacated |->
  IF Falls[x]
    THEN <<Exchanged(x[1], min_index(x[1], x[2]), x[2]),
           min_index(x[1], x[2])>>
    ELSE x]

LEMMA MinIndex ==
  ASSUME NEW h \in Seq(Node), NEW i \in 1 .. Len(h) + 1,
         HEAP_LCHILD(i) <= Len(h)
  PROVE  /\ min_index(h, i) \in DOMAIN h /\ min_index(h, i) > i
         /\ i \in DOMAIN h
BY DEF min_index, HEAP_LCHILD, HEAP_RCHILD

LEMMA DownLoops ==
  Loops(Vacated, Seq(Node), [x \in Vacated |-> Len(x[1]) + 1 - x[2]],
        Falls, Fallen, [x \in Vacated |-> x[1]])
<1>1. Falls \in [Vacated -> BOOLEAN]
  BY DEF Falls
<1>2. ASSUME NEW x \in Vacated
      PROVE  /\ x[1] \in Seq(Node) /\ x[2] \in Nat
             /\ Len(x[1]) + 1 - x[2] \in Nat
             /\ Fallen[x] \in Vacated
             /\ Falls[x] => /\ Len(Fallen[x][1]) = Len(x[1])
                            /\ Fallen[x][2] > x[2] /\ Fallen[x][2] \in Nat
  <2>1. /\ x[1] \in Seq(Node) /\ x[2] \in Nat
        /\ x[2] \in 1 .. Len(x[1]) + 1
    BY DEF Vacated
  <2> DEFINE m == min_index(x[1], x[2])
  <2>2. CASE ~Falls[x]
    BY <2>1, <2>2 DEF Fallen
  <2>3. CASE Falls[x]
    <3>1. HEAP_LCHILD(x[2]) <= Len(x[1])
      BY <2>3 DEF Falls
    <3>2. m \in DOMAIN x[1] /\ m > x[2] /\ x[2] \in DOMAIN x[1]
      BY <2>1, <3>1, MinIndex
    <3>3. Fallen[x] = <<Exchanged(x[1], m, x[2]), m>>
      BY <2>3 DEF Fallen
    <3> HIDE DEF m
    <3>4. /\ Exchanged(x[1], m, x[2]) \in Seq(Node)
          /\ Len(Exchanged(x[1], m, x[2])) = Len(x[1])
      BY <2>1, <3>2, ExchangedSound
    <3> QED BY <2>1, <3>2, <3>3, <3>4 DEF Vacated
  <2> QED BY <2>1, <2>2, <2>3
<1>3. Fallen \in [Vacated -> Vacated]
  BY <1>2 DEF Fallen
<1>4. ASSUME NEW x \in Vacated, Falls[x]
      PROVE  Len(Fallen[x][1]) + 1 - Fallen[x][2] < Len(x[1]) + 1 - x[2]
  BY <1>2, <1>4
<1> QED BY <1>1, <1>2, <1>3, <1>4 DEF Loops

LEMMA DownIs ==
  Down = [x \in Vacated |-> IF Falls[x] THEN Down[Fallen[x]] ELSE x[1]]
<1> DEFINE done == [x \in Vacated |-> x[1]]
           Turn(g) == [x \in Vacated |->
                         IF Falls[x] THEN g[Fallen[x]] ELSE done[x]]
           Body(g) == [x \in Vacated |->
             LET h == x[1]
                 i == x[2]
                 m == min_index(h, i)
             IN IF HEAP_LCHILD(i) <= Len(h) /\ h[i].num > h[m].num
                  THEN g[<<Exchanged(h, m, i), m>>] ELSE h]
<1>1. \A g : Turn(g) = Body(g)
  <2> TAKE g
  <2>1. \A x \in Vacated : Turn(g)[x] = Body(g)[x]
    BY DEF Falls, Fallen
  <2> QED BY <2>1
<1>2. \E g : g = Turn(g)
  BY DownLoops, Terminates
<1> HIDE DEF Turn
<1>3. \E g : g = Body(g)
  BY <1>1, <1>2
<1>4. Down = Body(Down)
  BY <1>3 DEF Down
<1> HIDE DEF Body
<1>5. Down = Turn(Down)
  BY <1>1, <1>4
<1> QED BY <1>5 DEF Turn

(* Going down does the same.                                               *)
LEMMA DownSound ==
  ASSUME NEW h, Sound(h), NEW i \in 1 .. Len(h) + 1
  PROVE  Sound(Down[<<h, i>>]) /\ Len(Down[<<h, i>>]) = Len(h)
<1> DEFINE done == [x \in Vacated |-> x[1]]
           measure == [x \in Vacated |-> Len(x[1]) + 1 - x[2]]
           R == {r \in Vacated \X Seq(Node) :
                   Sound(r[1][1]) => Sound(r[2]) /\ Len(r[2]) = Len(r[1][1])}
<1>1. \A x \in Vacated : ~Falls[x] => <<x, done[x]>> \in R
  BY DEF Vacated
<1>2. \A x \in Vacated : Falls[x] /\ <<Fallen[x], Down[Fallen[x]]>> \in R
                            => <<x, Down[Fallen[x]]>> \in R
  <2> SUFFICES ASSUME NEW x \in Vacated, Falls[x],
                      <<Fallen[x], Down[Fallen[x]]>> \in R
               PROVE  <<x, Down[Fallen[x]]>> \in R
    OBVIOUS
  <2> DEFINE m == min_index(x[1], x[2])
  <2>1. /\ x[1] \in Seq(Node) /\ x[2] \in 1 .. Len(x[1]) + 1
        /\ HEAP_LCHILD(x[2]) <= Len(x[1])
    BY DEF Vacated, Falls
  <2>2. m \in DOMAIN x[1] /\ x[2] \in DOMAIN x[1] /\ m > x[2]
    BY <2>1, MinIndex
  <2>3. Fallen[x] = <<Exchanged(x[1], m, x[2]), m>>
    BY DEF Fallen
  <2> HIDE DEF m
  <2>4. m # x[2]
    BY <2>1, <2>2
  <2>5. /\ Len(Fallen[x][1]) = Len(x[1])
        /\ Sound(x[1]) => Sound(Fallen[x][1])
    BY <2>1, <2>2, <2>3, <2>4, ExchangedSound
  <2> QED BY <2>5
<1>3. Down = [x \in Vacated |-> IF Falls[x] THEN Down[Fallen[x]] ELSE done[x]]
  <2>1. \A x \in Vacated : x[1] = done[x]
    OBVIOUS
  <2> QED BY <2>1, DownIs
<1>4. <<h, i>> \in Vacated
  BY DEF Sound, Vacated
<1>5. \A x \in Vacated : <<x, Down[x]>> \in R
  <2>1. Loops(Vacated, Seq(Node), measure, Falls, Fallen, done)
    BY DownLoops
  <2> HIDE DEF R, done, measure
  <2> QED BY <1>1, <1>2, <1>3, <2>1, Keeps
<1> QED BY <1>4, <1>5

-----------------------------------------------------------------------------
(* The two operations, and the timers on them.                             *)
LEMMA AddSound ==
  ASSUME NEW h, Sound(h), NEW num \in Num
  PROVE  Sound(heap_add(h, num)) /\ Len(heap_add(h, num)) = Len(h) + 1
<1> DEFINE i == Len(h) + 1
           added == Append(h, [num |-> num, index |-> i])
<1>1. h \in Seq(Node) /\ Len(h) \in Nat /\ num \in Int
  BY TimeAssumption DEF Sound, Num
<1>2. [num |-> num, index |-> i] \in Node
  BY <1>1 DEF Node
<1>3. added \in Seq(Node) /\ Len(added) = i /\ i \in DOMAIN added
  BY <1>1, <1>2
<1>4. \A j \in DOMAIN added :
        added[j] = IF j = i THEN [num |-> num, index |-> i] ELSE h[j]
  BY <1>1, <1>2
<1>5. Sound(added)
  BY <1>1, <1>3, <1>4 DEF Sound
<1> HIDE DEF i, added
<1>6. Sound(Up[<<added, i>>]) /\ Len(Up[<<added, i>>]) = Len(added)
  BY <1>3, <1>5, UpSound
<1> QED BY <1>3, <1>6 DEF heap_add, i, added

LEMMA DelSound ==
  ASSUME NEW h, Sound(h), NEW i \in DOMAIN h
  PROVE  Sound(heap_del(h, i)) /\ Len(heap_del(h, i)) = Len(h) - 1
<1> DEFINE tail == [h[Len(h)] EXCEPT !.index = i]
           put == [h EXCEPT ![i] = tail]
           kept == Front(put)
<1>1. /\ h \in Seq(Node) /\ Len(h) \in Nat \ {0}
      /\ i \in 1 .. Len(h) /\ h[Len(h)] \in Node
  BY DEF Sound
<1>2. tail \in Node /\ tail.num = h[Len(h)].num /\ tail.index = i
  BY <1>1, Indexing
<1> HIDE DEF tail
<1>3. /\ put \in Seq(Node) /\ Len(put) = Len(h)
      /\ \A j \in 1 .. Len(h) : put[j] = IF j = i THEN tail ELSE h[j]
  BY <1>1, <1>2
<1> HIDE DEF put
<1>4. /\ kept \in Seq(Node) /\ Len(kept) = Len(h) - 1
      /\ \A j \in 1 .. Len(h) - 1 : kept[j] = put[j]
  BY <1>1, <1>3 DEF Front
<1> HIDE DEF kept
<1>5. Sound(kept)
  BY <1>1, <1>2, <1>3, <1>4 DEF Sound
<1>6. i \in 1 .. Len(kept) + 1
  BY <1>1, <1>4
<1>7. Sound(Down[<<kept, i>>]) /\ Len(Down[<<kept, i>>]) = Len(kept)
  BY <1>5, <1>6, DownSound
<1> QED BY <1>4, <1>7 DEF heap_del, kept, put, tail

(* What a timer is worth after d, counted no further than MaxLate.         *)
LEMMA Later ==
  ASSUME NEW n \in Num, NEW d \in 0 .. MaxStep
  PROVE  Max({n - d, -MaxLate}) \in Num
<1>1. n - d \in Int /\ -MaxLate \in Int /\ n - d <= TUNNEL_TIMEOUT
  BY TimeAssumption DEF Num
<1>2. \E x \in {n - d, -MaxLate} : \A y \in {n - d, -MaxLate} : x >= y
  BY <1>1
<1>3. /\ Max({n - d, -MaxLate}) \in {n - d, -MaxLate}
      /\ Max({n - d, -MaxLate}) >= -MaxLate
  BY <1>2 DEF Max
<1> QED BY <1>1, <1>3, TimeAssumption DEF Num

IInv == Sound(heap) /\ Indexed

LEMMA Starts == Init => IInv
<1> SUFFICES ASSUME Init PROVE IInv
  OBVIOUS
<1>1. heap = <<>> /\ time_out = -1 /\ at = "handlers"
  BY DEF Init
<1>2. Len(heap) = 0 /\ DOMAIN heap = {} /\ heap \in Seq(Node)
  BY <1>1
<1> QED BY <1>1, <1>2, TimeAssumption DEF IInv, Sound, Indexed

LEMMA Steps == IInv /\ [Next]_vars => IInv'
<1> SUFFICES ASSUME IInv, [Next]_vars PROVE IInv'
  OBVIOUS
<1>1. /\ Sound(heap) /\ Len(heap) \in Nat /\ Len(heap) <= Size
      /\ time_out \in -1 .. TUNNEL_TIMEOUT
      /\ at \in {"timer_expire", "epoll_wait", "handlers"}
  BY DEF IInv, Indexed, Sound
<1>2. TUNNEL_TIMEOUT \in Num
  BY TimeAssumption DEF Num
<1>3. \A i \in DOMAIN heap : heap[i].index = i
  BY <1>1 DEF Sound
<1>4. ASSUME Sound(heap'), Len(heap') <= Size,
             time_out' \in -1 .. TUNNEL_TIMEOUT,
             at' \in {"timer_expire", "epoll_wait", "handlers"}
      PROVE  IInv'
  BY <1>4 DEF IInv, Indexed, Sound, Num
<1>5. CASE timer_add
  <2>1. CASE Len(heap) < Size /\ heap' = heap_add(heap, TUNNEL_TIMEOUT)
    <3>1. Sound(heap') /\ Len(heap') = Len(heap) + 1
      BY <1>1, <1>2, <2>1, AddSound
    <3> QED BY <1>1, <1>4, <1>5, <2>1, <3>1, TimeAssumption DEF timer_add
  <2>2. ASSUME NEW i \in DOMAIN heap,
               heap' = heap_add(heap_del(heap, heap[i].index), TUNNEL_TIMEOUT)
        PROVE  IInv'
    <3>1. /\ Sound(heap_del(heap, i))
          /\ Len(heap_del(heap, i)) = Len(heap) - 1
      BY <1>1, DelSound
    <3>2. Sound(heap') /\ Len(heap') = Len(heap) - 1 + 1
      BY <1>2, <1>3, <2>2, <3>1, AddSound
    <3> QED BY <1>1, <1>4, <1>5, <3>2 DEF timer_add
  <2> QED BY <1>5, <2>1, <2>2 DEF timer_add
<1>6. ASSUME NEW i \in DOMAIN heap, heap' = heap_del(heap, heap[i].index)
      PROVE  Sound(heap') /\ Len(heap') <= Size
  <2>1. Sound(heap') /\ Len(heap') = Len(heap) - 1
    BY <1>1, <1>3, <1>6, DelSound
  <2> QED BY <1>1, <2>1, TimeAssumption
<1>7. CASE timer_del
  BY <1>1, <1>4, <1>6, <1>7 DEF timer_del
<1>8. CASE timer_expire
  <2>1. CASE heap # <<>> /\ Due
    <3>1. 1 \in DOMAIN heap
      BY <1>1, <2>1 DEF Sound
    <3> QED BY <1>1, <1>4, <1>6, <1>8, <2>1, <3>1 DEF timer_expire
  <2>2. CASE ~(heap # <<>> /\ Due)
    <3>1. /\ UNCHANGED heap /\ at' = "epoll_wait"
          /\ time_out' = IF heap = <<>> THEN -1 ELSE heap[1].num
      BY <1>8, <2>2 DEF timer_expire
    <3>2. heap # <<>> => heap[1].num \in Num /\ ~(heap[1].num <= 0)
      BY <1>1, <2>2 DEF Sound, Due
    <3>3. time_out' \in -1 .. TUNNEL_TIMEOUT
      BY <3>1, <3>2, TimeAssumption DEF Num
    <3> QED BY <1>1, <1>4, <3>1, <3>3
  <2> QED BY <2>1, <2>2
<1>9. CASE epoll_wait
  <2>1. PICK d \in 0 .. MaxStep :
          heap' = [i \in DOMAIN heap |->
                     [heap[i] EXCEPT !.num = Max({@ - d, -MaxLate})]]
    BY <1>9 DEF epoll_wait
  <2>2. ASSUME NEW i \in DOMAIN heap
        PROVE  /\ heap'[i] \in Node /\ heap'[i].index = i
               /\ heap'[i].num \in Num
    <3>1. heap[i] \in Node /\ heap[i].num \in Num /\ heap[i].index = i
      BY <1>1 DEF Sound
    <3> DEFINE n == Max({heap[i].num - d, -MaxLate})
    <3>2. n \in Num /\ n \in Int
      BY <3>1, Later, TimeAssumption DEF Num
    <3>3. heap'[i] = [heap[i] EXCEPT !.num = n]
      BY <2>1
    <3> HIDE DEF n
    <3> QED BY <3>1, <3>2, <3>3 DEF Node
  <2>3. heap \in Seq(Node) /\ DOMAIN heap' = 1 .. Len(heap)
    BY <1>1, <2>1 DEF Sound
  <2>4. heap' \in Seq(Node) /\ Len(heap') = Len(heap)
    <3>1. heap' = [i \in 1 .. Len(heap) |-> heap'[i]]
      BY <2>1, <2>3
    <3>2. heap' \in [1 .. Len(heap) -> Node]
      BY <2>2, <2>3, <3>1
    <3> QED BY <1>1, <2>3, <3>2
  <2>5. Sound(heap')
    BY <2>2, <2>3, <2>4 DEF Sound
  <2> QED BY <1>1, <1>4, <1>9, <2>4, <2>5 DEF epoll_wait
<1>10. CASE Loop
  BY <1>1, <1>4, <1>10 DEF Loop
<1>11. CASE UNCHANGED vars
  BY <1>1, <1>4, <1>11 DEF vars
<1> QED BY <1>5, <1>7, <1>8, <1>9, <1>10, <1>11 DEF Next

(* However timers are set, set anew, deleted and expire, in a heap of any  *)
(* size: each node's index is its place in the array, which is what        *)
(* timer_del deletes by; heap_add finds room; epoll_wait never waits for   *)
(* a time that is over.                                                    *)
THEOREM Placing == Spec => []Indexed
<1>1. IInv => Indexed
  BY DEF IInv
<1> QED BY Starts, Steps, <1>1, PTL DEF Spec
=============================================================================
