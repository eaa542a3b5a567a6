------------------------------ MODULE Sessions ------------------------------
(***************************************************************************)
(* What a worker promises, seen from outside: clients come, are greeted,   *)
(* ask, are given an upstream connection of their own, and are either      *)
(* relayed (CONNECT and SSL tunnel) or answered; only a client that was    *)
(* answered may ask again, after its upstream was given back; a client     *)
(* that is closed takes its upstream with it.                              *)
(***************************************************************************)
CONSTANTS Conn, Null

VARIABLES
  phase,   \* of every connection
  peer     \* the upstream of every client

Client == {"greet", "request", "connect", "relay", "respond"}

Init ==
  /\ phase = [c \in Conn |-> "free"]
  /\ peer = [c \in Conn |-> Null]

Move(c, from, to) ==
  /\ phase[c] = from
  /\ phase' = [phase EXCEPT ![c] = to]
  /\ UNCHANGED peer

Accept(c) == Move(c, "free", "greet")
Greeted(c) == Move(c, "greet", "request")

Connect(c, u) ==
  /\ phase[c] = "request" /\ phase[u] = "free"
  /\ phase' = [phase EXCEPT ![c] = "connect", ![u] = "upstream"]
  /\ peer' = [peer EXCEPT ![c] = u]

Relay(c) == Move(c, "connect", "relay")
Respond(c) == Move(c, "connect", "respond")

(* Client c goes on in phase `to' without the upstream it had.             *)
GiveBack(c, to) ==
  /\ phase' = [x \in Conn |-> IF x = c THEN to
                              ELSE IF x = peer[c] THEN "free" ELSE phase[x]]
  /\ peer' = [peer EXCEPT ![c] = Null]

AskAgain(c) == phase[c] = "respond" /\ GiveBack(c, "request")
Close(c) == phase[c] \in Client /\ GiveBack(c, "free")

Next ==
  \E c \in Conn :
    \/ Accept(c) \/ Greeted(c) \/ Relay(c) \/ Respond(c)
    \/ AskAgain(c) \/ Close(c)
    \/ \E u \in Conn : Connect(c, u)

Spec == Init /\ [][Next]_<<phase, peer>>
=============================================================================
