------------------------------ MODULE Channel ------------------------------
(***************************************************************************)
(* What Go's channels and select promise (the comments of runtime/chan.go  *)
(* and runtime/select.go): every operation commits to exactly one of its   *)
(* cases; values leave a channel in the order in which they entered it,    *)
(* each once; an unbuffered channel passes a value from one operation to   *)
(* another in one step; after close nothing enters the channel.  Wait      *)
(* queues, wakeups and locks are not mentioned.  The value that goroutine  *)
(* g sends is g.                                                           *)
(***************************************************************************)
EXTENDS Naturals, Sequences

CONSTANTS G,           \* goroutines
          C,           \* channels
          cap          \* cap[c]: capacity of c, 0 if it is unbuffered

VARIABLES buf,         \* buf[c]: the values in c, oldest first
          closed,      \* closed[c]: c is closed
          cases,       \* cases[g]: the cases of g's operation; {} if it is in none
          mayFail,     \* mayFail[g]: the operation does not block
          result       \* result[g]: its outcome, NoResult until it has one

avars == <<buf, closed, cases, mayFail, result>>

Case == [c : C, dir : {"send", "recv"}]
NoResult == [how |-> "none", on |-> {}, val |-> {}]

ChannelInit ==
  /\ buf = [c \in C |-> << >>]
  /\ closed = [c \in C |-> FALSE]
  /\ cases = [g \in G |-> {}]
  /\ mayFail = [g \in G |-> FALSE]
  /\ result = [g \in G |-> NoResult]

\* Operation g offers to send to c, or to receive from it.
Offers(g, c, dir) == [c |-> c, dir |-> dir] \in cases[g] /\ result[g] = NoResult
Sent(c) == [how |-> "sent", on |-> {[c |-> c, dir |-> "send"]}, val |-> {}]
Received(c, v) == [how |-> "received", on |-> {[c |-> c, dir |-> "recv"]}, val |-> {v}]
Finish(g, res) == result' = [result EXCEPT ![g] = res]

Begin(g, ks, nb) ==
  /\ cases[g] = {}
  /\ cases' = [cases EXCEPT ![g] = ks]
  /\ mayFail' = [mayFail EXCEPT ![g] = nb]
  /\ UNCHANGED <<buf, closed, result>>

SendBuffered(g, c) ==
  /\ Offers(g, c, "send") /\ ~closed[c]
  /\ Len(buf[c]) < cap[c]
  /\ buf' = [buf EXCEPT ![c] = Append(@, g)]
  /\ Finish(g, Sent(c))
  /\ UNCHANGED <<closed, cases, mayFail>>

RecvBuffered(g, c) ==
  /\ Offers(g, c, "recv")
  /\ buf[c] # << >>
  /\ buf' = [buf EXCEPT ![c] = Tail(@)]
  /\ Finish(g, Received(c, Head(buf[c])))
  /\ UNCHANGED <<closed, cases, mayFail>>

\* A sender and a receiver meet at an empty channel: the value passes directly.
Meet(s, r, c) ==
  /\ s # r
  /\ Offers(s, c, "send") /\ Offers(r, c, "recv") /\ ~closed[c]
  /\ buf[c] = << >>
  /\ result' = [result EXCEPT ![s] = Sent(c), ![r] = Received(c, s)]
  /\ UNCHANGED <<buf, closed, cases, mayFail>>

\* At a full channel the receiver takes the oldest value and the sender's enters.
Refill(s, r, c) ==
  /\ s # r
  /\ Offers(s, c, "send") /\ Offers(r, c, "recv") /\ ~closed[c]
  /\ Len(buf[c]) = cap[c] /\ cap[c] > 0
  /\ buf' = [buf EXCEPT ![c] = Append(Tail(@), s)]
  /\ result' = [result EXCEPT ![s] = Sent(c), ![r] = Received(c, Head(buf[c]))]
  /\ UNCHANGED <<closed, cases, mayFail>>

\* A receive from a closed and drained channel, a send to a closed one.
RecvClosed(g, c) ==
  /\ Offers(g, c, "recv") /\ closed[c] /\ buf[c] = << >>
  /\ Finish(g, [how |-> "closed", on |-> {[c |-> c, dir |-> "recv"]}, val |-> {}])
  /\ UNCHANGED <<buf, closed, cases, mayFail>>
SendPanics(g, c) ==
  /\ Offers(g, c, "send") /\ closed[c]
  /\ Finish(g, [how |-> "panic", on |-> {[c |-> c, dir |-> "send"]}, val |-> {}])
  /\ UNCHANGED <<buf, closed, cases, mayFail>>

Fail(g) ==
  /\ cases[g] # {} /\ mayFail[g] /\ result[g] = NoResult
  /\ Finish(g, [how |-> "failed", on |-> {}, val |-> {}])
  /\ UNCHANGED <<buf, closed, cases, mayFail>>

End(g) ==
  /\ result[g] # NoResult
  /\ result' = [result EXCEPT ![g] = NoResult]
  /\ cases' = [cases EXCEPT ![g] = {}]
  /\ mayFail' = [mayFail EXCEPT ![g] = FALSE]
  /\ UNCHANGED <<buf, closed>>

Close(c) ==
  /\ ~closed[c]
  /\ closed' = [closed EXCEPT ![c] = TRUE]
  /\ UNCHANGED <<buf, cases, mayFail, result>>

ChannelNext ==
  \/ \E c \in C :
       \/ Close(c)
       \/ \E g \in G :
            \/ SendBuffered(g, c) \/ RecvBuffered(g, c)
            \/ RecvClosed(g, c) \/ SendPanics(g, c)
            \/ \E h \in G : Meet(g, h, c) \/ Refill(g, h, c)
  \/ \E g \in G :
       \/ Fail(g) \/ End(g)
       \/ \E ks \in SUBSET Case, nb \in BOOLEAN : Begin(g, ks, nb)

ChannelSpec == ChannelInit /\ [][ChannelNext]_avars
=============================================================================
