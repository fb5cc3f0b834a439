-------------------------------- MODULE Chan --------------------------------
(***************************************************************************)
(* Channels and select (runtime/chan.go, runtime/select.go): chansend,     *)
(* chanrecv, closechan and selectgo over hchan's buffer, its two queues of *)
(* waiting sudogs and its lock.                                            *)
(*                                                                         *)
(* The queues hold the goroutines of the sudogs: a goroutine is in one as  *)
(* often as its select lists the case.  An operation on one channel holds  *)
(* c.lock only within one action; selectgo takes the locks of its channels *)
(* one by one.  gp.param and the memory a receiver waits for are written   *)
(* while the peer that dequeued the sudog is the only one to know it, so   *)
(* they are part of the action that dequeues; goready, after the unlock,   *)
(* is another one.                                                         *)
(*                                                                         *)
(* The value that goroutine g sends is g, in all the equal cases of a      *)
(* select, which are not told apart otherwise either.  The circular buffer *)
(* is the sequence from recvx to sendx.  A goroutine that panics recovers. *)
(***************************************************************************)
EXTENDS Naturals, FiniteSets, SequencesExt

CONSTANTS G,           \* goroutines
          C,           \* channels
          cap,         \* cap[c]: c.dataqsiz
          Order,       \* the channels by address, as a sequence: selectgo's lock order
          Ops          \* the operations that the goroutines try

Case == [c : C, dir : {"send", "recv"}]
\* A select may list a case (a channel and a direction) several times.
Op == [sel : BOOLEAN, block : BOOLEAN, cases : SUBSET Case, times : [Case -> Nat \ {0}]]
Once == [k \in Case |-> 1]
NoOp == [sel |-> FALSE, block |-> TRUE, cases |-> {}, times |-> Once]

ASSUME CapNat == cap \in [C -> Nat]
ASSUME OrderAll == Order \in Seq(C) /\ IsInjective(Order) /\ ToSet(Order) = C
ASSUME OpsOK ==
  /\ Ops \subseteq Op
  /\ \A o \in Ops : o.cases # {} /\ (~o.sel => o.times = Once /\ \E k \in Case : o.cases = {k})

VARIABLES
  buf, closed,
  recvq, sendq,    \* the goroutines whose sudogs wait in c.recvq and c.sendq
  lk,              \* lk[c]: {the goroutine that holds c.lock across actions}, or {}
  op,              \* op[g]: the operation g is in, or NoOp
  pc,              \* pc[g]: where g is in it
  looks,           \* looks[g]: what g's fast path has still to look at
  selectDone,      \* gp.selectDone
  param,           \* gp.param: {the case of the sudog that was used}, or {} for nil
  res,             \* res[g]: the outcome of the operation, with the value received
  toReady,         \* toReady[g]: goroutines that g has dequeued and not yet made ready
  unready          \* history: unready[g], no case of a non-blocking g could proceed at
                   \* some time since its call

vars == <<buf, closed, recvq, sendq, lk, op, pc, looks, selectDone, param, res, toReady, unready>>

Phases == {"idle", "fast", "start", "parked", "woken", "lock1", "pass1", "lock3", "pass3",
           "ready", "return"}
Results == [how : {"none", "sent", "received", "closed", "panic", "failed"},
            on : SUBSET Case, val : SUBSET G]
NoRes == [how |-> "none", on |-> {}, val |-> {}]
Sent(c) == [how |-> "sent", on |-> {[c |-> c, dir |-> "send"]}, val |-> {}]
Received(c, v) == [how |-> "received", on |-> {[c |-> c, dir |-> "recv"]}, val |-> {v}]
FoundClosed(k) ==
  [how |-> IF k.dir = "send" THEN "panic" ELSE "closed", on |-> {k}, val |-> {}]
Failed == [how |-> "failed", on |-> {}, val |-> {}]

Init ==
  /\ buf = [c \in C |-> << >>]
  /\ closed = [c \in C |-> FALSE]
  /\ recvq = [c \in C |-> << >>]
  /\ sendq = [c \in C |-> << >>]
  /\ lk = [c \in C |-> {}]
  /\ op = [g \in G |-> NoOp]
  /\ pc = [g \in G |-> "idle"]
  /\ looks = [g \in G |-> << >>]
  /\ selectDone = [g \in G |-> FALSE]
  /\ param = [g \in G |-> {}]
  /\ res = [g \in G |-> NoRes]
  /\ toReady = [g \in G |-> {}]
  /\ unready = [g \in G |-> FALSE]

Jump(g, phase) == pc' = [pc EXCEPT ![g] = phase]
TheCase(g) == CHOOSE k \in op[g].cases : TRUE     \* of an operation on one channel
Chans(g) == {k.c : k \in op[g].cases}

-----------------------------------------------------------------------------
(* waitq.dequeue *)

\* A dequeue that does not ask whether a select was woken by another case.
LiveUnasked(h) == TRUE
\* The sudog of h is not a leftover of a select that another case has woken.
Live(h) == op[h].sel => ~selectDone[h]

\* The sudog that dequeue returns, if any, and what it leaves of the queue (or would
\* if it left the leftovers in a queue that has nothing else).
FirstLive(q) == SelectInSeq(q, Live)
Found(q) == FirstLive(q) > 0
RestKeepsStale(q) == IF Found(q) THEN SubSeq(q, FirstLive(q) + 1, Len(q)) ELSE q
Rest(q) == IF Found(q) THEN SubSeq(q, FirstLive(q) + 1, Len(q)) ELSE << >>

-----------------------------------------------------------------------------
(* One case of g found ready under the lock.  h is the peer it dequeues. *)

Peer(q) == q[FirstLive(q)]

\* What the peer's dequeue does to the peer, with the outcome r of its case k.
Serve(g, h, k, own, r) ==
  /\ selectDone' = IF op[h].sel THEN [selectDone EXCEPT ![h] = TRUE] ELSE selectDone
  /\ param' = [param EXCEPT ![h] = {k}]
  /\ res' = [res EXCEPT ![g] = own, ![h] = r]
  /\ toReady' = [toReady EXCEPT ![g] = {h}]
  /\ Jump(g, "ready")

Complete(g, own) ==
  /\ res' = [res EXCEPT ![g] = own]
  /\ Jump(g, "return")
  /\ UNCHANGED <<selectDone, param, toReady>>

CanSend(c) == closed[c] \/ Found(recvq[c]) \/ Len(buf[c]) < cap[c]

CanRecv(c) == closed[c] \/ Found(sendq[c]) \/ buf[c] # << >>
Can(k) == IF k.dir = "send" THEN CanSend(k.c) ELSE CanRecv(k.c)

\* chansend on a channel that is closed, has a receiver waiting, or has room.
\* The queues of the cases in seen were looked at before, in vain.
Purged(q, dir, seen) ==
  [d \in C |-> IF [c |-> d, dir |-> dir] \in seen THEN Rest(q[d]) ELSE q[d]]
DoSend(g, c, seen) ==
  LET rq == Purged(recvq, "send", seen)
      sq == Purged(sendq, "recv", seen)
      h == Peer(recvq[c])
  IN  /\ sendq' = sq
      /\ IF closed[c]
         THEN /\ Complete(g, FoundClosed([c |-> c, dir |-> "send"]))
              /\ recvq' = rq
              /\ UNCHANGED buf
         ELSE /\ recvq' = [rq EXCEPT ![c] = Rest(recvq[c])]
              /\ IF Found(recvq[c])
                 THEN /\ Serve(g, h, [c |-> c, dir |-> "recv"], Sent(c), Received(c, g))
                      /\ UNCHANGED buf
                 ELSE /\ Complete(g, Sent(c))
                      /\ buf' = [buf EXCEPT ![c] = Append(@, g)]

\* chanrecv on a channel that has a sender waiting, a value, or is closed.
DoRecv(g, c, seen) ==
  LET rq == Purged(recvq, "send", seen)
      sq == Purged(sendq, "recv", seen)
      h == Peer(sendq[c])
      head == IF cap[c] = 0 THEN h ELSE Head(buf[c])
  IN  /\ recvq' = rq
      /\ sendq' = [sq EXCEPT ![c] = Rest(sendq[c])]
      /\ IF Found(sendq[c])
         THEN /\ Serve(g, h, [c |-> c, dir |-> "send"], Received(c, head), Sent(c))
              /\ buf' = IF cap[c] = 0 THEN buf ELSE [buf EXCEPT ![c] = Append(Tail(@), h)]
         ELSE IF buf[c] # << >>
         THEN /\ Complete(g, Received(c, Head(buf[c])))
              /\ buf' = [buf EXCEPT ![c] = Tail(@)]
         ELSE /\ Complete(g, FoundClosed([c |-> c, dir |-> "recv"]))
              /\ UNCHANGED buf

Do(g, k, seen) == IF k.dir = "send" THEN DoSend(g, k.c, seen) ELSE DoRecv(g, k.c, seen)

\* No case can proceed, and the queues that were looked at are empty now: fail, or
\* wait in the queues of all cases, with a sudog for each time that a case is listed.
GiveUp(g) ==
  LET ks == op[g].cases
      rq == Purged(recvq, "send", ks)
      sq == Purged(sendq, "recv", ks)
      With(q, dir) ==
        [c \in C |-> LET k == [c |-> c, dir |-> dir]
                     IN  IF k \in ks THEN q[c] \o [i \in 1 .. op[g].times[k] |-> g] ELSE q[c]]
  IN  /\ IF op[g].block
         THEN /\ recvq' = With(rq, "recv")
              /\ sendq' = With(sq, "send")
              /\ Jump(g, "parked")
              /\ UNCHANGED res
         ELSE /\ recvq' = rq
              /\ sendq' = sq
              /\ res' = [res EXCEPT ![g] = Failed]
              /\ Jump(g, "return")
      /\ UNCHANGED <<buf, selectDone, param, toReady>>

-----------------------------------------------------------------------------
(* Operations on one channel *)

\* The loads of the fast path of a non-blocking operation: of the two loads of
\* chansend either may come first (chan.go:170-172), those of chanrecv are atomic.
LooksReversed(k) ==
  IF k.dir = "send" THEN {<<"closed", "ready">>, <<"ready", "closed">>} ELSE {<<"closed", "ready">>}
Looks(k) ==
  IF k.dir = "send" THEN {<<"closed", "ready">>, <<"ready", "closed">>} ELSE {<<"ready", "closed">>}

\* What a load has to find for the operation to fail without the lock.
Unpromising(k, what) ==
  IF what = "closed" THEN ~closed[k.c]
  ELSE IF k.dir = "send"
  THEN IF cap[k.c] = 0 THEN recvq[k.c] = << >> ELSE Len(buf[k.c]) = cap[k.c]
  ELSE IF cap[k.c] = 0 THEN sendq[k.c] = << >> ELSE buf[k.c] = << >>

\* A call; a select starts to take its locks.
Call(g, o) ==
  /\ pc[g] = "idle"
  /\ op' = [op EXCEPT ![g] = o]
  /\ IF o.sel \/ o.block
     THEN UNCHANGED looks
     ELSE \E l \in Looks(CHOOSE k \in o.cases : TRUE) : looks' = [looks EXCEPT ![g] = l]
  /\ Jump(g, IF o.sel THEN "lock1" ELSE IF o.block THEN "start" ELSE "fast")
  /\ UNCHANGED <<buf, closed, recvq, sendq, lk, selectDone, param, res, toReady>>

\* One load of the fast path.
Look(g) ==
  /\ pc[g] = "fast"
  /\ IF Unpromising(TheCase(g), Head(looks[g]))
     THEN /\ looks' = [looks EXCEPT ![g] = Tail(@)]
          /\ IF Len(looks[g]) = 1
             THEN Jump(g, "return") /\ res' = [res EXCEPT ![g] = Failed]
             ELSE UNCHANGED <<pc, res>>
     ELSE /\ looks' = [looks EXCEPT ![g] = << >>]
          /\ Jump(g, "start")
          /\ UNCHANGED res
  /\ UNCHANGED <<buf, closed, recvq, sendq, lk, op, selectDone, param, toReady>>

\* lock(&c.lock) and all of chansend or chanrecv up to the unlock.
Locked(g) ==
  /\ pc[g] = "start"
  /\ lk[TheCase(g).c] = {}
  /\ IF Can(TheCase(g)) THEN Do(g, TheCase(g), {}) ELSE GiveUp(g)
  /\ UNCHANGED <<closed, lk, op, looks>>

\* What follows gopark in chansend and chanrecv.
Woken(g) ==
  /\ pc[g] = "woken"
  /\ param' = [param EXCEPT ![g] = {}]
  /\ res' = IF param[g] = {} THEN [res EXCEPT ![g] = FoundClosed(TheCase(g))] ELSE res
  /\ Jump(g, "return")
  /\ UNCHANGED <<buf, closed, recvq, sendq, lk, op, looks, selectDone, toReady>>

\* goready for a peer that was dequeued.
Ready(g) ==
  /\ pc[g] = "ready"
  /\ \E h \in toReady[g] :
       /\ toReady' = [toReady EXCEPT ![g] = @ \ {h}]
       /\ pc' = [pc EXCEPT ![h] = IF op[h].sel THEN "lock3" ELSE "woken",
                           ![g] = IF toReady[g] # {h} THEN "ready"
                                  ELSE IF op[g] = NoOp THEN "idle" ELSE "return"]
  /\ UNCHANGED <<buf, closed, recvq, sendq, lk, op, looks, selectDone, param, res>>

\* The operation returns.
Return(g) ==
  /\ pc[g] = "return"
  /\ op' = [op EXCEPT ![g] = NoOp]
  /\ res' = [res EXCEPT ![g] = NoRes]
  /\ looks' = [looks EXCEPT ![g] = << >>]
  /\ Jump(g, "idle")
  /\ UNCHANGED <<buf, closed, recvq, sendq, lk, selectDone, param, toReady>>

-----------------------------------------------------------------------------
(* closechan *)

\* A closechan that wakes the readers only.
DrainedReaders(c) ==
  {recvq[c][i] : i \in {j \in 1 .. Len(recvq[c]) : Live(recvq[c][j])}}

\* All the waiters that dequeue returns when it is called until it finds none.
Drained(c) == {h \in ToSet(recvq[c]) \cup ToSet(sendq[c]) : Live(h)}

\* close(c); of a closed channel it panics and changes nothing.
Close(g, c) ==
  /\ pc[g] = "idle"
  /\ lk[c] = {}
  /\ ~closed[c]
  /\ closed' = [closed EXCEPT ![c] = TRUE]
  /\ recvq' = [recvq EXCEPT ![c] = << >>]
  /\ sendq' = [sendq EXCEPT ![c] = << >>]
  /\ selectDone' = [h \in G |-> selectDone[h] \/ (h \in Drained(c) /\ op[h].sel)]
  /\ param' = [h \in G |-> IF h \in Drained(c) THEN {} ELSE param[h]]
  /\ toReady' = [toReady EXCEPT ![g] = Drained(c)]
  /\ Jump(g, IF Drained(c) = {} THEN "idle" ELSE "ready")
  /\ UNCHANGED <<buf, lk, op, looks, res>>

-----------------------------------------------------------------------------
(* selectgo *)

Held(g) == {c \in C : g \in lk[c]}
Rank(c) == CHOOSE i \in DOMAIN Order : Order[i] = c

\* A sellock that takes the locks in no particular order.
NextLocksUnordered(g) == Chans(g) \ Held(g)
\* The channel whose lock sellock takes next, in a set; {} when it has them all.
NextLocks(g) == {c \in Chans(g) \ Held(g) : \A d \in Chans(g) \ Held(g) : Rank(c) <= Rank(d)}

\* sellock takes one lock, before pass 1 or (after the wakeup) before pass 3.
SelLock(g) ==
  /\ pc[g] \in {"lock1", "lock3"}
  /\ \E c \in NextLocks(g) :
       /\ lk[c] = {}
       /\ lk' = [lk EXCEPT ![c] = {g}]
       /\ IF Held(g) \cup {c} # Chans(g) THEN UNCHANGED pc
          ELSE Jump(g, IF pc[g] = "lock1" THEN "pass1" ELSE "pass3")
  /\ UNCHANGED <<buf, closed, recvq, sendq, op, looks, selectDone, param, res, toReady>>

Unlocked(g) == [c \in C |-> lk[c] \ {g}]

\* Pass 1: the first case in pollorder, which is random, that can proceed, the
\* default if none can; pass 2 when there is no default.
SelPass1(g) ==
  LET ready == {k \in op[g].cases : Can(k)}
  IN  /\ pc[g] = "pass1"
      /\ IF ready # {}
         THEN \E k \in ready, seen \in SUBSET (op[g].cases \ ready) : Do(g, k, seen)
         ELSE GiveUp(g)
      /\ lk' = Unlocked(g)
      /\ UNCHANGED <<closed, op, looks>>

\* The cases in whose queues pass 3 has yet to find a sudog of g.
Queue(k) == IF k.dir = "recv" THEN recvq[k.c] ELSE sendq[k.c]
Enqueued(g) == {k \in op[g].cases : g \in ToSet(Queue(k))}

\* Pass 3 takes the sudogs that nobody has dequeued out of the queues, one by one in
\* lock order.  Those of one queue stand together, so any of them is the first.
SelDequeue(g) ==
  /\ pc[g] = "pass3"
  /\ \E k \in Enqueued(g) :
       /\ \A other \in Enqueued(g) : Rank(k.c) <= Rank(other.c)
       /\ recvq' = IF k.dir = "recv" THEN [recvq EXCEPT ![k.c] = RemoveFirst(@, g)] ELSE recvq
       /\ sendq' = IF k.dir = "send" THEN [sendq EXCEPT ![k.c] = RemoveFirst(@, g)] ELSE sendq
  /\ UNCHANGED <<buf, closed, lk, op, pc, looks, selectDone, param, res, toReady>>

\* The end of pass 3; a select that close has woken starts again from pass 1, its locks
\* held.  (selectDone and gp.param are reset first, but nobody looks before the unlock.)
SelPass3(g) ==
  /\ pc[g] = "pass3" /\ Enqueued(g) = {}
  /\ selectDone' = [selectDone EXCEPT ![g] = FALSE]
  /\ param' = [param EXCEPT ![g] = {}]
  /\ IF param[g] = {}
     THEN Jump(g, "pass1") /\ UNCHANGED lk
     ELSE Jump(g, "return") /\ lk' = Unlocked(g)
  /\ UNCHANGED <<buf, closed, recvq, sendq, op, looks, res, toReady>>

-----------------------------------------------------------------------------

Step(g) ==
  \/ Look(g) \/ Locked(g) \/ Woken(g) \/ Ready(g) \/ Return(g)
  \/ SelLock(g) \/ SelPass1(g) \/ SelDequeue(g) \/ SelPass3(g)
Begin(g) == \/ \E o \in Ops : Call(g, o)
            \/ \E c \in C : Close(g, c)

\* The history: a non-blocking operation has met a state without a ready case.
NoneReady(g) == \A k \in op[g].cases : ~Can(k)
Track == unready' = [g \in G |-> ~op'[g].block /\ (unready[g] \/ NoneReady(g)')]

Next == (\E g \in G : Step(g) \/ Begin(g)) /\ Track
Spec == Init /\ [][Next]_vars

-----------------------------------------------------------------------------
(* Properties *)

\* The sudogs of a goroutine stand together in q, the queue of case k, no more of them
\* than its operation lists the case.
Together(q, k) == \A i, j \in DOMAIN q : q[i] = q[j] => j - i < op[q[i]].times[k]

\* Types, with the bounds of the buffer (c.qcount <= c.dataqsiz) and of the queues
\* ("limited only by the size of the select"), and locks held by selects only.
ChanTypeOK ==
  /\ \A c \in C : buf[c] \in Seq(G) /\ Len(buf[c]) <= cap[c]
  /\ closed \in [C -> BOOLEAN]
  /\ recvq \in [C -> Seq(G)] /\ sendq \in [C -> Seq(G)]
  /\ \A c \in C : \A dir \in {"send", "recv"} :
       LET k == [c |-> c, dir |-> dir] IN Together(Queue(k), k)
  /\ \A c \in C : lk[c] \subseteq {g \in G : op[g].sel} /\ Cardinality(lk[c]) <= 1
  /\ op \in [G -> Ops \cup {NoOp}]
  /\ pc \in [G -> Phases]
  /\ \A g \in G : looks[g] \in Seq({"closed", "ready"}) /\ Len(looks[g]) <= 2
  /\ selectDone \in [G -> BOOLEAN] /\ unready \in [G -> BOOLEAN]
  /\ \A g \in G : param[g] \subseteq op[g].cases /\ Cardinality(param[g]) <= 1
  /\ res \in [G -> Results]
  /\ toReady \in [G -> SUBSET G]

\* "Invariants" of chan.go:9-18: one of the two queues is empty, but
\* for the sudogs of one goroutine that waits in both by a select; a buffered channel
\* with a value has no receiver waiting and one with room no sender.  It counts the
\* sudogs that a select woken by another channel has left behind, too.
ChanInvariants ==
  \A c \in C :
    /\ \/ sendq[c] = << >> \/ recvq[c] = << >>
       \/ cap[c] = 0 /\ \E g \in G : op[g].sel /\ ToSet(sendq[c]) \cup ToSet(recvq[c]) = {g}
    /\ cap[c] > 0 /\ buf[c] # << >> => recvq[c] = << >>
    /\ cap[c] > 0 /\ Len(buf[c]) < cap[c] => sendq[c] = << >>

\* What the buffers and the queues keep between them.
ChanStructure == ChanTypeOK /\ ChanInvariants

\* sellock never deadlocks (select.go:162, "sort the cases by Hchan address to get the
\* locking order"): while channels are locked, one of the selects that hold a lock
\* can take its next lock, or has them all.
LockProgress ==
  (\E c \in C : lk[c] # {}) =>
     \E g \in G : Held(g) # {} /\ (Held(g) = Chans(g) \/ \E c \in NextLocks(g) : lk[c] = {})

\* An operation reports that it cannot proceed only if there was a moment since its
\* call at which none of its cases could.
Justified(g) == res[g].how = "failed" => unready[g]

\* chan.go:425-437: the two loads of a receive's fast path imply such a moment; so does
\* the default of a select, which looks under the locks.
ReceiveFailsJustly ==
  \A g \in G : (op[g].sel \/ \E k \in op[g].cases : k.dir = "recv") => Justified(g)

\* No wakeup is lost: who is parked on a channel that is closed, or has been given a
\* value or has had its value taken, is one of those that the goroutine which dequeued
\* it is about to make ready.
Due(g) == pc[g] = "parked" /\ (param[g] # {} \/ \E c \in Chans(g) : closed[c])
WakeupPending == \A g \in G : Due(g) => \E h \in G : pc[h] = "ready" /\ g \in toReady[h]

\* The wait queues, locks and wakeups implement what the language promises of channels.
Abs == INSTANCE Channel WITH cases <- [g \in G |-> op[g].cases],
                             mayFail <- [g \in G |-> ~op[g].block], result <- res
ImplementsChannel == Abs!ChannelSpec
=============================================================================
