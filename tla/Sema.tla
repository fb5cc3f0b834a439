-------------------------------- MODULE Sema --------------------------------
(***************************************************************************)
(* The sleep-and-wakeup semaphores of runtime/sema.go on which Mutex,      *)
(* RWMutex and WaitGroup are built: semacquire1 and semrelease1 of one     *)
(* semaRoot, one action per atomic access to shared memory or per critical *)
(* section of root.lock.                                                   *)
(*                                                                         *)
(* All addresses of Addr hash to the same semaRoot (sema.go:217), so they  *)
(* share root.lock and root.nwait; two roots share nothing.  The treap of  *)
(* per-address lists is the function queue.                                *)
(***************************************************************************)
EXTENDS Naturals, FiniteSets, SequencesExt

CONSTANTS G,          \* goroutines
          Addr,       \* semaphore addresses that hash to this root
          MaxCount    \* bound on the counts the free client of SemaNext builds up

ASSUME GFinite == IsFiniteSet(G)
ASSUME AddrSome == Addr # {}
ASSUME MaxCountNat == MaxCount \in Nat

VARIABLES
  sema,     \* sema[a]: the uint32 at address a
  nwait,    \* root.nwait
  queue,    \* queue[a]: the sudogs blocked on a, first to be woken first
  spc,      \* spc[g]: where g is in semacquire1 or semrelease1
  sarg,     \* sarg[g]: the arguments of that call
  sdeq,     \* sdeq[g]: the goroutine of the sudog that releaser g dequeued, or g
  ticket    \* ticket[g]: s.ticket = 1, the count was handed to g

svars == <<sema, nwait, queue, spc, sarg, sdeq, ticket>>

AcquirePhase == {"lock", "recheck", "parked", "woken"}
ReleasePhase == {"nwait", "deq", "ready"}
Args == [addr : Addr, lifo : BOOLEAN, handoff : BOOLEAN]
\* What sarg[g] is while g is in no call.
NoArgs == [addr |-> CHOOSE a \in Addr : TRUE, lifo |-> FALSE, handoff |-> FALSE]

(***************************************************************************)
(* root.lock is held between steps only by a goroutine that has            *)
(* incremented nwait and has not yet looked at the count again: the other  *)
(* critical sections touch nothing that is also accessed without the lock  *)
(* and are single actions.                                                 *)
(***************************************************************************)
RootFree == \A g \in G : spc[g] # "recheck"

SemaInit ==
  /\ sema = [a \in Addr |-> 0]
  /\ nwait = 0
  /\ queue = [a \in Addr |-> << >>]
  /\ spc = [g \in G |-> "idle"]
  /\ sarg = [g \in G |-> NoArgs]
  /\ sdeq = [g \in G |-> g]
  /\ ticket = [g \in G |-> FALSE]

Goto(g, phase) == spc' = [spc EXCEPT ![g] = phase] /\ UNCHANGED sarg
Call(g, phase, args) ==
  spc' = [spc EXCEPT ![g] = phase] /\ sarg' = [sarg EXCEPT ![g] = args]
Return(g) == Call(g, "idle", NoArgs)
Down(a) == sema' = [sema EXCEPT ![a] = @ - 1]      \* cansemacquire succeeded

-----------------------------------------------------------------------------
(* semacquire1 *)

\* The call and its easy case, one successful or failed cansemacquire.
Semacquire(g, a, lifo) ==
  /\ spc[g] = "idle"
  /\ IF sema[a] > 0
     THEN Down(a) /\ UNCHANGED <<spc, sarg>>
     ELSE /\ Call(g, "lock", [addr |-> a, lifo |-> lifo, handoff |-> FALSE])
          /\ UNCHANGED sema
  /\ UNCHANGED <<nwait, queue, sdeq, ticket>>

\* lock(&root.lock) and the increment that disables semrelease's easy case.
AcquireLock(g) ==
  /\ spc[g] = "lock"
  /\ RootFree
  /\ nwait' = nwait + 1
  /\ Goto(g, "recheck")
  /\ UNCHANGED <<sema, queue, sdeq, ticket>>

\* root.queue(addr, s, lifo)
Enqueued(g) ==
  LET a == sarg[g].addr
  IN  [queue EXCEPT ![a] = IF sarg[g].lifo THEN <<g>> \o @ ELSE Append(@, g)]

\* A semacquire that sleeps without the second look.
AcquireRecheckNone(g) ==
  /\ spc[g] = "recheck"
  /\ queue' = Enqueued(g)
  /\ Goto(g, "parked")
  /\ UNCHANGED <<sema, nwait, sdeq, ticket>>

\* The second look at the count, under the lock: take it, or sleep.
AcquireRecheck(g) ==
  /\ spc[g] = "recheck"
  /\ IF sema[sarg[g].addr] > 0
     THEN /\ Down(sarg[g].addr)
          /\ nwait' = nwait - 1
          /\ Return(g)
          /\ UNCHANGED queue
     ELSE /\ queue' = Enqueued(g)
          /\ Goto(g, "parked")
          /\ UNCHANGED <<sema, nwait>>
  /\ UNCHANGED <<sdeq, ticket>>

\* After the wakeup: leave with the ticket or the count, or go round again.
AcquireWoken(g) ==
  /\ spc[g] = "woken"
  /\ ticket' = [ticket EXCEPT ![g] = FALSE]
  /\ IF ticket[g]
     THEN Return(g) /\ UNCHANGED sema
     ELSE IF sema[sarg[g].addr] > 0
     THEN Return(g) /\ Down(sarg[g].addr)
     ELSE Goto(g, "lock") /\ UNCHANGED sema
  /\ UNCHANGED <<nwait, queue, sdeq>>

-----------------------------------------------------------------------------
(* semrelease1 *)

\* The call and its atomic.Xadd(addr, 1).
Semrelease(g, a, handoff) ==
  /\ spc[g] = "idle"
  /\ sema' = [sema EXCEPT ![a] = @ + 1]
  /\ Call(g, "nwait", [addr |-> a, lifo |-> FALSE, handoff |-> handoff])
  /\ UNCHANGED <<nwait, queue, sdeq, ticket>>

\* A semrelease that always believes its easy case.
ReleaseNwaitEasy(g) ==
  /\ spc[g] = "nwait"
  /\ Return(g)
  /\ UNCHANGED <<sema, nwait, queue, sdeq, ticket>>

\* The unlocked look at nwait: the easy case returns.
ReleaseNwait(g) ==
  /\ spc[g] = "nwait"
  /\ IF nwait = 0 THEN Return(g) ELSE Goto(g, "deq")
  /\ UNCHANGED <<sema, nwait, queue, sdeq, ticket>>

\* A dequeue that leaves the sudog it returns in the queue.
ReleaseDequeuePeek(g) ==
  LET a == sarg[g].addr
  IN  /\ spc[g] = "deq"
      /\ RootFree
      /\ IF nwait = 0 \/ queue[a] = << >>
         THEN Return(g) /\ UNCHANGED <<nwait, sdeq>>
         ELSE /\ sdeq' = [sdeq EXCEPT ![g] = Head(queue[a])]
              /\ nwait' = nwait - 1
              /\ Goto(g, "ready")
      /\ UNCHANGED <<sema, queue, ticket>>

\* A dequeue after which the waiter is still counted.
ReleaseDequeueKeepsNwait(g) ==
  LET a == sarg[g].addr
  IN  /\ spc[g] = "deq"
      /\ RootFree
      /\ IF nwait = 0 \/ queue[a] = << >>
         THEN Return(g) /\ UNCHANGED <<nwait, queue, sdeq>>
         ELSE /\ sdeq' = [sdeq EXCEPT ![g] = Head(queue[a])]
              /\ queue' = [queue EXCEPT ![a] = Tail(@)]
              /\ Goto(g, "ready")
              /\ UNCHANGED nwait
      /\ UNCHANGED <<sema, ticket>>

\* The critical section: recheck nwait and dequeue a waiter, if any.
ReleaseDequeue(g) ==
  LET a == sarg[g].addr
  IN  /\ spc[g] = "deq"
      /\ RootFree
      /\ IF nwait = 0 \/ queue[a] = << >>
         THEN Return(g) /\ UNCHANGED <<nwait, queue, sdeq>>
         ELSE /\ sdeq' = [sdeq EXCEPT ![g] = Head(queue[a])]
              /\ queue' = [queue EXCEPT ![a] = Tail(@)]
              /\ nwait' = nwait - 1
              /\ Goto(g, "ready")
      /\ UNCHANGED <<sema, ticket>>

\* A hand-off that gives the ticket without taking the unit.
ReleaseReadyNoTake(g) ==
  LET s == sdeq[g]
      grant == sarg[g].handoff /\ sema[sarg[g].addr] > 0
  IN  /\ spc[g] = "ready"
      /\ ticket' = [ticket EXCEPT ![s] = grant]
      /\ spc' = [spc EXCEPT ![s] = "woken", ![g] = "idle"]
      /\ sarg' = [sarg EXCEPT ![g] = NoArgs]
      /\ sdeq' = [sdeq EXCEPT ![g] = g]
      /\ UNCHANGED <<sema, nwait, queue>>

\* A hand-off that does not ask whether the unit is still there.
ReleaseReadyUnasked(g) ==
  LET s == sdeq[g]
      grant == sarg[g].handoff
  IN  /\ spc[g] = "ready"
      /\ IF grant THEN Down(sarg[g].addr) ELSE UNCHANGED sema
      /\ ticket' = [ticket EXCEPT ![s] = grant]
      /\ spc' = [spc EXCEPT ![s] = "woken", ![g] = "idle"]
      /\ sarg' = [sarg EXCEPT ![g] = NoArgs]
      /\ sdeq' = [sdeq EXCEPT ![g] = g]
      /\ UNCHANGED <<nwait, queue>>

\* Outside the lock: hand the count over if asked to and able, then goready.
ReleaseReady(g) ==
  LET s == sdeq[g]
      grant == sarg[g].handoff /\ sema[sarg[g].addr] > 0
  IN  /\ spc[g] = "ready"
      /\ IF grant THEN Down(sarg[g].addr) ELSE UNCHANGED sema
      /\ ticket' = [ticket EXCEPT ![s] = grant]
      /\ spc' = [spc EXCEPT ![s] = "woken", ![g] = "idle"]
      /\ sarg' = [sarg EXCEPT ![g] = NoArgs]
      /\ sdeq' = [sdeq EXCEPT ![g] = g]
      /\ UNCHANGED <<nwait, queue>>

-----------------------------------------------------------------------------
\* The steps of g inside a call.
SemaStep(g) ==
  \/ AcquireLock(g)
  \/ AcquireRecheck(g)
  \/ AcquireWoken(g)
  \/ ReleaseNwait(g)
  \/ ReleaseDequeue(g)
  \/ ReleaseReady(g)

\* The free client: any goroutine acquires or releases any semaphore.
SemaCall(g) ==
  \E a \in Addr :
    \/ \E lifo \in BOOLEAN : Semacquire(g, a, lifo)
    \/ \E handoff \in BOOLEAN : sema[a] < MaxCount /\ Semrelease(g, a, handoff)

SemaNext == \E g \in G : SemaCall(g) \/ SemaStep(g)

\* A goroutine that can run runs (the scheduler is preemptive) and the holders
\* of root.lock never block.  Nothing makes a client call.
SemaFairness == \A g \in G : WF_svars(SemaStep(g))

SemaSpec == SemaInit /\ [][SemaNext]_svars
SemaFairSpec == SemaSpec /\ SemaFairness

-----------------------------------------------------------------------------
Waiters(a) == ToSet(queue[a])
At(a, phases) == {g \in G : spc[g] \in phases /\ sarg[g].addr = a}

\* Types; a queue holds each sleeping goroutine of its address once.
SemaTypeOK ==
  /\ sema \in [Addr -> Nat]
  /\ nwait \in Nat
  /\ queue \in [Addr -> Seq(G)]
  /\ spc \in [G -> {"idle"} \cup AcquirePhase \cup ReleasePhase]
  /\ sarg \in [G -> Args]
  /\ sdeq \in [G -> G]
  /\ ticket \in [G -> BOOLEAN]

(***************************************************************************)
(* Every parked goroutine has exactly one way back: either its sudog is in *)
(* the queue of its address, once, or one releaser has dequeued it and has *)
(* yet to call goready, never both and never two (sema.go enqueues under   *)
(* root.lock, and readies after unlocking it).  A second goready of the    *)
(* same sudog is the "corrupted semaphore ticket" throw of semrelease1.    *)
(***************************************************************************)
QueuedOnce == \A a \in Addr : IsInjective(queue[a])
QueuedParked ==
  \A a \in Addr : \A g \in Waiters(a) : spc[g] = "parked" /\ sarg[g].addr = a
DequeuedOnce ==
  \A r, t \in G : spc[r] = "ready" /\ spc[t] = "ready" /\ sdeq[r] = sdeq[t] => r = t
DequeuedParked ==
  \A r \in G : spc[r] = "ready" =>
    /\ spc[sdeq[r]] = "parked"
    /\ sarg[sdeq[r]].addr = sarg[r].addr
    /\ \A a \in Addr : sdeq[r] \notin Waiters(a)
ParkedFound ==
  \A g \in G : spc[g] = "parked" =>
    \/ g \in Waiters(sarg[g].addr)
    \/ \E r \in G : spc[r] = "ready" /\ sdeq[r] = g
TicketWoken == \A g \in G : ticket[g] => spc[g] = "woken"
ParkedOnce ==
  QueuedOnce /\ QueuedParked /\ DequeuedOnce /\ DequeuedParked /\ ParkedFound /\ TicketWoken

(***************************************************************************)
(* The wakeup cannot be lost: while a goroutine sleeps on a, every unit of *)
(* the count is matched by a releaser that has yet to look for a waiter or *)
(* by a waiter that is already on its way back to the count.               *)
(***************************************************************************)
Waker(g) == spc[g] \in ReleasePhase \/ (spc[g] = "woken" /\ ~ticket[g])
WakersOf(a) == {g \in G : sarg[g].addr = a /\ Waker(g)}
NoLostWakeup ==
  \A a \in Addr : queue[a] # << >> => sema[a] <= Cardinality(WakersOf(a))

(***************************************************************************)
(* nwait is exactly the number of goroutines that are queued, or that hold *)
(* root.lock and are about to decide whether to queue (sema.go:134, 180):  *)
(* an undercount lets semrelease1 return past a sleeper.                   *)
(***************************************************************************)
Counted == {g \in G : spc[g] = "recheck" \/ \E a \in Addr : g \in Waiters(a)}
NwaitExact == nwait = Cardinality(Counted)

\* The semaphore is the abstract one of module Semaphore.
Abs == INSTANCE Semaphore
         WITH count <- sema,
              waiting <- [a \in Addr |-> {g \in At(a, AcquirePhase) : ~ticket[g]}],
              granted <- {g \in G : ticket[g]},
              releasing <- [a \in Addr |-> At(a, ReleasePhase)]
ImplementsSemaphore == Abs!AbsSpec

\* A unit and a sleeper do not stay side by side.
SleepersServed ==
  \A a \in Addr : (sema[a] > 0 /\ queue[a] # << >>) ~> (sema[a] = 0 \/ queue[a] = << >>)
=============================================================================
