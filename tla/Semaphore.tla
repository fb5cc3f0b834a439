----------------------------- MODULE Semaphore -----------------------------
(***************************************************************************)
(* What the semaphores of runtime/sema.go promise to package sync, as the  *)
(* declarations in sync/runtime.go word it: Semacquire waits until the     *)
(* count is positive and then decrements it in one step; Semrelease        *)
(* increments it in one step and may pass the count directly to a waiter.  *)
(* Nothing here says how goroutines sleep or who is served first.          *)
(***************************************************************************)
EXTENDS Naturals

CONSTANTS G,          \* goroutines
          Addr        \* semaphore addresses

VARIABLES count,      \* count[a]: the value of the semaphore at address a
          waiting,    \* waiting[a]: the goroutines inside Semacquire of a
          granted,    \* those among the callers that were passed a unit
          releasing   \* releasing[a]: the goroutines inside Semrelease of a

avars == <<count, waiting, granted, releasing>>

AbsInit ==
  /\ count = [a \in Addr |-> 0]
  /\ waiting = [a \in Addr |-> {}]
  /\ granted = {}
  /\ releasing = [a \in Addr |-> {}]

Idle(g) == \A a \in Addr : g \notin waiting[a] \cup granted \cup releasing[a]

\* A call that finds the count positive returns without waiting.
AcquireNow(g, a) ==
  /\ Idle(g)
  /\ count[a] > 0
  /\ count' = [count EXCEPT ![a] = @ - 1]
  /\ UNCHANGED <<waiting, granted, releasing>>

\* A call that finds the count zero starts to wait.
AcquireWait(g, a) ==
  /\ Idle(g)
  /\ count[a] = 0
  /\ waiting' = [waiting EXCEPT ![a] = @ \cup {g}]
  /\ UNCHANGED <<count, granted, releasing>>

\* A waiter takes one unit for itself and returns.
AcquireReturn(g, a) ==
  /\ g \in waiting[a]
  /\ count[a] > 0
  /\ count' = [count EXCEPT ![a] = @ - 1]
  /\ waiting' = [waiting EXCEPT ![a] = @ \ {g}]
  /\ UNCHANGED <<granted, releasing>>

\* A waiter that was passed a unit returns; it takes nothing more.
GrantedReturn(g) ==
  /\ g \in granted
  /\ granted' = granted \ {g}
  /\ UNCHANGED <<count, waiting, releasing>>

\* Semrelease publishes one unit.
Release(g, a) ==
  /\ Idle(g)
  /\ count' = [count EXCEPT ![a] = @ + 1]
  /\ releasing' = [releasing EXCEPT ![a] = @ \cup {g}]
  /\ UNCHANGED <<waiting, granted>>

\* ... and returns, either leaving the unit to whoever comes first,
ReleaseReturn(g, a) ==
  /\ g \in releasing[a]
  /\ releasing' = [releasing EXCEPT ![a] = @ \ {g}]
  /\ UNCHANGED <<count, waiting, granted>>

\* ... or taking a unit on behalf of a waiter at the same address.
ReleaseHandoff(g, a, w) ==
  /\ g \in releasing[a]
  /\ w \in waiting[a]
  /\ count[a] > 0
  /\ count' = [count EXCEPT ![a] = @ - 1]
  /\ waiting' = [waiting EXCEPT ![a] = @ \ {w}]
  /\ granted' = granted \cup {w}
  /\ releasing' = [releasing EXCEPT ![a] = @ \ {g}]

AbsNext ==
  \E g \in G :
    \/ GrantedReturn(g)
    \/ \E a \in Addr :
         \/ AcquireNow(g, a)
         \/ AcquireWait(g, a)
         \/ AcquireReturn(g, a)
         \/ Release(g, a)
         \/ ReleaseReturn(g, a)
         \/ \E w \in G : ReleaseHandoff(g, a, w)

AbsSpec == AbsInit /\ [][AbsNext]_avars
=============================================================================
