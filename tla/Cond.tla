-------------------------------- MODULE Cond --------------------------------
(***************************************************************************)
(* sync.Cond (sync/cond.go) and the notifyList of runtime/sema.go that it  *)
(* is made of.  A waiter takes a ticket, unlocks c.L, and then puts itself *)
(* on the list unless its ticket has been called already; a notifier looks *)
(* at the two counters without a lock, then calls the next ticket, or all, *)
(* under l.lock, and readies the waiters it took off the list after        *)
(* unlocking it.  Each critical section of l.lock is one action, since all *)
(* that happens to the list happens in one of them.                        *)
(*                                                                         *)
(* c.L is the abstract lock of module Locker.  Wait is called with c.L     *)
(* held, Signal and Broadcast with or without it (cond.go:57, 62).         *)
(***************************************************************************)
EXTENDS Integers, SequencesExt

CONSTANTS G,        \* goroutines
          W,        \* the counters are unsigned and wrap around at W, 2^32 in the code
          MaxLag    \* how far the counter notify may run past a ticket that was called
                    \* before its owner looks at it

Half == W \div 2

ASSUME WrapsLate == W \in Nat \ {0} /\ W % 2 = 0 /\ IsFiniteSet(G) /\ Cardinality(G) <= Half
ASSUME LagBounded == MaxLag \in 0 .. Half      \* what less asks for (sema.go:469-470)

VARIABLES
  L,          \* the goroutines that hold c.L: Locker's holders
  wait, notify,
  list,       \* the parked waiters from head to tail
  pc,         \* pc[g]: where g is in Wait, Signal or Broadcast
  tick,       \* tick[g]: the ticket of a waiter
  loaded,     \* loaded[g]: the value of wait that a notifier loaded
  toReady,    \* toReady[g]: the waiters a notifier has taken off the list
  lag,        \* history: by how much notify, unwrapped, exceeds the ticket of a
              \* goroutine that is not on the list yet
  covered     \* history: covered[g], who waited when notifier g was called and still does

vars == <<L, wait, notify, list, pc, tick, loaded, toReady, lag, covered>>

WaitPhases == {"unlock", "list", "parked", "relock"}
NotifyPhases == {"one", "all", "oneLocked", "allLocked", "ready"}

Init ==
  /\ L = {}
  /\ wait = 0
  /\ notify = 0
  /\ list = << >>
  /\ pc = [g \in G |-> "idle"]
  /\ tick = [g \in G |-> 0]
  /\ loaded = [g \in G |-> 0]
  /\ toReady = [g \in G |-> << >>]
  /\ lag = [g \in G |-> 0]
  /\ covered = [g \in G |-> {}]

Jump(g, phase) == pc' = [pc EXCEPT ![g] = phase]

\* A less that compares the counters without allowing for their wrapping around.
LessUnsigned(a, b) == a < b
\* int32(a-b) < 0
less(a, b) == (a - b) % W >= Half

\* Those in Wait whose ticket has not been called.
Unnotified == {g \in G : pc[g] \in {"unlock", "list"} /\ lag[g] = 0} \cup ToSet(list)

-----------------------------------------------------------------------------
(* c.L *)

Lock(g) ==
  /\ pc[g] = "idle" /\ L = {}
  /\ L' = {g}
  /\ UNCHANGED <<wait, notify, list, pc, tick, loaded, toReady, lag, covered>>

Unlock(g) ==
  /\ pc[g] = "idle" /\ g \in L
  /\ L' = {}
  /\ UNCHANGED <<wait, notify, list, pc, tick, loaded, toReady, lag, covered>>

-----------------------------------------------------------------------------
(* Wait *)

\* A notifyListAdd whose counter is wider than notify.
WaitAddWide(g) ==
  /\ pc[g] = "idle" /\ g \in L
  /\ tick' = [tick EXCEPT ![g] = wait % W]
  /\ wait' = wait + 1
  /\ Jump(g, "unlock")
  /\ UNCHANGED <<L, notify, list, loaded, toReady, lag, covered>>

\* runtime_notifyListAdd(&c.notify)
WaitAdd(g) ==
  /\ pc[g] = "idle" /\ g \in L
  /\ tick' = [tick EXCEPT ![g] = wait]
  /\ wait' = (wait + 1) % W
  /\ Jump(g, "unlock")
  /\ UNCHANGED <<L, notify, list, loaded, toReady, lag, covered>>

\* c.L.Unlock()
WaitUnlock(g) ==
  /\ pc[g] = "unlock"
  /\ L' = L \ {g}
  /\ Jump(g, "list")
  /\ UNCHANGED <<wait, notify, list, tick, loaded, toReady, lag, covered>>

\* A notifyListWait that parks without asking whether its ticket was called.
WaitListUnasked(g) ==
  /\ pc[g] = "list"
  /\ list' = Append(list, g)
  /\ Jump(g, "parked")
  /\ lag' = [lag EXCEPT ![g] = 0]
  /\ UNCHANGED <<L, wait, notify, tick, loaded, toReady, covered>>

\* runtime_notifyListWait(&c.notify, t)
WaitList(g) ==
  /\ pc[g] = "list"
  /\ IF less(tick[g], notify)
     THEN /\ Jump(g, "relock")
          /\ tick' = [tick EXCEPT ![g] = 0]
          /\ UNCHANGED list
     ELSE /\ Jump(g, "parked")
          /\ list' = Append(list, g)
          /\ UNCHANGED tick
  /\ lag' = [lag EXCEPT ![g] = 0]
  /\ UNCHANGED <<L, wait, notify, loaded, toReady, covered>>

\* c.L.Lock()
WaitRelock(g) ==
  /\ pc[g] = "relock" /\ L = {}
  /\ L' = {g}
  /\ Jump(g, "idle")
  /\ UNCHANGED <<wait, notify, list, tick, loaded, toReady, lag, covered>>

-----------------------------------------------------------------------------
(* Signal and Broadcast *)

\* The call, and the first load of the fast path.
NotifyCall(g, phase) ==
  /\ pc[g] = "idle" /\ phase \in {"one", "all"}
  /\ loaded' = [loaded EXCEPT ![g] = wait]
  /\ covered' = [covered EXCEPT ![g] = Unnotified]
  /\ Jump(g, phase)
  /\ UNCHANGED <<L, wait, notify, list, tick, toReady, lag>>

\* The call is over.
NotifyDone(g) == Jump(g, "idle") /\ covered' = [covered EXCEPT ![g] = {}]

\* The second load: nobody came since the last notification, or go on.
NotifyFast(g) ==
  /\ pc[g] \in {"one", "all"}
  /\ loaded' = [loaded EXCEPT ![g] = 0]
  /\ IF loaded[g] = notify
     THEN NotifyDone(g)
     ELSE /\ Jump(g, IF pc[g] = "one" THEN "oneLocked" ELSE "allLocked")
          /\ UNCHANGED covered
  /\ UNCHANGED <<L, wait, notify, list, tick, toReady, lag>>

\* What notify moving on by n means for the history variables.
LagAfter(n) ==
  [h \in G |->
     IF pc[h] \notin {"unlock", "list"} THEN 0
     ELSE IF lag[h] > 0 THEN lag[h] + n
     ELSE LET ahead == (tick[h] - notify) % W IN IF n > ahead THEN n - ahead ELSE 0]
Called(n) == {h \in Unnotified : (tick[h] - notify) % W < n}
Looking(h) == pc[h] \in NotifyPhases \ {"ready"}
Account(g, n) ==
  /\ lag' = LagAfter(n)
  /\ \A h \in G : lag'[h] <= MaxLag
  /\ covered' = [h \in G |-> IF h = g THEN {} ELSE covered[h] \ Called(n)]

\* A waiter that was woken is in Wait without a ticket.
DropTickets(gs) == tick' = [h \in G |-> IF h \in gs THEN 0 ELSE tick[h]]

\* A notifyListNotifyOne that wakes the head of the list, whatever its ticket.
NotifyOneHead(g) ==
  /\ pc[g] = "oneLocked"
  /\ IF notify = wait
     THEN /\ NotifyDone(g)
          /\ UNCHANGED <<notify, list, toReady, lag, tick>>
     ELSE /\ notify' = (notify + 1) % W
          /\ Account(g, 1)
          /\ IF list = << >>
             THEN Jump(g, "idle") /\ UNCHANGED <<list, toReady, tick>>
             ELSE /\ list' = Tail(list)
                  /\ toReady' = [toReady EXCEPT ![g] = <<Head(list)>>]
                  /\ DropTickets({Head(list)})
                  /\ Jump(g, "ready")
  /\ UNCHANGED <<L, wait, loaded>>

\* The critical section of notifyListNotifyOne: call the next ticket, and take the
\* first waiter that has it off the list, if there is one.
NotifyOne(g) ==
  LET at == {i \in 1 .. Len(list) : tick[list[i]] = notify}
  IN  /\ pc[g] = "oneLocked"
      /\ \/ /\ notify = wait
            /\ NotifyDone(g)
            /\ UNCHANGED <<notify, list, toReady, lag, tick>>
         \/ /\ notify # wait
            /\ notify' = (notify + 1) % W
            /\ Account(g, 1)
            /\ \/ /\ at = {}
                  /\ Jump(g, "idle")
                  /\ UNCHANGED <<list, toReady, tick>>
               \/ \E i \in at :
                  /\ \A j \in at : i <= j
                  /\ list' = RemoveAt(list, i)
                  /\ toReady' = [toReady EXCEPT ![g] = <<list[i]>>]
                  /\ DropTickets({list[i]})
                  /\ Jump(g, "ready")
      /\ UNCHANGED <<L, wait, loaded>>

\* A notifyListNotifyAll that calls only as many tickets as are on the list.
NotifyAllListed(g) ==
  /\ pc[g] = "allLocked"
  /\ notify' = (notify + Len(list)) % W
  /\ Account(g, Len(list))
  /\ list' = << >>
  /\ toReady' = [toReady EXCEPT ![g] = list]
  /\ DropTickets(ToSet(list))
  /\ Jump(g, IF list = << >> THEN "idle" ELSE "ready")
  /\ UNCHANGED <<L, wait, loaded>>

\* The critical section of notifyListNotifyAll: call every ticket.
NotifyAll(g) ==
  /\ pc[g] = "allLocked"
  /\ notify' = wait
  /\ Account(g, (wait - notify) % W)
  /\ list' = << >>
  /\ toReady' = [toReady EXCEPT ![g] = list]
  /\ DropTickets(ToSet(list))
  /\ Jump(g, IF list = << >> THEN "idle" ELSE "ready")
  /\ UNCHANGED <<L, wait, loaded>>

\* A loop that readies the first waiter of the local list only.
ReadyFirst(g) ==
  /\ pc[g] = "ready"
  /\ toReady' = [toReady EXCEPT ![g] = << >>]
  /\ pc' = [pc EXCEPT ![Head(toReady[g])] = "relock", ![g] = "idle"]
  /\ UNCHANGED <<L, wait, notify, list, tick, loaded, lag, covered>>

\* readyWithTime(s) for the next waiter taken off the list.
Ready(g) ==
  /\ pc[g] = "ready"
  /\ toReady' = [toReady EXCEPT ![g] = Tail(@)]
  /\ pc' = [pc EXCEPT ![Head(toReady[g])] = "relock",
                      ![g] = IF Len(toReady[g]) = 1 THEN "idle" ELSE "ready"]
  /\ UNCHANGED <<L, wait, notify, list, tick, loaded, lag, covered>>

-----------------------------------------------------------------------------
\* The steps of g inside a call, but for the last one of Wait, which needs c.L.
CondStep(g) ==
  \/ WaitUnlock(g) \/ WaitList(g)
  \/ NotifyFast(g) \/ NotifyOne(g) \/ NotifyAll(g) \/ Ready(g)

Next ==
  \E g \in G :
    \/ Lock(g) \/ Unlock(g) \/ WaitAdd(g) \/ WaitRelock(g)
    \/ NotifyCall(g, "one") \/ NotifyCall(g, "all")
    \/ CondStep(g)

Spec == Init /\ [][Next]_vars
FairSpec == Spec /\ \A g \in G : WF_vars(CondStep(g))

-----------------------------------------------------------------------------
\* Types of the list, the counters and the locals.
TypeOK ==
  /\ L \subseteq G
  /\ {wait, notify} \subseteq 0 .. W - 1
  /\ list \in Seq(G)
  /\ pc \in [G -> {"idle"} \cup WaitPhases \cup NotifyPhases]
  /\ tick \in [G -> 0 .. W - 1]
  /\ loaded \in [G -> 0 .. W - 1]
  /\ toReady \in [G -> Seq(G)]
  /\ lag \in [G -> 0 .. MaxLag]
  /\ covered \in [G -> SUBSET G]

(***************************************************************************)
(* Nobody sleeps on a ticket that has been called: the tickets on the list *)
(* lie between notify and wait, in the order of the counters as they wrap  *)
(* around (sema.go:489-510 compares with notify and appends under one      *)
(* lock; 561-599 calls a ticket and searches the list for it under the     *)
(* same).                                                                  *)
(***************************************************************************)
Outstanding == (wait - notify) % W
NobodyStranded == \A g \in ToSet(list) : (tick[g] - notify) % W < Outstanding

(***************************************************************************)
(* Seen from outside this is the condition variable of module CondVar: the *)
(* waiters are woken in the order of their tickets, although they reach    *)
(* the list in any order and some are called before they reach it, each of *)
(* them once.                                                              *)
(***************************************************************************)
OwnerOf(t) == CHOOSE g \in Unnotified : tick[g] = t
Waiting == [i \in 1 .. Outstanding |-> OwnerOf((notify + i - 1) % W)]
Woken == {g \in G : pc[g] \in WaitPhases} \ Unnotified
Abs == INSTANCE CondVar WITH waiting <- Waiting, woken <- Woken
ImplementsCondVar == Abs!CondVarSpec

(***************************************************************************)
(* A Signal or Broadcast that wakes nobody leaves nobody behind: all those *)
(* who waited when it was called have been woken by others meanwhile, even *)
(* though its fast path reads the two counters one after the other         *)
(* (sema.go:522, 554).                                                     *)
(***************************************************************************)
EmptyHanded(g) == Looking(g) /\ pc'[g] = "idle" /\ notify' = notify
NobodyPassedOver == [][\A g \in G : EmptyHanded(g) => covered[g] = {}]_vars

(***************************************************************************)
(* A waiter whose ticket was called comes back, whether it was on the list *)
(* or on its way to it (sema.go:541-546, 583-598).                         *)
(***************************************************************************)
CalledReturn ==
  \A g \in G :
    (pc[g] \in {"unlock", "list", "parked"} /\ g \notin Unnotified) ~> pc[g] = "relock"
=============================================================================
