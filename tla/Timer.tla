------------------------------- MODULE Timer -------------------------------
(***************************************************************************)
(* The runtime's timers (runtime/time.go): each P has a heap of timers     *)
(* with a lock; whoever sets or stops a timer from elsewhere only changes  *)
(* its status word with CompareAndSwap and leaves the heap to the P.       *)
(*                                                                         *)
(* An action is one atomic operation on a status or a counter.  A status   *)
(* that its owner sets and leaves within one locked operation on one timer *)
(* (timerRunning, timerRemoving) does not show.  The heap is a set, its    *)
(* top one of the timers with the least when field: what the sifting does  *)
(* to the slice is not modelled.                                           *)
(***************************************************************************)
EXTENDS Integers, FiniteSets

CONSTANTS Timers,
          Ps,          \* the Ps; M number p runs on P number p
          Gs,          \* goroutines that set and stop timers
          period,      \* period[t]: 0, or the timer repeats
          MaxTime,     \* time stops here: a timer set to a later time never runs
          MaxCalls,    \* how many timer calls the goroutines make
          None

ASSUME TimerConstants ==
  /\ IsFiniteSet(Timers) /\ IsFiniteSet(Gs)
  /\ MaxTime \in Nat /\ MaxCalls \in Nat
  /\ period \in [Timers -> Nat]
  /\ None \notin Ps \cup Gs \cup Nat
  /\ Ps \cap Gs = {}

Times == 1 .. MaxTime + 1

VARIABLES
  now,           \* nanotime()
  \* of a timer
  status, when, nextwhen,
  tpp,           \* t.pp: the P whose heap t is in, or None
  fresh,         \* the timers that nothing was done with yet
  \* of a P
  lock,          \* pp.timersLock: the M or goroutine that holds it, or None
  heap,          \* pp.timers; pp.numTimers is its size
  timer0When, adjustTimers, deletedTimers,
  \* of a goroutine in addtimer, deltimer or modtimer
  gpc, gt, gp, old, gwhen, calls,
  \* of an M in checkTimers
  mpc, mp,
  todo,          \* the timers that a loop over the heap has yet to look at
  moved,         \* adjusttimers: the timers it took off the heap
  cdel, cearlier,
  rnow,          \* its reading of the clock
  event          \* what the last step did: a timer was set, stopped or run (for TimerSet)

tvars == <<status, when, nextwhen, tpp, fresh>>
hvars == <<lock, heap, timer0When, adjustTimers, deletedTimers>>
gvars == <<gpc, gt, gp, old, gwhen, calls>>
mvars == <<mpc, mp, rnow, todo, moved, cdel, cearlier>>
vars == <<now, tvars, hvars, gvars, mvars, event>>

Init ==
  /\ now = 0
  /\ status = [t \in Timers |-> "NoStatus"]
  /\ when = [t \in Timers |-> 0] /\ nextwhen = [t \in Timers |-> 0]
  /\ tpp = [t \in Timers |-> None]
  /\ fresh = Timers
  /\ lock = [p \in Ps |-> None]
  /\ heap = [p \in Ps |-> {}]
  /\ timer0When = [p \in Ps |-> 0]
  /\ adjustTimers = [p \in Ps |-> 0] /\ deletedTimers = [p \in Ps |-> 0]
  /\ gpc = [g \in Gs |-> "idle"]
  /\ gt = [g \in Gs |-> None] /\ gp = [g \in Gs |-> None]
  /\ old = [g \in Gs |-> "NoStatus"] /\ gwhen = [g \in Gs |-> 0]
  /\ calls = 0
  /\ mpc = [m \in Ps |-> "idle"] /\ mp = [m \in Ps |-> None] /\ rnow = [m \in Ps |-> 0]
  /\ todo = [m \in Ps |-> {}] /\ moved = [m \in Ps |-> {}]
  /\ cdel = [m \in Ps |-> 0] /\ cearlier = [m \in Ps |-> 0]
  /\ event = None

Set(f, x, v) == [f EXCEPT ![x] = v]
Add(f, x, n) == [f EXCEPT ![x] = @ + n]

Modified == {"ModifiedEarlier", "ModifiedLater"}

-----------------------------------------------------------------------------
(* The heap of a P, for the holder of its lock *)

Top(p) == {t \in heap[p] : \A u \in heap[p] : when[t] <= when[u]}

\* updateTimer0When for the heap that p has after the step
updateTimer0When(p) ==
  timer0When' = [timer0When EXCEPT ![p] =
    IF heap'[p] = {} THEN 0
    ELSE CHOOSE w \in {when'[t] : t \in heap'[p]} : \A t \in heap'[p] : w <= when'[t]]

\* doaddtimer, with t.when already set to w
doaddtimer(p, t, w) ==
  /\ heap' = [heap EXCEPT ![p] = @ \cup {t}]
  /\ tpp' = Set(tpp, t, p)
  /\ timer0When' = IF \A u \in heap[p] : w < when[u] THEN Set(timer0When, p, w) ELSE timer0When

\* dodeltimer, and the status that t gets
dodeltimer(p, t, s) ==
  /\ heap' = [heap EXCEPT ![p] = @ \ {t}]
  /\ tpp' = Set(tpp, t, None)
  /\ status' = Set(status, t, s)

\* A deleted timer is removed.
RemoveDeleted(p, t) ==
  /\ status[t] = "Deleted"
  /\ UNCHANGED <<when, adjustTimers>>
  /\ dodeltimer(p, t, "Removed")
  /\ updateTimer0When(p)
  /\ deletedTimers' = Add(deletedTimers, p, -1)

\* A modified timer is moved to its place.
MoveModified(p, t) ==
  /\ status[t] \in Modified
  /\ when' = Set(when, t, nextwhen[t])
  /\ status' = Set(status, t, "Waiting")
  /\ UNCHANGED <<heap, tpp, deletedTimers>>
  /\ updateTimer0When(p)
  /\ adjustTimers' = IF status[t] = "ModifiedEarlier" THEN Add(adjustTimers, p, -1) ELSE adjustTimers

-----------------------------------------------------------------------------
(* addtimer, deltimer, modtimer *)

ArmedNow(g) == event' = [act |-> "arm", t |-> gt[g], when |-> gwhen[g]]
Stopped(g, t, was) == event' = [act |-> "stop", g |-> g, t |-> t, was |-> was]

GJump(g, where) == gpc' = Set(gpc, g, where)
Call(g) == gpc[g] = "idle" /\ calls < MaxCalls /\ calls' = calls + 1
Locals(g, t, p, s, w) ==
  gt' = Set(gt, g, t) /\ gp' = Set(gp, g, p) /\ old' = Set(old, g, s) /\ gwhen' = Set(gwhen, g, w)
Done(g) == GJump(g, "idle") /\ Locals(g, None, None, "NoStatus", 0)

\* A new timer: the P of g is locked and its heap cleaned,
addtimer(g) ==
  /\ Call(g)
  /\ \E t \in fresh, p \in Ps, w \in Times :
       /\ lock[p] = None
       /\ lock' = Set(lock, p, g)
       /\ status' = Set(status, t, "Waiting")
       /\ fresh' = fresh \ {t}
       /\ Locals(g, t, p, "NoStatus", w)
  /\ GJump(g, "clean")
  /\ event' = None
  /\ UNCHANGED <<now, when, nextwhen, tpp, heap, timer0When, adjustTimers, deletedTimers, mvars>>

cleantimers(g) ==
  /\ gpc[g] = "clean"
  /\ \E t \in Top(gp[g]) : RemoveDeleted(gp[g], t) \/ MoveModified(gp[g], t)
  /\ event' = None
  /\ UNCHANGED <<now, nextwhen, fresh, lock, gvars, mvars>>

\* and the timer added.
AddToHeap(g) ==
  LET p == gp[g]  t == gt[g] IN
  /\ gpc[g] = "clean"
  /\ heap[p] = {} \/ \E u \in Top(p) : status[u] \notin Modified \cup {"Deleted"}
  /\ when' = Set(when, t, gwhen[g])
  /\ doaddtimer(p, t, gwhen[g])
  /\ lock' = Set(lock, p, None)
  /\ Done(g)
  /\ ArmedNow(g)
  /\ UNCHANGED <<now, status, nextwhen, fresh, adjustTimers, deletedTimers, calls, mvars>>

\* A timer that no addtimer is at.
Known(t) == ~\E g \in Gs : gpc[g] = "clean" /\ gt[g] = t

\* deltimer, also of a timer that was never added, waits while it is moved or modified.
deltimer(g) ==
  /\ Call(g)
  /\ \E t \in {u \in Timers : Known(u)} :
       \/ /\ status[t] \in {"Waiting"} \cup Modified
          /\ status' = Set(status, t, "Modifying")
          /\ Locals(g, t, tpp[t], status[t], 0)
          /\ GJump(g, IF status[t] = "ModifiedEarlier" THEN "unadjust" ELSE "delete")
          /\ event' = None
       \/ /\ status[t] \in {"NoStatus", "Deleted", "Removed"}
          /\ Stopped(g, t, FALSE)
          /\ UNCHANGED <<status, gpc, gt, gp, old, gwhen>>
  /\ UNCHANGED <<now, when, nextwhen, tpp, fresh, hvars, mvars>>

Unadjust(g) ==
  /\ gpc[g] = "unadjust"
  /\ adjustTimers' = Add(adjustTimers, gp[g], -1)
  /\ GJump(g, "delete")
  /\ event' = None
  /\ UNCHANGED <<now, tvars, lock, heap, timer0When, deletedTimers, gt, gp, old, gwhen, calls, mvars>>

Delete(g) ==
  /\ gpc[g] = "delete"
  /\ status' = Set(status, gt[g], "Deleted")
  /\ GJump(g, "deleted")
  /\ Stopped(g, gt[g], TRUE)
  /\ UNCHANGED <<now, when, nextwhen, tpp, fresh, hvars, gt, gp, old, gwhen, calls, mvars>>

\* The P's counter comes last, when the timer may be gone from the heap.
CountDeleted(g) ==
  /\ gpc[g] = "deleted"
  /\ deletedTimers' = Add(deletedTimers, gp[g], 1)
  /\ Done(g)
  /\ event' = None
  /\ UNCHANGED <<now, tvars, lock, heap, timer0When, adjustTimers, calls, mvars>>

\* modtimer, and resettimer, also of a new timer
modtimer(g) ==
  /\ Call(g)
  /\ \E t \in {u \in Timers : Known(u)}, w \in Times :
       LET s == status[t] IN
       /\ s \in {"Waiting", "NoStatus", "Removed", "Deleted"} \cup Modified
       /\ status' = Set(status, t, "Modifying")
       /\ fresh' = fresh \ {t}
       /\ IF s \in {"NoStatus", "Removed"}
          THEN GJump(g, "readd") /\ \E p \in Ps : Locals(g, t, p, s, w)
          ELSE /\ GJump(g, IF s = "Deleted" THEN "undelete" ELSE "modify")
               /\ Locals(g, t, tpp[t], s, w)
  /\ event' = None
  /\ UNCHANGED <<now, when, nextwhen, tpp, hvars, mvars>>

\* The timer was in no heap: it goes to the heap of g's P,
Readd(g) ==
  LET p == gp[g] IN
  /\ gpc[g] = "readd"
  /\ lock[p] = None
  /\ when' = Set(when, gt[g], gwhen[g])
  /\ doaddtimer(p, gt[g], gwhen[g])
  /\ GJump(g, "added")
  /\ event' = None
  /\ UNCHANGED <<now, status, nextwhen, fresh, lock, adjustTimers, deletedTimers,
                 gt, gp, old, gwhen, calls, mvars>>

\* and waits there.
Added(g) ==
  /\ gpc[g] = "added"
  /\ status' = Set(status, gt[g], "Waiting")
  /\ Done(g)
  /\ ArmedNow(g)
  /\ UNCHANGED <<now, when, nextwhen, tpp, fresh, hvars, calls, mvars>>

\* The timer is in the heap of some P, whose counters are told,
Undelete(g) ==
  /\ gpc[g] = "undelete"
  /\ deletedTimers' = Add(deletedTimers, gp[g], -1)
  /\ GJump(g, "modify")
  /\ event' = None
  /\ UNCHANGED <<now, tvars, lock, heap, timer0When, adjustTimers, gt, gp, old, gwhen, calls, mvars>>

\* A plausible bug: the comparison is with the time of the modtimer before.
NewStatusNext(g) == IF gwhen[g] < nextwhen[gt[g]] THEN "ModifiedEarlier" ELSE "ModifiedLater"

NewStatus(g) == IF gwhen[g] < when[gt[g]] THEN "ModifiedEarlier" ELSE "ModifiedLater"
\* A plausible bug: a modified timer that was earlier already is counted again.
ModifyCountsTwice(g) ==
  /\ gpc[g] = "modify"
  /\ adjustTimers' = IF NewStatus(g) = "ModifiedEarlier" THEN Add(adjustTimers, gp[g], 1) ELSE adjustTimers
  /\ GJump(g, "publish")
  /\ event' = None
  /\ UNCHANGED <<now, tvars, lock, heap, timer0When, deletedTimers, gt, gp, old, gwhen, calls, mvars>>

Modify(g) ==
  LET minus == IF old[g] = "ModifiedEarlier" THEN 1 ELSE 0
      plus == IF NewStatus(g) = "ModifiedEarlier" THEN 1 ELSE 0
  IN
  /\ gpc[g] = "modify"
  /\ adjustTimers' = Add(adjustTimers, gp[g], plus - minus)
  /\ GJump(g, "publish")
  /\ event' = None
  /\ UNCHANGED <<now, tvars, lock, heap, timer0When, deletedTimers, gt, gp, old, gwhen, calls, mvars>>

\* and its new time is left in nextwhen.
Publish(g) ==
  /\ gpc[g] = "publish"
  /\ nextwhen' = Set(nextwhen, gt[g], gwhen[g])
  /\ status' = Set(status, gt[g], NewStatus(g))
  /\ Done(g)
  /\ ArmedNow(g)
  /\ UNCHANGED <<now, when, tpp, fresh, hvars, calls, mvars>>

-----------------------------------------------------------------------------
(* checkTimers, by M number m *)

MJump(m, where) == mpc' = Set(mpc, m, where)

\* The counters are unsigned: below zero is very large.
ManyDeleted(p) == deletedTimers[p] < 0 \/ deletedTimers[p] > Cardinality(heap[p]) \div 4

\* M number m looks at its own P, or at another one to steal its timers.
checkTimers(m) ==
  /\ mpc[m] = "idle"
  /\ \E p \in Ps :
       /\ lock[p] = None
       /\ \/ adjustTimers[p] # 0
          \/ timer0When[p] # 0 /\ (now >= timer0When[p] \/ (p = m /\ ManyDeleted(p)))
       /\ lock' = Set(lock, p, m)
       /\ mp' = Set(mp, m, p)
       /\ todo' = Set(todo, m, IF adjustTimers[p] = 0 THEN {} ELSE heap[p])
  /\ rnow' = Set(rnow, m, now)
  /\ MJump(m, "locked")
  /\ event' = None
  /\ UNCHANGED <<now, tvars, heap, timer0When, adjustTimers, deletedTimers, gvars, moved, cdel, cearlier>>

\* What the loop of adjusttimers has left after t was taken off the heap: dodeltimer puts
\* the last timer in t's place and may sift it above one that the loop has passed, so that
\* the loop skips it.
Onward(m, t) ==
  LET skipped == {u \in todo[m] \ {t} : \E v \in heap[mp[m]] \ todo[m] : when[u] < when[v]}
  IN  {todo[m] \ {t}} \cup {todo[m] \ {t, u} : u \in skipped}

\* One round of adjusttimers' loop; a timer that is being modified is waited for.
adjusttimers(m) ==
  LET p == mp[m] IN
  /\ mpc[m] = "locked"
  /\ \E t \in todo[m] : \E left \in Onward(m, t) :
       \/ /\ RemoveDeleted(p, t)
          /\ todo' = Set(todo, m, left)
          /\ UNCHANGED moved
       \/ /\ status[t] \in Modified
          /\ when' = Set(when, t, nextwhen[t])
          /\ dodeltimer(p, t, "Moving")
          /\ updateTimer0When(p)
          /\ moved' = Set(moved, m, moved[m] \cup {t})
          /\ IF status[t] = "ModifiedEarlier"
             THEN /\ adjustTimers' = Add(adjustTimers, p, -1)
                  /\ todo' = Set(todo, m, IF adjustTimers[p] <= 1 THEN {} ELSE left)
             ELSE todo' = Set(todo, m, left) /\ UNCHANGED adjustTimers
          /\ UNCHANGED deletedTimers
       \/ /\ status[t] = "Waiting"
          /\ todo' = Set(todo, m, todo[m] \ {t})
          /\ UNCHANGED <<status, when, tpp, heap, timer0When, adjustTimers, deletedTimers, moved>>
  /\ event' = None
  /\ UNCHANGED <<now, nextwhen, fresh, lock, gvars, mpc, mp, rnow, cdel, cearlier>>

addAdjustedTimers(m) ==
  /\ mpc[m] = "locked" /\ todo[m] = {}
  /\ \E t \in moved[m] :
       /\ doaddtimer(mp[m], t, when[t])
       /\ status' = Set(status, t, "Waiting")
       /\ moved' = Set(moved, m, moved[m] \ {t})
  /\ event' = None
  /\ UNCHANGED <<now, when, nextwhen, fresh, lock, adjustTimers, deletedTimers, gvars,
                 mpc, mp, rnow, todo, cdel, cearlier>>

Running(m) == mpc[m] = "locked" /\ todo[m] = {} /\ moved[m] = {}

\* runtimer: what is not in order at the top of the heap is,
runtimer(m) ==
  /\ Running(m)
  /\ \E t \in Top(mp[m]) : RemoveDeleted(mp[m], t) \/ MoveModified(mp[m], t)
  /\ event' = None
  /\ UNCHANGED <<now, nextwhen, fresh, lock, gvars, mvars>>

\* a timer that is due is run, with the lock released,
runOneTimer(m) ==
  LET p == mp[m] IN
  /\ Running(m)
  /\ \E t \in Top(p) :
       /\ status[t] = "Waiting" /\ when[t] <= rnow[m]
       /\ event' = [act |-> "run", t |-> t]
       /\ \/ /\ period[t] > 0
             /\ when' = Add(when, t, period[t] * (1 + (rnow[m] - when[t]) \div period[t]))
             /\ UNCHANGED <<status, tpp, heap>>
          \/ /\ period[t] = 0
             /\ dodeltimer(p, t, "NoStatus")
             /\ UNCHANGED when
       /\ updateTimer0When(p)
  /\ lock' = Set(lock, p, None)
  /\ MJump(m, "call")
  /\ UNCHANGED <<now, nextwhen, fresh, adjustTimers, deletedTimers, gvars,
                 mp, rnow, todo, moved, cdel, cearlier>>

Relock(m) ==
  /\ mpc[m] = "call"
  /\ lock[mp[m]] = None
  /\ lock' = Set(lock, mp[m], m)
  /\ MJump(m, "locked")
  /\ event' = None
  /\ UNCHANGED <<now, tvars, heap, timer0When, adjustTimers, deletedTimers, gvars,
                 mp, rnow, todo, moved, cdel, cearlier>>

\* and nothing more is due.  The P's own M may clear deleted timers.
EndRun(m) ==
  LET p == mp[m] IN
  /\ Running(m)
  /\ heap[p] = {} \/ \E t \in Top(p) : status[t] = "Waiting" /\ when[t] > rnow[m]
  /\ rnow' = Set(rnow, m, 0)
  /\ IF p = m /\ ManyDeleted(p)
     THEN /\ MJump(m, "clear")
          /\ todo' = Set(todo, m, heap[p])
          /\ UNCHANGED <<mp, lock>>
     ELSE /\ MJump(m, "idle")
          /\ lock' = Set(lock, p, None)
          /\ mp' = Set(mp, m, None)
          /\ UNCHANGED todo
  /\ event' = None
  /\ UNCHANGED <<now, tvars, heap, timer0When, adjustTimers, deletedTimers, gvars, moved, cdel, cearlier>>

\* A plausible bug: a modified timer keeps its old time.
ClearKeepsWhen(m) ==
  LET p == mp[m] IN
  /\ mpc[m] = "clear"
  /\ \E t \in todo[m] :
       /\ todo' = Set(todo, m, todo[m] \ {t})
       /\ \/ /\ status[t] = "Waiting"
             /\ UNCHANGED <<status, tpp, heap, cdel, cearlier>>
          \/ /\ status[t] \in Modified
             /\ status' = Set(status, t, "Waiting")
             /\ cearlier' = IF status[t] = "ModifiedEarlier" THEN Add(cearlier, m, 1) ELSE cearlier
             /\ UNCHANGED <<tpp, heap, cdel>>
          \/ /\ status[t] = "Deleted"
             /\ dodeltimer(p, t, "Removed")
             /\ cdel' = Add(cdel, m, 1)
             /\ UNCHANGED cearlier
  /\ event' = None
  /\ UNCHANGED <<now, nextwhen, fresh, when, lock, timer0When, adjustTimers, deletedTimers, gvars,
                 mpc, mp, rnow, moved>>

\* One round of the loop over the heap,
clearDeletedTimers(m) ==
  LET p == mp[m] IN
  /\ mpc[m] = "clear"
  /\ \E t \in todo[m] :
       /\ todo' = Set(todo, m, todo[m] \ {t})
       /\ \/ /\ status[t] = "Waiting"
             /\ UNCHANGED <<status, when, tpp, heap, cdel, cearlier>>
          \/ /\ status[t] \in Modified
             /\ when' = Set(when, t, nextwhen[t])
             /\ status' = Set(status, t, "Waiting")
             /\ cearlier' = IF status[t] = "ModifiedEarlier" THEN Add(cearlier, m, 1) ELSE cearlier
             /\ UNCHANGED <<tpp, heap, cdel>>
          \/ /\ status[t] = "Deleted"
             /\ dodeltimer(p, t, "Removed")
             /\ cdel' = Add(cdel, m, 1)
             /\ UNCHANGED <<when, cearlier>>
  /\ event' = None
  /\ UNCHANGED <<now, nextwhen, fresh, lock, timer0When, adjustTimers, deletedTimers, gvars,
                 mpc, mp, rnow, moved>>

\* and its end, where the counters are brought up to date.
EndClear(m) ==
  LET p == mp[m] IN
  /\ mpc[m] = "clear" /\ todo[m] = {}
  /\ deletedTimers' = Add(deletedTimers, p, -cdel[m])
  /\ adjustTimers' = Add(adjustTimers, p, -cearlier[m])
  /\ UNCHANGED <<now, tvars, heap, gvars, rnow, todo, moved>>
  /\ updateTimer0When(p)
  /\ lock' = Set(lock, p, None)
  /\ MJump(m, "idle")
  /\ mp' = Set(mp, m, None)
  /\ cdel' = Set(cdel, m, 0) /\ cearlier' = Set(cearlier, m, 0)
  /\ event' = None

-----------------------------------------------------------------------------

Tick ==
  /\ now < MaxTime
  /\ now' = now + 1
  /\ event' = None
  /\ UNCHANGED <<tvars, hvars, gvars, mvars>>

GCall(g) == addtimer(g) \/ deltimer(g) \/ modtimer(g)
GStep(g) ==
  \/ cleantimers(g) \/ AddToHeap(g) \/ Unadjust(g) \/ Delete(g) \/ CountDeleted(g)
  \/ Readd(g) \/ Added(g) \/ Undelete(g) \/ Modify(g) \/ Publish(g)
MStep(m) ==
  \/ adjusttimers(m) \/ addAdjustedTimers(m) \/ runtimer(m) \/ runOneTimer(m) \/ Relock(m)
  \/ EndRun(m) \/ clearDeletedTimers(m) \/ EndClear(m)

Next ==
  \/ Tick
  \/ \E g \in Gs : GCall(g) \/ GStep(g)
  \/ \E m \in Ps : checkTimers(m) \/ MStep(m)

Spec == Init /\ [][Next]_vars

-----------------------------------------------------------------------------
(* Properties *)

\* Types: the timers, the Ps and whoever works on them are named by what may
\* name them; adjustTimers never falls below zero.
TypeOK ==
  /\ now \in 0 .. MaxTime
  /\ status \in [Timers -> {"NoStatus", "Waiting", "Deleted", "Removed", "Modifying", "Moving"}
                            \cup Modified]
  /\ tpp \in [Timers -> Ps \cup {None}]
  /\ lock \in [Ps -> Ps \cup Gs \cup {None}]
  /\ \A p \in Ps : heap[p] \subseteq Timers
  /\ adjustTimers \in [Ps -> Nat] /\ deletedTimers \in [Ps -> Int]
  /\ gt \in [Gs -> Timers \cup {None}] /\ gp \in [Gs -> Ps \cup {None}]
  /\ mp \in [Ps -> Ps \cup {None}]

\* Who may change t now: the goroutine that set timerModifying.
Modifying(g, t) ==
  gt[g] = t /\ gpc[g] \in {"unadjust", "delete", "undelete", "readd", "added", "modify", "publish"}

\* The statuses say where a timer is (or badTimer and the throws of
\* doaddtimer and dodeltimer stop the program): it is in the one heap that
\* t.pp names, unless it is inactive, on its way in, or taken off to be moved.
StatusesRight ==
  \A t \in Timers :
    /\ \A p \in Ps : t \in heap[p] <=> tpp[t] = p
    /\ Cardinality({g \in Gs : Modifying(g, t)}) = IF status[t] = "Modifying" THEN 1 ELSE 0
    /\ status[t] \in {"Deleted"} \cup Modified => tpp[t] # None
    /\ status[t] \in {"NoStatus", "Removed"} => tpp[t] = None
    /\ status[t] = "Waiting" /\ tpp[t] = None =>
         \E g \in Gs : gpc[g] = "clean" /\ gt[g] = t
    /\ status[t] = "Moving" <=> \E m \in Ps : t \in moved[m]
    /\ status[t] = "Moving" => tpp[t] = None
    /\ \A g \in Gs : Modifying(g, t) =>
         tpp[t] = IF gpc[g] = "readd" THEN None ELSE gp[g]

Count(S) == Cardinality(S)

\* What the M that has p's lock has counted and not yet taken off p's counter
Uncounted(p, c) == IF lock[p] \in Ps THEN c[lock[p]] ELSE 0

\* adjustTimers counts the timers modified to run earlier, and the modtimers
\* and deltimers that have yet to count one in or out: when it is zero,
\* no such timer is waiting in the heap to be looked at.  timer0When is the
\* time of the heap's top.
CountersRight ==
  \A p \in Ps :
    /\ adjustTimers[p] =
         Count({t \in heap[p] : status[t] = "ModifiedEarlier"})
         + Count({g \in Gs : /\ gp[g] = p /\ old[g] = "ModifiedEarlier"
                            /\ gpc[g] \in {"unadjust", "modify"}})
         + Count({g \in Gs : /\ gp[g] = p /\ gpc[g] = "publish"
                            /\ NewStatus(g) = "ModifiedEarlier"})
         + Uncounted(p, cearlier)
    /\ deletedTimers[p] =
         Count({t \in heap[p] : status[t] = "Deleted"})
         + Count({g \in Gs : gp[g] = p /\ gpc[g] = "undelete"})
         - Count({g \in Gs : gp[g] = p /\ gpc[g] = "deleted"})
         + Uncounted(p, cdel)
    /\ lock[p] = None =>
         IF heap[p] = {} THEN timer0When[p] = 0
         ELSE \E t \in Top(p) : timer0When[p] = when[t]

\* What the status protocol keeps.
TimerStructure == TypeOK /\ StatusesRight /\ CountersRight

\* When t is to run next.  A call that modifies it takes effect at its end.
Armed(t) ==
  LET s == IF status[t] = "Modifying" THEN old[CHOOSE g \in Gs : Modifying(g, t)] ELSE status[t]
  IN  IF s \in Modified THEN nextwhen[t]
      ELSE IF s = "Moving" \/ (s = "Waiting" /\ tpp[t] # None) THEN when[t]
      ELSE None

TS == INSTANCE TimerSet WITH armed <- [t \in Timers |-> Armed(t)]

\* The heaps and the status words are the timers of module TimerSet: each
\* setting runs at most once and not early, whoever moves the timer between
\* heaps meanwhile, and deltimer says truly whether it came in time.
ImplementsTimers == TS!SetSpec

\* While nobody works on the heap of p and p's counters give nobody a reason
\* to, no timer in it is due, except for one that a modtimer or deltimer is at:
\* whatever was modified and deleted meanwhile, no timer set to an earlier
\* time is overlooked because adjustTimers was counted down once too often.
NothingOverlooked ==
  \A p \in Ps :
    lock[p] = None /\ adjustTimers[p] = 0 /\ (timer0When[p] = 0 \/ now < timer0When[p]) =>
      \A t \in heap[p] : status[t] = "Modifying" \/ Armed(t) = None \/ Armed(t) > now
=============================================================================
