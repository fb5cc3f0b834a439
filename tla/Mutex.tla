------------------------------- MODULE Mutex -------------------------------
(***************************************************************************)
(* sync.Mutex (sync/mutex.go): the state word that Lock, lockSlow, Unlock  *)
(* and unlockSlow change with single atomic operations, over the runtime   *)
(* semaphore of module Sema.  Every atomic operation is an action; local   *)
(* computation is folded into the next one, and a failed CompareAndSwap,   *)
(* which changes nothing, into the load of m.state that follows it.        *)
(***************************************************************************)
EXTENDS Sema

CONSTANTS mu,          \* the address of m.sema
          MaxSpin,     \* active_spin: runtime_canSpin refuses from this iteration on
          MaxQuick     \* after this many wakeups a waiter has waited more than 1ms

ASSUME MuAddr == mu \in Addr
ASSUME BoundsNat == MaxSpin \in Nat /\ MaxQuick \in Nat

VARIABLES
  st,        \* m.state, its fields apart
  holders,   \* goroutines whose Lock returned and was not undone by an Unlock
  pc,        \* pc[g]: where g is in Lock or Unlock
  old,       \* old[g]: the local old (the local new, right after Unlock's Add)
  awoke,     \* awoke[g], starving[g], iter[g]: the locals of lockSlow
  starving,
  iter,
  sleeps     \* sleeps[g]: how often g slept in this call; waitStartTime # 0 iff > 0

mvars == <<st, holders, pc, old, awoke, starving, iter, sleeps>>
vars == <<svars, mvars>>

State == [locked : BOOLEAN, woken : BOOLEAN, starving : BOOLEAN, waiters : Nat]
Zero == [locked |-> FALSE, woken |-> FALSE, starving |-> FALSE, waiters |-> 0]
Phases == {"idle", "slow", "loop", "acquire", "asleep", "handoff", "uloop", "release"}

MutexInit ==
  /\ SemaInit
  /\ st = Zero
  /\ holders = {}
  /\ pc = [g \in G |-> "idle"]
  /\ old = [g \in G |-> Zero]
  /\ awoke = [g \in G |-> FALSE]
  /\ starving = [g \in G |-> FALSE]
  /\ iter = [g \in G |-> 0]
  /\ sleeps = [g \in G |-> 0]

Idle(g) == pc[g] = "idle" /\ spc[g] = "idle"
Jump(g, phase) == pc' = [pc EXCEPT ![g] = phase]
\* A call is over: its locals are gone.
Done(g) ==
  /\ Jump(g, "idle")
  /\ old' = [old EXCEPT ![g] = Zero]
  /\ awoke' = [awoke EXCEPT ![g] = FALSE]
  /\ starving' = [starving EXCEPT ![g] = FALSE]
  /\ iter' = [iter EXCEPT ![g] = 0]
  /\ sleeps' = [sleeps EXCEPT ![g] = 0]

-----------------------------------------------------------------------------
(* Lock *)

\* A fast path that looks at the locked bit only.
LockBitOnly(g) ==
  /\ Idle(g) /\ g \notin holders
  /\ IF ~st.locked
     THEN /\ st' = [st EXCEPT !.locked = TRUE]
          /\ holders' = holders \cup {g}
          /\ UNCHANGED pc
     ELSE Jump(g, "slow") /\ UNCHANGED <<st, holders>>
  /\ UNCHANGED <<svars, old, awoke, starving, iter, sleeps>>

\* The fast path, or the call of lockSlow.
Lock(g) ==
  /\ Idle(g) /\ g \notin holders
  /\ IF st = Zero
     THEN /\ st' = [Zero EXCEPT !.locked = TRUE]
          /\ holders' = holders \cup {g}
          /\ UNCHANGED pc
     ELSE Jump(g, "slow") /\ UNCHANGED <<st, holders>>
  /\ UNCHANGED <<svars, old, awoke, starving, iter, sleeps>>

\* old = m.state
LoadState(g) ==
  /\ pc[g] = "slow"
  /\ old' = [old EXCEPT ![g] = st]
  /\ Jump(g, "loop")
  /\ UNCHANGED <<svars, st, holders, awoke, starving, iter, sleeps>>

\* One round of spinning, which may claim the woken flag; canSpin may say no.
CanSpin(g) == old[g].locked /\ ~old[g].starving /\ iter[g] < MaxSpin
Spin(g) ==
  LET claim == ~awoke[g] /\ ~old[g].woken /\ old[g].waiters > 0 /\ st = old[g]
  IN  /\ pc[g] = "loop"
      /\ CanSpin(g)
      /\ st' = IF claim THEN [st EXCEPT !.woken = TRUE] ELSE st
      /\ awoke' = [awoke EXCEPT ![g] = @ \/ claim]
      /\ iter' = [iter EXCEPT ![g] = @ + 1]
      /\ Jump(g, "slow")
      /\ UNCHANGED <<svars, holders, old, starving, sleeps>>

\* A lockSlow that forgets to clear the woken flag it owns.
DesiredKeepsWoken(g) ==
  LET o == old[g]
  IN  [locked   |-> o.locked \/ ~o.starving,
       woken    |-> o.woken,
       starving |-> o.starving \/ (starving[g] /\ o.locked),
       waiters  |-> IF o.locked \/ o.starving THEN o.waiters + 1 ELSE o.waiters]

\* A lockSlow whose new arrivals try for a starving mutex.
DesiredGreedy(g) ==
  LET o == old[g]
  IN  [locked   |-> TRUE,
       woken    |-> o.woken /\ ~awoke[g],
       starving |-> o.starving \/ (starving[g] /\ o.locked),
       waiters  |-> IF o.locked \/ o.starving THEN o.waiters + 1 ELSE o.waiters]

\* The local new of lockSlow.
Desired(g) ==
  LET o == old[g]
  IN  [locked   |-> o.locked \/ ~o.starving,
       woken    |-> o.woken /\ ~awoke[g],
       starving |-> o.starving \/ (starving[g] /\ o.locked),
       waiters  |-> IF o.locked \/ o.starving THEN o.waiters + 1 ELSE o.waiters]

\* A lockSlow that takes an unlocked mutex although it is being handed off.
TryLockBarging(g) ==
  /\ pc[g] = "loop"
  /\ IF st # old[g]
     THEN /\ old' = [old EXCEPT ![g] = st]
          /\ UNCHANGED <<st, holders, pc, awoke, starving, iter, sleeps>>
     ELSE /\ st' = Desired(g)
          /\ IF ~old[g].locked
             THEN Done(g) /\ holders' = holders \cup {g}
             ELSE /\ Jump(g, "acquire")
                  /\ old' = [old EXCEPT ![g] = Zero]
                  /\ awoke' = [awoke EXCEPT ![g] = FALSE]
                  /\ iter' = [iter EXCEPT ![g] = 0]
                  /\ UNCHANGED <<holders, starving, sleeps>>
  /\ UNCHANGED svars

\* CompareAndSwapInt32(&m.state, old, new) and what follows it.
TryLock(g) ==
  /\ pc[g] = "loop"
  /\ IF st # old[g]
     THEN /\ old' = [old EXCEPT ![g] = st]
          /\ UNCHANGED <<st, holders, pc, awoke, starving, iter, sleeps>>
     ELSE /\ st' = Desired(g)
          /\ IF ~old[g].locked /\ ~old[g].starving
             THEN Done(g) /\ holders' = holders \cup {g}
             ELSE /\ Jump(g, "acquire")
                  /\ old' = [old EXCEPT ![g] = Zero]
                  /\ awoke' = [awoke EXCEPT ![g] = FALSE]
                  /\ iter' = [iter EXCEPT ![g] = 0]
                  /\ UNCHANGED <<holders, starving, sleeps>>
  /\ UNCHANGED svars

\* runtime_SemacquireMutex(&m.sema, queueLifo, 1)
Sleep(g) ==
  /\ pc[g] = "acquire"
  /\ Semacquire(g, mu, sleeps[g] > 0)
  /\ Jump(g, "asleep")
  /\ sleeps' = [sleeps EXCEPT ![g] = IF @ < MaxQuick THEN @ + 1 ELSE @]
  /\ UNCHANGED <<st, holders, old, awoke, starving, iter>>

\* SemacquireMutex has returned: look at the clock and at m.state.
Wake(g) ==
  /\ pc[g] = "asleep" /\ spc[g] = "idle"
  /\ \E slow \in BOOLEAN :
       /\ sleeps[g] >= MaxQuick => slow
       /\ starving' = [starving EXCEPT ![g] = @ \/ slow]
  /\ old' = [old EXCEPT ![g] = st]
  /\ IF st.starving
     THEN Jump(g, "handoff") /\ UNCHANGED awoke
     ELSE Jump(g, "loop") /\ awoke' = [awoke EXCEPT ![g] = TRUE]
  /\ UNCHANGED <<svars, st, holders, iter, sleeps>>

\* A hand-off whose delta leaves the waiter count alone.
TakeHandoffStillWaiting(g) ==
  /\ pc[g] = "handoff"
  /\ st' = [st EXCEPT !.locked = TRUE,
                      !.starving = @ /\ starving[g] /\ old[g].waiters # 1]
  /\ holders' = holders \cup {g}
  /\ Done(g)
  /\ UNCHANGED svars

\* AddInt32(&m.state, delta): lock, stop waiting, perhaps leave starvation mode.
TakeHandoff(g) ==
  /\ pc[g] = "handoff"
  /\ st' = [st EXCEPT !.locked = TRUE,
                      !.waiters = @ - 1,
                      !.starving = @ /\ starving[g] /\ old[g].waiters # 1]
  /\ holders' = holders \cup {g}
  /\ Done(g)
  /\ UNCHANGED svars

-----------------------------------------------------------------------------
(* Unlock *)

\* AddInt32(&m.state, -mutexLocked).  Any goroutine may undo any Lock.
Unlock(g) ==
  /\ Idle(g)
  /\ \E h \in holders : holders' = holders \ {h}
  /\ LET new == [st EXCEPT !.locked = FALSE]
     IN  /\ st' = new
         /\ IF new = Zero
            THEN UNCHANGED <<pc, old>>
            ELSE /\ Jump(g, IF new.starving THEN "release" ELSE "uloop")
                 /\ old' = [old EXCEPT ![g] = new]
  /\ UNCHANGED <<svars, awoke, starving, iter, sleeps>>

\* An unlockSlow that does not ask whether anybody waits.
UnlockLoopUnasked(g) ==
  /\ pc[g] = "uloop"
  /\ IF old[g].locked \/ old[g].woken \/ old[g].starving
     THEN Jump(g, "idle") /\ old' = [old EXCEPT ![g] = Zero] /\ UNCHANGED st
     ELSE IF st = old[g]
     THEN /\ st' = [st EXCEPT !.waiters = @ - 1, !.woken = TRUE]
          /\ Jump(g, "release")
          /\ UNCHANGED old
     ELSE old' = [old EXCEPT ![g] = st] /\ UNCHANGED <<st, pc>>
  /\ UNCHANGED <<svars, holders, awoke, starving, iter, sleeps>>

\* A round of unlockSlow's loop: leave, or claim the right to wake a waiter.
UnlockLoop(g) ==
  /\ pc[g] = "uloop"
  /\ IF old[g].waiters = 0 \/ old[g].locked \/ old[g].woken \/ old[g].starving
     THEN Jump(g, "idle") /\ old' = [old EXCEPT ![g] = Zero] /\ UNCHANGED st
     ELSE IF st = old[g]
     THEN /\ st' = [st EXCEPT !.waiters = @ - 1, !.woken = TRUE]
          /\ Jump(g, "release")
          /\ UNCHANGED old
     ELSE old' = [old EXCEPT ![g] = st] /\ UNCHANGED <<st, pc>>
  /\ UNCHANGED <<svars, holders, awoke, starving, iter, sleeps>>

\* runtime_Semrelease(&m.sema, handoff, 1), with handoff in starvation mode.
WakeWaiter(g) ==
  /\ pc[g] = "release"
  /\ Semrelease(g, mu, old[g].starving)
  /\ Jump(g, "idle")
  /\ old' = [old EXCEPT ![g] = Zero]
  /\ UNCHANGED <<st, holders, awoke, starving, iter, sleeps>>

-----------------------------------------------------------------------------
\* The steps of g inside Lock or Unlock.
MutexStep(g) ==
  \/ LoadState(g) \/ Spin(g) \/ TryLock(g) \/ Sleep(g) \/ Wake(g) \/ TakeHandoff(g)
  \/ UnlockLoop(g) \/ WakeWaiter(g)
  \/ SemaStep(g) /\ UNCHANGED mvars

MutexNext == \E g \in G : Lock(g) \/ Unlock(g) \/ MutexStep(g)

MutexSpec == MutexInit /\ [][MutexNext]_vars
MutexFairSpec == MutexSpec /\ \A g \in G : WF_vars(MutexStep(g))

-----------------------------------------------------------------------------
\* Types of the lock word and of the locals, on top of those of the semaphore.
MutexTypeOK ==
  /\ SemaTypeOK
  /\ st \in State
  /\ holders \subseteq G
  /\ pc \in [G -> Phases]
  /\ old \in [G -> State]
  /\ awoke \in [G -> BOOLEAN]
  /\ starving \in [G -> BOOLEAN]
  /\ iter \in [G -> 0 .. MaxSpin]
  /\ sleeps \in [G -> 0 .. MaxQuick]

(***************************************************************************)
(* At most one goroutine is between the return of Lock and the Unlock that *)
(* undoes it, in normal mode, in starvation mode and across the changes    *)
(* between the two (mutex.go:69-73, type Mutex).                           *)
(***************************************************************************)
MutualExclusion == \A g, h \in holders : g = h

(***************************************************************************)
(* None of the throws is reached by a correct client: the woken flag is    *)
(* still set when its owner clears it (mutex.go:124), a waiter woken in    *)
(* starvation mode finds the state word free, unclaimed and with a waiter  *)
(* in it (mutex.go:146), and a held mutex is locked (mutex.go:195).        *)
(***************************************************************************)
NoThrow ==
  /\ \A g \in G : pc[g] = "loop" /\ awoke[g] => old[g].woken
  /\ \A g \in G : pc[g] = "handoff" =>
        ~old[g].locked /\ ~old[g].woken /\ old[g].waiters > 0
  /\ holders # {} => st.locked

(***************************************************************************)
(* The waiter count is neither short nor long: it is the number of callers *)
(* that announced themselves and are not the owner yet, less the one that  *)
(* an Unlock has already deducted and that has not looked at the state     *)
(* since (mutex.go:112, 149, 211).  One too few and Unlock returns past a  *)
(* sleeper; one too many and it releases the semaphore for nobody.         *)
(***************************************************************************)
Announced == {g \in G : pc[g] \in {"acquire", "asleep", "handoff"}}
WakeInFlight == st.woken /\ \A g \in G : ~awoke[g]
WaitersExact ==
  Cardinality(Announced) = st.waiters + (IF WakeInFlight THEN 1 ELSE 0)

\* Seen from outside, Mutex is the abstract lock of module Locker.
InLock(g) == pc[g] \in {"slow", "loop", "acquire", "asleep", "handoff"}
InUnlock(g) == pc[g] \in {"uloop", "release"} \/ (pc[g] = "idle" /\ spc[g] # "idle")
LockerView == INSTANCE Locker
  WITH locking <- {g \in G : InLock(g)},
       unlocking <- {g \in G : InUnlock(g)}
ImplementsLocker == LockerView!LockerSpec

(***************************************************************************)
(* A free mutex that is wanted does not stay free: no combination of the   *)
(* woken flag, the waiter count and the semaphore leaves every caller of   *)
(* Lock asleep while nobody holds it.                                      *)
(***************************************************************************)
LockAvailable == (holders = {} /\ \E g \in G : InLock(g)) ~> holders # {}

(***************************************************************************)
(* What mutex.go:53-57 says of starvation mode: ownership goes directly    *)
(* from the unlocking goroutine to the waiter at the front of the queue,   *)
(* and new arrivals queue at its tail.  So while a goroutine is queued, a  *)
(* unit of m.sema only ever leaves as the ticket of a dequeued waiter.     *)
(* The code does not keep this: semrelease1 first adds the unit to the     *)
(* count (sema.go:161) and only later tries to take it back for the waiter *)
(* (sema.go:191), and a goroutine that reaches semacquire1 in between      *)
(* takes it in the easy case.                                              *)
(***************************************************************************)
DirectHandoff ==
  [][st.starving /\ queue[mu] # << >> /\ sema'[mu] < sema[mu]
       => \E g \in G : ticket'[g] /\ ~ticket[g]]_vars
=============================================================================
