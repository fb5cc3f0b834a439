------------------------------ MODULE RWMutex ------------------------------
(***************************************************************************)
(* sync.RWMutex (sync/rwmutex.go) over the runtime semaphores of module    *)
(* Sema: readers count themselves in readerCount, a writer makes the count *)
(* negative and waits until the readers it found there have left.  Every   *)
(* atomic operation and every call of the runtime is an action.            *)
(*                                                                         *)
(* The field w is the abstract lock of module Locker, which the algorithm  *)
(* of module Mutex implements.  A client holds at most one lock, of either *)
(* kind, when it asks for one (rwmutex.go:22-27); any goroutine may undo   *)
(* the lock of another (rwmutex.go:115-117).                               *)
(***************************************************************************)
EXTENDS Sema, Integers

CONSTANTS readerSem, writerSem,    \* addresses of the two semaphores
          MaxReaders               \* rwmutexMaxReaders

ASSUME SemsDistinct == {readerSem, writerSem} \subseteq Addr /\ readerSem # writerSem
ASSUME MaxReadersEnough == MaxReaders \in Nat /\ MaxReaders > Cardinality(G)

VARIABLES
  w,             \* the goroutines whose Lock of field w is not undone: Locker's holders
  readerCount,
  readerWait,
  pc,            \* pc[g]: where g is in RLock, RUnlock, Lock or Unlock
  r,             \* r[g]: the local r of Lock; in Unlock, the readers still to release
  readers,       \* goroutines whose RLock returned and was not undone
  writers        \* goroutines whose Lock returned and was not undone

rwvars == <<w, readerCount, readerWait, pc, r, readers, writers>>
vars == <<svars, rwvars>>

RPhases == {"racquire", "rasleep"}               \* in RLock, behind a writer
WPhases == {"count", "wacquire", "wasleep"}      \* in Lock, the readers know of it
Phases ==
  {"idle", "wlock", "announce", "depart", "wake", "release", "wunlock"} \cup RPhases \cup WPhases

RWInit ==
  /\ SemaInit
  /\ w = {}
  /\ readerCount = 0
  /\ readerWait = 0
  /\ pc = [g \in G |-> "idle"]
  /\ r = [g \in G |-> 0]
  /\ readers = {}
  /\ writers = {}

Idle(g) == pc[g] = "idle" /\ spc[g] = "idle"
Jump(g, phase) == pc' = [pc EXCEPT ![g] = phase]

-----------------------------------------------------------------------------
(* RLock and RUnlock *)

\* AddInt32(&rw.readerCount, 1): in, or behind a pending writer.
RLock(g) ==
  /\ Idle(g) /\ g \notin readers \cup writers
  /\ readerCount' = readerCount + 1
  /\ IF readerCount + 1 < 0
     THEN Jump(g, "racquire") /\ UNCHANGED readers
     ELSE readers' = readers \cup {g} /\ UNCHANGED pc
  /\ UNCHANGED <<svars, w, readerWait, r, writers>>

\* runtime_SemacquireMutex(&rw.readerSem, false, 0), ...
RLockSleep(g) ==
  /\ pc[g] = "racquire"
  /\ Semacquire(g, readerSem, FALSE)
  /\ Jump(g, "rasleep")
  /\ UNCHANGED <<w, readerCount, readerWait, r, readers, writers>>

\* ... and its return.
RLockReturn(g) ==
  /\ pc[g] = "rasleep" /\ spc[g] = "idle"
  /\ Jump(g, "idle")
  /\ readers' = readers \cup {g}
  /\ UNCHANGED <<svars, w, readerCount, readerWait, r, writers>>

\* AddInt32(&rw.readerCount, -1).
RUnlock(g) ==
  /\ Idle(g)
  /\ \E h \in readers : readers' = readers \ {h}
  /\ readerCount' = readerCount - 1
  /\ IF readerCount - 1 < 0 THEN Jump(g, "depart") ELSE UNCHANGED pc
  /\ UNCHANGED <<svars, w, readerWait, r, writers>>

\* An rUnlockSlow that does not wait for the last reader.
DepartFirst(g) ==
  /\ pc[g] = "depart"
  /\ readerWait' = readerWait - 1
  /\ Jump(g, IF readerWait > 0 THEN "wake" ELSE "idle")
  /\ UNCHANGED <<svars, w, readerCount, r, readers, writers>>

\* rUnlockSlow: AddInt32(&rw.readerWait, -1); the last reader wakes the writer.
Depart(g) ==
  /\ pc[g] = "depart"
  /\ readerWait' = readerWait - 1
  /\ Jump(g, IF readerWait - 1 = 0 THEN "wake" ELSE "idle")
  /\ UNCHANGED <<svars, w, readerCount, r, readers, writers>>

\* runtime_Semrelease(&rw.writerSem, false, 1)
DepartWake(g) ==
  /\ pc[g] = "wake"
  /\ Semrelease(g, writerSem, FALSE)
  /\ Jump(g, "idle")
  /\ UNCHANGED <<w, readerCount, readerWait, r, readers, writers>>

-----------------------------------------------------------------------------
(* Lock *)

\* The call, ...
Lock(g) ==
  /\ Idle(g) /\ g \notin readers \cup writers
  /\ Jump(g, "wlock")
  /\ UNCHANGED <<svars, w, readerCount, readerWait, r, readers, writers>>

\* ... rw.w.Lock(), ...
LockW(g) ==
  /\ pc[g] = "wlock"
  /\ w = {}
  /\ w' = {g}
  /\ Jump(g, "announce")
  /\ UNCHANGED <<svars, readerCount, readerWait, r, readers, writers>>

\* The write lock is g's.
Enter(g) ==
  /\ Jump(g, "idle")
  /\ writers' = writers \cup {g}

\* ... AddInt32(&rw.readerCount, -rwmutexMaxReaders), ...
LockAnnounce(g) ==
  /\ pc[g] = "announce"
  /\ readerCount' = readerCount - MaxReaders
  /\ IF readerCount = 0
     THEN Enter(g) /\ UNCHANGED r
     ELSE /\ Jump(g, "count")
          /\ r' = [r EXCEPT ![g] = readerCount]
          /\ UNCHANGED writers
  /\ UNCHANGED <<svars, w, readerWait, readers>>

\* A Lock that stores the readers it found over those that have left since.
LockCountStore(g) ==
  /\ pc[g] = "count"
  /\ readerWait' = r[g]
  /\ r' = [r EXCEPT ![g] = 0]
  /\ Jump(g, "wacquire")
  /\ UNCHANGED <<svars, w, readerCount, readers, writers>>

\* ... AddInt32(&rw.readerWait, r): readers may have left in between, ...
LockCount(g) ==
  /\ pc[g] = "count"
  /\ readerWait' = readerWait + r[g]
  /\ r' = [r EXCEPT ![g] = 0]
  /\ IF readerWait + r[g] = 0
     THEN Enter(g)
     ELSE Jump(g, "wacquire") /\ UNCHANGED writers
  /\ UNCHANGED <<svars, w, readerCount, readers>>

\* ... runtime_SemacquireMutex(&rw.writerSem, false, 0) ...
LockSleep(g) ==
  /\ pc[g] = "wacquire"
  /\ Semacquire(g, writerSem, FALSE)
  /\ Jump(g, "wasleep")
  /\ UNCHANGED <<w, readerCount, readerWait, r, readers, writers>>

\* ... and its return.
LockReturn(g) ==
  /\ pc[g] = "wasleep" /\ spc[g] = "idle"
  /\ Enter(g)
  /\ UNCHANGED <<svars, w, readerCount, readerWait, r, readers>>

-----------------------------------------------------------------------------
(* Unlock *)

\* AddInt32(&rw.readerCount, rwmutexMaxReaders), ...
Unlock(g) ==
  /\ Idle(g)
  /\ \E h \in writers : writers' = writers \ {h}
  /\ readerCount' = readerCount + MaxReaders
  /\ r' = [r EXCEPT ![g] = readerCount + MaxReaders]
  /\ Jump(g, IF readerCount + MaxReaders > 0 THEN "release" ELSE "wunlock")
  /\ UNCHANGED <<svars, w, readerWait, readers>>

\* A loop that releases one reader too few.
UnlockReleaseShort(g) ==
  /\ pc[g] = "release"
  /\ IF r[g] > 1
     THEN Semrelease(g, readerSem, FALSE)
     ELSE spc[g] = "idle" /\ UNCHANGED svars
  /\ r' = [r EXCEPT ![g] = @ - 1]
  /\ IF r[g] = 1 THEN Jump(g, "wunlock") ELSE UNCHANGED pc
  /\ UNCHANGED <<w, readerCount, readerWait, readers, writers>>

\* ... one runtime_Semrelease(&rw.readerSem, false, 0) for each of the readers, ...
UnlockRelease(g) ==
  /\ pc[g] = "release"
  /\ Semrelease(g, readerSem, FALSE)
  /\ r' = [r EXCEPT ![g] = @ - 1]
  /\ IF r[g] = 1 THEN Jump(g, "wunlock") ELSE UNCHANGED pc
  /\ UNCHANGED <<w, readerCount, readerWait, readers, writers>>

\* ... rw.w.Unlock()
UnlockW(g) ==
  /\ pc[g] = "wunlock" /\ spc[g] = "idle"
  /\ w' = {}
  /\ Jump(g, "idle")
  /\ UNCHANGED <<svars, readerCount, readerWait, r, readers, writers>>

-----------------------------------------------------------------------------
\* The steps of g inside a call.
RWStep(g) ==
  \/ RLockSleep(g) \/ RLockReturn(g)
  \/ Depart(g) \/ DepartWake(g)
  \/ LockW(g) \/ LockAnnounce(g) \/ LockCount(g) \/ LockSleep(g) \/ LockReturn(g)
  \/ UnlockRelease(g) \/ UnlockW(g)
  \/ SemaStep(g) /\ UNCHANGED rwvars

RWNext == \E g \in G : RLock(g) \/ RUnlock(g) \/ Lock(g) \/ Unlock(g) \/ RWStep(g)

RWSpec == RWInit /\ [][RWNext]_vars

\* What the client owes: a lock that was granted is undone at some time.
ClientUnlocks == WF_vars(\E g \in G : RUnlock(g)) /\ WF_vars(\E g \in G : Unlock(g))
RWFairSpec == RWSpec /\ (\A g \in G : WF_vars(RWStep(g))) /\ ClientUnlocks

-----------------------------------------------------------------------------
\* Types of the counters and locals, on top of those of the semaphores.
RWTypeOK ==
  /\ SemaTypeOK
  /\ w \subseteq G
  /\ readerCount \in -MaxReaders .. MaxReaders
  /\ readerWait \in Int
  /\ pc \in [G -> Phases]
  /\ r \in [G -> Nat]
  /\ readers \subseteq G /\ writers \subseteq G

(***************************************************************************)
(* A writer excludes everybody; readers exclude writers (rwmutex.go:16-17, *)
(* type RWMutex).                                                          *)
(***************************************************************************)
Exclusion == writers # {} => readers = {} /\ Cardinality(writers) = 1

(***************************************************************************)
(* The pending writer waits for exactly the readers it found: those that   *)
(* hold the lock, those on their way to it with a unit of readerSem that   *)
(* an Unlock released or has yet to release, and those that have left but  *)
(* are still to be deducted.  Their departure may precede the writer's     *)
(* AddInt32(&rw.readerWait, r), so readerWait may be negative until then   *)
(* (rwmutex.go:83, 100-103).                                               *)
(***************************************************************************)
OneInside == \A g, h \in G : {pc[g], pc[h]} \subseteq {"count", "release"} => g = h
RIn(phase) ==    \* r of the goroutine that is there, if one is: field w admits only one
  LET S == {g \in G : pc[g] = phase} IN IF S = {} THEN 0 ELSE r[CHOOSE g \in S : TRUE]
Admitted ==
  Cardinality(readers)
  + Cardinality({g \in G : pc[g] = "rasleep" /\ (spc[g] = "idle" \/ ticket[g])})
  + sema[readerSem]
  + RIn("release")
Announced == \E g \in G : pc[g] \in WPhases
Departing == Cardinality({g \in G : pc[g] = "depart"})
Woken ==    \* the last reader has taken readerWait to 0: LockReturn is to come
  \/ \E g \in G : pc[g] = "wake"
  \/ sema[writerSem] > 0
  \/ \E g \in G : pc[g] = "wasleep" /\ spc[g] = "idle"
ReaderWaitExact ==
  /\ OneInside
  /\ Announced => readerWait + RIn("count") = Admitted + Departing
  /\ ~Announced => readerWait = 0 /\ Departing = 0
  /\ Woken => readerWait = 0 /\ \A g \in G : pc[g] # "count"

\* What the counters and the semaphores keep between them.
RWStructure == RWTypeOK /\ ReaderWaitExact

(***************************************************************************)
(* A writer that is pending gets the lock, however many readers keep       *)
(* arriving, as long as those that hold it leave (rwmutex.go:26-27: "to    *)
(* ensure that the lock eventually becomes available").                    *)
(***************************************************************************)
WriterServed == Announced ~> writers # {}

(***************************************************************************)
(* Readers asleep behind writers are not forgotten: one of them, or one    *)
(* that took its unit, gets the lock after the next Unlock.                *)
(***************************************************************************)
ReadersServed == (\E g \in G : pc[g] = "rasleep") ~> readers # {}
=============================================================================
