------------------------------- MODULE Locker -------------------------------
(***************************************************************************)
(* What a sync.Mutex promises its users (sync/mutex.go, types Mutex and    *)
(* Locker): Lock returns to at most one caller until Unlock is called, by  *)
(* that goroutine or any other.  The other primitives of package sync and  *)
(* io.Pipe rely on this and on nothing else of Mutex.                      *)
(***************************************************************************)
CONSTANT G            \* goroutines

VARIABLES locking,    \* goroutines inside Lock
          unlocking,  \* goroutines inside Unlock
          holders     \* goroutines whose Lock returned and was not undone yet

lvars == <<locking, unlocking, holders>>

LockerInit == locking = {} /\ unlocking = {} /\ holders = {}

Outside(g) == g \notin locking \cup unlocking

\* Lock is called ...
LockCall(g) ==
  /\ Outside(g) /\ g \notin holders
  /\ locking' = locking \cup {g}
  /\ UNCHANGED <<unlocking, holders>>

\* ... and returns, ...
LockReturn(g) ==
  /\ g \in locking
  /\ holders = {}
  /\ holders' = {g}
  /\ locking' = locking \ {g}
  /\ UNCHANGED unlocking

\* ... or it does both at once, its fast path.
LockAtOnce(g) ==
  /\ Outside(g)
  /\ holders = {}
  /\ holders' = {g}
  /\ UNCHANGED <<locking, unlocking>>

\* Unlock takes effect as soon as it is called, whoever locked, ...
UnlockCall(g, h) ==
  /\ Outside(g)
  /\ h \in holders
  /\ holders' = holders \ {h}
  /\ unlocking' \in {unlocking, unlocking \cup {g}}
  /\ UNCHANGED locking

\* ... and returns later.
UnlockReturn(g) ==
  /\ g \in unlocking
  /\ unlocking' = unlocking \ {g}
  /\ UNCHANGED <<locking, holders>>

LockerNext ==
  \E g \in G :
    \/ LockCall(g) \/ LockReturn(g) \/ LockAtOnce(g) \/ UnlockReturn(g)
    \/ \E h \in G : UnlockCall(g, h)

LockerSpec == LockerInit /\ [][LockerNext]_lvars
=============================================================================
