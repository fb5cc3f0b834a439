---------------------------- MODULE NetpollProofs ----------------------------
(***************************************************************************)
(* Proofs about module Netpoll, for any set of users, any SetDeadline      *)
(* calls and any bounds on time and on the number of calls: the semaphores *)
(* of the pollDesc neither lose a goroutine nor make one ready twice, no   *)
(* throw of netpoll.go is reached, each deadline has its timer, and no     *)
(* stale call of a timer function times an operation out.                  *)
(***************************************************************************)
EXTENDS Netpoll, FiniteSetTheorems, TLAPS

Places == {"idle", "reset", "resetD", "try", "wait", "waitD", "block", "recheck", "recheckD",
           "commit", "xchg", "parked"}

Types ==
  /\ now \in Nat /\ now <= MaxTime
  /\ closing \in BOOLEAN
  /\ sem \in [Modes -> {"nil", "Ready", "Wait", "G"}]
  /\ deadline \in [Modes -> Int] /\ seq \in [Modes -> Nat]
  /\ tf \in [Modes -> {None} \cup SUBSET Modes]
  /\ armed \in [Modes -> {None} \cup [when : Int, f : SUBSET Modes, seq : Nat]]
  /\ lk \in {None} \cup [todo : SUBSET Modes, got : SUBSET Modes]
  /\ pending \subseteq [f : SUBSET Modes, seq : Nat]
  /\ toRun \subseteq Modes \X BOOLEAN /\ waiters \in Nat
  /\ upc \in [Modes -> Places]
  /\ life \in {"free", "open", "evicted"}

\* Where a parked goroutine is found: on its semaphore, with the holder of the lock,
\* or among those soon to be made ready.
OnSem(m) == sem[m] = "G"
WithLock(m) == lk # None /\ m \in lk.got
InRun(m, counted) == <<m, counted>> \in toRun

\* In one of these if it is parked, and in none if it is not.
OneHolder ==
  \A m \in Modes :
    /\ upc[m] = "parked" <=> OnSem(m) \/ WithLock(m) \/ InRun(m, TRUE) \/ InRun(m, FALSE)
    /\ OnSem(m) => ~WithLock(m) /\ ~InRun(m, TRUE) /\ ~InRun(m, FALSE)
    /\ WithLock(m) => ~InRun(m, TRUE) /\ ~InRun(m, FALSE)
    /\ ~(InRun(m, TRUE) /\ InRun(m, FALSE))

Waits ==
  \A m \in Modes : sem[m] = "Wait" => upc[m] \in {"recheck", "recheckD", "commit", "xchg"}

\* A descriptor that is not open has no timers and, when free, no users.
Lives ==
  /\ life = "open" => ~closing
  /\ life # "open" => \A m \in Modes : tf[m] = None
  /\ life = "free" => \A m \in Modes : upc[m] = "idle"

\* Which of the timers of modes f is set: rt unless it is for writing only.
Key(f) == IF "r" \in f THEN "r" ELSE "w"

\* A call of a timer function that is not stale is of the timer as it is set, and due.
Calls ==
  \A p \in pending :
    /\ p.f # {} /\ p.seq <= seq[Key(p.f)]
    /\ p.seq = seq[Key(p.f)] => /\ tf[Key(p.f)] = p.f /\ armed[Key(p.f)] = None
                                /\ deadline[Key(p.f)] <= now

PollInv == Types /\ OneHolder /\ Waits /\ Lives /\ TimersRight /\ Calls /\ WaitersCounted

Sems == {"nil", "Ready", "Wait", "G"}
Timer == [when : Int, f : SUBSET Modes, seq : Nat]
Work == [todo : SUBSET Modes, got : SUBSET Modes]
Call == [f : SUBSET Modes, seq : Nat]

-----------------------------------------------------------------------------
(* What the invariant says at once *)

Parked == {m \in Modes : upc[m] = "parked"}

\* There are two modes.
LEMMA ModesAre ==
  /\ "r" \in Modes /\ "w" \in Modes /\ "r" # "w" /\ IsFiniteSet(Modes)
  /\ \A m \in Modes : m = "r" \/ m = "w"
  /\ \A f \in SUBSET Modes : Key(f) \in Modes
<1>1. IsFiniteSet({"r"} \cup {"w"})
  BY FS_Singleton, FS_Union
<1>2. Modes = {"r"} \cup {"w"}
  BY DEF Modes
<1>3. IsFiniteSet(Modes)
  BY <1>1, <1>2
<1> QED BY <1>3 DEF Modes, Key

LEMMA ParkedCount ==
  ASSUME NEW A \in SUBSET Modes
  PROVE  /\ IsFiniteSet(A) /\ Cardinality(A) \in Nat
         /\ \A m \in A : /\ Cardinality(A \ {m}) = Cardinality(A) - 1
                         /\ Cardinality(A) >= 1
         /\ \A m \in Modes \ A : Cardinality(A \cup {m}) = Cardinality(A) + 1
<1>1. IsFiniteSet(A) /\ Cardinality(A) \in Nat
  BY ModesAre, FS_Subset, FS_CardinalityType
<1>2. \A m \in Modes \ A : Cardinality(A \cup {m}) = Cardinality(A) + 1
  BY <1>1, FS_AddElement
<1>3. ASSUME NEW m \in A
      PROVE  Cardinality(A \ {m}) = Cardinality(A) - 1 /\ Cardinality(A) >= 1
  <2>1. Cardinality(A \ {m}) = Cardinality(A) - 1
    BY <1>1, FS_RemoveElement
  <2>2. Cardinality(A) # 0
    BY <1>1, FS_EmptySet
  <2> QED BY <1>1, <2>1, <2>2
<1> QED BY <1>1, <1>2, <1>3

\* A timer that is set is the one that the deadlines call for, and only while the
\* file is open.
LEMMA TimerSet ==
  ASSUME PollInv, NEW m \in Modes, tf[m] # None
  PROVE  /\ life = "open" /\ ~closing /\ Wanted(deadline, m) = tf[m] /\ tf[m] \in SUBSET Modes
         /\ deadline[m] > 0 /\ m \in tf[m] /\ Key(tf[m]) = m
         /\ \A k \in tf[m] : k \in Modes /\ deadline[k] = deadline[m]
         /\ tf[m] \in {{m}, Modes} /\ (m = "w" => tf[m] = {"w"})
         /\ Combo(deadline) <=> tf[m] = Modes
         /\ tf[m] = Modes => m = "r" /\ tf["w"] = None
<1>0. Types /\ Lives /\ TimersRight
  BY DEF PollInv
<1>1. life = "open" /\ ~closing
  BY <1>0 DEF Lives
<1>2. Wanted(deadline, m) = tf[m] /\ tf[m] \in SUBSET Modes
  BY <1>0, <1>1 DEF TimersRight, Types
<1>3. /\ deadline[m] > 0 /\ ~(m = "w" /\ Combo(deadline))
      /\ tf[m] = IF m = "r" /\ Combo(deadline) THEN Modes ELSE {m}
  <2>1. Wanted(deadline, m) # None
    BY <1>2
  <2>2. deadline[m] \in Int
    BY <1>0 DEF Types
  <2> QED BY <1>2, <2>1, <2>2 DEF Wanted
<1>4. m = "r" \/ m = "w"
  BY ModesAre
<1>5. "r" # "w" /\ Modes = {"r", "w"} /\ {m} # Modes
  BY DEF Modes
<1>6. m \in tf[m] /\ Key(tf[m]) = m /\ tf[m] \in {{m}, Modes} /\ (m = "w" => tf[m] = {"w"})
  BY <1>3, <1>4, <1>5 DEF Key
<1>7. \A k \in tf[m] : k \in Modes /\ deadline[k] = deadline[m]
  BY <1>3, <1>4, <1>5 DEF Combo
<1>8. Combo(deadline) <=> tf[m] = Modes
  BY <1>3, <1>4, <1>5
<1>9. ASSUME tf[m] = Modes PROVE m = "r" /\ tf["w"] = None
  <2>1. Combo(deadline) /\ m = "r"
    BY <1>3, <1>4, <1>5, <1>9
  <2>2. Wanted(deadline, "w") = None
    BY <2>1 DEF Wanted
  <2> QED BY <1>0, <1>1, <1>5, <2>1, <2>2 DEF TimersRight
<1> QED BY <1>1, <1>2, <1>3, <1>6, <1>7, <1>8, <1>9

\* A call that is not stale is of the timer that is set, and due.
LEMMA CallCurrent ==
  ASSUME PollInv, NEW p \in pending, p.seq = CurrentSeq(p)
  PROVE  /\ Key(p.f) \in Modes /\ tf[Key(p.f)] = p.f /\ p.f # None /\ armed[Key(p.f)] = None
         /\ p.seq = seq[Key(p.f)]
         /\ \A m \in p.f : m \in Modes /\ 0 < deadline[m] /\ deadline[m] <= now
<1>0. Types /\ Calls /\ p \in Call
  BY DEF PollInv, Types, Call
<1>1. p.f \in SUBSET Modes /\ p.f # None /\ Key(p.f) \in Modes
  BY <1>0, NoneIsNone, ModesAre DEF Call
<1>2. p.seq = seq[Key(p.f)]
  BY DEF CurrentSeq, Key
<1>3. tf[Key(p.f)] = p.f /\ armed[Key(p.f)] = None /\ deadline[Key(p.f)] <= now
  BY <1>0, <1>2 DEF Calls
<1> QED BY <1>1, <1>2, <1>3, TimerSet

-----------------------------------------------------------------------------
(* The reader and the writer *)

LEMMA ParkedSame ==
  ASSUME WaitersCounted, waiters' = waiters,
         \A m \in Modes : upc'[m] = "parked" <=> upc[m] = "parked"
  PROVE  WaitersCounted'
<1>1. Parked' = Parked
  BY DEF Parked
<1> QED BY <1>1 DEF WaitersCounted, Parked

\* A step of the user of m that is not parking leaves everything right if it leaves
\* the semaphore to nobody and says Wait only where it may.
LEMMA UserStays ==
  ASSUME PollInv, NEW m \in Modes, UserOnly, waiters' = waiters,
         NEW s \in {"nil", "Ready", "Wait"}, sem' = [sem EXCEPT ![m] = s] \/ (sem' = sem /\ s = sem[m]),
         NEW where \in Places, upc' = [upc EXCEPT ![m] = where],
         where # "parked", upc[m] # "parked", life # "free",
         s = "Wait" => where \in {"recheck", "recheckD", "commit", "xchg"}
  PROVE  PollInv'
<1>0. /\ Types /\ OneHolder /\ Waits /\ Lives /\ TimersRight /\ Calls /\ WaitersCounted
      /\ UNCHANGED <<now, closing, deadline, seq, tf, armed, lk, pending, toRun, life>>
      /\ sem \in [Modes -> Sems] /\ upc \in [Modes -> Places]
  BY DEF PollInv, Types, UserOnly, Sems
<1>1. /\ sem' \in [Modes -> Sems] /\ upc' \in [Modes -> Places]
      /\ sem'[m] = s /\ upc'[m] = where
      /\ \A k \in Modes \ {m} : sem'[k] = sem[k] /\ upc'[k] = upc[k]
  BY <1>0 DEF Sems
<1>2. Types'
  BY <1>0, <1>1 DEF Types, Sems
<1>3. OneHolder'
  BY <1>0, <1>1 DEF OneHolder, OnSem, WithLock, InRun
<1>4. Waits'
  BY <1>0, <1>1 DEF Waits
<1>5. Lives' /\ Calls'
  BY <1>0 DEF Lives, Calls
<1>6. TimersRight'
  BY <1>0 DEF TimersRight
<1>7. WaitersCounted'
  BY <1>0, <1>1, ParkedSame
<1> QED BY <1>2, <1>3, <1>4, <1>5, <1>6, <1>7 DEF PollInv

\* Nobody is on the semaphore of a user who is not parked.
LEMMA NotParked ==
  ASSUME PollInv, NEW m \in Modes, upc[m] # "parked"
  PROVE  /\ sem[m] \in {"nil", "Ready", "Wait"}
         /\ sem[m] = "Wait" => upc[m] \in {"recheck", "recheckD", "commit", "xchg"}
         /\ upc[m] # "idle" => life # "free"
BY DEF PollInv, Types, OneHolder, OnSem, Waits, Lives

LEMMA UserPoll ==
  ASSUME PollInv, NEW m \in Modes,
         \/ CheckClosing(m) \/ pollReset(m) \/ Try(m) \/ pollWait(m) \/ netpollblock(m)
         \/ Recheck(m) \/ Xchg(m)
  PROVE  PollInv'
<1>1. ASSUME CheckClosing(m) PROVE PollInv'
  <2>1. PICK pc \in {"reset", "wait", "recheck"} :
          /\ upc[m] = pc
          /\ CASE ~closing -> Jump(m, IF pc = "reset" THEN "resetD" ELSE IF pc = "wait" THEN "waitD" ELSE "recheckD")
               [] closing /\ pc = "recheck" -> Jump(m, "xchg")
               [] OTHER -> Jump(m, "idle")
    BY <1>1 DEF CheckClosing
  <2>2. /\ UNCHANGED <<sem, waiters>> /\ UserOnly /\ closing \in BOOLEAN
    BY <1>1 DEF CheckClosing, PollInv, Types
  <2>3. PICK where \in Places \ {"parked"} :
          /\ upc' = [upc EXCEPT ![m] = where]
          /\ pc = "recheck" => where \in {"recheckD", "xchg"}
    BY <2>1, <2>2 DEF Jump, Places
  <2> QED BY <2>1, <2>2, <2>3, NotParked, UserStays
<1>2. ASSUME pollReset(m) PROVE PollInv'
  <2>1. /\ upc[m] = "resetD" /\ waiters' = waiters /\ UserOnly
        /\ \/ upc' = [upc EXCEPT ![m] = "idle"] /\ sem' = sem
           \/ upc' = [upc EXCEPT ![m] = "try"] /\ sem' = [sem EXCEPT ![m] = "nil"]
    BY <1>2 DEF pollReset, Jump
  <2>2. {"idle", "try"} \subseteq Places
    BY DEF Places
  <2> QED BY <2>1, <2>2, NotParked, UserStays
<1>3. ASSUME Try(m) \/ pollWait(m) PROVE PollInv'
  <2>1. /\ upc[m] \in {"try", "waitD"} /\ waiters' = waiters /\ UserOnly /\ sem' = sem
        /\ \E where \in {"idle", "wait", "block"} : upc' = [upc EXCEPT ![m] = where]
    BY <1>3 DEF Try, pollWait, Jump
  <2>2. {"idle", "wait", "block"} \subseteq Places
    BY DEF Places
  <2> QED BY <2>1, <2>2, NotParked, UserStays
<1>4. ASSUME netpollblock(m) PROVE PollInv'
  <2>1. /\ upc[m] = "block" /\ waiters' = waiters /\ UserOnly
        /\ \/ upc' = [upc EXCEPT ![m] = "try"] /\ sem' = [sem EXCEPT ![m] = "nil"]
           \/ upc' = [upc EXCEPT ![m] = "recheck"] /\ sem' = [sem EXCEPT ![m] = "Wait"]
    BY <1>4 DEF netpollblock, Jump
  <2>2. {"try", "recheck"} \subseteq Places
    BY DEF Places
  <2> QED BY <2>1, <2>2, NotParked, UserStays
<1>5. ASSUME Recheck(m) PROVE PollInv'
  <2>1. /\ upc[m] = "recheckD" /\ waiters' = waiters /\ UserOnly /\ sem' = sem
        /\ \E where \in {"xchg", "commit"} : upc' = [upc EXCEPT ![m] = where]
    BY <1>5 DEF Recheck, Jump
  <2>2. {"xchg", "commit"} \subseteq Places
    BY DEF Places
  <2> QED BY <2>1, <2>2, NotParked, UserStays
<1>6. ASSUME Xchg(m) PROVE PollInv'
  <2>1. /\ upc[m] = "xchg" /\ waiters' = waiters /\ UserOnly /\ sem' = [sem EXCEPT ![m] = "nil"]
        /\ \E where \in {"try", "wait"} : upc' = [upc EXCEPT ![m] = where]
    BY <1>6 DEF Xchg, Jump
  <2>2. {"try", "wait"} \subseteq Places
    BY DEF Places
  <2> QED BY <2>1, <2>2, NotParked, UserStays
<1> QED BY <1>1, <1>2, <1>3, <1>4, <1>5, <1>6

LEMMA StartPoll ==
  ASSUME PollInv, NEW m \in Modes, Start(m)
  PROVE  PollInv'
<1>1. /\ life = "open" /\ upc[m] = "idle" /\ waiters' = waiters /\ UserOnly /\ sem' = sem
      /\ upc' = [upc EXCEPT ![m] = "reset"] /\ "reset" \in Places
  BY DEF Start, Jump, Places
<1> QED BY <1>1, NotParked, UserStays

\* The goroutine parks: from now on it is on its semaphore.
LEMMA CommitPoll ==
  ASSUME PollInv, NEW m \in Modes, netpollblockcommit(m)
  PROVE  PollInv'
<1>0. /\ Types /\ OneHolder /\ Waits /\ Lives /\ TimersRight /\ Calls /\ WaitersCounted
      /\ upc[m] = "commit" /\ UserOnly
      /\ UNCHANGED <<now, closing, deadline, seq, tf, armed, lk, pending, toRun, life>>
      /\ sem \in [Modes -> Sems] /\ upc \in [Modes -> Places] /\ waiters \in Nat
  BY DEF PollInv, Types, netpollblockcommit, UserOnly, Sems
<1>1. CASE sem[m] # "Wait"
  <2>1. sem' = sem /\ waiters' = waiters /\ upc' = [upc EXCEPT ![m] = "xchg"] /\ "xchg" \in Places
    BY <1>1 DEF netpollblockcommit, Jump, Places
  <2> QED BY <1>0, <2>1, NotParked, UserStays
<1>2. CASE sem[m] = "Wait"
  <2>1. /\ sem' = [sem EXCEPT ![m] = "G"] /\ waiters' = waiters + 1
        /\ upc' = [upc EXCEPT ![m] = "parked"] /\ "parked" \in Places
    BY <1>2 DEF netpollblockcommit, Jump, Places
  <2>2. /\ sem' \in [Modes -> Sems] /\ upc' \in [Modes -> Places]
        /\ sem'[m] = "G" /\ upc'[m] = "parked"
        /\ \A k \in Modes \ {m} : sem'[k] = sem[k] /\ upc'[k] = upc[k]
    BY <1>0, <2>1 DEF Sems
  <2>3. Types'
    BY <1>0, <2>1, <2>2 DEF Types, Sems
  <2>4. OneHolder' /\ Waits'
    BY <1>0, <2>2 DEF OneHolder, OnSem, WithLock, InRun, Waits
  <2>5. Lives'
    BY <1>0, <2>2 DEF Lives
  <2>6. TimersRight' /\ Calls'
    BY <1>0 DEF TimersRight, Calls
  <2>7. WaitersCounted'
    <3>1. Parked' = Parked \cup {m} /\ m \notin Parked /\ Parked \subseteq Modes
      BY <1>0, <2>2 DEF Parked
    <3>2. Cardinality(Parked') = Cardinality(Parked) + 1 /\ Cardinality(Parked) \in Nat
      BY <3>1, ParkedCount
    <3> QED BY <1>0, <2>1, <3>2 DEF WaitersCounted, Parked
  <2> QED BY <2>3, <2>4, <2>5, <2>6, <2>7 DEF PollInv
<1> QED BY <1>1, <1>2

\* The goroutine runs again: it is the only one there was of it.
LEMMA GoreadyPoll ==
  ASSUME PollInv, NEW m \in Modes, goready(m)
  PROVE  PollInv'
<1>0. /\ Types /\ OneHolder /\ Waits /\ Lives /\ TimersRight /\ Calls /\ WaitersCounted
      /\ UNCHANGED <<now, closing, sem, deadline, seq, tf, armed, lk, pending, life>>
      /\ upc \in [Modes -> Places] /\ waiters \in Nat
      /\ upc' = [upc EXCEPT ![m] = "xchg"] /\ "xchg" \in Places
  BY DEF PollInv, Types, goready, Jump, pdvars, filevars, Places
<1>1. PICK counted \in BOOLEAN :
        /\ <<m, counted>> \in toRun /\ toRun' = toRun \ {<<m, counted>>}
        /\ waiters' = IF counted THEN waiters - 1 ELSE waiters
  BY DEF goready
<1>2. /\ upc' \in [Modes -> Places] /\ upc'[m] = "xchg" /\ upc[m] = "parked"
      /\ \A k \in Modes \ {m} : upc'[k] = upc[k]
      /\ \A k \in Modes, c \in BOOLEAN :
           <<k, c>> \in toRun' <=> <<k, c>> \in toRun /\ ~(k = m /\ c = counted)
  <2>1. upc[m] = "parked"
    <3>1. InRun(m, TRUE) \/ InRun(m, FALSE)
      BY <1>1 DEF InRun
    <3> QED BY <1>0, <3>1 DEF OneHolder
  <2> QED BY <1>0, <1>1, <2>1
<1>3. Waits'
  BY <1>0, <1>2 DEF Waits
<1>4. OneHolder'
  <2>1. InRun(m, counted) /\ (counted = TRUE \/ counted = FALSE)
    BY <1>1 DEF InRun
  <2>2. ~OnSem(m) /\ ~WithLock(m) /\ (counted = TRUE => ~InRun(m, FALSE))
        /\ (counted = FALSE => ~InRun(m, TRUE))
    BY <1>0, <2>1 DEF OneHolder
  <2>3. ~OnSem(m)' /\ ~WithLock(m)' /\ ~InRun(m, TRUE)' /\ ~InRun(m, FALSE)'
    BY <1>0, <1>2, <2>1, <2>2 DEF OnSem, WithLock, InRun
  <2>4. ASSUME NEW k \in Modes \ {m}
        PROVE  /\ OnSem(k)' <=> OnSem(k)
               /\ WithLock(k)' <=> WithLock(k)
               /\ InRun(k, TRUE)' <=> InRun(k, TRUE)
               /\ InRun(k, FALSE)' <=> InRun(k, FALSE)
    BY <1>0, <1>2 DEF OnSem, WithLock, InRun
  <2> QED BY <1>0, <1>2, <2>3, <2>4 DEF OneHolder
<1>5. Lives'
  BY <1>0, <1>2 DEF Lives
<1>6. TimersRight' /\ Calls'
  BY <1>0 DEF TimersRight, Calls
<1>7. waiters' \in Nat /\ WaitersCounted'
  <2>1. Parked' = Parked \ {m} /\ m \in Parked /\ Parked \subseteq Modes
    BY <1>0, <1>2 DEF Parked
  <2>2. /\ Cardinality(Parked') = Cardinality(Parked) - 1 /\ Cardinality(Parked) \in Nat
        /\ Cardinality(Parked) >= 1
    BY <2>1, ParkedCount
  <2>3. Cardinality(Parked) <= waiters
    BY <1>0 DEF WaitersCounted, Parked
  <2>4. waiters' \in Nat /\ Cardinality(Parked') <= waiters'
    BY <1>0, <1>1, <2>2, <2>3
  <2> QED BY <2>4 DEF WaitersCounted, Parked
<1>8. Types'
  <2>1. toRun' \subseteq Modes \X BOOLEAN
    BY <1>0, <1>1 DEF Types
  <2> QED BY <1>0, <1>2, <1>7, <2>1 DEF Types
<1> QED BY <1>3, <1>4, <1>5, <1>6, <1>7, <1>8 DEF PollInv

-----------------------------------------------------------------------------
(* The poller, the kernel and the clock *)

LEMMA KernelPoll ==
  ASSUME PollInv, NEW m \in Modes, netpoll(m) \/ Arrive(m)
  PROVE  PollInv'
<1>1. UNCHANGED <<now, closing, sem, deadline, seq, tf, armed, lk, pending, toRun, waiters, upc,
                  life>>
  BY DEF netpoll, Arrive, pdvars
<1>2. Types' /\ Lives' /\ Calls'
  BY <1>1 DEF PollInv, Types, Lives, Calls
<1>3. OneHolder' /\ Waits'
  BY <1>1 DEF PollInv, OneHolder, OnSem, WithLock, InRun, Waits
<1>4. TimersRight' /\ WaitersCounted'
  BY <1>1 DEF PollInv, TimersRight, WaitersCounted
<1> QED BY <1>2, <1>3, <1>4 DEF PollInv

LEMMA TickPoll ==
  ASSUME PollInv, Tick
  PROVE  PollInv'
<1>1. /\ UNCHANGED <<closing, sem, deadline, seq, tf, armed, lk, pending, toRun, waiters, upc,
                     life>>
      /\ now < MaxTime /\ now' = now + 1
  BY DEF Tick, pdvars, filevars
<1>2. Types /\ now \in Nat /\ MaxTime \in Nat /\ deadline \in [Modes -> Int]
      /\ pending \subseteq Call
  BY NetpollConstants DEF PollInv, Types, Call
<1>3. Types'
  BY <1>1, <1>2 DEF Types
<1>4. Calls'
  <2> SUFFICES ASSUME NEW p \in pending
               PROVE  /\ p.f # {} /\ p.seq <= seq[Key(p.f)]
                      /\ p.seq = seq[Key(p.f)] =>
                           /\ tf[Key(p.f)] = p.f /\ armed[Key(p.f)] = None
                           /\ deadline[Key(p.f)] <= now'
    BY <1>1 DEF Calls
  <2>1. Key(p.f) \in Modes
    BY <1>2, ModesAre DEF Call
  <2> QED BY <1>1, <1>2, <2>1 DEF PollInv, Calls
<1> QED BY <1>1, <1>3, <1>4 DEF PollInv, OneHolder, OnSem, WithLock, InRun, Waits, Lives,
                                TimersRight, WaitersCounted

\* netpollunblock leaves the semaphore to nobody.
LEMMA Unblocked ==
  ASSUME Types, NEW m \in Modes, NEW ioready \in BOOLEAN, netpollunblock(m, ioready)
  PROVE  /\ sem' \in [Modes -> Sems] /\ sem'[m] \in {"nil", "Ready"}
         /\ \A k \in Modes \ {m} : sem'[k] = sem[k]
BY DEF Types, netpollunblock, Sems

LEMMA ReadyPoll ==
  ASSUME PollInv, NEW m \in Modes, netpollready(m)
  PROVE  PollInv'
<1>0. /\ Types /\ OneHolder /\ Waits /\ Lives /\ TimersRight /\ Calls /\ WaitersCounted
      /\ UNCHANGED <<now, closing, deadline, seq, tf, armed, lk, pending, waiters, upc, life>>
      /\ toRun' = IF sem[m] = "G" THEN toRun \cup {<<m, FALSE>>} ELSE toRun
      /\ netpollunblock(m, TRUE) /\ TRUE \in BOOLEAN
  BY DEF PollInv, netpollready, filevars, Unblocks
<1>1. /\ sem' \in [Modes -> Sems] /\ sem'[m] \in {"nil", "Ready"}
      /\ \A k \in Modes \ {m} : sem'[k] = sem[k]
  BY <1>0, Unblocked
<1>2. Types'
  <2>1. toRun' \subseteq Modes \X BOOLEAN
    <3>1. <<m, FALSE>> \in Modes \X BOOLEAN /\ toRun \subseteq Modes \X BOOLEAN
      BY <1>0 DEF Types
    <3> QED BY <1>0, <3>1
  <2> QED BY <1>0, <1>1, <2>1 DEF Types, Sems
<1>3. OneHolder'
  <2>1. \A k \in Modes, c \in BOOLEAN :
          <<k, c>> \in toRun' <=> <<k, c>> \in toRun \/ (k = m /\ c = FALSE /\ sem[m] = "G")
    BY <1>0
  <2>2. ASSUME NEW k \in Modes
        PROVE  /\ WithLock(k)' <=> WithLock(k)
               /\ OnSem(k)' <=> OnSem(k) /\ k # m
               /\ InRun(k, TRUE)' <=> InRun(k, TRUE)
               /\ InRun(k, FALSE)' <=> InRun(k, FALSE) \/ (k = m /\ OnSem(m))
    BY <1>0, <1>1, <2>1 DEF WithLock, OnSem, InRun
  <2> QED BY <1>0, <2>2 DEF OneHolder
<1>4. Waits'
  BY <1>0, <1>1 DEF Waits
<1>5. Lives' /\ TimersRight' /\ Calls' /\ WaitersCounted'
  BY <1>0 DEF Lives, TimersRight, Calls, WaitersCounted
<1> QED BY <1>2, <1>3, <1>4, <1>5 DEF PollInv

-----------------------------------------------------------------------------
(* The operations that hold the lock *)

LEMMA UnblockNextPoll ==
  ASSUME PollInv, NEW m \in Modes, UnblockNext(m)
  PROVE  PollInv'
<1>0. /\ Types /\ OneHolder /\ Waits /\ Lives /\ TimersRight /\ Calls /\ WaitersCounted
      /\ UNCHANGED <<now, closing, deadline, seq, tf, armed, pending, toRun, waiters, upc, life>>
      /\ lk' = [todo |-> lk.todo \ {m}, got |-> IF sem[m] = "G" THEN lk.got \cup {m} ELSE lk.got]
      /\ lk \in Work /\ lk # None /\ netpollunblock(m, FALSE) /\ FALSE \in BOOLEAN
  BY DEF PollInv, UnblockNext, filevars, Unblocks, Types, Work
<1>1. /\ sem' \in [Modes -> Sems] /\ sem'[m] \in {"nil", "Ready"}
      /\ \A k \in Modes \ {m} : sem'[k] = sem[k]
  BY <1>0, Unblocked
<1>2. lk' \in Work /\ lk' # None
  <2>1. lk' \in Work
    BY <1>0 DEF Work
  <2> QED BY <2>1, NoneIsNone DEF Work
<1>3. Types'
  BY <1>0, <1>1, <1>2 DEF Types, Sems, Work
<1>4. OneHolder'
  <2>1. ASSUME NEW k \in Modes
        PROVE  /\ WithLock(k)' <=> WithLock(k) \/ (k = m /\ OnSem(m))
               /\ OnSem(k)' <=> OnSem(k) /\ k # m
               /\ InRun(k, TRUE)' <=> InRun(k, TRUE)
               /\ InRun(k, FALSE)' <=> InRun(k, FALSE)
    BY <1>0, <1>1, <1>2 DEF WithLock, OnSem, InRun
  <2> QED BY <1>0, <2>1 DEF OneHolder
<1>5. Waits'
  BY <1>0, <1>1 DEF Waits
<1>6. Lives' /\ TimersRight' /\ Calls' /\ WaitersCounted'
  BY <1>0 DEF Lives, TimersRight, Calls, WaitersCounted
<1> QED BY <1>3, <1>4, <1>5, <1>6 DEF PollInv

LEMMA UnlockPoll ==
  ASSUME PollInv, Unlock
  PROVE  PollInv'
<1>0. /\ Types /\ OneHolder /\ Waits /\ Lives /\ TimersRight /\ Calls /\ WaitersCounted
      /\ UNCHANGED <<now, closing, sem, deadline, seq, tf, armed, pending, waiters, upc, life>>
      /\ lk \in Work /\ lk # None /\ lk' = None
      /\ toRun' = toRun \cup {<<m, TRUE>> : m \in lk.got}
  BY DEF PollInv, Unlock, filevars, pdvars, Types, Work
<1>1. Types'
  <2>1. toRun' \subseteq Modes \X BOOLEAN
    <3>1. /\ \A m \in lk.got : <<m, TRUE>> \in Modes \X BOOLEAN
          /\ toRun \subseteq Modes \X BOOLEAN
      BY <1>0 DEF Types, Work
    <3> QED BY <1>0, <3>1
  <2> QED BY <1>0, <2>1 DEF Types
<1>2. OneHolder'
  <2>1. \A k \in Modes, c \in BOOLEAN :
          <<k, c>> \in toRun' <=> <<k, c>> \in toRun \/ (c = TRUE /\ k \in lk.got)
    BY <1>0
  <2>2. ASSUME NEW k \in Modes
        PROVE  /\ ~WithLock(k)'
               /\ OnSem(k)' <=> OnSem(k)
               /\ InRun(k, TRUE)' <=> InRun(k, TRUE) \/ WithLock(k)
               /\ InRun(k, FALSE)' <=> InRun(k, FALSE)
    BY <1>0, <2>1 DEF WithLock, OnSem, InRun
  <2> QED BY <1>0, <2>2 DEF OneHolder
<1>3. Waits' /\ Lives' /\ TimersRight' /\ Calls' /\ WaitersCounted'
  BY <1>0 DEF Waits, Lives, TimersRight, Calls, WaitersCounted
<1> QED BY <1>1, <1>2, <1>3 DEF PollInv

\* Taking the lock takes nobody from anywhere.
LEMMA LockTaken ==
  ASSUME OneHolder, NEW f \in SUBSET Modes, Lock(f), UNCHANGED <<sem, toRun, upc>>
  PROVE  lk' \in Work /\ OneHolder'
<1>1. lk = None /\ lk' = [todo |-> f, got |-> {}]
  BY DEF Lock
<1>2. \A m \in Modes : ~WithLock(m) /\ ~WithLock(m)'
  BY <1>1 DEF WithLock
<1> QED BY <1>1, <1>2 DEF Work, OneHolder, OnSem, InRun

\* Those who hold nothing of a timer and of the descriptor's life leave them alone.
LEMMA UsersStay ==
  ASSUME UNCHANGED <<sem, toRun, upc, waiters>>
  PROVE  (Waits => Waits') /\ (WaitersCounted => WaitersCounted')
BY DEF Waits, WaitersCounted

LEMMA UnblockPoll ==
  ASSUME PollInv, pollUnblock
  PROVE  PollInv'
<1>0. /\ Types /\ OneHolder /\ Waits /\ Lives /\ TimersRight /\ Calls /\ WaitersCounted
      /\ UNCHANGED <<now, sem, deadline, pending, toRun, waiters, upc>>
      /\ life = "open" /\ life' = "evicted" /\ Lock(Modes) /\ closing' = TRUE
      /\ seq' = [m \in Modes |-> seq[m] + 1] /\ tf' = All(None) /\ armed' = All(None)
  BY DEF PollInv, pollUnblock
<1>1. lk' \in Work /\ OneHolder' /\ Waits' /\ WaitersCounted'
  BY <1>0, LockTaken, UsersStay
<1>2. /\ \A m \in Modes : tf'[m] = None /\ armed'[m] = None /\ seq'[m] = seq[m] + 1
      /\ tf' \in [Modes -> {None}] /\ armed' \in [Modes -> {None}] /\ seq' \in [Modes -> Nat]
  BY <1>0 DEF All, Types
<1>3. Types'
  BY <1>0, <1>1, <1>2 DEF Types, Work
<1>4. Lives' /\ TimersRight'
  BY <1>0, <1>2 DEF Lives, TimersRight
<1>5. Calls'
  <2> SUFFICES ASSUME NEW p \in pending
               PROVE  p.f # {} /\ p.seq <= seq'[Key(p.f)] /\ p.seq # seq'[Key(p.f)]
    BY <1>0 DEF Calls
  <2>1. /\ p \in Call /\ Key(p.f) \in Modes /\ seq[Key(p.f)] \in Nat /\ p.seq \in Nat
        /\ p.f # {} /\ p.seq <= seq[Key(p.f)]
    BY <1>0, ModesAre DEF Types, Call, Calls
  <2> QED BY <1>2, <2>1
<1> QED BY <1>1, <1>3, <1>4, <1>5 DEF PollInv

LEMMA ClosePoll ==
  ASSUME PollInv, pollClose
  PROVE  PollInv'
<1>0. /\ Types /\ OneHolder /\ Waits /\ Lives /\ TimersRight /\ Calls /\ WaitersCounted
      /\ UNCHANGED <<now, closing, sem, deadline, seq, tf, armed, lk, pending, toRun, waiters, upc>>
      /\ life = "evicted" /\ life' = "free" /\ upc = All("idle")
  BY DEF PollInv, pollClose, pdvars, Idle
<1>1. Lives'
  BY <1>0 DEF Lives, All
<1>2. Types' /\ Calls'
  BY <1>0 DEF Types, Calls
<1>3. OneHolder' /\ Waits'
  BY <1>0 DEF OneHolder, OnSem, WithLock, InRun, Waits
<1>4. TimersRight' /\ WaitersCounted'
  BY <1>0 DEF TimersRight, WaitersCounted
<1> QED BY <1>1, <1>2, <1>3, <1>4 DEF PollInv

LEMMA OpenPoll ==
  ASSUME PollInv, pollOpen
  PROVE  PollInv'
<1>0. /\ Types /\ OneHolder /\ Waits /\ Lives /\ TimersRight /\ Calls /\ WaitersCounted
      /\ UNCHANGED <<now, tf, armed, lk, pending, toRun, waiters, upc>>
      /\ life = "free" /\ life' = "open" /\ closing' = FALSE
      /\ sem' = All("nil") /\ deadline' = All(0) /\ seq' = [m \in Modes |-> seq[m] + 1]
  BY DEF PollInv, pollOpen
<1>1. \A m \in Modes : /\ upc[m] = "idle" /\ tf[m] = None /\ armed[m] = None
                       /\ sem'[m] = "nil" /\ deadline'[m] = 0 /\ seq'[m] = seq[m] + 1
  BY <1>0 DEF Lives, TimersRight, All
<1>2. Types'
  <2>1. sem' \in [Modes -> Sems] /\ deadline' \in [Modes -> Int] /\ seq' \in [Modes -> Nat]
    BY <1>0 DEF Types, Sems, All
  <2> QED BY <1>0, <2>1 DEF Types, Sems
<1>3. OneHolder' /\ Waits' /\ Lives' /\ WaitersCounted'
  BY <1>0, <1>1 DEF OneHolder, OnSem, WithLock, InRun, Waits, Lives, WaitersCounted
<1>4. TimersRight'
  <2>1. \A m \in Modes : Wanted(deadline', m) = None
    BY <1>1 DEF Wanted
  <2> QED BY <1>0, <1>1, <2>1 DEF TimersRight
<1>5. Calls'
  <2> SUFFICES ASSUME NEW p \in pending
               PROVE  p.f # {} /\ p.seq <= seq'[Key(p.f)] /\ p.seq # seq'[Key(p.f)]
    BY <1>0 DEF Calls
  <2>1. /\ p \in Call /\ Key(p.f) \in Modes /\ seq[Key(p.f)] \in Nat /\ p.seq \in Nat
        /\ p.f # {} /\ p.seq <= seq[Key(p.f)]
    BY <1>0, ModesAre DEF Types, Call, Calls
  <2> QED BY <1>1, <2>1
<1> QED BY <1>2, <1>3, <1>4, <1>5 DEF PollInv

-----------------------------------------------------------------------------
(* The deadlines and their timers *)

LEMMA FirePoll ==
  ASSUME PollInv, NEW m \in Modes, Fire(m)
  PROVE  PollInv'
<1>0. /\ Types /\ OneHolder /\ Waits /\ Lives /\ TimersRight /\ Calls /\ WaitersCounted
      /\ UNCHANGED <<now, closing, sem, deadline, seq, tf, lk, toRun, waiters, upc, life>>
      /\ armed[m] # None /\ armed[m].when <= now /\ armed' = [armed EXCEPT ![m] = None]
      /\ pending' = pending \cup {[f |-> armed[m].f, seq |-> armed[m].seq]}
  BY DEF PollInv, Fire, filevars
<1>1. /\ tf[m] # None /\ armed[m] = [when |-> deadline[m], f |-> tf[m], seq |-> seq[m]]
      /\ seq[m] \in Nat
  BY <1>0 DEF TimersRight, Types
<1> DEFINE c == [f |-> tf[m], seq |-> seq[m]]
<1>2. /\ tf[m] \in SUBSET Modes /\ m \in tf[m] /\ Key(tf[m]) = m /\ deadline[m] <= now
      /\ pending' = pending \cup {c} /\ c.f = tf[m] /\ c.seq = seq[m] /\ c \in Call
  BY <1>0, <1>1, TimerSet DEF Call
<1> HIDE DEF c
<1>3. /\ armed' \in [Modes -> {None} \cup Timer] /\ armed'[m] = None
      /\ \A k \in Modes \ {m} : armed'[k] = armed[k]
  BY <1>0 DEF Types, Timer
<1>4. Types'
  <2>1. pending' \subseteq Call
    BY <1>0, <1>2 DEF Types, Call
  <2> QED BY <1>0, <1>3, <2>1 DEF Types, Timer, Call
<1>5. OneHolder' /\ Waits' /\ Lives' /\ WaitersCounted'
  BY <1>0 DEF OneHolder, OnSem, WithLock, InRun, Waits, Lives, WaitersCounted
<1>6. TimersRight'
  <2> SUFFICES ASSUME NEW k \in Modes
               PROVE  /\ Wanted(deadline, k) = tf[k] \/ closing
                      /\ tf[k] # None =>
                           \/ armed'[k] = [when |-> deadline[k], f |-> tf[k], seq |-> seq[k]]
                           \/ armed'[k] = None /\ [f |-> tf[k], seq |-> seq[k]] \in pending'
                      /\ tf[k] = None => armed'[k] = None
    BY <1>0 DEF TimersRight
  <2>1. CASE k = m
    BY <1>0, <1>2, <1>3, <2>1 DEF TimersRight, c
  <2>2. CASE k # m
    BY <1>0, <1>3, <2>2 DEF TimersRight
  <2> QED BY <2>1, <2>2
<1>7. Calls'
  <2> SUFFICES ASSUME NEW p \in pending'
               PROVE  /\ p.f # {} /\ p.seq <= seq[Key(p.f)]
                      /\ p.seq = seq[Key(p.f)] => /\ tf[Key(p.f)] = p.f /\ armed'[Key(p.f)] = None
                                                  /\ deadline[Key(p.f)] <= now
    BY <1>0 DEF Calls
  <2>1. CASE p = c
    BY <1>1, <1>2, <1>3, <2>1
  <2>2. CASE p \in pending
    <3>1. Key(p.f) \in Modes
      BY <1>0, <2>2, ModesAre DEF Types
    <3> QED BY <1>0, <1>3, <2>2, <3>1 DEF Calls
  <2> QED BY <1>2, <2>1, <2>2
<1> QED BY <1>4, <1>5, <1>6, <1>7 DEF PollInv

LEMMA SetDeadlinePoll ==
  ASSUME PollInv, pollSetDeadline
  PROVE  PollInv'
<1> PICK d \in Durations, modes \in {{"r"}, {"w"}, Modes} :
      LET till == IF d <= 0 THEN d ELSE IF now + d > MaxInt THEN MaxInt ELSE now + d
          dl == [m \in Modes |-> IF m \in modes THEN till ELSE deadline[m]]
          changed(m) == dl[m] # deadline[m] \/ Combo(dl) # Combo(deadline)
          reset(m) == tf[m] = None /\ Wanted(dl, m) # None
          modify(m) == tf[m] # None /\ changed(m)
      IN
      /\ life = "open" /\ sets < MaxSets
      /\ Lock({m \in Modes : dl[m] < 0})
      /\ deadline' = dl
      /\ seq' = [m \in Modes |-> IF modify(m) THEN seq[m] + 1 ELSE seq[m]]
      /\ tf' = [m \in Modes |-> IF reset(m) \/ modify(m) THEN Wanted(dl, m) ELSE tf[m]]
      /\ armed' = [m \in Modes |->
                     IF ~reset(m) /\ ~modify(m) THEN armed[m]
                     ELSE IF Wanted(dl, m) = None THEN None
                     ELSE [when |-> dl[m], f |-> Wanted(dl, m), seq |-> seq'[m]]]
      /\ sets' = sets + 1
      /\ UNCHANGED <<now, closing, sem, pending, toRun, waiters, upc, filevars, events>>
  BY DEF pollSetDeadline
<1> DEFINE till == IF d <= 0 THEN d ELSE IF now + d > MaxInt THEN MaxInt ELSE now + d
           dl == [m \in Modes |-> IF m \in modes THEN till ELSE deadline[m]]
           changed(m) == dl[m] # deadline[m] \/ Combo(dl) # Combo(deadline)
           reset(m) == tf[m] = None /\ Wanted(dl, m) # None
           modify(m) == tf[m] # None /\ changed(m)
<1>0. /\ Types /\ OneHolder /\ Waits /\ Lives /\ TimersRight /\ Calls /\ WaitersCounted
      /\ UNCHANGED <<now, closing, sem, pending, toRun, waiters, upc, life>>
      /\ life = "open" /\ Lock({m \in Modes : dl[m] < 0}) /\ deadline' = dl
      /\ seq' = [m \in Modes |-> IF modify(m) THEN seq[m] + 1 ELSE seq[m]]
      /\ tf' = [m \in Modes |-> IF reset(m) \/ modify(m) THEN Wanted(dl, m) ELSE tf[m]]
      /\ armed' = [m \in Modes |->
                     IF ~reset(m) /\ ~modify(m) THEN armed[m]
                     ELSE IF Wanted(dl, m) = None THEN None
                     ELSE [when |-> dl[m], f |-> Wanted(dl, m), seq |-> seq'[m]]]
  BY DEF PollInv, filevars
<1>1. dl \in [Modes -> Int]
  <2>1. d \in Int /\ now \in Int /\ MaxInt \in Int /\ deadline \in [Modes -> Int]
    BY <1>0, NetpollConstants DEF Types
  <2>2. till \in Int
    BY <2>1
  <2> HIDE DEF till
  <2> QED BY <2>1, <2>2
<1>2. \A m \in Modes : Wanted(dl, m) \in {None} \cup SUBSET Modes
  BY DEF Wanted
<1> HIDE DEF dl
<1>3. /\ \A m \in Modes : reset(m) \/ modify(m) => tf'[m] = Wanted(dl, m)
      /\ \A m \in Modes : ~reset(m) /\ ~modify(m) =>
           tf'[m] = tf[m] /\ armed'[m] = armed[m]
      /\ \A m \in Modes : reset(m) \/ modify(m) =>
           armed'[m] = IF Wanted(dl, m) = None THEN None
                       ELSE [when |-> dl[m], f |-> Wanted(dl, m), seq |-> seq'[m]]
      /\ \A m \in Modes : seq'[m] = IF modify(m) THEN seq[m] + 1 ELSE seq[m]
      /\ \A m \in Modes : seq[m] \in Nat
      /\ seq' \in [Modes -> Nat]
  BY <1>0 DEF Types
<1>4. lk' \in Work /\ OneHolder' /\ Waits' /\ WaitersCounted'
  <2>1. {m \in Modes : dl[m] < 0} \in SUBSET Modes
    OBVIOUS
  <2> QED BY <1>0, <2>1, LockTaken, UsersStay
<1>5. Types'
  <2>1. tf' \in [Modes -> {None} \cup SUBSET Modes]
    BY <1>0, <1>2 DEF Types
  <2>2. armed' \in [Modes -> {None} \cup Timer]
    <3>1. ASSUME NEW m \in Modes PROVE armed'[m] \in {None} \cup Timer
      <4>1. armed[m] \in {None} \cup Timer /\ dl[m] \in Int /\ seq'[m] \in Nat
        BY <1>0, <1>1, <1>3 DEF Types, Timer
      <4>2. Wanted(dl, m) # None =>
              [when |-> dl[m], f |-> Wanted(dl, m), seq |-> seq'[m]] \in Timer
        BY <1>2, <4>1 DEF Timer
      <4> QED BY <1>3, <4>1, <4>2
    <3>2. armed' = [m \in Modes |-> armed'[m]]
      BY <1>0
    <3> QED BY <3>1, <3>2
  <2> QED BY <1>0, <1>1, <1>3, <1>4, <2>1, <2>2 DEF Types, Work, Timer
<1>6. Lives'
  BY <1>0 DEF Lives
<1>7. ASSUME NEW m \in Modes
      PROVE  /\ Wanted(dl, m) = tf'[m]
             /\ tf'[m] # None =>
                  \/ armed'[m] = [when |-> dl[m], f |-> tf'[m], seq |-> seq'[m]]
                  \/ armed'[m] = None /\ [f |-> tf'[m], seq |-> seq'[m]] \in pending
             /\ tf'[m] = None => armed'[m] = None
  <2>0. Wanted(deadline, m) = tf[m]
    BY <1>0 DEF Lives, TimersRight
  <2>1. CASE reset(m) \/ modify(m)
    BY <1>3, <2>1
  <2>2. CASE ~reset(m) /\ ~modify(m) /\ tf[m] = None
    BY <1>0, <1>3, <2>2 DEF TimersRight
  <2>3. CASE ~reset(m) /\ ~modify(m) /\ tf[m] # None
    <3>1. dl[m] = deadline[m] /\ Combo(dl) = Combo(deadline)
      BY <2>3
    <3>2. Wanted(dl, m) = tf[m]
      BY <2>0, <3>1 DEF Wanted
    <3> QED BY <1>0, <1>3, <2>3, <3>1, <3>2 DEF TimersRight
  <2> QED BY <2>1, <2>2, <2>3
<1>8. TimersRight'
  BY <1>0, <1>7 DEF TimersRight
<1>9. Calls'
  <2> SUFFICES ASSUME NEW p \in pending
               PROVE  /\ p.f # {} /\ p.seq <= seq'[Key(p.f)]
                      /\ p.seq = seq'[Key(p.f)] =>
                           /\ tf'[Key(p.f)] = p.f /\ armed'[Key(p.f)] = None
                           /\ dl[Key(p.f)] <= now
    BY <1>0 DEF Calls
  <2>1. /\ p \in Call /\ Key(p.f) \in Modes /\ seq[Key(p.f)] \in Nat /\ p.seq \in Nat
        /\ p.f # {} /\ p.seq <= seq[Key(p.f)] /\ p.f # None
    BY <1>0, ModesAre, NoneIsNone DEF Types, Call, Calls
  <2>2. p.seq <= seq'[Key(p.f)]
    BY <1>3, <2>1
  <2>3. ASSUME p.seq = seq'[Key(p.f)]
        PROVE  /\ tf'[Key(p.f)] = p.f /\ armed'[Key(p.f)] = None /\ dl[Key(p.f)] <= now
    <3>1. ~modify(Key(p.f)) /\ p.seq = seq[Key(p.f)]
      BY <1>3, <2>1, <2>3
    <3>2. tf[Key(p.f)] = p.f /\ armed[Key(p.f)] = None /\ deadline[Key(p.f)] <= now
      BY <1>0, <3>1 DEF Calls
    <3>3. ~reset(Key(p.f)) /\ dl[Key(p.f)] = deadline[Key(p.f)]
      BY <2>1, <3>1, <3>2
    <3> QED BY <1>3, <2>1, <3>1, <3>2, <3>3
  <2> QED BY <2>1, <2>2, <2>3
<1> QED BY <1>4, <1>5, <1>6, <1>8, <1>9 DEF PollInv

\* Two calls that are not stale and have the same timer are the same.
LEMMA OneCall ==
  ASSUME PollInv, NEW p \in pending, NEW q \in pending, p.seq = CurrentSeq(p),
         q.seq = CurrentSeq(q), Key(p.f) = Key(q.f)
  PROVE  p = q
<1>1. p.f = q.f /\ p.seq = q.seq
  BY CallCurrent
<1>2. p \in Call /\ q \in Call
  BY DEF PollInv, Types, Call
<1> QED BY <1>1, <1>2 DEF Call

LEMMA DeadlinePoll ==
  ASSUME PollInv, netpolldeadlineimpl
  PROVE  PollInv'
<1> PICK p \in pending :
      /\ lk = None
      /\ pending' = pending \ {p}
      /\ IF p.seq # CurrentSeq(p) THEN UNCHANGED <<lk, deadline, tf>>
         ELSE /\ Lock(p.f)
              /\ deadline' = [m \in Modes |-> IF m \in p.f THEN -1 ELSE deadline[m]]
              /\ tf' = [m \in Modes |-> IF m \in p.f THEN None ELSE tf[m]]
      /\ UNCHANGED <<now, closing, sem, seq, armed, toRun, waiters, upc, filevars, events, sets>>
  BY DEF netpolldeadlineimpl
<1>0. /\ Types /\ OneHolder /\ Waits /\ Lives /\ TimersRight /\ Calls /\ WaitersCounted
      /\ UNCHANGED <<now, closing, sem, seq, armed, toRun, waiters, upc, life>>
      /\ pending' \subseteq pending /\ pending' = pending \ {p}
      /\ \A m \in Modes : tf[m] # None =>
           \/ armed[m] = [when |-> deadline[m], f |-> tf[m], seq |-> seq[m]]
           \/ armed[m] = None /\ [f |-> tf[m], seq |-> seq[m]] \in pending
  BY DEF PollInv, filevars, TimersRight
\* The call of the timer that is set for m is p only if p is that of m.
<1>1. ASSUME NEW m \in Modes, tf[m] # None, [f |-> tf[m], seq |-> seq[m]] = p
      PROVE  p.seq = CurrentSeq(p) /\ Key(p.f) = m
  <2>1. p.f = tf[m] /\ p.seq = seq[m]
    BY <1>1
  <2>2. Key(p.f) = m
    BY <1>1, <2>1, TimerSet
  <2> QED BY <2>1, <2>2 DEF CurrentSeq, Key
<1>2. CASE p.seq # CurrentSeq(p)
  <2>0. UNCHANGED <<lk, deadline, tf>>
    BY <1>2
  <2>1. Types' /\ OneHolder' /\ Waits' /\ Lives' /\ WaitersCounted'
    <3>1. pending' \subseteq Call
      BY <1>0 DEF Types, Call
    <3>2. Types'
      BY <1>0, <2>0, <3>1 DEF Types, Call
    <3>3. OneHolder' /\ Waits' /\ Lives'
      <4>1. UNCHANGED <<sem, upc, lk, toRun, closing, life, tf>>
        BY <1>0, <2>0
      <4>2. OneHolder'
        BY <1>0, <4>1 DEF OneHolder, OnSem, WithLock, InRun
      <4>3. Waits'
        BY <1>0, <4>1 DEF Waits
      <4>4. Lives'
        BY <1>0, <4>1 DEF Lives
      <4> QED BY <4>2, <4>3, <4>4
    <3>4. WaitersCounted'
      BY <1>0, <2>0 DEF WaitersCounted
    <3> QED BY <3>2, <3>3, <3>4
  <2>2. TimersRight'
    <3>1. \A m \in Modes : tf[m] # None /\ [f |-> tf[m], seq |-> seq[m]] \in pending =>
            [f |-> tf[m], seq |-> seq[m]] \in pending'
      BY <1>0, <1>1, <1>2
    <3> QED BY <1>0, <2>0, <3>1 DEF TimersRight
  <2>3. Calls'
    BY <1>0, <2>0 DEF Calls
  <2> QED BY <2>1, <2>2, <2>3 DEF PollInv
<1>3. CASE p.seq = CurrentSeq(p)
  <2> DEFINE k == Key(p.f)
  <2>0. /\ Lock(p.f)
        /\ deadline' = [m \in Modes |-> IF m \in p.f THEN -1 ELSE deadline[m]]
        /\ tf' = [m \in Modes |-> IF m \in p.f THEN None ELSE tf[m]]
    BY <1>3
  <2>1. /\ k \in Modes /\ tf[k] = p.f /\ tf[k] # None /\ armed[k] = None /\ p.seq = seq[k]
    BY <1>3, CallCurrent
  <2>2. /\ life = "open" /\ ~closing /\ p.f \in SUBSET Modes /\ k \in p.f
        /\ p.f \in {{k}, Modes} /\ (Combo(deadline) <=> p.f = Modes)
        /\ p.f = Modes => k = "r" /\ tf["w"] = None
    BY <2>1, TimerSet
  <2> HIDE DEF k
  \* Either both modes or only that of the timer.
  <2>3. \A m \in Modes : m \in p.f => m = k \/ tf[m] = None
    BY <2>2, ModesAre
  <2>4. /\ \A m \in p.f : deadline'[m] = -1 /\ tf'[m] = None
        /\ \A m \in Modes \ p.f : deadline'[m] = deadline[m] /\ tf'[m] = tf[m]
    BY <2>0, <2>2
  <2>5. lk' \in Work /\ OneHolder' /\ Waits' /\ WaitersCounted'
    BY <1>0, <2>0, <2>2, LockTaken, UsersStay
  <2>6. Types'
    <3>1. deadline' \in [Modes -> Int] /\ tf' \in [Modes -> {None} \cup SUBSET Modes]
      BY <1>0, <2>0 DEF Types
    <3> QED BY <1>0, <2>5, <3>1 DEF Types, Work
  <2>7. Lives'
    BY <1>0, <2>2 DEF Lives
  <2>8. TimersRight'
    <3>0. \A m \in Modes : tf[m] = None => armed[m] = None
      BY <1>0 DEF TimersRight
    <3>1. ASSUME NEW m \in p.f
          PROVE  Wanted(deadline', m) = None /\ tf'[m] = None /\ armed'[m] = None
      <4>1. m \in Modes /\ deadline'[m] = -1 /\ tf'[m] = None
        BY <2>2, <2>4
      <4>2. armed[m] = None
        BY <2>1, <2>3, <3>0, <4>1
      <4> QED BY <1>0, <4>1, <4>2 DEF Wanted
    <3>2. ASSUME NEW m \in Modes \ p.f
          PROVE  /\ Wanted(deadline', m) = tf'[m]
                 /\ tf'[m] # None =>
                      \/ armed'[m] = [when |-> deadline'[m], f |-> tf'[m], seq |-> seq[m]]
                      \/ armed'[m] = None /\ [f |-> tf'[m], seq |-> seq[m]] \in pending'
                 /\ tf'[m] = None => armed'[m] = None
      <4>1. p.f # Modes /\ m # k /\ ~Combo(deadline)
        BY <2>2, <3>2
      <4>2. ~Combo(deadline')
        <5>1. deadline'[k] = -1 /\ (k = "r" \/ k = "w")
          BY <2>1, <2>2, <2>4, ModesAre
        <5> QED BY <5>1 DEF Combo
      <4>3. Wanted(deadline', m) = Wanted(deadline, m)
        BY <2>4, <4>1, <4>2 DEF Wanted
      <4>4. Wanted(deadline, m) = tf[m]
        BY <1>0, <2>2 DEF TimersRight
      <4>5. tf[m] # None => [f |-> tf[m], seq |-> seq[m]] # p
        BY <1>1, <4>1 DEF k
      <4>6. tf'[m] = tf[m] /\ deadline'[m] = deadline[m] /\ armed'[m] = armed[m]
        BY <1>0, <2>4
      <4> QED BY <1>0, <3>0, <4>3, <4>4, <4>5, <4>6
    <3>3. seq' = seq
      BY <1>0
    <3> QED BY <3>1, <3>2, <3>3 DEF TimersRight
  <2>9. Calls'
    <3> SUFFICES ASSUME NEW q \in pending'
                 PROVE  /\ q.f # {} /\ q.seq <= seq[Key(q.f)]
                        /\ q.seq = seq[Key(q.f)] =>
                             /\ tf'[Key(q.f)] = q.f /\ armed[Key(q.f)] = None
                             /\ deadline'[Key(q.f)] <= now
      BY <1>0 DEF Calls
    <3>1. q \in pending /\ q # p /\ q.f # {} /\ q.seq <= seq[Key(q.f)]
      BY <1>0 DEF Calls
    <3>2. ASSUME q.seq = seq[Key(q.f)]
          PROVE  /\ tf'[Key(q.f)] = q.f /\ armed[Key(q.f)] = None /\ deadline'[Key(q.f)] <= now
      <4>1. q.seq = CurrentSeq(q)
        BY <3>2 DEF Key, CurrentSeq
      <4>2. Key(q.f) # k
        BY <1>3, <3>1, <4>1, OneCall DEF k
      <4>3. Key(q.f) \in Modes /\ tf[Key(q.f)] = q.f /\ q.f # None
        BY <3>1, <4>1, CallCurrent
      <4>4. Key(q.f) \notin p.f
        BY <2>3, <4>2, <4>3
      <4> QED BY <1>0, <2>4, <3>1, <3>2, <4>3, <4>4 DEF Calls
    <3> QED BY <3>1, <3>2
  <2> QED BY <2>5, <2>6, <2>7, <2>8, <2>9 DEF PollInv
<1> QED BY <1>2, <1>3

-----------------------------------------------------------------------------
(* The theorems *)

LEMMA PollInitInv == Init => PollInv
<1> SUFFICES ASSUME Init PROVE PollInv
  OBVIOUS
<1>1. Types
  <2>1. now = 0 /\ MaxTime \in Nat /\ closing = FALSE /\ lk = None /\ pending = {}
        /\ toRun = {} /\ waiters = 0 /\ life = "free"
    BY NetpollConstants DEF Init
  <2>2. sem \in [Modes -> {"nil"}] /\ deadline \in [Modes -> {0}] /\ seq \in [Modes -> {0}]
        /\ tf \in [Modes -> {None}] /\ armed \in [Modes -> {None}] /\ upc \in [Modes -> {"idle"}]
    BY DEF Init, All
  <2>3. /\ sem \in [Modes -> {"nil", "Ready", "Wait", "G"}] /\ upc \in [Modes -> Places]
        /\ tf \in [Modes -> {None} \cup SUBSET Modes]
    BY <2>2 DEF Places
  <2>4. /\ deadline \in [Modes -> Int] /\ seq \in [Modes -> Nat]
        /\ armed \in [Modes -> {None} \cup [when : Int, f : SUBSET Modes, seq : Nat]]
    BY <2>2
  <2>5. /\ now \in Nat /\ now <= MaxTime /\ closing \in BOOLEAN /\ waiters \in Nat
        /\ lk \in {None} \cup Work /\ life \in {"free", "open", "evicted"}
    <3>1. now \in Nat /\ now <= MaxTime /\ waiters \in Nat
      BY <2>1
    <3>2. lk \in {None} \cup Work
      BY <2>1
    <3>3. closing \in BOOLEAN
      BY <2>1
    <3>4. life \in {"free", "open", "evicted"}
      BY <2>1
    <3> QED BY <3>1, <3>2, <3>3, <3>4
  <2>6. pending \subseteq Call /\ toRun \subseteq Modes \X BOOLEAN
    BY <2>1
  <2> QED BY <2>3, <2>4, <2>5, <2>6 DEF Types, Work, Call
<1>2. /\ \A m \in Modes : /\ upc[m] = "idle" /\ tf[m] = None /\ armed[m] = None
                          /\ sem[m] = "nil" /\ deadline[m] = 0
      /\ lk = None /\ toRun = {} /\ pending = {} /\ waiters = 0 /\ life = "free"
  BY DEF Init, All
<1>3. OneHolder /\ Waits /\ Lives /\ Calls
  BY <1>2 DEF OneHolder, OnSem, WithLock, InRun, Waits, Lives, Calls
<1>4. TimersRight
  BY <1>2 DEF TimersRight, Wanted
<1>5. WaitersCounted
  <2>1. {m \in Modes : upc[m] = "parked"} = {}
    BY <1>2
  <2> QED BY <1>2, <2>1, FS_EmptySet DEF WaitersCounted
<1> QED BY <1>1, <1>3, <1>4, <1>5 DEF PollInv

LEMMA PollStutter == PollInv /\ UNCHANGED vars => PollInv'
<1> SUFFICES ASSUME PollInv, UNCHANGED vars PROVE PollInv'
  OBVIOUS
<1>1. UNCHANGED <<now, closing, sem, deadline, seq, tf, armed, lk, pending, toRun, waiters, upc,
                  life>>
  BY DEF vars, pdvars, filevars
<1>2. Types' /\ OneHolder' /\ Waits' /\ Lives'
  BY <1>1 DEF PollInv, Types, OneHolder, OnSem, WithLock, InRun, Waits, Lives
<1>3. TimersRight' /\ Calls' /\ WaitersCounted'
  BY <1>1 DEF PollInv, TimersRight, Calls, WaitersCounted
<1> QED BY <1>2, <1>3 DEF PollInv

\* Holders tells the places of OneHolder apart.
LEMMA TheHolder ==
  ASSUME PollInv, NEW m \in Modes
  PROVE  IF upc[m] = "parked" THEN \E h \in Holders(m) : Holders(m) = {h} ELSE Holders(m) = {}
<1> DEFINE A == IF sem[m] = "G" THEN {"sem"} ELSE {}
           B == IF lk # None /\ m \in lk.got THEN {"lock"} ELSE {}
           C == toRun \cap ({m} \X BOOLEAN)
<1>1. /\ upc[m] = "parked" <=> OnSem(m) \/ WithLock(m) \/ InRun(m, TRUE) \/ InRun(m, FALSE)
      /\ OnSem(m) => ~WithLock(m) /\ ~InRun(m, TRUE) /\ ~InRun(m, FALSE)
      /\ WithLock(m) => ~InRun(m, TRUE) /\ ~InRun(m, FALSE)
      /\ ~(InRun(m, TRUE) /\ InRun(m, FALSE))
  BY DEF PollInv, OneHolder
<1>2. Holders(m) = A \cup B \cup C
  BY DEF Holders
<1>3. (OnSem(m) => A = {"sem"}) /\ (~OnSem(m) => A = {})
  BY DEF OnSem
<1>4. (WithLock(m) => B = {"lock"}) /\ (~WithLock(m) => B = {})
  BY DEF WithLock
<1>5. /\ \A h \in C : h = <<m, TRUE>> \/ h = <<m, FALSE>>
      /\ <<m, TRUE>> \in C <=> InRun(m, TRUE)
      /\ <<m, FALSE>> \in C <=> InRun(m, FALSE)
  <2>1. ASSUME NEW h \in C PROVE h = <<m, TRUE>> \/ h = <<m, FALSE>>
    <3>1. PICK c \in BOOLEAN : h = <<m, c>>
      OBVIOUS
    <3>2. CASE c = TRUE
      BY <3>1, <3>2
    <3>3. CASE c = FALSE
      BY <3>1, <3>3
    <3> QED BY <3>2, <3>3
  <2>2. <<m, TRUE>> \in {m} \X BOOLEAN /\ <<m, FALSE>> \in {m} \X BOOLEAN
    OBVIOUS
  <2> QED BY <2>1, <2>2 DEF InRun
<1> DEFINE one == <<m, TRUE>>
           two == <<m, FALSE>>
<1>6. /\ ~InRun(m, TRUE) /\ ~InRun(m, FALSE) => C = {}
      /\ InRun(m, TRUE) /\ ~InRun(m, FALSE) => C = {one}
      /\ ~InRun(m, TRUE) /\ InRun(m, FALSE) => C = {two}
  <2>1. /\ \A h \in C : h = one \/ h = two
        /\ one \in C <=> InRun(m, TRUE)
        /\ two \in C <=> InRun(m, FALSE)
    BY <1>5
  <2> HIDE DEF C, one, two
  <2>2. ASSUME ~InRun(m, TRUE), ~InRun(m, FALSE) PROVE C = {}
    BY <2>1, <2>2
  <2>3. ASSUME InRun(m, TRUE), ~InRun(m, FALSE) PROVE C = {one}
    BY <2>1, <2>3
  <2>4. ASSUME ~InRun(m, TRUE), InRun(m, FALSE) PROVE C = {two}
    BY <2>1, <2>4
  <2> QED BY <2>2, <2>3, <2>4
<1> HIDE DEF A, B, C, one, two
<1>7. CASE OnSem(m)
  <2>1. Holders(m) = {"sem"}
    BY <1>1, <1>2, <1>3, <1>4, <1>6, <1>7
  <2> QED BY <1>1, <1>7, <2>1
<1>8. CASE WithLock(m)
  <2>1. Holders(m) = {"lock"}
    BY <1>1, <1>2, <1>3, <1>4, <1>6, <1>8
  <2> QED BY <1>1, <1>8, <2>1
<1>9. CASE InRun(m, TRUE)
  <2>1. Holders(m) = {one}
    BY <1>1, <1>2, <1>3, <1>4, <1>6, <1>9
  <2> QED BY <1>1, <1>9, <2>1
<1>10. CASE InRun(m, FALSE)
  <2>1. Holders(m) = {two}
    BY <1>1, <1>2, <1>3, <1>4, <1>6, <1>10
  <2> QED BY <1>1, <1>10, <2>1
<1>11. CASE ~OnSem(m) /\ ~WithLock(m) /\ ~InRun(m, TRUE) /\ ~InRun(m, FALSE)
  <2>1. Holders(m) = {}
    BY <1>2, <1>3, <1>4, <1>6, <1>11
  <2> QED BY <1>1, <1>11, <2>1
<1> QED BY <1>7, <1>8, <1>9, <1>10, <1>11

LEMMA PollAlways == Spec => []PollInv
<1>1. PollInv /\ [Next]_vars => PollInv'
  <2> SUFFICES ASSUME PollInv, [Next]_vars PROVE PollInv'
    OBVIOUS
  <2>1. ASSUME NEW m \in Modes,
               UserStep(m) \/ goready(m) \/ Poller(m) \/ Fire(m) \/ Start(m) \/ Arrive(m)
        PROVE  PollInv'
    BY <2>1, UserPoll, CommitPoll, GoreadyPoll, KernelPoll, ReadyPoll, FirePoll, StartPoll
       DEF UserStep, Poller
  <2>2. CASE Locked
    BY <2>2, UnblockNextPoll, UnlockPoll DEF Locked
  <2>3. CASE netpolldeadlineimpl \/ pollSetDeadline \/ pollUnblock \/ pollOpen \/ pollClose \/ Tick
    BY <2>3, DeadlinePoll, SetDeadlinePoll, UnblockPoll, OpenPoll, ClosePoll, TickPoll
  <2> QED BY <2>1, <2>2, <2>3, PollStutter DEF Next
<1> QED BY <1>1, PollInitInv, PTL DEF Spec

(***************************************************************************)
(* The poller's structure holds (netpoll.go:64-83, 160-540): semaphores    *)
(* that lose no goroutine and make none ready twice, no throw, a timer for *)
(* each deadline to come, and netpollWaiters never less than the parked.   *)
(***************************************************************************)
THEOREM PollerIsSound == Spec => []PollStructure
<1>1. ASSUME PollInv PROVE PollStructure
  <2>0. Types /\ OneHolder /\ Waits /\ Lives /\ TimersRight /\ Calls /\ WaitersCounted
    BY <1>1 DEF PollInv
  <2>1. TypeOK
    <3>1. now \in 0 .. MaxTime
      BY <2>0, NetpollConstants DEF Types
    <3> QED BY <2>0, <3>1 DEF Types, TypeOK
  <2>2. SemaphoresRight
    <3> SUFFICES ASSUME NEW m \in Modes
                 PROVE  IF upc[m] = "parked" THEN \E h \in Holders(m) : Holders(m) = {h}
                        ELSE Holders(m) = {}
      BY <2>0 DEF Waits, SemaphoresRight
    <3> QED BY <1>1, TheHolder
  <2>3. NoThrow
    <3>1. \A m \in Modes : upc[m] = "block" => sem[m] \in {"nil", "Ready"}
      BY <1>1, NotParked
    <3>2. \A m \in Modes : upc[m] = "xchg" => sem[m] # "G"
      BY <1>1, NotParked
    <3>3. life = "free" \/ (life = "evicted" /\ Idle) => \A m \in Modes : sem[m] \in {"nil", "Ready"}
      <4>1. life = "free" \/ Idle => \A m \in Modes : upc[m] = "idle"
        BY <2>0 DEF Lives, Idle, All
      <4> QED BY <1>1, <4>1, NotParked
    <3>4. ASSUME NEW p \in pending, p.seq = CurrentSeq(p), NEW m \in p.f
          PROVE  deadline[m] > 0 /\ (tf[m] # None \/ (m = "w" /\ "r" \in p.f))
      <4>1. m \in Modes /\ 0 < deadline[m] /\ tf[Key(p.f)] = p.f /\ p.f # None /\ deadline[m] \in Int
        BY <1>1, <2>0, <3>4, CallCurrent DEF Types
      <4>2. m = Key(p.f) \/ (m = "w" /\ "r" \in p.f)
        BY <4>1, ModesAre DEF Key
      <4> QED BY <4>1, <4>2
    <3> QED BY <3>1, <3>2, <3>3, <3>4 DEF NoThrow
  <2> QED BY <2>0, <2>1, <2>2, <2>3 DEF PollStructure
<1>2. PollInv => PollStructure
  BY <1>1
<1> QED BY <1>2, PollAlways, PTL

(***************************************************************************)
(* A deadline passes only when its time has come (netpoll.go:407-463): the *)
(* call of a timer function that an earlier deadline or an earlier use of  *)
(* the descriptor left behind times out nothing.                           *)
(***************************************************************************)
THEOREM DeadlinesPassInTime == Spec => NoEarlyTimeout
<1>1. ASSUME PollInv, [Next]_vars, NEW m \in Modes, pending' # pending, deadline'[m] # deadline[m]
      PROVE  life = "open" /\ deadline[m] > 0 /\ deadline[m] <= now
  <2>1. netpolldeadlineimpl
    <3>1. ASSUME NEW k \in Modes,
                 UserStep(k) \/ goready(k) \/ Poller(k) \/ Fire(k) \/ Start(k) \/ Arrive(k)
          PROVE  deadline' = deadline
      BY <3>1 DEF UserStep, goready, Poller, Fire, Start, Arrive, UserOnly, pdvars, CheckClosing,
                  pollReset, Try, pollWait, netpollblock, Recheck, netpollblockcommit, Xchg,
                  netpoll, netpollready
    <3>2. Locked => deadline' = deadline
      BY DEF Locked, Unlock, UnblockNext, pdvars
    <3>3. pollSetDeadline \/ pollUnblock \/ pollOpen \/ pollClose \/ Tick \/ UNCHANGED vars =>
            pending' = pending
      <4>1. pollSetDeadline => pending' = pending
        BY DEF pollSetDeadline
      <4>2. pollUnblock \/ pollOpen \/ pollClose \/ Tick \/ UNCHANGED vars => pending' = pending
        BY DEF pollUnblock, pollOpen, pollClose, Tick, vars
      <4> QED BY <4>1, <4>2
    <3> QED BY <1>1, <3>1, <3>2, <3>3 DEF Next
  <2>2. PICK p \in pending :
          IF p.seq # CurrentSeq(p) THEN UNCHANGED <<lk, deadline, tf>>
          ELSE deadline' = [k \in Modes |-> IF k \in p.f THEN -1 ELSE deadline[k]]
    BY <2>1 DEF netpolldeadlineimpl
  <2>3. p.seq = CurrentSeq(p) /\ m \in p.f
    BY <1>1, <2>2
  <2>4. tf[Key(p.f)] # None /\ Key(p.f) \in Modes /\ 0 < deadline[m] /\ deadline[m] <= now
        /\ deadline[m] \in Int
    BY <1>1, <2>3, CallCurrent DEF PollInv, Types
  <2> QED BY <1>1, <2>4, TimerSet
<1>2. PollInv /\ [Next]_vars =>
        [\A m \in Modes : pending' # pending /\ deadline'[m] # deadline[m] =>
           life = "open" /\ deadline[m] > 0 /\ deadline[m] <= now]_vars
  BY <1>1
<1> QED BY <1>2, PollAlways, PTL DEF Spec, NoEarlyTimeout
=============================================================================
