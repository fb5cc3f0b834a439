---------------------------- MODULE MutexProofs ----------------------------
(***************************************************************************)
(* Proofs about module Mutex for any finite number of goroutines: mutual   *)
(* exclusion and the absence of throws, in normal mode, in starvation mode *)
(* and across the changes of mode.                                         *)
(*                                                                         *)
(* The argument: at any time there is at most one wakeup token.  It is     *)
(* created by the Unlock (or the spinning Lock) that sets mutexWoken, or   *)
(* by the Unlock of a starving mutex; it travels through m.sema and is     *)
(* spent by the goroutine it wakes.  In normal mode mutexWoken says        *)
(* whether the token exists; in starvation mode a missing mutexLocked      *)
(* does.  That is what keeps a starving mutex closed to everyone but the   *)
(* goroutine that got the unit.                                            *)
(***************************************************************************)
EXTENDS Mutex, SemaProofs

\* g came back from the semaphore, or has been handed its unit, and did not look yet.
Back(g) == pc[g] = "asleep" /\ (spc[g] = "idle" \/ ticket[g])
\* The goroutines that the token can be with, when it is not in m.sema.
Carrier(g) == pc[g] \in {"release", "handoff"} \/ Back(g) \/ awoke[g]
Token == sema[mu] = 1 \/ \E g \in G : Carrier(g)

CallsMatch ==
  \A g \in G :
    /\ spc[g] \in AcquirePhase => pc[g] = "asleep"
    /\ spc[g] \in ReleasePhase => pc[g] = "idle"
    /\ spc[g] # "idle" => sarg[g].addr = mu
    /\ awoke[g] => pc[g] \in {"slow", "loop"}
    /\ starving[g] => pc[g] \in {"acquire", "asleep", "handoff"} \/ awoke[g]

OneToken ==
  /\ \A g, h \in G : Carrier(g) /\ Carrier(h) => g = h
  /\ sema[mu] \in {0, 1}
  /\ sema[mu] = 1 => \A g \in G : ~Carrier(g)

NormalMode ==
  ~st.starving =>
    /\ st.woken <=> Token
    /\ \A g \in G : pc[g] # "handoff"
    /\ \A g \in G : pc[g] = "release" => ~old[g].starving

StarvationMode ==
  st.starving =>
    /\ ~st.woken /\ st.waiters > 0
    /\ st.locked <=> ~Token
    /\ \A g \in G : ~awoke[g]
    /\ \A g \in G : pc[g] = "release" => old[g].starving

Ownership == MutualExclusion /\ (st.locked <=> holders # {})

Locals ==
  /\ NoThrow
  /\ \A g \in G : pc[g] = "handoff" => old[g].waiters <= st.waiters

MutexInv ==
  /\ MutexTypeOK /\ SemaInv
  /\ CallsMatch /\ OneToken /\ NormalMode /\ StarvationMode /\ Ownership /\ Locals

-----------------------------------------------------------------------------
(* Steps of the semaphore, during which nothing of the mutex changes *)

\* The token stays where it is.
LEMMA TokenStays ==
  ASSUME MutexInv, SemaInv', CallsMatch', UNCHANGED mvars, sema'[mu] = sema[mu],
         \A h \in G : Back(h)' <=> Back(h)
  PROVE  MutexInv'
<1>1. /\ \A h \in G : Carrier(h)' <=> Carrier(h)
      /\ Token' <=> Token
  BY DEF Carrier, Token, mvars
<1>2. MutexTypeOK'
  BY DEF MutexInv, MutexTypeOK, SemaInv, mvars
<1>3. OneToken'
  BY <1>1 DEF MutexInv, OneToken, mvars
<1>4. NormalMode' /\ StarvationMode'
  BY <1>1 DEF MutexInv, NormalMode, StarvationMode, mvars
<1>5. Ownership' /\ Locals'
  BY DEF MutexInv, Ownership, MutualExclusion, Locals, NoThrow, mvars
<1> QED BY <1>2, <1>3, <1>4, <1>5 DEF MutexInv

\* The token leaves m.sema with goroutine s.
LEMMA TokenTaken ==
  ASSUME MutexInv, SemaInv', CallsMatch', UNCHANGED mvars, NEW s \in G,
         sema[mu] > 0, sema'[mu] = sema[mu] - 1,
         Back(s)', \A h \in G \ {s} : Back(h)' <=> Back(h)
  PROVE  MutexInv'
<1>1. /\ sema[mu] = 1 /\ sema'[mu] = 0
      /\ \A h \in G : ~Carrier(h)
  BY DEF MutexInv, OneToken
<1>2. \A h \in G : Carrier(h)' <=> h = s
  BY <1>1 DEF Carrier, mvars
<1>3. Token' /\ Token
  BY <1>1, <1>2 DEF Token
<1>4. MutexTypeOK'
  BY DEF MutexInv, MutexTypeOK, SemaInv, mvars
<1>5. OneToken'
  BY <1>1, <1>2 DEF OneToken
<1>6. NormalMode' /\ StarvationMode'
  BY <1>3 DEF MutexInv, NormalMode, StarvationMode, mvars
<1>7. Ownership' /\ Locals'
  BY DEF MutexInv, Ownership, MutualExclusion, Locals, NoThrow, mvars
<1> QED BY <1>4, <1>5, <1>6, <1>7 DEF MutexInv

LEMMA SemaStepMutex ==
  ASSUME MutexInv, NEW g \in G, SemaStep(g), UNCHANGED mvars
  PROVE  MutexInv'
<1>0. /\ SemaInv /\ SemaTypeOK /\ ParkedOnce /\ CallsMatch /\ SemaInv'
      /\ pc' = pc /\ awoke' = awoke /\ starving' = starving
  BY SemaStepInv DEF MutexInv, SemaInv, mvars
<1>1. CASE AcquireLock(g)
  <2>1. /\ spc[g] = "lock" /\ spc'[g] = "recheck" /\ sema' = sema /\ ticket' = ticket
        /\ sarg' = sarg /\ \A h \in G \ {g} : spc'[h] = spc[h]
    BY <1>0, <1>1, GotoMoves DEF AcquireLock, AcquirePhase
  <2>2. CallsMatch'
    BY <1>0, <2>1 DEF CallsMatch, AcquirePhase, ReleasePhase
  <2>3. \A h \in G : Back(h)' <=> Back(h)
    BY <1>0, <2>1 DEF Back
  <2> QED BY <1>0, <2>1, <2>2, <2>3, TokenStays
<1>2. CASE AcquireRecheck(g)
  <2>1. /\ spc[g] = "recheck" /\ ticket' = ticket /\ sarg[g].addr = mu /\ pc[g] = "asleep"
        /\ ~ticket[g]
    BY <1>0, <1>2 DEF AcquireRecheck, CallsMatch, AcquirePhase, ParkedOnce, TicketWoken
  <2>2. CASE sema[mu] > 0
    <3>1. Down(mu) /\ Return(g)
      BY <1>2, <2>1, <2>2 DEF AcquireRecheck
    <3>2. /\ sema'[mu] = sema[mu] - 1 /\ spc'[g] = "idle"
          /\ \A h \in G \ {g} : spc'[h] = spc[h] /\ sarg'[h] = sarg[h]
      BY <1>0, <2>2, <3>1, DownOK, ReturnMoves, MuAddr
    <3>3. CallsMatch'
      BY <1>0, <2>1, <3>2 DEF CallsMatch, AcquirePhase, ReleasePhase
    <3>4. Back(g)' /\ \A h \in G \ {g} : Back(h)' <=> Back(h)
      BY <1>0, <2>1, <3>2 DEF Back
    <3> QED BY <1>0, <2>2, <3>2, <3>3, <3>4, TokenTaken
  <2>3. CASE ~(sema[mu] > 0)
    <3>1. sema' = sema /\ Goto(g, "parked")
      BY <1>2, <2>1, <2>3 DEF AcquireRecheck
    <3>2. /\ spc'[g] = "parked" /\ sarg' = sarg
          /\ \A h \in G \ {g} : spc'[h] = spc[h]
      BY <1>0, <3>1, GotoMoves DEF AcquirePhase
    <3>3. CallsMatch'
      BY <1>0, <2>1, <3>2 DEF CallsMatch, AcquirePhase, ReleasePhase
    <3>4. \A h \in G : Back(h)' <=> Back(h)
      BY <1>0, <2>1, <3>2 DEF Back
    <3> QED BY <1>0, <3>1, <3>3, <3>4, TokenStays
  <2> QED BY <2>2, <2>3
<1>3. CASE AcquireWoken(g)
  <2>1. /\ spc[g] = "woken" /\ sarg[g].addr = mu /\ pc[g] = "asleep"
        /\ ~ticket'[g] /\ \A h \in G \ {g} : ticket'[h] = ticket[h]
    BY <1>0, <1>3 DEF AcquireWoken, CallsMatch, AcquirePhase, SemaTypeOK
  <2>2. CASE ticket[g] \/ sema[mu] > 0
    <3>1. Return(g)
      BY <1>3, <2>1, <2>2 DEF AcquireWoken
    <3>2. /\ spc'[g] = "idle"
          /\ \A h \in G \ {g} : spc'[h] = spc[h] /\ sarg'[h] = sarg[h]
      BY <1>0, <3>1, ReturnMoves
    <3>3. CallsMatch'
      BY <1>0, <2>1, <3>2 DEF CallsMatch, AcquirePhase, ReleasePhase
    <3>4. Back(g)' /\ \A h \in G \ {g} : Back(h)' <=> Back(h)
      BY <1>0, <2>1, <3>2 DEF Back
    <3>5. CASE ticket[g]
      <4>1. sema' = sema /\ Back(g)
        BY <1>3, <3>5, <2>1 DEF AcquireWoken, Back
      <4> QED BY <1>0, <3>3, <3>4, <4>1, TokenStays
    <3>6. CASE ~ticket[g]
      <4>1. sema[mu] > 0 /\ sema'[mu] = sema[mu] - 1
        BY <1>0, <1>3, <3>6, <2>1, <2>2, DownOK, MuAddr DEF AcquireWoken
      <4> QED BY <1>0, <3>3, <3>4, <4>1, TokenTaken
    <3> QED BY <3>5, <3>6
  <2>3. CASE ~ticket[g] /\ ~(sema[mu] > 0)
    <3>1. sema' = sema /\ Goto(g, "lock")
      BY <1>3, <2>1, <2>3 DEF AcquireWoken
    <3>2. /\ spc'[g] = "lock" /\ sarg' = sarg
          /\ \A h \in G \ {g} : spc'[h] = spc[h]
      BY <1>0, <3>1, GotoMoves DEF AcquirePhase
    <3>3. CallsMatch'
      BY <1>0, <2>1, <3>2 DEF CallsMatch, AcquirePhase, ReleasePhase
    <3>4. \A h \in G : Back(h)' <=> Back(h)
      BY <1>0, <2>1, <2>3, <3>2 DEF Back
    <3> QED BY <1>0, <3>1, <3>3, <3>4, TokenStays
  <2> QED BY <2>2, <2>3
<1>4. CASE ReleaseNwait(g) \/ ReleaseDequeue(g)
  <2>1. /\ spc[g] \in {"nwait", "deq"} /\ sema' = sema /\ ticket' = ticket /\ pc[g] = "idle"
        /\ Return(g) \/ Goto(g, "deq") \/ Goto(g, "ready")
    BY <1>0, <1>4 DEF ReleaseNwait, ReleaseDequeue, CallsMatch, ReleasePhase
  <2>2. /\ spc'[g] \in {"idle", "deq", "ready"}
        /\ spc'[g] # "idle" => sarg'[g] = sarg[g]
        /\ \A h \in G \ {g} : spc'[h] = spc[h] /\ sarg'[h] = sarg[h]
    BY <1>0, <2>1, ReturnMoves, GotoMoves DEF ReleasePhase
  <2>3. CallsMatch'
    BY <1>0, <2>1, <2>2 DEF CallsMatch, AcquirePhase, ReleasePhase
  <2>4. \A h \in G : Back(h)' <=> Back(h)
    BY <1>0, <2>1, <2>2 DEF Back
  <2> QED BY <1>0, <2>1, <2>3, <2>4, TokenStays
<1>5. CASE ReleaseReady(g)
  <2> PICK s \in G : s = sdeq[g]
    BY <1>0 DEF SemaTypeOK
  <2> DEFINE grant == sarg[g].handoff /\ sema[mu] > 0
  <2>1. /\ spc[g] = "ready" /\ sarg[g].addr = mu /\ pc[g] = "idle"
        /\ spc[s] = "parked" /\ s # g /\ pc[s] = "asleep" /\ sarg[s].addr = mu /\ ~ticket[s]
    BY <1>0, <1>5 DEF ReleaseReady, CallsMatch, ReleasePhase, AcquirePhase, SemaTypeOK,
       ParkedOnce, DequeuedParked, TicketWoken
  <2>2. /\ spc'[s] = "woken" /\ spc'[g] = "idle" /\ \A h \in G \ {g, s} : spc'[h] = spc[h]
        /\ \A h \in G \ {g} : sarg'[h] = sarg[h]
        /\ \A h \in G \ {s} : ticket'[h] = ticket[h]
        /\ ticket'[s] <=> grant
        /\ IF grant THEN Down(mu) ELSE UNCHANGED sema
    <3>1. /\ spc' = [spc EXCEPT ![s] = "woken", ![g] = "idle"]
          /\ sarg' = [sarg EXCEPT ![g] = NoArgs]
          /\ ticket' = [ticket EXCEPT ![s] = grant]
          /\ IF grant THEN Down(mu) ELSE UNCHANGED sema
      BY <1>5, <2>1, s = sdeq[g] DEF ReleaseReady
    <3> HIDE DEF grant
    <3> QED BY <1>0, <2>1, <3>1 DEF SemaTypeOK
  <2>3. CallsMatch'
    BY <1>0, <2>1, <2>2 DEF CallsMatch, AcquirePhase, ReleasePhase
  <2>4. \A h \in G \ {s} : Back(h)' <=> Back(h)
    BY <1>0, <2>1, <2>2 DEF Back
  <2>5. Back(s)' <=> grant
    BY <1>0, <2>1, <2>2 DEF Back
  <2>6. ~Back(s)
    BY <2>1 DEF Back
  <2>7. CASE grant
    <3>1. sema'[mu] = sema[mu] - 1
      BY <1>0, <2>2, <2>7, DownOK, MuAddr
    <3>2. sema[mu] > 0
      BY <2>7
    <3> QED BY <1>0, <2>1, <2>3, <2>4, <2>5, <2>7, <3>1, <3>2, TokenTaken
  <2>8. CASE ~grant
    <3>1. sema' = sema
      BY <2>2, <2>8
    <3> QED BY <1>0, <2>3, <2>4, <2>5, <2>6, <2>8, <3>1, TokenStays
  <2> QED BY <2>7, <2>8
<1> QED BY <1>1, <1>2, <1>3, <1>4, <1>5 DEF SemaStep

-----------------------------------------------------------------------------
(* Steps of Lock and Unlock *)

\* A step that moves the token nowhere.
LEMMA SameToken ==
  ASSUME OneToken, sema'[mu] = sema[mu], \A h \in G : Carrier(h)' <=> Carrier(h)
  PROVE  OneToken' /\ (Token' <=> Token)
BY DEF OneToken, Token

\* A step of the token's carrier that spends it.
LEMMA TokenSpent ==
  ASSUME OneToken, sema'[mu] = sema[mu], NEW g \in G, Carrier(g), ~Carrier(g)',
         \A h \in G \ {g} : Carrier(h)' <=> Carrier(h)
  PROVE  OneToken' /\ ~Token' /\ Token /\ \A h \in G : ~Carrier(h)'
BY DEF OneToken, Token

\* A step that creates the token.
LEMMA TokenMade ==
  ASSUME OneToken, sema'[mu] = sema[mu], ~Token, NEW g \in G, Carrier(g)',
         \A h \in G \ {g} : Carrier(h)' <=> Carrier(h)
  PROVE  OneToken' /\ Token' /\ \A h \in G : Carrier(h)' => h = g
BY DEF OneToken, Token

LEMMA LockMutex ==
  ASSUME MutexInv, NEW g \in G, Lock(g)
  PROVE  MutexInv'
<1>0. /\ UNCHANGED <<svars, old, awoke, starving, iter, sleeps>> /\ SemaInv' /\ sema' = sema
      /\ spc' = spc /\ ticket' = ticket /\ sarg' = sarg
      /\ pc[g] = "idle" /\ spc[g] = "idle" /\ ~awoke[g] /\ ~starving[g] /\ st \in State
      /\ pc \in [G -> Phases]
  BY SemaStutterInv DEF Lock, MutexInv, Idle, CallsMatch, svars, MutexTypeOK
<1>1. CASE st = Zero
  <2>1. st' = [Zero EXCEPT !.locked = TRUE] /\ holders' = holders \cup {g} /\ pc' = pc
    BY <1>1 DEF Lock
  <2>2. /\ st' \in State /\ st'.locked /\ ~st'.starving /\ ~st'.woken
        /\ ~st.locked /\ ~st.starving /\ ~st.woken /\ st.waiters = 0 /\ st'.waiters = 0
    BY <1>1, <2>1 DEF State, Zero
  <2>3. MutexTypeOK'
    BY <1>0, <2>1, <2>2 DEF MutexInv, MutexTypeOK, SemaInv
  <2>4. CallsMatch'
    BY <1>0, <2>1 DEF MutexInv, CallsMatch
  <2>5. \A h \in G : Carrier(h)' <=> Carrier(h)
    BY <1>0, <2>1 DEF Carrier, Back
  <2>6. OneToken' /\ (Token' <=> Token)
    BY <1>0, <2>5, SameToken DEF MutexInv
  <2>7. NormalMode' /\ StarvationMode'
    BY <1>0, <2>1, <2>2, <2>6 DEF MutexInv, NormalMode, StarvationMode
  <2>8. holders = {}
    BY <2>2 DEF MutexInv, Ownership
  <2>9. Ownership'
    BY <2>1, <2>2, <2>8 DEF Ownership, MutualExclusion
  <2>10. Locals'
    BY <1>0, <2>1, <2>2 DEF MutexInv, Locals, NoThrow, NormalMode
  <2> QED BY <1>0, <2>3, <2>4, <2>6, <2>7, <2>9, <2>10 DEF MutexInv
<1>2. CASE st # Zero
  <2>1. pc' = [pc EXCEPT ![g] = "slow"] /\ st' = st /\ holders' = holders
    BY <1>2 DEF Lock, Jump
  <2>2. pc'[g] = "slow" /\ \A h \in G \ {g} : pc'[h] = pc[h]
    BY <1>0, <2>1
  <2>3. MutexTypeOK'
    BY <1>0, <2>1 DEF MutexInv, MutexTypeOK, SemaInv, Phases
  <2>4. CallsMatch'
    BY <1>0, <2>2 DEF MutexInv, CallsMatch, AcquirePhase, ReleasePhase
  <2>5. \A h \in G : Carrier(h)' <=> Carrier(h)
    BY <1>0, <2>2 DEF Carrier, Back
  <2>6. OneToken' /\ (Token' <=> Token)
    BY <1>0, <2>5, SameToken DEF MutexInv
  <2>7. NormalMode' /\ StarvationMode'
    BY <1>0, <2>1, <2>2, <2>6 DEF MutexInv, NormalMode, StarvationMode
  <2>8. Ownership'
    BY <2>1 DEF MutexInv, Ownership, MutualExclusion
  <2>9. Locals'
    BY <1>0, <2>1, <2>2 DEF MutexInv, Locals, NoThrow
  <2> QED BY <1>0, <2>3, <2>4, <2>6, <2>7, <2>8, <2>9 DEF MutexInv
<1> QED BY <1>1, <1>2

\* The state that an awake goroutine reads has the woken flag it owns.
LEMMA LoadStateMutex ==
  ASSUME MutexInv, NEW g \in G, LoadState(g)
  PROVE  MutexInv'
<1>0. /\ UNCHANGED <<svars, st, holders, awoke, starving, iter, sleeps>> /\ SemaInv'
      /\ sema' = sema /\ spc' = spc /\ ticket' = ticket /\ sarg' = sarg
      /\ pc[g] = "slow" /\ pc' = [pc EXCEPT ![g] = "loop"] /\ old' = [old EXCEPT ![g] = st]
  BY SemaStutterInv DEF LoadState, MutexInv, Jump, svars
<1>1. /\ pc'[g] = "loop" /\ \A h \in G \ {g} : pc'[h] = pc[h]
      /\ old'[g] = st /\ \A h \in G \ {g} : old'[h] = old[h]
  BY <1>0 DEF MutexInv, MutexTypeOK
<1>2. MutexTypeOK'
  BY <1>0 DEF MutexInv, MutexTypeOK, SemaInv, Phases
<1>3. CallsMatch'
  BY <1>0, <1>1 DEF MutexInv, CallsMatch, AcquirePhase, ReleasePhase
<1>4. \A h \in G : Carrier(h)' <=> Carrier(h)
  BY <1>0, <1>1 DEF Carrier, Back
<1>5. OneToken' /\ (Token' <=> Token)
  BY <1>0, <1>4, SameToken DEF MutexInv
<1>6. NormalMode' /\ StarvationMode'
  BY <1>0, <1>1, <1>5 DEF MutexInv, NormalMode, StarvationMode
<1>7. Ownership'
  BY <1>0 DEF MutexInv, Ownership, MutualExclusion
<1>8. awoke[g] => st.woken
  BY DEF MutexInv, NormalMode, StarvationMode, Token, Carrier
<1>9. Locals'
  BY <1>0, <1>1, <1>8 DEF MutexInv, Locals, NoThrow
<1> QED BY <1>0, <1>2, <1>3, <1>5, <1>6, <1>7, <1>9 DEF MutexInv

\* A spinner may create the token for itself.
LEMMA SpinMutex ==
  ASSUME MutexInv, NEW g \in G, Spin(g)
  PROVE  MutexInv'
<1> DEFINE claim == ~awoke[g] /\ ~old[g].woken /\ old[g].waiters > 0 /\ st = old[g]
<1>0. /\ UNCHANGED <<svars, holders, old, starving, sleeps>> /\ SemaInv'
      /\ sema' = sema /\ spc' = spc /\ ticket' = ticket /\ sarg' = sarg
      /\ pc[g] = "loop" /\ pc' = [pc EXCEPT ![g] = "slow"]
      /\ st' = IF claim THEN [st EXCEPT !.woken = TRUE] ELSE st
      /\ awoke' = [awoke EXCEPT ![g] = @ \/ claim]
      /\ iter' = [iter EXCEPT ![g] = @ + 1] /\ iter[g] < MaxSpin
      /\ old[g].locked /\ ~old[g].starving /\ claim \in BOOLEAN
  BY SemaStutterInv DEF Spin, CanSpin, MutexInv, Jump, svars, MutexTypeOK
<1>1. /\ pc'[g] = "slow" /\ \A h \in G \ {g} : pc'[h] = pc[h]
      /\ awoke'[g] <=> (awoke[g] \/ claim)
      /\ \A h \in G \ {g} : awoke'[h] = awoke[h]
  <2> HIDE DEF claim
  <2> QED BY <1>0 DEF MutexInv, MutexTypeOK
<1>2. /\ st' \in State /\ st'.locked = st.locked /\ st'.starving = st.starving
      /\ st'.waiters = st.waiters
      /\ ~claim => st' = st
      /\ claim => st'.woken
  BY <1>0 DEF MutexInv, MutexTypeOK, State
<1>3. claim => ~st.woken /\ ~st.starving /\ ~awoke[g]
  BY <1>0
<1> HIDE DEF claim
<1>4. MutexTypeOK'
  <2>1. iter' \in [G -> 0 .. MaxSpin]
    BY <1>0, BoundsNat DEF MutexInv, MutexTypeOK
  <2>2. awoke' \in [G -> BOOLEAN] /\ pc' \in [G -> Phases]
    BY <1>0 DEF MutexInv, MutexTypeOK, Phases
  <2> QED BY <1>0, <1>2, <2>1, <2>2 DEF MutexInv, MutexTypeOK, SemaInv
<1>5. CallsMatch'
  BY <1>0, <1>1 DEF MutexInv, CallsMatch, AcquirePhase, ReleasePhase
<1>6. \A h \in G \ {g} : Carrier(h)' <=> Carrier(h)
  BY <1>0, <1>1 DEF Carrier, Back
<1>7. Ownership'
  BY <1>0, <1>2 DEF MutexInv, Ownership, MutualExclusion
<1>8. Locals'
  BY <1>0, <1>1, <1>2 DEF MutexInv, Locals, NoThrow
<1>9. CASE claim
  <2>1. ~Token /\ Carrier(g)'
    BY <1>1, <1>3, <1>9 DEF MutexInv, NormalMode, Carrier
  <2>2. OneToken' /\ Token'
    BY <1>0, <1>6, <2>1, TokenMade DEF MutexInv
  <2>3. NormalMode'
    BY <1>0, <1>1, <1>2, <1>3, <1>9, <2>2 DEF MutexInv, NormalMode
  <2>4. StarvationMode'
    BY <1>2, <1>3, <1>9 DEF StarvationMode
  <2> QED BY <1>0, <1>4, <1>5, <1>7, <1>8, <2>2, <2>3, <2>4 DEF MutexInv
<1>10. CASE ~claim
  <2>1. Carrier(g)' <=> Carrier(g)
    BY <1>0, <1>1, <1>10 DEF Carrier, Back
  <2>2. OneToken' /\ (Token' <=> Token)
    BY <1>0, <1>6, <2>1, SameToken DEF MutexInv
  <2>3. NormalMode'
    BY <1>0, <1>1, <1>2, <1>10, <2>2 DEF MutexInv, NormalMode
  <2>4. StarvationMode'
    BY <1>0, <1>1, <1>2, <1>10, <2>2 DEF MutexInv, StarvationMode
  <2> QED BY <1>0, <1>4, <1>5, <1>7, <1>8, <2>2, <2>3, <2>4 DEF MutexInv
<1> QED BY <1>9, <1>10

\* What is left of the locals of a call that is over.
LEMMA DoneMoves ==
  ASSUME MutexTypeOK, NEW g \in G, Done(g)
  PROVE  /\ pc' \in [G -> Phases] /\ old' \in [G -> State]
         /\ awoke' \in [G -> BOOLEAN] /\ starving' \in [G -> BOOLEAN]
         /\ iter' \in [G -> 0 .. MaxSpin] /\ sleeps' \in [G -> 0 .. MaxQuick]
         /\ pc'[g] = "idle" /\ ~awoke'[g] /\ ~starving'[g]
         /\ \A h \in G \ {g} : /\ pc'[h] = pc[h] /\ old'[h] = old[h]
                               /\ awoke'[h] = awoke[h] /\ starving'[h] = starving[h]
<1>1. Zero \in State /\ 0 \in 0 .. MaxSpin /\ 0 \in 0 .. MaxQuick /\ "idle" \in Phases
  BY BoundsNat DEF Zero, State, Phases
<1> QED BY <1>1 DEF MutexTypeOK, Done, Jump

LEMMA DesiredOK ==
  ASSUME MutexTypeOK, NEW g \in G
  PROVE  /\ Desired(g) \in State
         /\ Desired(g).locked <=> (old[g].locked \/ ~old[g].starving)
         /\ Desired(g).woken <=> (old[g].woken /\ ~awoke[g])
         /\ Desired(g).starving <=> (old[g].starving \/ (starving[g] /\ old[g].locked))
         /\ old[g].waiters <= Desired(g).waiters
         /\ old[g].locked \/ old[g].starving => Desired(g).waiters > 0
<1>1. /\ old[g].locked \in BOOLEAN /\ old[g].woken \in BOOLEAN /\ old[g].starving \in BOOLEAN
      /\ old[g].waiters \in Nat /\ awoke[g] \in BOOLEAN /\ starving[g] \in BOOLEAN
  BY DEF MutexTypeOK, State
<1> DEFINE w == IF old[g].locked \/ old[g].starving THEN old[g].waiters + 1 ELSE old[g].waiters
<1>2. /\ w \in Nat /\ old[g].waiters <= w
      /\ old[g].locked \/ old[g].starving => w > 0
  BY <1>1
<1>3. Desired(g) = [locked   |-> old[g].locked \/ ~old[g].starving,
                    woken    |-> old[g].woken /\ ~awoke[g],
                    starving |-> old[g].starving \/ (starving[g] /\ old[g].locked),
                    waiters  |-> w]
  BY DEF Desired
<1> HIDE DEF w
<1>4. Desired(g) \in State
  BY <1>2, <1>3 DEF State
<1>5. /\ Desired(g).locked = (old[g].locked \/ ~old[g].starving)
      /\ Desired(g).woken = (old[g].woken /\ ~awoke[g])
      /\ Desired(g).starving = (old[g].starving \/ (starving[g] /\ old[g].locked))
      /\ Desired(g).waiters = w
  BY <1>3
<1> QED BY <1>2, <1>4, <1>5

\* The CompareAndSwap fails, takes the mutex, or announces a waiter.
LEMMA TryLockMutex ==
  ASSUME MutexInv, NEW g \in G, TryLock(g)
  PROVE  MutexInv'
<1>0. /\ UNCHANGED svars /\ SemaInv' /\ SemaTypeOK'
      /\ sema' = sema /\ spc' = spc /\ ticket' = ticket /\ sarg' = sarg
      /\ pc[g] = "loop" /\ MutexTypeOK /\ st \in State /\ spc[g] = "idle"
  <2>1. UNCHANGED svars /\ pc[g] = "loop"
    BY DEF TryLock
  <2>2. spc[g] = "idle"
    BY <2>1 DEF MutexInv, MutexTypeOK, SemaTypeOK, CallsMatch
  <2> QED BY <2>1, <2>2, SemaStutterInv DEF MutexInv, svars, MutexTypeOK, SemaInv
<1>1. CASE st # old[g]
  <2>1. /\ old' = [old EXCEPT ![g] = st]
        /\ UNCHANGED <<st, holders, pc, awoke, starving, iter, sleeps>>
    BY <1>1 DEF TryLock
  <2>2. old'[g] = st /\ \A h \in G \ {g} : old'[h] = old[h]
    BY <1>0, <2>1 DEF MutexTypeOK
  <2>3. MutexTypeOK'
    BY <1>0, <2>1 DEF MutexTypeOK
  <2>4. CallsMatch'
    BY <1>0, <2>1 DEF MutexInv, CallsMatch
  <2>5. \A h \in G : Carrier(h)' <=> Carrier(h)
    BY <1>0, <2>1 DEF Carrier, Back
  <2>6. OneToken' /\ (Token' <=> Token)
    BY <1>0, <2>5, SameToken DEF MutexInv
  <2>7. NormalMode' /\ StarvationMode'
    BY <1>0, <2>1, <2>2, <2>6 DEF MutexInv, NormalMode, StarvationMode
  <2>8. Ownership'
    BY <2>1 DEF MutexInv, Ownership, MutualExclusion
  <2>9. awoke[g] => st.woken
    BY DEF MutexInv, NormalMode, StarvationMode, Token, Carrier
  <2>10. Locals'
    BY <1>0, <2>1, <2>2, <2>9 DEF MutexInv, Locals, NoThrow
  <2> QED BY <1>0, <2>3, <2>4, <2>6, <2>7, <2>8, <2>10 DEF MutexInv
<1>2. CASE st = old[g]
  <2>1. /\ st' = Desired(g) /\ st' \in State
        /\ st'.locked <=> (st.locked \/ ~st.starving)
        /\ st'.woken <=> (st.woken /\ ~awoke[g])
        /\ st'.starving <=> (st.starving \/ (starving[g] /\ st.locked))
        /\ st.waiters <= st'.waiters
        /\ st.locked \/ st.starving => st'.waiters > 0
    BY <1>0, <1>2, DesiredOK DEF TryLock
  <2>2. /\ st.waiters \in Nat /\ st'.waiters \in Nat
        /\ \A h \in G : old[h].waiters \in Nat
    BY <1>0, <2>1 DEF MutexTypeOK, State
  <2>3. starving[g] => awoke[g]
    BY <1>0 DEF MutexInv, CallsMatch
  <2>4. CASE ~st.locked /\ ~st.starving
    <3>1. Done(g) /\ holders' = holders \cup {g}
      BY <1>2, <2>4 DEF TryLock
    <3>2. /\ pc'[g] = "idle" /\ ~awoke'[g] /\ ~starving'[g]
          /\ \A h \in G \ {g} : /\ pc'[h] = pc[h] /\ old'[h] = old[h]
                                /\ awoke'[h] = awoke[h] /\ starving'[h] = starving[h]
      BY <1>0, <3>1, DoneMoves
    <3>3. MutexTypeOK'
      BY <1>0, <2>1, <3>1, DoneMoves DEF MutexTypeOK
    <3>4. CallsMatch'
      BY <1>0, <3>2 DEF MutexInv, CallsMatch
    <3>5. \A h \in G \ {g} : Carrier(h)' <=> Carrier(h)
      BY <1>0, <3>2 DEF Carrier, Back
    <3>6. ~Carrier(g)' /\ (Carrier(g) <=> awoke[g])
      BY <1>0, <3>2 DEF Carrier, Back
    <3>7. OneToken' /\ (Token' <=> Token /\ ~awoke[g])
      <4>1. CASE awoke[g]
        BY <1>0, <3>5, <3>6, <4>1, TokenSpent DEF MutexInv
      <4>2. CASE ~awoke[g]
        BY <1>0, <3>5, <3>6, <4>2, SameToken DEF MutexInv
      <4> QED BY <4>1, <4>2
    <3>8. NormalMode' /\ StarvationMode'
      BY <2>1, <2>4, <3>2, <3>7 DEF MutexInv, NormalMode, StarvationMode
    <3>9. holders = {}
      BY <2>4 DEF MutexInv, Ownership
    <3>10. Ownership'
      BY <2>1, <2>4, <3>1, <3>9 DEF Ownership, MutualExclusion
    <3>11. \A h \in G : pc'[h] # "handoff"
      BY <2>4, <3>2 DEF MutexInv, NormalMode
    <3>12. Locals'
      BY <2>1, <2>4, <3>2, <3>11 DEF MutexInv, Locals, NoThrow
    <3> QED BY <1>0, <3>3, <3>4, <3>7, <3>8, <3>10, <3>12 DEF MutexInv
  <2>5. CASE st.locked \/ st.starving
    <3>1. /\ pc' = [pc EXCEPT ![g] = "acquire"] /\ old' = [old EXCEPT ![g] = Zero]
          /\ awoke' = [awoke EXCEPT ![g] = FALSE] /\ iter' = [iter EXCEPT ![g] = 0]
          /\ UNCHANGED <<holders, starving, sleeps>>
      BY <1>2, <2>5 DEF TryLock, Jump
    <3>2. /\ pc'[g] = "acquire" /\ ~awoke'[g]
          /\ \A h \in G \ {g} : pc'[h] = pc[h] /\ old'[h] = old[h] /\ awoke'[h] = awoke[h]
      BY <1>0, <3>1 DEF MutexTypeOK
    <3>3. MutexTypeOK'
      <4>1. Zero \in State /\ 0 \in 0 .. MaxSpin
        BY BoundsNat DEF Zero, State
      <4> QED BY <1>0, <2>1, <3>1, <4>1 DEF MutexTypeOK, Phases
    <3>4. CallsMatch'
      BY <1>0, <3>1, <3>2 DEF MutexInv, CallsMatch, AcquirePhase, ReleasePhase
    <3>5. \A h \in G \ {g} : Carrier(h)' <=> Carrier(h)
      BY <1>0, <3>2 DEF Carrier, Back
    <3>6. ~Carrier(g)' /\ (Carrier(g) <=> awoke[g])
      BY <1>0, <3>2 DEF Carrier, Back
    <3>7. /\ OneToken' /\ (Token' <=> Token /\ ~awoke[g])
          /\ awoke[g] => \A h \in G : ~Carrier(h)'
      <4>1. CASE awoke[g]
        BY <1>0, <3>5, <3>6, <4>1, TokenSpent DEF MutexInv
      <4>2. CASE ~awoke[g]
        BY <1>0, <3>5, <3>6, <4>2, SameToken DEF MutexInv
      <4> QED BY <4>1, <4>2
    <3>8. NormalMode'
      BY <2>1, <2>5, <3>2, <3>7 DEF MutexInv, NormalMode
    <3>9. StarvationMode'
      <4>1. CASE st.starving
        BY <2>1, <2>5, <3>2, <3>7, <4>1 DEF MutexInv, StarvationMode
      <4>2. CASE ~st.starving /\ st'.starving
        <5>1. st.locked /\ awoke[g] /\ Token
          BY <2>1, <2>3, <4>2 DEF Token, Carrier
        <5>2. ~Token' /\ \A h \in G : ~Carrier(h)'
          BY <3>7, <5>1
        <5> QED BY <2>1, <2>5, <5>1, <5>2 DEF StarvationMode, Carrier
      <4>3. CASE ~st'.starving
        BY <4>3 DEF StarvationMode
      <4> QED BY <2>1, <4>1, <4>2, <4>3
    <3>10. Ownership'
      BY <2>1, <2>5, <3>1 DEF MutexInv, Ownership, MutualExclusion
    <3>11. Locals'
      BY <2>1, <2>2, <2>5, <3>1, <3>2 DEF MutexInv, Locals, NoThrow
    <3> QED BY <1>0, <3>3, <3>4, <3>7, <3>8, <3>9, <3>10, <3>11 DEF MutexInv
  <2> QED BY <2>4, <2>5, <1>0 DEF State
<1> QED BY <1>1, <1>2

\* Going to sleep, or coming straight back with the token.
LEMMA SleepMutex ==
  ASSUME MutexInv, NEW g \in G, Sleep(g)
  PROVE  MutexInv'
<1>0. /\ pc[g] = "acquire" /\ Semacquire(g, mu, sleeps[g] > 0) /\ pc' = [pc EXCEPT ![g] = "asleep"]
      /\ sleeps' = [sleeps EXCEPT ![g] = IF @ < MaxQuick THEN @ + 1 ELSE @]
      /\ UNCHANGED <<st, holders, old, awoke, starving, iter>>
      /\ MutexTypeOK /\ SemaInv /\ SemaTypeOK /\ OneToken
  BY DEF Sleep, Jump, MutexInv, SemaInv
<1>1. SemaInv'
  <2>1. (sleeps[g] > 0) \in BOOLEAN
    OBVIOUS
  <2> QED BY <1>0, <2>1, SemacquireInv, MuAddr
<1>2. pc'[g] = "asleep" /\ \A h \in G \ {g} : pc'[h] = pc[h]
  BY <1>0 DEF MutexTypeOK
<1>3. /\ spc[g] = "idle" /\ ticket' = ticket /\ ~ticket[g] /\ ~awoke[g]
      /\ \A h \in G \ {g} : spc'[h] = spc[h] /\ sarg'[h] = sarg[h]
  BY <1>0 DEF Semacquire, Call, SemaTypeOK, SemaInv, ParkedOnce, TicketWoken, MutexInv, CallsMatch
<1>4. MutexTypeOK'
  <2>1. sleeps' \in [G -> 0 .. MaxQuick]
    BY <1>0, BoundsNat DEF MutexTypeOK
  <2>2. pc' \in [G -> Phases]
    BY <1>0 DEF MutexTypeOK, Phases
  <2> QED BY <1>0, <1>1, <2>1, <2>2 DEF MutexTypeOK, SemaInv
<1>5. \A h \in G \ {g} : Carrier(h)' <=> Carrier(h)
  BY <1>0, <1>2, <1>3 DEF Carrier, Back
<1>6. ~Carrier(g)
  BY <1>0, <1>3 DEF Carrier, Back
<1>7. Ownership' /\ Locals'
  BY <1>0, <1>2 DEF MutexInv, Ownership, MutualExclusion, Locals, NoThrow
<1>8. CASE sema[mu] > 0
  <2>1. spc' = spc /\ sarg' = sarg /\ sema'[mu] = sema[mu] - 1
    BY <1>0, <1>8, MuAddr, DownOK DEF Semacquire
  <2>2. sema[mu] = 1 /\ sema'[mu] = 0 /\ \A h \in G : ~Carrier(h)
    BY <1>0, <1>8, <2>1 DEF OneToken
  <2>3. \A h \in G : Carrier(h)' <=> h = g
    <3>1. Carrier(g)'
      BY <1>2, <1>3, <2>1 DEF Carrier, Back
    <3> QED BY <1>5, <2>2, <3>1
  <2>4. OneToken' /\ Token' /\ Token
    BY <2>2, <2>3 DEF OneToken, Token
  <2>5. CallsMatch'
    BY <1>0, <1>2, <1>3, <2>1 DEF MutexInv, CallsMatch, AcquirePhase, ReleasePhase
  <2>6. NormalMode' /\ StarvationMode'
    BY <1>0, <1>2, <2>4 DEF MutexInv, NormalMode, StarvationMode
  <2> QED BY <1>1, <1>4, <1>7, <2>4, <2>5, <2>6 DEF MutexInv
<1>9. CASE ~(sema[mu] > 0)
  <2>1. sema' = sema /\ Call(g, "lock", [addr |-> mu, lifo |-> sleeps[g] > 0, handoff |-> FALSE])
    BY <1>0, <1>9 DEF Semacquire
  <2>2. spc'[g] = "lock" /\ sarg'[g].addr = mu
    BY <1>0, <2>1 DEF Call, SemaTypeOK
  <2>3. ~Carrier(g)'
    BY <1>0, <1>2, <1>3, <2>2 DEF Carrier, Back
  <2>4. OneToken' /\ (Token' <=> Token)
    BY <1>0, <1>5, <1>6, <2>1, <2>3, SameToken
  <2>5. CallsMatch'
    BY <1>0, <1>2, <1>3, <2>2 DEF MutexInv, CallsMatch, AcquirePhase, ReleasePhase
  <2>6. NormalMode' /\ StarvationMode'
    BY <1>0, <1>2, <2>4 DEF MutexInv, NormalMode, StarvationMode
  <2> QED BY <1>1, <1>4, <1>7, <2>4, <2>5, <2>6 DEF MutexInv
<1> QED BY <1>8, <1>9

\* The token's carrier looks at the state: the flag is its own, or the mutex is.
LEMMA WakeMutex ==
  ASSUME MutexInv, NEW g \in G, Wake(g)
  PROVE  MutexInv'
<1>0. /\ pc[g] = "asleep" /\ spc[g] = "idle" /\ UNCHANGED <<svars, st, holders, iter, sleeps>>
      /\ old' = [old EXCEPT ![g] = st]
      /\ MutexTypeOK /\ OneToken /\ SemaInv' /\ sema' = sema /\ spc' = spc
      /\ ticket' = ticket /\ sarg' = sarg /\ ~awoke[g]
  BY SemaStutterInv DEF Wake, MutexInv, svars, CallsMatch
<1>1. PICK slow \in BOOLEAN : starving' = [starving EXCEPT ![g] = @ \/ slow]
  BY DEF Wake
<1>2. /\ \A h \in G \ {g} : starving'[h] = starving[h] /\ old'[h] = old[h]
      /\ old'[g] = st /\ starving' \in [G -> BOOLEAN] /\ old' \in [G -> State]
  BY <1>0, <1>1 DEF MutexTypeOK
<1>3. Carrier(g) /\ Token
  BY <1>0 DEF Carrier, Back, Token
<1>4. Ownership'
  BY <1>0 DEF MutexInv, Ownership, MutualExclusion
<1>5. CASE st.starving
  <2>1. pc' = [pc EXCEPT ![g] = "handoff"] /\ awoke' = awoke
    BY <1>5 DEF Wake, Jump
  <2>2. pc'[g] = "handoff" /\ \A h \in G \ {g} : pc'[h] = pc[h]
    BY <1>0, <2>1 DEF MutexTypeOK
  <2>3. MutexTypeOK'
    BY <1>0, <1>2, <2>1 DEF MutexTypeOK, Phases, SemaInv
  <2>4. CallsMatch'
    BY <1>0, <1>2, <2>1, <2>2 DEF MutexInv, CallsMatch, AcquirePhase, ReleasePhase
  <2>5. \A h \in G : Carrier(h)' <=> Carrier(h)
    BY <1>0, <1>3, <2>1, <2>2 DEF Carrier, Back
  <2>6. OneToken' /\ Token'
    BY <1>0, <1>3, <2>5, SameToken
  <2>7. NormalMode' /\ StarvationMode'
    BY <1>0, <1>2, <1>3, <1>5, <2>1, <2>2, <2>6 DEF MutexInv, NormalMode, StarvationMode
  <2>8. ~st.locked /\ ~st.woken /\ st.waiters > 0 /\ st.waiters \in Nat
    BY <1>0, <1>3, <1>5 DEF MutexInv, StarvationMode, MutexTypeOK, State
  <2>9. Locals'
    BY <1>0, <1>2, <2>1, <2>2, <2>8 DEF MutexInv, Locals, NoThrow
  <2> QED BY <1>0, <1>4, <2>3, <2>4, <2>6, <2>7, <2>9 DEF MutexInv
<1>6. CASE ~st.starving
  <2>1. pc' = [pc EXCEPT ![g] = "loop"] /\ awoke' = [awoke EXCEPT ![g] = TRUE]
    BY <1>6 DEF Wake, Jump
  <2>2. /\ pc'[g] = "loop" /\ awoke'[g]
        /\ \A h \in G \ {g} : pc'[h] = pc[h] /\ awoke'[h] = awoke[h]
    BY <1>0, <2>1 DEF MutexTypeOK
  <2>3. MutexTypeOK'
    BY <1>0, <1>2, <2>1 DEF MutexTypeOK, Phases, SemaInv
  <2>4. CallsMatch'
    BY <1>0, <1>2, <2>2 DEF MutexInv, CallsMatch, AcquirePhase, ReleasePhase
  <2>5. \A h \in G : Carrier(h)' <=> Carrier(h)
    BY <1>0, <1>3, <2>2 DEF Carrier, Back
  <2>6. OneToken' /\ Token'
    BY <1>0, <1>3, <2>5, SameToken
  <2>7. NormalMode' /\ StarvationMode'
    BY <1>0, <1>2, <1>3, <1>6, <2>2, <2>6 DEF MutexInv, NormalMode, StarvationMode
  <2>8. st.woken
    BY <1>3, <1>6 DEF MutexInv, NormalMode
  <2>9. Locals'
    BY <1>0, <1>2, <2>2, <2>8 DEF MutexInv, Locals, NoThrow
  <2> QED BY <1>0, <1>4, <2>3, <2>4, <2>6, <2>7, <2>9 DEF MutexInv
<1> QED BY <1>5, <1>6

\* The token is spent on the ownership of a starving mutex.
LEMMA TakeHandoffMutex ==
  ASSUME MutexInv, NEW g \in G, TakeHandoff(g)
  PROVE  MutexInv'
<1>0. /\ pc[g] = "handoff" /\ UNCHANGED svars /\ Done(g) /\ holders' = holders \cup {g}
      /\ st' = [st EXCEPT !.locked = TRUE, !.waiters = @ - 1,
                          !.starving = @ /\ starving[g] /\ old[g].waiters # 1]
      /\ MutexTypeOK /\ OneToken /\ SemaInv' /\ sema' = sema /\ spc' = spc
      /\ ticket' = ticket /\ sarg' = sarg /\ spc[g] = "idle"
  <2>1. spc[g] = "idle"
    BY DEF TakeHandoff, MutexInv, CallsMatch, MutexTypeOK, SemaTypeOK
  <2> QED BY <2>1, SemaStutterInv DEF TakeHandoff, MutexInv, svars
<1>1. /\ pc'[g] = "idle" /\ ~awoke'[g] /\ ~starving'[g]
      /\ \A h \in G \ {g} : /\ pc'[h] = pc[h] /\ old'[h] = old[h]
                            /\ awoke'[h] = awoke[h] /\ starving'[h] = starving[h]
  BY <1>0, DoneMoves
<1>2. Carrier(g) /\ Token /\ ~awoke[g]
  BY <1>0 DEF Carrier, Token, MutexInv, CallsMatch
<1>3. st.starving /\ ~st.locked /\ ~st.woken /\ holders = {}
  BY <1>0, <1>2 DEF MutexInv, NormalMode, StarvationMode, Ownership
<1>4. old[g].waiters > 0 /\ old[g].waiters <= st.waiters /\ old[g].waiters \in Nat
  BY <1>0 DEF MutexInv, Locals, NoThrow, MutexTypeOK, State
<1>5. /\ st' \in State /\ st'.locked /\ ~st'.woken /\ st'.waiters = st.waiters - 1
      /\ st'.starving => old[g].waiters # 1
  <2>1. st.waiters \in Nat /\ st.waiters - 1 \in Nat
    BY <1>0, <1>4 DEF MutexTypeOK, State
  <2> QED BY <1>0, <1>3, <2>1 DEF MutexTypeOK, State
<1>6. st'.starving => st'.waiters > 0
  <2>1. st.waiters \in Nat
    BY <1>0 DEF MutexTypeOK, State
  <2> QED BY <1>4, <1>5, <2>1
<1>7. MutexTypeOK'
  BY <1>0, <1>5, DoneMoves DEF MutexTypeOK, SemaInv
<1>8. CallsMatch'
  BY <1>0, <1>1 DEF MutexInv, CallsMatch, AcquirePhase, ReleasePhase
<1>9. ~Carrier(g)' /\ \A h \in G \ {g} : Carrier(h)' <=> Carrier(h)
  BY <1>0, <1>1 DEF Carrier, Back
<1>10. OneToken' /\ ~Token' /\ \A h \in G : ~Carrier(h)'
  BY <1>0, <1>2, <1>9, TokenSpent
<1>11. NormalMode' /\ StarvationMode'
  BY <1>5, <1>6, <1>10 DEF NormalMode, StarvationMode, Carrier
<1>12. Ownership'
  BY <1>0, <1>3, <1>5 DEF Ownership, MutualExclusion
<1>13. \A h \in G : pc'[h] # "handoff"
  BY <1>10 DEF Carrier
<1>14. Locals'
  BY <1>0, <1>1, <1>5, <1>13 DEF MutexInv, Locals, NoThrow
<1> QED BY <1>0, <1>7, <1>8, <1>10, <1>11, <1>12, <1>14 DEF MutexInv

\* Unlock opens the mutex, or, when it is starving, becomes the token's carrier.
LEMMA UnlockMutex ==
  ASSUME MutexInv, NEW g \in G, Unlock(g)
  PROVE  MutexInv'
<1> DEFINE new == [st EXCEPT !.locked = FALSE]
<1>0. /\ pc[g] = "idle" /\ spc[g] = "idle" /\ UNCHANGED <<svars, awoke, starving, iter, sleeps>>
      /\ st' = new /\ MutexTypeOK /\ OneToken /\ SemaInv' /\ sema' = sema /\ spc' = spc
      /\ ticket' = ticket /\ sarg' = sarg /\ st \in State /\ ~awoke[g] /\ ~starving[g]
  BY SemaStutterInv DEF Unlock, Idle, MutexInv, svars, CallsMatch, MutexTypeOK
<1>1. holders # {} /\ holders' = {}
  BY DEF Unlock, MutexInv, Ownership, MutualExclusion
<1>2. /\ st.locked /\ st' \in State /\ ~st'.locked
      /\ st'.woken = st.woken /\ st'.starving = st.starving /\ st'.waiters = st.waiters
  BY <1>0, <1>1 DEF MutexInv, Ownership, State
<1>3. Ownership'
  BY <1>1, <1>2 DEF Ownership, MutualExclusion
<1>4. CASE new = Zero
  <2>1. pc' = pc /\ old' = old
    BY <1>4 DEF Unlock
  <2>2. ~st'.starving /\ ~st.starving
    BY <1>0, <1>2, <1>4 DEF Zero
  <2>3. MutexTypeOK' /\ CallsMatch'
    BY <1>0, <1>1, <1>2, <2>1 DEF MutexInv, MutexTypeOK, SemaInv, CallsMatch
  <2>4. \A h \in G : Carrier(h)' <=> Carrier(h)
    BY <1>0, <2>1 DEF Carrier, Back
  <2>5. OneToken' /\ (Token' <=> Token)
    BY <1>0, <2>4, SameToken
  <2>6. NormalMode' /\ StarvationMode'
    BY <1>0, <1>2, <2>1, <2>2, <2>5 DEF MutexInv, NormalMode, StarvationMode
  <2>7. Locals'
    BY <1>0, <1>1, <1>2, <2>1 DEF MutexInv, Locals, NoThrow
  <2> QED BY <1>0, <1>3, <2>3, <2>5, <2>6, <2>7 DEF MutexInv
<1>5. CASE new # Zero
  <2>1. /\ pc' = [pc EXCEPT ![g] = IF new.starving THEN "release" ELSE "uloop"]
        /\ old' = [old EXCEPT ![g] = st']
    BY <1>0, <1>5 DEF Unlock, Jump
  <2>2. /\ pc'[g] = IF st.starving THEN "release" ELSE "uloop"
        /\ \A h \in G \ {g} : pc'[h] = pc[h] /\ old'[h] = old[h]
        /\ old'[g] = st'
    BY <1>0, <1>2, <2>1 DEF MutexTypeOK
  <2>3. MutexTypeOK'
    BY <1>0, <1>1, <1>2, <2>1 DEF MutexTypeOK, SemaInv, Phases
  <2>4. CallsMatch'
    BY <1>0, <2>2 DEF MutexInv, CallsMatch, AcquirePhase, ReleasePhase
  <2>5. \A h \in G \ {g} : Carrier(h)' <=> Carrier(h)
    BY <1>0, <2>2 DEF Carrier, Back
  <2>6. Locals'
    BY <1>0, <1>1, <1>2, <2>2 DEF MutexInv, Locals, NoThrow
  <2>7. CASE st.starving
    <3>1. ~Token /\ Carrier(g)'
      BY <1>2, <2>2, <2>7 DEF MutexInv, StarvationMode, Carrier
    <3>2. OneToken' /\ Token' /\ \A h \in G : Carrier(h)' => h = g
      BY <1>0, <2>5, <3>1, TokenMade
    <3>3. NormalMode' /\ StarvationMode'
      BY <1>0, <1>2, <2>2, <2>7, <3>2 DEF MutexInv, NormalMode, StarvationMode, Carrier
    <3> QED BY <1>0, <1>3, <2>3, <2>4, <2>6, <3>2, <3>3 DEF MutexInv
  <2>8. CASE ~st.starving
    <3>1. Carrier(g)' <=> Carrier(g)
      BY <1>0, <2>2, <2>8 DEF Carrier, Back
    <3>2. OneToken' /\ (Token' <=> Token)
      BY <1>0, <2>5, <3>1, SameToken
    <3>3. NormalMode' /\ StarvationMode'
      BY <1>0, <1>2, <2>2, <2>8, <3>2 DEF MutexInv, NormalMode, StarvationMode
    <3> QED BY <1>0, <1>3, <2>3, <2>4, <2>6, <3>2, <3>3 DEF MutexInv
  <2> QED BY <2>7, <2>8
<1> QED BY <1>4, <1>5

\* unlockSlow creates the token only when the woken flag says that there is none.
LEMMA UnlockLoopMutex ==
  ASSUME MutexInv, NEW g \in G, UnlockLoop(g)
  PROVE  MutexInv'
<1>0. /\ pc[g] = "uloop" /\ UNCHANGED <<svars, holders, awoke, starving, iter, sleeps>>
      /\ MutexTypeOK /\ OneToken /\ SemaInv' /\ sema' = sema /\ spc' = spc /\ spc[g] = "idle"
      /\ ticket' = ticket /\ sarg' = sarg /\ st \in State /\ ~awoke[g] /\ ~starving[g]
  <2>1. spc[g] = "idle" /\ ~awoke[g] /\ ~starving[g]
    BY DEF UnlockLoop, MutexInv, CallsMatch, MutexTypeOK, SemaTypeOK
  <2> QED BY <2>1, SemaStutterInv DEF UnlockLoop, MutexInv, svars, MutexTypeOK
<1>1. /\ pc' \in [G -> Phases] /\ old' \in [G -> State]
      /\ \A h \in G \ {g} : pc'[h] = pc[h] /\ old'[h] = old[h]
  <2>1. Zero \in State
    BY DEF Zero, State
  <2> QED BY <1>0, <2>1 DEF UnlockLoop, Jump, MutexTypeOK, Phases
<1>2. \A h \in G \ {g} : Carrier(h)' <=> Carrier(h)
  BY <1>0, <1>1 DEF Carrier, Back
<1>3. ~Carrier(g)
  BY <1>0 DEF Carrier, Back
<1>4. CASE st' = st /\ pc'[g] \in {"idle", "uloop"}
  <2>1. MutexTypeOK' /\ CallsMatch'
    BY <1>0, <1>1, <1>4 DEF MutexInv, MutexTypeOK, SemaInv, CallsMatch, AcquirePhase, ReleasePhase
  <2>2. ~Carrier(g)'
    BY <1>0, <1>4 DEF Carrier, Back
  <2>3. OneToken' /\ (Token' <=> Token)
    BY <1>0, <1>2, <1>3, <2>2, SameToken
  <2>4. NormalMode' /\ StarvationMode'
    BY <1>0, <1>1, <1>4, <2>3 DEF MutexInv, NormalMode, StarvationMode
  <2>5. Ownership' /\ Locals'
    BY <1>0, <1>1, <1>4 DEF MutexInv, Ownership, MutualExclusion, Locals, NoThrow
  <2> QED BY <1>0, <2>1, <2>3, <2>4, <2>5 DEF MutexInv
<1>5. CASE /\ st = old[g] /\ st.waiters # 0 /\ ~st.locked /\ ~st.woken /\ ~st.starving
           /\ st' = [st EXCEPT !.waiters = @ - 1, !.woken = TRUE]
           /\ pc'[g] = "release" /\ old' = old
  <2>1. /\ st' \in State /\ st'.woken /\ ~st'.starving /\ ~st'.locked
    <3>1. st.waiters \in Nat /\ st.waiters - 1 \in Nat
      BY <1>0, <1>5 DEF State
    <3> QED BY <1>0, <1>5, <3>1 DEF State
  <2>2. MutexTypeOK' /\ CallsMatch'
    BY <1>0, <1>1, <1>5, <2>1 DEF MutexInv, MutexTypeOK, SemaInv, CallsMatch, AcquirePhase,
       ReleasePhase
  <2>3. ~Token /\ Carrier(g)'
    BY <1>5 DEF MutexInv, NormalMode, Carrier
  <2>4. OneToken' /\ Token' /\ \A h \in G : Carrier(h)' => h = g
    BY <1>0, <1>2, <2>3, TokenMade
  <2>5. NormalMode' /\ StarvationMode'
    BY <1>0, <1>5, <2>1, <2>4 DEF NormalMode, StarvationMode, Carrier
  <2>6. \A h \in G : pc'[h] # "handoff"
    BY <1>1, <1>5 DEF MutexInv, NormalMode
  <2>7. Ownership' /\ Locals'
    BY <1>0, <1>1, <1>5, <2>1, <2>6 DEF MutexInv, Ownership, MutualExclusion, Locals, NoThrow
  <2> QED BY <1>0, <2>2, <2>4, <2>5, <2>7 DEF MutexInv
<1> QED BY <1>0, <1>4, <1>5 DEF UnlockLoop, Jump, MutexTypeOK

\* The token moves from the unlocking goroutine into m.sema.
LEMMA WakeWaiterMutex ==
  ASSUME MutexInv, NEW g \in G, WakeWaiter(g)
  PROVE  MutexInv'
<1>0. /\ pc[g] = "release" /\ Semrelease(g, mu, old[g].starving)
      /\ pc' = [pc EXCEPT ![g] = "idle"] /\ old' = [old EXCEPT ![g] = Zero]
      /\ UNCHANGED <<st, holders, awoke, starving, iter, sleeps>>
      /\ MutexTypeOK /\ SemaInv /\ SemaTypeOK /\ OneToken
  BY DEF WakeWaiter, Jump, MutexInv, SemaInv
<1>1. SemaInv'
  <2>1. old[g].starving \in BOOLEAN
    BY <1>0 DEF MutexTypeOK, State
  <2> QED BY <1>0, <2>1, SemreleaseInv, MuAddr
<1>2. /\ pc'[g] = "idle" /\ \A h \in G \ {g} : pc'[h] = pc[h] /\ old'[h] = old[h]
      /\ pc' \in [G -> Phases] /\ old' \in [G -> State]
  <2>1. Zero \in State
    BY DEF Zero, State
  <2> QED BY <1>0, <2>1 DEF MutexTypeOK, Phases
<1>3. /\ spc[g] = "idle" /\ ticket' = ticket /\ spc'[g] = "nwait" /\ sarg'[g].addr = mu
      /\ \A h \in G \ {g} : spc'[h] = spc[h] /\ sarg'[h] = sarg[h]
      /\ sema'[mu] = sema[mu] + 1
  BY <1>0, MuAddr DEF Semrelease, Call, SemaTypeOK
<1>4. Carrier(g) /\ Token
  BY <1>0 DEF Carrier, Token
<1>5. sema[mu] = 0 /\ sema'[mu] = 1
  BY <1>0, <1>3, <1>4 DEF OneToken
<1>6. ~awoke[g] /\ ~starving[g]
  BY <1>0 DEF MutexInv, CallsMatch
<1>7. \A h \in G : ~Carrier(h)'
  <2>1. \A h \in G \ {g} : Carrier(h)' <=> Carrier(h)
    BY <1>0, <1>2, <1>3 DEF Carrier, Back
  <2>2. ~Carrier(g)'
    BY <1>0, <1>2, <1>6 DEF Carrier, Back
  <2> QED BY <1>0, <1>4, <2>1, <2>2 DEF OneToken
<1>8. OneToken' /\ Token'
  BY <1>5, <1>7 DEF OneToken, Token
<1>9. MutexTypeOK'
  BY <1>0, <1>1, <1>2 DEF MutexTypeOK, SemaInv
<1>10. CallsMatch'
  BY <1>0, <1>2, <1>3, <1>6 DEF MutexInv, CallsMatch, AcquirePhase, ReleasePhase
<1>11. NormalMode' /\ StarvationMode'
  BY <1>0, <1>2, <1>4, <1>8 DEF MutexInv, NormalMode, StarvationMode
<1>12. Ownership' /\ Locals'
  BY <1>0, <1>2 DEF MutexInv, Ownership, MutualExclusion, Locals, NoThrow
<1> QED BY <1>1, <1>8, <1>9, <1>10, <1>11, <1>12 DEF MutexInv

-----------------------------------------------------------------------------
(* The theorems *)

LEMMA MutexInitInv ==
  ASSUME MutexInit
  PROVE  MutexInv
<1>1. SemaInv /\ SemaTypeOK
  BY SemaInitInv DEF MutexInit, SemaInv
<1>2. Zero \in State /\ ~Zero.locked /\ ~Zero.woken /\ ~Zero.starving
  BY DEF Zero, State
<1>3. MutexTypeOK
  BY <1>1, <1>2, BoundsNat DEF MutexInit, MutexTypeOK, Phases
<1>4. /\ \A g \in G : ~Carrier(g) /\ pc[g] = "idle" /\ spc[g] = "idle"
      /\ sema[mu] = 0
  BY MuAddr DEF MutexInit, SemaInit, Carrier, Back
<1>5. CallsMatch
  BY <1>4 DEF MutexInit, CallsMatch, AcquirePhase, ReleasePhase
<1>6. OneToken /\ ~Token
  BY <1>4 DEF OneToken, Token
<1>7. NormalMode /\ StarvationMode
  BY <1>2, <1>4, <1>6 DEF MutexInit, NormalMode, StarvationMode
<1>8. Ownership /\ Locals
  BY <1>2, <1>4 DEF MutexInit, Ownership, MutualExclusion, Locals, NoThrow
<1> QED BY <1>1, <1>3, <1>5, <1>6, <1>7, <1>8 DEF MutexInv

LEMMA MutexNextInv ==
  ASSUME MutexInv, [MutexNext]_vars
  PROVE  MutexInv'
<1>1. CASE UNCHANGED vars
  <2>1. UNCHANGED mvars /\ UNCHANGED svars /\ sema' = sema
    BY <1>1 DEF vars, svars
  <2>2. SemaInv' /\ CallsMatch' /\ \A h \in G : Back(h)' <=> Back(h)
    BY <2>1, SemaStutterInv DEF MutexInv, CallsMatch, Back, mvars, svars
  <2> QED BY <2>1, <2>2, TokenStays
<1>2. ASSUME NEW g \in G, Lock(g) \/ Unlock(g) \/ MutexStep(g) PROVE MutexInv'
  <2>1. CASE Lock(g) \/ Unlock(g)
    BY <2>1, LockMutex, UnlockMutex
  <2>2. CASE SemaStep(g) /\ UNCHANGED mvars
    BY <2>2, SemaStepMutex
  <2>3. CASE LoadState(g) \/ Spin(g) \/ TryLock(g) \/ Sleep(g)
    BY <2>3, LoadStateMutex, SpinMutex, TryLockMutex, SleepMutex
  <2>4. CASE Wake(g) \/ TakeHandoff(g) \/ UnlockLoop(g) \/ WakeWaiter(g)
    BY <2>4, WakeMutex, TakeHandoffMutex, UnlockLoopMutex, WakeWaiterMutex
  <2> QED BY <1>2, <2>1, <2>2, <2>3, <2>4 DEF MutexStep
<1> QED BY <1>1, <1>2 DEF MutexNext

(***************************************************************************)
(* For any number of goroutines: at most one of them holds the mutex, and  *)
(* neither lockSlow nor unlockSlow reaches a throw (mutex.go:125, 147,     *)
(* 196), whatever the interleaving and the mode.                           *)
(***************************************************************************)
THEOREM MutexSafe == MutexSpec => [](MutexTypeOK /\ MutualExclusion /\ NoThrow)
<1>1. MutexInit => MutexInv
  BY MutexInitInv
<1>2. MutexInv /\ [MutexNext]_vars => MutexInv'
  BY MutexNextInv
<1>3. MutexInv => MutexTypeOK /\ MutualExclusion /\ NoThrow
  BY DEF MutexInv, Ownership, Locals
<1> QED BY <1>1, <1>2, <1>3, PTL DEF MutexSpec

\* Neither lockSlow nor unlockSlow ever finds the inconsistent state it throws
\* for (mutex.go:125, 147, 196).
THEOREM NeverThrows == MutexSpec => []NoThrow
BY MutexSafe, PTL

\* state's bits and its waiter count stay in range, together with the
\* semaphore that the mutex sleeps on.
THEOREM MutexTypes == MutexSpec => []MutexTypeOK
BY MutexSafe, PTL

-----------------------------------------------------------------------------
(* The waiter count *)

LEMMA AnnouncedFinite == IsFiniteSet(Announced) /\ Cardinality(Announced) \in Nat
<1>1. IsFiniteSet(Announced)
  BY GFinite, FS_Subset DEF Announced
<1> QED BY <1>1, FS_CardinalityType

\* A step that changes neither the waiters nor the woken flag, nor who is awake.
LEMMA WaitersStay ==
  ASSUME WaitersExact, st'.waiters = st.waiters, st'.woken = st.woken, awoke' = awoke,
         Announced' = Announced
  PROVE  WaitersExact'
BY DEF WaitersExact, WakeInFlight

\* A step of g inside one phase of its call, seen from the count.
LEMMA SamePhase ==
  ASSUME MutexTypeOK, NEW g \in G, NEW ph, pc' = [pc EXCEPT ![g] = ph],
         pc[g] \in {"acquire", "asleep", "handoff"} <=> ph \in {"acquire", "asleep", "handoff"}
  PROVE  Announced' = Announced
BY DEF MutexTypeOK, Announced

LEMMA TryLockWaiters ==
  ASSUME MutexInv, WaitersExact, NEW g \in G, TryLock(g)
  PROVE  WaitersExact'
<1>0. MutexTypeOK /\ pc[g] = "loop" /\ g \notin Announced /\ st \in State
  BY DEF MutexInv, MutexTypeOK, TryLock, Announced
<1>1. CASE st # old[g]
  BY <1>1, WaitersStay DEF TryLock, Announced
<1>2. CASE st = old[g]
  <2>1. st' = Desired(g) /\ (st'.woken <=> st.woken /\ ~awoke[g])
    BY <1>0, <1>2, DesiredOK DEF TryLock
  <2>2. /\ st'.waiters = IF st.locked \/ st.starving THEN st.waiters + 1 ELSE st.waiters
        /\ st.waiters \in Nat
    BY <1>0, <1>2, <2>1 DEF Desired, State
  <2>3. ~awoke'[g] /\ \A h \in G \ {g} : awoke'[h] = awoke[h] /\ pc'[h] = pc[h]
    BY <1>0, <1>2 DEF TryLock, Done, Jump, MutexTypeOK
  <2>4. WakeInFlight' <=> WakeInFlight
    <3>1. CASE awoke[g]
      BY <2>1, <3>1 DEF WakeInFlight
    <3>2. CASE ~awoke[g]
      BY <2>1, <2>3, <3>2 DEF WakeInFlight
    <3> QED BY <3>1, <3>2
  <2>5. CASE ~st.locked /\ ~st.starving
    <3>1. pc'[g] = "idle"
      BY <1>0, <1>2, <2>5 DEF TryLock, Done, Jump, MutexTypeOK
    <3>2. Announced' = Announced
      BY <1>0, <2>3, <3>1 DEF Announced
    <3> QED BY <2>2, <2>4, <2>5, <3>2 DEF WaitersExact
  <2>6. CASE st.locked \/ st.starving
    <3>1. pc'[g] = "acquire"
      BY <1>0, <1>2, <2>6 DEF TryLock, Jump, MutexTypeOK
    <3>2. Announced' = Announced \cup {g}
      BY <2>3, <3>1 DEF Announced
    <3>3. Cardinality(Announced') = Cardinality(Announced) + 1
      BY <1>0, <3>2, AnnouncedFinite, FS_AddElement
    <3> QED BY <2>2, <2>4, <2>6, <3>3 DEF WaitersExact
  <2> QED BY <2>5, <2>6, <1>0 DEF State
<1> QED BY <1>1, <1>2

\* The goroutine that the token woke is no waiter any more: the Unlock that
\* woke it has deducted it, and it was the only one to be awake.
LEMMA WakeWaiters ==
  ASSUME MutexInv, WaitersExact, NEW g \in G, Wake(g)
  PROVE  WaitersExact'
<1>0. /\ MutexTypeOK /\ OneToken /\ pc[g] = "asleep" /\ spc[g] = "idle" /\ st' = st
      /\ Carrier(g) /\ Token /\ ~awoke[g]
  BY DEF MutexInv, Wake, CallsMatch, Carrier, Back, Token
<1>1. CASE st.starving
  <2>1. pc' = [pc EXCEPT ![g] = "handoff"] /\ awoke' = awoke
    BY <1>1 DEF Wake, Jump
  <2>2. Announced' = Announced
    BY <1>0, <2>1, SamePhase
  <2> QED BY <1>0, <2>1, <2>2, WaitersStay
<1>2. CASE ~st.starving
  <2>1. pc' = [pc EXCEPT ![g] = "loop"] /\ awoke' = [awoke EXCEPT ![g] = TRUE]
    BY <1>2 DEF Wake, Jump
  <2>2. awoke'[g]
    BY <1>0, <2>1 DEF MutexTypeOK
  <2>3. st.woken /\ \A h \in G : ~awoke[h]
    BY <1>0, <1>2 DEF MutexInv, NormalMode, OneToken, Carrier
  <2>4. WakeInFlight /\ ~WakeInFlight'
    BY <2>2, <2>3 DEF WakeInFlight
  <2>5. Announced' = Announced \ {g} /\ g \in Announced
    BY <1>0, <2>1 DEF Announced, MutexTypeOK
  <2>6. Cardinality(Announced') = Cardinality(Announced) - 1
    BY <2>5, AnnouncedFinite, FS_RemoveElement
  <2>7. st.waiters \in Nat
    BY <1>0 DEF MutexTypeOK, State
  <2> QED BY <1>0, <2>4, <2>6, <2>7 DEF WaitersExact
<1> QED BY <1>1, <1>2

LEMMA TakeHandoffWaiters ==
  ASSUME MutexInv, WaitersExact, NEW g \in G, TakeHandoff(g)
  PROVE  WaitersExact'
<1>0. /\ MutexTypeOK /\ pc[g] = "handoff" /\ Carrier(g) /\ Token /\ st \in State
      /\ Done(g)
  BY DEF MutexInv, MutexTypeOK, TakeHandoff, Carrier, Token
<1>1. st.starving /\ ~st.woken
  BY <1>0 DEF MutexInv, NormalMode, StarvationMode
<1>2. st'.waiters = st.waiters - 1 /\ st'.woken = st.woken /\ st.waiters \in Nat
  BY <1>0 DEF TakeHandoff, State
<1>3. ~WakeInFlight /\ ~WakeInFlight'
  BY <1>1, <1>2 DEF WakeInFlight
<1>4. Announced' = Announced \ {g} /\ g \in Announced
  BY <1>0 DEF Announced, MutexTypeOK, Done, Jump
<1>5. Cardinality(Announced') = Cardinality(Announced) - 1
  BY <1>4, AnnouncedFinite, FS_RemoveElement
<1> QED BY <1>2, <1>3, <1>5 DEF WaitersExact

LEMMA UnlockLoopWaiters ==
  ASSUME MutexInv, WaitersExact, NEW g \in G, UnlockLoop(g)
  PROVE  WaitersExact'
<1>0. MutexTypeOK /\ pc[g] = "uloop" /\ st \in State /\ awoke' = awoke
  BY DEF MutexInv, MutexTypeOK, UnlockLoop
<1>1. Announced' = Announced
  BY <1>0 DEF UnlockLoop, Jump, Announced, MutexTypeOK
<1>2. CASE st' = st
  BY <1>0, <1>1, <1>2, WaitersStay
<1>3. CASE /\ ~st.woken /\ ~st.starving
           /\ st' = [st EXCEPT !.waiters = @ - 1, !.woken = TRUE]
  <2>1. st'.waiters = st.waiters - 1 /\ st'.woken /\ st.waiters \in Nat
    BY <1>0, <1>3 DEF State
  <2>2. \A h \in G : ~awoke[h]
    BY <1>3 DEF MutexInv, NormalMode, Token, Carrier
  <2>3. ~WakeInFlight /\ WakeInFlight'
    BY <1>0, <1>3, <2>1, <2>2 DEF WakeInFlight
  <2>4. Cardinality(Announced') = Cardinality(Announced)
    BY <1>1
  <2> QED BY <2>1, <2>3, <2>4, AnnouncedFinite DEF WaitersExact
<1> QED BY <1>2, <1>3 DEF UnlockLoop

LEMMA SpinWaiters ==
  ASSUME MutexInv, WaitersExact, NEW g \in G, Spin(g)
  PROVE  WaitersExact'
<1> DEFINE claim == ~awoke[g] /\ ~old[g].woken /\ old[g].waiters > 0 /\ st = old[g]
<1>0. /\ MutexTypeOK /\ pc[g] = "loop" /\ st \in State /\ pc' = [pc EXCEPT ![g] = "slow"]
      /\ st' = IF claim THEN [st EXCEPT !.woken = TRUE] ELSE st
      /\ awoke' = [awoke EXCEPT ![g] = @ \/ claim]
  BY DEF MutexInv, MutexTypeOK, Spin, Jump
<1>1. Announced' = Announced
  BY <1>0, SamePhase
<1>2. CASE claim
  <2>1. st'.waiters = st.waiters /\ ~st.woken /\ awoke'[g]
    BY <1>0, <1>2 DEF State, MutexTypeOK
  <2>2. ~WakeInFlight /\ ~WakeInFlight'
    BY <2>1 DEF WakeInFlight
  <2> QED BY <1>1, <2>1, <2>2 DEF WaitersExact
<1>3. CASE ~claim
  <2>1. st' = st
    BY <1>0, <1>3
  <2>2. \A h \in G : awoke'[h] = awoke[h]
    <3> HIDE DEF claim
    <3> QED BY <1>0, <1>3 DEF MutexTypeOK
  <2>3. WakeInFlight' <=> WakeInFlight
    BY <2>1, <2>2 DEF WakeInFlight
  <2> QED BY <1>1, <2>1, <2>3 DEF WaitersExact
<1> QED BY <1>2, <1>3

\* The other steps are about nobody who waits.
LEMMA OtherWaiters ==
  ASSUME MutexInv, WaitersExact, NEW g \in G,
         Lock(g) \/ Unlock(g) \/ LoadState(g) \/ Sleep(g) \/ WakeWaiter(g)
  PROVE  WaitersExact'
<1>0. MutexTypeOK /\ st \in State /\ awoke' = awoke
  BY DEF MutexInv, MutexTypeOK, Lock, Unlock, LoadState, Sleep, WakeWaiter
<1>1. st'.waiters = st.waiters /\ st'.woken = st.woken
  BY <1>0 DEF Lock, Unlock, LoadState, Sleep, WakeWaiter, State, Zero
<1>2. Announced' = Announced
  BY <1>0 DEF Lock, Unlock, LoadState, Sleep, WakeWaiter, Jump, Idle, Announced, MutexTypeOK
<1> QED BY <1>0, <1>1, <1>2, WaitersStay

(***************************************************************************)
(* For any number of goroutines: the waiter count in the state word is     *)
(* exact, also while a wakeup is on its way (mutex.go:112, 149, 211).      *)
(***************************************************************************)
THEOREM WaitersAreExact == MutexSpec => []WaitersExact
<1> DEFINE Inv == MutexInv /\ WaitersExact
<1>1. MutexInit => Inv
  <2> SUFFICES ASSUME MutexInit PROVE Inv
    OBVIOUS
  <2>1. Announced = {} /\ st.waiters = 0 /\ ~WakeInFlight
    BY DEF MutexInit, Announced, WakeInFlight, Zero
  <2> QED BY <2>1, MutexInitInv, FS_EmptySet DEF WaitersExact
<1>2. Inv /\ [MutexNext]_vars => Inv'
  <2> SUFFICES ASSUME MutexInv, WaitersExact, [MutexNext]_vars PROVE WaitersExact'
    BY MutexNextInv
  <2>1. CASE UNCHANGED vars
    BY <2>1, WaitersStay DEF vars, mvars, Announced
  <2>2. ASSUME NEW g \in G, Lock(g) \/ Unlock(g) PROVE WaitersExact'
    BY <2>2, OtherWaiters
  <2>3. ASSUME NEW g \in G, MutexStep(g) PROVE WaitersExact'
    <3>1. CASE SemaStep(g) /\ UNCHANGED mvars
      BY <3>1, WaitersStay DEF mvars, Announced
    <3> QED BY <2>3, <3>1, OtherWaiters, SpinWaiters, TryLockWaiters, WakeWaiters,
        TakeHandoffWaiters, UnlockLoopWaiters DEF MutexStep
  <2> QED BY <2>1, <2>2, <2>3 DEF MutexNext
<1> QED BY <1>1, <1>2, PTL DEF MutexSpec

-----------------------------------------------------------------------------
(* The refinement *)

Locking == {g \in G : InLock(g)}
Unlocking == {g \in G : InUnlock(g)}

LEMMA MutexStepRefines ==
  ASSUME MutexInv, MutexInv', [MutexNext]_vars
  PROVE  [LockerView!LockerNext]_(LockerView!lvars)
<1> USE DEF LockerView!LockerNext, LockerView!lvars
<1>1. CASE UNCHANGED vars
  BY <1>1 DEF vars, svars, mvars, InLock, InUnlock
<1>2. SUFFICES ASSUME NEW g \in G, Lock(g) \/ Unlock(g) \/ MutexStep(g)
               PROVE  [LockerView!LockerNext]_(LockerView!lvars)
  BY <1>1 DEF MutexNext
<1>3. MutexTypeOK /\ SemaTypeOK /\ CallsMatch /\ (st.locked <=> holders # {}) /\ MutualExclusion
  BY DEF MutexInv, SemaInv, Ownership
<1>4. (pc[g] # "idle" /\ pc[g] # "asleep") => spc[g] = "idle"
  BY <1>3 DEF CallsMatch, SemaTypeOK
<1>5. ASSUME holders' = holders, \A h \in G : InLock(h)' <=> InLock(h),
             \A h \in G : InUnlock(h)' <=> InUnlock(h)
      PROVE  UNCHANGED LockerView!lvars
  BY <1>5
<1>6. CASE Lock(g)
  <2>1. /\ pc[g] = "idle" /\ spc[g] = "idle" /\ g \notin holders /\ spc' = spc
        /\ ~InLock(g) /\ ~InUnlock(g)
    BY <1>6 DEF Lock, Idle, svars, InLock, InUnlock
  <2>2. CASE st = Zero
    <3>1. pc' = pc /\ holders = {} /\ holders' = {g}
      BY <1>3, <1>6, <2>2 DEF Lock, Zero
    <3>2. Locking' = Locking /\ Unlocking' = Unlocking
      BY <2>1, <3>1 DEF Locking, Unlocking, InLock, InUnlock
    <3>3. LockerView!LockAtOnce(g)
      BY <2>1, <3>1, <3>2 DEF LockerView!LockAtOnce, LockerView!Outside, Locking, Unlocking
    <3> QED BY <3>3
  <2>3. CASE st # Zero
    <3>1. pc' = [pc EXCEPT ![g] = "slow"] /\ holders' = holders
      BY <1>6, <2>3 DEF Lock, Jump
    <3>2. Locking' = Locking \cup {g} /\ Unlocking' = Unlocking
      BY <1>3, <2>1, <3>1 DEF Locking, Unlocking, InLock, InUnlock, MutexTypeOK
    <3>3. LockerView!LockCall(g)
      BY <2>1, <3>1, <3>2 DEF LockerView!LockCall, LockerView!Outside, Locking, Unlocking
    <3> QED BY <3>3
  <2> QED BY <2>2, <2>3
<1>7. CASE LoadState(g) \/ Spin(g) \/ Wake(g) \/ Sleep(g)
  <2>1. /\ holders' = holders /\ \A h \in G \ {g} : spc'[h] = spc[h] /\ pc'[h] = pc[h]
        /\ pc[g] \in {"slow", "loop", "acquire", "asleep"}
        /\ pc'[g] \in {"slow", "loop", "handoff", "asleep"}
    BY <1>3, <1>7 DEF LoadState, Spin, Wake, Sleep, Jump, Semacquire, Call, svars, MutexTypeOK,
       SemaTypeOK
  <2>2. \A h \in G : (InLock(h)' <=> InLock(h)) /\ (InUnlock(h)' <=> InUnlock(h))
    BY <2>1 DEF InLock, InUnlock
  <2> QED BY <1>5, <2>1, <2>2
<1>8. CASE TryLock(g)
  <2>1. pc[g] = "loop" /\ spc' = spc
    BY <1>8 DEF TryLock, svars
  <2>2. CASE st = old[g] /\ ~st.locked /\ ~st.starving
    <3>1. Done(g) /\ holders = {} /\ holders' = {g}
      BY <1>3, <1>8, <2>2 DEF TryLock
    <3>2. pc' = [pc EXCEPT ![g] = "idle"]
      BY <3>1 DEF Done, Jump
    <3>3. Locking' = Locking \ {g} /\ Unlocking' = Unlocking /\ g \in Locking
      BY <1>3, <1>4, <2>1, <3>2 DEF Locking, Unlocking, InLock, InUnlock, MutexTypeOK
    <3>4. LockerView!LockReturn(g)
      BY <3>1, <3>3 DEF LockerView!LockReturn, Locking, Unlocking
    <3> QED BY <3>4
  <2>3. CASE ~(st = old[g] /\ ~st.locked /\ ~st.starving)
    <3>1. holders' = holders /\ (pc' = pc \/ pc' = [pc EXCEPT ![g] = "acquire"])
      BY <1>8, <2>3 DEF TryLock, Jump
    <3>2. \A h \in G : (InLock(h)' <=> InLock(h)) /\ (InUnlock(h)' <=> InUnlock(h))
      BY <1>3, <2>1, <3>1 DEF InLock, InUnlock, MutexTypeOK
    <3> QED BY <1>5, <3>1, <3>2
  <2> QED BY <2>2, <2>3
<1>9. CASE TakeHandoff(g)
  <2>1. pc[g] = "handoff" /\ spc' = spc /\ Done(g) /\ holders' = holders \cup {g}
    BY <1>9 DEF TakeHandoff, svars
  <2>2. Carrier(g) /\ Token
    BY <2>1 DEF Carrier, Token
  <2>3. holders = {}
    BY <1>3, <2>1, <2>2 DEF MutexInv, NormalMode, StarvationMode
  <2>4. pc' = [pc EXCEPT ![g] = "idle"]
    BY <2>1 DEF Done, Jump
  <2>5. Locking' = Locking \ {g} /\ Unlocking' = Unlocking /\ g \in Locking
    BY <1>3, <1>4, <2>1, <2>4 DEF Locking, Unlocking, InLock, InUnlock, MutexTypeOK
  <2>6. LockerView!LockReturn(g)
    BY <2>1, <2>3, <2>5 DEF LockerView!LockReturn, Locking, Unlocking
  <2> QED BY <2>6
<1>10. CASE Unlock(g)
  <2>1. /\ pc[g] = "idle" /\ spc[g] = "idle" /\ spc' = spc
        /\ pc' = pc \/ \E p \in {"release", "uloop"} : pc' = [pc EXCEPT ![g] = p]
    BY <1>10 DEF Unlock, Idle, Jump, svars
  <2>2. PICK h \in holders : holders' = holders \ {h}
    BY <1>10 DEF Unlock
  <2>3. h \in G
    BY <1>3 DEF MutexTypeOK
  <2>4. /\ Locking' = Locking /\ Unlocking' \in {Unlocking, Unlocking \cup {g}}
        /\ g \notin Locking /\ g \notin Unlocking
    BY <1>3, <2>1 DEF Locking, Unlocking, InLock, InUnlock, MutexTypeOK
  <2>5. LockerView!UnlockCall(g, h)
    BY <2>2, <2>4 DEF LockerView!UnlockCall, LockerView!Outside, Locking, Unlocking
  <2> QED BY <2>3, <2>5
<1>11. CASE UnlockLoop(g)
  <2>1. /\ pc[g] = "uloop" /\ spc' = spc /\ holders' = holders
        /\ pc' = pc \/ \E p \in {"release", "idle"} : pc' = [pc EXCEPT ![g] = p]
    BY <1>11 DEF UnlockLoop, Jump, svars
  <2>2. CASE pc' = [pc EXCEPT ![g] = "idle"]
    <3>1. Locking' = Locking /\ Unlocking' = Unlocking \ {g} /\ g \in Unlocking
      BY <1>3, <1>4, <2>1, <2>2 DEF Locking, Unlocking, InLock, InUnlock, MutexTypeOK
    <3>2. LockerView!UnlockReturn(g)
      BY <2>1, <3>1 DEF LockerView!UnlockReturn, Locking, Unlocking
    <3> QED BY <3>2
  <2>3. CASE pc' = pc \/ pc' = [pc EXCEPT ![g] = "release"]
    <3>1. \A h \in G : (InLock(h)' <=> InLock(h)) /\ (InUnlock(h)' <=> InUnlock(h))
      BY <1>3, <2>1, <2>3 DEF InLock, InUnlock, MutexTypeOK
    <3> QED BY <1>5, <2>1, <3>1
  <2> QED BY <2>1, <2>2, <2>3
<1>12. CASE WakeWaiter(g)
  <2>1. /\ pc[g] = "release" /\ pc' = [pc EXCEPT ![g] = "idle"] /\ holders' = holders
        /\ spc'[g] = "nwait" /\ \A h \in G \ {g} : spc'[h] = spc[h]
    BY <1>3, <1>12 DEF WakeWaiter, Semrelease, Call, Jump, SemaTypeOK
  <2>2. \A h \in G : (InLock(h)' <=> InLock(h)) /\ (InUnlock(h)' <=> InUnlock(h))
    BY <1>3, <2>1 DEF InLock, InUnlock, MutexTypeOK
  <2> QED BY <1>5, <2>1, <2>2
<1>13. CASE SemaStep(g) /\ UNCHANGED mvars
  <2>1. holders' = holders /\ pc' = pc
    BY <1>13 DEF mvars
  <2>2. CASE pc[g] = "asleep"
    <3>1. spc[g] \notin ReleasePhase
      BY <1>3, <2>2 DEF CallsMatch
    <3>2. \A h \in G \ {g} : spc'[h] = spc[h]
      BY <1>3, <1>13, <3>1, GotoMoves, ReturnMoves DEF SemaStep, AcquireLock, AcquireRecheck,
         AcquireWoken, ReleaseNwait, ReleaseDequeue, ReleaseReady, AcquirePhase, ReleasePhase
    <3>3. \A h \in G : (InLock(h)' <=> InLock(h)) /\ (InUnlock(h)' <=> InUnlock(h))
      BY <2>1, <2>2, <3>2 DEF InLock, InUnlock
    <3> QED BY <1>5, <2>1, <3>3
  <2>3. CASE pc[g] # "asleep"
    <3>1. spc[g] \in ReleasePhase /\ pc[g] = "idle"
      BY <1>3, <1>13, <2>3 DEF CallsMatch, SemaStep, AcquireLock, AcquireRecheck, AcquireWoken,
         ReleaseNwait, ReleaseDequeue, ReleaseReady, AcquirePhase, ReleasePhase
    <3>2. \A h \in G \ {g} : spc'[h] = spc[h] \/ pc[h] = "asleep"
      <4>1. CASE ReleaseReady(g)
        <5>1. spc[sdeq[g]] = "parked" /\ sdeq[g] \in G
          BY <1>3, <4>1 DEF MutexInv, SemaInv, SemaTypeOK, ParkedOnce, DequeuedParked,
             ReleaseReady
        <5>2. pc[sdeq[g]] = "asleep"
          BY <1>3, <5>1 DEF CallsMatch, AcquirePhase
        <5> QED BY <1>3, <4>1, <5>1, <5>2 DEF ReleaseReady, SemaTypeOK
      <4>2. CASE ~ReleaseReady(g)
        BY <1>3, <1>13, <3>1, <4>2, GotoMoves, ReturnMoves DEF SemaStep, AcquireLock,
           AcquireRecheck, AcquireWoken, ReleaseNwait, ReleaseDequeue, AcquirePhase, ReleasePhase
      <4> QED BY <4>1, <4>2
    <3>3. \A h \in G : InLock(h)' <=> InLock(h)
      BY <2>1 DEF InLock
    <3>4. \A h \in G \ {g} : InUnlock(h)' <=> InUnlock(h)
      BY <2>1, <3>2 DEF InUnlock
    <3>5. InUnlock(g)
      BY <3>1 DEF InUnlock, ReleasePhase
    <3>6. CASE InUnlock(g)'
      BY <1>5, <2>1, <3>3, <3>4, <3>5, <3>6
    <3>7. CASE ~InUnlock(g)'
      <4>1. Unlocking' = Unlocking \ {g} /\ g \in Unlocking /\ Locking' = Locking
        BY <3>3, <3>4, <3>5, <3>7 DEF Unlocking, Locking
      <4>2. LockerView!UnlockReturn(g)
        BY <2>1, <4>1 DEF LockerView!UnlockReturn, Locking, Unlocking
      <4> QED BY <4>2
    <3> QED BY <3>6, <3>7
  <2> QED BY <2>2, <2>3
<1> QED
  BY <1>2, <1>6, <1>7, <1>8, <1>9, <1>10, <1>11, <1>12, <1>13 DEF MutexStep

(***************************************************************************)
(* For any number of goroutines, Mutex is the lock of module Locker: Lock  *)
(* returns only when nobody holds it, and Unlock gives it up at its call.  *)
(***************************************************************************)
THEOREM MutexIsLocker == MutexSpec => ImplementsLocker
<1>1. MutexInit => LockerView!LockerInit
  BY DEF MutexInit, SemaInit, LockerView!LockerInit, InLock, InUnlock
<1>2. MutexInit => MutexInv
  BY MutexInitInv
<1>3. MutexInv /\ [MutexNext]_vars => MutexInv'
  BY MutexNextInv
<1>4. MutexInv /\ MutexInv' /\ [MutexNext]_vars => [LockerView!LockerNext]_(LockerView!lvars)
  BY MutexStepRefines
<1> QED
  BY <1>1, <1>2, <1>3, <1>4, PTL DEF MutexSpec, ImplementsLocker, LockerView!LockerSpec
=============================================================================
