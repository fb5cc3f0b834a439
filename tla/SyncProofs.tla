----------------------------- MODULE SyncProofs -----------------------------
(***************************************************************************)
(* Proofs about the two primitives that count over the semaphores of       *)
(* module Sema, and about the queue of sync.Pool; none of the three uses   *)
(* what another assumes of its constants.                                  *)
(*                                                                         *)
(* Module RWMutex, for any finite number of goroutines below               *)
(* rwmutexMaxReaders: a writer is alone, and readerWait is exact.          *)
(*                                                                         *)
(* The argument is a reckoning.  readerCount is the number of the readers  *)
(* inside and of those behind a writer, less MaxReaders while a writer is  *)
(* pending or inside.  The units of readerSem, published or still to be    *)
(* published by an Unlock, never exceed the readers that sleep on it, and  *)
(* equal them while no writer is pending.  A pending writer's readerWait   *)
(* counts the readers it found, and it gets in, by whichever of the three  *)
(* ways, only when none of them is left; there is one unit of writerSem,   *)
(* or one goroutine carrying it, at a time, and it belongs to that writer. *)
(***************************************************************************)
EXTENDS RWMutex, WaitGroup, PoolChain, SemaProofs, NaturalsInduction, WellFoundedInduction

GuardPhases == {"announce", "release", "wunlock"} \cup WPhases
\* The goroutine that field w let in, or the writer it made.
Hold(g) == pc[g] \in GuardPhases \/ g \in writers
OneHolder ==
  /\ \A g, h \in G : Hold(g) /\ Hold(h) => g = h
  /\ \A g \in writers : pc[g] \notin GuardPhases
  /\ w = {} => \A g \in G : ~Hold(g)

CallsMatch ==
  \A g \in G :
    /\ spc[g] \in AcquirePhase =>
         \/ pc[g] = "rasleep" /\ sarg[g].addr = readerSem
         \/ pc[g] = "wasleep" /\ sarg[g].addr = writerSem
    /\ spc[g] \in ReleasePhase => pc[g] \in {"idle", "release", "wunlock"}

\* Asleep, a goroutine has been handed its unit, or still wants it.
Handed(g) == spc[g] = "idle" \/ ticket[g]
Arrived == {g \in G : pc[g] = "rasleep" /\ Handed(g)}
Behind == {g \in G : pc[g] = "racquire" \/ (pc[g] = "rasleep" /\ ~Handed(g))}
Leaving == {g \in G : pc[g] = "depart"}

\* Where the one unit of writerSem is: nowhere, there, or with a goroutine.
Carrier(g) == pc[g] = "wake" \/ (pc[g] = "wasleep" /\ Handed(g))
Token == sema[writerSem] > 0 \/ \E g \in G : Carrier(g)
OneToken ==
  /\ \A g, h \in G : Carrier(g) /\ Carrier(h) => g = h
  /\ sema[writerSem] \in {0, 1}
  /\ sema[writerSem] = 1 => \A g \in G : ~Carrier(g)
  /\ Token => \E g \in G : pc[g] \in {"wacquire", "wasleep"}

Locals ==
  /\ \A g \in G : pc[g] = "release" => r[g] > 0
  /\ \A g \in readers : pc[g] \notin RPhases
  /\ (\E g \in G : pc[g] = "count") => readerWait <= 0

Rd == Cardinality(readers)
Ar == Cardinality(Arrived)
Un == Cardinality(Behind)
Dp == Cardinality(Leaving)
Units == sema[readerSem] + RIn("release")
Pending == Announced \/ writers # {}

Counts ==
  /\ readerCount = Rd + Ar + Un - IF Pending THEN MaxReaders ELSE 0
  /\ Units <= Un /\ (~Pending => Units = Un)
  /\ Announced => readerWait + RIn("count") = Rd + Ar + Units + Dp
  /\ ~Announced => readerWait = 0 /\ Dp = 0
  /\ writers # {} => Rd = 0 /\ Ar = 0 /\ Units = 0
  /\ Token => readerWait = 0

RWInv ==
  /\ RWTypeOK /\ SemaInv /\ CallsMatch /\ OneHolder /\ OneToken /\ Locals /\ Counts

-----------------------------------------------------------------------------
(* The numbers *)

LEMMA SetsFinite ==
  ASSUME readers \subseteq G
  PROVE  /\ IsFiniteSet(readers) /\ IsFiniteSet(Arrived) /\ IsFiniteSet(Behind)
         /\ IsFiniteSet(Leaving)
         /\ Rd \in Nat /\ Ar \in Nat /\ Un \in Nat /\ Dp \in Nat
<1>1. /\ IsFiniteSet(readers) /\ IsFiniteSet(Arrived) /\ IsFiniteSet(Behind)
      /\ IsFiniteSet(Leaving)
  BY GFinite, FS_Subset DEF Arrived, Behind, Leaving
<1> QED BY <1>1, FS_CardinalityType DEF Rd, Ar, Un, Dp

LEMMA SetsFinitePrime ==
  ASSUME (readers \subseteq G)'
  PROVE  /\ Rd' \in Nat /\ Ar' \in Nat /\ Un' \in Nat /\ Dp' \in Nat
<1>1. /\ IsFiniteSet(readers') /\ IsFiniteSet(Arrived') /\ IsFiniteSet(Behind')
      /\ IsFiniteSet(Leaving')
  BY GFinite, FS_Subset DEF Arrived, Behind, Leaving
<1> QED BY <1>1, FS_CardinalityType DEF Rd, Ar, Un, Dp

LEMMA DisjointUnion ==
  ASSUME NEW A, IsFiniteSet(A), NEW B, IsFiniteSet(B), A \cap B = {}
  PROVE  Cardinality(A \cup B) = Cardinality(A) + Cardinality(B)
<1>1. Cardinality(A \cup B) = Cardinality(A) + Cardinality(B) - Cardinality(A \cap B)
  BY FS_Union
<1>2. Cardinality(A \cap B) = 0
  BY FS_EmptySet
<1>3. Cardinality(A) \in Nat /\ Cardinality(B) \in Nat
  BY FS_CardinalityType
<1> QED BY <1>1, <1>2, <1>3

\* Three kinds of readers, none of them counted twice.
LEMMA DisjointSizes ==
  ASSUME NEW A \in SUBSET G, NEW B \in SUBSET G, NEW C \in SUBSET G,
         A \cap B = {}, A \cap C = {}, B \cap C = {}
  PROVE  Cardinality(A) + Cardinality(B) + Cardinality(C) < MaxReaders
<1>1. IsFiniteSet(A) /\ IsFiniteSet(B) /\ IsFiniteSet(C) /\ IsFiniteSet(A \cup B)
  BY GFinite, FS_Subset
<1>2. Cardinality(A \cup B) = Cardinality(A) + Cardinality(B)
  BY <1>1, DisjointUnion
<1>3. (A \cup B) \cap C = {}
  OBVIOUS
<1>4. Cardinality((A \cup B) \cup C) = Cardinality(A \cup B) + Cardinality(C)
  BY <1>1, <1>3, DisjointUnion
<1>5. (A \cup B) \cup C \in SUBSET G
  OBVIOUS
<1>6. Cardinality((A \cup B) \cup C) <= Cardinality(G)
  BY <1>5, GFinite, FS_Subset
<1>7. Cardinality(G) \in Nat /\ Cardinality(A) \in Nat /\ Cardinality(B) \in Nat
      /\ Cardinality(C) \in Nat
  BY <1>1, GFinite, FS_CardinalityType
<1> QED BY <1>2, <1>4, <1>6, <1>7, MaxReadersEnough

LEMMA FewReaders ==
  ASSUME readers \subseteq G, Locals
  PROVE  Rd + Ar + Un < MaxReaders
<1>1. Arrived \in SUBSET G /\ Behind \in SUBSET G /\ Arrived \cap Behind = {}
  BY DEF Arrived, Behind
<1>2. readers \cap Arrived = {} /\ readers \cap Behind = {}
  BY DEF Locals, Arrived, Behind, RPhases
<1> QED BY <1>1, <1>2, DisjointSizes DEF Rd, Ar, Un

LEMMA FewReadersPrime ==
  ASSUME (readers \subseteq G)', Locals'
  PROVE  Rd' + Ar' + Un' < MaxReaders
<1>1. Arrived' \in SUBSET G /\ Behind' \in SUBSET G /\ Arrived' \cap Behind' = {}
  BY DEF Arrived, Behind
<1>2. readers' \cap Arrived' = {} /\ readers' \cap Behind' = {}
  BY DEF Locals, Arrived, Behind, RPhases
<1> QED BY <1>1, <1>2, DisjointSizes DEF Rd, Ar, Un

\* One goroutine more, or one less.
LEMMA OneMore ==
  ASSUME NEW S, IsFiniteSet(S), NEW x, x \notin S
  PROVE  Cardinality(S \cup {x}) = Cardinality(S) + 1
BY FS_AddElement

LEMMA OneLess ==
  ASSUME NEW S, IsFiniteSet(S), NEW x, x \in S
  PROVE  Cardinality(S \ {x}) = Cardinality(S) - 1
BY FS_RemoveElement

\* r of the goroutine in a phase, when only g moves.
LEMMA RInMoves ==
  ASSUME OneHolder, OneHolder', NEW g \in G, NEW phase \in {"count", "release"},
         \A h \in G \ {g} : pc'[h] = pc[h] /\ r'[h] = r[h]
  PROVE  /\ pc[g] = phase => RIn(phase) = r[g]
         /\ pc'[g] = phase => RIn(phase)' = r'[g]
         /\ pc[g] = phase /\ pc'[g] # phase => RIn(phase)' = 0
         /\ pc[g] # phase /\ pc'[g] = phase => RIn(phase) = 0
         /\ pc[g] # phase /\ pc'[g] # phase => RIn(phase)' = RIn(phase)
<1> DEFINE S == {h \in G : pc[h] = phase}
           T == {h \in G : pc'[h] = phase}
<1>1. /\ RIn(phase) = IF S = {} THEN 0 ELSE r[CHOOSE h \in S : TRUE]
      /\ RIn(phase)' = IF T = {} THEN 0 ELSE r'[CHOOSE h \in T : TRUE]
  BY DEF RIn
<1>2. /\ \A h, k \in G : pc[h] = phase /\ pc[k] = phase => h = k
      /\ \A h, k \in G : pc'[h] = phase /\ pc'[k] = phase => h = k
  BY DEF OneHolder, Hold, GuardPhases, WPhases
<1>3. /\ pc[g] = phase => S = {g} /\ (pc'[g] # phase => T = {})
      /\ pc'[g] = phase => T = {g} /\ (pc[g] # phase => S = {})
      /\ pc[g] # phase /\ pc'[g] # phase => S = T /\ g \notin S
  BY <1>2
<1>4. S # {} => (CHOOSE h \in S : TRUE) \in S
  OBVIOUS
<1>5. S = T /\ g \notin S => RIn(phase)' = RIn(phase)
  <2> SUFFICES ASSUME S = T, g \notin S, S # {}
               PROVE  r'[CHOOSE h \in T : TRUE] = r[CHOOSE h \in S : TRUE]
    BY <1>1
  <2> PICK k \in S : k = CHOOSE h \in S : TRUE
    BY <1>4
  <2> QED OBVIOUS
<1>6. (CHOOSE h \in {g} : TRUE) = g
  OBVIOUS
<1> HIDE DEF S, T
<1> QED BY <1>1, <1>3, <1>5, <1>6

\* It is a number.
LEMMA RInNat ==
  ASSUME r \in [G -> Nat], NEW phase
  PROVE  RIn(phase) \in Nat
<1> DEFINE S == {h \in G : pc[h] = phase}
<1>1. RIn(phase) = IF S = {} THEN 0 ELSE r[CHOOSE h \in S : TRUE]
  BY DEF RIn
<1>2. S # {} => (CHOOSE h \in S : TRUE) \in G
  OBVIOUS
<1> HIDE DEF S
<1> QED BY <1>1, <1>2

-----------------------------------------------------------------------------
(* Steps of the semaphores *)

LEMMA Asleep ==
  ASSUME RWTypeOK, CallsMatch, ParkedOnce, NEW g \in G
  PROVE  /\ Wanting(g) => pc[g] \in {"rasleep", "wasleep"}
         /\ pc[g] \in {"rasleep", "wasleep"} => (Handed(g) <=> ~Wanting(g))
<1>1. spc[g] \in {"idle"} \cup AcquirePhase \cup ReleasePhase
  BY DEF RWTypeOK, SemaTypeOK
<1>2. pc[g] \in {"rasleep", "wasleep"} => spc[g] \in {"idle"} \cup AcquirePhase
  BY <1>1 DEF CallsMatch
<1>3. ticket[g] => spc[g] = "woken"
  BY DEF ParkedOnce, TicketWoken
<1> QED BY <1>2, <1>3 DEF Handed, Wanting, CallsMatch, AcquirePhase, ReleasePhase

LEMMA AsleepPrime ==
  ASSUME RWTypeOK', CallsMatch', ParkedOnce', NEW g \in G
  PROVE  pc'[g] \in {"rasleep", "wasleep"} => (Handed(g)' <=> ~Wanting(g)')
<1>1. spc'[g] \in {"idle"} \cup AcquirePhase \cup ReleasePhase
  BY DEF RWTypeOK, SemaTypeOK
<1>2. pc'[g] \in {"rasleep", "wasleep"} => spc'[g] \in {"idle"} \cup AcquirePhase
  BY <1>1 DEF CallsMatch
<1>3. ticket'[g] => spc'[g] = "woken"
  BY DEF ParkedOnce, TicketWoken
<1> QED BY <1>2, <1>3 DEF Handed, Wanting, CallsMatch, AcquirePhase, ReleasePhase

LEMMA CallsMatchStays ==
  ASSUME RWInv, CallsStay, pc' = pc
  PROVE  CallsMatch'
BY DEF RWInv, RWTypeOK, SemaTypeOK, CallsMatch, CallsStay, AcquirePhase, ReleasePhase

LEMMA SemaStepRW ==
  ASSUME RWInv, NEW g \in G, SemaStep(g), UNCHANGED rwvars
  PROVE  RWInv'
<1>0. /\ RWTypeOK /\ SemaTypeOK /\ CallsMatch /\ SemaInv /\ ParkedOnce
      /\ w' = w /\ readerCount' = readerCount /\ readerWait' = readerWait /\ pc' = pc
      /\ r' = r /\ readers' = readers /\ writers' = writers
  BY DEF RWInv, SemaInv, rwvars
<1>1. SemaInv' /\ ParkedOnce' /\ SemaTypeOK'
  BY <1>0, SemaStepInv DEF SemaInv
<1>2. CallsStay /\ (NothingTaken \/ \E s \in G, a \in Addr : Takes(s, a))
  BY <1>0, SemaStepView
<1>3. RWTypeOK'
  BY <1>0, <1>1 DEF RWTypeOK
<1>4. CallsMatch'
  BY <1>0, <1>2, CallsMatchStays
<1>5. OneHolder' /\ Locals'
  BY <1>0 DEF RWInv, OneHolder, Hold, Locals
<1>6. /\ Rd' = Rd /\ Dp' = Dp /\ RIn("release")' = RIn("release") /\ RIn("count")' = RIn("count")
      /\ Announced' <=> Announced
      /\ Pending' <=> Pending
  BY <1>0 DEF Rd, Dp, Leaving, RIn, Announced, Pending
<1>7. \A h \in G : pc[h] \in {"rasleep", "wasleep"} =>
        (Handed(h) <=> ~Wanting(h)) /\ (Handed(h)' <=> ~Wanting(h)')
  BY <1>0, <1>1, <1>3, <1>4, Asleep, AsleepPrime
<1>8. CASE NothingTaken
  <2>1. /\ sema' = sema
        /\ \A h \in G : pc[h] \in {"rasleep", "wasleep"} => (Handed(h)' <=> Handed(h))
    BY <1>7, <1>8 DEF NothingTaken
  <2>2. Arrived' = Arrived /\ Behind' = Behind /\ \A h \in G : Carrier(h)' <=> Carrier(h)
    BY <1>0, <2>1 DEF Arrived, Behind, Carrier
  <2>3. OneToken' /\ (Token' <=> Token)
    BY <1>0, <2>1, <2>2 DEF RWInv, OneToken, Token
  <2>4. Ar' = Ar /\ Un' = Un /\ Units' = Units
    BY <1>6, <2>1, <2>2 DEF Ar, Un, Units
  <2>5. Counts'
    BY <1>0, <1>6, <2>3, <2>4 DEF RWInv, Counts
  <2> QED BY <1>1, <1>3, <1>4, <1>5, <2>3, <2>5 DEF RWInv
<1>9. ASSUME NEW s \in G, NEW a \in Addr, Takes(s, a) PROVE RWInv'
  <2>1. /\ sema[a] > 0 /\ sema' = [sema EXCEPT ![a] = @ - 1]
        /\ Wanting(s) /\ ~Wanting(s)' /\ \A h \in G \ {s} : Wanting(h)' <=> Wanting(h)
        /\ \/ pc[s] = "rasleep" /\ a = readerSem
           \/ pc[s] = "wasleep" /\ a = writerSem
    BY <1>0, <1>9 DEF Takes, Down, Wanting, CallsMatch
  <2>2. /\ \A h \in G \ {s} : pc[h] \in {"rasleep", "wasleep"} => (Handed(h)' <=> Handed(h))
        /\ ~Handed(s) /\ Handed(s)'
    BY <1>7, <2>1
  <2>3. CASE pc[s] = "rasleep" /\ a = readerSem
    <3>1. sema'[readerSem] = sema[readerSem] - 1 /\ sema'[writerSem] = sema[writerSem]
          /\ sema[readerSem] \in Nat /\ sema[readerSem] > 0
      BY <1>0, <2>1, <2>3, SemsDistinct DEF SemaTypeOK
    <3>2. \A h \in G : Carrier(h)' <=> Carrier(h)
      BY <1>0, <2>2, <2>3 DEF Carrier
    <3>3. OneToken' /\ (Token' <=> Token)
      BY <1>0, <3>1, <3>2 DEF RWInv, OneToken, Token
    <3>4. Arrived' = Arrived \cup {s} /\ s \notin Arrived
      BY <1>0, <2>2, <2>3 DEF Arrived
    <3>5. Behind' = Behind \ {s} /\ s \in Behind
      BY <1>0, <2>2, <2>3 DEF Behind
    <3>6. /\ Ar' = Ar + 1 /\ Un' = Un - 1 /\ Units' = Units - 1
          /\ Rd \in Nat /\ Ar \in Nat /\ Un \in Nat /\ RIn("release") \in Nat
      BY <1>0, <1>6, <3>1, <3>4, <3>5, SetsFinite, OneMore, OneLess, RInNat
      DEF Ar, Un, Units, RWTypeOK
    <3>7. Units > 0
      BY <3>1, <3>6 DEF Units
    <3>8. /\ readerWait \in Int /\ readerCount \in Int /\ MaxReaders \in Int /\ Units \in Int
          /\ Dp \in Int /\ RIn("count") \in Int
      BY <1>0, <3>1, <3>6, MaxReadersEnough, SetsFinite, RInNat DEF RWTypeOK, Units
    <3>9. Counts'
      BY <1>0, <1>6, <3>3, <3>6, <3>7, <3>8 DEF RWInv, Counts
    <3> QED BY <1>1, <1>3, <1>4, <1>5, <3>3, <3>9 DEF RWInv
  <2>4. CASE pc[s] = "wasleep" /\ a = writerSem
    <3>1. sema'[readerSem] = sema[readerSem] /\ sema'[writerSem] = sema[writerSem] - 1
          /\ sema[writerSem] = 1
      BY <1>0, <2>1, <2>4, SemsDistinct DEF SemaTypeOK, RWInv, OneToken
    <3>2. Carrier(s)' /\ \A h \in G \ {s} : ~Carrier(h)'
      BY <1>0, <2>2, <2>4, <3>1 DEF RWInv, OneToken, Carrier
    <3>3. OneToken' /\ Token
      BY <1>0, <2>4, <3>1, <3>2 DEF RWInv, OneToken, Token
    <3>4. Arrived' = Arrived /\ Behind' = Behind
      BY <1>0, <2>2, <2>4 DEF Arrived, Behind
    <3>5. Ar' = Ar /\ Un' = Un /\ Units' = Units
      BY <1>6, <3>1, <3>4 DEF Ar, Un, Units
    <3>6. Counts'
      BY <1>0, <1>6, <3>3, <3>5 DEF RWInv, Counts
    <3> QED BY <1>1, <1>3, <1>4, <1>5, <3>3, <3>6 DEF RWInv
  <2> QED BY <2>1, <2>3, <2>4
<1> QED BY <1>2, <1>8, <1>9

-----------------------------------------------------------------------------
(* Steps of RLock, RUnlock, Lock and Unlock that call no semaphore *)

One(b) == IF b THEN 1 ELSE 0

\* S loses or gains g, if it does.
LEMMA Resized ==
  ASSUME NEW S, IsFiniteSet(S), NEW T, NEW g, S \ {g} = T \ {g}
  PROVE  Cardinality(T) = Cardinality(S) - One(g \in S) + One(g \in T)
<1>1. Cardinality(S) \in Nat
  BY FS_CardinalityType
<1>2. CASE (g \in S) = (g \in T)
  <2>1. S = T
    BY <1>2
  <2> QED BY <1>1, <2>1 DEF One
<1>3. CASE g \in S /\ g \notin T
  <2>1. T = S \ {g}
    BY <1>3
  <2> QED BY <1>1, <1>3, <2>1, OneLess DEF One
<1>4. CASE g \notin S /\ g \in T
  <2>1. T = S \cup {g}
    BY <1>4
  <2> QED BY <1>1, <1>4, <2>1, OneMore DEF One
<1> QED BY <1>2, <1>3, <1>4

LEMMA Quiet ==
  ASSUME RWInv, NEW g \in G, spc[g] = "idle", UNCHANGED svars,
         NEW ph \in Phases \ {"rasleep", "wasleep"}, pc' = [pc EXCEPT ![g] = ph]
  PROVE  /\ SemaInv' /\ SemaTypeOK' /\ CallsMatch' /\ sema' = sema
         /\ pc'[g] = ph /\ pc' \in [G -> Phases] /\ \A h \in G \ {g} : pc'[h] = pc[h]
         /\ Ar' = Ar - One(pc[g] = "rasleep")
         /\ Un' = Un - One(pc[g] = "racquire") + One(ph = "racquire")
         /\ Dp' = Dp - One(pc[g] = "depart") + One(ph = "depart")
         /\ \A h \in G \ {g} : Carrier(h)' <=> Carrier(h)
         /\ Carrier(g)' <=> ph = "wake"
         /\ Carrier(g) <=> pc[g] \in {"wake", "wasleep"}
<1>0. SemaInv /\ CallsMatch /\ pc \in [G -> Phases] /\ readers \subseteq G
  BY DEF RWInv, RWTypeOK
<1>1. SemaInv' /\ SemaTypeOK'
  BY <1>0, SemaStutterInv DEF SemaInv
<1>2. sema' = sema /\ spc' = spc /\ sarg' = sarg /\ ticket' = ticket
  BY DEF svars
<1>3. pc'[g] = ph /\ pc' \in [G -> Phases] /\ \A h \in G \ {g} : pc'[h] = pc[h]
  BY <1>0
<1>4. CallsMatch'
  BY <1>0, <1>2, <1>3 DEF CallsMatch, AcquirePhase, ReleasePhase
<1>5. /\ Arrived \ {g} = Arrived' \ {g} /\ g \notin Arrived'
      /\ g \in Arrived <=> pc[g] = "rasleep"
  BY <1>2, <1>3 DEF Arrived, Handed
<1>6. /\ Behind \ {g} = Behind' \ {g}
      /\ g \in Behind <=> pc[g] = "racquire"
      /\ g \in Behind' <=> ph = "racquire"
  BY <1>2, <1>3 DEF Behind, Handed
<1>7. /\ Leaving \ {g} = Leaving' \ {g}
      /\ g \in Leaving <=> pc[g] = "depart"
      /\ g \in Leaving' <=> ph = "depart"
  BY <1>3 DEF Leaving
<1>8. Ar' = Ar - One(g \in Arrived) + One(g \in Arrived')
  BY <1>0, <1>5, SetsFinite, Resized DEF Ar
<1>9. Un' = Un - One(g \in Behind) + One(g \in Behind')
  BY <1>0, <1>6, SetsFinite, Resized DEF Un
<1>10. Dp' = Dp - One(g \in Leaving) + One(g \in Leaving')
  BY <1>0, <1>7, SetsFinite, Resized DEF Dp
<1>11. Ar' = Ar - One(pc[g] = "rasleep")
  BY <1>0, <1>5, <1>8, SetsFinite DEF One
<1>12. /\ Un' = Un - One(pc[g] = "racquire") + One(ph = "racquire")
       /\ Dp' = Dp - One(pc[g] = "depart") + One(ph = "depart")
  BY <1>6, <1>7, <1>9, <1>10 DEF One
<1>13. /\ \A h \in G \ {g} : Carrier(h)' <=> Carrier(h)
       /\ Carrier(g)' <=> ph = "wake"
       /\ Carrier(g) <=> pc[g] \in {"wake", "wasleep"}
  BY <1>2, <1>3 DEF Carrier, Handed
<1> QED BY <1>1, <1>2, <1>3, <1>4, <1>11, <1>12, <1>13

\* What the numbers are.
LEMMA Numbers ==
  ASSUME RWInv
  PROVE  /\ Rd \in Nat /\ Ar \in Nat /\ Un \in Nat /\ Dp \in Nat
         /\ Units \in Nat /\ RIn("count") \in Nat /\ RIn("release") \in Nat
         /\ sema[readerSem] \in Nat /\ sema[writerSem] \in Nat
         /\ readerCount \in Int /\ readerWait \in Int /\ MaxReaders \in Nat
         /\ Rd + Ar + Un < MaxReaders
         /\ readerCount < 0 <=> Pending
         /\ \A g \in G : r[g] \in Nat
<1>1. /\ RWTypeOK /\ readers \subseteq G /\ r \in [G -> Nat] /\ Locals /\ Counts
      /\ sema[readerSem] \in Nat /\ sema[writerSem] \in Nat
      /\ readerCount \in Int /\ readerWait \in Int /\ MaxReaders \in Nat
  BY SemsDistinct, MaxReadersEnough DEF RWInv, RWTypeOK, SemaTypeOK
<1>2. Rd \in Nat /\ Ar \in Nat /\ Un \in Nat /\ Dp \in Nat
  BY <1>1, SetsFinite
<1>3. RIn("count") \in Nat /\ RIn("release") \in Nat /\ Units \in Nat
  BY <1>1, RInNat DEF Units
<1>4. Rd + Ar + Un < MaxReaders
  BY <1>1, FewReaders
<1>5. readerCount < 0 <=> Pending
  BY <1>1, <1>2, <1>4 DEF Counts
<1> QED BY <1>1, <1>2, <1>3, <1>4, <1>5

\* readerCount stays in its range.
LEMMA CountTypes ==
  ASSUME Locals', Counts', (readers \subseteq G)', SemaTypeOK', w' \subseteq G,
         readerWait' \in Int, pc' \in [G -> Phases], r' \in [G -> Nat], writers' \subseteq G
  PROVE  RWTypeOK'
<1>1. readerCount' \in -MaxReaders .. MaxReaders
  BY SetsFinitePrime, FewReadersPrime, MaxReadersEnough DEF Counts
<1> QED BY <1>1 DEF RWTypeOK

LEMMA TokenStays ==
  ASSUME OneToken, sema' = sema, \A h \in G : Carrier(h)' <=> Carrier(h),
         \A h \in G : pc[h] \in {"wacquire", "wasleep"} => pc'[h] \in {"wacquire", "wasleep"}
  PROVE  OneToken' /\ (Token' <=> Token)
BY DEF OneToken, Token

\* A writer stays announced, or not.
LEMMA AnnouncedStays ==
  ASSUME NEW g \in G, \A h \in G \ {g} : pc'[h] = pc[h],
         pc[g] \in WPhases <=> pc'[g] \in WPhases
  PROVE  Announced' <=> Announced
BY DEF Announced

\* Nobody comes into Lock or Unlock, or leaves.
LEMMA HolderStays ==
  ASSUME RWTypeOK, OneHolder, NEW g \in G, \A h \in G \ {g} : pc'[h] = pc[h],
         pc[g] \in GuardPhases <=> pc'[g] \in GuardPhases, writers' = writers, w' = w
  PROVE  OneHolder'
<1>1. \A h \in G : Hold(h)' <=> Hold(h)
  BY DEF Hold
<1> QED BY <1>1 DEF OneHolder, RWTypeOK

LEMMA RLockRW ==
  ASSUME RWInv, NEW g \in G, RLock(g)
  PROVE  RWInv'
<1>0. /\ RWTypeOK /\ OneHolder /\ OneToken /\ Locals /\ Counts /\ pc \in [G -> Phases]
      /\ pc[g] = "idle" /\ spc[g] = "idle" /\ g \notin readers /\ g \notin writers
      /\ UNCHANGED svars /\ w' = w /\ readerWait' = readerWait /\ r' = r /\ writers' = writers
      /\ readerCount' = readerCount + 1
  BY DEF RWInv, RWTypeOK, RLock, Idle
<1>1. PICK ph \in {"idle", "racquire"} :
        /\ pc' = [pc EXCEPT ![g] = ph]
        /\ ph = "racquire" => readerCount + 1 < 0 /\ readers' = readers
        /\ ph = "idle" => ~(readerCount + 1 < 0) /\ readers' = readers \cup {g}
  BY <1>0 DEF RLock, Jump
<1>2. ph \in Phases \ {"rasleep", "wasleep"}
  BY DEF Phases, RPhases
<1>3. /\ SemaInv' /\ SemaTypeOK' /\ CallsMatch' /\ sema' = sema
      /\ pc'[g] = ph /\ pc' \in [G -> Phases] /\ \A h \in G \ {g} : pc'[h] = pc[h]
      /\ Ar' = Ar - One(pc[g] = "rasleep")
      /\ Un' = Un - One(pc[g] = "racquire") + One(ph = "racquire")
      /\ Dp' = Dp - One(pc[g] = "depart") + One(ph = "depart")
      /\ \A h \in G : Carrier(h)' <=> Carrier(h)
  BY <1>0, <1>1, <1>2, Quiet
<1>4. OneHolder'
  BY <1>0, <1>3, HolderStays DEF GuardPhases, WPhases
<1>5. Locals'
  BY <1>0, <1>1, <1>3 DEF Locals, RPhases
<1>6. OneToken' /\ (Token' <=> Token)
  BY <1>0, <1>3, TokenStays
<1>7. RIn("count")' = RIn("count") /\ RIn("release")' = RIn("release")
  BY <1>0, <1>3, <1>4, RInMoves
<1>8. (Announced' <=> Announced) /\ (Pending' <=> Pending) /\ Units' = Units
  <2>1. Announced' <=> Announced
    BY <1>0, <1>3, AnnouncedStays DEF WPhases
  <2> QED BY <1>0, <1>3, <1>7, <2>1 DEF Pending, Units
<1>9. readers \subseteq G /\ (readers \subseteq G)' /\ IsFiniteSet(readers)
  BY <1>0, <1>1, SetsFinite DEF RWTypeOK
<1>10. Ar' = Ar /\ Un' = Un + One(ph = "racquire") /\ Dp' = Dp /\ Rd' = Rd + One(ph = "idle")
  <2>1. Rd' = Rd + One(ph = "idle")
    BY <1>0, <1>1, <1>9, OneMore, Numbers DEF Rd, One
  <2> QED BY <1>0, <1>1, <1>3, <2>1, Numbers DEF One
<1>11. ph = "idle" => ~Pending
  <2>1. Rd' + Ar' + Un' < MaxReaders
    BY <1>5, <1>9, FewReadersPrime
  <2> QED BY <1>0, <1>1, <1>10, <2>1, Numbers DEF Counts, One
<1>12. ph = "racquire" => Pending
  BY <1>1, Numbers
<1>13. Counts'
  <2>1. CASE ph = "idle"
    <3>1. ~Announced /\ writers = {}
      BY <1>11, <2>1 DEF Pending
    <3>2. Ar' = Ar /\ Un' = Un /\ Dp' = Dp /\ Rd' = Rd + 1
      BY <1>10, <2>1, Numbers DEF One
    <3> QED BY <1>0, <1>6, <1>7, <1>8, <1>11, <2>1, <3>1, <3>2, Numbers DEF Counts
  <2>2. CASE ph = "racquire"
    <3>1. Ar' = Ar /\ Un' = Un + 1 /\ Dp' = Dp /\ Rd' = Rd
      BY <1>10, <2>2, Numbers DEF One
    <3>2. /\ readerCount = Rd + Ar + Un - MaxReaders
          /\ Units <= Un
          /\ Announced => readerWait + RIn("count") = Rd + Ar + Units + Dp
          /\ ~Announced => readerWait = 0 /\ Dp = 0
          /\ writers # {} => Rd = 0 /\ Ar = 0 /\ Units = 0
          /\ Token => readerWait = 0
      BY <1>0, <1>12, <2>2 DEF Counts
    <3>3. readerCount' = Rd' + Ar' + Un' - MaxReaders /\ Units' <= Un' /\ Pending'
      BY <1>0, <1>8, <1>12, <2>2, <3>1, <3>2, Numbers
    <3> QED BY <1>0, <1>6, <1>7, <1>8, <3>1, <3>2, <3>3 DEF Counts
  <2> QED BY <2>1, <2>2
<1>14. RWTypeOK'
  BY <1>0, <1>3, <1>5, <1>9, <1>13, CountTypes DEF RWTypeOK
<1> QED BY <1>3, <1>4, <1>5, <1>6, <1>13, <1>14 DEF RWInv

LEMMA RLockReturnRW ==
  ASSUME RWInv, NEW g \in G, RLockReturn(g)
  PROVE  RWInv'
<1>0. /\ RWTypeOK /\ OneHolder /\ OneToken /\ Locals /\ Counts /\ pc \in [G -> Phases]
      /\ pc[g] = "rasleep" /\ spc[g] = "idle" /\ g \notin readers
      /\ UNCHANGED svars /\ w' = w /\ readerWait' = readerWait /\ r' = r /\ writers' = writers
      /\ readerCount' = readerCount /\ readers' = readers \cup {g}
      /\ pc' = [pc EXCEPT ![g] = "idle"]
  BY DEF RWInv, RWTypeOK, RLockReturn, Jump, Locals, RPhases
<1>1. "idle" \in Phases \ {"rasleep", "wasleep"}
  BY DEF Phases
<1>2. /\ SemaInv' /\ SemaTypeOK' /\ CallsMatch' /\ sema' = sema
      /\ pc'[g] = "idle" /\ pc' \in [G -> Phases] /\ \A h \in G \ {g} : pc'[h] = pc[h]
      /\ Ar' = Ar - 1 /\ Un' = Un /\ Dp' = Dp
      /\ \A h \in G : Carrier(h)' <=> Carrier(h)
  <2>1. /\ SemaInv' /\ SemaTypeOK' /\ CallsMatch' /\ sema' = sema
        /\ pc'[g] = "idle" /\ pc' \in [G -> Phases] /\ \A h \in G \ {g} : pc'[h] = pc[h]
        /\ Ar' = Ar - One(pc[g] = "rasleep")
        /\ Un' = Un - One(pc[g] = "racquire") + One("idle" = "racquire")
        /\ Dp' = Dp - One(pc[g] = "depart") + One("idle" = "depart")
        /\ \A h \in G : Carrier(h)' <=> Carrier(h)
    BY <1>0, <1>1, Quiet
  <2> QED BY <1>0, <2>1, Numbers DEF One
<1>3. OneHolder'
  BY <1>0, <1>2, HolderStays DEF GuardPhases, WPhases
<1>4. Locals'
  BY <1>0, <1>2 DEF Locals, RPhases
<1>5. OneToken' /\ (Token' <=> Token)
  BY <1>0, <1>2, TokenStays
<1>6. RIn("count")' = RIn("count") /\ RIn("release")' = RIn("release")
  BY <1>0, <1>2, <1>3, RInMoves
<1>7. (Announced' <=> Announced) /\ (Pending' <=> Pending) /\ Units' = Units
  <2>1. Announced' <=> Announced
    BY <1>0, <1>2, AnnouncedStays DEF WPhases
  <2> QED BY <1>0, <1>2, <1>6, <2>1 DEF Pending, Units
<1>8. readers \subseteq G /\ (readers \subseteq G)' /\ IsFiniteSet(readers)
  BY <1>0, SetsFinite DEF RWTypeOK
<1>9. Rd' = Rd + 1
  BY <1>0, <1>8, OneMore DEF Rd
<1>10. Ar > 0 /\ writers = {}
  <2>1. Ar' \in Nat
    BY <1>8, SetsFinitePrime
  <2>2. Ar > 0
    BY <1>2, <2>1, Numbers
  <2> QED BY <1>0, <2>2 DEF Counts
<1>11. Counts'
  BY <1>0, <1>2, <1>5, <1>6, <1>7, <1>9, <1>10, Numbers DEF Counts
<1>12. RWTypeOK'
  BY <1>0, <1>2, <1>4, <1>8, <1>11, CountTypes DEF RWTypeOK
<1> QED BY <1>2, <1>3, <1>4, <1>5, <1>11, <1>12 DEF RWInv

LEMMA RUnlockRW ==
  ASSUME RWInv, NEW g \in G, RUnlock(g)
  PROVE  RWInv'
<1>0. /\ RWTypeOK /\ OneHolder /\ OneToken /\ Locals /\ Counts /\ pc \in [G -> Phases]
      /\ pc[g] = "idle" /\ spc[g] = "idle"
      /\ UNCHANGED svars /\ w' = w /\ readerWait' = readerWait /\ r' = r /\ writers' = writers
      /\ readerCount' = readerCount - 1
  BY DEF RWInv, RWTypeOK, RUnlock, Idle
<1> PICK x \in readers : readers' = readers \ {x}
  BY DEF RUnlock
<1>1. PICK ph \in {"idle", "depart"} :
        /\ pc' = [pc EXCEPT ![g] = ph]
        /\ ph = "depart" <=> readerCount - 1 < 0
  BY <1>0 DEF RUnlock, Jump
<1>2. ph \in Phases \ {"rasleep", "wasleep"}
  BY DEF Phases
<1>3. /\ SemaInv' /\ SemaTypeOK' /\ CallsMatch' /\ sema' = sema
      /\ pc'[g] = ph /\ pc' \in [G -> Phases] /\ \A h \in G \ {g} : pc'[h] = pc[h]
      /\ Ar' = Ar - One(pc[g] = "rasleep")
      /\ Un' = Un - One(pc[g] = "racquire") + One(ph = "racquire")
      /\ Dp' = Dp - One(pc[g] = "depart") + One(ph = "depart")
      /\ \A h \in G : Carrier(h)' <=> Carrier(h)
  BY <1>0, <1>1, <1>2, Quiet
<1>4. OneHolder'
  BY <1>0, <1>3, HolderStays DEF GuardPhases, WPhases
<1>5. Locals'
  BY <1>0, <1>3 DEF Locals, RPhases, RWTypeOK
<1>6. OneToken' /\ (Token' <=> Token)
  BY <1>0, <1>3, TokenStays
<1>7. RIn("count")' = RIn("count") /\ RIn("release")' = RIn("release")
  BY <1>0, <1>3, <1>4, RInMoves
<1>8. (Announced' <=> Announced) /\ (Pending' <=> Pending) /\ Units' = Units
  <2>1. Announced' <=> Announced
    BY <1>0, <1>3, AnnouncedStays DEF WPhases
  <2> QED BY <1>0, <1>3, <1>7, <2>1 DEF Pending, Units
<1>9. readers \subseteq G /\ (readers \subseteq G)' /\ IsFiniteSet(readers)
  BY <1>0, SetsFinite DEF RWTypeOK
<1>10. Rd' = Rd - 1 /\ Rd' \in Nat
  BY <1>9, OneLess, SetsFinitePrime DEF Rd
<1>11. Rd > 0 /\ writers = {} /\ (Pending <=> Announced)
  <2>1. Rd > 0
    BY <1>10, Numbers
  <2> QED BY <1>0, <2>1 DEF Counts, Pending
<1>12. ph = "depart" <=> Pending
  BY <1>0, <1>1, <1>11, Numbers DEF Counts
<1>13. Counts'
  <2>1. CASE ph = "idle"
    <3>1. Ar' = Ar /\ Un' = Un /\ Dp' = Dp
      BY <1>0, <1>3, <2>1, Numbers DEF One
    <3> QED BY <1>0, <1>6, <1>7, <1>8, <1>10, <1>11, <1>12, <2>1, <3>1, Numbers DEF Counts
  <2>2. CASE ph = "depart"
    <3>1. Ar' = Ar /\ Un' = Un /\ Dp' = Dp + 1
      BY <1>0, <1>3, <2>2, Numbers DEF One
    <3> QED BY <1>0, <1>6, <1>7, <1>8, <1>10, <1>11, <1>12, <2>2, <3>1, Numbers DEF Counts
  <2> QED BY <2>1, <2>2
<1>14. RWTypeOK'
  BY <1>0, <1>3, <1>5, <1>9, <1>13, CountTypes DEF RWTypeOK
<1> QED BY <1>3, <1>4, <1>5, <1>6, <1>13, <1>14 DEF RWInv

\* No reader inside, none on its way in or out.
LEMMA NobodyCounted ==
  ASSUME RWInv, Rd + Ar + Units + Dp = 0
  PROVE  Rd = 0 /\ Ar = 0 /\ Units = 0 /\ Dp = 0
<1>1. Rd \in Nat /\ Ar \in Nat /\ Units \in Nat /\ Dp \in Nat
  BY Numbers
<1> QED BY <1>1

\* While the token is about, no writer is between announcing itself and counting.
LEMMA TokenLate ==
  ASSUME RWInv, Token
  PROVE  /\ RIn("count") = 0 /\ Announced /\ readerWait = 0
         /\ \A k \in G : pc[k] # "count"
         /\ Rd = 0 /\ Ar = 0 /\ Units = 0 /\ Dp = 0
<1>1. PICK h \in G : pc[h] \in {"wacquire", "wasleep"}
  BY DEF RWInv, OneToken
<1>2. \A k \in G : pc[k] # "count"
  BY <1>1 DEF RWInv, OneHolder, Hold, GuardPhases, WPhases
<1>3. RIn("count") = 0
  BY <1>2 DEF RIn
<1>4. Announced
  BY <1>1 DEF Announced, WPhases
<1>5. readerWait = 0 /\ readerWait + RIn("count") = Rd + Ar + Units + Dp
  BY <1>4 DEF RWInv, Counts
<1>6. Rd + Ar + Units + Dp = 0
  BY <1>3, <1>5
<1> QED BY <1>2, <1>3, <1>4, <1>5, <1>6, NobodyCounted

LEMMA DepartRW ==
  ASSUME RWInv, NEW g \in G, Depart(g)
  PROVE  RWInv'
<1>0. /\ RWTypeOK /\ SemaInv /\ CallsMatch /\ OneHolder /\ OneToken /\ Locals /\ Counts
      /\ pc \in [G -> Phases] /\ pc[g] = "depart"
      /\ UNCHANGED svars /\ w' = w /\ r' = r /\ writers' = writers /\ readers' = readers
      /\ readerCount' = readerCount /\ readerWait' = readerWait - 1 /\ readerWait \in Int
  BY DEF RWInv, RWTypeOK, Depart
<1>1. spc[g] = "idle"
  BY <1>0 DEF CallsMatch, RWTypeOK, SemaTypeOK
<1>2. PICK ph \in {"idle", "wake"} :
        pc' = [pc EXCEPT ![g] = ph] /\ (ph = "wake" <=> readerWait - 1 = 0)
  BY <1>0 DEF Depart, Jump
<1>3. ph \in Phases \ {"rasleep", "wasleep"}
  BY DEF Phases
<1>4. /\ SemaInv' /\ SemaTypeOK' /\ CallsMatch' /\ sema' = sema
      /\ pc'[g] = ph /\ pc' \in [G -> Phases] /\ \A h \in G \ {g} : pc'[h] = pc[h]
      /\ Ar' = Ar - One(pc[g] = "rasleep")
      /\ Un' = Un - One(pc[g] = "racquire") + One(ph = "racquire")
      /\ Dp' = Dp - One(pc[g] = "depart") + One(ph = "depart")
      /\ \A h \in G \ {g} : Carrier(h)' <=> Carrier(h)
      /\ Carrier(g)' <=> ph = "wake"
  BY <1>0, <1>1, <1>2, <1>3, Quiet
<1>5. Ar' = Ar /\ Un' = Un /\ Dp' = Dp - 1 /\ Rd' = Rd /\ Dp' \in Nat /\ Dp > 0
  <2>1. Ar' = Ar /\ Un' = Un /\ Dp' = Dp - 1 /\ Rd' = Rd
    BY <1>0, <1>2, <1>4, Numbers DEF One, Rd
  <2> QED BY <1>0, <2>1, SetsFinitePrime, Numbers DEF RWTypeOK
<1>6. Announced /\ ~Token
  BY <1>0, <1>5, TokenLate, Numbers DEF Counts
<1>7. OneHolder'
  BY <1>0, <1>4, HolderStays DEF GuardPhases, WPhases
<1>8. Locals'
  BY <1>0, <1>4 DEF Locals, RPhases, RWTypeOK
<1>9. RIn("count")' = RIn("count") /\ RIn("release")' = RIn("release")
  BY <1>0, <1>4, <1>7, RInMoves
<1>10. (Announced' <=> Announced) /\ (Pending' <=> Pending) /\ Units' = Units
  <2>1. Announced' <=> Announced
    BY <1>0, <1>4, AnnouncedStays DEF WPhases
  <2> QED BY <1>0, <1>4, <1>9, <2>1 DEF Pending, Units
<1>11. OneToken' /\ (Token' => readerWait' = 0)
  <2>1. sema[writerSem] = 0 /\ \A h \in G : ~Carrier(h)
    BY <1>0, <1>6 DEF Token, OneToken
  <2>2. CASE ph = "wake"
    <3>1. readerWait = 1 /\ readerWait' = 0
      BY <1>0, <1>2, <2>2
    <3>2. \A h \in G : pc[h] # "count"
      BY <1>0, <3>1 DEF Locals
    <3>3. \E h \in G : pc[h] \in {"wacquire", "wasleep"} /\ h # g
      BY <1>0, <1>6, <3>2 DEF Announced, WPhases
    <3> QED BY <1>4, <2>1, <3>1, <3>3 DEF OneToken
  <2>3. CASE ph = "idle"
    <3>1. \A h \in G : ~Carrier(h)'
      BY <1>4, <2>1, <2>3
    <3> QED BY <1>4, <2>1, <3>1 DEF OneToken, Token
  <2> QED BY <2>2, <2>3
<1>12. Counts'
  BY <1>0, <1>5, <1>6, <1>9, <1>10, <1>11, Numbers DEF Counts
<1>13. RWTypeOK'
  BY <1>0, <1>4, <1>8, <1>12, CountTypes DEF RWTypeOK
<1> QED BY <1>4, <1>7, <1>8, <1>11, <1>12, <1>13 DEF RWInv

\* A step of Lock or Unlock that is about no reader.
LEMMA NoReaders ==
  ASSUME RWInv, NEW g \in G, spc[g] = "idle", UNCHANGED svars,
         NEW ph \in Phases \ {"rasleep", "wasleep", "racquire", "depart", "wake"},
         pc[g] \notin {"rasleep", "racquire", "depart", "wake"},
         pc' = [pc EXCEPT ![g] = ph], readers' = readers
  PROVE  /\ SemaInv' /\ SemaTypeOK' /\ CallsMatch' /\ sema' = sema
         /\ pc'[g] = ph /\ pc' \in [G -> Phases] /\ \A h \in G \ {g} : pc'[h] = pc[h]
         /\ Ar' = Ar /\ Un' = Un /\ Dp' = Dp /\ Rd' = Rd
         /\ \A h \in G \ {g} : Carrier(h)' <=> Carrier(h)
         /\ ~Carrier(g)'
         /\ Carrier(g) <=> pc[g] = "wasleep"
<1>1. /\ SemaInv' /\ SemaTypeOK' /\ CallsMatch' /\ sema' = sema
      /\ pc'[g] = ph /\ pc' \in [G -> Phases] /\ \A h \in G \ {g} : pc'[h] = pc[h]
      /\ Ar' = Ar - One(pc[g] = "rasleep")
      /\ Un' = Un - One(pc[g] = "racquire") + One(ph = "racquire")
      /\ Dp' = Dp - One(pc[g] = "depart") + One(ph = "depart")
      /\ \A h \in G \ {g} : Carrier(h)' <=> Carrier(h)
      /\ Carrier(g)' <=> ph = "wake"
      /\ Carrier(g) <=> pc[g] \in {"wake", "wasleep"}
  BY Quiet
<1>2. Ar' = Ar /\ Un' = Un /\ Dp' = Dp /\ Rd' = Rd
  BY <1>1, Numbers DEF One, Rd
<1> QED BY <1>1, <1>2

\* In the middle of Lock or Unlock, outside the semaphores.
LEMMA InNoCall ==
  ASSUME RWInv, NEW g \in G, pc[g] \in {"wlock", "announce", "count", "wacquire", "racquire"}
  PROVE  spc[g] = "idle"
BY DEF RWInv, RWTypeOK, SemaTypeOK, CallsMatch, AcquirePhase, ReleasePhase

LEMMA LockRW ==
  ASSUME RWInv, NEW g \in G, Lock(g) \/ LockW(g)
  PROVE  RWInv'
<1>0. /\ RWTypeOK /\ OneHolder /\ OneToken /\ Locals /\ Counts /\ pc \in [G -> Phases]
      /\ pc[g] \in {"idle", "wlock"} /\ spc[g] = "idle"
      /\ UNCHANGED svars /\ readerWait' = readerWait /\ r' = r /\ writers' = writers
      /\ readerCount' = readerCount /\ readers' = readers
  BY InNoCall DEF RWInv, RWTypeOK, Lock, LockW, Idle
<1>1. PICK ph \in {"wlock", "announce"} :
        /\ pc' = [pc EXCEPT ![g] = ph]
        /\ ph = "wlock" => w' = w
        /\ ph = "announce" => w = {} /\ w' = {g}
  BY <1>0 DEF Lock, LockW, Jump
<1>2. ph \in Phases \ {"rasleep", "wasleep", "racquire", "depart", "wake"}
  BY DEF Phases
<1>3. /\ SemaInv' /\ SemaTypeOK' /\ CallsMatch' /\ sema' = sema
      /\ pc'[g] = ph /\ pc' \in [G -> Phases] /\ \A h \in G \ {g} : pc'[h] = pc[h]
      /\ Ar' = Ar /\ Un' = Un /\ Dp' = Dp /\ Rd' = Rd
      /\ \A h \in G : Carrier(h)' <=> Carrier(h)
  BY <1>0, <1>1, <1>2, NoReaders
<1>4. OneHolder'
  <2>1. CASE ph = "wlock"
    BY <1>0, <1>1, <1>3, <2>1, HolderStays DEF GuardPhases, WPhases
  <2>2. CASE ph = "announce"
    <3>1. \A h \in G : ~Hold(h)
      BY <1>0, <1>1, <2>2 DEF OneHolder
    <3>2. writers = {} /\ \A h \in G \ {g} : ~Hold(h)'
      BY <1>0, <1>3, <3>1 DEF Hold, RWTypeOK
    <3> QED BY <1>0, <1>1, <1>3, <2>2, <3>2 DEF OneHolder
  <2> QED BY <2>1, <2>2
<1>5. Locals'
  BY <1>0, <1>3 DEF Locals, RPhases, RWTypeOK
<1>6. OneToken' /\ (Token' <=> Token)
  BY <1>0, <1>3, TokenStays
<1>7. RIn("count")' = RIn("count") /\ RIn("release")' = RIn("release")
  BY <1>0, <1>3, <1>4, RInMoves
<1>8. (Announced' <=> Announced) /\ (Pending' <=> Pending) /\ Units' = Units
  <2>1. Announced' <=> Announced
    BY <1>0, <1>3, AnnouncedStays DEF WPhases
  <2> QED BY <1>0, <1>3, <1>7, <2>1 DEF Pending, Units
<1>9. Counts'
  BY <1>0, <1>3, <1>6, <1>7, <1>8 DEF Counts
<1>10. RWTypeOK'
  BY <1>0, <1>1, <1>3 DEF RWTypeOK
<1> QED BY <1>3, <1>4, <1>5, <1>6, <1>9, <1>10 DEF RWInv

\* Of the goroutines in Lock or Unlock, g is the only one that field w let in.
LEMMA Alone ==
  ASSUME RWInv, NEW g \in G, pc[g] \in GuardPhases
  PROVE  /\ writers = {} /\ w # {}
         /\ \A h \in G \ {g} : pc[h] \notin GuardPhases
         /\ pc[g] \in WPhases <=> Announced
BY DEF RWInv, OneHolder, Hold, RWTypeOK, Announced, GuardPhases

LEMMA LockAnnounceRW ==
  ASSUME RWInv, NEW g \in G, LockAnnounce(g)
  PROVE  RWInv'
<1>0. /\ RWTypeOK /\ OneHolder /\ OneToken /\ Locals /\ Counts /\ pc \in [G -> Phases]
      /\ pc[g] = "announce" /\ spc[g] = "idle" /\ r \in [G -> Nat]
      /\ UNCHANGED svars /\ w' = w /\ readerWait' = readerWait
      /\ readerCount' = readerCount - MaxReaders /\ readers' = readers
  BY InNoCall DEF RWInv, RWTypeOK, LockAnnounce
<1>1. /\ writers = {} /\ w # {} /\ \A h \in G \ {g} : pc[h] \notin GuardPhases
      /\ ~Announced /\ ~Pending
  BY <1>0, Alone DEF GuardPhases, WPhases, Pending
<1>2. /\ readerWait = 0 /\ Dp = 0 /\ Units = Un /\ readerCount = Rd + Ar + Un /\ ~Token
  BY <1>0, <1>1, TokenLate, Numbers DEF Counts
<1>3. PICK ph \in {"idle", "count"} :
        /\ pc' = [pc EXCEPT ![g] = ph]
        /\ ph = "idle" => readerCount = 0 /\ writers' = writers \cup {g} /\ r' = r
        /\ ph = "count" => r' = [r EXCEPT ![g] = readerCount] /\ writers' = writers
  BY <1>0 DEF LockAnnounce, Enter, Jump
<1>4. ph \in Phases \ {"rasleep", "wasleep", "racquire", "depart", "wake"}
  BY DEF Phases, WPhases
<1>5. /\ SemaInv' /\ SemaTypeOK' /\ CallsMatch' /\ sema' = sema
      /\ pc'[g] = ph /\ pc' \in [G -> Phases] /\ \A h \in G \ {g} : pc'[h] = pc[h]
      /\ Ar' = Ar /\ Un' = Un /\ Dp' = Dp /\ Rd' = Rd
      /\ \A h \in G : Carrier(h)' <=> Carrier(h)
  BY <1>0, <1>3, <1>4, NoReaders
<1>6. /\ r' \in [G -> Nat] /\ \A h \in G \ {g} : r'[h] = r[h]
      /\ ph = "count" => r'[g] = readerCount
      /\ writers' \subseteq G
  <2>1. readerCount \in Nat
    BY <1>2, Numbers
  <2> QED BY <1>0, <1>1, <1>3, <2>1 DEF RWTypeOK
<1>7. OneHolder'
  <2>1. \A h \in G \ {g} : ~Hold(h)'
    BY <1>1, <1>3, <1>5 DEF Hold
  <2> QED BY <1>0, <1>1, <1>3, <1>5, <2>1 DEF OneHolder, GuardPhases, WPhases
<1>8. Locals'
  BY <1>0, <1>2, <1>5, <1>6 DEF Locals, RPhases, RWTypeOK
<1>9. OneToken' /\ ~Token'
  BY <1>0, <1>2, <1>5 DEF OneToken, Token
<1>10. /\ RIn("release")' = RIn("release")
       /\ ph = "count" => RIn("count")' = readerCount
  BY <1>0, <1>5, <1>6, <1>7, RInMoves
<1>11. Units' = Units /\ (Announced' <=> ph = "count") /\ Pending'
  <2>1. Announced' <=> ph = "count"
    BY <1>1, <1>5 DEF Announced, GuardPhases, WPhases
  <2> QED BY <1>3, <1>5, <1>10, <2>1 DEF Units, Pending
<1>12. Counts'
  <2>1. CASE ph = "idle"
    <3>1. Rd = 0 /\ Ar = 0 /\ Un = 0
      BY <1>2, <1>3, <2>1, Numbers
    <3> QED BY <1>0, <1>2, <1>5, <1>9, <1>11, <2>1, <3>1, Numbers DEF Counts
  <2>2. CASE ph = "count"
    <3>1. writers' = {} /\ RIn("count")' = readerCount
      BY <1>1, <1>3, <1>10, <2>2
    <3> QED BY <1>0, <1>2, <1>5, <1>9, <1>11, <2>2, <3>1, Numbers DEF Counts
  <2> QED BY <2>1, <2>2
<1>13. RWTypeOK'
  BY <1>0, <1>5, <1>6, <1>8, <1>12, CountTypes DEF RWTypeOK
<1> QED BY <1>5, <1>7, <1>8, <1>9, <1>12, <1>13 DEF RWInv

LEMMA LockCountRW ==
  ASSUME RWInv, NEW g \in G, LockCount(g)
  PROVE  RWInv'
<1>0. /\ RWTypeOK /\ OneHolder /\ OneToken /\ Locals /\ Counts /\ pc \in [G -> Phases]
      /\ pc[g] = "count" /\ spc[g] = "idle" /\ r \in [G -> Nat]
      /\ UNCHANGED svars /\ w' = w /\ readerWait' = readerWait + r[g]
      /\ readerCount' = readerCount /\ readers' = readers /\ r' = [r EXCEPT ![g] = 0]
  BY InNoCall DEF RWInv, RWTypeOK, LockCount
<1>1. /\ writers = {} /\ w # {} /\ \A h \in G \ {g} : pc[h] \notin GuardPhases
      /\ Announced /\ Pending
  BY <1>0, Alone DEF GuardPhases, WPhases, Pending
<1>2. PICK ph \in {"idle", "wacquire"} :
        /\ pc' = [pc EXCEPT ![g] = ph]
        /\ ph = "idle" => readerWait + r[g] = 0 /\ writers' = writers \cup {g}
        /\ ph = "wacquire" => writers' = writers
  BY <1>0 DEF LockCount, Enter, Jump
<1>3. ph \in Phases \ {"rasleep", "wasleep", "racquire", "depart", "wake"}
  BY DEF Phases, WPhases
<1>4. /\ SemaInv' /\ SemaTypeOK' /\ CallsMatch' /\ sema' = sema
      /\ pc'[g] = ph /\ pc' \in [G -> Phases] /\ \A h \in G \ {g} : pc'[h] = pc[h]
      /\ Ar' = Ar /\ Un' = Un /\ Dp' = Dp /\ Rd' = Rd
      /\ \A h \in G : Carrier(h)' <=> Carrier(h)
  BY <1>0, <1>2, <1>3, NoReaders
<1>5. /\ r' \in [G -> Nat] /\ \A h \in G \ {g} : r'[h] = r[h]
      /\ r'[g] = 0 /\ r[g] \in Nat /\ writers' \subseteq G
  BY <1>0, <1>1, <1>2
<1>6. OneHolder'
  <2>1. \A h \in G \ {g} : ~Hold(h)'
    BY <1>1, <1>2, <1>4 DEF Hold
  <2> QED BY <1>0, <1>1, <1>2, <1>4, <2>1 DEF OneHolder, GuardPhases, WPhases
<1>7. Locals'
  <2>1. \A h \in G : pc'[h] # "count"
    BY <1>1, <1>4 DEF GuardPhases, WPhases
  <2> QED BY <1>0, <1>4, <1>5, <2>1 DEF Locals, RPhases, RWTypeOK
<1>8. ~Token
  <2>1. \A h \in G : pc[h] \notin {"wacquire", "wasleep"}
    BY <1>0, <1>1 DEF GuardPhases, WPhases
  <2> QED BY <1>0, <2>1 DEF OneToken
<1>9. OneToken' /\ ~Token'
  BY <1>0, <1>4, <1>8 DEF OneToken, Token
<1>10. /\ RIn("release")' = RIn("release") /\ RIn("count") = r[g] /\ RIn("count")' = 0
  BY <1>0, <1>4, <1>5, <1>6, RInMoves
<1>11. Units' = Units /\ (Announced' <=> ph = "wacquire") /\ Pending'
  <2>1. Announced' <=> ph = "wacquire"
    BY <1>1, <1>4 DEF Announced, GuardPhases, WPhases
  <2> QED BY <1>2, <1>4, <1>10, <2>1 DEF Units, Pending
<1>12. readerWait + r[g] = Rd + Ar + Units + Dp
  BY <1>0, <1>1, <1>10 DEF Counts
<1>13. Counts'
  <2>1. CASE ph = "idle"
    <3>1. Rd + Ar + Units + Dp = 0 /\ readerWait' = 0
      BY <1>0, <1>2, <1>12, <2>1
    <3>2. Rd = 0 /\ Ar = 0 /\ Units = 0 /\ Dp = 0
      BY <3>1, NobodyCounted
    <3> QED BY <1>0, <1>1, <1>4, <1>9, <1>11, <2>1, <3>1, <3>2, Numbers DEF Counts
  <2>2. CASE ph = "wacquire"
    <3>1. writers' = {}
      BY <1>1, <1>2, <2>2
    <3>2. readerWait' + RIn("count")' = Rd' + Ar' + Units' + Dp'
      BY <1>0, <1>4, <1>5, <1>10, <1>11, <1>12, Numbers
    <3> QED BY <1>0, <1>1, <1>4, <1>9, <1>11, <2>2, <3>1, <3>2, Numbers DEF Counts
  <2> QED BY <2>1, <2>2
<1>14. readerWait' \in Int
  BY <1>0, <1>5, Numbers
<1>15. RWTypeOK'
  BY <1>0, <1>4, <1>5, <1>7, <1>13, <1>14, CountTypes DEF RWTypeOK
<1> QED BY <1>4, <1>6, <1>7, <1>9, <1>13, <1>15 DEF RWInv

LEMMA LockReturnRW ==
  ASSUME RWInv, NEW g \in G, LockReturn(g)
  PROVE  RWInv'
<1>0. /\ RWTypeOK /\ OneHolder /\ OneToken /\ Locals /\ Counts /\ pc \in [G -> Phases]
      /\ pc[g] = "wasleep" /\ spc[g] = "idle"
      /\ UNCHANGED svars /\ w' = w /\ readerWait' = readerWait /\ r' = r
      /\ readerCount' = readerCount /\ readers' = readers
      /\ pc' = [pc EXCEPT ![g] = "idle"] /\ writers' = writers \cup {g}
  BY DEF RWInv, RWTypeOK, LockReturn, Enter, Jump
<1>1. /\ writers = {} /\ w # {} /\ \A h \in G \ {g} : pc[h] \notin GuardPhases
      /\ Announced /\ Pending
  BY <1>0, Alone DEF GuardPhases, WPhases, Pending
<1>2. Carrier(g) /\ Token
  BY <1>0 DEF Carrier, Handed, Token
<1>3. /\ RIn("count") = 0 /\ readerWait = 0
      /\ Rd = 0 /\ Ar = 0 /\ Units = 0 /\ Dp = 0
  BY <1>2, TokenLate
<1>4. "idle" \in Phases \ {"rasleep", "wasleep", "racquire", "depart", "wake"}
  BY DEF Phases
<1>5. /\ SemaInv' /\ SemaTypeOK' /\ CallsMatch' /\ sema' = sema
      /\ pc'[g] = "idle" /\ pc' \in [G -> Phases] /\ \A h \in G \ {g} : pc'[h] = pc[h]
      /\ Ar' = Ar /\ Un' = Un /\ Dp' = Dp /\ Rd' = Rd
      /\ \A h \in G \ {g} : Carrier(h)' <=> Carrier(h)
      /\ ~Carrier(g)'
  BY <1>0, <1>4, NoReaders
<1>6. OneHolder'
  <2>1. \A h \in G \ {g} : ~Hold(h)'
    BY <1>0, <1>1, <1>5 DEF Hold
  <2> QED BY <1>0, <1>1, <1>5, <2>1 DEF OneHolder, GuardPhases, WPhases
<1>7. Locals'
  BY <1>0, <1>3, <1>5 DEF Locals, RPhases, RWTypeOK
<1>8. OneToken' /\ ~Token'
  BY <1>0, <1>2, <1>5 DEF OneToken, Token
<1>9. RIn("release")' = RIn("release")
  BY <1>0, <1>5, <1>6, RInMoves
<1>10. Units' = Units /\ ~Announced' /\ Pending'
  <2>1. ~Announced'
    BY <1>1, <1>5 DEF Announced, GuardPhases, WPhases
  <2> QED BY <1>0, <1>5, <1>9, <2>1 DEF Units, Pending
<1>11. Counts'
  BY <1>0, <1>1, <1>3, <1>5, <1>8, <1>10, Numbers DEF Counts
<1>12. RWTypeOK'
  BY <1>0, <1>5 DEF RWTypeOK
<1> QED BY <1>5, <1>6, <1>7, <1>8, <1>11, <1>12 DEF RWInv

\* The readers that Unlock finds are those asleep behind the writer.
LEMMA UnlockRW ==
  ASSUME RWInv, NEW g \in G, Unlock(g)
  PROVE  RWInv'
<1>0. /\ RWTypeOK /\ OneHolder /\ OneToken /\ Locals /\ Counts /\ pc \in [G -> Phases]
      /\ pc[g] = "idle" /\ spc[g] = "idle" /\ r \in [G -> Nat]
      /\ UNCHANGED svars /\ w' = w /\ readerWait' = readerWait
      /\ readerCount' = readerCount + MaxReaders /\ readers' = readers
      /\ r' = [r EXCEPT ![g] = readerCount + MaxReaders]
  BY DEF RWInv, RWTypeOK, Unlock, Idle
<1> PICK x \in writers : writers' = writers \ {x}
  BY DEF Unlock
<1>1. /\ w # {} /\ writers' = {} /\ \A h \in G : pc[h] \notin GuardPhases
      /\ ~Announced /\ Pending
  <2>1. x \in G /\ Hold(x) /\ pc[x] \notin GuardPhases
    BY <1>0 DEF RWTypeOK, OneHolder, Hold
  <2>2. \A h \in G : Hold(h) => h = x
    BY <1>0, <2>1 DEF OneHolder
  <2> QED BY <1>0, <2>1, <2>2 DEF RWTypeOK, OneHolder, Hold, Announced, GuardPhases, Pending
<1>2. /\ Rd = 0 /\ Ar = 0 /\ Units = 0 /\ Dp = 0 /\ readerWait = 0
      /\ readerCount + MaxReaders = Un /\ ~Token
  BY <1>0, <1>1, TokenLate, Numbers DEF Counts
<1>3. PICK ph \in {"release", "wunlock"} :
        pc' = [pc EXCEPT ![g] = ph] /\ (ph = "release" <=> Un > 0)
  BY <1>0, <1>2 DEF Unlock, Jump
<1>4. ph \in Phases \ {"rasleep", "wasleep", "racquire", "depart", "wake"}
  BY DEF Phases
<1>5. /\ SemaInv' /\ SemaTypeOK' /\ CallsMatch' /\ sema' = sema
      /\ pc'[g] = ph /\ pc' \in [G -> Phases] /\ \A h \in G \ {g} : pc'[h] = pc[h]
      /\ Ar' = Ar /\ Un' = Un /\ Dp' = Dp /\ Rd' = Rd
      /\ \A h \in G : Carrier(h)' <=> Carrier(h)
  BY <1>0, <1>3, <1>4, NoReaders
<1>6. /\ r' \in [G -> Nat] /\ \A h \in G \ {g} : r'[h] = r[h] /\ r'[g] = Un
  BY <1>0, <1>2, Numbers
<1>7. OneHolder'
  <2>1. \A h \in G \ {g} : ~Hold(h)'
    BY <1>1, <1>5 DEF Hold
  <2> QED BY <1>0, <1>1, <2>1 DEF OneHolder
<1>8. Locals'
  <2>1. \A h \in G : pc'[h] = "release" => h = g /\ r'[h] > 0
    BY <1>0, <1>1, <1>2, <1>3, <1>5 DEF GuardPhases
  <2> QED BY <1>0, <1>1, <1>5, <2>1 DEF Locals, RPhases, RWTypeOK, GuardPhases, WPhases
<1>9. OneToken' /\ ~Token'
  BY <1>0, <1>2, <1>5 DEF OneToken, Token
<1>10. ~Announced' /\ ~Pending'
  BY <1>1, <1>5 DEF Announced, Pending, GuardPhases, WPhases
<1>11. Units' = Un
  <2>1. /\ ph = "release" => RIn("release")' = r'[g]
        /\ ph = "wunlock" => RIn("release")' = RIn("release")
    BY <1>0, <1>5, <1>6, <1>7, RInMoves
  <2>2. r'[g] = Un
    BY <1>0, <1>2
  <2>3. sema[readerSem] = 0 /\ RIn("release") = 0
    BY <1>2, Numbers DEF Units
  <2>4. ph = "wunlock" => Un = 0
    BY <1>3, Numbers
  <2> QED BY <1>5, <2>1, <2>2, <2>3, <2>4, Numbers DEF Units
<1>12. Counts'
  BY <1>0, <1>1, <1>2, <1>5, <1>9, <1>10, <1>11, Numbers DEF Counts
<1>13. RWTypeOK'
  BY <1>0, <1>1, <1>5, <1>6, <1>8, <1>12, CountTypes DEF RWTypeOK
<1> QED BY <1>5, <1>7, <1>8, <1>9, <1>12, <1>13 DEF RWInv

LEMMA UnlockWRW ==
  ASSUME RWInv, NEW g \in G, UnlockW(g)
  PROVE  RWInv'
<1>0. /\ RWTypeOK /\ OneHolder /\ OneToken /\ Locals /\ Counts /\ pc \in [G -> Phases]
      /\ pc[g] = "wunlock" /\ spc[g] = "idle"
      /\ UNCHANGED svars /\ w' = {} /\ readerWait' = readerWait /\ r' = r
      /\ readerCount' = readerCount /\ readers' = readers
      /\ pc' = [pc EXCEPT ![g] = "idle"] /\ writers' = writers
  BY DEF RWInv, RWTypeOK, UnlockW, Jump
<1>1. writers = {} /\ \A h \in G \ {g} : pc[h] \notin GuardPhases
  BY <1>0, Alone DEF GuardPhases
<1>2. "idle" \in Phases \ {"rasleep", "wasleep", "racquire", "depart", "wake"}
  BY DEF Phases
<1>3. /\ SemaInv' /\ SemaTypeOK' /\ CallsMatch' /\ sema' = sema
      /\ pc'[g] = "idle" /\ pc' \in [G -> Phases] /\ \A h \in G \ {g} : pc'[h] = pc[h]
      /\ Ar' = Ar /\ Un' = Un /\ Dp' = Dp /\ Rd' = Rd
      /\ \A h \in G : Carrier(h)' <=> Carrier(h)
  BY <1>0, <1>2, NoReaders
<1>4. OneHolder'
  <2>1. \A h \in G : ~Hold(h)'
    BY <1>0, <1>1, <1>3 DEF Hold, GuardPhases, WPhases
  <2> QED BY <1>0, <1>1, <2>1 DEF OneHolder
<1>5. Locals'
  BY <1>0, <1>3 DEF Locals, RPhases, RWTypeOK
<1>6. OneToken' /\ (Token' <=> Token)
  BY <1>0, <1>3, TokenStays
<1>7. RIn("count")' = RIn("count") /\ RIn("release")' = RIn("release")
  BY <1>0, <1>3, <1>4, RInMoves
<1>8. (Announced' <=> Announced) /\ (Pending' <=> Pending) /\ Units' = Units
  <2>1. Announced' <=> Announced
    BY <1>0, <1>3, AnnouncedStays DEF WPhases
  <2> QED BY <1>0, <1>3, <1>7, <2>1 DEF Pending, Units
<1>9. Counts'
  BY <1>0, <1>3, <1>6, <1>7, <1>8 DEF Counts
<1>10. RWTypeOK'
  BY <1>0, <1>3 DEF RWTypeOK
<1> QED BY <1>3, <1>4, <1>5, <1>6, <1>9, <1>10 DEF RWInv

-----------------------------------------------------------------------------
(* Steps that call a semaphore *)

LEMMA RLockSleepRW ==
  ASSUME RWInv, NEW g \in G, RLockSleep(g)
  PROVE  RWInv'
<1>0. /\ RWTypeOK /\ SemaTypeOK /\ SemaInv /\ ParkedOnce /\ CallsMatch /\ OneHolder /\ OneToken
      /\ Locals /\ Counts /\ pc \in [G -> Phases]
      /\ pc[g] = "racquire" /\ Semacquire(g, readerSem, FALSE) /\ readerSem \in Addr
      /\ w' = w /\ readerWait' = readerWait /\ r' = r /\ writers' = writers
      /\ readerCount' = readerCount /\ readers' = readers
      /\ pc' = [pc EXCEPT ![g] = "rasleep"]
  BY SemsDistinct DEF RWInv, RWTypeOK, SemaInv, RLockSleep, Jump
<1>1. /\ \A h \in G \ {g} : spc'[h] = spc[h] /\ sarg'[h] = sarg[h]
      /\ ticket' = ticket
      /\ \/ sema[readerSem] > 0 /\ Down(readerSem) /\ spc'[g] = "idle" /\ ~Wanting(g)'
         \/ sema' = sema /\ spc'[g] = "lock" /\ sarg'[g].addr = readerSem /\ Wanting(g)'
      /\ SemaInv' /\ ParkedOnce' /\ SemaTypeOK'
  BY <1>0, SemacquireView, SemacquireInv DEF SemaInv
<1>2. pc'[g] = "rasleep" /\ pc' \in [G -> Phases] /\ \A h \in G \ {g} : pc'[h] = pc[h]
  BY <1>0 DEF Phases, RPhases
<1>3. CallsMatch'
  BY <1>0, <1>1, <1>2 DEF CallsMatch, AcquirePhase, ReleasePhase
<1>4. RWTypeOK'
  BY <1>0, <1>1, <1>2 DEF RWTypeOK
<1>5. OneHolder'
  BY <1>0, <1>2, HolderStays DEF GuardPhases, WPhases
<1>6. Locals'
  BY <1>0, <1>2 DEF Locals, RPhases, RWTypeOK
<1>7. RIn("count")' = RIn("count") /\ RIn("release")' = RIn("release")
  BY <1>0, <1>2, <1>5, RInMoves
<1>8. (Announced' <=> Announced) /\ (Pending' <=> Pending)
  <2>1. Announced' <=> Announced
    BY <1>0, <1>2, AnnouncedStays DEF WPhases
  <2> QED BY <1>0, <2>1 DEF Pending
<1>9. /\ \A h \in G : Carrier(h)' <=> Carrier(h)
      /\ Rd' = Rd /\ Dp' = Dp
  BY <1>0, <1>1, <1>2 DEF Carrier, Handed, Rd, Dp, Leaving
<1>10. sema'[writerSem] = sema[writerSem]
  BY <1>0, <1>1, SemsDistinct DEF Down, SemaTypeOK
<1>11. OneToken' /\ (Token' <=> Token)
  <2>1. \A h \in G : pc[h] \in {"wacquire", "wasleep"} => pc'[h] \in {"wacquire", "wasleep"}
    BY <1>0, <1>2
  <2> QED BY <1>0, <1>9, <1>10, <2>1 DEF OneToken, Token
<1>12. /\ g \in Behind /\ g \notin Arrived
       /\ Handed(g)' <=> ~Wanting(g)'
       /\ IsFiniteSet(Arrived) /\ IsFiniteSet(Behind)
  BY <1>0, <1>1, <1>2, <1>3, <1>4, AsleepPrime, SetsFinite DEF Behind, Arrived, RWTypeOK
<1>13. \E d \in {0, 1} : /\ Ar' = Ar + d /\ Un' = Un - d /\ Units' = Units - d
                         /\ d = 1 => Units > 0
  <2>1. CASE sema[readerSem] > 0 /\ Down(readerSem) /\ ~Wanting(g)'
    <3>1. Arrived' = Arrived \cup {g}
      BY <1>0, <1>1, <1>2, <1>12, <2>1 DEF Arrived, Handed
    <3>2. Behind' = Behind \ {g}
      BY <1>0, <1>1, <1>2, <1>12, <2>1 DEF Behind, Handed
    <3>3. sema'[readerSem] = sema[readerSem] - 1
      BY <1>0, <2>1, DownOK
    <3>4. Ar' = Ar + 1 /\ Un' = Un - 1
      BY <1>12, <3>1, <3>2, OneMore, OneLess DEF Ar, Un
    <3>5. Units' = Units - 1 /\ Units > 0
      BY <1>7, <2>1, <3>3, Numbers DEF Units
    <3> QED BY <3>4, <3>5
  <2>2. CASE sema' = sema /\ Wanting(g)'
    <3>1. Arrived' = Arrived /\ Behind' = Behind
      BY <1>0, <1>1, <1>2, <1>12, <2>2 DEF Arrived, Behind, Handed
    <3>2. Units' = Units /\ Ar' = Ar /\ Un' = Un
      BY <1>7, <2>2, <3>1 DEF Units, Ar, Un
    <3>3. Units' = Units - 0 /\ Ar' = Ar + 0 /\ Un' = Un - 0
      BY <3>2, Numbers
    <3> QED BY <3>3
  <2> QED BY <1>1, <2>1, <2>2
<1>14. Counts'
  <2> PICK d \in {0, 1} :
        Ar' = Ar + d /\ Un' = Un - d /\ Units' = Units - d /\ (d = 1 => Units > 0)
    BY <1>13
  <2>1. /\ Rd \in Nat /\ Ar \in Nat /\ Un \in Nat /\ Dp \in Nat /\ Units \in Nat
        /\ RIn("count") \in Nat /\ readerCount \in Int /\ readerWait \in Int
        /\ MaxReaders \in Nat
    BY Numbers
  <2> QED BY <1>0, <1>7, <1>8, <1>9, <1>11, <2>1 DEF Counts
<1> QED BY <1>1, <1>3, <1>4, <1>5, <1>6, <1>11, <1>14 DEF RWInv

LEMMA LockSleepRW ==
  ASSUME RWInv, NEW g \in G, LockSleep(g)
  PROVE  RWInv'
<1>0. /\ RWTypeOK /\ SemaTypeOK /\ SemaInv /\ ParkedOnce /\ CallsMatch /\ OneHolder /\ OneToken
      /\ Locals /\ Counts /\ pc \in [G -> Phases]
      /\ pc[g] = "wacquire" /\ Semacquire(g, writerSem, FALSE) /\ writerSem \in Addr
      /\ w' = w /\ readerWait' = readerWait /\ r' = r /\ writers' = writers
      /\ readerCount' = readerCount /\ readers' = readers
      /\ pc' = [pc EXCEPT ![g] = "wasleep"]
  BY SemsDistinct DEF RWInv, RWTypeOK, SemaInv, LockSleep, Jump
<1>1. /\ \A h \in G \ {g} : spc'[h] = spc[h] /\ sarg'[h] = sarg[h]
      /\ ticket' = ticket
      /\ \/ sema[writerSem] > 0 /\ Down(writerSem) /\ spc'[g] = "idle" /\ ~Wanting(g)'
         \/ sema' = sema /\ spc'[g] = "lock" /\ sarg'[g].addr = writerSem /\ Wanting(g)'
      /\ SemaInv' /\ ParkedOnce' /\ SemaTypeOK'
  BY <1>0, SemacquireView, SemacquireInv DEF SemaInv
<1>2. pc'[g] = "wasleep" /\ pc' \in [G -> Phases] /\ \A h \in G \ {g} : pc'[h] = pc[h]
  BY <1>0 DEF Phases, WPhases
<1>3. CallsMatch'
  BY <1>0, <1>1, <1>2 DEF CallsMatch, AcquirePhase, ReleasePhase
<1>4. RWTypeOK'
  BY <1>0, <1>1, <1>2 DEF RWTypeOK
<1>5. OneHolder'
  BY <1>0, <1>2, HolderStays DEF GuardPhases, WPhases
<1>6. Locals'
  BY <1>0, <1>2 DEF Locals, RPhases, RWTypeOK
<1>7. RIn("count")' = RIn("count") /\ RIn("release")' = RIn("release")
  BY <1>0, <1>2, <1>5, RInMoves
<1>8. sema'[readerSem] = sema[readerSem]
  BY <1>0, <1>1, SemsDistinct DEF Down, SemaTypeOK
<1>9. (Announced' <=> Announced) /\ (Pending' <=> Pending) /\ Units' = Units
  <2>1. Announced' <=> Announced
    BY <1>0, <1>2, AnnouncedStays DEF WPhases
  <2> QED BY <1>0, <1>7, <1>8, <2>1 DEF Pending, Units
<1>10. Arrived' = Arrived /\ Behind' = Behind /\ Leaving' = Leaving
  BY <1>0, <1>1, <1>2 DEF Arrived, Behind, Leaving, Handed
<1>11. Ar' = Ar /\ Un' = Un /\ Dp' = Dp /\ Rd' = Rd
  BY <1>0, <1>10 DEF Ar, Un, Dp, Rd
<1>12. /\ \A h \in G \ {g} : Carrier(h)' <=> Carrier(h)
       /\ ~Carrier(g)
       /\ Carrier(g)' <=> ~Wanting(g)'
  <2>1. Handed(g)' <=> ~Wanting(g)'
    BY <1>1, <1>2, <1>3, <1>4, AsleepPrime
  <2> QED BY <1>0, <1>1, <1>2, <2>1 DEF Carrier, Handed
<1>13. OneToken' /\ (Token' => Token)
  <2>1. CASE sema[writerSem] > 0 /\ Down(writerSem) /\ ~Wanting(g)'
    <3>1. sema[writerSem] = 1 /\ sema'[writerSem] = 0
      BY <1>0, <2>1, DownOK DEF OneToken
    <3> QED BY <1>0, <1>2, <1>12, <2>1, <3>1 DEF OneToken, Token
  <2>2. CASE sema' = sema /\ Wanting(g)'
    <3>1. \A h \in G : Carrier(h)' <=> Carrier(h)
      BY <1>12, <2>2
    <3> QED BY <1>0, <1>2, <2>2, <3>1, TokenStays
  <2> QED BY <1>1, <2>1, <2>2
<1>14. Counts'
  BY <1>0, <1>7, <1>9, <1>11, <1>13 DEF Counts
<1> QED BY <1>1, <1>3, <1>4, <1>5, <1>6, <1>13, <1>14 DEF RWInv


LEMMA DepartWakeRW ==
  ASSUME RWInv, NEW g \in G, DepartWake(g)
  PROVE  RWInv'
<1>0. /\ RWTypeOK /\ SemaTypeOK /\ SemaInv /\ CallsMatch /\ OneHolder /\ OneToken
      /\ Locals /\ Counts /\ pc \in [G -> Phases]
      /\ pc[g] = "wake" /\ Semrelease(g, writerSem, FALSE) /\ writerSem \in Addr
      /\ w' = w /\ readerWait' = readerWait /\ r' = r /\ writers' = writers
      /\ readerCount' = readerCount /\ readers' = readers
      /\ pc' = [pc EXCEPT ![g] = "idle"]
  BY SemsDistinct DEF RWInv, RWTypeOK, SemaInv, DepartWake, Jump
<1>1. /\ \A h \in G \ {g} : spc'[h] = spc[h] /\ sarg'[h] = sarg[h]
      /\ ticket' = ticket /\ spc'[g] = "nwait"
      /\ sema' = [sema EXCEPT ![writerSem] = @ + 1]
      /\ SemaInv' /\ SemaTypeOK'
  BY <1>0, SemreleaseView, SemreleaseInv DEF SemaInv
<1>2. pc'[g] = "idle" /\ pc' \in [G -> Phases] /\ \A h \in G \ {g} : pc'[h] = pc[h]
  BY <1>0 DEF Phases
<1>3. CallsMatch'
  BY <1>0, <1>1, <1>2 DEF CallsMatch, AcquirePhase, ReleasePhase
<1>4. RWTypeOK'
  BY <1>0, <1>1, <1>2 DEF RWTypeOK
<1>5. OneHolder'
  BY <1>0, <1>2, HolderStays DEF GuardPhases, WPhases
<1>6. Locals'
  BY <1>0, <1>2 DEF Locals, RPhases, RWTypeOK
<1>7. RIn("count")' = RIn("count") /\ RIn("release")' = RIn("release")
  BY <1>0, <1>2, <1>5, RInMoves
<1>8. sema'[readerSem] = sema[readerSem] /\ sema'[writerSem] = sema[writerSem] + 1
  BY <1>0, <1>1, SemsDistinct DEF SemaTypeOK
<1>9. (Announced' <=> Announced) /\ (Pending' <=> Pending) /\ Units' = Units
  <2>1. Announced' <=> Announced
    BY <1>0, <1>2, AnnouncedStays DEF WPhases
  <2> QED BY <1>0, <1>7, <1>8, <2>1 DEF Pending, Units
<1>10. Arrived' = Arrived /\ Behind' = Behind /\ Leaving' = Leaving
  BY <1>0, <1>1, <1>2 DEF Arrived, Behind, Leaving, Handed
<1>11. Ar' = Ar /\ Un' = Un /\ Dp' = Dp /\ Rd' = Rd
  BY <1>0, <1>10 DEF Ar, Un, Dp, Rd
<1>12. /\ \A h \in G \ {g} : ~Carrier(h)
       /\ sema[writerSem] = 0 /\ Token
  BY <1>0, Numbers DEF OneToken, Token, Carrier
<1>13. \A h \in G : ~Carrier(h)'
  BY <1>1, <1>2, <1>12 DEF Carrier, Handed
<1>14. OneToken'
  BY <1>0, <1>2, <1>8, <1>12, <1>13 DEF OneToken
<1>15. Counts'
  BY <1>0, <1>7, <1>9, <1>11, <1>12 DEF Counts
<1> QED BY <1>1, <1>3, <1>4, <1>5, <1>6, <1>14, <1>15 DEF RWInv

LEMMA UnlockReleaseRW ==
  ASSUME RWInv, NEW g \in G, UnlockRelease(g)
  PROVE  RWInv'
<1>0. /\ RWTypeOK /\ SemaTypeOK /\ SemaInv /\ CallsMatch /\ OneHolder /\ OneToken
      /\ Locals /\ Counts /\ pc \in [G -> Phases] /\ r \in [G -> Nat]
      /\ pc[g] = "release" /\ Semrelease(g, readerSem, FALSE) /\ readerSem \in Addr
      /\ w' = w /\ readerWait' = readerWait /\ r' = [r EXCEPT ![g] = @ - 1]
      /\ writers' = writers /\ readerCount' = readerCount /\ readers' = readers
  BY SemsDistinct DEF RWInv, RWTypeOK, SemaInv, UnlockRelease
<1> PICK ph \in {"release", "wunlock"} :
      pc' = [pc EXCEPT ![g] = ph] /\ (ph = "wunlock" <=> r[g] = 1)
  BY <1>0 DEF UnlockRelease, Jump
<1>1. /\ \A h \in G \ {g} : spc'[h] = spc[h] /\ sarg'[h] = sarg[h]
      /\ ticket' = ticket /\ spc'[g] = "nwait"
      /\ sema' = [sema EXCEPT ![readerSem] = @ + 1]
      /\ SemaInv' /\ SemaTypeOK'
  BY <1>0, SemreleaseView, SemreleaseInv DEF SemaInv
<1>2. /\ pc'[g] = ph /\ pc' \in [G -> Phases] /\ \A h \in G \ {g} : pc'[h] = pc[h]
      /\ \A h \in G \ {g} : r'[h] = r[h]
  BY <1>0 DEF Phases
<1>3. r[g] > 0 /\ r'[g] = r[g] - 1 /\ r' \in [G -> Nat] /\ r[g] \in Nat
  <2>1. r[g] > 0 /\ r[g] \in Nat
    BY <1>0 DEF Locals
  <2>2. r[g] - 1 \in Nat
    BY <2>1
  <2> QED BY <1>0, <2>1, <2>2
<1>4. CallsMatch'
  BY <1>0, <1>1, <1>2 DEF CallsMatch, AcquirePhase, ReleasePhase
<1>5. RWTypeOK'
  BY <1>0, <1>1, <1>2, <1>3 DEF RWTypeOK
<1>6. OneHolder'
  BY <1>0, <1>2, HolderStays DEF GuardPhases, WPhases
<1>7. Locals'
  <2>1. pc'[g] = "release" => r'[g] > 0
    BY <1>2, <1>3
  <2>2. (\E h \in G : pc'[h] = "count") => (\E h \in G : pc[h] = "count")
    BY <1>0, <1>2
  <2> QED BY <1>0, <1>2, <2>1, <2>2 DEF Locals, RPhases, RWTypeOK
<1>8. RIn("count")' = RIn("count") /\ RIn("release") = r[g] /\ RIn("release")' = r[g] - 1
  <2>1. RIn("count")' = RIn("count") /\ RIn("release") = r[g]
    BY <1>0, <1>2, <1>6, RInMoves
  <2>2. CASE ph = "release"
    BY <1>0, <1>2, <1>3, <1>6, <2>1, <2>2, RInMoves
  <2>3. CASE ph = "wunlock"
    <3>1. RIn("release")' = 0
      BY <1>0, <1>2, <1>6, <2>3, RInMoves
    <3> QED BY <1>3, <2>1, <2>3, <3>1
  <2> QED BY <2>1, <2>2, <2>3
<1>9. sema'[writerSem] = sema[writerSem] /\ sema'[readerSem] = sema[readerSem] + 1
  BY <1>0, <1>1, SemsDistinct DEF SemaTypeOK
<1>10. (Announced' <=> Announced) /\ (Pending' <=> Pending) /\ Units' = Units
  <2>1. Announced' <=> Announced
    BY <1>0, <1>2, AnnouncedStays DEF WPhases
  <2>2. Units' = Units
    BY <1>3, <1>8, <1>9, Numbers DEF Units
  <2> QED BY <1>0, <2>1, <2>2 DEF Pending
<1>11. /\ Arrived' = Arrived /\ Behind' = Behind /\ Leaving' = Leaving
       /\ \A h \in G : Carrier(h)' <=> Carrier(h)
  BY <1>0, <1>1, <1>2 DEF Arrived, Behind, Leaving, Handed, Carrier
<1>12. Ar' = Ar /\ Un' = Un /\ Dp' = Dp /\ Rd' = Rd
  BY <1>0, <1>11 DEF Ar, Un, Dp, Rd
<1>13. OneToken' /\ (Token' <=> Token)
  BY <1>0, <1>2, <1>9, <1>11 DEF OneToken, Token
<1>14. Counts'
  BY <1>0, <1>8, <1>10, <1>12, <1>13 DEF Counts
<1> QED BY <1>1, <1>4, <1>5, <1>6, <1>7, <1>13, <1>14 DEF RWInv

-----------------------------------------------------------------------------
(* The theorems *)

LEMMA RWInitInv ==
  ASSUME RWInit
  PROVE  RWInv
<1>1. SemaInv /\ SemaTypeOK
  BY SemaInitInv DEF RWInit, SemaInv
<1>2. /\ \A g \in G : pc[g] = "idle" /\ spc[g] = "idle" /\ r[g] = 0
      /\ sema[readerSem] = 0 /\ sema[writerSem] = 0
      /\ readers = {} /\ writers = {} /\ w = {} /\ readerCount = 0 /\ readerWait = 0
  BY SemsDistinct DEF RWInit, SemaInit
<1>3. RWTypeOK
  <2>1. pc \in [G -> Phases] /\ r \in [G -> Nat]
    BY DEF RWInit, Phases
  <2> QED BY <1>1, <1>2, <2>1, MaxReadersEnough DEF RWTypeOK
<1>4. CallsMatch /\ OneHolder /\ OneToken /\ Locals
  BY <1>2 DEF CallsMatch, AcquirePhase, ReleasePhase, OneHolder, Hold, GuardPhases, WPhases,
     OneToken, Token, Carrier, Locals
<1>5. Arrived = {} /\ Behind = {} /\ Leaving = {}
  BY <1>2 DEF Arrived, Behind, Leaving
<1>6. Rd = 0 /\ Ar = 0 /\ Un = 0 /\ Dp = 0
  BY <1>2, <1>5, FS_EmptySet DEF Rd, Ar, Un, Dp
<1>7. RIn("count") = 0 /\ RIn("release") = 0 /\ Units = 0
  BY <1>2 DEF RIn, Units
<1>8. ~Announced /\ ~Pending
  BY <1>2 DEF Announced, Pending, WPhases
<1>9. Counts
  BY <1>2, <1>6, <1>7, <1>8 DEF Counts
<1> QED BY <1>1, <1>3, <1>4, <1>9 DEF RWInv

LEMMA RWStutterInv ==
  ASSUME RWInv, UNCHANGED vars
  PROVE  RWInv'
<1>1. /\ sema' = sema /\ spc' = spc /\ sarg' = sarg /\ ticket' = ticket
      /\ w' = w /\ readerCount' = readerCount /\ readerWait' = readerWait /\ pc' = pc
      /\ r' = r /\ readers' = readers /\ writers' = writers
      /\ SemaInv' /\ SemaTypeOK'
  BY SemaStutterInv DEF RWInv, vars, svars, rwvars, SemaInv
<1>2. RWTypeOK' /\ CallsMatch' /\ OneHolder' /\ Locals'
  BY <1>1 DEF RWInv, RWTypeOK, CallsMatch, OneHolder, Hold, Locals
<1>3. OneToken' /\ (Token' <=> Token)
  BY <1>1 DEF RWInv, OneToken, Token, Carrier, Handed
<1>4. /\ Rd' = Rd /\ Ar' = Ar /\ Un' = Un /\ Dp' = Dp /\ Units' = Units
      /\ RIn("count")' = RIn("count") /\ (Announced' <=> Announced) /\ (Pending' <=> Pending)
  BY <1>1 DEF Rd, Ar, Un, Dp, Units, RIn, Announced, Pending, Arrived, Behind, Leaving, Handed
<1>5. Counts'
  BY <1>1, <1>3, <1>4 DEF RWInv, Counts
<1> QED BY <1>1, <1>2, <1>3, <1>5 DEF RWInv

LEMMA RWAlways == RWSpec => []RWInv
<1>1. RWInit => RWInv
  BY RWInitInv
<1>2. RWInv /\ [RWNext]_vars => RWInv'
  <2> SUFFICES ASSUME RWInv, [RWNext]_vars PROVE RWInv'
    OBVIOUS
  <2>1. CASE UNCHANGED vars
    BY <2>1, RWStutterInv
  <2>2. ASSUME NEW g \in G, RLock(g) \/ RUnlock(g) \/ Lock(g) \/ Unlock(g) PROVE RWInv'
    BY <2>2, RLockRW, RUnlockRW, LockRW, UnlockRW
  <2>3. ASSUME NEW g \in G, RWStep(g) PROVE RWInv'
    <3>1. CASE RLockSleep(g) \/ RLockReturn(g) \/ Depart(g) \/ DepartWake(g)
      BY <3>1, RLockSleepRW, RLockReturnRW, DepartRW, DepartWakeRW
    <3>2. CASE LockW(g) \/ LockAnnounce(g) \/ LockCount(g) \/ LockSleep(g) \/ LockReturn(g)
      BY <3>2, LockRW, LockAnnounceRW, LockCountRW, LockSleepRW, LockReturnRW
    <3>3. CASE UnlockRelease(g) \/ UnlockW(g)
      BY <3>3, UnlockReleaseRW, UnlockWRW
    <3>4. CASE SemaStep(g) /\ UNCHANGED rwvars
      BY <3>4, SemaStepRW
    <3> QED BY <2>3, <3>1, <3>2, <3>3, <3>4 DEF RWStep
  <2> QED BY <2>1, <2>2, <2>3 DEF RWNext
<1> QED BY <1>1, <1>2, PTL DEF RWSpec

(***************************************************************************)
(* For any number of goroutines below rwmutexMaxReaders: the pending       *)
(* writer waits for exactly the readers it found (rwmutex.go:83, 100-103). *)
(***************************************************************************)
THEOREM ReaderWaitIsExact == RWSpec => []RWStructure
<1>1. ASSUME RWInv PROVE ReaderWaitExact
  <2>1. OneInside
    BY <1>1 DEF RWInv, OneHolder, Hold, GuardPhases, WPhases, OneInside
  <2>2. Admitted = Rd + Ar + Units /\ Departing = Dp
    <3>1. Departing = Dp /\ Admitted = Rd + Ar + sema[readerSem] + RIn("release")
      BY DEF Departing, Dp, Leaving, Admitted, Rd, Ar, Arrived, Handed
    <3> QED BY <1>1, <3>1, Numbers DEF Units
  <2>3. Woken => Token
    BY <1>1 DEF RWInv, Woken, Token, Carrier, Handed
  <2>4. Woken => readerWait = 0 /\ \A g \in G : pc[g] # "count"
    BY <1>1, <2>3, TokenLate
  <2> QED BY <1>1, <2>1, <2>2, <2>4 DEF RWInv, Counts, ReaderWaitExact
<1>2. RWInv => RWStructure
  BY <1>1 DEF RWInv, RWStructure
<1> QED BY <1>2, RWAlways, PTL

\* For any number of goroutines below rwmutexMaxReaders: a writer is alone
\* (rwmutex.go:16-17).
THEOREM WriterIsAlone == RWSpec => []Exclusion
<1>1. RWInv => Exclusion
  <2> SUFFICES ASSUME RWInv, writers # {} PROVE readers = {} /\ Cardinality(writers) = 1
    BY DEF Exclusion
  <2>1. readers \subseteq G /\ writers \subseteq G
    BY DEF RWInv, RWTypeOK
  <2>2. readers = {}
    <3>1. IsFiniteSet(readers) /\ Cardinality(readers) = 0
      BY <2>1, SetsFinite DEF RWInv, Counts, Rd
    <3> QED BY <3>1, FS_EmptySet
  <2>3. PICK g \in writers : writers = {g}
    BY <2>1 DEF RWInv, OneHolder, Hold
  <2> QED BY <2>2, <2>3, FS_Singleton
<1> QED BY <1>1, RWAlways, PTL

-----------------------------------------------------------------------------
(***************************************************************************)
(* Proofs about module WaitGroup for any finite number of goroutines and   *)
(* any bound on the counter: its units are exact, none of its panics is    *)
(* reached and no Wait returns early.                                      *)
(*                                                                         *)
(* The argument: a round ends with one Add, which finds waiters and        *)
(* resets the state.  From then until the last of these waiters has        *)
(* returned the client may not raise the counter, so the state stays zero  *)
(* and every Wait that comes meanwhile leaves at once: the units in the    *)
(* semaphore, and those the releaser still has to publish, can only go to  *)
(* the waiters of this round, and there are as many of one as of the       *)
(* other.                                                                  *)
(***************************************************************************)

\* g has its unit, or is back with it, and has not looked at the state yet.
WGHanded(g) == wpc[g] = "asleep" /\ (spc[g] = "idle" \/ ticket[g])
\* The end of a round: units are being published or taken.
Serving == sema[wgSem] > 0 \/ \E g \in G : wpc[g] = "release" \/ WGHanded(g)

WGCallsMatch ==
  \A g \in G :
    /\ spc[g] \in AcquirePhase => wpc[g] = "asleep"
    /\ spc[g] \in ReleasePhase => wpc[g] \in {"idle", "release"}
    /\ spc[g] # "idle" => sarg[g].addr = wgSem

\* What a goroutine's local state says of the state word.
SeenFits ==
  \A g \in G :
    /\ wpc[g] \in {"check", "reset"} => state = seen[g] /\ state.v = 0 /\ state.w > 0
    /\ wpc[g] = "release" => seen[g].v = 0 /\ seen[g].w > 0
    /\ wpc[g] = "cas" => seen[g].v > 0

ZeroWhileServing == state.v >= 0 /\ (Serving => state = Zero)

WGInv ==
  /\ WGTypeOK /\ SemaInv /\ WGCallsMatch
  /\ SeenFits /\ ZeroWhileServing /\ UnitsExact /\ NoPanic

\* Waiters are counted at zero only until the Add that ends the round has reset the state.
RoundEnds ==
  state.v = 0 /\ state.w > 0 => \E g \in G : wpc[g] \in {"check", "reset"}

-----------------------------------------------------------------------------
(* The two sides of UnitsExact *)

LEMMA ZeroOK == Zero \in States /\ Zero.v = 0 /\ Zero.w = 0
BY DEF Zero, States

LEMMA StateTypes ==
  ASSUME WGTypeOK
  PROVE  /\ state.v \in Int /\ state.w \in Nat
         /\ \A g \in G : seen[g] \in States /\ seen[g].v \in Int /\ seen[g].w \in Nat
         /\ sema[wgSem] \in Nat
BY WgSemAddr DEF WGTypeOK, States, SemaTypeOK

LEMMA UnservedFinite == IsFiniteSet(Unserved) /\ Cardinality(Unserved) \in Nat
<1>1. IsFiniteSet(Unserved)
  BY GFinite, FS_Subset DEF Unserved
<1> QED BY <1>1, FS_CardinalityType

\* Asleep, a goroutine either wants a unit or has got one.
LEMMA WGAsleep ==
  ASSUME WGTypeOK, WGCallsMatch, ParkedOnce, NEW g \in G
  PROVE  /\ wpc[g] = "asleep" => (WGHanded(g) <=> ~Wanting(g))
         /\ Wanting(g) => wpc[g] = "asleep"
         /\ g \in Unserved <=> wpc[g] = "acquire" \/ Wanting(g)
<1>1. spc[g] \in {"idle"} \cup AcquirePhase \cup ReleasePhase
  BY DEF WGTypeOK, SemaTypeOK
<1>2. wpc[g] = "asleep" => spc[g] \in {"idle"} \cup AcquirePhase
  BY <1>1 DEF WGCallsMatch
<1>3. ticket[g] => spc[g] = "woken"
  BY DEF ParkedOnce, TicketWoken
<1> QED BY <1>2, <1>3 DEF WGHanded, Wanting, Unserved, WGCallsMatch, AcquirePhase, ReleasePhase

LEMMA WGAsleepNext ==
  ASSUME WGTypeOK', WGCallsMatch', ParkedOnce', NEW g \in G
  PROVE  /\ wpc'[g] = "asleep" => (WGHanded(g)' <=> ~Wanting(g)')
         /\ g \in Unserved' <=> wpc'[g] = "acquire" \/ Wanting(g)'
<1>1. spc'[g] \in {"idle"} \cup AcquirePhase \cup ReleasePhase
  BY DEF WGTypeOK, SemaTypeOK
<1>2. wpc'[g] = "asleep" => spc'[g] \in {"idle"} \cup AcquirePhase
  BY <1>1 DEF WGCallsMatch
<1>3. ticket'[g] => spc'[g] = "woken"
  BY DEF ParkedOnce, TicketWoken
<1> QED BY <1>2, <1>3 DEF WGHanded, Wanting, Unserved, WGCallsMatch, AcquirePhase, ReleasePhase

LEMMA PublishNone ==
  ASSUME \A g \in G : wpc[g] # "release"
  PROVE  ToPublish = 0
BY DEF ToPublish, Releasers

LEMMA PublishOne ==
  ASSUME OneReleaser, NEW g \in G, wpc[g] = "release"
  PROVE  ToPublish = seen[g].w
<1>1. Releasers = {g}
  BY DEF OneReleaser, Releasers
<1> QED BY <1>1 DEF ToPublish

LEMMA PublishNat ==
  ASSUME WGTypeOK, OneReleaser
  PROVE  ToPublish \in Nat
<1>1. CASE \A g \in G : wpc[g] # "release"
  BY <1>1, PublishNone
<1>2. ASSUME NEW g \in G, wpc[g] = "release" PROVE ToPublish \in Nat
  BY <1>2, PublishOne, StateTypes
<1> QED BY <1>1, <1>2

\* A step that moves nobody in or out of the release loop.
LEMMA PublishSame ==
  ASSUME OneReleaser, OneReleaser',
         \A g \in G : wpc'[g] = "release" <=> wpc[g] = "release",
         \A g \in G : wpc[g] = "release" => seen'[g] = seen[g]
  PROVE  ToPublish' = ToPublish
<1>1. Releasers' = Releasers
  BY DEF Releasers
<1>2. Releasers # {} => (CHOOSE g \in Releasers : TRUE) \in Releasers
  OBVIOUS
<1>3. \A g \in Releasers : seen'[g] = seen[g]
  BY DEF Releasers
<1> QED BY <1>1, <1>2, <1>3 DEF ToPublish

\* Nobody waits: there is no unit anywhere and no end of a round under way.
LEMMA NobodyWaits ==
  ASSUME WGInv, Waiting = {}
  PROVE  /\ state.w = 0 /\ sema[wgSem] = 0 /\ ~Serving
         /\ \A g \in G : wpc[g] \notin {"check", "reset", "release"}
<1>0. /\ WGTypeOK /\ WGCallsMatch /\ ParkedOnce /\ OneReleaser
      /\ Cardinality(Unserved) = state.w + ToPublish + sema[wgSem]
  BY DEF WGInv, SemaInv, UnitsExact
<1>1. Unserved = {}
  BY DEF Unserved, Waiting, WaitPhases
<1>2. state.w = 0 /\ sema[wgSem] = 0 /\ ToPublish = 0
  BY <1>0, <1>1, StateTypes, PublishNat, FS_EmptySet
<1>3. \A g \in G : wpc[g] # "release"
  BY <1>0, <1>2, PublishOne, StateTypes DEF WGInv, SeenFits
<1>4. \A g \in G : wpc[g] \notin {"check", "reset"}
  BY <1>2 DEF WGInv, SeenFits
<1>5. \A g \in G : ~WGHanded(g)
  BY DEF WGHanded, Waiting, WaitPhases
<1> QED BY <1>2, <1>3, <1>4, <1>5 DEF Serving

-----------------------------------------------------------------------------
(* Steps of the semaphore *)

\* No call begins, none changes its direction.
LEMMA WGCallsStay ==
  ASSUME WGInv, CallsStay, wpc' = wpc
  PROVE  WGCallsMatch'
BY DEF WGInv, WGTypeOK, SemaTypeOK, WGCallsMatch, CallsStay, AcquirePhase, ReleasePhase

LEMMA SemaStepWG ==
  ASSUME WGInv, NEW g \in G, SemaStep(g), UNCHANGED wvars
  PROVE  WGInv'
<1>0. /\ WGTypeOK /\ SemaTypeOK /\ WGCallsMatch /\ SemaInv /\ ParkedOnce /\ OneReleaser
      /\ Cardinality(Unserved) = state.w + ToPublish + sema[wgSem]
      /\ wpc' = wpc /\ state' = state /\ seen' = seen
  BY DEF WGInv, SemaInv, UnitsExact, wvars
<1>1. SemaInv' /\ ParkedOnce' /\ SemaTypeOK'
  BY <1>0, SemaStepInv DEF SemaInv
<1>2. CallsStay /\ (NothingTaken \/ \E s \in G, a \in Addr : Takes(s, a))
  BY <1>0, SemaStepView
<1>3. WGTypeOK'
  BY <1>0, <1>1 DEF WGTypeOK
<1>4. WGCallsMatch'
  BY <1>0, <1>2, WGCallsStay
<1>5. SeenFits' /\ NoPanic' /\ OneReleaser'
  BY <1>0 DEF WGInv, SeenFits, NoPanic, OneReleaser
<1>6. ToPublish' = ToPublish
  BY <1>0, <1>5, PublishSame
<1>7. \A h \in G :
        /\ wpc[h] = "asleep" => (WGHanded(h) <=> ~Wanting(h))
        /\ wpc[h] = "asleep" => (WGHanded(h)' <=> ~Wanting(h)')
        /\ h \in Unserved <=> wpc[h] = "acquire" \/ Wanting(h)
        /\ h \in Unserved' <=> wpc[h] = "acquire" \/ Wanting(h)'
  BY <1>0, <1>1, <1>3, <1>4, WGAsleep, WGAsleepNext
<1>8. CASE NothingTaken
  <2>1. sema' = sema /\ \A h \in G : WGHanded(h)' <=> WGHanded(h)
    BY <1>0, <1>7, <1>8 DEF NothingTaken, WGHanded
  <2>2. Unserved' = Unserved
    BY <1>7, <1>8 DEF NothingTaken, Unserved
  <2>3. UnitsExact'
    BY <1>0, <1>5, <1>6, <2>1, <2>2 DEF UnitsExact
  <2>4. ZeroWhileServing'
    BY <1>0, <2>1 DEF WGInv, ZeroWhileServing, Serving
  <2> QED BY <1>1, <1>3, <1>4, <1>5, <2>3, <2>4 DEF WGInv
<1>9. ASSUME NEW s \in G, NEW a \in Addr, Takes(s, a) PROVE WGInv'
  <2>1. a = wgSem /\ wpc[s] = "asleep"
    BY <1>0, <1>9, WGAsleep DEF Takes, Wanting, WGCallsMatch, AcquirePhase
  <2>2. sema[wgSem] > 0 /\ sema'[wgSem] = sema[wgSem] - 1
    BY <1>0, <1>9, <2>1, DownOK DEF Takes
  <2>3. s \in Unserved /\ Unserved' = Unserved \ {s}
    BY <1>7, <1>9, <2>1 DEF Takes, Unserved
  <2>4. Cardinality(Unserved') = Cardinality(Unserved) - 1
    BY <2>3, UnservedFinite, FS_RemoveElement
  <2>5. UnitsExact'
    BY <1>0, <1>5, <1>6, <2>2, <2>4, StateTypes, PublishNat DEF UnitsExact
  <2>6. ZeroWhileServing'
    BY <1>0, <2>2 DEF WGInv, ZeroWhileServing, Serving
  <2> QED BY <1>1, <1>3, <1>4, <1>5, <2>5, <2>6 DEF WGInv
<1> QED BY <1>2, <1>8, <1>9

-----------------------------------------------------------------------------
(* Add and Wait *)

\* What a step of Add or Wait that calls no semaphore leaves as it was.
LEMMA Apart ==
  ASSUME WGInv, NEW g \in G, UNCHANGED svars,
         \A h \in G \ {g} : wpc'[h] = wpc[h],
         spc[g] = "idle" \/ wpc'[g] = wpc[g]
  PROVE  /\ SemaInv' /\ ParkedOnce' /\ SemaTypeOK' /\ WGCallsMatch' /\ sema' = sema
         /\ \A h \in G : Wanting(h)' <=> Wanting(h)
         /\ \A h \in G \ {g} : WGHanded(h)' <=> WGHanded(h)
<1>0. SemaInv /\ WGCallsMatch
  BY DEF WGInv
<1>1. SemaInv' /\ ParkedOnce' /\ SemaTypeOK'
  BY <1>0, SemaStutterInv DEF SemaInv
<1>2. sema' = sema /\ spc' = spc /\ sarg' = sarg /\ ticket' = ticket
  BY DEF svars
<1>3. WGCallsMatch'
  BY <1>0, <1>2 DEF WGCallsMatch, AcquirePhase, ReleasePhase
<1> QED BY <1>1, <1>2, <1>3 DEF Wanting, WGHanded

\* A goroutine in the middle of Add or Wait is in no call of the semaphore.
LEMMA WGInNoCall ==
  ASSUME WGInv, NEW g \in G, wpc[g] \in {"check", "reset", "cas", "load", "acquire"}
  PROVE  spc[g] = "idle"
BY DEF WGInv, WGTypeOK, SemaTypeOK, WGCallsMatch, AcquirePhase, ReleasePhase

\* The counter changes only while nobody is served and no Add ends a round.
LEMMA AddAlone ==
  ASSUME WGInv, NEW delta \in -MaxDelta .. MaxDelta, delta # 0, Legal(delta)
  PROVE  /\ ~Serving /\ \A h \in G : wpc[h] \notin {"check", "reset", "release"}
         /\ state.v + delta >= 0
         /\ ~(state.w # 0 /\ delta > 0 /\ state.v + delta = delta)
<1>0. /\ state.v \in Int /\ state.w \in Nat /\ state.v >= 0 /\ delta \in Int
      /\ state.v + delta \in 0 .. MaxDelta
  BY StateTypes, MaxDeltaNat DEF WGInv, Legal, Documented, ZeroWhileServing
<1>1. CASE state.v > 0
  <2>1. state # Zero
    BY <1>1, ZeroOK
  <2>2. ~Serving
    BY <2>1 DEF WGInv, ZeroWhileServing
  <2>3. \A h \in G : wpc[h] \notin {"check", "reset"}
    BY <1>0, <1>1 DEF WGInv, SeenFits
  <2> QED BY <1>0, <1>1, <2>2, <2>3, MaxDeltaNat DEF Serving
<1>2. CASE state.v = 0
  <2>1. Waiting = {}
    BY <1>0, <1>2, MaxDeltaNat DEF Legal, Documented
  <2> QED BY <1>0, <2>1, NobodyWaits, MaxDeltaNat
<1> QED BY <1>0, <1>1, <1>2

LEMMA AddWG ==
  ASSUME WGInv, NEW g \in G, NEW delta \in -MaxDelta .. MaxDelta, delta # 0, Add(g, delta)
  PROVE  WGInv'
<1>0. /\ WGTypeOK /\ OneReleaser /\ spc[g] = "idle" /\ wpc[g] = "idle" /\ UNCHANGED svars
      /\ Cardinality(Unserved) = state.w + ToPublish + sema[wgSem]
      /\ state.v \in Int /\ state.w \in Nat /\ delta \in Int
  BY StateTypes, MaxDeltaNat DEF WGInv, UnitsExact, Add, WGIdle
<1>1. /\ ~Serving /\ \A h \in G : wpc[h] \notin {"check", "reset", "release"}
      /\ state.v + delta >= 0
      /\ ~(state.w # 0 /\ delta > 0 /\ state.v + delta = delta)
  BY AddAlone DEF Add
<1>2. /\ state' = [state EXCEPT !.v = state.v + delta]
      /\ state' \in States /\ state'.v = state.v + delta /\ state'.w = state.w
  BY <1>0 DEF Add, WGTypeOK, States
<1>3. /\ state'.v > 0 \/ state'.w = 0 => wpc' = wpc /\ seen' = seen
      /\ ~(state'.v > 0 \/ state'.w = 0) =>
           /\ wpc' = [wpc EXCEPT ![g] = "check"]
           /\ seen' = [seen EXCEPT ![g] = state']
  BY <1>0, <1>1, <1>2 DEF Add, WGJump, Note
<1>4. /\ \A h \in G \ {g} : wpc'[h] = wpc[h] /\ seen'[h] = seen[h]
      /\ wpc'[g] = "idle" \/ (wpc'[g] = "check" /\ state'.w > 0 /\ state'.v = 0 /\ seen'[g] = state')
      /\ wpc' \in [G -> WGPhases] /\ seen' \in [G -> States]
  BY <1>0, <1>1, <1>2, <1>3 DEF WGTypeOK, WGPhases
<1>5. /\ SemaInv' /\ ParkedOnce' /\ SemaTypeOK' /\ WGCallsMatch' /\ sema' = sema
      /\ \A h \in G : Wanting(h)' <=> Wanting(h)
      /\ \A h \in G \ {g} : WGHanded(h)' <=> WGHanded(h)
  BY <1>0, <1>4, Apart
<1>6. WGTypeOK' /\ NoPanic'
  BY <1>2, <1>4, <1>5 DEF WGInv, WGTypeOK, NoPanic
<1>7. OneReleaser'
  BY <1>1, <1>4 DEF OneReleaser
<1>8. ToPublish' = ToPublish
  BY <1>0, <1>1, <1>4, <1>7, PublishSame
<1>9. Unserved' = Unserved
  BY <1>0, <1>4 DEF Unserved, svars
<1>10. UnitsExact'
  BY <1>0, <1>2, <1>5, <1>7, <1>8, <1>9 DEF UnitsExact
<1>11. ZeroWhileServing'
  BY <1>1, <1>2, <1>4, <1>5 DEF ZeroWhileServing, Serving, WGHanded
<1>12. SeenFits'
  BY <1>1, <1>4 DEF WGInv, SeenFits
<1> QED BY <1>5, <1>6, <1>10, <1>11, <1>12 DEF WGInv

\* An Add(0) changes nothing, as nobody is in the way of its being taken for the end
\* of a round.
LEMMA AddZero ==
  ASSUME WGInv, RoundEnds, NEW g \in G, Add(g, 0)
  PROVE  UNCHANGED wgvars
<1>0. /\ state.v \in Int /\ state.w \in Nat /\ state.v >= 0 /\ state \in States
      /\ ~\E h \in G : wpc[h] \in {"check", "reset"}
  BY StateTypes DEF WGInv, WGTypeOK, ZeroWhileServing, Add, Legal
<1>1. [state EXCEPT !.v = @ + 0] = state
  BY <1>0 DEF States
<1>2. state.v > 0 \/ state.w = 0
  BY <1>0 DEF RoundEnds
<1> QED BY <1>0, <1>1, <1>2 DEF Add, wgvars, wvars

LEMMA AddCheckWG ==
  ASSUME WGInv, NEW g \in G, AddCheck(g)
  PROVE  WGInv'
<1>0. /\ WGTypeOK /\ OneReleaser /\ wpc[g] = "check" /\ spc[g] = "idle" /\ UNCHANGED svars
      /\ Cardinality(Unserved) = state.w + ToPublish + sema[wgSem]
  BY WGInNoCall DEF WGInv, UnitsExact, AddCheck
<1>1. state' = state /\ seen' = seen /\ wpc' = [wpc EXCEPT ![g] = "reset"]
  BY <1>0 DEF WGInv, SeenFits, AddCheck, WGJump
<1>2. wpc'[g] = "reset" /\ \A h \in G \ {g} : wpc'[h] = wpc[h]
  BY <1>0, <1>1 DEF WGTypeOK
<1>3. /\ SemaInv' /\ ParkedOnce' /\ SemaTypeOK' /\ WGCallsMatch' /\ sema' = sema
      /\ \A h \in G \ {g} : WGHanded(h)' <=> WGHanded(h)
  BY <1>0, <1>2, Apart
<1>4. WGTypeOK' /\ NoPanic'
  BY <1>0, <1>1, <1>2, <1>3 DEF WGInv, WGTypeOK, WGPhases, NoPanic
<1>5. OneReleaser'
  BY <1>0, <1>2 DEF OneReleaser
<1>6. ToPublish' = ToPublish
  BY <1>0, <1>1, <1>2, <1>5, PublishSame
<1>7. Unserved' = Unserved
  BY <1>0, <1>2 DEF Unserved, svars
<1>8. UnitsExact'
  BY <1>0, <1>1, <1>3, <1>5, <1>6, <1>7 DEF UnitsExact
<1>9. ZeroWhileServing' /\ SeenFits'
  BY <1>0, <1>1, <1>2, <1>3 DEF WGInv, ZeroWhileServing, Serving, WGHanded, SeenFits
<1> QED BY <1>3, <1>4, <1>8, <1>9 DEF WGInv

LEMMA AddResetWG ==
  ASSUME WGInv, NEW g \in G, AddReset(g)
  PROVE  WGInv'
<1>0. /\ WGTypeOK /\ OneReleaser /\ wpc[g] = "reset" /\ spc[g] = "idle" /\ UNCHANGED svars
      /\ Cardinality(Unserved) = state.w + ToPublish + sema[wgSem]
      /\ state = seen[g] /\ state.v = 0 /\ state.w > 0
  BY WGInNoCall DEF WGInv, UnitsExact, AddReset, SeenFits
<1>1. state' = Zero /\ seen' = seen /\ wpc' = [wpc EXCEPT ![g] = "release"]
  BY DEF AddReset, WGJump
<1>2. wpc'[g] = "release" /\ \A h \in G \ {g} : wpc'[h] = wpc[h]
  BY <1>0, <1>1 DEF WGTypeOK
<1>3. /\ SemaInv' /\ ParkedOnce' /\ SemaTypeOK' /\ WGCallsMatch' /\ sema' = sema
  BY <1>0, <1>2, Apart
<1>4. WGTypeOK' /\ NoPanic'
  BY <1>0, <1>1, <1>2, <1>3, ZeroOK DEF WGInv, WGTypeOK, WGPhases, NoPanic
<1>5. OneReleaser'
  BY <1>0, <1>2 DEF OneReleaser
<1>6. sema[wgSem] = 0 /\ \A h \in G : wpc[h] # "release"
  <2>1. state # Zero
    BY <1>0, ZeroOK
  <2> QED BY <2>1, StateTypes DEF WGInv, ZeroWhileServing, Serving
<1>7. ToPublish = 0 /\ ToPublish' = state.w
  <2>1. Releasers' = {g}
    BY <1>2, <1>6 DEF Releasers
  <2> QED BY <1>0, <1>1, <1>6, <2>1, PublishNone DEF ToPublish
<1>8. Unserved' = Unserved
  BY <1>0, <1>2 DEF Unserved, svars
<1>9. UnitsExact'
  BY <1>0, <1>1, <1>3, <1>5, <1>6, <1>7, <1>8, StateTypes, ZeroOK DEF UnitsExact
<1>10. ZeroWhileServing'
  BY <1>1, ZeroOK DEF ZeroWhileServing
<1>11. SeenFits'
  BY <1>0, <1>1, <1>2, <1>5 DEF WGInv, SeenFits, OneReleaser
<1> QED BY <1>3, <1>4, <1>9, <1>10, <1>11 DEF WGInv

LEMMA AddReleaseWG ==
  ASSUME WGInv, NEW g \in G, AddRelease(g)
  PROVE  WGInv'
<1>0. /\ WGTypeOK /\ SemaTypeOK /\ WGCallsMatch /\ SemaInv /\ ParkedOnce /\ OneReleaser
      /\ wpc[g] = "release" /\ Semrelease(g, wgSem, FALSE) /\ state' = state
      /\ Cardinality(Unserved) = state.w + ToPublish + sema[wgSem]
      /\ seen[g].v = 0 /\ seen[g].w > 0 /\ seen[g].w \in Nat
      /\ state = Zero
  BY StateTypes DEF WGInv, SemaInv, UnitsExact, AddRelease, SeenFits, ZeroWhileServing, Serving
<1>1. /\ \A h \in G \ {g} : spc'[h] = spc[h] /\ sarg'[h] = sarg[h]
      /\ ticket' = ticket /\ spc[g] = "idle" /\ spc'[g] = "nwait" /\ sarg'[g].addr = wgSem
      /\ sema' = [sema EXCEPT ![wgSem] = @ + 1]
      /\ \A h \in G : Wanting(h)' <=> Wanting(h)
      /\ SemaInv' /\ ParkedOnce' /\ SemaTypeOK'
  BY <1>0, SemreleaseView, SemreleaseInv, WgSemAddr DEF SemaInv
<1>2. sema'[wgSem] = sema[wgSem] + 1 /\ sema[wgSem] \in Nat
  BY <1>0, <1>1, WgSemAddr DEF SemaTypeOK
<1>3. /\ \A h \in G \ {g} : wpc'[h] = wpc[h] /\ seen'[h] = seen[h]
      /\ wpc' \in [G -> WGPhases] /\ seen' \in [G -> States]
      /\ \/ seen[g].w = 1 /\ wpc'[g] = "idle"
         \/ wpc'[g] = "release" /\ seen'[g].v = 0 /\ seen'[g].w = seen[g].w - 1 /\ seen'[g].w > 0
  <2>1. CASE seen[g].w = 1
    <3>1. wpc' = [wpc EXCEPT ![g] = "idle"] /\ seen' = [seen EXCEPT ![g] = Zero]
      BY <2>1 DEF AddRelease, Leave, WGJump, Note
    <3> QED BY <1>0, <2>1, <3>1, ZeroOK DEF WGTypeOK, WGPhases
  <2>2. CASE seen[g].w # 1
    <3> DEFINE less == [seen[g] EXCEPT !.w = @ - 1]
    <3>1. wpc' = wpc /\ seen' = [seen EXCEPT ![g] = less]
      BY <2>2 DEF AddRelease, Note
    <3>2. seen[g] \in States /\ seen[g].w - 1 \in Nat /\ seen[g].w - 1 > 0
      BY <1>0, <2>2 DEF WGTypeOK
    <3>3. less \in States /\ less.v = 0 /\ less.w = seen[g].w - 1
      BY <1>0, <3>2 DEF States
    <3> QED BY <1>0, <3>1, <3>2, <3>3 DEF WGTypeOK
  <2> QED BY <2>1, <2>2
<1>4. WGTypeOK' /\ NoPanic'
  BY <1>0, <1>1, <1>3 DEF WGInv, WGTypeOK, NoPanic
<1>5. WGCallsMatch'
  BY <1>0, <1>1, <1>3 DEF WGCallsMatch, AcquirePhase, ReleasePhase
<1>6. OneReleaser'
  BY <1>0, <1>3 DEF OneReleaser
<1>7. ToPublish = seen[g].w /\ ToPublish' = seen[g].w - 1
  <2>1. ToPublish = seen[g].w
    BY <1>0, PublishOne
  <2>2. \A h \in G \ {g} : wpc[h] # "release"
    BY <1>0 DEF OneReleaser
  <2>3. CASE seen[g].w = 1 /\ wpc'[g] = "idle"
    <3>1. Releasers' = {}
      BY <1>3, <2>2, <2>3 DEF Releasers
    <3> QED BY <2>1, <2>3, <3>1 DEF ToPublish
  <2>4. CASE wpc'[g] = "release" /\ seen'[g].w = seen[g].w - 1
    <3>1. Releasers' = {g}
      BY <1>3, <2>2, <2>4 DEF Releasers
    <3> QED BY <2>1, <2>4, <3>1 DEF ToPublish
  <2> QED BY <1>3, <2>3, <2>4
<1>8. Unserved' = Unserved
  <2>1. \A h \in G : h \in Unserved' <=> h \in Unserved
    <3> TAKE h \in G
    <3>1. h \in Unserved <=> wpc[h] = "acquire" \/ Wanting(h)
      BY <1>0, WGAsleep
    <3>2. h \in Unserved' <=> wpc'[h] = "acquire" \/ Wanting(h)'
      BY <1>1, <1>4, <1>5, WGAsleepNext
    <3> QED BY <1>0, <1>1, <1>3, <3>1, <3>2
  <2> QED BY <2>1 DEF Unserved
<1>9. UnitsExact'
  BY <1>0, <1>2, <1>6, <1>7, <1>8, StateTypes DEF UnitsExact
<1>10. ZeroWhileServing'
  BY <1>0, ZeroOK DEF ZeroWhileServing
<1>11. SeenFits'
  BY <1>0, <1>3 DEF WGInv, SeenFits
<1> QED BY <1>1, <1>4, <1>5, <1>9, <1>10, <1>11 DEF WGInv

LEMMA WaitLoadWG ==
  ASSUME WGInv, NEW g \in G, WaitLoad(g)
  PROVE  WGInv'
<1>0. /\ WGTypeOK /\ OneReleaser /\ wpc[g] \in {"idle", "load"} /\ spc[g] = "idle"
      /\ UNCHANGED svars /\ state' = state /\ state.v \in Int /\ state.v >= 0
      /\ Cardinality(Unserved) = state.w + ToPublish + sema[wgSem]
  BY WGInNoCall, StateTypes DEF WGInv, UnitsExact, ZeroWhileServing, WaitLoad, WGIdle
<1>1. /\ \A h \in G \ {g} : wpc'[h] = wpc[h] /\ seen'[h] = seen[h]
      /\ wpc' \in [G -> WGPhases] /\ seen' \in [G -> States]
      /\ wpc'[g] = "idle" \/ (wpc'[g] = "cas" /\ seen'[g].v > 0)
  BY <1>0, ZeroOK DEF WaitLoad, Leave, WGJump, Note, WGTypeOK, WGPhases, WaitPhases
<1>2. /\ SemaInv' /\ ParkedOnce' /\ SemaTypeOK' /\ WGCallsMatch' /\ sema' = sema
      /\ \A h \in G \ {g} : WGHanded(h)' <=> WGHanded(h)
  BY <1>0, <1>1, Apart
<1>3. WGTypeOK' /\ NoPanic'
  BY <1>0, <1>1, <1>2 DEF WGInv, WGTypeOK, NoPanic
<1>4. OneReleaser'
  BY <1>0, <1>1 DEF OneReleaser
<1>5. ToPublish' = ToPublish
  BY <1>0, <1>1, <1>4, PublishSame
<1>6. Unserved' = Unserved
  BY <1>0, <1>1 DEF Unserved, svars
<1>7. UnitsExact'
  BY <1>0, <1>2, <1>4, <1>5, <1>6 DEF UnitsExact
<1>8. ZeroWhileServing' /\ SeenFits'
  BY <1>0, <1>1, <1>2 DEF WGInv, ZeroWhileServing, Serving, WGHanded, SeenFits
<1> QED BY <1>2, <1>3, <1>7, <1>8 DEF WGInv

LEMMA WaitCASWG ==
  ASSUME WGInv, NEW g \in G, WaitCAS(g)
  PROVE  WGInv'
<1>0. /\ WGTypeOK /\ OneReleaser /\ wpc[g] = "cas" /\ spc[g] = "idle" /\ UNCHANGED svars
      /\ Cardinality(Unserved) = state.w + ToPublish + sema[wgSem]
      /\ seen[g].v > 0 /\ state.v \in Int /\ state.w \in Nat
  BY WGInNoCall, StateTypes DEF WGInv, UnitsExact, SeenFits, WaitCAS
<1>1. /\ seen' = [seen EXCEPT ![g] = Zero]
      /\ IF state = seen[g]
         THEN state' = [state EXCEPT !.w = @ + 1] /\ wpc' = [wpc EXCEPT ![g] = "acquire"]
         ELSE state' = state /\ wpc' = [wpc EXCEPT ![g] = "load"]
  BY DEF WaitCAS, Leave, WGJump, Note
<1>2. /\ \A h \in G \ {g} : wpc'[h] = wpc[h] /\ seen'[h] = seen[h]
      /\ wpc' \in [G -> WGPhases] /\ seen' \in [G -> States] /\ wpc'[g] \in {"acquire", "load"}
  BY <1>0, <1>1, ZeroOK DEF WGTypeOK, WGPhases, WaitPhases
<1>3. /\ SemaInv' /\ ParkedOnce' /\ SemaTypeOK' /\ WGCallsMatch' /\ sema' = sema
      /\ \A h \in G \ {g} : WGHanded(h)' <=> WGHanded(h)
  BY <1>0, <1>2, Apart
<1>4. OneReleaser'
  BY <1>0, <1>2 DEF OneReleaser
<1>5. ToPublish' = ToPublish
  BY <1>0, <1>2, <1>4, PublishSame
<1>6. CASE state = seen[g]
  <2>1. /\ state' \in States /\ state'.v = state.v /\ state'.w = state.w + 1
        /\ wpc'[g] = "acquire"
    BY <1>0, <1>1, <1>6 DEF WGTypeOK, States
  <2>2. state # Zero /\ \A h \in G : wpc[h] \notin {"check", "reset"}
    BY <1>0, <1>6, ZeroOK DEF WGInv, SeenFits
  <2>3. ~Serving
    BY <2>2 DEF WGInv, ZeroWhileServing
  <2>4. ~Serving'
    BY <1>2, <1>3, <2>1, <2>3 DEF Serving, WGHanded
  <2>5. WGTypeOK' /\ NoPanic'
    BY <1>0, <1>2, <1>3, <2>1 DEF WGInv, WGTypeOK, NoPanic
  <2>6. g \notin Unserved /\ Unserved' = Unserved \cup {g}
    BY <1>0, <1>2, <2>1 DEF Unserved, svars
  <2>7. Cardinality(Unserved') = Cardinality(Unserved) + 1
    BY <2>6, UnservedFinite, FS_AddElement
  <2>8. UnitsExact'
    BY <1>0, <1>3, <1>4, <1>5, <2>1, <2>7, StateTypes, PublishNat DEF UnitsExact
  <2>9. SeenFits' /\ ZeroWhileServing'
    BY <1>2, <2>1, <2>2, <2>4 DEF WGInv, SeenFits, ZeroWhileServing
  <2> QED BY <1>3, <2>5, <2>8, <2>9 DEF WGInv
<1>7. CASE state # seen[g]
  <2>1. state' = state /\ wpc'[g] = "load"
    BY <1>0, <1>1, <1>7 DEF WGTypeOK
  <2>2. WGTypeOK' /\ NoPanic'
    BY <1>0, <1>2, <1>3, <2>1 DEF WGInv, WGTypeOK, NoPanic
  <2>3. Unserved' = Unserved
    BY <1>0, <1>2, <2>1 DEF Unserved, svars
  <2>4. UnitsExact'
    BY <1>0, <1>3, <1>4, <1>5, <2>1, <2>3 DEF UnitsExact
  <2>5. SeenFits' /\ ZeroWhileServing'
    BY <1>2, <1>3, <2>1 DEF WGInv, SeenFits, ZeroWhileServing, Serving, WGHanded
  <2> QED BY <1>3, <2>2, <2>4, <2>5 DEF WGInv
<1> QED BY <1>6, <1>7

LEMMA WaitSleepWG ==
  ASSUME WGInv, NEW g \in G, WaitSleep(g)
  PROVE  WGInv'
<1>0. /\ WGTypeOK /\ SemaTypeOK /\ WGCallsMatch /\ SemaInv /\ ParkedOnce /\ OneReleaser
      /\ wpc[g] = "acquire" /\ Semacquire(g, wgSem, FALSE) /\ state' = state /\ seen' = seen
      /\ Cardinality(Unserved) = state.w + ToPublish + sema[wgSem]
  BY DEF WGInv, SemaInv, UnitsExact, WaitSleep
<1>1. /\ \A h \in G \ {g} : spc'[h] = spc[h] /\ sarg'[h] = sarg[h]
      /\ \A h \in G \ {g} : Wanting(h)' <=> Wanting(h)
      /\ ticket' = ticket
      /\ \/ sema[wgSem] > 0 /\ Down(wgSem) /\ spc'[g] = "idle" /\ ~Wanting(g)'
         \/ sema' = sema /\ spc'[g] = "lock" /\ sarg'[g].addr = wgSem /\ Wanting(g)'
      /\ SemaInv' /\ ParkedOnce' /\ SemaTypeOK'
  BY <1>0, SemacquireView, SemacquireInv, WgSemAddr DEF SemaInv
<1>2. /\ wpc'[g] = "asleep" /\ \A h \in G \ {g} : wpc'[h] = wpc[h]
      /\ wpc' \in [G -> WGPhases]
  BY <1>0 DEF WaitSleep, WGJump, WGTypeOK, WGPhases, WaitPhases
<1>3. WGTypeOK' /\ NoPanic'
  BY <1>0, <1>1, <1>2 DEF WGInv, WGTypeOK, NoPanic
<1>4. WGCallsMatch'
  BY <1>0, <1>1, <1>2 DEF WGCallsMatch, AcquirePhase, ReleasePhase
<1>5. OneReleaser' /\ SeenFits'
  BY <1>0, <1>2 DEF WGInv, OneReleaser, SeenFits
<1>6. ToPublish' = ToPublish
  BY <1>0, <1>2, <1>5, PublishSame
<1>7. /\ \A h \in G \ {g} : WGHanded(h)' <=> WGHanded(h)
      /\ WGHanded(g)' <=> ~Wanting(g)'
  BY <1>1, <1>2, <1>3, <1>4, WGAsleepNext DEF WGHanded
<1>8. g \in Unserved /\ \A h \in G \ {g} : h \in Unserved' <=> h \in Unserved
  BY <1>0, <1>1, <1>2 DEF Unserved
<1>9. g \in Unserved' <=> Wanting(g)'
  BY <1>1, <1>2, <1>3, <1>4, WGAsleepNext
<1>10. CASE sema[wgSem] > 0 /\ Down(wgSem) /\ ~Wanting(g)'
  <2>1. sema'[wgSem] = sema[wgSem] - 1
    BY <1>0, <1>10, DownOK, WgSemAddr
  <2>2. Unserved' = Unserved \ {g}
    BY <1>8, <1>9, <1>10 DEF Unserved
  <2>3. Cardinality(Unserved') = Cardinality(Unserved) - 1
    BY <1>8, <2>2, UnservedFinite, FS_RemoveElement
  <2>4. UnitsExact'
    BY <1>0, <1>5, <1>6, <2>1, <2>3, StateTypes, PublishNat DEF UnitsExact
  <2>5. ZeroWhileServing'
    BY <1>0, <1>10 DEF WGInv, ZeroWhileServing, Serving
  <2> QED BY <1>1, <1>3, <1>4, <1>5, <2>4, <2>5 DEF WGInv
<1>11. CASE sema' = sema /\ Wanting(g)'
  <2>1. Unserved' = Unserved
    BY <1>8, <1>9, <1>11 DEF Unserved
  <2>2. UnitsExact'
    BY <1>0, <1>5, <1>6, <1>11, <2>1 DEF UnitsExact
  <2>3. Serving' => Serving
    BY <1>0, <1>2, <1>7, <1>11 DEF Serving
  <2>4. ZeroWhileServing'
    BY <1>0, <2>3 DEF WGInv, ZeroWhileServing
  <2> QED BY <1>1, <1>3, <1>4, <1>5, <2>2, <2>4 DEF WGInv
<1> QED BY <1>1, <1>10, <1>11

\* The state is zero at the end of Wait, so the panic is not reached.
LEMMA WaitReturnWG ==
  ASSUME WGInv, NEW g \in G, WaitReturn(g)
  PROVE  WGInv'
<1>0. /\ WGTypeOK /\ OneReleaser /\ wpc[g] = "asleep" /\ spc[g] = "idle" /\ UNCHANGED svars
      /\ Cardinality(Unserved) = state.w + ToPublish + sema[wgSem]
      /\ state' = state /\ seen' = seen
  BY DEF WGInv, UnitsExact, WaitReturn
<1>1. state = Zero
  BY <1>0 DEF WGInv, ZeroWhileServing, Serving, WGHanded
<1>2. /\ wpc'[g] = "idle" /\ \A h \in G \ {g} : wpc'[h] = wpc[h]
      /\ wpc' \in [G -> WGPhases]
  BY <1>0, <1>1 DEF WaitReturn, WGJump, WGTypeOK, WGPhases
<1>3. /\ SemaInv' /\ ParkedOnce' /\ SemaTypeOK' /\ WGCallsMatch' /\ sema' = sema
  BY <1>0, <1>2, Apart
<1>4. WGTypeOK' /\ NoPanic'
  BY <1>0, <1>2, <1>3 DEF WGInv, WGTypeOK, NoPanic
<1>5. OneReleaser' /\ SeenFits'
  BY <1>0, <1>2 DEF WGInv, OneReleaser, SeenFits
<1>6. ToPublish' = ToPublish
  BY <1>0, <1>2, <1>5, PublishSame
<1>7. Unserved' = Unserved
  BY <1>0, <1>2 DEF Unserved, svars
<1>8. UnitsExact' /\ ZeroWhileServing'
  BY <1>0, <1>1, <1>3, <1>5, <1>6, <1>7, ZeroOK DEF UnitsExact, ZeroWhileServing
<1> QED BY <1>3, <1>4, <1>5, <1>8 DEF WGInv

-----------------------------------------------------------------------------
(* The theorems *)

LEMMA WGInitInv ==
  ASSUME WGInit
  PROVE  WGInv
<1>1. SemaInv /\ SemaTypeOK
  BY SemaInitInv DEF WGInit, SemaInv
<1>2. WGTypeOK /\ WGCallsMatch /\ SeenFits /\ NoPanic
  BY <1>1, ZeroOK DEF WGInit, SemaInit, WGTypeOK, WGCallsMatch, SeenFits, NoPanic, WGPhases,
     AcquirePhase, ReleasePhase
<1>3. sema[wgSem] = 0 /\ ~Serving
  BY WgSemAddr DEF WGInit, SemaInit, Serving, WGHanded
<1>4. Unserved = {} /\ ToPublish = 0 /\ OneReleaser
  BY PublishNone DEF WGInit, Unserved, OneReleaser
<1>5. UnitsExact /\ ZeroWhileServing
  BY <1>3, <1>4, ZeroOK, FS_EmptySet DEF WGInit, UnitsExact, ZeroWhileServing
<1> QED BY <1>1, <1>2, <1>5 DEF WGInv

LEMMA WGNextInv ==
  ASSUME WGInv, RoundEnds, [WGNext]_wgvars
  PROVE  WGInv'
<1>1. CASE UNCHANGED wgvars
  <2>1. SemaInv' /\ wpc' = wpc /\ state' = state /\ seen' = seen
    BY <1>1, SemaStutterInv DEF WGInv, wgvars, wvars
  <2> QED BY <1>1, <2>1 DEF WGInv, wgvars, svars, SemaInv, WGTypeOK, WGCallsMatch, SeenFits,
      ZeroWhileServing, Serving, WGHanded, UnitsExact, OneReleaser, Unserved, ToPublish,
      Releasers, NoPanic
<1>2. ASSUME NEW g \in G, NEW delta \in -MaxDelta .. MaxDelta, Add(g, delta) PROVE WGInv'
  <2>1. CASE delta = 0
    BY <1>1, <1>2, <2>1, AddZero
  <2>2. CASE delta # 0
    BY <1>2, <2>2, AddWG
  <2> QED BY <2>1, <2>2
<1>3. ASSUME NEW g \in G, WaitLoad(g) PROVE WGInv'
  BY <1>3, WaitLoadWG
<1>4. ASSUME NEW g \in G, WGStep(g) PROVE WGInv'
  BY <1>4, SemaStepWG, AddCheckWG, AddResetWG, AddReleaseWG, WaitLoadWG, WaitCASWG,
     WaitSleepWG, WaitReturnWG DEF WGStep
<1> QED BY <1>1, <1>2, <1>3, <1>4 DEF WGNext

LEMMA RoundEndsNext ==
  ASSUME WGInv, RoundEnds, [WGNext]_wgvars
  PROVE  RoundEnds'
<1>0. /\ wpc \in [G -> WGPhases] /\ state \in States /\ seen \in [G -> States]
      /\ state.v \in Int /\ state.w \in Nat /\ state.v >= 0
      /\ \A g \in G : seen[g].v \in Int /\ seen[g].w \in Nat
  BY StateTypes DEF WGInv, WGTypeOK, ZeroWhileServing
<1>1. CASE UNCHANGED wvars
  BY <1>1 DEF RoundEnds, wvars
<1>2. ASSUME NEW g \in G, NEW delta \in -MaxDelta .. MaxDelta, Add(g, delta)
      PROVE  RoundEnds'
  <2>1. CASE delta = 0
    BY <1>1, <1>2, <2>1, AddZero DEF wgvars
  <2>2. CASE delta # 0
    <3>1. /\ \A h \in G : wpc[h] \notin {"check", "reset", "release"}
          /\ state.v + delta >= 0 /\ delta \in Int
          /\ ~(state.w # 0 /\ delta > 0 /\ state.v + delta = delta)
      BY <1>2, <2>2, AddAlone, MaxDeltaNat DEF Add
    <3>2. state' = [state EXCEPT !.v = state.v + delta] /\ state' \in States
          /\ state'.v = state.v + delta /\ state'.w = state.w
      BY <1>0, <1>2, <3>1 DEF Add, States
    <3>3. ~(state'.v > 0 \/ state'.w = 0) => wpc' = [wpc EXCEPT ![g] = "check"]
      BY <1>0, <1>2, <3>1, <3>2 DEF Add, WGJump
    <3> QED BY <1>0, <3>1, <3>2, <3>3 DEF RoundEnds
  <2> QED BY <2>1, <2>2
<1>3. ASSUME NEW g \in G, WaitLoad(g) PROVE RoundEnds'
  <2>1. state' = state /\ wpc[g] \notin {"check", "reset"}
        /\ \A h \in G \ {g} : wpc'[h] = wpc[h]
    BY <1>0, <1>3 DEF WaitLoad, WGIdle, Leave, WGJump
  <2> QED BY <2>1 DEF RoundEnds
<1>4. ASSUME NEW g \in G, WGStep(g) PROVE RoundEnds'
  <2>1. CASE AddCheck(g)
    <3>1. state = seen[g]
      BY <2>1 DEF WGInv, SeenFits, AddCheck
    <3>2. state' = state /\ wpc'[g] = "reset" /\ \A h \in G \ {g} : wpc'[h] = wpc[h]
      BY <1>0, <2>1, <3>1 DEF AddCheck, WGJump
    <3> QED BY <3>2 DEF RoundEnds
  <2>2. CASE AddReset(g)
    BY <2>2, ZeroOK DEF AddReset, RoundEnds
  <2>3. CASE AddRelease(g)
    <3>1. state' = state /\ wpc[g] = "release" /\ \A h \in G \ {g} : wpc'[h] = wpc[h]
      BY <1>0, <2>3 DEF AddRelease, Leave, WGJump
    <3> QED BY <3>1 DEF RoundEnds
  <2>4. CASE WaitCAS(g)
    <3>1. /\ wpc[g] = "cas" /\ \A h \in G \ {g} : wpc'[h] = wpc[h]
          /\ state' = state \/ (state = seen[g] /\ state' = [state EXCEPT !.w = @ + 1])
      BY <1>0, <2>4 DEF WaitCAS, Leave, WGJump
    <3>2. state = seen[g] => state.v > 0
      BY <1>0, <3>1 DEF WGInv, SeenFits
    <3>3. state' = state \/ state'.v > 0
      BY <1>0, <3>1, <3>2 DEF States
    <3> QED BY <1>0, <3>1, <3>3 DEF RoundEnds
  <2>5. CASE WaitSleep(g) \/ WaitReturn(g)
    <3>1. /\ state' = state /\ wpc[g] \notin {"check", "reset"}
          /\ \A h \in G \ {g} : wpc'[h] = wpc[h]
      BY <1>0, <2>5 DEF WaitSleep, WaitReturn, WGJump
    <3> QED BY <3>1 DEF RoundEnds
  <2> QED BY <1>1, <1>3, <1>4, <2>1, <2>2, <2>3, <2>4, <2>5 DEF WGStep
<1> QED BY <1>1, <1>2, <1>3, <1>4 DEF WGNext, wgvars

LEMMA WGAlways == WGSpec => []WGInv
<1>1. WGInit => WGInv
  BY WGInitInv
<1>2. WGInit => RoundEnds
  BY ZeroOK DEF WGInit, RoundEnds
<1>3. WGInv /\ RoundEnds /\ [WGNext]_wgvars => WGInv'
  BY WGNextInv
<1>4. WGInv /\ RoundEnds /\ [WGNext]_wgvars => RoundEnds'
  BY RoundEndsNext
<1> QED BY <1>1, <1>2, <1>3, <1>4, PTL DEF WGSpec

(***************************************************************************)
(* For any number of goroutines, and any deltas that Legal allows: as many *)
(* units as goroutines that are still to take one, published by one Add at *)
(* a time (waitgroup.go:91).                                               *)
(***************************************************************************)
THEOREM UnitsAreExact == WGSpec => []WGStructure
<1>1. WGInv => WGStructure
  BY DEF WGInv, WGStructure
<1> QED BY <1>1, WGAlways, PTL

\* No panic of Add or Wait is reached by a client that keeps the documented rules and
\* calls no Add(0) while another Add ends a round (waitgroup.go:84-91), also when it
\* reuses the WaitGroup (waitgroup.go:76, 87, 131).
THEOREM NeverPanics == WGSpec => []NoPanic
<1>1. WGInv => NoPanic
  BY DEF WGInv
<1> QED BY <1>1, WGAlways, PTL

\* Wait returns only while the counter is zero (waitgroup.go:113, 130), whatever the
\* client of Legal adds meanwhile.
THEOREM WaitReturnsAtZero == WGSpec => WaitsForZero
<1> DEFINE Zeroed == \A g \in Waiting : wpc'[g] \notin WaitPhases => state.v = 0
<1>1. ASSUME WGInv, [WGNext]_wgvars PROVE [Zeroed]_wgvars
  <2> SUFFICES ASSUME ~UNCHANGED wgvars, NEW h \in G, wpc[h] \in WaitPhases,
                      wpc'[h] \notin WaitPhases
               PROVE  state.v = 0
    BY DEF Waiting
  <2>0. wpc \in [G -> WGPhases] /\ wpc' # wpc
    BY <1>1 DEF WGInv, WGTypeOK
  <2>1. ASSUME NEW g \in G, NEW delta \in -MaxDelta .. MaxDelta, Add(g, delta)
        PROVE  FALSE
    BY <2>0, <2>1 DEF Add, WGIdle, Leave, WGJump, WGPhases, WaitPhases
  <2>2. ASSUME NEW g \in G, WaitLoad(g) PROVE state.v = 0
    BY <2>0, <2>2 DEF WaitLoad, Leave, WGJump, WaitPhases
  <2>3. ASSUME NEW g \in G, AddCheck(g) \/ AddReset(g) \/ AddRelease(g) PROVE FALSE
    BY <2>0, <2>3 DEF AddCheck, AddReset, AddRelease, Leave, WGJump, WaitPhases
  <2>4. ASSUME NEW g \in G, WaitCAS(g) \/ WaitSleep(g) PROVE FALSE
    BY <2>0, <2>4 DEF WaitCAS, WaitSleep, Leave, WGJump, WaitPhases
  <2>5. ASSUME NEW g \in G, WaitReturn(g) PROVE state.v = 0
    <3>1. Serving
      BY <2>5 DEF WaitReturn, Serving, WGHanded
    <3> QED BY <1>1, <3>1, ZeroOK DEF WGInv, ZeroWhileServing
  <2>6. ASSUME NEW g \in G, SemaStep(g), UNCHANGED wvars PROVE FALSE
    BY <2>0, <2>6 DEF wvars
  <2> QED BY <1>1, <2>1, <2>2, <2>3, <2>4, <2>5, <2>6 DEF WGNext, WGStep
<1> QED BY <1>1, WGAlways, PTL DEF WGSpec, WaitsForZero

-----------------------------------------------------------------------------(***************************************************************************)
(* Module PoolChain, for any number of goroutines, values and dequeues,    *)
(* and rings of any sizes that divide W: a slot has one owner.             *)
(*                                                                         *)
(* The argument has four parts.  Arithmetic: head and tail go round modulo *)
(* W and a slot's index is taken modulo the size of the ring, so a size    *)
(* that divides W is what keeps an index from jumping where W wraps; at    *)
(* most size slots are in use, and a push, a popHead and a popTail add or  *)
(* take away the one slot they mean.  The list: the dequeues in memory     *)
(* have ranks, in the order they were made; next leads to the rank above,  *)
(* prev to the one below or nowhere, and what the collector reaches from a *)
(* dequeue is an interval of ranks.  Ownership: a slot in use holds a      *)
(* value, a slot that a pop took is out of use and no other pop's, and     *)
(* every other one is empty.  The chain: only the newest dequeue is pushed *)
(* to, so one that was found empty after its next had been loaded stays    *)
(* empty, and the tail may pass it.                                        *)
(***************************************************************************)

\* The remainder of a sum of a multiple of s and a number below s.
LEMMA Quotient ==
  ASSUME NEW s \in Nat \ {0}, NEW q \in Int, NEW rem \in 0 .. s - 1
  PROVE  (s * q + rem) % s = rem
<1> DEFINE a == s * q + rem
<1> DEFINE k == (a \div s) - q
<1>1. a \in Int /\ a % s \in 0 .. s - 1 /\ a = s * (a \div s) + (a % s) /\ a \div s \in Int
  OBVIOUS
<1>2. k \in Int /\ s * k = rem - (a % s)
  BY <1>1
<1>3. k <= 0
  <2> SUFFICES ASSUME k >= 1 PROVE FALSE
    BY <1>2
  <2> s * k >= s
    BY <1>2
  <2> QED BY <1>1, <1>2
<1>4. k >= 0
  <2> SUFFICES ASSUME k <= -1 PROVE FALSE
    BY <1>2
  <2> s * k <= -s
    BY <1>2
  <2> QED BY <1>1, <1>2
<1> QED BY <1>1, <1>2, <1>3, <1>4

\* Going round by a multiple of s does not change an index.
LEMMA Around ==
  ASSUME NEW s \in Nat \ {0}, NEW lap \in Nat, lap % s = 0, NEW y \in Nat
  PROVE  (lap + y) % s = y % s
<1>1. /\ lap = s * (lap \div s) /\ lap \div s \in Int
      /\ y = s * (y \div s) + (y % s) /\ y \div s \in Int /\ y % s \in 0 .. s - 1
  OBVIOUS
<1> DEFINE q == (lap \div s) + (y \div s)
<1>2. lap + y = s * q + (y % s) /\ q \in Int
  BY <1>1
<1> HIDE DEF q
<1>3. (s * q + (y % s)) % s = y % s
  BY <1>1, <1>2, Quotient
<1> QED BY <1>2, <1>3

\* Two numbers less than s apart have different indexes.
LEMMA Distinct ==
  ASSUME NEW s \in Nat \ {0}, NEW a \in Nat, NEW b \in Nat, a < b, b < a + s
  PROVE  a % s # b % s
<1> SUFFICES ASSUME a % s = b % s PROVE FALSE
  OBVIOUS
<1>1. /\ a = s * (a \div s) + (a % s) /\ a \div s \in Int
      /\ b = s * (b \div s) + (b % s) /\ b \div s \in Int
  OBVIOUS
<1> DEFINE k == (b \div s) - (a \div s)
<1>2. k \in Int /\ s * k = b - a
  BY <1>1
<1>3. k >= 1
  BY <1>2
<1>4. s * k >= s
  BY <1>2, <1>3
<1> QED BY <1>2, <1>4

-----------------------------------------------------------------------------
(* The slots of a ring in use: n of them, from that of index t on *)

\* The indexes of the slots.
Used(t, n, s) == {(t + k - 1) % s : k \in 1 .. n}

\* One slot more at the head is a slot that was not in use,
LEMMA ModMore ==
  ASSUME NEW s \in Nat \ {0}, NEW t \in Nat, NEW n \in 0 .. s - 1
  PROVE  /\ Used(t, n + 1, s) = Used(t, n, s) \cup {(t + n) % s}
         /\ (t + n) % s \notin Used(t, n, s)
<1>1. \A k \in 1 .. n + 1 : k \in 1 .. n \/ k = n + 1
  OBVIOUS
<1>2. 1 .. n \subseteq 1 .. n + 1 /\ n + 1 \in 1 .. n + 1 /\ t + (n + 1) - 1 = t + n
  OBVIOUS
<1>3. Used(t, n + 1, s) = Used(t, n, s) \cup {(t + n) % s}
  BY <1>1, <1>2 DEF Used
<1>4. ASSUME NEW k \in 1 .. n, (t + k - 1) % s = (t + n) % s
      PROVE  FALSE
  <2> t + k - 1 \in Nat /\ t + n \in Nat /\ t + k - 1 < t + n /\ t + n < (t + k - 1) + s
    OBVIOUS
  <2> QED BY <1>4, Distinct
<1> QED BY <1>3, <1>4 DEF Used

\* and one slot less at the tail is the one at the tail.
LEMMA ModLess ==
  ASSUME NEW s \in Nat \ {0}, NEW t \in Nat, NEW n \in 1 .. s
  PROVE  /\ Used(t + 1, n - 1, s) = Used(t, n, s) \ {t % s}
         /\ t % s \in Used(t, n, s)
<1>1. \A k \in 1 .. n : k = 1 \/ k - 1 \in 1 .. n - 1
  OBVIOUS
<1>2. \A k \in 1 .. n - 1 : k + 1 \in 1 .. n /\ (t + 1) + k - 1 = t + (k + 1) - 1
  OBVIOUS
<1>3. t + 1 - 1 = t /\ 1 \in 1 .. n
  OBVIOUS
<1>4. ASSUME NEW k \in 1 .. n - 1, ((t + 1) + k - 1) % s = t % s
      PROVE  FALSE
  <2> (t + 1) + k - 1 \in Nat /\ t < (t + 1) + k - 1 /\ (t + 1) + k - 1 < t + s
    OBVIOUS
  <2> QED BY <1>4, Distinct
<1>5. ASSUME NEW k \in 1 .. n, (t + k - 1) % s # t % s
      PROVE  (t + k - 1) % s \in Used(t + 1, n - 1, s)
  <2> k - 1 \in 1 .. n - 1 /\ t + k - 1 = (t + 1) + (k - 1) - 1
    BY <1>1, <1>3, <1>5
  <2> QED BY DEF Used
<1>6. Used(t, n, s) \ {t % s} \subseteq Used(t + 1, n - 1, s)
  BY <1>5 DEF Used
<1>7. Used(t + 1, n - 1, s) \subseteq Used(t, n, s)
  BY <1>2 DEF Used
<1>8. t % s \notin Used(t + 1, n - 1, s)
  BY <1>4 DEF Used
<1>9. t % s \in Used(t, n, s)
  BY <1>3 DEF Used
<1> QED BY <1>6, <1>7, <1>8, <1>9

\* Where headTail wraps, at a multiple of s, the slots are the same.
LEMMA UsedAround ==
  ASSUME NEW s \in Nat \ {0}, NEW lap \in Nat, lap % s = 0, NEW t \in Nat, NEW n \in Nat
  PROVE  Used(lap + t, n, s) = Used(t, n, s)
<1>1. ASSUME NEW k \in 1 .. n
      PROVE  ((lap + t) + k - 1) % s = (t + k - 1) % s
  <2> DEFINE y == t + k - 1
  <2>1. y \in Nat /\ (lap + t) + k - 1 = lap + y
    OBVIOUS
  <2> HIDE DEF y
  <2>2. (lap + y) % s = y % s
    BY <2>1, Around
  <2> QED BY <2>1, <2>2, Zenon DEF y
<1>2. Used(lap + t, n, s) \subseteq Used(t, n, s) /\ Used(t, n, s) \subseteq Used(lap + t, n, s)
  BY <1>1 DEF Used
<1> QED BY <1>2
\* Count, of a tail t and a head h.
Between(t, h) == (h + W - t) % W

\* The difference of head and tail modulo W.
LEMMA RingCounted ==
  ASSUME W \in Nat \ {0}, NEW h \in 0 .. W - 1, NEW t \in 0 .. W - 1
  PROVE  /\ Between(t, h) = IF t <= h THEN h - t ELSE h + W - t
         /\ Between(t, h) \in 0 .. W - 1
         /\ (h + 1) % W = IF h + 1 = W THEN 0 ELSE h + 1
         /\ (h + W - 1) % W = IF h = 0 THEN W - 1 ELSE h - 1
<1>1. ASSUME NEW a \in Nat, a < 2 * W
      PROVE  a % W = IF a < W THEN a ELSE a - W
  <2>1. CASE a < W
    <3> (W * 0 + a) % W = a /\ W * 0 + a = a
      BY <1>1, <2>1, Quotient
    <3> QED BY <2>1
  <2>2. CASE a >= W
    <3> (W * 1 + (a - W)) % W = a - W /\ W * 1 + (a - W) = a
      BY <1>1, <2>2, Quotient
    <3> QED BY <2>2
  <2> QED BY <2>1, <2>2
<1>2. h + W - t \in Nat /\ h + W - t < 2 * W /\ h + 1 < 2 * W + 1 /\ h + W - 1 \in Nat /\ h + W - 1 < 2 * W
  OBVIOUS
<1>3. (h + W - t) % W = IF t <= h THEN h - t ELSE h + W - t
  BY <1>1, <1>2
<1>4. (h + W - 1) % W = IF h = 0 THEN W - 1 ELSE h - 1
  BY <1>1, <1>2
<1>5. (h + 1) % W = IF h + 1 = W THEN 0 ELSE h + 1
  <2> h + 1 \in Nat /\ h + 1 < 2 * W
    OBVIOUS
  <2> QED BY <1>1
<1> QED BY <1>3, <1>4, <1>5 DEF Between

\* What SizesDivideW and ChainConstants say of the size of a ring.
Size(s) == s \in Nat \ {0} /\ W % s = 0 /\ 2 * s <= W

\* The slot at head, and the one before it.
LEMMA AtHead ==
  ASSUME W \in Nat \ {0}, NEW h \in 0 .. W - 1, NEW t \in 0 .. W - 1, NEW s, Size(s)
  PROVE  /\ h % s = (t + Between(t, h)) % s
         /\ Between(t, h) > 0 => ((h + W - 1) % W) % s = (t + (Between(t, h) - 1)) % s
<1>1. CASE t <= h
  BY <1>1, RingCounted
<1>2. CASE h < t
  <2>1. t + Between(t, h) = W + h
    BY <1>2, RingCounted
  <2>2. /\ s \in Nat \ {0} /\ W \in Nat /\ W % s = 0 /\ h \in Nat
        /\ h > 0 => h - 1 \in Nat
    BY DEF Size
  <2>5. (W + h) % s = h % s
    BY <2>2, Around, Zenon
  <2>3. CASE h = 0
    <3> (h + W - 1) % W = W - 1 /\ t + (Between(t, h) - 1) = W - 1 
      BY <2>1, <2>3, <1>2, RingCounted
    <3> QED BY <2>1, <2>5, Zenon
  <2>4. CASE h > 0
    <3>1. (W + (h - 1)) % s = (h - 1) % s
      BY <2>2, <2>4, Around, Zenon
    <3>2. t + (Between(t, h) - 1) = W + (h - 1) /\ (h + W - 1) % W = h - 1
      BY <2>1, <2>4, <1>2, RingCounted
    <3> QED BY <2>1, <2>5, <3>1, <3>2, Zenon
  <2> QED BY <2>3, <2>4
<1> QED BY <1>1, <1>2

\* poolDequeue.pushHead adds to head a slot that was not in use,
LEMMA HeadUp ==
  ASSUME W \in Nat \ {0}, NEW h \in 0 .. W - 1, NEW t \in 0 .. W - 1, NEW s, Size(s),
         Between(t, h) < s
  PROVE  /\ (h + 1) % W \in 0 .. W - 1
         /\ Between(t, (h + 1) % W) = Between(t, h) + 1
         /\ Used(t, Between(t, h) + 1, s) = Used(t, Between(t, h), s) \cup {h % s}
         /\ h % s \notin Used(t, Between(t, h), s)
<1> DEFINE n == Between(t, h)
           u == (h + 1) % W
<1>0. t \in Nat /\ h \in Nat /\ n \in Nat /\ s \in Nat \ {0} /\ W % s = 0 /\ s < W
  BY RingCounted DEF Size
<1>1. /\ n \in 0 .. s - 1 /\ s \in Nat \ {0} /\ s < W
      /\ n = IF t <= h THEN h - t ELSE h + W - t
  BY RingCounted DEF Size
<1>2. u = IF h + 1 = W THEN 0 ELSE h + 1
  BY RingCounted
<1> HIDE DEF n, u
<1>3. u \in 0 .. W - 1
  BY <1>2
<1>4. Between(t, u) = IF t <= u THEN u - t ELSE u + W - t
  BY <1>3, RingCounted
<1>5. Between(t, u) = n + 1
  BY <1>0, <1>1, <1>2, <1>4
<1>9. t \in Nat /\ s \in Nat \ {0} /\ n \in 0 .. s - 1
  BY <1>0, <1>1
<1>6. /\ Used(t, n + 1, s) = Used(t, n, s) \cup {(t + n) % s}
      /\ (t + n) % s \notin Used(t, n, s)
  BY <1>9, ModMore, Zenon
<1>7. h % s = (t + n) % s
  BY AtHead DEF n
<1>8. /\ Used(t, n + 1, s) = Used(t, n, s) \cup {h % s}
      /\ h % s \notin Used(t, n, s)
  BY <1>6, <1>7, Zenon
<1> QED BY <1>3, <1>5, <1>8 DEF n, u

\* popHead takes the newest slot,
LEMMA HeadDown ==
  ASSUME W \in Nat \ {0}, NEW h \in 0 .. W - 1, NEW t \in 0 .. W - 1, NEW s, Size(s),
         Between(t, h) > 0, Between(t, h) <= s
  PROVE  /\ (h + W - 1) % W \in 0 .. W - 1
         /\ Between(t, (h + W - 1) % W) = Between(t, h) - 1
         /\ Used(t, Between(t, h), s) = Used(t, Between(t, h) - 1, s) \cup {((h + W - 1) % W) % s}
         /\ ((h + W - 1) % W) % s \notin Used(t, Between(t, h) - 1, s)
<1> DEFINE n == Between(t, h)
           u == (h + W - 1) % W
<1>0. /\ t \in Nat /\ h \in Nat /\ n \in Nat /\ s \in Nat \ {0} /\ W % s = 0 /\ s < W
      /\ n = IF t <= h THEN h - t ELSE h + W - t
  BY RingCounted DEF Size
<1>1. n - 1 \in 0 .. s - 1 /\ (n - 1) + 1 = n /\ n > 0
  BY <1>0
<1>2. u = IF h = 0 THEN W - 1 ELSE h - 1
  BY RingCounted
<1>7. u % s = (t + (n - 1)) % s
  BY <1>1, AtHead
<1> HIDE DEF n, u
<1>3. u \in 0 .. W - 1
  BY <1>2
<1>4. Between(t, u) = IF t <= u THEN u - t ELSE u + W - t
  BY <1>3, RingCounted
<1>5. Between(t, u) = n - 1
  BY <1>0, <1>1, <1>2, <1>4
<1>6. /\ Used(t, (n - 1) + 1, s) = Used(t, n - 1, s) \cup {(t + (n - 1)) % s}
      /\ (t + (n - 1)) % s \notin Used(t, n - 1, s)
  BY <1>0, <1>1, ModMore, Zenon
<1>8. /\ Used(t, n, s) = Used(t, n - 1, s) \cup {u % s}
      /\ u % s \notin Used(t, n - 1, s)
  BY <1>1, <1>6, <1>7, Zenon
<1> QED BY <1>3, <1>5, <1>8 DEF n, u

\* and popTail the oldest one.
LEMMA TailUp ==
  ASSUME W \in Nat \ {0}, NEW h \in 0 .. W - 1, NEW t \in 0 .. W - 1, NEW s, Size(s),
         Between(t, h) > 0, Between(t, h) <= s
  PROVE  /\ (t + 1) % W \in 0 .. W - 1
         /\ Between((t + 1) % W, h) = Between(t, h) - 1
         /\ Used((t + 1) % W, Between(t, h) - 1, s) = Used(t, Between(t, h), s) \ {t % s}
         /\ t % s \in Used(t, Between(t, h), s)
<1> DEFINE n == Between(t, h)
           u == (t + 1) % W
<1>0. /\ t \in Nat /\ h \in Nat /\ n \in Nat /\ s \in Nat \ {0} /\ W % s = 0 /\ s < W
      /\ n = IF t <= h THEN h - t ELSE h + W - t
  BY RingCounted DEF Size
<1>1. n \in 1 .. s /\ n - 1 \in Nat
  BY <1>0
<1>2. u = IF t + 1 = W THEN 0 ELSE t + 1
  BY RingCounted
<1> HIDE DEF n, u
<1>3. u \in 0 .. W - 1
  BY <1>2
<1>4. Between(u, h) = IF u <= h THEN h - u ELSE h + W - u
  BY <1>3, RingCounted
<1>5. Between(u, h) = n - 1
  BY <1>0, <1>1, <1>2, <1>4
<1>6. Used(u, n - 1, s) = Used(t + 1, n - 1, s)
  <2>1. CASE t + 1 = W
    <3>1. Used(W + 0, n - 1, s) = Used(0, n - 1, s)
      BY <1>0, <1>1, UsedAround
    <3>2. W + 0 = t + 1 /\ u = 0
      BY <1>2, <2>1
    <3> QED BY <3>1, <3>2, Zenon
  <2>2. CASE t + 1 # W
    BY <1>2, <2>2
  <2> QED BY <2>1, <2>2
<1>9. t \in Nat /\ s \in Nat \ {0} /\ n \in 1 .. s
  BY <1>0, <1>1
<1>7. Used(t + 1, n - 1, s) = Used(t, n, s) \ {t % s} /\ t % s \in Used(t, n, s)
  BY <1>9, ModLess, Zenon
<1> QED BY <1>3, <1>5, <1>6, <1>7 DEF n, u

\* A set of numbers with an element that no other is below has a least one;
LEMMA LeastBy ==
  ASSUME NEW R, \A x, y \in Nat : x < y => <<x, y>> \in R,
         NEW S, S \subseteq Nat, \E low \in S : \A v \in S : ~(<<v, low>> \in R)
  PROVE  \E low \in S : \A v \in S : low <= v
<1>1. PICK low \in S : \A v \in S : ~(<<v, low>> \in R)
  OBVIOUS
<1>2. \A v \in S : ~(v < low)
  BY <1>1
<1> QED BY <1>2

\* < being well-founded, every set of numbers with an element has.
LEMMA LeastNat ==
  ASSUME NEW S, S \subseteq Nat, S # {}
  PROVE  \E low \in S : \A v \in S : low <= v
<1>1. \A x, y \in Nat : x < y => <<x, y>> \in OpToRel(<, Nat)
  BY DEF OpToRel
<1>2. \E low \in S : \A v \in S : ~(<<v, low>> \in OpToRel(<, Nat))
  BY NatLessThanWellFounded, WFMin, Zenon
<1> QED BY <1>1, <1>2, LeastBy, Zenon

-----------------------------------------------------------------------------
(* The list: the rank of a dequeue counts the dequeues made before it *)

\* next leads from each rank to the one above it, prev back or nowhere.
Ranked(m, o, last) ==
  /\ last \in DOMAIN m /\ None \notin DOMAIN m
  /\ o \in [DOMAIN m -> Nat]
  /\ \A d, e \in DOMAIN m : o[d] = o[e] => d = e
  /\ \A d \in DOMAIN m :
       /\ o[d] <= o[last]
       /\ m[d].next = None <=> d = last
       /\ m[d].next # None => m[d].next \in DOMAIN m /\ o[m[d].next] = o[d] + 1
       /\ m[d].prev # None => m[d].prev \in DOMAIN m /\ m[m[d].prev].next = d

\* The dequeues from d on, and those that prev leads to.
Above(m, o, d) == {e \in DOMAIN m : o[d] <= o[e]}
Below(m, o, d) ==
  {e \in DOMAIN m : /\ o[e] <= o[d]
                    /\ \A x \in DOMAIN m : o[e] < o[x] /\ o[x] <= o[d] => m[x].prev # None}

\* The equations of the functions that Reached is made of.
AheadOf(m, f) == f = [d \in DOMAIN m |-> {d} \cup IF m[d].next = None THEN {} ELSE f[m[d].next]]
BehindOf(m, f) == f = [d \in DOMAIN m |-> {d} \cup IF m[d].prev = None THEN {} ELSE f[m[d].prev]]

\* What lies above a dequeue satisfies the equation of ahead,
LEMMA AboveStep ==
  ASSUME NEW m, NEW o, NEW last, Ranked(m, o, last), NEW d \in DOMAIN m
  PROVE  Above(m, o, d) = {d} \cup IF m[d].next = None THEN {} ELSE Above(m, o, m[d].next)
<1>1. CASE m[d].next = None
  <2> \A e \in DOMAIN m : o[d] <= o[e] <=> e = d
    BY <1>1 DEF Ranked
  <2> QED BY <1>1 DEF Above
<1>2. CASE m[d].next # None
  <2> \A e \in DOMAIN m : o[d] <= o[e] <=> e = d \/ o[d] + 1 <= o[e]
    BY DEF Ranked
  <2> m[d].next \in DOMAIN m /\ o[m[d].next] = o[d] + 1
    BY <1>2 DEF Ranked
  <2> QED BY <1>2 DEF Above
<1> QED BY <1>1, <1>2

\* and what lies below, the equation of behind.
LEMMA BelowStep ==
  ASSUME NEW m, NEW o, NEW last, Ranked(m, o, last), NEW d \in DOMAIN m
  PROVE  Below(m, o, d) = {d} \cup IF m[d].prev = None THEN {} ELSE Below(m, o, m[d].prev)
<1>1. CASE m[d].prev = None
  <2> \A e \in DOMAIN m : e \in Below(m, o, d) <=> e = d
    BY <1>1 DEF Ranked, Below
  <2> QED BY <1>1 DEF Below
<1>2. CASE m[d].prev # None
  <2> DEFINE p == m[d].prev
  <2>1. p \in DOMAIN m /\ o[d] = o[p] + 1
    BY <1>2 DEF Ranked
  <2>2. \A e \in DOMAIN m : o[e] \in Nat
    BY DEF Ranked
  <2>3. \A e \in DOMAIN m : o[e] <= o[d] <=> e = d \/ o[e] <= o[p]
    BY <2>1, <2>2 DEF Ranked
  <2> HIDE DEF p
  <2>4. ASSUME NEW e \in DOMAIN m, e # d
        PROVE  e \in Below(m, o, d) <=> e \in Below(m, o, p)
    <3>1. o[e] <= o[d] <=> o[e] <= o[p]
      BY <2>3, <2>4
    <3>2. ASSUME NEW x \in DOMAIN m, o[x] <= o[d], o[x] > o[p]
          PROVE  x = d
      BY <2>3, <2>2, <2>1, <3>2
    <3>3. (\A x \in DOMAIN m : o[e] < o[x] /\ o[x] <= o[d] => m[x].prev # None)
          <=> (\A x \in DOMAIN m : o[e] < o[x] /\ o[x] <= o[p] => m[x].prev # None)
      BY <2>3, <1>2
    <3> QED BY <3>1, <3>3 DEF Below
  <2>5. d \in Below(m, o, d)
    BY <2>2 DEF Below
  <2> QED BY <1>2, <2>4, <2>5 DEF Below, p
<1> QED BY <1>1, <1>2

\* The equation of ahead has one solution,
LEMMA AheadIsAbove ==
  ASSUME NEW m, NEW o, NEW last, Ranked(m, o, last), NEW f, AheadOf(m, f)
  PROVE  \A d \in DOMAIN m : f[d] = Above(m, o, d)
<1> DEFINE S == {o[last] - o[d] : d \in {x \in DOMAIN m : f[x] # Above(m, o, x)}}
<1>1. \A d \in DOMAIN m : o[last] - o[d] \in Nat
  BY DEF Ranked
<1> SUFFICES ASSUME S # {} PROVE FALSE
  OBVIOUS
<1>2. PICK low \in S : \A v \in S : low <= v
  BY <1>1, LeastNat
<1>3. PICK d \in DOMAIN m : low = o[last] - o[d] /\ f[d] # Above(m, o, d)
  OBVIOUS
<1>4. f[d] = {d} \cup IF m[d].next = None THEN {} ELSE f[m[d].next]
  BY DEF AheadOf
<1>5. CASE m[d].next = None
  BY <1>3, <1>4, <1>5, AboveStep
<1>6. CASE m[d].next # None
  <2>1. /\ m[d].next \in DOMAIN m /\ o[last] - o[m[d].next] < low
        /\ o[last] - o[m[d].next] \in Nat /\ low \in Nat
    BY <1>1, <1>3, <1>6 DEF Ranked
  <2>2. f[m[d].next] = Above(m, o, m[d].next)
    BY <1>2, <2>1
  <2> QED BY <1>3, <1>4, <1>6, <2>2, AboveStep
<1> QED BY <1>5, <1>6

\* and so has the equation of behind.
LEMMA BehindIsBelow ==
  ASSUME NEW m, NEW o, NEW last, Ranked(m, o, last), NEW f, BehindOf(m, f)
  PROVE  \A d \in DOMAIN m : f[d] = Below(m, o, d)
<1> DEFINE S == {o[d] : d \in {x \in DOMAIN m : f[x] # Below(m, o, x)}}
<1>1. \A d \in DOMAIN m : o[d] \in Nat
  BY DEF Ranked
<1> SUFFICES ASSUME S # {} PROVE FALSE
  OBVIOUS
<1>2. PICK low \in S : \A v \in S : low <= v
  BY <1>1, LeastNat
<1>3. PICK d \in DOMAIN m : low = o[d] /\ f[d] # Below(m, o, d)
  OBVIOUS
<1>4. f[d] = {d} \cup IF m[d].prev = None THEN {} ELSE f[m[d].prev]
  BY DEF BehindOf
<1>5. CASE m[d].prev = None
  BY <1>3, <1>4, <1>5, BelowStep
<1>6. CASE m[d].prev # None
  <2>1. m[d].prev \in DOMAIN m /\ o[m[d].prev] < low /\ o[m[d].prev] \in Nat /\ low \in Nat
    BY <1>1, <1>3, <1>6 DEF Ranked
  <2>2. f[m[d].prev] = Below(m, o, m[d].prev)
    BY <1>2, <2>1
  <2> QED BY <1>3, <1>4, <1>6, <2>2, BelowStep
<1> QED BY <1>5, <1>6

\* So the function that ahead is gives what lies above,
LEMMA Aheads ==
  ASSUME NEW m, NEW o, NEW last, Ranked(m, o, last), NEW d \in DOMAIN m
  PROVE  (CHOOSE f : AheadOf(m, f))[d] = Above(m, o, d)
<1> DEFINE g == [e \in DOMAIN m |-> Above(m, o, e)]
<1>1. \A e \in DOMAIN m : m[e].next # None => m[e].next \in DOMAIN m
  BY DEF Ranked
<1>2. \A e \in DOMAIN m : g[e] = {e} \cup IF m[e].next = None THEN {} ELSE g[m[e].next]
  BY <1>1, AboveStep
<1>3. AheadOf(m, g)
  BY <1>2, Zenon DEF AheadOf
<1> HIDE DEF g
<1>4. AheadOf(m, CHOOSE f : AheadOf(m, f))
  BY <1>3, Zenon
<1> QED BY <1>4, AheadIsAbove, Zenon

\* and that behind is, what lies below.
LEMMA Behinds ==
  ASSUME NEW m, NEW o, NEW last, Ranked(m, o, last), NEW d \in DOMAIN m
  PROVE  (CHOOSE f : BehindOf(m, f))[d] = Below(m, o, d)
<1> DEFINE g == [e \in DOMAIN m |-> Below(m, o, e)]
<1>1. \A e \in DOMAIN m : m[e].prev # None => m[e].prev \in DOMAIN m
  BY DEF Ranked
<1>2. \A e \in DOMAIN m : g[e] = {e} \cup IF m[e].prev = None THEN {} ELSE g[m[e].prev]
  BY <1>1, BelowStep
<1>3. BehindOf(m, g)
  BY <1>2, Zenon DEF BehindOf
<1> HIDE DEF g
<1>4. BehindOf(m, CHOOSE f : BehindOf(m, f))
  BY <1>3, Zenon
<1> QED BY <1>4, BehindIsBelow, Zenon

\* What the collector reaches from a dequeue, in terms of ranks.
LEMMA ReachedIs ==
  ASSUME NEW m, NEW o, NEW last, Ranked(m, o, last), NEW d \in DOMAIN m
  PROVE  Reached(m)[d] = Above(m, o, d) \cup Below(m, o, d)
<1>1. Reached(m)[d] = (CHOOSE f : AheadOf(m, f))[d] \cup (CHOOSE f : BehindOf(m, f))[d]
  BY DEF Reached, AheadOf, BehindOf
<1> QED BY <1>1, Aheads, Behinds

\* The chain, in terms of ranks.
LEMMA ChainIs ==
  ASSUME NEW o, NEW last, Ranked(elt, o, last), ctail \in DOMAIN elt
  PROVE  Chain = Above(elt, o, ctail)
<1>1. Chain = (CHOOSE f : AheadOf(elt, f))[ctail]
  <2> ctail # None
    BY DEF Ranked
  <2> QED BY DEF Chain, AheadOf
<1> QED BY <1>1, Aheads

USE DEF Gs

-----------------------------------------------------------------------------
(* The inductive invariant, of a memory m and the locals q, a, n, x and v *)

\* The size of a ring, and its slots in [tail, head).
SizeOf(ring) == Cardinality(DOMAIN ring.vals)
InUse(ring) == Used(ring.tail, Between(ring.tail, ring.head), SizeOf(ring))

\* The sizes of rings, the rings of a size, and the dequeues.
RingSizes == {s \in initSize .. dequeueLimit : W % s = 0}
Rings(s) == [0 .. s - 1 -> Vals \cup {None, Cleaned}]
Dequeues ==
  [head : 0 .. W - 1, tail : 0 .. W - 1, next : Elts \cup {None}, prev : Elts \cup {None},
   vals : UNION {Rings(s) : s \in RingSizes}]

\* The memory holds dequeues.
Shaped(m) == DOMAIN m \subseteq Elts /\ \A d \in DOMAIN m : m[d] \in Dequeues

\* The types of the locals.
ChainLocals(q, a, n, x, v) ==
  /\ q \in [Gs -> {"idle", "typ", "grow", "new", "pop", "take", "back",
                   "next", "clean", "drop", "unlink"}]
  /\ a \in [Gs -> Elts \cup {None}]
  /\ n \in [Gs -> Elts \cup {None}]
  /\ x \in [Gs -> 0 .. dequeueLimit - 1]
  /\ v \in [Gs -> Vals \cup {None}]

\* What the locals and the ends name exists.
Pointed(m, a, n) == \A g \in Gs : {a[g], n[g]} \subseteq DOMAIN m \cup {None}

\* The chain: ranks, and nothing before its tail.
Listed(m, h, t) ==
  \/ h = None /\ t = None /\ DOMAIN m = {}
  \/ /\ t \in DOMAIN m
     /\ \E o : /\ Ranked(m, o, h)
               /\ \A d \in DOMAIN m : o[d] < o[t] => m[d].tail = m[d].head

\* g is reading a slot that it took.
Taking(q, g) == q[g] \in {"take", "clean"}

\* A slot in use holds a value; another one is empty, unless a pop is taking it.
SlotsOf(m, q, a, x, d) ==
  /\ Between(m[d].tail, m[d].head) <= SizeOf(m[d])
  /\ \A i \in 0 .. SizeOf(m[d]) - 1 :
       /\ i \in InUse(m[d]) => m[d].vals[i] \in Vals
       /\ i \notin InUse(m[d]) =>
            m[d].vals[i] = None \/ \E g \in Gs : Taking(q, g) /\ a[g] = d /\ x[g] = i
Slots(m, q, a, x) == \A d \in DOMAIN m : SlotsOf(m, q, a, x, d)

\* The slot that a pop is taking is out of use, and nobody else is taking it.
TakesOf(m, q, a, x, g) ==
  Taking(q, g) =>
    /\ a[g] \in DOMAIN m
    /\ x[g] \in 0 .. SizeOf(m[a[g]]) - 1 /\ x[g] \notin InUse(m[a[g]])
    /\ q[g] = "take" => m[a[g]].vals[x[g]] \in Vals
    /\ q[g] = "clean" => m[a[g]].vals[x[g]] = Cleaned
    /\ \A h \in Gs : Taking(q, h) /\ a[h] = a[g] /\ x[h] = x[g] => h = g
TakesAll(m, q, a, x) == \A g \in Gs : TakesOf(m, q, a, x, g)

\* A push is at the head of the chain, and has seen room there.
Pusher(m, h, q, a, n, v) ==
  /\ q[P] \in {"idle", "typ", "grow", "new", "pop", "take", "back"}
  /\ n[P] = None
  /\ q[P] \in {"typ", "grow", "new"} => h \in DOMAIN m /\ a[P] = h /\ v[P] \in Vals
  /\ q[P] = "typ" => Between(m[h].tail, m[h].head) < SizeOf(m[h])
  /\ q[P] \in {"take", "back"} => a[P] # None

\* A next that was loaded is still the next; what is being dropped is empty.
Pops(m, q, a, n, g) ==
  /\ q[g] \in {"idle", "next", "pop", "take", "clean", "drop", "unlink"}
  /\ q[g] \in {"pop", "take", "clean", "drop", "unlink"} => a[g] # None
  /\ n[g] # None => q[g] \in {"pop", "drop", "unlink"} /\ a[g] \in DOMAIN m /\ m[a[g]].next = n[g]
  /\ q[g] \in {"drop", "unlink"} => n[g] # None /\ m[a[g]].tail = m[a[g]].head
Popper(m, q, a, n) == \A g \in Cs : Pops(m, q, a, n, g)

\* All of it.
Holds(m, h, t, q, a, n, x, v) ==
  /\ Shaped(m) /\ ChainLocals(q, a, n, x, v) /\ Pointed(m, a, n) /\ Listed(m, h, t)
  /\ Slots(m, q, a, x) /\ TakesAll(m, q, a, x) /\ Pusher(m, h, q, a, n, v) /\ Popper(m, q, a, n)

ChainInv == Holds(elt, chead, ctail, stage, at, nxt, idx, val)

-----------------------------------------------------------------------------

\* The assumption about the constants, in parts.
LEMMA PoolConstants ==
  /\ W \in Nat \ {0} /\ initSize \in Nat \ {0} /\ dequeueLimit \in Nat \ {0}
  /\ initSize <= dequeueLimit /\ 2 * dequeueLimit <= W
  /\ P \notin Cs /\ None \notin Vals /\ None \notin Elts /\ Cleaned \notin Vals /\ Cleaned # None
  /\ Elts \subseteq Nat /\ Elts # {}
<1>1. W \in Nat \ {0} /\ initSize \in Nat \ {0} /\ dequeueLimit \in Nat \ {0}
  BY ChainConstants
<1>2. initSize <= dequeueLimit /\ 2 * dequeueLimit <= W
  BY ChainConstants
<1>3. /\ P \notin Cs /\ None \notin Vals /\ None \notin Elts /\ Cleaned \notin Vals /\ Cleaned # None
      /\ Elts \subseteq Nat /\ Elts # {}
  BY ChainConstants, Zenon
<1> QED BY <1>1, <1>2, <1>3

\* The size of a ring of size s is s.
LEMMA SizeOfRing ==
  ASSUME NEW s \in RingSizes, NEW ring \in Rings(s)
  PROVE  /\ Cardinality(DOMAIN ring) = s /\ Size(s) /\ s \in initSize .. dequeueLimit /\ s \in Nat
         /\ DOMAIN ring = 0 .. s - 1
<1>1. s \in Nat \ {0} /\ 2 * s <= W
  BY PoolConstants DEF RingSizes
<1>2. Cardinality(0 .. s - 1) = s
  BY <1>1, FS_Interval
<1> QED BY <1>1, <1>2 DEF RingSizes, Rings, Size

\* What a dequeue of the memory is made of.
LEMMA RingOf ==
  ASSUME NEW ring \in Dequeues
  PROVE  /\ Size(SizeOf(ring)) /\ SizeOf(ring) \in initSize .. dequeueLimit /\ SizeOf(ring) \in RingSizes
         /\ SizeOf(ring) \in Nat \ {0}
         /\ DOMAIN ring.vals = 0 .. SizeOf(ring) - 1 /\ ring.vals \in Rings(SizeOf(ring))
         /\ ring.head \in 0 .. W - 1 /\ ring.tail \in 0 .. W - 1
         /\ Between(ring.tail, ring.head) \in Nat
         /\ Between(ring.tail, ring.head) = 0 <=> ring.tail = ring.head
<1>1. /\ ring.vals \in UNION {Rings(s) : s \in RingSizes}
      /\ ring.head \in 0 .. W - 1 /\ ring.tail \in 0 .. W - 1
  BY DEF Dequeues
<1>2. PICK s \in RingSizes : ring.vals \in Rings(s)
  BY <1>1
<1>3. SizeOf(ring) = s /\ Size(s) /\ s \in initSize .. dequeueLimit /\ DOMAIN ring.vals = 0 .. s - 1
  BY <1>2, SizeOfRing DEF SizeOf
<1>4. s \in Nat \ {0}
  BY <1>3 DEF Size
<1>5. Between(ring.tail, ring.head) \in Nat /\ (Between(ring.tail, ring.head) = 0 <=> ring.tail = ring.head)
  <2> DEFINE h == ring.head
             t == ring.tail
  <2>1. W \in Nat \ {0} /\ h \in 0 .. W - 1 /\ t \in 0 .. W - 1
    BY <1>1, PoolConstants
  <2> HIDE DEF h, t
  <2>2. Between(t, h) = (IF t <= h THEN h - t ELSE h + W - t) /\ Between(t, h) \in 0 .. W - 1
    BY <2>1, RingCounted
  <2>3. Between(t, h) \in Nat /\ (Between(t, h) = 0 <=> t = h)
    BY <2>1, <2>2
  <2> QED BY <2>3 DEF h, t
<1> QED BY <1>1, <1>2, <1>3, <1>4, <1>5

\* What stays in memory is what the ends and the locals lead to.
LEMMA Kept ==
  ASSUME NEW m, NEW o, NEW last, Ranked(m, o, last), Heap(m),
         Roots' \subseteq DOMAIN m \cup {None}, last \in Roots'
  PROVE  /\ DOMAIN elt' \subseteq DOMAIN m
         /\ \A d \in DOMAIN elt' : elt'[d] = m[d]
         /\ Roots' \subseteq DOMAIN elt' \cup {None}
         /\ \E o2 : Ranked(elt', o2, last) /\ \A d \in DOMAIN elt' : o2[d] = o[d]
<1> DEFINE K == UNION {Reached(m)[root] : root \in Roots' \ {None}}
<1>1. elt' = [d \in K |-> m[d]]
  BY DEF Heap
<1>2. \A root \in Roots' \ {None} : root \in DOMAIN m /\ Reached(m)[root] = Above(m, o, root) \cup Below(m, o, root)
  BY ReachedIs
<1>3. K \subseteq DOMAIN m
  BY <1>2 DEF Above, Below
<1>4. Roots' \ {None} \subseteq K
  BY <1>2 DEF Above, Ranked
<1>5. ASSUME NEW root \in Roots' \ {None}, NEW d \in Above(m, o, root)
      PROVE  /\ d \in DOMAIN m
             /\ m[d].next # None => m[d].next \in Above(m, o, root)
             /\ m[d].prev # None => m[d].prev \in Above(m, o, root) \cup Below(m, o, root)
  <2>1. d \in DOMAIN m /\ root \in DOMAIN m
    BY <1>2 DEF Above
  <2>2. CASE d = root
    <3>1. m[d].next # None => m[d].next \in Above(m, o, root)
      BY <2>1, <2>2 DEF Ranked, Above
    <3>2. m[d].prev # None => m[d].prev \in DOMAIN m /\ m[d].prev \in Below(m, o, m[d].prev)
      BY <2>1 DEF Ranked, Below
    <3>3. m[d].prev # None => m[d].prev \in Below(m, o, root)
      BY <2>1, <2>2, <3>2, BelowStep
    <3> QED BY <2>1, <3>1, <3>3
  <2>3. CASE d # root
    <3>1. m[d].next # None => m[d].next \in Above(m, o, root)
      BY <2>1 DEF Ranked, Above
    <3>2. ASSUME m[d].prev # None
          PROVE  m[d].prev \in Above(m, o, root)
      <4>1. m[d].prev \in DOMAIN m /\ o[d] = o[m[d].prev] + 1
        BY <2>1, <3>2 DEF Ranked
      <4>2. o[root] <= o[d] /\ o[root] # o[d] /\ o[root] \in Nat /\ o[d] \in Nat /\ o[m[d].prev] \in Nat
        BY <2>1, <2>3, <4>1 DEF Ranked, Above
      <4> QED BY <4>1, <4>2 DEF Above
    <3> QED BY <2>1, <3>1, <3>2
  <2> QED BY <2>2, <2>3
<1>6. ASSUME NEW root \in Roots' \ {None}, NEW d \in Below(m, o, root), d # root
      PROVE  /\ d \in DOMAIN m
             /\ m[d].next # None => m[d].next \in Below(m, o, root)
             /\ m[d].prev # None => m[d].prev \in Below(m, o, root)
  <2>1. d \in DOMAIN m /\ root \in DOMAIN m /\ o \in [DOMAIN m -> Nat]
    BY <1>2 DEF Below, Ranked
  <2>2. o[d] < o[root] /\ \A x \in DOMAIN m : o[d] < o[x] /\ o[x] <= o[root] => m[x].prev # None
    BY <1>6, <2>1 DEF Below, Ranked
  <2>3. ASSUME m[d].next # None
        PROVE  m[d].next \in Below(m, o, root)
    <3>1. m[d].next \in DOMAIN m /\ o[m[d].next] = o[d] + 1
      BY <2>1, <2>3 DEF Ranked
    <3>2. \A x \in DOMAIN m : o[d] + 1 < o[x] => o[d] < o[x]
      BY <2>1
    <3> QED BY <2>1, <2>2, <3>1, <3>2 DEF Below
  <2>4. ASSUME m[d].prev # None
        PROVE  m[d].prev \in Below(m, o, root)
    <3>1. m[d].prev \in DOMAIN m /\ o[d] = o[m[d].prev] + 1
      BY <2>1, <2>4 DEF Ranked
    <3>2. \A x \in DOMAIN m : o[m[d].prev] < o[x] => o[d] < o[x] \/ x = d
      BY <2>1, <3>1 DEF Ranked
    <3>3. o[m[d].prev] <= o[root]
      BY <2>1, <2>2, <3>1
    <3> QED BY <2>1, <2>2, <2>4, <3>1, <3>2, <3>3 DEF Below
  <2> QED BY <2>1, <2>3, <2>4
<1>7. ASSUME NEW d \in K
      PROVE  /\ m[d].next # None => m[d].next \in K
             /\ m[d].prev # None => m[d].prev \in K
  <2>1. PICK root \in Roots' \ {None} : d \in Above(m, o, root) \cup Below(m, o, root)
    BY <1>2, <1>7
  <2>2. Above(m, o, root) \cup Below(m, o, root) \subseteq K
    BY <1>2
  <2>3. root \in Above(m, o, root)
    BY <1>2 DEF Above, Ranked
  <2> QED BY <2>1, <2>2, <2>3, <1>5, <1>6
<1> DEFINE o2 == [d \in K |-> o[d]]
<1>8. last \in K
  BY <1>4 DEF Ranked
<1> HIDE DEF K
<1>9. Ranked(elt', o2, last)
  BY <1>1, <1>3, <1>7, <1>8 DEF Ranked
<1> QED BY <1>1, <1>3, <1>4, <1>9

\* What holds of the memory that a step makes holds of what is kept of it.
LEMMA Collected ==
  ASSUME NEW m, Heap(m), Holds(m, chead', ctail', stage', at', nxt', idx', val'), chead' # None
  PROVE  ChainInv'
<1> DEFINE h == chead'
           t == ctail'
<1>1. PICK o : Ranked(m, o, h) /\ \A d \in DOMAIN m : o[d] < o[t] => m[d].tail = m[d].head
  BY DEF Holds, Listed
<1>2. t \in DOMAIN m /\ h \in DOMAIN m
  BY <1>1 DEF Holds, Listed, Ranked
<1>3. Roots' = {h, t} \cup {at'[g] : g \in Gs} \cup {nxt'[g] : g \in Gs}
  BY DEF Roots
<1>4. Roots' \subseteq DOMAIN m \cup {None} /\ h \in Roots'
  BY <1>2, <1>3 DEF Holds, Pointed
<1>5. /\ DOMAIN elt' \subseteq DOMAIN m
      /\ \A d \in DOMAIN elt' : elt'[d] = m[d]
      /\ Roots' \subseteq DOMAIN elt' \cup {None}
      /\ \E o2 : Ranked(elt', o2, h) /\ \A d \in DOMAIN elt' : o2[d] = o[d]
  <2> Ranked(m, o, h) /\ Heap(m) /\ Roots' \subseteq DOMAIN m \cup {None} /\ h \in Roots'
    BY <1>1, <1>4
  <2> HIDE DEF h, t
  <2> QED BY Kept, SMT
<1>6. Shaped(elt')
  BY <1>5 DEF Holds, Shaped
<1>7. Pointed(elt', at', nxt')
  BY <1>3, <1>5 DEF Pointed
<1>8. Listed(elt', h, t)
  <2>1. PICK o2 : Ranked(elt', o2, h) /\ \A d \in DOMAIN elt' : o2[d] = o[d]
    BY <1>5
  <2>2. t \in DOMAIN elt'
    BY <1>2, <1>3, <1>5, <1>1 DEF Ranked
  <2>3. \A d \in DOMAIN elt' : o2[d] < o2[t] => elt'[d].tail = elt'[d].head
    BY <1>1, <1>5, <2>1, <2>2
  <2> QED BY <2>1, <2>2, <2>3 DEF Listed
<1>9. Slots(elt', stage', at', idx')
  BY <1>5 DEF Holds, Slots, SlotsOf
<1>10. \A g \in Gs : {at'[g], nxt'[g]} \cap DOMAIN m \subseteq DOMAIN elt'
  BY <1>3, <1>5, <1>1 DEF Ranked
<1>11. TakesAll(elt', stage', at', idx')
  <2> SUFFICES ASSUME NEW g \in Gs, Taking(stage', g)
               PROVE  /\ at'[g] \in DOMAIN elt'
                      /\ idx'[g] \in 0 .. SizeOf(elt'[at'[g]]) - 1 /\ idx'[g] \notin InUse(elt'[at'[g]])
                      /\ stage'[g] = "take" => elt'[at'[g]].vals[idx'[g]] \in Vals
                      /\ stage'[g] = "clean" => elt'[at'[g]].vals[idx'[g]] = Cleaned
                      /\ \A i \in Gs : Taking(stage', i) /\ at'[i] = at'[g] /\ idx'[i] = idx'[g] => i = g
    BY Zenon DEF TakesAll, TakesOf
  <2>1. at'[g] \in DOMAIN m
    BY DEF Holds, TakesAll, TakesOf
  <2>2. at'[g] \in DOMAIN elt' /\ elt'[at'[g]] = m[at'[g]]
    BY <2>1, <1>5, <1>10
  <2> QED BY <2>2, Zenon DEF Holds, TakesAll, TakesOf
<1>12. Pusher(elt', h, stage', at', nxt', val')
  <2> h \in DOMAIN elt' /\ elt'[h] = m[h]
    BY <1>2, <1>4, <1>5, <1>1 DEF Ranked
  <2> QED BY DEF Holds, Pusher
<1>13. Popper(elt', stage', at', nxt')
  <2> SUFFICES ASSUME NEW g \in Cs
               PROVE  /\ stage'[g] \in {"idle", "next", "pop", "take", "clean", "drop", "unlink"}
                      /\ stage'[g] \in {"pop", "take", "clean", "drop", "unlink"} => at'[g] # None
                      /\ nxt'[g] # None => /\ stage'[g] \in {"pop", "drop", "unlink"}
                                         /\ at'[g] \in DOMAIN elt' /\ elt'[at'[g]].next = nxt'[g]
                      /\ stage'[g] \in {"drop", "unlink"} => nxt'[g] # None /\ elt'[at'[g]].tail = elt'[at'[g]].head
    BY Zenon DEF Popper, Pops
  <2>1. nxt'[g] # None => at'[g] \in DOMAIN elt' /\ elt'[at'[g]] = m[at'[g]]
    BY <1>5, <1>10 DEF Holds, Popper, Pops
  <2> QED BY <2>1 DEF Holds, Popper, Pops
<1> QED BY <1>6, <1>7, <1>8, <1>9, <1>11, <1>12, <1>13 DEF Holds, ChainInv

-----------------------------------------------------------------------------
(* The invariant is strong enough *)

\* A dequeue of the memory in the words of the properties.
LEMMA InWords ==
  ASSUME Shaped(elt), NEW d \in DOMAIN elt
  PROVE  /\ size(d) = SizeOf(elt[d])
         /\ Count(d) = Between(elt[d].tail, elt[d].head)
         /\ Empty(d) <=> elt[d].tail = elt[d].head
         /\ \A i \in 0 .. size(d) - 1 : slot(d, i) = elt[d].vals[i] /\ (InRange(d, i) <=> i \in InUse(elt[d]))
         /\ slot(d, elt[d].head) = elt[d].vals[elt[d].head % SizeOf(elt[d])]
<1>1. elt[d] \in Dequeues
  BY DEF Shaped
<1>2. size(d) = SizeOf(elt[d]) /\ SizeOf(elt[d]) \in Nat \ {0}
  BY <1>1, RingOf DEF size, SizeOf
<1>3. Count(d) = Between(elt[d].tail, elt[d].head)
  BY DEF Count, Between
<1>4. ASSUME NEW i \in 0 .. size(d) - 1
      PROVE  slot(d, i) = elt[d].vals[i] /\ (InRange(d, i) <=> i \in InUse(elt[d]))
  <2>1. i % size(d) = i
    <3> size(d) * 0 + i = i
      BY <1>2
    <3> QED BY <1>2, Quotient
  <2> QED BY <1>2, <1>3, <2>1 DEF slot, InRange, InUse, Used
<1> QED BY <1>2, <1>3, <1>4 DEF Empty, slot

\* The inductive invariant implies the one that TLC checks.
LEMMA StrongEnough == ChainInv => ChainStructure
<1> SUFFICES ASSUME ChainInv PROVE ChainStructure
  OBVIOUS
<1> USE DEF ChainInv, Holds
<1>1. ASSUME NEW d \in DOMAIN elt
      PROVE  /\ elt[d] \in Dequeues /\ elt[d].vals \in Rings(SizeOf(elt[d]))
             /\ SizeOf(elt[d]) \in initSize .. dequeueLimit
             /\ size(d) = SizeOf(elt[d])
  BY RingOf, InWords DEF Shaped
<1>2. /\ chead \in DOMAIN elt \cup {None} /\ ctail \in DOMAIN elt \cup {None}
      /\ \A d \in DOMAIN elt : {elt[d].next, elt[d].prev} \subseteq DOMAIN elt \cup {None}
  BY DEF Listed, Ranked
<1>3. TypeOK
  <2>1. ASSUME NEW d \in DOMAIN elt
        PROVE  /\ elt[d].head \in 0 .. W - 1 /\ elt[d].tail \in 0 .. W - 1
               /\ {elt[d].next, elt[d].prev} \subseteq DOMAIN elt \cup {None}
               /\ size(d) \in initSize .. dequeueLimit
               /\ \A i \in 0 .. size(d) - 1 : slot(d, i) \in Vals \cup {None, Cleaned}
    <3>1. \A i \in 0 .. size(d) - 1 : slot(d, i) = elt[d].vals[i]
      BY InWords
    <3>2. \A i \in 0 .. size(d) - 1 : elt[d].vals[i] \in Vals \cup {None, Cleaned}
      BY <1>1 DEF Rings
    <3>3. elt[d].head \in 0 .. W - 1 /\ elt[d].tail \in 0 .. W - 1
      BY <1>1 DEF Dequeues
    <3> QED BY <1>1, <1>2, <3>1, <3>2, <3>3
  <2>2. Roots \subseteq DOMAIN elt \cup {None}
    BY <1>2 DEF Roots, Pointed
  <2> QED BY <2>1, <2>2 DEF TypeOK, ChainLocals, Shaped
<1>4. SlotOwnership
  <2> SUFFICES ASSUME NEW d \in DOMAIN elt
               PROVE  /\ Count(d) <= size(d)
                      /\ \A i \in 0 .. size(d) - 1 :
                           IF InRange(d, i)
                           THEN slot(d, i) \in Vals /\ Owners(d, i) = {}
                           ELSE IF Owners(d, i) = {} THEN slot(d, i) = None
                           ELSE \E g \in Gs : /\ Owners(d, i) = {g}
                                              /\ IF stage[g] = "take" THEN slot(d, i) \in Vals ELSE slot(d, i) = Cleaned
    BY Zenon DEF SlotOwnership
  <2>1. Count(d) <= size(d)
    BY InWords DEF Slots, SlotsOf
  <2>2. ASSUME NEW i \in 0 .. size(d) - 1
        PROVE  IF InRange(d, i)
               THEN slot(d, i) \in Vals /\ Owners(d, i) = {}
               ELSE IF Owners(d, i) = {} THEN slot(d, i) = None
               ELSE \E g \in Gs : /\ Owners(d, i) = {g}
                                  /\ IF stage[g] = "take" THEN slot(d, i) \in Vals ELSE slot(d, i) = Cleaned
    <3>1. slot(d, i) = elt[d].vals[i] /\ (InRange(d, i) <=> i \in InUse(elt[d])) /\ i \in 0 .. SizeOf(elt[d]) - 1
      BY InWords
    <3>2. \A g \in Gs : g \in Owners(d, i) <=> Taking(stage, g) /\ at[g] = d /\ idx[g] = i
      BY DEF Owners, Taking
    <3>3. Owners(d, i) \subseteq Gs
      BY DEF Owners
    <3>4. CASE InRange(d, i)
      BY <3>1, <3>2, <3>3, <3>4 DEF Slots, SlotsOf, TakesAll, TakesOf
    <3>5. CASE ~InRange(d, i) /\ Owners(d, i) = {}
      BY <3>1, <3>2, <3>5 DEF Slots, SlotsOf
    <3>6. CASE ~InRange(d, i) /\ Owners(d, i) # {}
      <4>1. PICK g \in Gs : g \in Owners(d, i)
        BY <3>3, <3>6
      <4>2. Owners(d, i) = {g}
        BY <3>2, <3>3, <4>1 DEF TakesAll, TakesOf
      <4>3. IF stage[g] = "take" THEN slot(d, i) \in Vals ELSE slot(d, i) = Cleaned
        BY <3>1, <3>2, <4>1 DEF TakesAll, TakesOf, Taking
      <4> QED BY <3>6, <4>2, <4>3
    <3> QED BY <3>4, <3>5, <3>6
  <2> QED BY <2>1, <2>2
<1>5. ChainLinks
  <2>1. CASE DOMAIN elt = {}
    BY <2>1 DEF ChainLinks
  <2>2. CASE DOMAIN elt # {}
    <3>1. PICK o : /\ Ranked(elt, o, chead)
                   /\ \A d \in DOMAIN elt : o[d] < o[ctail] => elt[d].tail = elt[d].head
      BY <2>2 DEF Listed
    <3>2. ctail \in DOMAIN elt
      BY <2>2 DEF Listed
    <3>3. Chain = Above(elt, o, ctail)
      BY <3>1, <3>2, ChainIs
    <3>4. ASSUME NEW d \in DOMAIN elt
          PROVE  d \in Chain \/ Empty(d)
      <4> o[d] \in Nat /\ o[ctail] \in Nat
        BY <3>1, <3>2 DEF Ranked
      <4> QED BY <3>1, <3>3 DEF Above, Empty
    <3>5. ASSUME NEW d \in DOMAIN elt, NEW g \in Cs, stage[g] = "drop", at[g] = d
          PROVE  Empty(d)
      BY <3>5 DEF Popper, Pops, Empty
    <3> QED BY <3>1, <3>4, <3>5 DEF Ranked, ChainLinks
  <2> QED BY <2>1, <2>2
<1> QED BY <1>3, <1>4, <1>5 DEF ChainStructure

-----------------------------------------------------------------------------
(* Steps: a memory m that differs from elt in little *)

\* No dequeue is added, no next is changed, and only chead is pushed to.
Mild(m) ==
  /\ DOMAIN m = DOMAIN elt
  /\ \A d \in DOMAIN elt :
       /\ m[d] \in Dequeues
       /\ m[d].next = elt[d].next /\ m[d].prev \in {elt[d].prev, None}
       /\ SizeOf(m[d]) = SizeOf(elt[d])
       /\ d # chead /\ elt[d].tail = elt[d].head => m[d].tail = m[d].head

\* Nobody but g moves.
Moves(g) ==
  \A h \in Gs \ {g} : /\ stage'[h] = stage[h] /\ at'[h] = at[h] /\ nxt'[h] = nxt[h]
                      /\ idx'[h] = idx[h] /\ val'[h] = val[h]

\* Such a step keeps the list, and that nothing precedes its tail.
LEMMA MildLinks ==
  ASSUME ChainInv, NEW m, Mild(m)
  PROVE  Shaped(m) /\ Listed(m, chead, ctail)
<1> USE DEF ChainInv, Holds
<1>1. Shaped(m)
  BY DEF Mild, Shaped
<1>2. CASE DOMAIN elt = {}
  BY <1>1, <1>2 DEF Mild, Listed
<1>3. CASE DOMAIN elt # {}
  <2>1. ctail \in DOMAIN elt
    BY <1>3 DEF Listed
  <2>2. PICK o : /\ Ranked(elt, o, chead)
                 /\ \A d \in DOMAIN elt : o[d] < o[ctail] => elt[d].tail = elt[d].head
    BY <1>3 DEF Listed
  <2>3. Ranked(m, o, chead)
    BY <2>2 DEF Mild, Ranked
  <2>4. \A d \in DOMAIN elt : o[d] < o[ctail] => d # chead
    BY <2>1, <2>2 DEF Ranked
  <2>5. \A d \in DOMAIN m : o[d] < o[ctail] => m[d].tail = m[d].head
    BY <2>2, <2>4 DEF Mild
  <2> QED BY <1>1, <2>1, <2>3, <2>5 DEF Mild, Listed
<1> QED BY <1>2, <1>3

\* Only the head of the chain has no next one.
LEMMA LastIsHead ==
  ASSUME ChainInv, NEW d \in DOMAIN elt
  PROVE  /\ elt[d].next = None <=> d = chead
         /\ chead \in DOMAIN elt /\ ctail \in DOMAIN elt /\ d # None
         /\ elt[d].next \in DOMAIN elt \cup {None} /\ elt[d].prev \in DOMAIN elt \cup {None}
         /\ elt[d] \in Dequeues
BY DEF ChainInv, Holds, Listed, Ranked, Shaped

\* The consumers that do not move are none the worse for it.
LEMMA OthersPop ==
  ASSUME ChainInv, NEW m, Mild(m), NEW g \in Gs, Moves(g), NEW h \in Cs, h # g
  PROVE  Pops(m, stage', at', nxt', h)
<1>1. Pops(elt, stage, at, nxt, h)
  BY DEF ChainInv, Holds, Popper
<1>2. /\ stage'[h] = stage[h] /\ at'[h] = at[h] /\ nxt'[h] = nxt[h]
  BY DEF Moves
<1>3. nxt[h] # None => at[h] \in DOMAIN elt /\ at[h] # chead
  BY <1>1, LastIsHead DEF Pops
<1>4. nxt[h] # None => at[h] \in DOMAIN m /\ m[at[h]].next = nxt[h]
  BY <1>1, <1>3 DEF Pops, Mild
<1>5. stage[h] \in {"drop", "unlink"} => nxt[h] # None /\ m[at[h]].tail = m[at[h]].head
  BY <1>1, <1>3 DEF Pops, Mild
<1> QED BY <1>1, <1>2, <1>4, <1>5 DEF Pops

\* Nor is the producer, unless something is pushed.
LEMMA ProducerRests ==
  ASSUME ChainInv, NEW m, Mild(m), NEW g \in Cs, Moves(g),
         \A d \in DOMAIN elt : Between(m[d].tail, m[d].head) <= Between(elt[d].tail, elt[d].head)
  PROVE  Pusher(m, chead, stage', at', nxt', val')
<1>1. /\ stage'[P] = stage[P] /\ at'[P] = at[P] /\ nxt'[P] = nxt[P] /\ val'[P] = val[P]
  BY PoolConstants DEF Moves
<1>2. Pusher(elt, chead, stage, at, nxt, val)
  BY DEF ChainInv, Holds
<1>3. ASSUME stage[P] = "typ"
      PROVE  Between(m[chead].tail, m[chead].head) < SizeOf(m[chead])
  <2>1. chead \in DOMAIN elt /\ Between(elt[chead].tail, elt[chead].head) < SizeOf(elt[chead])
    BY <1>2, <1>3 DEF Pusher
  <2>2. m[chead] \in Dequeues /\ elt[chead] \in Dequeues /\ SizeOf(m[chead]) = SizeOf(elt[chead])
    BY <2>1, LastIsHead DEF Mild
  <2>3. /\ Between(elt[chead].tail, elt[chead].head) \in Nat
        /\ Between(m[chead].tail, m[chead].head) \in Nat /\ SizeOf(elt[chead]) \in Nat
    BY <2>2, RingOf
  <2> QED BY <2>1, <2>2, <2>3
<1> QED BY <1>1, <1>2, <1>3 DEF Pusher, Mild

\* What a step of a consumer has to show,
LEMMA ConsumerStep ==
  ASSUME ChainInv, NEW m, Mild(m), NEW g \in Cs, Moves(g), chead' = chead,
         ctail' = ctail \/ Listed(m, chead, ctail'),
         ChainLocals(stage', at', nxt', idx', val'), {at'[g], nxt'[g]} \subseteq DOMAIN elt \cup {None},
         Slots(m, stage', at', idx'), TakesAll(m, stage', at', idx'), Pops(m, stage', at', nxt', g),
         \A d \in DOMAIN elt : Between(m[d].tail, m[d].head) <= Between(elt[d].tail, elt[d].head)
  PROVE  Holds(m, chead', ctail', stage', at', nxt', idx', val')
<1>1. Shaped(m) /\ Listed(m, chead, ctail')
  BY MildLinks
<1>2. Pointed(m, at', nxt')
  BY DEF Pointed, ChainInv, Holds, Mild, Moves
<1>3. Pusher(m, chead, stage', at', nxt', val')
  BY ProducerRests, Zenon
<1>4. Popper(m, stage', at', nxt')
  <2> SUFFICES ASSUME NEW h \in Cs PROVE Pops(m, stage', at', nxt', h)
    BY DEF Popper
  <2> CASE h = g
    OBVIOUS
  <2> CASE h # g
    BY OthersPop
  <2> QED OBVIOUS
<1> QED BY <1>1, <1>2, <1>3, <1>4 DEF Holds

\* and a step of the producer that leaves chead and ctail alone.
LEMMA ProducerStep ==
  ASSUME ChainInv, NEW m, Mild(m), Moves(P), UNCHANGED <<chead, ctail>>,
         ChainLocals(stage', at', nxt', idx', val'), {at'[P], nxt'[P]} \subseteq DOMAIN elt \cup {None},
         Slots(m, stage', at', idx'), TakesAll(m, stage', at', idx'),
         Pusher(m, chead, stage', at', nxt', val')
  PROVE  Holds(m, chead', ctail', stage', at', nxt', idx', val')
<1>1. Shaped(m) /\ Listed(m, chead, ctail)
  BY MildLinks
<1>2. Pointed(m, at', nxt')
  BY DEF Pointed, ChainInv, Holds, Mild, Moves
<1>3. Popper(m, stage', at', nxt')
  BY OthersPop, PoolConstants DEF Popper
<1> QED BY <1>1, <1>2, <1>3 DEF Holds

-----------------------------------------------------------------------------
(* The slots *)

\* The rings are as they were.
SameRings(m) ==
  /\ DOMAIN m = DOMAIN elt
  /\ \A d \in DOMAIN elt : m[d].head = elt[d].head /\ m[d].tail = elt[d].tail /\ m[d].vals = elt[d].vals

\* Who is taking a value goes on taking it.
Undisturbed(g) ==
  /\ Taking(stage', g) <=> Taking(stage, g)
  /\ Taking(stage, g) => stage'[g] = stage[g] /\ at'[g] = at[g] /\ idx'[g] = idx[g]

\* Where the rings are as they were and nobody starts or ends taking a slot.
LEMMA RingsRest ==
  ASSUME ChainInv, NEW m, SameRings(m), \A g \in Gs : Undisturbed(g)
  PROVE  Slots(m, stage', at', idx') /\ TakesAll(m, stage', at', idx')
<1>1. \A d \in DOMAIN elt : SizeOf(m[d]) = SizeOf(elt[d]) /\ InUse(m[d]) = InUse(elt[d])
  BY DEF SameRings, SizeOf, InUse
<1>2. Slots(m, stage', at', idx')
  <2> SUFFICES ASSUME NEW d \in DOMAIN elt PROVE SlotsOf(m, stage', at', idx', d)
    BY Zenon DEF Slots, SameRings
  <2>1. m[d].head = elt[d].head /\ m[d].tail = elt[d].tail /\ m[d].vals = elt[d].vals
    BY DEF SameRings
  <2>2. SlotsOf(elt, stage, at, idx, d)
    BY DEF ChainInv, Holds, Slots
  <2>3. SizeOf(m[d]) = SizeOf(elt[d]) /\ InUse(m[d]) = InUse(elt[d])
    BY <1>1
  <2>4. \A i : (\E g \in Gs : Taking(stage, g) /\ at[g] = d /\ idx[g] = i)
                => \E g \in Gs : Taking(stage', g) /\ at'[g] = d /\ idx'[g] = i
    BY Zenon DEF Undisturbed
  <2>5. SlotsOf(elt, stage', at', idx', d)
    BY <2>2, <2>4, Zenon DEF SlotsOf
  <2> QED BY <2>1, <2>3, <2>5 DEF SlotsOf
<1>3. TakesAll(m, stage', at', idx')
  <2> SUFFICES ASSUME NEW g \in Gs, Taking(stage', g) PROVE TakesOf(m, stage', at', idx', g)
    BY Zenon DEF TakesAll, TakesOf
  <2>1. TakesOf(elt, stage, at, idx, g) /\ Taking(stage, g)
    BY DEF ChainInv, Holds, TakesAll, Undisturbed
  <2>2. at[g] \in DOMAIN elt
    BY <2>1 DEF TakesOf
  <2>3. TakesOf(elt, stage', at', idx', g)
    BY <2>1, Zenon DEF TakesOf, Undisturbed
  <2>4. at'[g] = at[g]
    BY DEF Undisturbed
  <2>5. m[at[g]].vals = elt[at[g]].vals /\ SizeOf(m[at[g]]) = SizeOf(elt[at[g]]) /\ InUse(m[at[g]]) = InUse(elt[at[g]])
    BY <1>1, <2>2 DEF SameRings
  <2> QED BY <2>2, <2>3, <2>4, <2>5, Zenon DEF TakesOf, SameRings
<1> QED BY <1>2, <1>3

\* Nothing but the slots in use and what is in them changes in dequeue d.
Changed(m, d) ==
  /\ DOMAIN m = DOMAIN elt
  /\ \A e \in DOMAIN elt \ {d} : m[e] = elt[e]
  /\ m[d] \in Dequeues
  /\ m[d].next = elt[d].next /\ m[d].prev = elt[d].prev
  /\ SizeOf(m[d]) = SizeOf(elt[d])

\* The other dequeues are as they were.
LEMMA SlotsElsewhere ==
  ASSUME ChainInv, NEW d \in DOMAIN elt, NEW m, Changed(m, d),
         \A g \in Gs : at[g] # d => Undisturbed(g),
         SlotsOf(m, stage', at', idx', d)
  PROVE  Slots(m, stage', at', idx')
<1> SUFFICES ASSUME NEW e \in DOMAIN elt PROVE SlotsOf(m, stage', at', idx', e)
  BY DEF Slots, Changed
<1>1. CASE e = d
  BY <1>1
<1>2. CASE e # d
  <2>1. SlotsOf(elt, stage, at, idx, e)
    BY DEF ChainInv, Holds, Slots
  <2>2. m[e] = elt[e]
    BY <1>2 DEF Changed
  <2>3. \A i : (\E g \in Gs : Taking(stage, g) /\ at[g] = e /\ idx[g] = i)
                => \E g \in Gs : Taking(stage', g) /\ at'[g] = e /\ idx'[g] = i
    BY <1>2, Zenon DEF Undisturbed
  <2>4. SlotsOf(elt, stage', at', idx', e)
    BY <2>1, <2>3, Zenon DEF SlotsOf
  <2> QED BY <2>2, <2>4, Zenon DEF SlotsOf
<1> QED BY <1>1, <1>2

\* A change of one dequeue is a small one.
LEMMA ChangedMild ==
  ASSUME ChainInv, NEW d \in DOMAIN elt, NEW m, Changed(m, d),
         d # chead /\ elt[d].tail = elt[d].head => m[d].tail = m[d].head
  PROVE  Mild(m)
<1> SUFFICES ASSUME NEW e \in DOMAIN elt
             PROVE  /\ m[e] \in Dequeues
                    /\ m[e].next = elt[e].next /\ m[e].prev \in {elt[e].prev, None}
                    /\ SizeOf(m[e]) = SizeOf(elt[e])
                    /\ e # chead /\ elt[e].tail = elt[e].head => m[e].tail = m[e].head
  BY Zenon DEF Mild, Changed
<1>1. CASE e = d
  BY <1>1 DEF Changed
<1>2. CASE e # d
  BY <1>2, LastIsHead DEF Changed
<1> QED BY <1>1, <1>2

\* A value is pushed into dequeue d.
LEMMA PushedRing ==
  ASSUME ChainInv, NEW d \in DOMAIN elt, NEW v \in Vals,
         Between(elt[d].tail, elt[d].head) < SizeOf(elt[d]),
         elt[d].vals[elt[d].head % SizeOf(elt[d])] = None,
         NEW m, Changed(m, d),
         m[d].head = (elt[d].head + 1) % W, m[d].tail = elt[d].tail,
         m[d].vals = [elt[d].vals EXCEPT ![elt[d].head % SizeOf(elt[d])] = v],
         \A g \in Gs : Undisturbed(g)
  PROVE  Slots(m, stage', at', idx') /\ TakesAll(m, stage', at', idx')
<1> DEFINE ring == elt[d]
           s == SizeOf(ring)
           j == ring.head % s
<1>1. /\ Size(s) /\ s \in Nat \ {0} /\ DOMAIN ring.vals = 0 .. s - 1
      /\ ring.head \in 0 .. W - 1 /\ ring.tail \in 0 .. W - 1 /\ W \in Nat \ {0}
      /\ Between(ring.tail, ring.head) \in Nat
  BY LastIsHead, RingOf, PoolConstants
<1>2. j \in 0 .. s - 1
  BY <1>1
<1>3. /\ Between(m[d].tail, m[d].head) = Between(ring.tail, ring.head) + 1
      /\ Used(ring.tail, Between(ring.tail, ring.head) + 1, s) = Used(ring.tail, Between(ring.tail, ring.head), s) \cup {j}
      /\ j \notin Used(ring.tail, Between(ring.tail, ring.head), s)
  <2> HIDE DEF s
  <2> Between(ring.tail, ring.head) < s
    BY DEF s
  <2> QED BY <1>1, HeadUp
<1>4. SizeOf(m[d]) = s
  BY DEF Changed
<1>5. InUse(m[d]) = InUse(ring) \cup {j} /\ j \notin InUse(ring)
  BY <1>3, <1>4 DEF InUse
<1>6. \A i \in 0 .. s - 1 : m[d].vals[i] = IF i = j THEN v ELSE ring.vals[i]
  BY <1>1
<1>7. SlotsOf(elt, stage, at, idx, d)
  BY DEF ChainInv, Holds, Slots
<1>8. Between(m[d].tail, m[d].head) <= s
  BY <1>1, <1>3
<1> HIDE DEF ring, s, j
<1>9. SlotsOf(m, stage', at', idx', d)
  <2>1. ASSUME NEW i \in 0 .. s - 1
        PROVE  /\ i \in InUse(m[d]) => m[d].vals[i] \in Vals
               /\ i \notin InUse(m[d]) =>
                    m[d].vals[i] = None \/ \E g \in Gs : Taking(stage', g) /\ at'[g] = d /\ idx'[g] = i
    <3>1. /\ i \in InUse(ring) => ring.vals[i] \in Vals
          /\ i \notin InUse(ring) =>
               ring.vals[i] = None \/ \E g \in Gs : Taking(stage, g) /\ at[g] = d /\ idx[g] = i
      BY <1>7, Zenon DEF SlotsOf, ring, s
    <3>2. CASE i = j
      BY <1>5, <1>6, <3>2
    <3>3. CASE i # j
      BY <1>5, <1>6, <3>1, <3>3 DEF Undisturbed
    <3> QED BY <3>2, <3>3
  <2> QED BY <1>4, <1>8, <2>1, Zenon DEF SlotsOf
<1>10. Slots(m, stage', at', idx')
  BY <1>9, SlotsElsewhere
<1>11. TakesAll(m, stage', at', idx')
  <2> SUFFICES ASSUME NEW g \in Gs, Taking(stage, g)
               PROVE  /\ at[g] \in DOMAIN m
                      /\ idx[g] \in 0 .. SizeOf(m[at[g]]) - 1 /\ idx[g] \notin InUse(m[at[g]])
                      /\ stage[g] = "take" => m[at[g]].vals[idx[g]] \in Vals
                      /\ stage[g] = "clean" => m[at[g]].vals[idx[g]] = Cleaned
                      /\ \A h \in Gs : Taking(stage, h) /\ at[h] = at[g] /\ idx[h] = idx[g] => h = g
    BY Zenon DEF TakesAll, TakesOf, Undisturbed
  <2>1. /\ at[g] \in DOMAIN elt
        /\ idx[g] \in 0 .. SizeOf(elt[at[g]]) - 1 /\ idx[g] \notin InUse(elt[at[g]])
        /\ stage[g] = "take" => elt[at[g]].vals[idx[g]] \in Vals
        /\ stage[g] = "clean" => elt[at[g]].vals[idx[g]] = Cleaned
        /\ \A h \in Gs : Taking(stage, h) /\ at[h] = at[g] /\ idx[h] = idx[g] => h = g
    BY Zenon DEF ChainInv, Holds, TakesAll, TakesOf
  <2>2. CASE at[g] # d
    BY <2>1, <2>2 DEF Changed
  <2>3. CASE at[g] = d
    <3>1. idx[g] # j
      <4> ring.vals[j] = None
        BY DEF ring, s, j
      <4> QED BY <2>1, <2>3, PoolConstants DEF Taking, ring
    <3> QED BY <1>4, <1>5, <1>6, <2>1, <2>3, <3>1 DEF ring, s, Changed
  <2> QED BY <2>2, <2>3
<1> QED BY <1>10, <1>11

\* Goroutine g takes slot i of dequeue d out of those in use.
LEMMA PoppedRing ==
  ASSUME ChainInv, NEW d \in DOMAIN elt, NEW g \in Gs, ~Taking(stage, g),
         NEW m, Changed(m, d), m[d].vals = elt[d].vals,
         Between(m[d].tail, m[d].head) <= SizeOf(elt[d]),
         NEW i \in 0 .. SizeOf(elt[d]) - 1, i \in InUse(elt[d]), InUse(m[d]) = InUse(elt[d]) \ {i},
         stage'[g] = "take", at'[g] = d, idx'[g] = i,
         \A h \in Gs \ {g} : Undisturbed(h)
  PROVE  Slots(m, stage', at', idx') /\ TakesAll(m, stage', at', idx')
<1>1. /\ \A h \in Gs : TakesOf(elt, stage, at, idx, h)
      /\ SlotsOf(elt, stage, at, idx, d)
      /\ SizeOf(m[d]) = SizeOf(elt[d])
  BY Zenon DEF ChainInv, Holds, TakesAll, Slots, Changed
<1>2. \A h \in Gs : Taking(stage, h) => h # g
  OBVIOUS
<1>3. Taking(stage', g)
  BY DEF Taking
<1>4. SlotsOf(m, stage', at', idx', d)
  <2>1. ASSUME NEW k \in 0 .. SizeOf(elt[d]) - 1
        PROVE  /\ k \in InUse(m[d]) => m[d].vals[k] \in Vals
               /\ k \notin InUse(m[d]) =>
                    m[d].vals[k] = None \/ \E h \in Gs : Taking(stage', h) /\ at'[h] = d /\ idx'[h] = k
    <3>1. /\ k \in InUse(elt[d]) => elt[d].vals[k] \in Vals
          /\ k \notin InUse(elt[d]) =>
               elt[d].vals[k] = None \/ \E h \in Gs : Taking(stage, h) /\ at[h] = d /\ idx[h] = k
      BY <1>1, Zenon DEF SlotsOf
    <3>2. CASE k = i
      BY <1>3, <3>2
    <3>3. CASE k # i
      <4> k \in InUse(m[d]) <=> k \in InUse(elt[d])
        BY <3>3
      <4> QED BY <1>2, <3>1, Zenon DEF Undisturbed
    <3> QED BY <3>2, <3>3
  <2> QED BY <1>1, <2>1, Zenon DEF SlotsOf
<1>5. Slots(m, stage', at', idx')
  <2>1. CASE at[g] # d
    <3> SUFFICES ASSUME NEW e \in DOMAIN elt PROVE SlotsOf(m, stage', at', idx', e)
      BY DEF Slots, Changed
    <3>1. CASE e = d
      BY <1>4, <3>1
    <3>2. CASE e # d
      <4>1. SlotsOf(elt, stage, at, idx, e)
        BY DEF ChainInv, Holds, Slots
      <4>2. m[e] = elt[e]
        BY <3>2 DEF Changed
      <4>3. \A k : (\E h \in Gs : Taking(stage, h) /\ at[h] = e /\ idx[h] = k)
                    => \E h \in Gs : Taking(stage', h) /\ at'[h] = e /\ idx'[h] = k
        BY <1>2, Zenon DEF Undisturbed
      <4>4. SlotsOf(elt, stage', at', idx', e)
        BY <4>1, <4>3, Zenon DEF SlotsOf
      <4> QED BY <4>2, <4>4, Zenon DEF SlotsOf
    <3> QED BY <3>1, <3>2
  <2>2. CASE at[g] = d
    <3> \A h \in Gs : at[h] # d => Undisturbed(h)
      BY <2>2
    <3> QED BY <1>4, SlotsElsewhere
  <2> QED BY <2>1, <2>2
<1>6. ASSUME NEW h \in Gs, h # g, Taking(stage', h)
      PROVE  TakesOf(m, stage', at', idx', h)
  <2>1. /\ Taking(stage, h) /\ stage'[h] = stage[h] /\ at'[h] = at[h] /\ idx'[h] = idx[h]
    BY <1>6 DEF Undisturbed
  <2>2. /\ at[h] \in DOMAIN elt
        /\ idx[h] \in 0 .. SizeOf(elt[at[h]]) - 1 /\ idx[h] \notin InUse(elt[at[h]])
        /\ stage[h] = "take" => elt[at[h]].vals[idx[h]] \in Vals
        /\ stage[h] = "clean" => elt[at[h]].vals[idx[h]] = Cleaned
        /\ \A k \in Gs : Taking(stage, k) /\ at[k] = at[h] /\ idx[k] = idx[h] => k = h
    BY <1>1, <2>1, Zenon DEF TakesOf
  <2>3. /\ at[h] \in DOMAIN m
        /\ idx[h] \in 0 .. SizeOf(m[at[h]]) - 1 /\ idx[h] \notin InUse(m[at[h]])
        /\ m[at[h]].vals = elt[at[h]].vals
    <3>1. CASE at[h] = d
      BY <1>1, <2>2, <3>1 DEF Changed
    <3>2. CASE at[h] # d
      BY <2>2, <3>2 DEF Changed
    <3> QED BY <3>1, <3>2
  <2>4. ASSUME NEW k \in Gs, Taking(stage', k), at'[k] = at[h], idx'[k] = idx[h]
        PROVE  k = h
    <3>1. CASE k = g
      BY <2>2, <2>4, <3>1
    <3>2. CASE k # g
      BY <2>2, <2>4, <3>2 DEF Undisturbed
    <3> QED BY <3>1, <3>2
  <2> QED BY <2>1, <2>2, <2>3, <2>4, Zenon DEF TakesOf
<1>7. TakesOf(m, stage', at', idx', g)
  <2>1. d \in DOMAIN m /\ i \in 0 .. SizeOf(m[d]) - 1 /\ i \notin InUse(m[d]) /\ m[d].vals[i] \in Vals
    BY <1>1 DEF SlotsOf, Changed
  <2>2. ASSUME NEW k \in Gs, Taking(stage', k), at'[k] = d, idx'[k] = i
        PROVE  k = g
    BY <1>1, <2>2 DEF Undisturbed, TakesOf
  <2>3. stage'[g] # "clean"
    OBVIOUS
  <2> QED BY <2>1, <2>2, <2>3, Zenon DEF TakesOf
<1>8. TakesAll(m, stage', at', idx')
  BY <1>6, <1>7, Zenon DEF TakesAll, TakesOf
<1> QED BY <1>5, <1>8

\* Goroutine g writes v to the slot that it took.
LEMMA FilledRing ==
  ASSUME ChainInv, NEW g \in Gs, Taking(stage, g), NEW v,
         NEW m, Changed(m, at[g]),
         m[at[g]].head = elt[at[g]].head, m[at[g]].tail = elt[at[g]].tail,
         m[at[g]].vals = [elt[at[g]].vals EXCEPT ![idx[g]] = v],
         \/ v = None /\ ~Taking(stage', g)
         \/ v = Cleaned /\ stage'[g] = "clean" /\ at'[g] = at[g] /\ idx'[g] = idx[g],
         \A h \in Gs \ {g} : Undisturbed(h)
  PROVE  Slots(m, stage', at', idx') /\ TakesAll(m, stage', at', idx')
<1> DEFINE d == at[g]
           i == idx[g]
<1>1. /\ \A h \in Gs : TakesOf(elt, stage, at, idx, h)
      /\ d \in DOMAIN elt /\ i \in 0 .. SizeOf(elt[d]) - 1 /\ i \notin InUse(elt[d])
  BY DEF ChainInv, Holds, TakesAll, TakesOf
<1>2. SizeOf(m[d]) = SizeOf(elt[d]) /\ InUse(m[d]) = InUse(elt[d])
  BY DEF Changed, InUse
<1>3. DOMAIN elt[d].vals = 0 .. SizeOf(elt[d]) - 1
  BY <1>1, LastIsHead, RingOf
<1>4. \A k \in 0 .. SizeOf(elt[d]) - 1 : m[d].vals[k] = IF k = i THEN v ELSE elt[d].vals[k]
  BY <1>3
<1>5. SlotsOf(elt, stage, at, idx, d)
  BY <1>1, Zenon DEF ChainInv, Holds, Slots
<1>6. SlotsOf(m, stage', at', idx', d)
  <2>1. ASSUME NEW k \in 0 .. SizeOf(elt[d]) - 1
        PROVE  /\ k \in InUse(m[d]) => m[d].vals[k] \in Vals
               /\ k \notin InUse(m[d]) =>
                    m[d].vals[k] = None \/ \E h \in Gs : Taking(stage', h) /\ at'[h] = d /\ idx'[h] = k
    <3>1. /\ k \in InUse(elt[d]) => elt[d].vals[k] \in Vals
          /\ k \notin InUse(elt[d]) =>
               elt[d].vals[k] = None \/ \E h \in Gs : Taking(stage, h) /\ at[h] = d /\ idx[h] = k
      BY <1>5, Zenon DEF SlotsOf
    <3>2. CASE k = i
      <4>1. m[d].vals[k] = v /\ k \notin InUse(m[d])
        BY <1>1, <1>2, <1>4, <3>2
      <4>2. CASE v = None
        BY <4>1, <4>2
      <4>3. CASE stage'[g] = "clean" /\ at'[g] = at[g] /\ idx'[g] = idx[g]
        BY <4>1, <4>3, <3>2 DEF Taking
      <4> QED BY <4>2, <4>3
    <3>3. CASE k # i
      <4>1. m[d].vals[k] = elt[d].vals[k] /\ (k \in InUse(m[d]) <=> k \in InUse(elt[d]))
        BY <1>2, <1>4, <3>3
      <4>2. \A h \in Gs : idx[h] = k => Undisturbed(h)
        BY <3>3
      <4> QED BY <3>1, <4>1, <4>2, Zenon DEF Undisturbed
    <3> QED BY <3>2, <3>3
  <2>2. Between(m[d].tail, m[d].head) <= SizeOf(m[d])
    BY <1>2, <1>5 DEF SlotsOf
  <2> HIDE DEF d, i
  <2> QED BY <1>2, <2>1, <2>2, Zenon DEF SlotsOf
<1>7. Slots(m, stage', at', idx')
  <2> \A h \in Gs : at[h] # d => Undisturbed(h)
    OBVIOUS
  <2> QED BY <1>1, <1>6, SlotsElsewhere
<1>8. ASSUME NEW h \in Gs, h # g, Taking(stage', h)
      PROVE  TakesOf(m, stage', at', idx', h)
  <2>1. /\ Taking(stage, h) /\ stage'[h] = stage[h] /\ at'[h] = at[h] /\ idx'[h] = idx[h]
    BY <1>8 DEF Undisturbed
  <2>2. /\ at[h] \in DOMAIN elt
        /\ idx[h] \in 0 .. SizeOf(elt[at[h]]) - 1 /\ idx[h] \notin InUse(elt[at[h]])
        /\ stage[h] = "take" => elt[at[h]].vals[idx[h]] \in Vals
        /\ stage[h] = "clean" => elt[at[h]].vals[idx[h]] = Cleaned
        /\ \A k \in Gs : Taking(stage, k) /\ at[k] = at[h] /\ idx[k] = idx[h] => k = h
    BY <1>1, <2>1, Zenon DEF TakesOf
  <2>3. /\ at[h] \in DOMAIN m
        /\ idx[h] \in 0 .. SizeOf(m[at[h]]) - 1 /\ idx[h] \notin InUse(m[at[h]])
        /\ m[at[h]].vals[idx[h]] = elt[at[h]].vals[idx[h]]
    <3>1. CASE at[h] = d
      <4> idx[h] # i
        BY <1>8, <2>1, <2>2, <3>1
      <4> QED BY <1>2, <1>4, <2>2, <3>1 DEF Changed
    <3>2. CASE at[h] # d
      BY <2>2, <3>2 DEF Changed
    <3> QED BY <3>1, <3>2
  <2>4. ASSUME NEW k \in Gs, Taking(stage', k), at'[k] = at[h], idx'[k] = idx[h]
        PROVE  k = h
    <3>1. CASE k = g
      BY <2>2, <2>4, <3>1 DEF Taking
    <3>2. CASE k # g
      BY <2>2, <2>4, <3>2 DEF Undisturbed
    <3> QED BY <3>1, <3>2
  <2> QED BY <2>1, <2>2, <2>3, <2>4, Zenon DEF TakesOf
<1>9. ASSUME Taking(stage', g)
      PROVE  TakesOf(m, stage', at', idx', g)
  <2>1. v = Cleaned /\ stage'[g] = "clean" /\ at'[g] = d /\ idx'[g] = i
    BY <1>9
  <2>2. d \in DOMAIN m /\ i \in 0 .. SizeOf(m[d]) - 1 /\ i \notin InUse(m[d]) /\ m[d].vals[i] = Cleaned
    BY <1>1, <1>2, <1>4, <2>1 DEF Changed
  <2>3. ASSUME NEW k \in Gs, Taking(stage', k), at'[k] = d, idx'[k] = i
        PROVE  k = g
    BY <1>1, <2>3 DEF Undisturbed, TakesOf
  <2>4. stage'[g] # "take"
    BY <2>1
  <2> QED BY <2>1, <2>2, <2>3, <2>4, Zenon DEF TakesOf
<1>10. TakesAll(m, stage', at', idx')
  BY <1>8, <1>9, Zenon DEF TakesAll, TakesOf
<1> QED BY <1>7, <1>10

\* The step that makes m, and the collection of what nothing points to in m.
LEMMA Collects ==
  ASSUME NEW m, Heap(m), Holds(m, chead', ctail', stage', at', nxt', idx', val')
  PROVE  ChainInv'
<1>1. CASE chead' # None
  BY <1>1, Collected
<1>2. CASE chead' = None
  <2>1. ctail' = None /\ DOMAIN m = {}
    BY <1>2 DEF Holds, Listed, Ranked
  <2>2. \A g \in Gs : at'[g] = None /\ nxt'[g] = None
    BY <2>1 DEF Holds, Pointed
  <2>3. Roots' \ {None} = {}
    BY <1>2, <2>1, <2>2 DEF Roots
  <2>4. DOMAIN elt' = {}
    BY <2>3 DEF Heap
  <2>5. Shaped(elt') /\ Pointed(elt', at', nxt') /\ Listed(elt', chead', ctail') /\ Slots(elt', stage', at', idx')
    BY <1>2, <2>1, <2>2, <2>4 DEF Shaped, Pointed, Listed, Slots
  <2>6. TakesAll(elt', stage', at', idx')
    BY <2>1, <2>4 DEF Holds, TakesAll, TakesOf
  <2>7. Pusher(elt', chead', stage', at', nxt', val') /\ Popper(elt', stage', at', nxt')
    BY <2>1, <2>2, <2>4 DEF Holds, Pusher, Popper, Pops
  <2> QED BY <2>5, <2>6, <2>7 DEF Holds, ChainInv
<1> QED BY <1>1, <1>2

\* The memory as it is differs in little from itself.
LEMMA EltMild ==
  ASSUME ChainInv
  PROVE  /\ Mild(elt) /\ SameRings(elt)
         /\ \A d \in DOMAIN elt : Between(elt[d].tail, elt[d].head) <= Between(elt[d].tail, elt[d].head)
<1>1. \A d \in DOMAIN elt : elt[d] \in Dequeues /\ Between(elt[d].tail, elt[d].head) \in Nat
  BY LastIsHead, RingOf
<1> QED BY <1>1 DEF Mild, SameRings

\* Who does not move goes on as before.
LEMMA OthersRest ==
  ASSUME NEW g \in Gs, Moves(g)
  PROVE  \A h \in Gs \ {g} : Undisturbed(h)
BY DEF Moves, Undisturbed, Taking

\* Steps that leave the memory alone.
LEMMA ConsumerWalks ==
  ASSUME ChainInv, NEW g \in Cs, Moves(g), chead' = chead,
         ctail' = ctail \/ Listed(elt, chead, ctail'),
         ChainLocals(stage', at', nxt', idx', val'), {at'[g], nxt'[g]} \subseteq DOMAIN elt \cup {None},
         Undisturbed(g), Pops(elt, stage', at', nxt', g), UNCHANGED elt \/ Heap(elt)
  PROVE  ChainInv'
<1>1. Slots(elt, stage', at', idx') /\ TakesAll(elt, stage', at', idx')
  BY EltMild, OthersRest, RingsRest
<1>2. Holds(elt, chead', ctail', stage', at', nxt', idx', val')
  BY <1>1, EltMild, ConsumerStep
<1>3. CASE UNCHANGED elt
  BY <1>2, <1>3 DEF ChainInv
<1>4. CASE Heap(elt)
  BY <1>2, <1>4, Collects
<1> QED BY <1>3, <1>4

\* The same of the producer.
LEMMA ProducerWalks ==
  ASSUME ChainInv, Moves(P), UNCHANGED <<chead, ctail>>,
         ChainLocals(stage', at', nxt', idx', val'), {at'[P], nxt'[P]} \subseteq DOMAIN elt \cup {None},
         Undisturbed(P), Pusher(elt, chead, stage', at', nxt', val'), UNCHANGED elt \/ Heap(elt)
  PROVE  ChainInv'
<1>1. Slots(elt, stage', at', idx') /\ TakesAll(elt, stage', at', idx')
  BY EltMild, OthersRest, RingsRest
<1>2. Holds(elt, chead', ctail', stage', at', nxt', idx', val')
  BY <1>1, EltMild, ProducerStep
<1>3. CASE UNCHANGED elt
  BY <1>2, <1>3 DEF ChainInv
<1>4. CASE Heap(elt)
  BY <1>2, <1>4, Collects
<1> QED BY <1>3, <1>4

-----------------------------------------------------------------------------
(* The consumers *)

\* The types, from the inductive invariant.
LEMMA Typed ==
  ASSUME ChainInv
  PROVE  /\ ChainLocals(stage, at, nxt, idx, val) /\ Pointed(elt, at, nxt)
         /\ DOMAIN elt \subseteq Elts /\ {chead, ctail} \subseteq DOMAIN elt \cup {None}
         /\ None \notin DOMAIN elt
         /\ chead = None => DOMAIN elt = {} /\ ctail = None
         /\ ctail = None => chead = None
<1>1. None \notin DOMAIN elt
  BY PoolConstants DEF ChainInv, Holds, Shaped
<1> QED BY <1>1 DEF ChainInv, Holds, Listed, Shaped, Ranked

\* A call that is over leaves a goroutine without dequeues.
LEMMA Finished ==
  ASSUME ChainInv, NEW g \in Gs, Over(g)
  PROVE  /\ Moves(g) /\ ChainLocals(stage', at', nxt', idx', val')
         /\ stage'[g] = "idle" /\ at'[g] = None /\ nxt'[g] = None /\ val'[g] = None
<1>1. ChainLocals(stage, at, nxt, idx, val) /\ 0 \in 0 .. dequeueLimit - 1
  BY Typed, PoolConstants
<1> QED BY <1>1 DEF Over, Proceed, Local, ChainLocals, Moves

\* poolChain.popTail loads c.tail.
LEMMA PopTailCallKeeps ==
  ASSUME ChainInv, NEW g \in Cs, PopTailCall(g)
  PROVE  ChainInv'
<1>1. Moves(g) /\ ChainLocals(stage', at', nxt', idx', val')
  BY Typed DEF PopTailCall, Proceed, Local, ChainLocals, Moves
<1>2. stage'[g] = "next" /\ at'[g] = ctail /\ nxt'[g] = nxt[g] /\ stage[g] = "idle"
  BY Typed DEF PopTailCall, Proceed, Local, ChainLocals
<1>3. nxt[g] = None
  BY <1>2 DEF ChainInv, Holds, Popper, Pops
<1> QED BY <1>1, <1>2, <1>3, Typed, ConsumerWalks DEF PopTailCall, Undisturbed, Taking, Pops

\* The next of d is loaded before the pop: it is not removed while d is held.
LEMMA LoadNextKeeps ==
  ASSUME ChainInv, NEW g \in Cs, LoadNext(g)
  PROVE  ChainInv'
<1>1. at[g] \in DOMAIN elt
  BY Typed DEF LoadNext, Pointed
<1>2. elt[at[g]].next \in DOMAIN elt \cup {None}
  BY <1>1, LastIsHead
<1>3. Moves(g) /\ ChainLocals(stage', at', nxt', idx', val')
  BY <1>2, Typed DEF LoadNext, Proceed, Local, ChainLocals, Moves
<1>4. stage[g] = "next" /\ stage'[g] = "pop" /\ at'[g] = at[g] /\ nxt'[g] = elt[at[g]].next
  BY Typed DEF LoadNext, Proceed, Local, ChainLocals
<1>5. Pops(elt, stage', at', nxt', g)
  BY <1>1, <1>4 DEF LoadNext, Pops
<1>6. Undisturbed(g)
  BY <1>4 DEF Undisturbed, Taking
<1> QED BY <1>1, <1>2, <1>3, <1>4, <1>5, <1>6, ConsumerWalks DEF LoadNext

\* popTail gives up: the locals go, and with them what only they reached.
LEMMA PopTailFailsKeeps ==
  ASSUME ChainInv, NEW g \in Cs, PopTailFails(g)
  PROVE  ChainInv'
<1>1. /\ Moves(g) /\ ChainLocals(stage', at', nxt', idx', val')
      /\ stage'[g] = "idle" /\ at'[g] = None /\ nxt'[g] = None
  BY Finished DEF PopTailFails
<1>2. Pops(elt, stage', at', nxt', g)
  BY <1>1 DEF Pops
<1>3. Undisturbed(g)
  BY <1>1 DEF PopTailFails, Undisturbed, Taking
<1> QED BY <1>1, <1>2, <1>3, ConsumerWalks DEF PopTailFails

\* What a consumer that drops its dequeue knows.
LEMMA Drained ==
  ASSUME ChainInv, NEW g \in Cs, stage[g] \in {"drop", "unlink"}
  PROVE  /\ at[g] \in DOMAIN elt /\ nxt[g] \in DOMAIN elt
         /\ elt[at[g]].next = nxt[g] /\ elt[at[g]].tail = elt[at[g]].head
BY Typed DEF ChainInv, Holds, Popper, Pops, Pointed

\* The CompareAndSwap of c.tail, which passes over an empty dequeue only.
LEMMA DropKeeps ==
  ASSUME ChainInv, NEW g \in Cs, Drop(g)
  PROVE  ChainInv'
<1>1. /\ at[g] \in DOMAIN elt /\ nxt[g] \in DOMAIN elt
      /\ elt[at[g]].next = nxt[g] /\ elt[at[g]].tail = elt[at[g]].head
  BY Drained DEF Drop
<1>2. nxt[g] # None /\ at[g] # None /\ None \in DOMAIN elt \cup {None}
  BY <1>1, Typed
<1>3. CASE ctail = at[g]
  <2>1. Moves(g) /\ ChainLocals(stage', at', nxt', idx', val')
    BY <1>3, Typed DEF Drop, Proceed, Local, ChainLocals, Moves
  <2>2. stage[g] = "drop" /\ stage'[g] = "unlink" /\ at'[g] = at[g] /\ nxt'[g] = nxt[g] /\ ctail' = nxt[g]
    BY <1>3, Typed DEF Drop, Proceed, Local, ChainLocals
  <2>3. Pops(elt, stage', at', nxt', g)
    BY <1>1, <1>2, <2>2 DEF Pops
  <2>4. Undisturbed(g)
    BY <2>2 DEF Undisturbed, Taking
  <2>5. PICK o : /\ Ranked(elt, o, chead)
                 /\ \A d \in DOMAIN elt : o[d] < o[ctail] => elt[d].tail = elt[d].head
    BY <1>1 DEF ChainInv, Holds, Listed
  <2>6. o[nxt[g]] = o[ctail] + 1 /\ \A d \in DOMAIN elt : o[d] \in Nat
    BY <1>1, <1>2, <1>3, <2>5 DEF Ranked
  <2>7. \A d \in DOMAIN elt : o[d] < o[nxt[g]] => o[d] < o[ctail] \/ d = ctail
    BY <1>1, <1>3, <2>5, <2>6 DEF Ranked
  <2>8. Listed(elt, chead, ctail')
    BY <1>1, <1>3, <2>2, <2>5, <2>7 DEF Listed
  <2> QED BY <1>1, <2>1, <2>2, <2>3, <2>4, <2>8, ConsumerWalks DEF Drop
<1>4. CASE ctail # at[g]
  <2>1. Moves(g) /\ ChainLocals(stage', at', nxt', idx', val')
    BY <1>4, Typed DEF Drop, Proceed, Local, ChainLocals, Moves
  <2>2. stage[g] = "drop" /\ stage'[g] = "next" /\ at'[g] = nxt[g] /\ nxt'[g] = None /\ ctail' = ctail
    BY <1>4, Typed DEF Drop, Proceed, Local, ChainLocals
  <2>3. Pops(elt, stage', at', nxt', g)
    BY <2>2 DEF Pops
  <2>4. Undisturbed(g)
    BY <2>2 DEF Undisturbed, Taking
  <2> QED BY <1>1, <1>2, <2>1, <2>2, <2>3, <2>4, ConsumerWalks DEF Drop
<1> QED BY <1>3, <1>4

\* StorePoolChainElt(&d2.prev, nil)
LEMMA UnlinkKeeps ==
  ASSUME ChainInv, NEW g \in Cs, Unlink(g)
  PROVE  ChainInv'
<1> DEFINE m == [elt EXCEPT ![nxt[g]].prev = None]
<1>1. at[g] \in DOMAIN elt /\ nxt[g] \in DOMAIN elt
  BY Drained DEF Unlink
<1>2. ASSUME NEW d \in DOMAIN elt
      PROVE  /\ m[d] \in Dequeues /\ m[d].next = elt[d].next /\ m[d].prev \in {elt[d].prev, None}
             /\ m[d].head = elt[d].head /\ m[d].tail = elt[d].tail /\ m[d].vals = elt[d].vals
  <2> elt[d] \in Dequeues
    BY LastIsHead
  <2> QED BY DEF Dequeues
<1>3. Mild(m) /\ SameRings(m)
  BY <1>2 DEF Mild, SameRings, SizeOf
<1>4. \A d \in DOMAIN elt : Between(m[d].tail, m[d].head) <= Between(elt[d].tail, elt[d].head)
  BY <1>2, EltMild
<1>5. Moves(g) /\ ChainLocals(stage', at', nxt', idx', val')
  BY Typed DEF Unlink, Proceed, Local, ChainLocals, Moves
<1>6. stage[g] = "unlink" /\ stage'[g] = "next" /\ at'[g] = nxt[g] /\ nxt'[g] = None
  BY Typed DEF Unlink, Proceed, Local, ChainLocals
<1> HIDE DEF m
<1>7. Pops(m, stage', at', nxt', g)
  BY <1>6 DEF Pops
<1>8. Undisturbed(g)
  BY <1>6 DEF Undisturbed, Taking
<1>9. Slots(m, stage', at', idx') /\ TakesAll(m, stage', at', idx')
  BY <1>3, <1>5, <1>8, OthersRest, RingsRest
<1>10. Holds(m, chead', ctail', stage', at', nxt', idx', val')
  BY <1>1, <1>3, <1>4, <1>5, <1>6, <1>7, <1>9, ConsumerStep DEF Unlink
<1>11. Heap(m)
  BY DEF Unlink, m
<1> QED BY <1>10, <1>11, Collects

\* The memory after slot i % size(d) was written.
LEMMA FillIs ==
  ASSUME ChainInv, NEW d \in DOMAIN elt, NEW i \in Nat, NEW v \in Vals \cup {None, Cleaned}
  PROVE  LET m == Fill(d, i, v) IN
         /\ Changed(m, d)
         /\ m[d].head = elt[d].head /\ m[d].tail = elt[d].tail
         /\ m[d].vals = [elt[d].vals EXCEPT ![i % SizeOf(elt[d])] = v]
<1> DEFINE m == Fill(d, i, v)
           s == SizeOf(elt[d])
<1>1. /\ s \in Nat \ {0} /\ s \in RingSizes /\ elt[d].vals \in Rings(s) /\ elt[d] \in Dequeues
      /\ s = size(d)
  BY LastIsHead, RingOf, InWords DEF ChainInv, Holds
<1>2. i % s \in 0 .. s - 1
  BY <1>1
<1>3. m = [elt EXCEPT ![d].vals[i % s] = v]
  BY <1>1, Zenon DEF Fill
<1>4. /\ DOMAIN m = DOMAIN elt /\ \A e \in DOMAIN elt \ {d} : m[e] = elt[e]
      /\ m[d] = [elt[d] EXCEPT !.vals = [elt[d].vals EXCEPT ![i % s] = v]]
  BY <1>3
<1>5. [elt[d].vals EXCEPT ![i % s] = v] \in Rings(s)
  BY <1>1, <1>2 DEF Rings
<1> HIDE DEF m, s
<1>6. /\ m[d] \in Dequeues /\ m[d].head = elt[d].head /\ m[d].tail = elt[d].tail
      /\ m[d].next = elt[d].next /\ m[d].prev = elt[d].prev
      /\ m[d].vals = [elt[d].vals EXCEPT ![i % s] = v]
  BY <1>1, <1>4, <1>5 DEF Dequeues
<1>7. SizeOf(m[d]) = s
  BY <1>1, <1>5, <1>6, SizeOfRing DEF SizeOf
<1> QED BY <1>4, <1>6, <1>7 DEF Changed, m, s

\* What who is taking a value knows.
LEMMA Taker ==
  ASSUME ChainInv, NEW g \in Gs, Taking(stage, g)
  PROVE  /\ at[g] \in DOMAIN elt /\ idx[g] \in Nat /\ idx[g] % SizeOf(elt[at[g]]) = idx[g]
         /\ slot(at[g], idx[g]) = elt[at[g]].vals[idx[g]]
         /\ stage[g] = "take" => slot(at[g], idx[g]) \in Vals
<1>1. /\ at[g] \in DOMAIN elt /\ idx[g] \in 0 .. SizeOf(elt[at[g]]) - 1
      /\ stage[g] = "take" => elt[at[g]].vals[idx[g]] \in Vals
  BY DEF ChainInv, Holds, TakesAll, TakesOf
<1>2. SizeOf(elt[at[g]]) \in Nat \ {0} /\ size(at[g]) = SizeOf(elt[at[g]])
  BY <1>1, LastIsHead, RingOf, InWords DEF ChainInv, Holds
<1>3. idx[g] % SizeOf(elt[at[g]]) = idx[g]
  <2> DEFINE s == SizeOf(elt[at[g]])
  <2> HIDE DEF s
  <2>1. s \in Nat \ {0} /\ idx[g] \in 0 .. s - 1 /\ s * 0 + idx[g] = idx[g]
    BY <1>1, <1>2 DEF s
  <2>2. (s * 0 + idx[g]) % s = idx[g]
    BY <2>1, Quotient
  <2>3. idx[g] % s = idx[g]
    BY <2>1, <2>2
  <2> QED BY <2>3 DEF s
<1>4. slot(at[g], idx[g]) = elt[at[g]].vals[idx[g]]
  BY <1>1, <1>2, InWords DEF ChainInv, Holds
<1> QED BY <1>1, <1>3, <1>4

\* popTail reads its slot and sets val to nil: the slot is its own.
LEMMA TakeTailKeeps ==
  ASSUME ChainInv, NEW g \in Cs, TakeTail(g)
  PROVE  ChainInv'
<1> DEFINE m == Fill(at[g], idx[g], Cleaned)
           d == at[g]
<1>1. Taking(stage, g) /\ stage[g] = "take"
  BY DEF TakeTail, Taking
<1>2. /\ d \in DOMAIN elt /\ idx[g] \in Nat /\ idx[g] % SizeOf(elt[d]) = idx[g]
      /\ slot(d, idx[g]) \in Vals
  BY <1>1, Taker
<1>3. /\ Changed(m, d) /\ m[d].head = elt[d].head /\ m[d].tail = elt[d].tail
      /\ m[d].vals = [elt[d].vals EXCEPT ![idx[g]] = Cleaned]
  BY <1>2, FillIs
<1>4. Moves(g) /\ ChainLocals(stage', at', nxt', idx', val')
  BY <1>2, Typed DEF TakeTail, Proceed, Local, ChainLocals, Moves
<1>5. stage'[g] = "clean" /\ at'[g] = at[g] /\ nxt'[g] = nxt[g] /\ idx'[g] = idx[g]
  BY Typed DEF TakeTail, Proceed, Local, ChainLocals
<1>6. Heap(m)
  BY DEF TakeTail
<1> HIDE DEF m
<1>7. Slots(m, stage', at', idx') /\ TakesAll(m, stage', at', idx')
  BY <1>1, <1>2, <1>3, <1>4, <1>5, OthersRest, FilledRing
<1>8. Mild(m) /\ \A e \in DOMAIN elt : Between(m[e].tail, m[e].head) <= Between(elt[e].tail, elt[e].head)
  <2>1. Mild(m)
    BY <1>2, <1>3, ChangedMild
  <2>2. \A e \in DOMAIN elt : Between(m[e].tail, m[e].head) = Between(elt[e].tail, elt[e].head)
    BY <1>3 DEF Changed
  <2> QED BY <2>1, <2>2, EltMild
<1>9. nxt[g] = None /\ Pops(m, stage', at', nxt', g)
  <2> Pops(elt, stage, at, nxt, g)
    BY DEF ChainInv, Holds, Popper
  <2> QED BY <1>1, <1>5 DEF Pops
<1>10. Holds(m, chead', ctail', stage', at', nxt', idx', val')
  BY <1>2, <1>4, <1>5, <1>7, <1>8, <1>9, ConsumerStep DEF TakeTail
<1> QED BY <1>6, <1>10, Collects

\* popTail stores nil to typ, which gives the slot back.
LEMMA CleanKeeps ==
  ASSUME ChainInv, NEW g \in Cs, Clean(g)
  PROVE  ChainInv'
<1> DEFINE m == Fill(at[g], idx[g], None)
           d == at[g]
<1>1. Taking(stage, g)
  BY DEF Clean, Taking
<1>2. d \in DOMAIN elt /\ idx[g] \in Nat /\ idx[g] % SizeOf(elt[d]) = idx[g]
  BY <1>1, Taker
<1>3. /\ Changed(m, d) /\ m[d].head = elt[d].head /\ m[d].tail = elt[d].tail
      /\ m[d].vals = [elt[d].vals EXCEPT ![idx[g]] = None]
  BY <1>2, FillIs
<1>4. /\ Moves(g) /\ ChainLocals(stage', at', nxt', idx', val')
      /\ stage'[g] = "idle" /\ at'[g] = None /\ nxt'[g] = None
  BY Finished DEF Clean
<1>5. ~Taking(stage', g)
  BY <1>4 DEF Taking
<1>6. Heap(m)
  BY DEF Clean
<1> HIDE DEF m
<1>7. Slots(m, stage', at', idx') /\ TakesAll(m, stage', at', idx')
  BY <1>1, <1>2, <1>3, <1>4, <1>5, OthersRest, FilledRing
<1>8. Mild(m) /\ \A e \in DOMAIN elt : Between(m[e].tail, m[e].head) <= Between(elt[e].tail, elt[e].head)
  <2>1. Mild(m)
    BY <1>2, <1>3, ChangedMild
  <2>2. \A e \in DOMAIN elt : Between(m[e].tail, m[e].head) = Between(elt[e].tail, elt[e].head)
    BY <1>3 DEF Changed
  <2> QED BY <2>1, <2>2, EltMild
<1>9. Pops(m, stage', at', nxt', g)
  BY <1>4 DEF Pops
<1>10. Holds(m, chead', ctail', stage', at', nxt', idx', val')
  BY <1>2, <1>4, <1>7, <1>8, <1>9, ConsumerStep DEF Clean
<1> QED BY <1>6, <1>10, Collects

\* The memory after tail, or head, was changed.
TailAt(d, u) == [elt EXCEPT ![d].tail = u]
\* Nothing else has changed.
LEMMA TailIs ==
  ASSUME ChainInv, NEW d \in DOMAIN elt, NEW u \in 0 .. W - 1, NEW m, m = TailAt(d, u)
  PROVE  Changed(m, d) /\ m[d].vals = elt[d].vals /\ m[d].head = elt[d].head /\ m[d].tail = u
<1>1. elt[d] \in Dequeues
  BY LastIsHead
<1>2. /\ DOMAIN m = DOMAIN elt /\ \A e \in DOMAIN elt \ {d} : m[e] = elt[e]
      /\ m[d] = [elt[d] EXCEPT !.tail = u]
  BY DEF TailAt
<1>3. /\ m[d] \in Dequeues /\ m[d].head = elt[d].head /\ m[d].tail = u
      /\ m[d].next = elt[d].next /\ m[d].prev = elt[d].prev /\ m[d].vals = elt[d].vals
  BY <1>1, <1>2 DEF Dequeues
<1> QED BY <1>2, <1>3 DEF Changed, SizeOf

\* The same of head.
HeadAt(d, u) == [elt EXCEPT ![d].head = u]
\* Nothing else has changed.
LEMMA HeadIs ==
  ASSUME ChainInv, NEW d \in DOMAIN elt, NEW u \in 0 .. W - 1, NEW m, m = HeadAt(d, u)
  PROVE  Changed(m, d) /\ m[d].vals = elt[d].vals /\ m[d].head = u /\ m[d].tail = elt[d].tail
<1>1. elt[d] \in Dequeues
  BY LastIsHead
<1>2. /\ DOMAIN m = DOMAIN elt /\ \A e \in DOMAIN elt \ {d} : m[e] = elt[e]
      /\ m[d] = [elt[d] EXCEPT !.head = u]
  BY DEF HeadAt
<1>3. /\ m[d] \in Dequeues /\ m[d].head = u /\ m[d].tail = elt[d].tail
      /\ m[d].next = elt[d].next /\ m[d].prev = elt[d].prev /\ m[d].vals = elt[d].vals
  BY <1>1, <1>2 DEF Dequeues
<1> QED BY <1>2, <1>3 DEF Changed, SizeOf

\* The CompareAndSwap of popTail: the slot at tail becomes its own.
LEMMA PopTailKeeps ==
  ASSUME ChainInv, NEW g \in Cs, PopTail(g)
  PROVE  ChainInv'
<1> DEFINE d == at[g]
<1>1. stage[g] = "pop" /\ Pops(elt, stage, at, nxt, g)
  BY DEF PopTail, ChainInv, Holds, Popper
<1>2. d \in DOMAIN elt
  BY <1>1, Typed DEF Pointed, Pops
<1>3. /\ Empty(d) <=> elt[d].tail = elt[d].head
      /\ size(d) = SizeOf(elt[d])
  BY <1>2, InWords DEF ChainInv, Holds
<1>4. CASE Empty(d)
  <2>1. Moves(g) /\ ChainLocals(stage', at', nxt', idx', val')
    BY <1>4, Typed DEF PopTail, Proceed, Local, ChainLocals, Moves
  <2>2. stage'[g] = "drop" /\ at'[g] = at[g] /\ nxt'[g] = nxt[g] /\ nxt[g] # None
    BY <1>4, Typed DEF PopTail, Proceed, Local, ChainLocals
  <2>3. Pops(elt, stage', at', nxt', g)
    BY <1>1, <1>3, <1>4, <2>2 DEF Pops
  <2>4. Undisturbed(g)
    BY <1>1, <2>2 DEF Undisturbed, Taking
  <2>5. {at'[g], nxt'[g]} \subseteq DOMAIN elt \cup {None}
    BY <2>2, Typed DEF Pointed
  <2> QED BY <1>4, <2>1, <2>3, <2>4, <2>5, ConsumerWalks DEF PopTail
<1>5. CASE ~Empty(d)
  <2> DEFINE h == elt[d].head
             t == elt[d].tail
             s == SizeOf(elt[d])
             m == [elt EXCEPT ![d].tail = (@ + 1) % W]
  <2>1. /\ h \in 0 .. W - 1 /\ t \in 0 .. W - 1 /\ Size(s) /\ s \in Nat \ {0}
        /\ s \in initSize .. dequeueLimit /\ W \in Nat \ {0}
        /\ Between(t, h) \in Nat /\ Between(t, h) # 0
    BY <1>2, <1>3, <1>5, LastIsHead, RingOf, PoolConstants
  <2>2. Between(t, h) <= s
    BY <1>2 DEF ChainInv, Holds, Slots, SlotsOf
  <2>3. /\ (t + 1) % W \in 0 .. W - 1
        /\ Between((t + 1) % W, h) = Between(t, h) - 1
        /\ Used((t + 1) % W, Between(t, h) - 1, s) = Used(t, Between(t, h), s) \ {t % s}
        /\ t % s \in Used(t, Between(t, h), s)
    <3> HIDE DEF h, t, s
    <3> QED BY <2>1, <2>2, TailUp
  <2>4. Changed(m, d) /\ m[d].vals = elt[d].vals /\ m[d].head = h /\ m[d].tail = (t + 1) % W
    <3> DEFINE u == (t + 1) % W
    <3>1. u \in 0 .. W - 1 /\ m = TailAt(d, u)
      BY <2>3 DEF TailAt
    <3> HIDE DEF m, u
    <3>2. Changed(m, d) /\ m[d].vals = elt[d].vals /\ m[d].head = elt[d].head /\ m[d].tail = u
      BY <1>2, <3>1, TailIs
    <3> QED BY <3>2 DEF u
  <2>5. InUse(m[d]) = InUse(elt[d]) \ {t % s} /\ t % s \in InUse(elt[d])
    BY <2>3, <2>4 DEF InUse, Changed
  <2>6. t % s \in 0 .. s - 1 /\ t % s \in 0 .. dequeueLimit - 1
    <3> HIDE DEF t, s
    <3>1. t % s \in 0 .. s - 1
      BY <2>1
    <3>2. s <= dequeueLimit /\ dequeueLimit \in Nat /\ s \in Nat
      BY <2>1, PoolConstants
    <3> HIDE DEF h
    <3> QED BY <3>1, <3>2
  <2>7. Moves(g) /\ ChainLocals(stage', at', nxt', idx', val')
    BY <1>3, <1>5, <2>6, Typed DEF PopTail, Proceed, Local, ChainLocals, Moves
  <2>8. stage'[g] = "take" /\ at'[g] = d /\ nxt'[g] = None /\ idx'[g] = t % s
    BY <1>3, <1>5, Typed DEF PopTail, Proceed, Local, ChainLocals
  <2>9. Heap(m)
    BY <1>5 DEF PopTail
  <2> HIDE DEF m, h, t, s
  <2>10. ~Taking(stage, g) /\ s = SizeOf(elt[d])
    BY <1>1 DEF Taking, s
  <2>11. Between(m[d].tail, m[d].head) <= s
    BY <2>1, <2>2, <2>3, <2>4
  <2>12. Slots(m, stage', at', idx') /\ TakesAll(m, stage', at', idx')
    BY <1>2, <2>4, <2>5, <2>6, <2>7, <2>8, <2>10, <2>11, OthersRest, PoppedRing
  <2>13. Mild(m)
    BY <1>2, <1>3, <1>5, <2>4, ChangedMild
  <2>14. \A e \in DOMAIN elt : Between(m[e].tail, m[e].head) <= Between(elt[e].tail, elt[e].head)
    <3> SUFFICES ASSUME NEW e \in DOMAIN elt
                 PROVE  Between(m[e].tail, m[e].head) <= Between(elt[e].tail, elt[e].head)
      OBVIOUS
    <3>1. CASE e = d
      BY <2>1, <2>3, <2>4, <3>1 DEF h, t
    <3>2. CASE e # d
      BY <2>4, <3>2, EltMild DEF Changed
    <3> QED BY <3>1, <3>2
  <2>15. Pops(m, stage', at', nxt', g)
    BY <1>2, <2>8, Typed DEF Pops
  <2>16. Holds(m, chead', ctail', stage', at', nxt', idx', val')
    BY <1>2, <2>7, <2>8, <2>12, <2>13, <2>14, <2>15, ConsumerStep DEF PopTail
  <2> QED BY <2>9, <2>16, Collects
<1> QED BY <1>4, <1>5

-----------------------------------------------------------------------------
(* The producer *)

\* What the producer knows.
LEMMA PusherNow == ASSUME ChainInv PROVE Pusher(elt, chead, stage, at, nxt, val)
BY DEF ChainInv, Holds

\* A ring that is not full has room.
LEMMA HasRoom ==
  ASSUME ChainInv, NEW d \in DOMAIN elt, ~Full(d)
  PROVE  Between(elt[d].tail, elt[d].head) < SizeOf(elt[d])
<1> DEFINE h == elt[d].head
           t == elt[d].tail
           s == SizeOf(elt[d])
<1>1. /\ h \in 0 .. W - 1 /\ t \in 0 .. W - 1 /\ s \in Nat \ {0} /\ s <= dequeueLimit
      /\ W \in Nat \ {0} /\ dequeueLimit \in Nat \ {0} /\ 2 * dequeueLimit <= W /\ size(d) = s
  BY LastIsHead, RingOf, PoolConstants, InWords DEF ChainInv, Holds
<1>2. Between(t, h) <= s
  BY DEF ChainInv, Holds, Slots, SlotsOf
<1>3. (t + s) % W # h
  BY <1>1 DEF Full
<1> HIDE DEF h, t, s
<1>4. Between(t, h) = (IF t <= h THEN h - t ELSE h + W - t) /\ Between(t, h) \in Nat
  BY <1>1, RingCounted
<1>5. ASSUME Between(t, h) = s
      PROVE  FALSE
  <2>1. CASE t <= h
    <3>1. t + s = W * 0 + h
      BY <1>1, <1>4, <1>5, <2>1
    <3>2. (W * 0 + h) % W = h
      BY <1>1, Quotient
    <3> QED BY <1>3, <3>1, <3>2
  <2>2. CASE h < t
    <3>1. t + s = W * 1 + h
      BY <1>1, <1>4, <1>5, <2>2
    <3>2. (W * 1 + h) % W = h
      BY <1>1, Quotient
    <3> QED BY <1>3, <3>1, <3>2
  <2> QED BY <1>1, <2>1, <2>2
<1>6. Between(t, h) < s
  BY <1>1, <1>2, <1>4, <1>5
<1> QED BY <1>6 DEF h, t, s

\* The memory after a push.
LEMMA PushedIs ==
  ASSUME ChainInv, NEW d \in DOMAIN elt, val[P] \in Vals
  PROVE  LET m == Pushed(d) IN
         /\ Changed(m, d)
         /\ m[d].head = (elt[d].head + 1) % W /\ m[d].tail = elt[d].tail
         /\ m[d].vals = [elt[d].vals EXCEPT ![elt[d].head % SizeOf(elt[d])] = val[P]]
<1> DEFINE f == Fill(d, elt[d].head, val[P])
           u == (elt[d].head + 1) % W
<1>1. elt[d].head \in 0 .. W - 1 /\ W \in Nat \ {0}
  BY LastIsHead, RingOf, PoolConstants
<1>2. elt[d].head \in Nat /\ u \in 0 .. W - 1
  BY <1>1, RingCounted
<1>3. /\ Changed(f, d)
      /\ f[d].head = elt[d].head /\ f[d].tail = elt[d].tail
      /\ f[d].vals = [elt[d].vals EXCEPT ![elt[d].head % SizeOf(elt[d])] = val[P]]
  BY <1>2, FillIs
<1>4. Pushed(d) = [f EXCEPT ![d].head = (f[d].head + 1) % W]
  BY DEF Pushed
<1>5. Pushed(d) = [f EXCEPT ![d].head = u]
  BY <1>3, <1>4
<1> DEFINE m == Pushed(d)
<1> HIDE DEF f, u
<1>6. /\ DOMAIN m = DOMAIN elt /\ \A e \in DOMAIN elt \ {d} : m[e] = elt[e]
      /\ m[d] = [f[d] EXCEPT !.head = u]
  BY <1>3, <1>5 DEF Changed
<1>7. f[d] \in Dequeues
  BY <1>3 DEF Changed
<1> HIDE DEF m
<1>8. /\ m[d] \in Dequeues /\ m[d].head = u /\ m[d].tail = f[d].tail
      /\ m[d].next = f[d].next /\ m[d].prev = f[d].prev /\ m[d].vals = f[d].vals
  BY <1>2, <1>6, <1>7 DEF Dequeues
<1>9. Changed(m, d)
  BY <1>3, <1>6, <1>8 DEF Changed, SizeOf
<1> QED BY <1>3, <1>8, <1>9 DEF m, u

\* A push that finds room and an empty slot.
LEMMA PushKeeps ==
  ASSUME ChainInv, stage[P] \in {"typ", "new"},
         Between(elt[at[P]].tail, elt[at[P]].head) < SizeOf(elt[at[P]]),
         slot(at[P], elt[at[P]].head) = None,
         Over(P), UNCHANGED <<chead, ctail>>, Heap(Pushed(at[P]))
  PROVE  ChainInv'
<1> DEFINE d == at[P]
           m == Pushed(d)
<1>1. d = chead /\ d \in DOMAIN elt /\ val[P] \in Vals
  BY PusherNow DEF Pusher
<1>2. elt[d].vals[elt[d].head % SizeOf(elt[d])] = None
  BY <1>1, InWords DEF ChainInv, Holds
<1>3. /\ Changed(m, d)
      /\ m[d].head = (elt[d].head + 1) % W /\ m[d].tail = elt[d].tail
      /\ m[d].vals = [elt[d].vals EXCEPT ![elt[d].head % SizeOf(elt[d])] = val[P]]
  BY <1>1, PushedIs
<1>4. /\ Moves(P) /\ ChainLocals(stage', at', nxt', idx', val')
      /\ stage'[P] = "idle" /\ at'[P] = None /\ nxt'[P] = None
  BY Finished
<1>5. \A g \in Gs : Undisturbed(g)
  <2> Undisturbed(P)
    BY <1>4 DEF Undisturbed, Taking
  <2> QED BY <1>4, OthersRest
<1> HIDE DEF m
<1>6. Slots(m, stage', at', idx') /\ TakesAll(m, stage', at', idx')
  BY <1>1, <1>2, <1>3, <1>5, PushedRing
<1>7. Mild(m)
  BY <1>1, <1>3, ChangedMild
<1>8. Pusher(m, chead, stage', at', nxt', val')
  BY <1>4 DEF Pusher
<1>9. Holds(m, chead', ctail', stage', at', nxt', idx', val')
  BY <1>4, <1>6, <1>7, <1>8, ProducerStep
<1> QED BY <1>9, Collects DEF m

\* pushHead finds the typ of its slot nil, or not yet.
LEMMA PushTypKeeps ==
  ASSUME ChainInv, PushTyp
  PROVE  ChainInv'
<1>1. /\ stage[P] = "typ" /\ at[P] = chead /\ chead \in DOMAIN elt /\ val[P] \in Vals /\ nxt[P] = None
      /\ Between(elt[chead].tail, elt[chead].head) < SizeOf(elt[chead])
  BY PusherNow DEF PushTyp, Pusher
<1>2. CASE slot(at[P], elt[at[P]].head) # None
  <2>1. Moves(P) /\ ChainLocals(stage', at', nxt', idx', val')
    BY <1>2, Typed DEF PushTyp, Proceed, Local, ChainLocals, Moves
  <2>2. stage'[P] = "grow" /\ UNCHANGED <<elt, chead, ctail, at, nxt, idx, val>>
    BY <1>2, Typed DEF PushTyp, Proceed, Local, ChainLocals
  <2>3. Undisturbed(P)
    BY <1>1, <2>2 DEF Undisturbed, Taking
  <2>4. Pusher(elt, chead, stage', at', nxt', val')
    BY <1>1, <2>2 DEF Pusher
  <2> QED BY <1>1, <2>1, <2>2, <2>3, <2>4, ProducerWalks
<1>3. CASE slot(at[P], elt[at[P]].head) = None
  <2> Over(P) /\ Heap(Pushed(at[P])) /\ UNCHANGED <<chead, ctail>>
    BY <1>3 DEF PushTyp
  <2> QED BY <1>1, <1>3, PushKeeps
<1> QED BY <1>2, <1>3

\* The push to the dequeue that pushHead has just linked.
LEMMA PushNewKeeps ==
  ASSUME ChainInv, PushNew
  PROVE  ChainInv'
<1>1. /\ stage[P] = "new" /\ at[P] \in DOMAIN elt
      /\ Over(P) /\ UNCHANGED <<chead, ctail>>
      /\ Heap(IF Full(at[P]) \/ slot(at[P], elt[at[P]].head) # None THEN elt ELSE Pushed(at[P]))
  BY PusherNow DEF PushNew, Pusher
<1>2. CASE Full(at[P]) \/ slot(at[P], elt[at[P]].head) # None
  <2>1. Heap(elt)
    BY <1>1, <1>2
  <2>2. /\ Moves(P) /\ ChainLocals(stage', at', nxt', idx', val')
        /\ stage'[P] = "idle" /\ at'[P] = None /\ nxt'[P] = None
    BY <1>1, Finished
  <2>3. Undisturbed(P)
    BY <1>1, <2>2 DEF Undisturbed, Taking
  <2>4. Pusher(elt, chead, stage', at', nxt', val')
    BY <2>2 DEF Pusher
  <2> QED BY <1>1, <2>1, <2>2, <2>3, <2>4, ProducerWalks
<1>3. CASE ~Full(at[P]) /\ slot(at[P], elt[at[P]].head) = None
  <2>1. Heap(Pushed(at[P]))
    BY <1>1, <1>3
  <2> QED BY <1>1, <1>3, <2>1, HasRoom, PushKeeps
<1> QED BY <1>2, <1>3

\* poolChain.popHead starts at c.head,
LEMMA PopHeadCallKeeps ==
  ASSUME ChainInv, PopHeadCall
  PROVE  ChainInv'
<1>1. Moves(P) /\ ChainLocals(stage', at', nxt', idx', val')
  BY Typed DEF PopHeadCall, Proceed, Local, ChainLocals, Moves
<1>2. /\ stage[P] = "idle" /\ stage'[P] = "pop" /\ at'[P] = chead
      /\ UNCHANGED <<elt, chead, ctail, nxt, idx, val>>
  BY Typed DEF PopHeadCall, Proceed, Local, ChainLocals
<1>3. nxt[P] = None
  BY PusherNow DEF Pusher
<1>4. Pusher(elt, chead, stage', at', nxt', val')
  BY <1>2, <1>3 DEF Pusher
<1>5. Undisturbed(P)
  BY <1>2 DEF Undisturbed, Taking
<1> QED BY <1>1, <1>2, <1>3, <1>4, <1>5, Typed, ProducerWalks

\* ends where there is no dequeue any more,
LEMMA PopHeadFailsKeeps ==
  ASSUME ChainInv, PopHeadFails
  PROVE  ChainInv'
<1>1. /\ Moves(P) /\ ChainLocals(stage', at', nxt', idx', val')
      /\ stage'[P] = "idle" /\ at'[P] = None /\ nxt'[P] = None
  BY Finished DEF PopHeadFails
<1>2. Pusher(elt, chead, stage', at', nxt', val')
  BY <1>1 DEF Pusher
<1>3. Undisturbed(P)
  BY <1>1 DEF PopHeadFails, Undisturbed, Taking
<1> QED BY <1>1, <1>2, <1>3, ProducerWalks DEF PopHeadFails

\* and goes on to the previous dequeue.
LEMMA BackKeeps ==
  ASSUME ChainInv, Back
  PROVE  ChainInv'
<1>1. stage[P] = "back" /\ at[P] \in DOMAIN elt /\ nxt[P] = None
  BY PusherNow, Typed DEF Back, Pusher, Pointed
<1>2. elt[at[P]].prev \in DOMAIN elt \cup {None}
  BY <1>1, LastIsHead
<1>3. Moves(P) /\ ChainLocals(stage', at', nxt', idx', val')
  BY <1>2, Typed DEF Back, Proceed, Local, ChainLocals, Moves
<1>4. stage'[P] = "pop" /\ at'[P] = elt[at[P]].prev /\ UNCHANGED <<chead, ctail, nxt, idx, val>>
  BY Typed DEF Back, Proceed, Local, ChainLocals
<1>5. Pusher(elt, chead, stage', at', nxt', val')
  BY <1>1, <1>4 DEF Pusher
<1>6. Undisturbed(P)
  BY <1>1, <1>4 DEF Undisturbed, Taking
<1> QED BY <1>1, <1>2, <1>3, <1>4, <1>5, <1>6, ProducerWalks DEF Back

\* popHead reads its slot and zeroes it: the slot is its own.
LEMMA TakeHeadKeeps ==
  ASSUME ChainInv, TakeHead
  PROVE  ChainInv'
<1> DEFINE m == Fill(at[P], idx[P], None)
           d == at[P]
<1>1. Taking(stage, P)
  BY DEF TakeHead, Taking
<1>2. d \in DOMAIN elt /\ idx[P] \in Nat /\ idx[P] % SizeOf(elt[d]) = idx[P]
  BY <1>1, Taker
<1>3. /\ Changed(m, d) /\ m[d].head = elt[d].head /\ m[d].tail = elt[d].tail
      /\ m[d].vals = [elt[d].vals EXCEPT ![idx[P]] = None]
  BY <1>2, FillIs
<1>4. /\ Moves(P) /\ ChainLocals(stage', at', nxt', idx', val')
      /\ stage'[P] = "idle" /\ at'[P] = None /\ nxt'[P] = None
  BY Finished DEF TakeHead
<1>5. ~Taking(stage', P)
  BY <1>4 DEF Taking
<1>6. Heap(m)
  BY DEF TakeHead
<1> HIDE DEF m
<1>7. Slots(m, stage', at', idx') /\ TakesAll(m, stage', at', idx')
  BY <1>1, <1>2, <1>3, <1>4, <1>5, OthersRest, FilledRing
<1>8. Mild(m)
  BY <1>2, <1>3, ChangedMild
<1>9. Pusher(m, chead, stage', at', nxt', val')
  BY <1>4 DEF Pusher
<1>10. Holds(m, chead', ctail', stage', at', nxt', idx', val')
  BY <1>2, <1>4, <1>7, <1>8, <1>9, ProducerStep DEF TakeHead
<1> QED BY <1>6, <1>10, Collects

\* The CompareAndSwap of popHead: the slot before head becomes its own.
LEMMA PopHeadKeeps ==
  ASSUME ChainInv, PopHead
  PROVE  ChainInv'
<1> DEFINE d == at[P]
<1>1. stage[P] = "pop" /\ d \in DOMAIN elt /\ nxt[P] = None
  BY PusherNow, Typed DEF PopHead, Pusher, Pointed
<1>3. /\ Empty(d) <=> elt[d].tail = elt[d].head
      /\ size(d) = SizeOf(elt[d])
  BY <1>1, InWords DEF ChainInv, Holds
<1>4. CASE Empty(d)
  <2>1. Moves(P) /\ ChainLocals(stage', at', nxt', idx', val')
    BY <1>4, Typed DEF PopHead, Proceed, Local, ChainLocals, Moves
  <2>2. stage'[P] = "back" /\ UNCHANGED <<elt, chead, ctail, at, nxt, idx, val>>
    BY <1>4, Typed DEF PopHead, Proceed, Local, ChainLocals
  <2>3. Pusher(elt, chead, stage', at', nxt', val')
    BY <1>1, <2>2, Typed DEF Pusher
  <2>4. Undisturbed(P)
    BY <1>1, <2>2 DEF Undisturbed, Taking
  <2> QED BY <1>1, <2>1, <2>2, <2>3, <2>4, ProducerWalks
<1>5. CASE ~Empty(d)
  <2> DEFINE h == elt[d].head
             t == elt[d].tail
             s == SizeOf(elt[d])
             u == (h + W - 1) % W
             m == [elt EXCEPT ![d].head = (@ + W - 1) % W]
  <2>1. /\ h \in 0 .. W - 1 /\ t \in 0 .. W - 1 /\ Size(s) /\ s \in Nat \ {0}
        /\ s <= dequeueLimit /\ dequeueLimit \in Nat \ {0} /\ W \in Nat \ {0}
        /\ Between(t, h) \in Nat /\ Between(t, h) > 0
    BY <1>1, <1>3, <1>5, LastIsHead, RingOf, PoolConstants
  <2>2. Between(t, h) <= s
    BY <1>1 DEF ChainInv, Holds, Slots, SlotsOf
  <2>3. /\ u \in 0 .. W - 1
        /\ Between(t, u) = Between(t, h) - 1
        /\ Used(t, Between(t, h), s) = Used(t, Between(t, h) - 1, s) \cup {u % s}
        /\ u % s \notin Used(t, Between(t, h) - 1, s)
    <3> HIDE DEF h, t, s
    <3> QED BY <2>1, <2>2, HeadDown
  <2>4. Changed(m, d) /\ m[d].vals = elt[d].vals /\ m[d].head = u /\ m[d].tail = t
    <3>1. u \in 0 .. W - 1 /\ m = HeadAt(d, u)
      BY <2>3 DEF HeadAt
    <3> HIDE DEF m, u
    <3> QED BY <1>1, <3>1, HeadIs
  <2>5. InUse(m[d]) = InUse(elt[d]) \ {u % s} /\ u % s \in InUse(elt[d])
    BY <2>3, <2>4 DEF InUse, Changed
  <2>6. u % s \in 0 .. s - 1 /\ u % s \in 0 .. dequeueLimit - 1
    <3> HIDE DEF u, s, t, h
    <3>1. u % s \in 0 .. s - 1
      BY <2>1, <2>3
    <3> QED BY <2>1, <3>1
  <2>7. Moves(P) /\ ChainLocals(stage', at', nxt', idx', val')
    BY <1>3, <1>5, <2>6, Typed DEF PopHead, Proceed, Local, ChainLocals, Moves
  <2>8. stage'[P] = "take" /\ at'[P] = d /\ nxt'[P] = None /\ idx'[P] = u % s
    BY <1>1, <1>3, <1>5, Typed DEF PopHead, Proceed, Local, ChainLocals
  <2>9. Heap(m) /\ UNCHANGED <<chead, ctail>>
    BY <1>5 DEF PopHead
  <2> HIDE DEF m, h, t, s, u
  <2>10. ~Taking(stage, P) /\ s = SizeOf(elt[d])
    BY <1>1 DEF Taking, s
  <2>11. Between(m[d].tail, m[d].head) <= s
    BY <2>1, <2>2, <2>3, <2>4
  <2>12. Slots(m, stage', at', idx') /\ TakesAll(m, stage', at', idx')
    BY <1>1, <2>4, <2>5, <2>6, <2>7, <2>8, <2>10, <2>11, OthersRest, PoppedRing
  <2>13. Mild(m)
    BY <1>1, <1>3, <1>5, <2>4, ChangedMild
  <2>14. Pusher(m, chead, stage', at', nxt', val')
    BY <1>1, <2>8, Typed DEF Pusher
  <2>15. Holds(m, chead', ctail', stage', at', nxt', idx', val')
    BY <1>1, <2>7, <2>8, <2>9, <2>12, <2>13, <2>14, ProducerStep
  <2> QED BY <2>9, <2>15, Collects
<1> QED BY <1>4, <1>5

\* A new dequeue has the least unused address.
LEMMA NewAtIs ==
  ASSUME Unused # {}
  PROVE  NewAt \in Elts \ DOMAIN elt
<1>1. Unused \subseteq Nat
  BY PoolConstants DEF Unused
<1>2. \E d \in Unused : \A e \in Unused : d <= e
  BY <1>1, LeastNat
<1>3. NewAt \in Unused
  BY <1>2 DEF NewAt
<1> QED BY <1>3 DEF Unused

\* A new dequeue is empty.
LEMMA NewRing ==
  ASSUME NEW s \in RingSizes, NEW p \in Elts \cup {None}
  PROVE  /\ NewElt(s, p) \in Dequeues /\ SizeOf(NewElt(s, p)) = s
         /\ Between(NewElt(s, p).tail, NewElt(s, p).head) = 0 /\ InUse(NewElt(s, p)) = {}
         /\ \A i \in 0 .. s - 1 : NewElt(s, p).vals[i] = None
         /\ NewElt(s, p).next = None /\ NewElt(s, p).prev = p
         /\ NewElt(s, p).tail = NewElt(s, p).head
<1> DEFINE v == [i \in 0 .. s - 1 |-> None]
           ring == NewElt(s, p)
<1>1. v \in Rings(s) /\ s \in Nat /\ Cardinality(DOMAIN v) = s
  <2> v \in Rings(s)
    BY DEF Rings
  <2> QED BY SizeOfRing
<1>2. ring = [head |-> 0, tail |-> 0, next |-> None, prev |-> p, vals |-> v]
  BY DEF NewElt
<1>3. 0 \in 0 .. W - 1 /\ W \in Nat \ {0}
  BY PoolConstants
<1> HIDE DEF ring, v
<1>4. /\ ring \in Dequeues /\ ring.vals = v /\ ring.head = 0 /\ ring.tail = 0 /\ ring.next = None /\ ring.prev = p
  BY <1>1, <1>2, <1>3 DEF Dequeues
<1>5. Between(0, 0) = 0
  BY <1>3, RingCounted
<1>6. Used(0, 0, s) = {}
  BY DEF Used
<1>7. SizeOf(ring) = s /\ InUse(ring) = {}
  BY <1>1, <1>4, <1>5, <1>6 DEF SizeOf, InUse
<1> QED BY <1>4, <1>5, <1>7 DEF ring, v

\* Its size is one that a ring may have,
LEMMA NextSizeIs ==
  ASSUME NEW s \in RingSizes
  PROVE  NextSize(s) \in RingSizes
<1>1. s \in initSize .. dequeueLimit /\ W % s = 0
  BY DEF RingSizes
<1>2. W % NextSize(s) = 0
  BY <1>1, SizesDivideW
<1>3. NextSize(s) \in initSize .. dequeueLimit
  BY <1>1, PoolConstants DEF NextSize
<1> QED BY <1>2, <1>3 DEF RingSizes

\* and so is that of the first.
LEMMA FirstSize == initSize \in RingSizes
BY SizesDivideW, PoolConstants DEF RingSizes

\* pushHead makes the first dequeue, or looks at headTail of the newest.
LEMMA PushCallKeeps ==
  ASSUME ChainInv, PushCall
  PROVE  ChainInv'
<1>1. PICK v \in Vals : val' = Local(val, P, v)
  BY DEF PushCall
<1>2. stage[P] = "idle" /\ nxt[P] = None /\ UNCHANGED <<nxt, idx>>
  BY PusherNow DEF PushCall, Pusher
<1>3. CASE /\ chead # None
           /\ Proceed(P, IF Full(chead) THEN "grow" ELSE "typ")
           /\ at' = Local(at, P, chead)
           /\ UNCHANGED <<elt, chead, ctail>>
  <2>1. Moves(P) /\ ChainLocals(stage', at', nxt', idx', val')
    BY <1>1, <1>2, <1>3, Typed DEF Proceed, Local, ChainLocals, Moves
  <2>2. /\ stage'[P] = IF Full(chead) THEN "grow" ELSE "typ"
        /\ at'[P] = chead /\ val'[P] = v
    BY <1>1, <1>3, Typed DEF Proceed, Local, ChainLocals
  <2>3. chead \in DOMAIN elt
    BY <1>3, Typed
  <2>4. stage'[P] = "typ" => Between(elt[chead].tail, elt[chead].head) < SizeOf(elt[chead])
    BY <2>2, <2>3, HasRoom
  <2>5. Pusher(elt, chead, stage', at', nxt', val')
    BY <1>2, <2>2, <2>3, <2>4 DEF Pusher
  <2>6. Undisturbed(P)
    BY <1>2, <2>2 DEF Undisturbed, Taking
  <2> QED BY <1>2, <1>3, <2>1, <2>2, <2>3, <2>5, <2>6, ProducerWalks
<1>4. CASE /\ chead = None
           /\ Proceed(P, "typ")
           /\ chead' = NewAt /\ ctail' = NewAt
           /\ at' = Local(at, P, NewAt)
           /\ Heap([d \in {NewAt} |-> NewElt(initSize, None)])
  <2> DEFINE a == NewAt
             m == [d \in {a} |-> NewElt(initSize, None)]
  <2>1. DOMAIN elt = {} /\ \A g \in Gs : at[g] = None /\ nxt[g] = None
    BY <1>4, Typed DEF Pointed
  <2>2. a \in Elts
    <3> Unused # {}
      BY <2>1, PoolConstants DEF Unused
    <3> QED BY NewAtIs
  <2> HIDE DEF a
  <2>3. a # None /\ initSize \in Nat \ {0}
    BY <2>2, PoolConstants
  <2>4. Moves(P) /\ ChainLocals(stage', at', nxt', idx', val')
    BY <1>1, <1>2, <1>4, <2>2, Typed DEF Proceed, Local, ChainLocals, Moves, a
  <2>5. stage'[P] = "typ" /\ at'[P] = a /\ val'[P] = v /\ chead' = a /\ ctail' = a
    BY <1>1, <1>4, Typed DEF Proceed, Local, ChainLocals, a
  <2>6. DOMAIN m = {a} /\ m[a] = NewElt(initSize, None) /\ Heap(m)
    BY <1>4 DEF a
  <2>7. /\ m[a] \in Dequeues /\ SizeOf(m[a]) = initSize
        /\ Between(m[a].tail, m[a].head) = 0 /\ InUse(m[a]) = {}
        /\ \A i \in 0 .. initSize - 1 : m[a].vals[i] = None
        /\ m[a].next = None /\ m[a].prev = None
        /\ m[a].tail = m[a].head
    BY <2>6, FirstSize, NewRing
  <2> HIDE DEF m
  <2>8. Shaped(m)
    BY <2>2, <2>6, <2>7 DEF Shaped
  <2>9. \A g \in Gs : ~Taking(stage', g)
    <3>1. \A g \in Gs : ~Taking(stage, g)
      BY <2>1 DEF ChainInv, Holds, TakesAll, TakesOf
    <3> QED BY <3>1, <2>4, <2>5 DEF Moves, Taking
  <2>10. Slots(m, stage', at', idx') /\ TakesAll(m, stage', at', idx')
    <3>1. SlotsOf(m, stage', at', idx', a)
      BY <2>3, <2>7 DEF SlotsOf
    <3> QED BY <3>1, <2>6, <2>9 DEF Slots, TakesAll, TakesOf
  <2>11. Listed(m, chead', ctail')
    <3> DEFINE o == [d \in {a} |-> 0]
    <3>1. Ranked(m, o, a)
      BY <2>3, <2>6, <2>7 DEF Ranked
    <3> QED BY <3>1, <2>5, <2>6 DEF Listed
  <2>12. Pointed(m, at', nxt')
    BY <1>2, <2>1, <2>4, <2>5, <2>6 DEF Pointed, Moves
  <2>13. Pusher(m, chead', stage', at', nxt', val')
    BY <1>2, <2>3, <2>5, <2>6, <2>7 DEF Pusher
  <2>14. Popper(m, stage', at', nxt')
    <3> SUFFICES ASSUME NEW g \in Cs PROVE Pops(m, stage', at', nxt', g)
      BY DEF Popper
    <3>1. Pops(elt, stage, at, nxt, g) /\ at[g] = None /\ nxt[g] = None
      BY <2>1 DEF ChainInv, Holds, Popper
    <3>2. stage'[g] = stage[g] /\ at'[g] = at[g] /\ nxt'[g] = nxt[g]
      BY <2>4, PoolConstants DEF Moves
    <3> QED BY <3>1, <3>2 DEF Pops
  <2>15. Holds(m, chead', ctail', stage', at', nxt', idx', val')
    BY <2>4, <2>8, <2>10, <2>11, <2>12, <2>13, <2>14 DEF Holds
  <2> QED BY <2>6, <2>15, Collects
<1> QED BY <1>3, <1>4 DEF PushCall

\* pushHead links a new dequeue in front of the newest: its rank is one more.
LEMMA GrowKeeps ==
  ASSUME ChainInv, Grow
  PROVE  ChainInv'
<1> DEFINE a == NewAt
           d == at[P]
           new == NewElt(NextSize(size(d)), d)
           m == [e \in DOMAIN elt \cup {a} |->
                  IF e = a THEN new ELSE IF e = d THEN [elt[d] EXCEPT !.next = a] ELSE elt[e]]
<1>1. stage[P] = "grow" /\ d = chead /\ d \in DOMAIN elt /\ val[P] \in Vals /\ nxt[P] = None
  BY PusherNow DEF Grow, Pusher
<1>2. a \in Elts \ DOMAIN elt
  BY NewAtIs DEF Grow
<1>3. Heap(m) /\ chead' = a /\ ctail' = ctail
  BY DEF Grow
<1> HIDE DEF a
<1>4. a # None /\ a # d
  BY <1>1, <1>2, PoolConstants
<1>5. Moves(P) /\ ChainLocals(stage', at', nxt', idx', val')
  BY <1>2, Typed DEF Grow, Proceed, Local, ChainLocals, Moves, a
<1>6. stage'[P] = "new" /\ at'[P] = a /\ nxt'[P] = None /\ val'[P] = val[P]
  BY <1>1, Typed DEF Grow, Proceed, Local, ChainLocals, a
<1>7. NextSize(size(d)) \in RingSizes /\ d \in Elts
  BY <1>1, Typed, LastIsHead, RingOf, InWords, NextSizeIs DEF ChainInv, Holds
<1>8. /\ new \in Dequeues /\ SizeOf(new) = NextSize(size(d))
      /\ Between(new.tail, new.head) = 0 /\ InUse(new) = {}
      /\ \A i \in 0 .. NextSize(size(d)) - 1 : new.vals[i] = None
      /\ new.next = None /\ new.prev = d /\ new.tail = new.head
  BY <1>7, NewRing
<1>9. /\ DOMAIN m = DOMAIN elt \cup {a} /\ m[a] = new
      /\ m[d] = [elt[d] EXCEPT !.next = a]
      /\ \A e \in DOMAIN elt \ {d} : m[e] = elt[e]
  BY <1>1, <1>2, <1>4
<1> HIDE DEF m, new
<1>10. ASSUME NEW e \in DOMAIN elt
       PROVE  /\ m[e] \in Dequeues /\ m[e].prev = elt[e].prev
              /\ m[e].head = elt[e].head /\ m[e].tail = elt[e].tail /\ m[e].vals = elt[e].vals
              /\ m[e].next = IF e = d THEN a ELSE elt[e].next
  <2>1. elt[e] \in Dequeues /\ elt[d] \in Dequeues
    BY <1>1, LastIsHead
  <2>2. CASE e # d
    BY <1>9, <2>1, <2>2
  <2>3. CASE e = d
    BY <1>2, <1>9, <2>1, <2>3 DEF Dequeues
  <2> QED BY <2>2, <2>3
<1>11. Shaped(m)
  BY <1>2, <1>8, <1>9, <1>10, Typed DEF Shaped
<1>12. Pointed(m, at', nxt')
  BY <1>5, <1>6, <1>9, Typed DEF Pointed, Moves
<1>13. Listed(m, chead', ctail')
  <2>1. ctail \in DOMAIN elt
    BY <1>1, LastIsHead
  <2>2. PICK o : /\ Ranked(elt, o, chead)
                 /\ \A e \in DOMAIN elt : o[e] < o[ctail] => elt[e].tail = elt[e].head
    BY <1>1 DEF ChainInv, Holds, Listed
  <2> DEFINE rank == [e \in DOMAIN m |-> IF e = a THEN o[d] + 1 ELSE o[e]]
  <2>3. \A e \in DOMAIN elt : o[e] \in Nat /\ o[e] <= o[d]
    BY <1>1, <2>2 DEF Ranked
  <2>4. rank[a] = o[d] + 1 /\ \A e \in DOMAIN elt : rank[e] = o[e]
    BY <1>2, <1>9
  <2>5. rank \in [DOMAIN m -> Nat]
    BY <1>1, <1>9, <2>3
  <2> HIDE DEF rank
  <2>6. \A e, f \in DOMAIN m : rank[e] = rank[f] => e = f
    <3>1. \A e, f \in DOMAIN elt : o[e] = o[f] => e = f
      BY <2>2 DEF Ranked
    <3>2. \A e \in DOMAIN elt : rank[e] # rank[a]
      BY <1>1, <2>3, <2>4
    <3> QED BY <1>9, <2>4, <3>1, <3>2
  <2>7. ASSUME NEW e \in DOMAIN m
        PROVE  /\ rank[e] <= rank[a]
               /\ m[e].next = None <=> e = a
               /\ m[e].next # None => m[e].next \in DOMAIN m /\ rank[m[e].next] = rank[e] + 1
               /\ m[e].prev # None => m[e].prev \in DOMAIN m /\ m[m[e].prev].next = e
    <3>1. CASE e = a
      <4>1. rank[a] \in Nat
        BY <1>1, <2>3, <2>4
      <4> QED BY <1>1, <1>8, <1>9, <1>10, <3>1, <4>1
    <3>2. CASE e = d
      <4>1. m[e].next = a /\ rank[a] = rank[e] + 1 /\ rank[e] <= rank[a]
        BY <1>1, <1>10, <2>3, <2>4, <3>2
      <4>2. elt[e].prev # None => elt[e].prev \in DOMAIN elt /\ elt[elt[e].prev].next = e
        BY <1>1, <2>2, <3>2 DEF Ranked
      <4>3. elt[e].prev # None => elt[e].prev # d
        BY <1>1, <1>4, <2>2, <3>2, <4>2, Typed DEF Ranked
      <4> QED BY <1>1, <1>4, <1>9, <1>10, <3>2, <4>1, <4>2, <4>3
    <3>3. CASE e # a /\ e # d
      <4>1. e \in DOMAIN elt
        BY <1>9, <3>3
      <4>2. /\ elt[e].next # None /\ elt[e].next \in DOMAIN elt /\ o[elt[e].next] = o[e] + 1
            /\ elt[e].prev # None => elt[e].prev \in DOMAIN elt /\ elt[elt[e].prev].next = e
        BY <1>1, <2>2, <3>3, <4>1 DEF Ranked
      <4>3. elt[d].next = None
        BY <1>1, <2>2 DEF Ranked
      <4>4. m[e].next = elt[e].next /\ m[e].prev = elt[e].prev
        BY <1>10, <3>3, <4>1
      <4>5. elt[e].prev # None => elt[e].prev # d
        BY <4>1, <4>2, <4>3, Typed
      <4>6. elt[e].prev # None => m[elt[e].prev].next = e
        BY <1>10, <4>2, <4>5
      <4>7. rank[e] <= rank[a]
        BY <1>1, <2>3, <2>4, <4>1
      <4> QED BY <1>9, <2>4, <3>3, <4>1, <4>2, <4>4, <4>6, <4>7
    <3> QED BY <3>1, <3>2, <3>3
  <2>8. Ranked(m, rank, a)
    BY <1>9, <1>11, <2>5, <2>6, <2>7, PoolConstants DEF Ranked, Shaped
  <2>9. ASSUME NEW e \in DOMAIN m, rank[e] < rank[ctail]
        PROVE  m[e].tail = m[e].head
    BY <1>8, <1>9, <1>10, <2>1, <2>2, <2>4, <2>9
  <2> QED BY <1>3, <1>9, <2>1, <2>8, <2>9 DEF Listed
<1>14. \A g \in Gs : Undisturbed(g)
  <2> Undisturbed(P)
    BY <1>1, <1>6 DEF Undisturbed, Taking
  <2> QED BY <1>5, OthersRest
<1>15. \A e \in DOMAIN elt : SizeOf(m[e]) = SizeOf(elt[e]) /\ InUse(m[e]) = InUse(elt[e])
  BY <1>10 DEF SizeOf, InUse
<1>16. Slots(m, stage', at', idx')
  <2> SUFFICES ASSUME NEW e \in DOMAIN m PROVE SlotsOf(m, stage', at', idx', e)
    BY DEF Slots
  <2>1. CASE e = a
    <3> NextSize(size(d)) \in Nat
      BY <1>7, PoolConstants DEF RingSizes
    <3> QED BY <1>8, <1>9, <2>1 DEF SlotsOf
  <2>2. CASE e # a
    <3>1. e \in DOMAIN elt /\ SlotsOf(elt, stage, at, idx, e)
      BY <1>9, <2>2 DEF ChainInv, Holds, Slots
    <3>2. \A i : (\E g \in Gs : Taking(stage, g) /\ at[g] = e /\ idx[g] = i)
                  => \E g \in Gs : Taking(stage', g) /\ at'[g] = e /\ idx'[g] = i
      BY <1>14, Zenon DEF Undisturbed
    <3>3. SlotsOf(elt, stage', at', idx', e)
      BY <3>1, <3>2, Zenon DEF SlotsOf
    <3> QED BY <1>10, <1>15, <3>1, <3>3 DEF SlotsOf
  <2> QED BY <2>1, <2>2
<1>17. TakesAll(m, stage', at', idx')
  <2> SUFFICES ASSUME NEW g \in Gs, Taking(stage', g) PROVE TakesOf(m, stage', at', idx', g)
    BY Zenon DEF TakesAll, TakesOf
  <2>1. TakesOf(elt, stage, at, idx, g) /\ Taking(stage, g)
    BY <1>14 DEF ChainInv, Holds, TakesAll, Undisturbed
  <2>2. at[g] \in DOMAIN elt
    BY <2>1 DEF TakesOf
  <2>3. TakesOf(elt, stage', at', idx', g)
    BY <1>14, <2>1, Zenon DEF TakesOf, Undisturbed
  <2>4. at'[g] = at[g]
    BY <1>14, <2>1 DEF Undisturbed
  <2>5. /\ m[at[g]].vals = elt[at[g]].vals /\ SizeOf(m[at[g]]) = SizeOf(elt[at[g]])
        /\ InUse(m[at[g]]) = InUse(elt[at[g]]) /\ at[g] \in DOMAIN m
    BY <1>9, <1>10, <1>15, <2>2
  <2> QED BY <2>2, <2>3, <2>4, <2>5, Zenon DEF TakesOf
<1>18. Pusher(m, chead', stage', at', nxt', val')
  BY <1>1, <1>3, <1>6, <1>9 DEF Pusher
<1>19. Popper(m, stage', at', nxt')
  <2> SUFFICES ASSUME NEW g \in Cs PROVE Pops(m, stage', at', nxt', g)
    BY DEF Popper
  <2>1. Pops(elt, stage, at, nxt, g)
    BY DEF ChainInv, Holds, Popper
  <2>2. stage'[g] = stage[g] /\ at'[g] = at[g] /\ nxt'[g] = nxt[g]
    BY <1>5, PoolConstants DEF Moves
  <2>3. nxt[g] # None => at[g] \in DOMAIN elt /\ at[g] # d
    BY <1>1, <2>1, LastIsHead DEF Pops
  <2>4. nxt[g] # None => /\ at[g] \in DOMAIN m /\ m[at[g]].next = elt[at[g]].next
                         /\ m[at[g]].tail = elt[at[g]].tail /\ m[at[g]].head = elt[at[g]].head
    BY <1>9, <1>10, <2>3
  <2> QED BY <2>1, <2>2, <2>4 DEF Pops
<1>20. Holds(m, chead', ctail', stage', at', nxt', idx', val')
  BY <1>5, <1>11, <1>12, <1>13, <1>16, <1>17, <1>18, <1>19 DEF Holds
<1> QED BY <1>3, <1>20, Collects

-----------------------------------------------------------------------------

\* There are no dequeues at first.
LEMMA ChainInvInit == Init => ChainInv
<1> SUFFICES ASSUME Init PROVE ChainInv
  OBVIOUS
<1> USE DEF Init
<1>1. DOMAIN elt = {}
  OBVIOUS
<1>2. Shaped(elt) /\ Pointed(elt, at, nxt) /\ Listed(elt, chead, ctail) /\ Slots(elt, stage, at, idx)
  BY <1>1 DEF Shaped, Pointed, Listed, Slots
<1>3. ChainLocals(stage, at, nxt, idx, val)
  BY PoolConstants DEF ChainLocals
<1>4. TakesAll(elt, stage, at, idx) /\ Pusher(elt, chead, stage, at, nxt, val) /\ Popper(elt, stage, at, nxt)
  BY DEF TakesAll, TakesOf, Taking, Pusher, Popper, Pops
<1> QED BY <1>2, <1>3, <1>4 DEF ChainInv, Holds

\* Every step keeps the invariant: one lemma per action.
LEMMA ChainInvNext == ChainInv /\ [Next]_chainvars => ChainInv'
<1> SUFFICES ASSUME ChainInv, [Next]_chainvars PROVE ChainInv'
  OBVIOUS
<1>1. CASE UNCHANGED chainvars
  BY <1>1 DEF chainvars, ChainInv
<1>2. CASE Producer
  <2>1. CASE PushCall
    BY <2>1, PushCallKeeps
  <2>2. CASE PushTyp
    BY <2>2, PushTypKeeps
  <2>3. CASE Grow
    BY <2>3, GrowKeeps
  <2>4. CASE PushNew
    BY <2>4, PushNewKeeps
  <2>5. CASE PopHeadCall
    BY <2>5, PopHeadCallKeeps
  <2>6. CASE PopHead
    BY <2>6, PopHeadKeeps
  <2>7. CASE TakeHead
    BY <2>7, TakeHeadKeeps
  <2>8. CASE Back
    BY <2>8, BackKeeps
  <2>9. CASE PopHeadFails
    BY <2>9, PopHeadFailsKeeps
  <2> QED BY <1>2, <2>1, <2>2, <2>3, <2>4, <2>5, <2>6, <2>7, <2>8, <2>9, Zenon DEF Producer
<1>3. ASSUME NEW g \in Cs, Consumer(g)
      PROVE  ChainInv'
  <2>1. CASE PopTailCall(g)
    BY <2>1, PopTailCallKeeps
  <2>2. CASE LoadNext(g)
    BY <2>2, LoadNextKeeps
  <2>3. CASE PopTail(g)
    BY <2>3, PopTailKeeps
  <2>4. CASE TakeTail(g)
    BY <2>4, TakeTailKeeps
  <2>5. CASE Clean(g)
    BY <2>5, CleanKeeps
  <2>6. CASE PopTailFails(g)
    BY <2>6, PopTailFailsKeeps
  <2>7. CASE Drop(g)
    BY <2>7, DropKeeps
  <2>8. CASE Unlink(g)
    BY <2>8, UnlinkKeeps
  <2> QED BY <1>3, <2>1, <2>2, <2>3, <2>4, <2>5, <2>6, <2>7, <2>8, Zenon DEF Consumer
<1> QED BY <1>1, <1>2, <1>3, Zenon DEF Next

\* In every reachable state a slot of a ring in [tail, head) holds a value that
\* nobody is taking, any other slot belongs to the one pop that is taking it or is
\* empty, next and prev link neighbours, and a dequeue that the tail of the chain
\* has passed is empty: what makes pushHead, popHead and popTail of
\* sync/poolqueue.go safe without locks.
THEOREM ChainIsSound == Spec => []ChainStructure
<1>1. Spec => []ChainInv
  BY ChainInvInit, ChainInvNext, PTL DEF Spec
<1> QED BY <1>1, StrongEnough, PTL
=============================================================================
