----------------------------- MODULE SemaProofs -----------------------------
(***************************************************************************)
(* Proofs about module Sema for any finite number of goroutines and any    *)
(* set of addresses: what the calls and the steps of semacquire1 and       *)
(* semrelease1 preserve.  The lemmas speak of single steps, so that the    *)
(* users of the semaphores (module MutexProofs) can use them as well.      *)
(***************************************************************************)
EXTENDS Sema, SequenceTheorems, FiniteSetTheorems, TLAPS

-----------------------------------------------------------------------------
(* Facts about queues *)

\* Queueing at the front (lifo) adds exactly the new sudog.
LEMMA PushFront ==
  ASSUME NEW S, NEW q \in Seq(S), NEW x \in S
  PROVE  /\ <<x>> \o q \in Seq(S)
         /\ ToSet(<<x>> \o q) = ToSet(q) \cup {x}
         /\ IsInjective(q) /\ x \notin ToSet(q) => IsInjective(<<x>> \o q)
<1> DEFINE r == <<x>> \o q
<1>1. /\ r \in Seq(S) /\ Len(r) = Len(q) + 1
      /\ DOMAIN r = 1 .. Len(q) + 1 /\ DOMAIN q = 1 .. Len(q) /\ Len(q) \in Nat
      /\ r[1] = x /\ \A i \in 1 .. Len(q) : r[i + 1] = q[i]
  BY ConcatProperties, LenProperties
<1> HIDE DEF r
<1>2. \A i \in DOMAIN r : i = 1 \/ (i - 1 \in DOMAIN q /\ r[i] = q[i - 1])
  <2> TAKE i \in DOMAIN r
  <2> SUFFICES ASSUME i # 1 PROVE i - 1 \in DOMAIN q /\ r[i] = q[i - 1]
    OBVIOUS
  <2>1. i - 1 \in 1 .. Len(q) /\ (i - 1) + 1 = i
    BY <1>1
  <2> QED BY <1>1, <2>1
<1>3. ToSet(r) = ToSet(q) \cup {x}
  <2>1. ASSUME NEW y \in ToSet(q) PROVE y \in ToSet(r)
    <3> PICK i \in DOMAIN q : y = q[i]
      BY <2>1 DEF ToSet
    <3>1. i + 1 \in DOMAIN r /\ y = r[i + 1]
      BY <1>1
    <3> QED BY <3>1 DEF ToSet
  <2>2. ASSUME NEW y \in ToSet(r) PROVE y \in ToSet(q) \cup {x}
    BY <1>1, <1>2 DEF ToSet
  <2>3. x \in ToSet(r)
    BY <1>1, 1 \in DOMAIN r DEF ToSet
  <2> QED BY <2>1, <2>2, <2>3
<1>4. IsInjective(q) /\ x \notin ToSet(q) => IsInjective(r)
  BY <1>1, <1>2 DEF IsInjective, ToSet
<1> QED BY <1>1, <1>3, <1>4 DEF r

\* Queueing at the back adds exactly the new sudog.
LEMMA PushBack ==
  ASSUME NEW S, NEW q \in Seq(S), NEW x \in S
  PROVE  /\ Append(q, x) \in Seq(S)
         /\ ToSet(Append(q, x)) = ToSet(q) \cup {x}
         /\ IsInjective(q) /\ x \notin ToSet(q) => IsInjective(Append(q, x))
<1> DEFINE r == Append(q, x)
<1>1. /\ r \in Seq(S) /\ Len(r) = Len(q) + 1
      /\ DOMAIN r = 1 .. Len(q) + 1 /\ DOMAIN q = 1 .. Len(q) /\ Len(q) \in Nat
      /\ r[Len(q) + 1] = x /\ \A i \in 1 .. Len(q) : r[i] = q[i]
  BY AppendProperties, LenProperties
<1> HIDE DEF r
<1>2. \A i \in DOMAIN r : i = Len(q) + 1 \/ (i \in DOMAIN q /\ r[i] = q[i])
  BY <1>1
<1>3. ToSet(r) = ToSet(q) \cup {x}
  BY <1>1, <1>2 DEF ToSet
<1>4. IsInjective(q) /\ x \notin ToSet(q) => IsInjective(r)
  BY <1>1, <1>2 DEF IsInjective, ToSet
<1> QED BY <1>1, <1>3, <1>4 DEF r

\* Dequeueing the first sudog leaves exactly the others.
LEMMA Pop ==
  ASSUME NEW S, NEW q \in Seq(S), q # << >>
  PROVE  /\ Head(q) \in S /\ Tail(q) \in Seq(S)
         /\ Head(q) \in ToSet(q)
         /\ ToSet(q) = ToSet(Tail(q)) \cup {Head(q)}
         /\ IsInjective(q) => IsInjective(Tail(q)) /\ Head(q) \notin ToSet(Tail(q))
<1> DEFINE r == Tail(q)
<1>1. /\ r \in Seq(S) /\ Len(r) = Len(q) - 1 /\ Head(q) \in S
      /\ DOMAIN r = 1 .. Len(q) - 1 /\ DOMAIN q = 1 .. Len(q) /\ Len(q) \in Nat \ {0}
      /\ Head(q) = q[1] /\ \A i \in 1 .. Len(q) - 1 : r[i] = q[i + 1]
  BY HeadTailProperties, LenProperties, EmptySeq
<1> HIDE DEF r
<1>2. \A i \in DOMAIN q : i = 1 \/ (i - 1 \in DOMAIN r /\ q[i] = r[i - 1])
  <2> TAKE i \in DOMAIN q
  <2> SUFFICES ASSUME i # 1 PROVE i - 1 \in DOMAIN r /\ q[i] = r[i - 1]
    OBVIOUS
  <2>1. i - 1 \in 1 .. Len(q) - 1 /\ (i - 1) + 1 = i
    BY <1>1
  <2> QED BY <1>1, <2>1
<1>3. Head(q) \in ToSet(q) /\ ToSet(q) = ToSet(r) \cup {Head(q)}
  <2>1. ASSUME NEW y \in ToSet(r) PROVE y \in ToSet(q)
    <3> PICK i \in DOMAIN r : y = r[i]
      BY <2>1 DEF ToSet
    <3>1. i + 1 \in DOMAIN q /\ y = q[i + 1]
      BY <1>1
    <3> QED BY <3>1 DEF ToSet
  <2>2. ASSUME NEW y \in ToSet(q) PROVE y \in ToSet(r) \cup {Head(q)}
    BY <1>1, <1>2 DEF ToSet
  <2>3. Head(q) \in ToSet(q)
    BY <1>1, 1 \in DOMAIN q DEF ToSet
  <2> QED BY <2>1, <2>2, <2>3
<1>4. ASSUME IsInjective(q) PROVE IsInjective(r) /\ Head(q) \notin ToSet(r)
  <2>1. \A i \in DOMAIN r : i + 1 \in DOMAIN q /\ i + 1 # 1 /\ r[i] = q[i + 1]
    BY <1>1
  <2> QED BY <1>1, <1>4, <2>1 DEF IsInjective, ToSet
<1> QED BY <1>1, <1>3, <1>4 DEF r

-----------------------------------------------------------------------------
(* The inductive invariant: types, one way back for every sleeper, and the *)
(* count of those that a releaser may have to wake                         *)

SemaInv == SemaTypeOK /\ ParkedOnce /\ NwaitExact

\* A goroutine that is not parked is in no queue and is nobody's dequeued sudog.
LEMMA NotParked ==
  ASSUME SemaInv, NEW g \in G, spc[g] # "parked"
  PROVE  /\ \A a \in Addr : g \notin ToSet(queue[a])
         /\ \A r \in G : spc[r] = "ready" => sdeq[r] # g
BY DEF SemaInv, ParkedOnce, QueuedParked, DequeuedParked, Waiters

\* How the pc helpers change the state of their caller and of nobody else.
LEMMA CallMoves ==
  ASSUME SemaTypeOK, NEW g \in G, NEW args \in Args,
         NEW phase \in {"idle"} \cup AcquirePhase \cup ReleasePhase, Call(g, phase, args)
  PROVE  /\ spc' \in [G -> {"idle"} \cup AcquirePhase \cup ReleasePhase]
         /\ sarg' \in [G -> Args]
         /\ spc'[g] = phase /\ sarg'[g] = args
         /\ \A h \in G \ {g} : spc'[h] = spc[h] /\ sarg'[h] = sarg[h]
BY DEF SemaTypeOK, Call

LEMMA GotoMoves ==
  ASSUME SemaTypeOK, NEW g \in G,
         NEW phase \in {"idle"} \cup AcquirePhase \cup ReleasePhase, Goto(g, phase)
  PROVE  /\ spc' \in [G -> {"idle"} \cup AcquirePhase \cup ReleasePhase]
         /\ sarg' \in [G -> Args] /\ sarg' = sarg
         /\ spc'[g] = phase
         /\ \A h \in G \ {g} : spc'[h] = spc[h] /\ sarg'[h] = sarg[h]
BY DEF SemaTypeOK, Goto

LEMMA ArgsOK ==
  /\ \A a \in Addr, b, c \in BOOLEAN : [addr |-> a, lifo |-> b, handoff |-> c] \in Args
  /\ NoArgs \in Args
  /\ \A x \in Args : x.addr \in Addr
BY AddrSome DEF Args, NoArgs

LEMMA ReturnMoves ==
  ASSUME SemaTypeOK, NEW g \in G, Return(g)
  PROVE  /\ spc' \in [G -> {"idle"} \cup AcquirePhase \cup ReleasePhase]
         /\ sarg' \in [G -> Args]
         /\ spc'[g] = "idle"
         /\ \A h \in G \ {g} : spc'[h] = spc[h] /\ sarg'[h] = sarg[h]
BY ArgsOK, CallMoves DEF Return

LEMMA DownOK ==
  ASSUME SemaTypeOK, NEW a \in Addr, sema[a] > 0, Down(a)
  PROVE  sema' \in [Addr -> Nat] /\ sema'[a] = sema[a] - 1
<1>1. sema[a] - 1 \in Nat
  BY DEF SemaTypeOK
<1> QED BY <1>1 DEF SemaTypeOK, Down

\* A step of a goroutine that neither is nor becomes parked or a waker, and that
\* leaves the queues alone, disturbs no sleeper.
LEMMA OwnMove ==
  ASSUME SemaInv, NEW g \in G,
         spc[g] \notin {"parked", "ready"}, spc'[g] \notin {"parked", "ready"},
         \A h \in G \ {g} : spc'[h] = spc[h] /\ sarg'[h] = sarg[h],
         queue' = queue, sdeq' = sdeq,
         \A h \in G \ {g} : ticket'[h] = ticket[h],
         ticket'[g] => spc'[g] = "woken"
  PROVE  ParkedOnce'
<1>0. SemaTypeOK /\ ParkedOnce
  BY DEF SemaInv
<1>1. QueuedOnce'
  BY <1>0 DEF ParkedOnce, QueuedOnce
<1>2. QueuedParked'
  <2> SUFFICES ASSUME NEW a \in Addr, NEW h \in ToSet(queue[a])
               PROVE  spc'[h] = "parked" /\ sarg'[h].addr = a
    BY DEF QueuedParked, Waiters
  <2>1. h \in G
    BY <1>0 DEF SemaTypeOK, ToSet
  <2>2. spc[h] = "parked" /\ sarg[h].addr = a
    BY <1>0 DEF ParkedOnce, QueuedParked, Waiters
  <2> QED BY <2>1, <2>2
<1>3. DequeuedOnce'
  BY <1>0 DEF ParkedOnce, DequeuedOnce, SemaTypeOK
<1>4. DequeuedParked'
  <2> SUFFICES ASSUME NEW r \in G, spc'[r] = "ready"
               PROVE  /\ spc'[sdeq[r]] = "parked"
                      /\ sarg'[sdeq[r]].addr = sarg'[r].addr
                      /\ \A a \in Addr : sdeq[r] \notin Waiters(a)
    BY DEF DequeuedParked, Waiters
  <2>1. r # g /\ spc[r] = "ready" /\ sdeq[r] \in G
    BY <1>0 DEF SemaTypeOK
  <2>2. sdeq[r] # g
    BY <1>0, <2>1 DEF ParkedOnce, DequeuedParked
  <2> QED BY <1>0, <2>1, <2>2 DEF ParkedOnce, DequeuedParked
<1>5. ParkedFound'
  <2> SUFFICES ASSUME NEW h \in G, spc'[h] = "parked"
               PROVE  \/ h \in Waiters(sarg'[h].addr)
                      \/ \E r \in G : spc'[r] = "ready" /\ sdeq[r] = h
    BY DEF ParkedFound, Waiters
  <2>1. h # g /\ spc[h] = "parked" /\ sarg'[h] = sarg[h]
    OBVIOUS
  <2> QED BY <1>0, <2>1 DEF ParkedOnce, ParkedFound
<1>6. TicketWoken'
  BY <1>0 DEF ParkedOnce, TicketWoken
<1> QED BY <1>1, <1>2, <1>3, <1>4, <1>5, <1>6 DEF ParkedOnce

\* A step that moves nobody in or out of those nwait counts.
LEMMA CountStays ==
  ASSUME NwaitExact, nwait' = nwait, queue' = queue,
         \A h \in G : spc'[h] = "recheck" <=> spc[h] = "recheck"
  PROVE  NwaitExact'
BY DEF NwaitExact, Counted, Waiters

\* A goroutine joins them, or leaves them, with the increment or the decrement.
LEMMA CountUp ==
  ASSUME NwaitExact, NEW g \in G, g \notin Counted, Counted' = Counted \cup {g},
         nwait' = nwait + 1
  PROVE  NwaitExact'
<1>1. IsFiniteSet(Counted)
  BY GFinite, FS_Subset DEF Counted
<1> QED BY <1>1, FS_AddElement DEF NwaitExact

LEMMA CountDown ==
  ASSUME NwaitExact, NEW g \in G, g \in Counted, Counted' = Counted \ {g},
         nwait' = nwait - 1
  PROVE  NwaitExact' /\ nwait' \in Nat
<1>1. IsFiniteSet(Counted)
  BY GFinite, FS_Subset DEF Counted
<1>2. Cardinality(Counted') = Cardinality(Counted) - 1 /\ IsFiniteSet(Counted')
  BY <1>1, FS_RemoveElement
<1> QED BY <1>1, <1>2, FS_CardinalityType DEF NwaitExact

-----------------------------------------------------------------------------
(* One lemma per action *)

LEMMA SemacquireInv ==
  ASSUME SemaInv, NEW g \in G, NEW a \in Addr, NEW lifo \in BOOLEAN,
         Semacquire(g, a, lifo)
  PROVE  SemaInv'
<1>0. SemaTypeOK /\ spc[g] = "idle" /\ UNCHANGED <<nwait, queue, sdeq, ticket>>
  BY DEF SemaInv, Semacquire
<1>1. ~ticket[g]
  BY <1>0 DEF SemaInv, ParkedOnce, TicketWoken
<1>2. CASE sema[a] > 0
  <2>1. Down(a) /\ UNCHANGED <<spc, sarg>>
    BY <1>2 DEF Semacquire
  <2>2. SemaTypeOK'
    BY <1>0, <1>2, <2>1, DownOK DEF SemaTypeOK
  <2>3. ParkedOnce'
    BY <1>0, <1>1, <2>1, OwnMove
  <2>4. NwaitExact'
    BY <1>0, <2>1, CountStays DEF SemaInv
  <2> QED BY <2>2, <2>3, <2>4 DEF SemaInv
<1>3. CASE ~(sema[a] > 0)
  <2> DEFINE args == [addr |-> a, lifo |-> lifo, handoff |-> FALSE]
  <2>1. Call(g, "lock", args) /\ sema' = sema
    BY <1>3 DEF Semacquire
  <2>2. args \in Args
    BY ArgsOK
  <2> HIDE DEF args
  <2>3. /\ spc' \in [G -> {"idle"} \cup AcquirePhase \cup ReleasePhase]
        /\ sarg' \in [G -> Args] /\ spc'[g] = "lock"
        /\ \A h \in G \ {g} : spc'[h] = spc[h] /\ sarg'[h] = sarg[h]
    BY <1>0, <2>1, <2>2, CallMoves DEF AcquirePhase
  <2>4. SemaTypeOK'
    BY <1>0, <2>1, <2>3 DEF SemaTypeOK
  <2>5. ParkedOnce'
    BY <1>0, <1>1, <2>3, OwnMove
  <2>6. NwaitExact'
    BY <1>0, <2>3, CountStays DEF SemaInv
  <2> QED BY <2>4, <2>5, <2>6 DEF SemaInv
<1> QED BY <1>2, <1>3

LEMMA SemreleaseInv ==
  ASSUME SemaInv, NEW g \in G, NEW a \in Addr, NEW handoff \in BOOLEAN,
         Semrelease(g, a, handoff)
  PROVE  SemaInv'
<1> DEFINE args == [addr |-> a, lifo |-> FALSE, handoff |-> handoff]
<1>0. /\ SemaTypeOK /\ spc[g] = "idle" /\ UNCHANGED <<nwait, queue, sdeq, ticket>>
      /\ sema' = [sema EXCEPT ![a] = @ + 1] /\ Call(g, "nwait", args)
  BY DEF SemaInv, Semrelease
<1>1. ~ticket[g]
  BY <1>0 DEF SemaInv, ParkedOnce, TicketWoken
<1>2. args \in Args
  BY ArgsOK
<1> HIDE DEF args
<1>3. /\ spc' \in [G -> {"idle"} \cup AcquirePhase \cup ReleasePhase]
      /\ sarg' \in [G -> Args] /\ spc'[g] = "nwait"
      /\ \A h \in G \ {g} : spc'[h] = spc[h] /\ sarg'[h] = sarg[h]
  BY <1>0, <1>2, CallMoves DEF ReleasePhase
<1>4. SemaTypeOK'
  BY <1>0, <1>3 DEF SemaTypeOK
<1>5. ParkedOnce'
  BY <1>0, <1>1, <1>3, OwnMove
<1>6. NwaitExact'
  BY <1>0, <1>3, CountStays DEF SemaInv
<1> QED BY <1>4, <1>5, <1>6 DEF SemaInv

LEMMA AcquireLockInv ==
  ASSUME SemaInv, NEW g \in G, AcquireLock(g)
  PROVE  SemaInv'
<1>0. /\ SemaTypeOK /\ spc[g] = "lock" /\ nwait' = nwait + 1 /\ Goto(g, "recheck")
      /\ UNCHANGED <<sema, queue, sdeq, ticket>>
  BY DEF SemaInv, AcquireLock
<1>1. ~ticket[g]
  BY <1>0 DEF SemaInv, ParkedOnce, TicketWoken
<1>2. /\ spc' \in [G -> {"idle"} \cup AcquirePhase \cup ReleasePhase]
      /\ sarg' \in [G -> Args] /\ spc'[g] = "recheck"
      /\ \A h \in G \ {g} : spc'[h] = spc[h] /\ sarg'[h] = sarg[h]
  BY <1>0, GotoMoves DEF AcquirePhase
<1>3. SemaTypeOK'
  BY <1>0, <1>2 DEF SemaTypeOK
<1>4. ParkedOnce'
  BY <1>0, <1>1, <1>2, OwnMove
<1>5. g \notin Counted /\ Counted' = Counted \cup {g}
  BY <1>0, <1>2, NotParked DEF Counted, Waiters
<1>6. NwaitExact'
  BY <1>0, <1>5, CountUp DEF SemaInv
<1> QED BY <1>3, <1>4, <1>6 DEF SemaInv

\* The second look succeeds, or the sudog enters the queue of its address.
LEMMA AcquireRecheckInv ==
  ASSUME SemaInv, NEW g \in G, AcquireRecheck(g)
  PROVE  SemaInv'
<1> DEFINE a == sarg[g].addr
<1>0. /\ SemaTypeOK /\ ParkedOnce /\ NwaitExact
      /\ spc[g] = "recheck" /\ UNCHANGED <<sdeq, ticket>> /\ a \in Addr
  BY ArgsOK DEF SemaInv, AcquireRecheck, SemaTypeOK
<1>1. ~ticket[g] /\ g \in Counted /\ \A b \in Addr : g \notin ToSet(queue[b])
  BY <1>0, NotParked DEF ParkedOnce, TicketWoken, Counted
<1>2. CASE sema[a] > 0
  <2>1. Down(a) /\ nwait' = nwait - 1 /\ Return(g) /\ queue' = queue
    BY <1>2 DEF AcquireRecheck
  <2>2. /\ spc' \in [G -> {"idle"} \cup AcquirePhase \cup ReleasePhase]
        /\ sarg' \in [G -> Args] /\ spc'[g] = "idle"
        /\ \A h \in G \ {g} : spc'[h] = spc[h] /\ sarg'[h] = sarg[h]
    BY <1>0, <2>1, ReturnMoves
  <2>3. Counted' = Counted \ {g}
    BY <1>1, <2>1, <2>2 DEF Counted, Waiters
  <2>4. NwaitExact' /\ nwait' \in Nat
    BY <1>0, <1>1, <2>1, <2>3, CountDown
  <2>5. SemaTypeOK'
    BY <1>0, <1>2, <2>1, <2>2, <2>4, DownOK DEF SemaTypeOK
  <2>6. ParkedOnce'
    BY <1>0, <1>1, <2>1, <2>2, OwnMove
  <2> QED BY <2>4, <2>5, <2>6 DEF SemaInv
<1>3. CASE ~(sema[a] > 0)
  <2>1. queue' = Enqueued(g) /\ Goto(g, "parked") /\ UNCHANGED <<sema, nwait>>
    BY <1>3 DEF AcquireRecheck
  <2>2. /\ spc' \in [G -> {"idle"} \cup AcquirePhase \cup ReleasePhase]
        /\ sarg' \in [G -> Args] /\ spc'[g] = "parked" /\ sarg' = sarg
        /\ \A h \in G \ {g} : spc'[h] = spc[h]
    BY <1>0, <2>1, GotoMoves DEF AcquirePhase
  <2> DEFINE q == IF sarg[g].lifo THEN <<g>> \o queue[a] ELSE Append(queue[a], g)
  <2>3. queue[a] \in Seq(G) /\ IsInjective(queue[a]) /\ queue' = [queue EXCEPT ![a] = q]
    BY <1>0, <2>1 DEF SemaTypeOK, Enqueued, ParkedOnce, QueuedOnce
  <2>4. q \in Seq(G) /\ IsInjective(q) /\ ToSet(q) = ToSet(queue[a]) \cup {g}
    BY <1>1, <1>0, <2>3, PushFront, PushBack
  <2> HIDE DEF q
  <2>5. /\ queue' \in [Addr -> Seq(G)] /\ queue'[a] = q
        /\ \A b \in Addr \ {a} : queue'[b] = queue[b]
    BY <1>0, <2>3, <2>4 DEF SemaTypeOK
  <2>6. SemaTypeOK'
    BY <1>0, <2>1, <2>2, <2>5 DEF SemaTypeOK
  <2>7. Counted' = Counted
    BY <1>0, <1>1, <2>2, <2>4, <2>5 DEF Counted, Waiters
  <2>8. NwaitExact'
    BY <1>0, <2>1, <2>7 DEF NwaitExact
  <2>9. QueuedOnce'
    BY <1>0, <2>4, <2>5 DEF ParkedOnce, QueuedOnce
  <2>10. \A b \in Addr : \A h \in Waiters(b)' : h \in Waiters(b) \/ (h = g /\ b = a)
    BY <2>4, <2>5 DEF Waiters
  <2>11. \A b \in Addr : Waiters(b) \subseteq Waiters(b)'
    BY <2>4, <2>5 DEF Waiters
  <2>12. QueuedParked'
    <3> SUFFICES ASSUME NEW b \in Addr, NEW h \in Waiters(b)'
                 PROVE  spc'[h] = "parked" /\ sarg'[h].addr = b
      BY DEF QueuedParked
    <3>1. CASE h = g /\ b = a
      BY <3>1, <2>2
    <3>2. CASE h \in Waiters(b)
      <4>1. h \in G
        BY <3>2, <1>0 DEF Waiters, ToSet, SemaTypeOK
      <4> QED BY <4>1, <3>2, <1>0, <2>2 DEF ParkedOnce, QueuedParked
    <3> QED BY <3>1, <3>2, <2>10
  <2>13. DequeuedOnce'
    BY <1>0, <2>2 DEF ParkedOnce, DequeuedOnce
  <2>14. DequeuedParked'
    <3> SUFFICES ASSUME NEW r \in G, spc'[r] = "ready"
                 PROVE  /\ spc'[sdeq[r]] = "parked"
                        /\ sarg'[sdeq[r]].addr = sarg'[r].addr
                        /\ \A b \in Addr : sdeq[r] \notin Waiters(b)'
      BY <1>0 DEF DequeuedParked
    <3>1. spc[r] = "ready" /\ sdeq[r] \in G
      BY <1>0, <2>2 DEF SemaTypeOK
    <3>2. /\ spc[sdeq[r]] = "parked" /\ sarg[sdeq[r]].addr = sarg[r].addr
          /\ \A b \in Addr : sdeq[r] \notin Waiters(b)
      BY <1>0, <3>1 DEF ParkedOnce, DequeuedParked
    <3> QED BY <1>0, <2>2, <2>10, <3>1, <3>2
  <2>15. ParkedFound'
    <3> SUFFICES ASSUME NEW h \in G, spc'[h] = "parked"
                 PROVE  \/ h \in ToSet(queue'[sarg'[h].addr])
                        \/ \E r \in G : spc'[r] = "ready" /\ sdeq'[r] = h
      BY DEF ParkedFound, Waiters
    <3>1. CASE h = g
      BY <3>1, <2>2, <2>4, <2>5
    <3>2. CASE h # g
      <4>1. spc[h] = "parked" /\ sarg[h].addr \in Addr
        BY <3>2, <2>2, <1>0, ArgsOK DEF SemaTypeOK
      <4>2. \/ h \in ToSet(queue[sarg[h].addr])
            \/ \E r \in G : spc[r] = "ready" /\ sdeq[r] = h
        BY <4>1, <1>0 DEF ParkedOnce, ParkedFound, Waiters
      <4>3. ToSet(queue[sarg[h].addr]) \subseteq ToSet(queue'[sarg[h].addr])
        BY <4>1, <2>11 DEF Waiters
      <4> QED BY <4>1, <4>2, <4>3, <1>0, <2>2
    <3> QED BY <3>1, <3>2
  <2>16. TicketWoken'
    BY <1>0, <1>1, <2>2 DEF ParkedOnce, TicketWoken
  <2> QED BY <2>6, <2>8, <2>9, <2>12, <2>13, <2>14, <2>15, <2>16 DEF SemaInv, ParkedOnce
<1> QED BY <1>2, <1>3

LEMMA AcquireWokenInv ==
  ASSUME SemaInv, NEW g \in G, AcquireWoken(g)
  PROVE  SemaInv'
<1> DEFINE a == sarg[g].addr
<1>0. /\ SemaTypeOK /\ NwaitExact /\ spc[g] = "woken" /\ UNCHANGED <<nwait, queue, sdeq>>
      /\ a \in Addr /\ ticket' = [ticket EXCEPT ![g] = FALSE]
  BY ArgsOK DEF SemaInv, AcquireWoken, SemaTypeOK
<1>1. /\ ticket' \in [G -> BOOLEAN] /\ ~ticket'[g]
      /\ \A h \in G \ {g} : ticket'[h] = ticket[h]
  BY <1>0 DEF SemaTypeOK
<1>2. sema' \in [Addr -> Nat]
  <2>1. CASE sema' = sema
    BY <2>1, <1>0 DEF SemaTypeOK
  <2>2. CASE sema[a] > 0 /\ Down(a)
    BY <2>2, <1>0, DownOK
  <2> QED BY <2>1, <2>2 DEF AcquireWoken
<1>3. Return(g) \/ Goto(g, "lock")
  BY DEF AcquireWoken
<1>4. /\ spc' \in [G -> {"idle"} \cup AcquirePhase \cup ReleasePhase]
      /\ sarg' \in [G -> Args] /\ spc'[g] \in {"idle", "lock"}
      /\ \A h \in G \ {g} : spc'[h] = spc[h] /\ sarg'[h] = sarg[h]
  BY <1>0, <1>3, ReturnMoves, GotoMoves DEF AcquirePhase
<1>5. SemaTypeOK'
  BY <1>0, <1>1, <1>2, <1>4 DEF SemaTypeOK
<1>6. ParkedOnce'
  BY <1>0, <1>1, <1>4, OwnMove
<1>7. NwaitExact'
  BY <1>0, <1>4, CountStays
<1> QED BY <1>5, <1>6, <1>7 DEF SemaInv

LEMMA ReleaseNwaitInv ==
  ASSUME SemaInv, NEW g \in G, ReleaseNwait(g)
  PROVE  SemaInv'
<1>0. /\ SemaTypeOK /\ NwaitExact /\ spc[g] = "nwait"
      /\ UNCHANGED <<sema, nwait, queue, sdeq, ticket>>
  BY DEF SemaInv, ReleaseNwait
<1>1. ~ticket[g]
  BY <1>0 DEF SemaInv, ParkedOnce, TicketWoken
<1>2. Return(g) \/ Goto(g, "deq")
  BY DEF ReleaseNwait
<1>3. /\ spc' \in [G -> {"idle"} \cup AcquirePhase \cup ReleasePhase]
      /\ sarg' \in [G -> Args] /\ spc'[g] \in {"idle", "deq"}
      /\ \A h \in G \ {g} : spc'[h] = spc[h] /\ sarg'[h] = sarg[h]
  BY <1>0, <1>2, ReturnMoves, GotoMoves DEF ReleasePhase
<1>4. SemaTypeOK'
  BY <1>0, <1>3 DEF SemaTypeOK
<1>5. ParkedOnce'
  BY <1>0, <1>1, <1>3, OwnMove
<1>6. NwaitExact'
  BY <1>0, <1>3, CountStays
<1> QED BY <1>4, <1>5, <1>6 DEF SemaInv

\* There is nobody to dequeue, or the first sudog changes from queued to dequeued.
LEMMA ReleaseDequeueInv ==
  ASSUME SemaInv, NEW g \in G, ReleaseDequeue(g)
  PROVE  SemaInv'
<1> DEFINE a == sarg[g].addr
<1>0. /\ SemaTypeOK /\ ParkedOnce /\ NwaitExact /\ spc[g] = "deq"
      /\ UNCHANGED <<sema, ticket>> /\ a \in Addr /\ queue[a] \in Seq(G)
  BY ArgsOK DEF SemaInv, ReleaseDequeue, SemaTypeOK
<1>1. ~ticket[g]
  BY <1>0 DEF ParkedOnce, TicketWoken
<1>2. CASE nwait = 0 \/ queue[a] = << >>
  <2>1. Return(g) /\ UNCHANGED <<nwait, queue, sdeq>>
    BY <1>2 DEF ReleaseDequeue
  <2>2. /\ spc' \in [G -> {"idle"} \cup AcquirePhase \cup ReleasePhase]
        /\ sarg' \in [G -> Args] /\ spc'[g] = "idle"
        /\ \A h \in G \ {g} : spc'[h] = spc[h] /\ sarg'[h] = sarg[h]
    BY <1>0, <2>1, ReturnMoves
  <2>3. SemaTypeOK'
    BY <1>0, <2>1, <2>2 DEF SemaTypeOK
  <2>4. ParkedOnce'
    BY <1>0, <1>1, <2>1, <2>2, OwnMove
  <2>5. NwaitExact'
    BY <1>0, <2>1, <2>2, CountStays
  <2> QED BY <2>3, <2>4, <2>5 DEF SemaInv
<1>3. CASE ~(nwait = 0 \/ queue[a] = << >>)
  <2> DEFINE q == queue[a]
             s == Head(q)
  <2>1. /\ sdeq' = [sdeq EXCEPT ![g] = s] /\ queue' = [queue EXCEPT ![a] = Tail(q)]
        /\ nwait' = nwait - 1 /\ Goto(g, "ready") /\ q # << >>
    BY <1>3 DEF ReleaseDequeue
  <2>2. /\ spc' \in [G -> {"idle"} \cup AcquirePhase \cup ReleasePhase]
        /\ sarg' \in [G -> Args] /\ spc'[g] = "ready" /\ sarg' = sarg
        /\ \A h \in G \ {g} : spc'[h] = spc[h]
    BY <1>0, <2>1, GotoMoves DEF ReleasePhase
  <2>3. IsInjective(q)
    BY <1>0 DEF ParkedOnce, QueuedOnce
  <2>4. /\ s \in G /\ Tail(q) \in Seq(G) /\ s \in ToSet(q) /\ IsInjective(Tail(q))
        /\ ToSet(q) = ToSet(Tail(q)) \cup {s} /\ s \notin ToSet(Tail(q))
    BY <1>0, <2>1, <2>3, Pop
  <2>5. /\ queue' \in [Addr -> Seq(G)] /\ queue'[a] = Tail(q)
        /\ \A b \in Addr \ {a} : queue'[b] = queue[b]
    BY <1>0, <2>1, <2>4 DEF SemaTypeOK
  <2>6. sdeq' \in [G -> G] /\ sdeq'[g] = s /\ \A r \in G \ {g} : sdeq'[r] = sdeq[r]
    BY <1>0, <2>1, <2>4 DEF SemaTypeOK
  <2>7. spc[s] = "parked" /\ sarg[s].addr = a
    BY <1>0, <2>4 DEF ParkedOnce, QueuedParked, Waiters
  <2>8. \A b \in Addr : ToSet(queue'[b]) = ToSet(queue[b]) \ {s}
    <3> TAKE b \in Addr
    <3>1. CASE b = a
      BY <3>1, <2>4, <2>5
    <3>2. CASE b # a
      <4>1. s \notin ToSet(queue[b])
        BY <3>2, <2>7, <1>0 DEF ParkedOnce, QueuedParked, Waiters
      <4> QED BY <4>1, <3>2, <2>5
    <3> QED BY <3>1, <3>2
  <2> HIDE DEF q, s
  <2>9. s \in Counted /\ Counted' = Counted \ {s}
    <3>1. spc[s] # "recheck" /\ s \in ToSet(queue[a])
      BY <2>7, <2>4 DEF q
    <3>2. s \in Counted
      BY <1>0, <2>4, <3>1 DEF Counted, Waiters
    <3>3. \A h \in G : spc'[h] = "recheck" <=> spc[h] = "recheck"
      BY <1>0, <2>2
    <3> QED BY <2>8, <3>1, <3>2, <3>3 DEF Counted, Waiters
  <2>10. NwaitExact' /\ nwait' \in Nat
    BY <1>0, <2>1, <2>4, <2>9, CountDown
  <2>11. SemaTypeOK'
    BY <1>0, <2>2, <2>5, <2>6, <2>10 DEF SemaTypeOK
  <2>12. QueuedOnce'
    BY <1>0, <2>4, <2>5 DEF ParkedOnce, QueuedOnce
  <2>13. QueuedParked'
    <3> SUFFICES ASSUME NEW b \in Addr, NEW h \in ToSet(queue'[b])
                 PROVE  spc'[h] = "parked" /\ sarg'[h].addr = b
      BY DEF QueuedParked, Waiters
    <3>1. h \in ToSet(queue[b])
      BY <2>8
    <3>2. h \in G
      BY <3>1, <1>0 DEF ToSet, SemaTypeOK
    <3>3. spc[h] = "parked" /\ sarg[h].addr = b
      BY <3>1, <1>0 DEF ParkedOnce, QueuedParked, Waiters
    <3> QED BY <3>1, <3>2, <3>3, <2>2, <1>0
  <2>14. \A r \in G : spc[r] = "ready" => sdeq[r] # s
    BY <1>0, <2>4 DEF ParkedOnce, DequeuedParked, Waiters, q
  <2>15. DequeuedOnce'
    <3> SUFFICES ASSUME NEW r \in G, NEW t \in G, spc'[r] = "ready", spc'[t] = "ready",
                        sdeq'[r] = sdeq'[t]
                 PROVE  r = t
      BY DEF DequeuedOnce
    <3> QED BY <1>0, <2>2, <2>6, <2>14 DEF ParkedOnce, DequeuedOnce
  <2>16. DequeuedParked'
    <3> SUFFICES ASSUME NEW r \in G, spc'[r] = "ready"
                 PROVE  /\ spc'[sdeq'[r]] = "parked"
                        /\ sarg'[sdeq'[r]].addr = sarg'[r].addr
                        /\ \A b \in Addr : sdeq'[r] \notin ToSet(queue'[b])
      BY DEF DequeuedParked, Waiters
    <3>1. CASE r = g
      BY <3>1, <1>0, <2>2, <2>4, <2>6, <2>7, <2>8
    <3>2. CASE r # g
      <4>1. spc[r] = "ready" /\ sdeq'[r] = sdeq[r] /\ sdeq[r] \in G
        BY <3>2, <1>0, <2>2, <2>6 DEF SemaTypeOK
      <4>2. /\ spc[sdeq[r]] = "parked" /\ sarg[sdeq[r]].addr = sarg[r].addr
            /\ \A b \in Addr : sdeq[r] \notin ToSet(queue[b])
        BY <4>1, <1>0 DEF ParkedOnce, DequeuedParked, Waiters
      <4> QED BY <4>1, <4>2, <1>0, <2>2, <2>8
    <3> QED BY <3>1, <3>2
  <2>17. ParkedFound'
    <3> SUFFICES ASSUME NEW h \in G, spc'[h] = "parked"
                 PROVE  \/ h \in ToSet(queue'[sarg'[h].addr])
                        \/ \E r \in G : spc'[r] = "ready" /\ sdeq'[r] = h
      BY DEF ParkedFound, Waiters
    <3>1. CASE h = s
      BY <3>1, <2>2, <2>6
    <3>2. CASE h # s
      <4>1. spc[h] = "parked" /\ sarg'[h] = sarg[h] /\ sarg[h].addr \in Addr
        BY <2>2, <1>0, ArgsOK DEF SemaTypeOK
      <4>2. CASE h \in ToSet(queue[sarg[h].addr])
        BY <4>1, <4>2, <3>2, <2>8
      <4>3. CASE \E r \in G : spc[r] = "ready" /\ sdeq[r] = h
        <5> PICK r \in G : spc[r] = "ready" /\ sdeq[r] = h
          BY <4>3
        <5>1. r # g
          BY <1>0
        <5> QED BY <5>1, <2>2, <2>6
      <4> QED BY <4>1, <4>2, <4>3, <1>0 DEF ParkedOnce, ParkedFound, Waiters
    <3> QED BY <3>1, <3>2
  <2>18. TicketWoken'
    BY <1>0, <1>1, <2>2 DEF ParkedOnce, TicketWoken
  <2> QED BY <2>10, <2>11, <2>12, <2>13, <2>15, <2>16, <2>17, <2>18 DEF SemaInv, ParkedOnce
<1> QED BY <1>2, <1>3

\* The dequeued sudog is readied, once, with or without the unit.
LEMMA ReleaseReadyInv ==
  ASSUME SemaInv, NEW g \in G, ReleaseReady(g)
  PROVE  SemaInv'
<1> DEFINE a == sarg[g].addr
           s == sdeq[g]
           grant == sarg[g].handoff /\ sema[a] > 0
<1>0. /\ SemaTypeOK /\ ParkedOnce /\ NwaitExact /\ spc[g] = "ready" /\ a \in Addr
      /\ s \in G /\ UNCHANGED <<nwait, queue>> /\ grant \in BOOLEAN
  BY ArgsOK DEF SemaInv, ReleaseReady, SemaTypeOK, Args
<1>1. /\ ticket' = [ticket EXCEPT ![s] = grant]
      /\ spc' = [spc EXCEPT ![s] = "woken", ![g] = "idle"]
      /\ sarg' = [sarg EXCEPT ![g] = NoArgs]
      /\ sdeq' = [sdeq EXCEPT ![g] = g]
      /\ IF grant THEN Down(a) ELSE UNCHANGED sema
  BY DEF ReleaseReady
<1>2. /\ spc[s] = "parked" /\ s # g /\ \A b \in Addr : s \notin ToSet(queue[b])
      /\ \A r \in G \ {g} : spc[r] = "ready" => sdeq[r] # s
  BY <1>0 DEF ParkedOnce, DequeuedParked, DequeuedOnce, Waiters
<1>3. NoArgs \in Args
  BY <1>0, ArgsOK
<1>4. /\ spc'[s] = "woken" /\ spc'[g] = "idle" /\ \A h \in G \ {g, s} : spc'[h] = spc[h]
      /\ sarg' \in [G -> Args] /\ \A h \in G \ {g} : sarg'[h] = sarg[h]
      /\ sdeq' \in [G -> G] /\ \A h \in G \ {g} : sdeq'[h] = sdeq[h]
      /\ ticket' \in [G -> BOOLEAN] /\ \A h \in G \ {s} : ticket'[h] = ticket[h]
      /\ spc' \in [G -> {"idle"} \cup AcquirePhase \cup ReleasePhase]
  <2> HIDE DEF grant
  <2> QED BY <1>0, <1>1, <1>2, <1>3 DEF SemaTypeOK, AcquirePhase
<1>5. sema' \in [Addr -> Nat]
  BY <1>0, <1>1, DownOK DEF SemaTypeOK
<1> HIDE DEF grant
<1>6. SemaTypeOK'
  BY <1>0, <1>4, <1>5 DEF SemaTypeOK
<1>7. NwaitExact'
  <2>1. \A h \in G : spc'[h] = "recheck" <=> spc[h] = "recheck"
    BY <1>0, <1>2, <1>4
  <2> QED BY <1>0, <2>1, CountStays
<1>8. QueuedOnce'
  BY <1>0 DEF ParkedOnce, QueuedOnce
<1>9. QueuedParked'
  <2> SUFFICES ASSUME NEW b \in Addr, NEW h \in ToSet(queue[b])
               PROVE  spc'[h] = "parked" /\ sarg'[h].addr = b
    BY <1>0 DEF QueuedParked, Waiters
  <2>1. h \in G
    BY <1>0 DEF ToSet, SemaTypeOK
  <2>2. spc[h] = "parked" /\ sarg[h].addr = b
    BY <1>0 DEF ParkedOnce, QueuedParked, Waiters
  <2> QED BY <2>1, <2>2, <1>0, <1>2, <1>4
<1>10. DequeuedOnce'
  <2> SUFFICES ASSUME NEW r \in G, NEW t \in G, spc'[r] = "ready", spc'[t] = "ready",
                      sdeq'[r] = sdeq'[t]
               PROVE  r = t
    BY DEF DequeuedOnce
  <2> QED BY <1>0, <1>4 DEF ParkedOnce, DequeuedOnce
<1>11. DequeuedParked'
  <2> SUFFICES ASSUME NEW r \in G, spc'[r] = "ready"
               PROVE  /\ spc'[sdeq'[r]] = "parked"
                      /\ sarg'[sdeq'[r]].addr = sarg'[r].addr
                      /\ \A b \in Addr : sdeq'[r] \notin ToSet(queue'[b])
    BY DEF DequeuedParked, Waiters
  <2>1. r # g /\ r # s /\ spc[r] = "ready" /\ sdeq'[r] = sdeq[r] /\ sdeq[r] \in G
    BY <1>0, <1>4 DEF SemaTypeOK
  <2>2. /\ spc[sdeq[r]] = "parked" /\ sarg[sdeq[r]].addr = sarg[r].addr
        /\ \A b \in Addr : sdeq[r] \notin ToSet(queue[b])
    BY <2>1, <1>0 DEF ParkedOnce, DequeuedParked, Waiters
  <2> QED BY <2>1, <2>2, <1>0, <1>2, <1>4
<1>12. ParkedFound'
  <2> SUFFICES ASSUME NEW h \in G, spc'[h] = "parked"
               PROVE  \/ h \in ToSet(queue'[sarg'[h].addr])
                      \/ \E r \in G : spc'[r] = "ready" /\ sdeq'[r] = h
    BY DEF ParkedFound, Waiters
  <2>1. h # g /\ h # s /\ spc[h] = "parked" /\ sarg'[h] = sarg[h]
    BY <1>4
  <2>2. CASE h \in ToSet(queue[sarg[h].addr])
    BY <2>1, <2>2, <1>0
  <2>3. CASE \E r \in G : spc[r] = "ready" /\ sdeq[r] = h
    <3> PICK r \in G : spc[r] = "ready" /\ sdeq[r] = h
      BY <2>3
    <3>1. r # g /\ r # s
      BY <2>1, <1>2
    <3> QED BY <3>1, <1>4
  <2> QED BY <2>1, <2>2, <2>3, <1>0 DEF ParkedOnce, ParkedFound, Waiters
<1>13. TicketWoken'
  <2> SUFFICES ASSUME NEW h \in G, ticket'[h] PROVE spc'[h] = "woken"
    BY DEF TicketWoken
  <2>1. CASE h = s
    BY <2>1, <1>4
  <2>2. CASE h # s
    BY <2>2, <1>0, <1>4 DEF ParkedOnce, TicketWoken
  <2> QED BY <2>1, <2>2
<1> QED BY <1>6, <1>7, <1>8, <1>9, <1>10, <1>11, <1>12, <1>13 DEF SemaInv, ParkedOnce

-----------------------------------------------------------------------------
(* The theorems *)

\* Any step inside semacquire1 or semrelease1 preserves the invariant.
LEMMA SemaStepInv ==
  ASSUME SemaInv, NEW g \in G, SemaStep(g)
  PROVE  SemaInv'
BY AcquireLockInv, AcquireRecheckInv, AcquireWokenInv, ReleaseNwaitInv, ReleaseDequeueInv,
   ReleaseReadyInv DEF SemaStep

LEMMA SemaInitInv ==
  ASSUME SemaInit
  PROVE  SemaInv
<1>1. SemaTypeOK
  BY ArgsOK, AddrSome, EmptySeq DEF SemaInit, SemaTypeOK
<1>2. \A a \in Addr : queue[a] = << >> /\ ToSet(queue[a]) = {} /\ IsInjective(queue[a])
  BY DEF SemaInit, ToSet, IsInjective
<1>3. ParkedOnce
  BY <1>2 DEF SemaInit, ParkedOnce, QueuedOnce, QueuedParked, DequeuedOnce, DequeuedParked,
     ParkedFound, TicketWoken, Waiters
<1>4. NwaitExact
  <2>1. Counted = {}
    BY <1>2 DEF SemaInit, Counted, Waiters
  <2> QED BY <2>1, FS_EmptySet DEF SemaInit, NwaitExact
<1> QED BY <1>1, <1>3, <1>4 DEF SemaInv

\* No variable of the semaphores changes: nothing is disturbed.
LEMMA SemaStutterInv ==
  ASSUME SemaInv, UNCHANGED svars
  PROVE  SemaInv'
BY DEF SemaInv, svars, SemaTypeOK, ParkedOnce, QueuedOnce, QueuedParked, DequeuedOnce,
   DequeuedParked, ParkedFound, TicketWoken, NwaitExact, Counted, Waiters

(***************************************************************************)
(* For any number of goroutines and addresses, under any calls: the types, *)
(* one way back for every sleeper (no lost sudog, no double goready) and   *)
(* an exact nwait, which together say that semrelease1's unlocked look at  *)
(* nwait never misses a queued goroutine.                                  *)
(***************************************************************************)
THEOREM SemaInvariant == SemaSpec => [](SemaTypeOK /\ ParkedOnce /\ NwaitExact)
<1>1. SemaInit => SemaInv
  BY SemaInitInv
<1>2. SemaInv /\ [SemaNext]_svars => SemaInv'
  <2> SUFFICES ASSUME SemaInv, [SemaNext]_svars PROVE SemaInv'
    OBVIOUS
  <2>1. CASE UNCHANGED svars
    BY <2>1, SemaStutterInv
  <2>2. ASSUME NEW g \in G, SemaCall(g) PROVE SemaInv'
    BY <2>2, SemacquireInv, SemreleaseInv DEF SemaCall
  <2>3. ASSUME NEW g \in G, SemaStep(g) PROVE SemaInv'
    BY <2>3, SemaStepInv
  <2> QED BY <2>1, <2>2, <2>3 DEF SemaNext
<1>3. SemaInv => SemaTypeOK /\ ParkedOnce /\ NwaitExact
  BY DEF SemaInv
<1> QED BY <1>1, <1>2, <1>3, PTL DEF SemaSpec

\* The count of an address, its queue and every goroutine's place are what
\* semacquire1 and semrelease1 take them to be, at any time.
THEOREM SemaTypes == SemaSpec => []SemaTypeOK
BY SemaInvariant, PTL

\* nwait counts the queued goroutines and those about to queue, so that
\* semrelease1 may leave without the root's lock when it reads 0.
THEOREM NwaitIsExact == SemaSpec => []NwaitExact
BY SemaInvariant, PTL

-----------------------------------------------------------------------------
(***************************************************************************)
(* What the users of the semaphores see of a step: nobody begins a call or *)
(* changes its direction, and either nothing is taken or one goroutine     *)
(* that wants a unit takes one, whether it finds it or is handed it.       *)
(***************************************************************************)

\* h is in semacquire1 and has no unit yet.
Wanting(h) == spc[h] \in AcquirePhase /\ ~ticket[h]

CallsStay ==
  \A h \in G :
    /\ spc[h] = "idle" => spc'[h] = "idle"
    /\ spc[h] \in AcquirePhase => spc'[h] \in AcquirePhase \cup {"idle"}
    /\ spc[h] \in ReleasePhase => spc'[h] \in ReleasePhase \cup {"idle"}
    /\ spc'[h] # "idle" => sarg'[h] = sarg[h]

NothingTaken == sema' = sema /\ \A h \in G : Wanting(h)' <=> Wanting(h)
Takes(s, a) ==
  /\ sarg[s].addr = a
  /\ sema[a] > 0 /\ Down(a)
  /\ Wanting(s) /\ ~Wanting(s)'
  /\ \A h \in G \ {s} : Wanting(h)' <=> Wanting(h)

LEMMA SemaStepView ==
  ASSUME SemaInv, NEW g \in G, SemaStep(g)
  PROVE  /\ CallsStay
         /\ NothingTaken \/ \E s \in G, a \in Addr : Takes(s, a)
<1>0. SemaTypeOK /\ ParkedOnce
  BY DEF SemaInv
<1>1. CASE AcquireLock(g)
  <2>1. /\ spc[g] = "lock" /\ spc'[g] = "recheck" /\ sema' = sema /\ ticket' = ticket
        /\ sarg' = sarg /\ \A h \in G \ {g} : spc'[h] = spc[h]
    BY <1>0, <1>1, GotoMoves DEF AcquireLock, AcquirePhase
  <2> QED BY <1>0, <2>1 DEF CallsStay, NothingTaken, Wanting, AcquirePhase, ReleasePhase
<1>2. CASE AcquireRecheck(g)
  <2> PICK a \in Addr : a = sarg[g].addr
    BY <1>0, ArgsOK DEF SemaTypeOK
  <2>1. /\ spc[g] = "recheck" /\ ticket' = ticket /\ ~ticket[g]
    BY <1>0, <1>2 DEF AcquireRecheck, ParkedOnce, TicketWoken
  <2>2. CASE sema[a] > 0
    <3>1. Down(a) /\ Return(g)
      BY <1>2, <2>2 DEF AcquireRecheck
    <3>2. spc'[g] = "idle" /\ \A h \in G \ {g} : spc'[h] = spc[h] /\ sarg'[h] = sarg[h]
      BY <1>0, <3>1, ReturnMoves
    <3>3. CallsStay
      BY <1>0, <2>1, <3>2 DEF CallsStay, AcquirePhase, ReleasePhase
    <3>4. Takes(g, a)
      BY <1>0, <2>1, <2>2, <3>1, <3>2 DEF Takes, Wanting, AcquirePhase
    <3> QED BY <3>3, <3>4
  <2>3. CASE ~(sema[a] > 0)
    <3>1. sema' = sema /\ Goto(g, "parked")
      BY <1>2, <2>3 DEF AcquireRecheck
    <3>2. spc'[g] = "parked" /\ sarg' = sarg /\ \A h \in G \ {g} : spc'[h] = spc[h]
      BY <1>0, <3>1, GotoMoves DEF AcquirePhase
    <3> QED BY <1>0, <2>1, <3>1, <3>2
        DEF CallsStay, NothingTaken, Wanting, AcquirePhase, ReleasePhase
  <2> QED BY <2>2, <2>3
<1>3. CASE AcquireWoken(g)
  <2> PICK a \in Addr : a = sarg[g].addr
    BY <1>0, ArgsOK DEF SemaTypeOK
  <2>1. /\ spc[g] = "woken"
        /\ ~ticket'[g] /\ \A h \in G \ {g} : ticket'[h] = ticket[h]
    BY <1>0, <1>3 DEF AcquireWoken, SemaTypeOK
  <2>2. CASE ticket[g] \/ sema[a] > 0
    <3>1. Return(g) /\ IF ticket[g] THEN sema' = sema ELSE Down(a)
      BY <1>3, <2>2 DEF AcquireWoken
    <3>2. spc'[g] = "idle" /\ \A h \in G \ {g} : spc'[h] = spc[h] /\ sarg'[h] = sarg[h]
      BY <1>0, <3>1, ReturnMoves
    <3>3. CallsStay
      BY <1>0, <2>1, <3>2 DEF CallsStay, AcquirePhase, ReleasePhase
    <3>4. CASE ticket[g]
      BY <1>0, <2>1, <3>1, <3>2, <3>3, <3>4 DEF NothingTaken, Wanting, AcquirePhase
    <3>5. CASE ~ticket[g]
      <4>1. Takes(g, a)
        BY <1>0, <2>1, <2>2, <3>1, <3>2, <3>5 DEF Takes, Wanting, AcquirePhase
      <4> QED BY <3>3, <4>1
    <3> QED BY <3>4, <3>5
  <2>3. CASE ~ticket[g] /\ ~(sema[a] > 0)
    <3>1. sema' = sema /\ Goto(g, "lock")
      BY <1>3, <2>1, <2>3 DEF AcquireWoken
    <3>2. spc'[g] = "lock" /\ sarg' = sarg /\ \A h \in G \ {g} : spc'[h] = spc[h]
      BY <1>0, <3>1, GotoMoves DEF AcquirePhase
    <3> QED BY <1>0, <2>1, <2>3, <3>1, <3>2
        DEF CallsStay, NothingTaken, Wanting, AcquirePhase, ReleasePhase
  <2> QED BY <2>2, <2>3
<1>4. CASE ReleaseNwait(g) \/ ReleaseDequeue(g)
  <2>1. /\ spc[g] \in {"nwait", "deq"} /\ sema' = sema /\ ticket' = ticket
        /\ Return(g) \/ Goto(g, "deq") \/ Goto(g, "ready")
    BY <1>4 DEF ReleaseNwait, ReleaseDequeue
  <2>2. /\ spc'[g] \in {"idle", "deq", "ready"}
        /\ spc'[g] # "idle" => sarg'[g] = sarg[g]
        /\ \A h \in G \ {g} : spc'[h] = spc[h] /\ sarg'[h] = sarg[h]
    BY <1>0, <2>1, ReturnMoves, GotoMoves DEF ReleasePhase
  <2> QED BY <1>0, <2>1, <2>2 DEF CallsStay, NothingTaken, Wanting, AcquirePhase, ReleasePhase
<1>5. CASE ReleaseReady(g)
  <2> PICK s \in G : s = sdeq[g]
    BY <1>0 DEF SemaTypeOK
  <2> PICK a \in Addr : a = sarg[g].addr
    BY <1>0, ArgsOK DEF SemaTypeOK
  <2> DEFINE grant == sarg[g].handoff /\ sema[a] > 0
  <2>1. /\ spc[g] = "ready" /\ s # g /\ spc[s] = "parked" /\ sarg[s].addr = a /\ ~ticket[s]
    BY <1>0, <1>5 DEF ReleaseReady, SemaTypeOK, ParkedOnce, DequeuedParked, TicketWoken
  <2>2. /\ spc'[s] = "woken" /\ spc'[g] = "idle" /\ \A h \in G \ {g, s} : spc'[h] = spc[h]
        /\ \A h \in G \ {g} : sarg'[h] = sarg[h]
        /\ \A h \in G \ {s} : ticket'[h] = ticket[h]
        /\ ticket'[s] <=> grant
        /\ IF grant THEN Down(a) ELSE UNCHANGED sema
    <3>1. /\ spc' = [spc EXCEPT ![s] = "woken", ![g] = "idle"]
          /\ sarg' = [sarg EXCEPT ![g] = NoArgs]
          /\ ticket' = [ticket EXCEPT ![s] = grant]
          /\ IF grant THEN Down(a) ELSE UNCHANGED sema
      BY <1>5, s = sdeq[g], a = sarg[g].addr DEF ReleaseReady
    <3> HIDE DEF grant
    <3> QED BY <1>0, <2>1, <3>1 DEF SemaTypeOK
  <2>3. CallsStay
    BY <1>0, <2>1, <2>2 DEF CallsStay, AcquirePhase, ReleasePhase
  <2>4. \A h \in G \ {s} : Wanting(h)' <=> Wanting(h)
    BY <1>0, <2>1, <2>2 DEF Wanting, AcquirePhase
  <2>5. Wanting(s) /\ (Wanting(s)' <=> ~grant)
    BY <1>0, <2>1, <2>2 DEF Wanting, AcquirePhase
  <2>6. CASE grant
    <3>1. Takes(s, a)
      BY <2>1, <2>2, <2>4, <2>5, <2>6 DEF Takes
    <3> QED BY <2>3, <3>1
  <2>7. CASE ~grant
    BY <2>2, <2>3, <2>4, <2>5, <2>7 DEF NothingTaken
  <2> QED BY <2>6, <2>7
<1> QED BY <1>1, <1>2, <1>3, <1>4, <1>5 DEF SemaStep

\* semacquire's call takes a unit at once or starts to want one.
LEMMA SemacquireView ==
  ASSUME SemaInv, NEW g \in G, NEW a \in Addr, NEW lifo \in BOOLEAN, Semacquire(g, a, lifo)
  PROVE  /\ \A h \in G \ {g} : spc'[h] = spc[h] /\ sarg'[h] = sarg[h]
         /\ \A h \in G \ {g} : Wanting(h)' <=> Wanting(h)
         /\ ticket' = ticket /\ ~ticket[g] /\ spc[g] = "idle" /\ ~Wanting(g)
         /\ \/ sema[a] > 0 /\ Down(a) /\ spc'[g] = "idle" /\ ~Wanting(g)'
            \/ sema[a] = 0 /\ sema' = sema /\ spc'[g] = "lock" /\ sarg'[g].addr = a /\ Wanting(g)'
<1>0. SemaTypeOK /\ ParkedOnce /\ sema[a] \in Nat
  BY DEF SemaInv, SemaTypeOK
<1>1. spc[g] = "idle" /\ ticket' = ticket /\ ~ticket[g] /\ ~Wanting(g)
  BY <1>0 DEF Semacquire, ParkedOnce, TicketWoken, Wanting, AcquirePhase
<1>2. CASE sema[a] > 0
  <2>1. Down(a) /\ spc' = spc /\ sarg' = sarg
    BY <1>2 DEF Semacquire
  <2> QED BY <1>1, <1>2, <2>1 DEF Wanting
<1>3. CASE ~(sema[a] > 0)
  <2> PICK args \in Args : args = [addr |-> a, lifo |-> lifo, handoff |-> FALSE]
    BY ArgsOK
  <2>1. Call(g, "lock", args) /\ sema' = sema
    BY <1>3 DEF Semacquire
  <2>2. /\ spc'[g] = "lock" /\ sarg'[g] = args
        /\ \A h \in G \ {g} : spc'[h] = spc[h] /\ sarg'[h] = sarg[h]
    BY <1>0, <2>1, CallMoves DEF AcquirePhase
  <2>3. sema[a] = 0 /\ sarg'[g].addr = a
    BY <1>0, <1>3, <2>2
  <2> QED BY <1>1, <2>1, <2>2, <2>3 DEF Wanting, AcquirePhase
<1> QED BY <1>2, <1>3

\* semrelease's call puts a unit there, for whoever wants one.
LEMMA SemreleaseView ==
  ASSUME SemaInv, NEW g \in G, NEW a \in Addr, NEW handoff \in BOOLEAN,
         Semrelease(g, a, handoff)
  PROVE  /\ \A h \in G \ {g} : spc'[h] = spc[h] /\ sarg'[h] = sarg[h]
         /\ ticket' = ticket /\ spc[g] = "idle" /\ spc'[g] = "nwait" /\ sarg'[g].addr = a
         /\ sema' = [sema EXCEPT ![a] = @ + 1]
         /\ \A h \in G : Wanting(h)' <=> Wanting(h)
<1>0. SemaTypeOK
  BY DEF SemaInv
<1> PICK args \in Args : args = [addr |-> a, lifo |-> FALSE, handoff |-> handoff]
  BY ArgsOK
<1>1. /\ spc[g] = "idle" /\ ticket' = ticket /\ Call(g, "nwait", args)
      /\ sema' = [sema EXCEPT ![a] = @ + 1]
  BY DEF Semrelease
<1>2. /\ spc'[g] = "nwait" /\ sarg'[g] = args
      /\ \A h \in G \ {g} : spc'[h] = spc[h] /\ sarg'[h] = sarg[h]
  BY <1>0, <1>1, CallMoves DEF ReleasePhase
<1>3. \A h \in G : Wanting(h)' <=> Wanting(h)
  BY <1>1, <1>2 DEF Wanting, AcquirePhase
<1> QED BY <1>1, <1>2, <1>3

-----------------------------------------------------------------------------
(* No wakeup is lost *)

LEMMA WakersFinite ==
  ASSUME NEW a \in Addr
  PROVE  IsFiniteSet(WakersOf(a)) /\ Cardinality(WakersOf(a)) \in Nat
BY GFinite, FS_Subset, FS_CardinalityType DEF WakersOf

LEMMA WakersFinitePrime ==
  ASSUME NEW a \in Addr
  PROVE  IsFiniteSet(WakersOf(a)') /\ Cardinality(WakersOf(a)') \in Nat
BY GFinite, FS_Subset, FS_CardinalityType DEF WakersOf

\* What a step may do at address a without losing a wakeup there.
Covered(a) == queue[a] # << >> => sema[a] <= Cardinality(WakersOf(a))

\* The count does not grow and no waker leaves.
LEMMA CoveredMore ==
  ASSUME SemaTypeOK, NEW a \in Addr, Covered(a), sema'[a] \in Nat,
         queue'[a] # << >> => queue[a] # << >>,
         sema'[a] <= sema[a], WakersOf(a) \subseteq WakersOf(a)'
  PROVE  Covered(a)'
<1>1. Cardinality(WakersOf(a)) <= Cardinality(WakersOf(a)')
  BY WakersFinitePrime, FS_Subset
<1> QED BY <1>1, WakersFinite, WakersFinitePrime DEF Covered, SemaTypeOK

\* The count grows by one and so do the wakers.
LEMMA CoveredUp ==
  ASSUME SemaTypeOK, NEW a \in Addr, Covered(a), NEW g \in G, g \notin WakersOf(a),
         queue'[a] = queue[a], sema'[a] = sema[a] + 1,
         WakersOf(a)' = WakersOf(a) \cup {g}
  PROVE  Covered(a)'
<1>1. Cardinality(WakersOf(a)') = Cardinality(WakersOf(a)) + 1
  BY WakersFinite, FS_AddElement
<1> QED BY <1>1, WakersFinite DEF Covered, SemaTypeOK

\* A waker leaves with a unit.
LEMMA CoveredDown ==
  ASSUME SemaTypeOK, NEW a \in Addr, Covered(a), NEW g \in G, g \in WakersOf(a),
         queue'[a] = queue[a], sema'[a] = sema[a] - 1,
         WakersOf(a)' = WakersOf(a) \ {g}
  PROVE  Covered(a)'
<1>1. Cardinality(WakersOf(a)') = Cardinality(WakersOf(a)) - 1
  BY WakersFinite, FS_RemoveElement
<1> QED BY <1>1, WakersFinite DEF Covered, SemaTypeOK

\* A waker readies a sleeper, which becomes a waker in its place.
LEMMA CoveredSwap ==
  ASSUME SemaTypeOK, NEW a \in Addr, Covered(a),
         NEW g \in G, g \in WakersOf(a), NEW s \in G, s \notin WakersOf(a),
         queue'[a] = queue[a], sema'[a] = sema[a],
         WakersOf(a)' = (WakersOf(a) \ {g}) \cup {s}
  PROVE  Covered(a)'
<1>1. /\ IsFiniteSet(WakersOf(a) \ {g})
      /\ Cardinality(WakersOf(a) \ {g}) = Cardinality(WakersOf(a)) - 1
  BY WakersFinite, FS_RemoveElement
<1>2. Cardinality((WakersOf(a) \ {g}) \cup {s}) = Cardinality(WakersOf(a) \ {g}) + 1
  BY <1>1, FS_AddElement
<1>3. Cardinality(WakersOf(a)') = Cardinality(WakersOf(a))
  BY <1>1, <1>2, WakersFinite
<1> QED BY <1>3 DEF Covered

\* An empty queue or an exhausted count needs no waker.
LEMMA CoveredNone ==
  ASSUME NEW a \in Addr, queue'[a] = << >> \/ sema'[a] = 0
  PROVE  Covered(a)'
<1>1. Cardinality(WakersOf(a)') \in Nat
  BY WakersFinitePrime
<1>2. 0 <= Cardinality(WakersOf(a)')
  BY <1>1
<1> QED BY <1>2 DEF Covered

\* When nwait is zero no goroutine is queued anywhere.
LEMMA NobodyQueued ==
  ASSUME SemaInv, nwait = 0, NEW a \in Addr
  PROVE  queue[a] = << >>
<1>1. Counted = {}
  BY GFinite, FS_Subset, FS_EmptySet DEF SemaInv, NwaitExact, Counted
<1>2. SUFFICES ASSUME queue[a] # << >> PROVE FALSE
  OBVIOUS
<1>3. Head(queue[a]) \in ToSet(queue[a]) /\ Head(queue[a]) \in G
  BY <1>2, Pop DEF SemaInv, SemaTypeOK
<1> QED BY <1>1, <1>3 DEF Counted, Waiters

LEMMA SemacquireCovered ==
  ASSUME SemaInv, SemaInv', NEW g \in G, NEW a \in Addr, NEW lifo \in BOOLEAN,
         Semacquire(g, a, lifo), NEW b \in Addr, Covered(b)
  PROVE  Covered(b)'
<1>0. /\ SemaTypeOK /\ SemaTypeOK' /\ spc[g] = "idle" /\ UNCHANGED <<queue, ticket>>
      /\ sema'[b] \in Nat
  BY DEF SemaInv, Semacquire, SemaTypeOK
<1>1. g \notin WakersOf(b)
  BY <1>0 DEF WakersOf, Waker, ReleasePhase
<1>2. sema'[b] <= sema[b]
  <2>1. sema \in [Addr -> Nat] /\ (sema' = sema \/ sema' = [sema EXCEPT ![a] = @ - 1])
    BY <1>0 DEF Semacquire, Down, SemaTypeOK
  <2> QED BY <2>1
<1>3. \A h \in G \ {g} : spc'[h] = spc[h] /\ sarg'[h] = sarg[h]
  BY <1>0 DEF Semacquire, Call, SemaTypeOK
<1>4. WakersOf(b) \subseteq WakersOf(b)'
  BY <1>0, <1>1, <1>3 DEF WakersOf, Waker
<1> QED BY <1>0, <1>2, <1>4, CoveredMore

LEMMA SemreleaseCovered ==
  ASSUME SemaInv, SemaInv', NEW g \in G, NEW a \in Addr, NEW handoff \in BOOLEAN,
         Semrelease(g, a, handoff), NEW b \in Addr, Covered(b)
  PROVE  Covered(b)'
<1>0. /\ SemaTypeOK /\ SemaTypeOK' /\ spc[g] = "idle" /\ UNCHANGED <<queue, ticket>>
      /\ sema'[b] \in Nat /\ sema' = [sema EXCEPT ![a] = @ + 1]
      /\ spc'[g] = "nwait" /\ sarg'[g].addr = a
      /\ \A h \in G \ {g} : spc'[h] = spc[h] /\ sarg'[h] = sarg[h]
  BY DEF SemaInv, Semrelease, SemaTypeOK, Call
<1>1. g \notin WakersOf(b)
  BY <1>0 DEF WakersOf, Waker, ReleasePhase
<1>2. CASE a = b
  <2>1. WakersOf(b)' = WakersOf(b) \cup {g}
    BY <1>0, <1>1, <1>2 DEF WakersOf, Waker, ReleasePhase
  <2>2. sema'[b] = sema[b] + 1
    BY <1>0, <1>2 DEF SemaTypeOK
  <2> QED BY <1>0, <1>1, <2>1, <2>2, CoveredUp
<1>3. CASE a # b
  <2>1. WakersOf(b) \subseteq WakersOf(b)'
    BY <1>0, <1>1, <1>3 DEF WakersOf, Waker
  <2>2. sema'[b] <= sema[b]
    BY <1>0, <1>3 DEF SemaTypeOK
  <2> QED BY <1>0, <2>1, <2>2, CoveredMore
<1> QED BY <1>2, <1>3

LEMMA AcquireLockCovered ==
  ASSUME SemaInv, SemaInv', NEW g \in G, AcquireLock(g), NEW b \in Addr, Covered(b)
  PROVE  Covered(b)'
<1>0. /\ SemaTypeOK /\ spc[g] = "lock" /\ UNCHANGED <<sema, queue, ticket, sarg>>
      /\ sema'[b] \in Nat /\ \A h \in G \ {g} : spc'[h] = spc[h]
  BY DEF SemaInv, AcquireLock, Goto, SemaTypeOK
<1>1. WakersOf(b) \subseteq WakersOf(b)'
  BY <1>0 DEF WakersOf, Waker, ReleasePhase
<1>2. sema'[b] <= sema[b]
  BY <1>0
<1> QED BY <1>0, <1>1, <1>2, CoveredMore

\* A goroutine goes to sleep only on a count of zero.
LEMMA AcquireRecheckCovered ==
  ASSUME SemaInv, SemaInv', NEW g \in G, AcquireRecheck(g), NEW b \in Addr, Covered(b)
  PROVE  Covered(b)'
<1> DEFINE a == sarg[g].addr
<1>0. /\ SemaTypeOK /\ SemaTypeOK' /\ spc[g] = "recheck" /\ ticket' = ticket
      /\ a \in Addr /\ sema'[b] \in Nat
  BY ArgsOK DEF SemaInv, AcquireRecheck, SemaTypeOK
<1>1. \A h \in G \ {g} : spc'[h] = spc[h] /\ sarg'[h] = sarg[h]
  BY <1>0, ReturnMoves, GotoMoves DEF AcquireRecheck, AcquirePhase
<1>2. WakersOf(b) \subseteq WakersOf(b)'
  BY <1>0, <1>1 DEF WakersOf, Waker, ReleasePhase
<1>3. CASE sema[a] > 0
  <2>1. Down(a) /\ queue' = queue
    BY <1>3 DEF AcquireRecheck
  <2>2. sema'[b] <= sema[b]
    BY <1>0, <2>1 DEF Down, SemaTypeOK
  <2> QED BY <1>0, <1>2, <2>1, <2>2, CoveredMore
<1>4. CASE ~(sema[a] > 0)
  <2>1. sema' = sema /\ queue' = Enqueued(g)
    BY <1>4 DEF AcquireRecheck
  <2>2. CASE a = b
    <3>1. sema'[b] = 0
      BY <1>0, <1>4, <2>1, <2>2 DEF SemaTypeOK
    <3> QED BY <3>1, CoveredNone
  <2>3. CASE a # b
    <3>1. queue'[b] = queue[b]
      BY <1>0, <2>1, <2>3 DEF Enqueued, SemaTypeOK
    <3>2. sema'[b] <= sema[b]
      BY <1>0, <2>1
    <3> QED BY <1>0, <1>2, <3>1, <3>2, CoveredMore
  <2> QED BY <2>2, <2>3
<1> QED BY <1>3, <1>4

LEMMA AcquireWokenCovered ==
  ASSUME SemaInv, SemaInv', NEW g \in G, AcquireWoken(g), NEW b \in Addr, Covered(b)
  PROVE  Covered(b)'
<1> DEFINE a == sarg[g].addr
<1>0. /\ SemaTypeOK /\ SemaTypeOK' /\ spc[g] = "woken" /\ queue' = queue
      /\ a \in Addr /\ sema'[b] \in Nat
      /\ \A h \in G \ {g} : ticket'[h] = ticket[h]
  BY ArgsOK DEF SemaInv, AcquireWoken, SemaTypeOK
<1>1. /\ \A h \in G \ {g} : spc'[h] = spc[h] /\ sarg'[h] = sarg[h]
      /\ spc'[g] \in {"idle", "lock"}
  BY <1>0, ReturnMoves, GotoMoves DEF AcquireWoken, AcquirePhase
<1>2. WakersOf(b) \ {g} = WakersOf(b)'
  BY <1>0, <1>1 DEF WakersOf, Waker, ReleasePhase
<1>3. CASE a # b \/ ticket[g]
  <2>1. g \notin WakersOf(b)
    BY <1>0, <1>3 DEF WakersOf, Waker, ReleasePhase
  <2>2. sema'[b] <= sema[b]
    BY <1>0, <1>3 DEF AcquireWoken, Down, SemaTypeOK
  <2> QED BY <1>0, <1>2, <2>1, <2>2, CoveredMore
<1>4. CASE a = b /\ ~ticket[g] /\ sema[a] > 0
  <2>1. g \in WakersOf(b)
    BY <1>0, <1>4 DEF WakersOf, Waker
  <2>2. sema'[b] = sema[b] - 1
    BY <1>0, <1>4 DEF AcquireWoken, Down, SemaTypeOK
  <2> QED BY <1>0, <1>2, <2>1, <2>2, CoveredDown
<1>5. CASE a = b /\ ~ticket[g] /\ ~(sema[a] > 0)
  <2>1. sema'[b] = 0
    BY <1>0, <1>5 DEF AcquireWoken, SemaTypeOK
  <2> QED BY <2>1, CoveredNone
<1> QED BY <1>3, <1>4, <1>5

\* The easy case: a releaser leaves only when nobody is queued.
LEMMA ReleaseNwaitCovered ==
  ASSUME SemaInv, SemaInv', NEW g \in G, ReleaseNwait(g), NEW b \in Addr, Covered(b)
  PROVE  Covered(b)'
<1>0. SemaTypeOK /\ spc[g] = "nwait" /\ UNCHANGED <<sema, queue, ticket>> /\ sema[b] \in Nat
  BY DEF SemaInv, ReleaseNwait, SemaTypeOK
<1>1. CASE nwait = 0
  <2>1. queue'[b] = << >>
    BY <1>0, <1>1, NobodyQueued
  <2> QED BY <2>1, CoveredNone
<1>2. CASE nwait # 0
  <2>1. /\ \A h \in G \ {g} : spc'[h] = spc[h] /\ sarg'[h] = sarg[h]
        /\ spc'[g] = "deq" /\ sarg' = sarg
    BY <1>0, <1>2, GotoMoves DEF ReleaseNwait, ReleasePhase
  <2>2. WakersOf(b) \subseteq WakersOf(b)'
    BY <1>0, <2>1 DEF WakersOf, Waker, ReleasePhase
  <2> QED BY <1>0, <2>2, CoveredMore DEF SemaTypeOK
<1> QED BY <1>1, <1>2

\* Under the lock it leaves only when nobody is queued at its own address.
LEMMA ReleaseDequeueCovered ==
  ASSUME SemaInv, SemaInv', NEW g \in G, ReleaseDequeue(g), NEW b \in Addr, Covered(b)
  PROVE  Covered(b)'
<1> DEFINE a == sarg[g].addr
<1>0. /\ SemaTypeOK /\ spc[g] = "deq" /\ UNCHANGED <<sema, ticket>> /\ a \in Addr
      /\ sema'[b] \in Nat /\ sema'[b] <= sema[b]
  BY ArgsOK DEF SemaInv, ReleaseDequeue, SemaTypeOK
<1>1. CASE nwait = 0
  <2>1. queue'[b] = << >>
    BY <1>1, NobodyQueued DEF ReleaseDequeue
  <2> QED BY <2>1, CoveredNone
<1>2. CASE nwait # 0 /\ queue[a] = << >>
  <2>1. Return(g) /\ queue' = queue
    BY <1>2 DEF ReleaseDequeue
  <2>2. CASE b = a
    BY <1>2, <2>1, <2>2, CoveredNone
  <2>3. CASE b # a
    <3>1. \A h \in G \ {g} : spc'[h] = spc[h] /\ sarg'[h] = sarg[h]
      BY <1>0, <2>1, ReturnMoves
    <3>2. WakersOf(b) \subseteq WakersOf(b)'
      BY <1>0, <2>3, <3>1 DEF WakersOf, Waker
    <3> QED BY <1>0, <2>1, <3>2, CoveredMore
  <2> QED BY <2>2, <2>3
<1>3. CASE nwait # 0 /\ queue[a] # << >>
  <2>1. queue' = [queue EXCEPT ![a] = Tail(@)] /\ Goto(g, "ready")
    BY <1>3 DEF ReleaseDequeue
  <2>2. queue'[b] # << >> => queue[b] # << >>
    BY <1>0, <1>3, <2>1 DEF SemaTypeOK
  <2>3. /\ \A h \in G \ {g} : spc'[h] = spc[h] /\ sarg'[h] = sarg[h]
        /\ spc'[g] = "ready" /\ sarg' = sarg
    BY <1>0, <2>1, GotoMoves DEF ReleasePhase
  <2>4. WakersOf(b) \subseteq WakersOf(b)'
    BY <1>0, <2>3 DEF WakersOf, Waker, ReleasePhase
  <2> QED BY <1>0, <2>2, <2>4, CoveredMore
<1> QED BY <1>1, <1>2, <1>3

\* The waker makes way for the goroutine it readies, or leaves with a unit.
LEMMA ReleaseReadyCovered ==
  ASSUME SemaInv, SemaInv', NEW g \in G, ReleaseReady(g), NEW b \in Addr, Covered(b)
  PROVE  Covered(b)'
<1> DEFINE a == sarg[g].addr
           s == sdeq[g]
           grant == sarg[g].handoff /\ sema[a] > 0
<1>0. /\ SemaTypeOK /\ ParkedOnce /\ spc[g] = "ready" /\ a \in Addr /\ s \in G
      /\ sema'[b] \in Nat /\ queue' = queue
  BY ArgsOK DEF SemaInv, ReleaseReady, SemaTypeOK
<1>1. spc[s] = "parked" /\ s # g /\ sarg[s].addr = a
  BY <1>0 DEF ParkedOnce, DequeuedParked
<1>2. /\ spc'[s] = "woken" /\ spc'[g] = "idle" /\ \A h \in G \ {g, s} : spc'[h] = spc[h]
      /\ \A h \in G \ {g} : sarg'[h] = sarg[h]
      /\ \A h \in G \ {s} : ticket'[h] = ticket[h]
      /\ ticket'[s] = grant
  BY <1>0, <1>1 DEF ReleaseReady, SemaTypeOK
<1>3. IF grant THEN Down(a) ELSE sema' = sema
  BY DEF ReleaseReady
<1>4. s \notin WakersOf(b)
  BY <1>1 DEF WakersOf, Waker, ReleasePhase
<1>5. CASE a # b
  <2>1. g \notin WakersOf(b)
    BY <1>5 DEF WakersOf
  <2>2. WakersOf(b) \subseteq WakersOf(b)'
    BY <1>2, <1>4, <2>1 DEF WakersOf, Waker
  <2>3. sema'[b] <= sema[b]
    BY <1>0, <1>3, <1>5 DEF Down, SemaTypeOK
  <2> QED BY <1>0, <2>2, <2>3, CoveredMore
<1>6. CASE a = b
  <2>1. g \in WakersOf(b)
    BY <1>0, <1>6 DEF WakersOf, Waker, ReleasePhase
  <2>2. CASE grant
    <3>1. WakersOf(b)' = WakersOf(b) \ {g}
      BY <1>2, <1>4, <2>2 DEF WakersOf, Waker, ReleasePhase
    <3>2. sema'[b] = sema[b] - 1
      BY <1>0, <1>3, <1>6, <2>2 DEF Down, SemaTypeOK
    <3> QED BY <1>0, <2>1, <3>1, <3>2, CoveredDown
  <2>3. CASE ~grant
    <3>1. WakersOf(b)' = (WakersOf(b) \ {g}) \cup {s}
      <4>1. s \in WakersOf(b)' /\ g \notin WakersOf(b)'
        BY <1>0, <1>1, <1>2, <1>6, <2>3 DEF WakersOf, Waker, ReleasePhase
      <4>2. ASSUME NEW h \in G \ {g, s} PROVE h \in WakersOf(b)' <=> h \in WakersOf(b)
        BY <1>2 DEF WakersOf, Waker
      <4>3. WakersOf(b) \subseteq G /\ WakersOf(b)' \subseteq G
        BY DEF WakersOf
      <4> HIDE DEF s
      <4> QED BY <1>0, <1>1, <4>1, <4>2, <4>3
    <3>2. sema'[b] = sema[b]
      BY <1>3, <2>3
    <3> QED BY <1>0, <1>4, <2>1, <3>1, <3>2, CoveredSwap
  <2> QED BY <2>2, <2>3
<1> QED BY <1>5, <1>6

LEMMA SemaStepCovered ==
  ASSUME SemaInv, SemaInv', NEW g \in G, SemaStep(g), NEW b \in Addr, Covered(b)
  PROVE  Covered(b)'
BY AcquireLockCovered, AcquireRecheckCovered, AcquireWokenCovered, ReleaseNwaitCovered,
   ReleaseDequeueCovered, ReleaseReadyCovered DEF SemaStep

(***************************************************************************)
(* For any number of goroutines and addresses, under any calls, no wakeup  *)
(* is lost: whenever a goroutine sleeps on an address, each unit of its    *)
(* count has a releaser or a woken waiter that will still look at it.      *)
(***************************************************************************)
THEOREM WakeupKept == SemaSpec => []NoLostWakeup
<1> DEFINE Inv == SemaInv /\ NoLostWakeup
<1>0. NoLostWakeup <=> \A b \in Addr : Covered(b)
  BY DEF NoLostWakeup, Covered
<1>1. SemaInit => Inv
  <2>1. SemaInit => \A b \in Addr : queue[b] = << >>
    BY DEF SemaInit
  <2> QED BY <2>1, SemaInitInv DEF NoLostWakeup
<1>2. Inv /\ [SemaNext]_svars => Inv'
  <2> SUFFICES ASSUME Inv, [SemaNext]_svars PROVE Inv'
    OBVIOUS
  <2>1. CASE UNCHANGED svars
    <3>1. NoLostWakeup'
      BY <2>1 DEF NoLostWakeup, WakersOf, Waker, svars
    <3> QED BY <2>1, <3>1, SemaStutterInv
  <2>2. ASSUME NEW g \in G, SemaCall(g) PROVE Inv'
    <3>1. SemaInv'
      BY <2>2, SemacquireInv, SemreleaseInv DEF SemaCall
    <3>2. ASSUME NEW b \in Addr PROVE Covered(b)'
      BY <1>0, <2>2, <3>1, SemacquireCovered, SemreleaseCovered DEF SemaCall
    <3>3. NoLostWakeup'
      BY <3>2 DEF NoLostWakeup, Covered
    <3> QED BY <3>1, <3>3
  <2>3. ASSUME NEW g \in G, SemaStep(g) PROVE Inv'
    <3>1. SemaInv'
      BY <2>3, SemaStepInv
    <3>2. ASSUME NEW b \in Addr PROVE Covered(b)'
      BY <1>0, <2>3, <3>1, SemaStepCovered
    <3>3. NoLostWakeup'
      BY <3>2 DEF NoLostWakeup, Covered
    <3> QED BY <3>1, <3>3
  <2> QED BY <2>1, <2>2, <2>3 DEF SemaNext
<1>3. Inv => NoLostWakeup
  OBVIOUS
<1> QED BY <1>1, <1>2, <1>3, PTL DEF SemaSpec

-----------------------------------------------------------------------------
(***************************************************************************)
(* The refinement of module Semaphore.  A goroutine is waiting from its    *)
(* failed cansemacquire to its unit, whether it takes it or is handed it;  *)
(* queueing, parking and being woken without a unit are invisible.         *)
(***************************************************************************)

AbsWaiting == [a \in Addr |-> {g \in At(a, AcquirePhase) : ~ticket[g]}]
AbsGranted == {g \in G : ticket[g]}
AbsReleasing == [a \in Addr |-> At(a, ReleasePhase)]

\* What g, in the state that the arguments describe, is to the abstract semaphore.
WaitsAt(phase, args, tick, a) == phase \in AcquirePhase /\ args.addr = a /\ ~tick
ReleasesAt(phase, args, a) == phase \in ReleasePhase /\ args.addr = a

LEMMA SemaViewTypes ==
  /\ AbsWaiting \in [Addr -> SUBSET G] /\ AbsReleasing \in [Addr -> SUBSET G]
  /\ AbsGranted \in SUBSET G
  /\ \A a \in Addr : \A g \in G :
       /\ g \in AbsWaiting[a] <=> WaitsAt(spc[g], sarg[g], ticket[g], a)
       /\ g \in AbsReleasing[a] <=> ReleasesAt(spc[g], sarg[g], a)
  /\ \A g \in G : g \in AbsGranted <=> ticket[g]
BY DEF AbsWaiting, AbsReleasing, AbsGranted, At, WaitsAt, ReleasesAt

LEMMA SemaViewTypesPrime ==
  /\ AbsWaiting' \in [Addr -> SUBSET G] /\ AbsReleasing' \in [Addr -> SUBSET G]
  /\ AbsGranted' \in SUBSET G
  /\ \A a \in Addr : \A g \in G :
       /\ g \in AbsWaiting'[a] <=> WaitsAt(spc'[g], sarg'[g], ticket'[g], a)
       /\ g \in AbsReleasing'[a] <=> ReleasesAt(spc'[g], sarg'[g], a)
  /\ \A g \in G : g \in AbsGranted' <=> ticket'[g]
BY DEF AbsWaiting, AbsReleasing, AbsGranted, At, WaitsAt, ReleasesAt

\* Sets per address in which everybody keeps his part are the same.
LEMMA SemaSetsSame ==
  ASSUME NEW F \in [Addr -> SUBSET G], NEW F2 \in [Addr -> SUBSET G],
         \A h \in G, b \in Addr : h \in F2[b] <=> h \in F[b]
  PROVE  F2 = F
<1>1. ASSUME NEW b \in Addr PROVE F2[b] = F[b]
  <2>1. F2[b] \subseteq G /\ F[b] \subseteq G
    OBVIOUS
  <2> QED BY <2>1
<1> QED BY <1>1

LEMMA SemaSetsType ==
  /\ AbsWaiting \in [Addr -> SUBSET G] /\ AbsReleasing \in [Addr -> SUBSET G]
  /\ AbsWaiting' \in [Addr -> SUBSET G] /\ AbsReleasing' \in [Addr -> SUBSET G]
BY SemaViewTypes, SemaViewTypesPrime

\* One goroutine that changes its part at one address changes the set there.
LEMMA SemaWaitingUpdate ==
  ASSUME NEW g \in G, NEW a \in Addr,
         \A h \in G, b \in Addr : (h # g \/ b # a) => (h \in AbsWaiting'[b] <=> h \in AbsWaiting[b])
  PROVE  /\ g \in AbsWaiting'[a] => AbsWaiting' = [AbsWaiting EXCEPT ![a] = @ \cup {g}]
         /\ g \notin AbsWaiting'[a] => AbsWaiting' = [AbsWaiting EXCEPT ![a] = @ \ {g}]
<1>0. AbsWaiting \in [Addr -> SUBSET G] /\ AbsWaiting' \in [Addr -> SUBSET G]
  BY SemaSetsType
<1>1. ASSUME NEW b \in Addr, b # a PROVE AbsWaiting'[b] = AbsWaiting[b]
  <2>1. AbsWaiting[b] \subseteq G /\ AbsWaiting'[b] \subseteq G
    BY <1>0
  <2> QED BY <1>1, <2>1
<1>2. AbsWaiting'[a] \ {g} = AbsWaiting[a] \ {g}
  <2>1. AbsWaiting[a] \subseteq G /\ AbsWaiting'[a] \subseteq G
    BY <1>0
  <2> QED BY <2>1
<1>3. /\ g \in AbsWaiting'[a] => AbsWaiting'[a] = AbsWaiting[a] \cup {g}
      /\ g \notin AbsWaiting'[a] => AbsWaiting'[a] = AbsWaiting[a] \ {g}
  BY <1>2
<1> QED BY <1>0, <1>1, <1>3

LEMMA SemaReleasingUpdate ==
  ASSUME NEW g \in G, NEW a \in Addr,
         \A h \in G, b \in Addr : (h # g \/ b # a) => (h \in AbsReleasing'[b] <=> h \in AbsReleasing[b])
  PROVE  /\ g \in AbsReleasing'[a] => AbsReleasing' = [AbsReleasing EXCEPT ![a] = @ \cup {g}]
         /\ g \notin AbsReleasing'[a] => AbsReleasing' = [AbsReleasing EXCEPT ![a] = @ \ {g}]
<1>0. AbsReleasing \in [Addr -> SUBSET G] /\ AbsReleasing' \in [Addr -> SUBSET G]
  BY SemaSetsType
<1>1. ASSUME NEW b \in Addr, b # a PROVE AbsReleasing'[b] = AbsReleasing[b]
  <2>1. AbsReleasing[b] \subseteq G /\ AbsReleasing'[b] \subseteq G
    BY <1>0
  <2> QED BY <1>1, <2>1
<1>2. AbsReleasing'[a] \ {g} = AbsReleasing[a] \ {g}
  <2>1. AbsReleasing[a] \subseteq G /\ AbsReleasing'[a] \subseteq G
    BY <1>0
  <2> QED BY <2>1
<1>3. /\ g \in AbsReleasing'[a] => AbsReleasing'[a] = AbsReleasing[a] \cup {g}
      /\ g \notin AbsReleasing'[a] => AbsReleasing'[a] = AbsReleasing[a] \ {g}
  BY <1>2
<1> QED BY <1>0, <1>1, <1>3

\* A step that changes nobody's part is a stutter in all but the count.
LEMMA SemaSameView ==
  ASSUME \A h \in G, a \in Addr :
           /\ WaitsAt(spc'[h], sarg'[h], ticket'[h], a)
                <=> WaitsAt(spc[h], sarg[h], ticket[h], a)
           /\ ReleasesAt(spc'[h], sarg'[h], a) <=> ReleasesAt(spc[h], sarg[h], a),
         \A h \in G : ticket'[h] <=> ticket[h]
  PROVE  AbsWaiting' = AbsWaiting /\ AbsReleasing' = AbsReleasing /\ AbsGranted' = AbsGranted
<1>1. \A h \in G, a \in Addr : /\ h \in AbsWaiting'[a] <=> h \in AbsWaiting[a]
                             /\ h \in AbsReleasing'[a] <=> h \in AbsReleasing[a]
  BY SemaViewTypes, SemaViewTypesPrime
<1>2. AbsWaiting' = AbsWaiting /\ AbsReleasing' = AbsReleasing
  BY <1>1, SemaViewTypes, SemaViewTypesPrime, SemaSetsSame
<1>3. AbsGranted' = AbsGranted
  BY SemaViewTypes, SemaViewTypesPrime
<1> QED BY <1>2, <1>3

\* A goroutine in no call has no part.
LEMMA SemaIdleView ==
  ASSUME SemaInv, NEW g \in G, spc[g] = "idle"
  PROVE  Abs!Idle(g) /\ ~ticket[g]
<1>1. ~ticket[g]
  BY DEF SemaInv, ParkedOnce, TicketWoken
<1> QED BY <1>1 DEF Abs!Idle, At, AcquirePhase, ReleasePhase

\* semacquire1's call takes a unit or begins to wait.
LEMMA SemacquireRefines ==
  ASSUME SemaInv, NEW g \in G, NEW a \in Addr, NEW lifo \in BOOLEAN, Semacquire(g, a, lifo)
  PROVE  Abs!AcquireNow(g, a) \/ Abs!AcquireWait(g, a)
<1>0. SemaTypeOK /\ spc[g] = "idle" /\ ticket' = ticket
  BY DEF SemaInv, Semacquire
<1>1. Abs!Idle(g) /\ ~ticket[g]
  BY <1>0, SemaIdleView
<1>2. CASE sema[a] > 0
  <2>1. sema' = [sema EXCEPT ![a] = @ - 1] /\ spc' = spc /\ sarg' = sarg
    BY <1>2 DEF Semacquire, Down
  <2>2. AbsWaiting' = AbsWaiting /\ AbsReleasing' = AbsReleasing /\ AbsGranted' = AbsGranted
    BY <1>0, <2>1, SemaSameView
  <2> QED BY <1>1, <1>2, <2>1, <2>2
        DEF Abs!AcquireNow, AbsWaiting, AbsReleasing, AbsGranted
<1>3. CASE ~(sema[a] > 0)
  <2>1. sema[a] = 0 /\ sema' = sema
    BY <1>0, <1>3 DEF SemaTypeOK, Semacquire
  <2>2. /\ spc'[g] = "lock" /\ sarg'[g].addr = a
        /\ \A h \in G \ {g} : spc'[h] = spc[h] /\ sarg'[h] = sarg[h]
    BY <1>0, <1>3 DEF SemaTypeOK, Semacquire, Call
  <2>3. AbsWaiting' = [AbsWaiting EXCEPT ![a] = @ \cup {g}]
    <3>1. /\ \A h \in G, b \in Addr :
               (h # g \/ b # a) => (h \in AbsWaiting'[b] <=> h \in AbsWaiting[b])
          /\ g \in AbsWaiting'[a]
      BY <1>0, <1>1, <2>2, SemaViewTypes, SemaViewTypesPrime DEF WaitsAt, AcquirePhase
    <3> QED BY <3>1, SemaWaitingUpdate
  <2>4. AbsReleasing' = AbsReleasing
    <3>1. \A h \in G, b \in Addr : h \in AbsReleasing'[b] <=> h \in AbsReleasing[b]
      BY <1>0, <2>2, SemaViewTypes, SemaViewTypesPrime DEF ReleasesAt, ReleasePhase
    <3> QED BY <3>1, SemaSetsType, SemaSetsSame
  <2>5. AbsGranted' = AbsGranted
    BY <1>0 DEF AbsGranted
  <2> QED BY <1>1, <2>1, <2>3, <2>4, <2>5
        DEF Abs!AcquireWait, AbsWaiting, AbsReleasing, AbsGranted
<1> QED BY <1>2, <1>3

\* Everybody but g keeps its part.
SemaOthersStay(g) ==
  \A h \in G \ {g} :
    /\ \A a \in Addr :
         /\ WaitsAt(spc'[h], sarg'[h], ticket'[h], a) <=> WaitsAt(spc[h], sarg[h], ticket[h], a)
         /\ ReleasesAt(spc'[h], sarg'[h], a) <=> ReleasesAt(spc[h], sarg[h], a)
    /\ ticket'[h] <=> ticket[h]

\* g takes a unit and leaves.
LEMMA SemaTakesRefines ==
  ASSUME SemaTypeOK, NEW g \in G, NEW a \in Addr, SemaOthersStay(g),
         spc[g] \in AcquirePhase, sarg[g].addr = a, ~ticket[g], spc'[g] = "idle", ~ticket'[g],
         sema[a] > 0, Down(a)
  PROVE  Abs!AcquireReturn(g, a)
<1>1. AbsWaiting' = [AbsWaiting EXCEPT ![a] = @ \ {g}]
  <2>1. /\ \A h \in G, b \in Addr :
             (h # g \/ b # a) => (h \in AbsWaiting'[b] <=> h \in AbsWaiting[b])
        /\ g \notin AbsWaiting'[a]
    BY SemaViewTypes, SemaViewTypesPrime DEF SemaOthersStay, WaitsAt, AcquirePhase
  <2> QED BY <2>1, SemaWaitingUpdate
<1>2. AbsReleasing' = AbsReleasing
  <2>1. \A h \in G, b \in Addr : h \in AbsReleasing'[b] <=> h \in AbsReleasing[b]
    BY SemaViewTypes, SemaViewTypesPrime
       DEF SemaOthersStay, ReleasesAt, ReleasePhase, AcquirePhase
  <2> QED BY <2>1, SemaSetsType, SemaSetsSame
<1>3. AbsGranted' = AbsGranted
  BY SemaViewTypes, SemaViewTypesPrime DEF SemaOthersStay
<1>4. g \in AbsWaiting[a]
  BY SemaViewTypes DEF WaitsAt
<1> QED BY <1>1, <1>2, <1>3, <1>4
      DEF Abs!AcquireReturn, Down, AbsWaiting, AbsReleasing, AbsGranted

\* g has released a unit and leaves it where it is.
LEMMA SemaLeavesRefines ==
  ASSUME SemaInv, NEW g \in G, NEW a \in Addr, SemaOthersStay(g),
         spc[g] \in ReleasePhase, sarg[g].addr = a, spc'[g] = "idle", ~ticket'[g],
         sema' = sema
  PROVE  Abs!ReleaseReturn(g, a)
<1>0. ~ticket[g]
  BY DEF SemaInv, ParkedOnce, TicketWoken, ReleasePhase
<1>1. AbsReleasing' = [AbsReleasing EXCEPT ![a] = @ \ {g}]
  <2>1. /\ \A h \in G, b \in Addr :
             (h # g \/ b # a) => (h \in AbsReleasing'[b] <=> h \in AbsReleasing[b])
        /\ g \notin AbsReleasing'[a]
    BY SemaViewTypes, SemaViewTypesPrime DEF SemaOthersStay, ReleasesAt, ReleasePhase
  <2> QED BY <2>1, SemaReleasingUpdate
<1>2. AbsWaiting' = AbsWaiting
  <2>1. \A h \in G, b \in Addr : h \in AbsWaiting'[b] <=> h \in AbsWaiting[b]
    BY SemaViewTypes, SemaViewTypesPrime
       DEF SemaOthersStay, WaitsAt, ReleasePhase, AcquirePhase
  <2> QED BY <2>1, SemaSetsType, SemaSetsSame
<1>3. AbsGranted' = AbsGranted
  BY <1>0, SemaViewTypes, SemaViewTypesPrime DEF SemaOthersStay
<1>4. g \in AbsReleasing[a]
  BY SemaViewTypes DEF ReleasesAt
<1> QED BY <1>1, <1>2, <1>3, <1>4
      DEF Abs!ReleaseReturn, AbsWaiting, AbsReleasing, AbsGranted

\* semrelease1's call adds a unit.
LEMMA SemreleaseRefines ==
  ASSUME SemaInv, NEW g \in G, NEW a \in Addr, NEW handoff \in BOOLEAN,
         Semrelease(g, a, handoff)
  PROVE  Abs!Release(g, a)
<1>0. SemaTypeOK /\ spc[g] = "idle" /\ ticket' = ticket
  BY DEF SemaInv, Semrelease
<1>1. Abs!Idle(g) /\ ~ticket[g]
  BY <1>0, SemaIdleView
<1>2. /\ spc'[g] = "nwait" /\ sarg'[g].addr = a
      /\ \A h \in G \ {g} : spc'[h] = spc[h] /\ sarg'[h] = sarg[h]
  BY <1>0 DEF SemaTypeOK, Semrelease, Call
<1>3. AbsReleasing' = [AbsReleasing EXCEPT ![a] = @ \cup {g}]
  <2>1. /\ \A h \in G, b \in Addr :
             (h # g \/ b # a) => (h \in AbsReleasing'[b] <=> h \in AbsReleasing[b])
        /\ g \in AbsReleasing'[a]
    BY <1>0, <1>2, SemaViewTypes, SemaViewTypesPrime DEF ReleasesAt, ReleasePhase
  <2> QED BY <2>1, SemaReleasingUpdate
<1>4. AbsWaiting' = AbsWaiting
  <2>1. \A h \in G, b \in Addr : h \in AbsWaiting'[b] <=> h \in AbsWaiting[b]
    BY <1>0, <1>2, SemaViewTypes, SemaViewTypesPrime DEF WaitsAt, AcquirePhase
  <2> QED BY <2>1, SemaSetsType, SemaSetsSame
<1>5. AbsGranted' = AbsGranted
  BY <1>0 DEF AbsGranted
<1>6. sema' = [sema EXCEPT ![a] = @ + 1]
  BY DEF Semrelease
<1> QED BY <1>1, <1>3, <1>4, <1>5, <1>6
      DEF Abs!Release, AbsWaiting, AbsReleasing, AbsGranted

\* Nobody's part changes and no unit moves.
LEMMA SemaQuietRefines ==
  ASSUME NEW g \in G, SemaOthersStay(g), sema' = sema,
         \A a \in Addr :
           /\ WaitsAt(spc'[g], sarg'[g], ticket'[g], a) <=> WaitsAt(spc[g], sarg[g], ticket[g], a)
           /\ ReleasesAt(spc'[g], sarg'[g], a) <=> ReleasesAt(spc[g], sarg[g], a),
         ticket'[g] <=> ticket[g]
  PROVE  UNCHANGED Abs!avars
<1>1. AbsWaiting' = AbsWaiting /\ AbsReleasing' = AbsReleasing /\ AbsGranted' = AbsGranted
  BY SemaSameView DEF SemaOthersStay
<1> QED BY <1>1 DEF Abs!avars, AbsWaiting, AbsReleasing, AbsGranted

\* Hand over a unit, or only make the sleeper ready and leave the unit to it.
LEMMA ReleaseReadyRefines ==
  ASSUME SemaInv, NEW g \in G, NEW a \in Addr, a = sarg[g].addr, ReleaseReady(g)
  PROVE  Abs!ReleaseReturn(g, a) \/ \E w \in G : Abs!ReleaseHandoff(g, a, w)
<1>0. SemaTypeOK /\ ParkedOnce /\ spc[g] = "ready" /\ ~ticket[g]
  BY DEF SemaInv, ReleaseReady, ParkedOnce, TicketWoken
<1> DEFINE grant == sarg[g].handoff /\ sema[a] > 0
<1> PICK s \in G : s = sdeq[g]
  BY <1>0 DEF SemaTypeOK
<1>1. s # g /\ spc[s] = "parked" /\ sarg[s].addr = a /\ ~ticket[s]
  BY <1>0 DEF SemaTypeOK, ParkedOnce, DequeuedParked, TicketWoken
<1>2. /\ spc' = [spc EXCEPT ![s] = "woken", ![g] = "idle"]
      /\ sarg' = [sarg EXCEPT ![g] = NoArgs]
      /\ ticket' = [ticket EXCEPT ![s] = grant]
      /\ IF grant THEN Down(a) ELSE sema' = sema
  BY DEF ReleaseReady
<1>3. /\ spc'[s] = "woken" /\ spc'[g] = "idle" /\ sarg'[s] = sarg[s]
      /\ (ticket'[s] <=> grant) /\ ~ticket'[g]
      /\ \A h \in G \ {g, s} : spc'[h] = spc[h] /\ sarg'[h] = sarg[h] /\ ticket'[h] = ticket[h]
  BY <1>0, <1>1, <1>2 DEF SemaTypeOK
<1>4. CASE ~grant
  <2>1. SemaOthersStay(g)
    BY <1>1, <1>3, <1>4 DEF SemaOthersStay, WaitsAt, ReleasesAt, AcquirePhase, ReleasePhase
  <2>2. sema' = sema /\ spc[g] \in ReleasePhase
    BY <1>0, <1>2, <1>4 DEF ReleasePhase
  <2> QED BY <1>3, <2>1, <2>2, SemaLeavesRefines
<1>5. CASE grant
  <2>1. AbsReleasing' = [AbsReleasing EXCEPT ![a] = @ \ {g}] /\ g \in AbsReleasing[a]
    <3>1. /\ \A h \in G, b \in Addr :
               (h # g \/ b # a) => (h \in AbsReleasing'[b] <=> h \in AbsReleasing[b])
          /\ g \notin AbsReleasing'[a] /\ g \in AbsReleasing[a]
      BY <1>0, <1>1, <1>3, SemaViewTypes, SemaViewTypesPrime DEF ReleasesAt, ReleasePhase
    <3> QED BY <3>1, SemaReleasingUpdate
  <2>2. AbsWaiting' = [AbsWaiting EXCEPT ![a] = @ \ {s}] /\ s \in AbsWaiting[a]
    <3>1. /\ \A h \in G, b \in Addr :
               (h # s \/ b # a) => (h \in AbsWaiting'[b] <=> h \in AbsWaiting[b])
          /\ s \notin AbsWaiting'[a] /\ s \in AbsWaiting[a]
      BY <1>0, <1>1, <1>3, <1>5, SemaViewTypes, SemaViewTypesPrime DEF WaitsAt, AcquirePhase
    <3> QED BY <3>1, SemaWaitingUpdate
  <2>3. AbsGranted' = AbsGranted \cup {s}
    BY <1>0, <1>1, <1>3, <1>5, SemaViewTypes, SemaViewTypesPrime
  <2>4. sema[a] > 0 /\ sema' = [sema EXCEPT ![a] = @ - 1]
    BY <1>2, <1>5 DEF Down
  <2>5. Abs!ReleaseHandoff(g, a, s)
    BY <2>1, <2>2, <2>3, <2>4
       DEF Abs!ReleaseHandoff, AbsWaiting, AbsReleasing, AbsGranted
  <2> QED BY <2>5
<1> QED BY <1>4, <1>5

\* Any step inside semacquire1 or semrelease1 is a step of the abstract semaphore or none.
LEMMA SemaStepRefines ==
  ASSUME SemaInv, NEW g \in G, SemaStep(g)
  PROVE  Abs!AbsNext \/ UNCHANGED Abs!avars
<1>0. SemaTypeOK /\ ParkedOnce
  BY DEF SemaInv
<1> PICK a \in Addr : a = sarg[g].addr
  BY <1>0, ArgsOK DEF SemaTypeOK
<1>1. CASE AcquireLock(g)
  <2>1. /\ spc[g] = "lock" /\ spc'[g] = "recheck" /\ sema' = sema /\ ticket' = ticket
        /\ sarg' = sarg /\ \A h \in G \ {g} : spc'[h] = spc[h]
    BY <1>0, <1>1 DEF SemaTypeOK, AcquireLock, Goto
  <2>2. SemaOthersStay(g)
    BY <2>1 DEF SemaOthersStay
  <2> QED BY <2>1, <2>2, SemaQuietRefines DEF WaitsAt, ReleasesAt, AcquirePhase, ReleasePhase
<1>2. CASE AcquireRecheck(g)
  <2>0. spc[g] = "recheck" /\ ticket' = ticket /\ ~ticket[g]
    BY <1>0, <1>2 DEF AcquireRecheck, ParkedOnce, TicketWoken
  <2>1. CASE sema[a] > 0
    <3>1. /\ Down(a) /\ spc'[g] = "idle"
          /\ \A h \in G \ {g} : spc'[h] = spc[h] /\ sarg'[h] = sarg[h]
      BY <1>0, <1>2, <2>1 DEF SemaTypeOK, AcquireRecheck, Return, Call
    <3>2. SemaOthersStay(g)
      BY <2>0, <3>1 DEF SemaOthersStay
    <3>3. spc[g] \in AcquirePhase
      BY <2>0 DEF AcquirePhase
    <3>4. Abs!AcquireReturn(g, a)
      BY <1>0, <2>0, <2>1, <3>1, <3>2, <3>3, SemaTakesRefines
    <3> QED BY <3>4 DEF Abs!AbsNext
  <2>2. CASE ~(sema[a] > 0)
    <3>1. /\ sema' = sema /\ sarg' = sarg /\ spc'[g] = "parked"
          /\ \A h \in G \ {g} : spc'[h] = spc[h]
      BY <1>0, <1>2, <2>2 DEF SemaTypeOK, AcquireRecheck, Goto
    <3>2. SemaOthersStay(g)
      BY <2>0, <3>1 DEF SemaOthersStay
    <3> QED BY <2>0, <3>1, <3>2, SemaQuietRefines
          DEF WaitsAt, ReleasesAt, AcquirePhase, ReleasePhase
  <2> QED BY <2>1, <2>2
<1>3. CASE AcquireWoken(g)
  <2>0. /\ spc[g] = "woken" /\ ticket' = [ticket EXCEPT ![g] = FALSE] /\ ~ticket'[g]
        /\ \A h \in G \ {g} : ticket'[h] = ticket[h]
    BY <1>0, <1>3 DEF SemaTypeOK, AcquireWoken
  <2>1. CASE ticket[g]
    <3>1. /\ sema' = sema /\ spc'[g] = "idle"
          /\ \A h \in G \ {g} : spc'[h] = spc[h] /\ sarg'[h] = sarg[h]
      BY <1>0, <1>3, <2>1 DEF SemaTypeOK, AcquireWoken, Return, Call
    <3>2. \A h \in G, b \in Addr : /\ h \in AbsWaiting'[b] <=> h \in AbsWaiting[b]
                                   /\ h \in AbsReleasing'[b] <=> h \in AbsReleasing[b]
      BY <2>0, <2>1, <3>1, SemaViewTypes, SemaViewTypesPrime
         DEF WaitsAt, ReleasesAt, AcquirePhase, ReleasePhase
    <3>3. AbsWaiting' = AbsWaiting /\ AbsReleasing' = AbsReleasing
      BY <3>2, SemaSetsType, SemaSetsSame
    <3>4. AbsGranted' = AbsGranted \ {g} /\ g \in AbsGranted
      BY <2>0, <2>1, SemaViewTypes, SemaViewTypesPrime
    <3>5. Abs!GrantedReturn(g)
      BY <3>1, <3>3, <3>4 DEF Abs!GrantedReturn, AbsWaiting, AbsReleasing, AbsGranted
    <3> QED BY <3>5 DEF Abs!AbsNext
  <2>2. CASE ~ticket[g] /\ sema[a] > 0
    <3>1. /\ Down(a) /\ spc'[g] = "idle"
          /\ \A h \in G \ {g} : spc'[h] = spc[h] /\ sarg'[h] = sarg[h]
      BY <1>0, <1>3, <2>2 DEF SemaTypeOK, AcquireWoken, Return, Call
    <3>2. SemaOthersStay(g)
      BY <2>0, <3>1 DEF SemaOthersStay
    <3>3. spc[g] \in AcquirePhase
      BY <2>0 DEF AcquirePhase
    <3>4. Abs!AcquireReturn(g, a)
      BY <1>0, <2>0, <2>2, <3>1, <3>2, <3>3, SemaTakesRefines
    <3> QED BY <3>4 DEF Abs!AbsNext
  <2>3. CASE ~ticket[g] /\ ~(sema[a] > 0)
    <3>1. /\ sema' = sema /\ sarg' = sarg /\ spc'[g] = "lock"
          /\ \A h \in G \ {g} : spc'[h] = spc[h]
      BY <1>0, <1>3, <2>3 DEF SemaTypeOK, AcquireWoken, Goto
    <3>2. SemaOthersStay(g)
      BY <2>0, <3>1 DEF SemaOthersStay
    <3> QED BY <2>0, <2>3, <3>1, <3>2, SemaQuietRefines
          DEF WaitsAt, ReleasesAt, AcquirePhase, ReleasePhase
  <2> QED BY <2>1, <2>2, <2>3
<1>4. CASE ReleaseNwait(g) \/ ReleaseDequeue(g)
  <2>0. /\ spc[g] \in {"nwait", "deq"} /\ ticket' = ticket /\ ~ticket[g] /\ sema' = sema
    BY <1>0, <1>4 DEF ReleaseNwait, ReleaseDequeue, ParkedOnce, TicketWoken
  <2>1. Return(g) \/ Goto(g, "deq") \/ Goto(g, "ready")
    BY <1>4 DEF ReleaseNwait, ReleaseDequeue
  <2>2. \A h \in G \ {g} : spc'[h] = spc[h] /\ sarg'[h] = sarg[h]
    BY <1>0, <2>1 DEF SemaTypeOK, Return, Call, Goto
  <2>3. SemaOthersStay(g)
    BY <2>0, <2>2 DEF SemaOthersStay
  <2>4. CASE Return(g)
    <3>1. spc'[g] = "idle" /\ spc[g] \in ReleasePhase
      BY <1>0, <2>0, <2>4 DEF SemaTypeOK, Return, Call, ReleasePhase
    <3>2. Abs!ReleaseReturn(g, a)
      BY <2>0, <2>3, <3>1, SemaLeavesRefines
    <3> QED BY <3>2 DEF Abs!AbsNext
  <2>5. CASE Goto(g, "deq") \/ Goto(g, "ready")
    <3>1. sarg' = sarg /\ spc'[g] \in {"deq", "ready"}
      BY <1>0, <2>5 DEF SemaTypeOK, Goto
    <3> QED BY <2>0, <2>3, <3>1, SemaQuietRefines
          DEF WaitsAt, ReleasesAt, AcquirePhase, ReleasePhase
  <2> QED BY <2>1, <2>4, <2>5
<1>5. CASE ReleaseReady(g)
  BY <1>5, ReleaseReadyRefines DEF Abs!AbsNext
<1> QED BY <1>1, <1>2, <1>3, <1>4, <1>5 DEF SemaStep

(***************************************************************************)
(* The queues, the wakeups and the hand-off of sema.go are a counting      *)
(* semaphore: whoever leaves semacquire1 has taken a unit of its own or    *)
(* was handed one that a releaser took off the count, never both.          *)
(***************************************************************************)
THEOREM SemaIsSemaphore == SemaSpec => ImplementsSemaphore
<1>1. SemaInit => Abs!AbsInit
  <2> SUFFICES ASSUME SemaInit PROVE Abs!AbsInit
    OBVIOUS
  <2>1. \A g \in G : spc[g] = "idle" /\ ~ticket[g]
    BY DEF SemaInit
  <2>2. AbsGranted = {} /\ \A a \in Addr : AbsWaiting[a] = {} /\ AbsReleasing[a] = {}
    BY <2>1, SemaViewTypes
       DEF AbsGranted, AbsWaiting, AbsReleasing, At, AcquirePhase, ReleasePhase
  <2>3. /\ AbsWaiting = [a \in Addr |-> {}] /\ AbsReleasing = [a \in Addr |-> {}]
    BY <2>2, SemaViewTypes
  <2> QED BY <2>2, <2>3 DEF SemaInit, Abs!AbsInit, AbsWaiting, AbsReleasing, AbsGranted
<1>2. SemaInv /\ [SemaNext]_svars => [Abs!AbsNext]_(Abs!avars)
  <2> SUFFICES ASSUME SemaInv, [SemaNext]_svars PROVE Abs!AbsNext \/ UNCHANGED Abs!avars
    OBVIOUS
  <2>1. CASE UNCHANGED svars
    BY <2>1 DEF svars, Abs!avars, At
  <2>2. ASSUME NEW g \in G, SemaCall(g) PROVE Abs!AbsNext
    <3> PICK a \in Addr : \/ \E lifo \in BOOLEAN : Semacquire(g, a, lifo)
                          \/ \E handoff \in BOOLEAN : Semrelease(g, a, handoff)
      BY <2>2 DEF SemaCall
    <3>1. Abs!AcquireNow(g, a) \/ Abs!AcquireWait(g, a) \/ Abs!Release(g, a)
      BY SemacquireRefines, SemreleaseRefines
    <3> QED BY <3>1 DEF Abs!AbsNext
  <2> QED BY <2>1, <2>2, SemaStepRefines DEF SemaNext
<1>3. SemaSpec => []SemaInv
  BY SemaInvariant, PTL DEF SemaInv
<1> QED BY <1>1, <1>2, <1>3, PTL DEF SemaSpec, ImplementsSemaphore, Abs!AbsSpec
=============================================================================
