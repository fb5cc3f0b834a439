------------------------------ MODULE ChanProofs ------------------------------
(***************************************************************************)
(* Proofs about module Chan, for any goroutines, channels, capacities,     *)
(* lock order and operations: the invariants of chan.go hold, sellock      *)
(* never deadlocks, no wakeup is lost, a receive or a select reports that  *)
(* it cannot proceed only if that was so, and the whole implements         *)
(* Channel.                                                                *)
(***************************************************************************)
EXTENDS Chan, FiniteSetTheorems, SequenceTheorems, WellFoundedInduction, TLAPS

\* The sudogs of a goroutine stand together in queue q of channel c, no
\* more of them than its operation lists the case.
Tight(q, o, c, dir) ==
  \A i, j \in DOMAIN q : q[i] = q[j] => j - i < o[q[i]].times[[c |-> c, dir |-> dir]]

Types ==
  /\ buf \in [C -> Seq(G)] /\ \A c \in C : Len(buf[c]) <= cap[c]
  /\ closed \in [C -> BOOLEAN]
  /\ recvq \in [C -> Seq(G)] /\ sendq \in [C -> Seq(G)]
  /\ \A c \in C : Tight(recvq[c], op, c, "recv") /\ Tight(sendq[c], op, c, "send")
  /\ lk \in [C -> SUBSET G]
  /\ op \in [G -> Ops \cup {NoOp}] /\ pc \in [G -> Phases]
  /\ looks \in [G -> Seq({"closed", "ready"})] /\ \A g \in G : Len(looks[g]) <= 2
  /\ selectDone \in [G -> BOOLEAN] /\ unready \in [G -> BOOLEAN]
  /\ param \in [G -> SUBSET Case]
  /\ res \in [G -> Results]
  /\ toReady \in [G -> SUBSET G]

\* Who waits in the queue of a case, and who has been dequeued and is soon to be made
\* ready.
Waiting(g, k) == g \in ToSet(Queue(k))
InHand(g) == \E h \in G : g \in toReady[h]

Fresh == {"idle", "fast", "start", "lock1", "pass1"}
Asleep == {"parked", "woken", "lock3", "pass3"}

\* Where a goroutine is, and what that says of its operation.
Placed ==
  \A g \in G :
    /\ pc[g] = "idle" => op[g] = NoOp
    /\ op[g] = NoOp => pc[g] \in {"idle", "ready"}
    /\ pc[g] \in {"fast", "start", "woken"} => ~op[g].sel
    /\ pc[g] \in {"lock1", "pass1", "lock3", "pass3"} => op[g].sel
    /\ pc[g] \in {"lock3", "pass3"} => selectDone[g]
    /\ selectDone[g] => op[g].sel /\ pc[g] \in {"parked", "lock3", "pass3"}
    /\ param[g] = {} \/ \E k \in op[g].cases : param[g] = {k}
    /\ param[g] # {} => pc[g] \in Asleep

\* When an operation has its outcome.
Outcomes ==
  \A g \in G :
    /\ pc[g] \in Fresh => res[g] = NoRes
    /\ pc[g] \in Asleep => (res[g] = NoRes <=> param[g] = {})
    /\ pc[g] = "return" => res[g] # NoRes
    /\ pc[g] = "ready" => (res[g] = NoRes <=> op[g] = NoOp)
    /\ res[g].how = "failed" =>
         /\ pc[g] = "return" /\ ~op[g].block
         /\ op[g].sel \/ TheCase(g).dir = "recv" => unready[g]

\* A sudog in a queue is that of a parked goroutine which has not been served, or a
\* leftover of a select.
Queued ==
  \A g \in G, k \in Case :
    Waiting(g, k) =>
      /\ k \in op[g].cases /\ (k \in param[g] => op[g].sel)
      /\ pc[g] \in {"parked", "lock3", "pass3"}
      /\ Live(g) => pc[g] = "parked" /\ param[g] = {} /\ ~InHand(g)

\* Who has been dequeued is parked, and one goroutine alone makes it ready.
Handed ==
  \A g, h \in G :
    g \in toReady[h] =>
      /\ pc[h] = "ready" /\ pc[g] = "parked" /\ (op[g].sel => selectDone[g])
      /\ \A i \in G : g \in toReady[i] => i = h

\* Who is parked and has not been dequeued waits in the queues of all its cases.
Parked ==
  \A g \in G :
    pc[g] = "parked" /\ ~InHand(g) =>
      ~selectDone[g] /\ param[g] = {} /\ \A k \in op[g].cases : Waiting(g, k)

NobodyOnClosed == \A c \in C : closed[c] => recvq[c] = << >> /\ sendq[c] = << >>

\* A goroutine that close woke on a single channel finds it closed and drained.
ByClose ==
  \A g \in G :
    (pc[g] = "woken" \/ (pc[g] = "parked" /\ InHand(g))) /\ ~op[g].sel /\ param[g] = {} =>
      /\ closed[TheCase(g).c]
      /\ TheCase(g).dir = "recv" => buf[TheCase(g).c] = << >>

\* Locks are held by selects that are taking them in order, or have them all.
Locks ==
  /\ \A c \in C :
       lk[c] = {} \/ \E g \in G : /\ lk[c] = {g} /\ c \in Chans(g) /\ op[g].sel
                                  /\ pc[g] \in {"lock1", "pass1", "lock3", "pass3"}
  /\ \A g \in G : pc[g] \in {"pass1", "pass3"} => \A c \in Chans(g) : g \in lk[c]
  /\ \A g \in G : \A c, d \in Chans(g) :
       pc[g] \in {"lock1", "lock3"} /\ g \in lk[c] /\ g \notin lk[d] => Rank(c) < Rank(d)

\* The fast path of a receive has met an open channel only if nothing could be received.
FastPath ==
  \A g \in G :
    pc[g] = "fast" =>
      /\ ~op[g].block
      /\ TheCase(g).dir = "recv" =>
           \/ looks[g] = <<"ready", "closed">>
           \/ looks[g] = <<"closed">> /\ (closed[TheCase(g).c] \/ unready[g])

\* A goroutine on the fast path still has a load to make.
Looking == \A g \in G : pc[g] = "fast" => looks[g] # << >>

ChanInv ==
  /\ Types /\ Placed /\ Outcomes /\ Queued /\ Handed /\ Parked /\ NobodyOnClosed
  /\ ByClose /\ Locks /\ FastPath /\ Looking /\ ChanInvariants

-----------------------------------------------------------------------------
(* Facts about queues and about the constants *)

LEMMA Minimal ==
  ASSUME NEW R, NEW S, IsWellFoundedOn(R, S), NEW I, I \subseteq S, I # {}
  PROVE  \E m \in I : \A i \in I : ~(<<i, m>> \in R)
BY WFMin, Zenon

LEMMA LeastBy ==
  ASSUME NEW R, \A x, y \in Nat : x < y => <<x, y>> \in R,
         NEW I, I \subseteq Nat, \E m \in I : \A i \in I : ~(<<i, m>> \in R)
  PROVE  \E m \in I : \A i \in I : m <= i
<1>1. PICK m \in I : \A i \in I : ~(<<i, m>> \in R)
  OBVIOUS
<1>2. \A i \in I : ~(i < m)
  BY <1>1
<1> QED BY <1>2

LEMMA HasLeast ==
  ASSUME NEW I, I \subseteq Nat, I # {}
  PROVE  \E m \in I : \A i \in I : m <= i
<1>1. IsWellFoundedOn(OpToRel(<, Nat), Nat)
  BY NatLessThanWellFounded
<1>2. \A x, y \in Nat : x < y => <<x, y>> \in OpToRel(<, Nat)
  BY DEF OpToRel
<1>3. \E m \in I : \A i \in I : ~(<<i, m>> \in OpToRel(<, Nat))
  BY <1>1, Minimal, Zenon
<1> QED BY <1>2, <1>3, LeastBy, Zenon

LEMMA HasGreatest ==
  ASSUME NEW I, I # {}, NEW n \in Nat, I \subseteq 1 .. n
  PROVE  \E m \in I : \A i \in I : i <= m
<1> DEFINE J == {j \in Nat : \A i \in I : i <= j}
<1>1. n \in J /\ J \subseteq Nat
  OBVIOUS
<1>2. PICK m \in J : \A j \in J : m <= j
  <2> HIDE DEF J
  <2> QED BY <1>1, HasLeast
<1>3. m \in I
  <2> SUFFICES ASSUME m \notin I PROVE FALSE
    OBVIOUS
  <2>1. m \in Nat /\ \A i \in I : i \in 1 .. n /\ i <= m /\ i # m
    BY <1>2
  <2>2. m >= 1
    <3>1. PICK i \in I : TRUE
      OBVIOUS
    <3> QED BY <2>1, <3>1
  <2>3. m - 1 \in J
    BY <2>1, <2>2
  <2> QED BY <1>2, <2>1, <2>3
<1> QED BY <1>2, <1>3

\* FirstLive finds the first live sudog, if there is one.
LEMMA FirstLiveIs ==
  ASSUME NEW q \in Seq(G)
  PROVE  /\ FirstLive(q) \in 0 .. Len(q)
         /\ FirstLive(q) > 0 => /\ Live(q[FirstLive(q)])
                                /\ \A i \in 1 .. FirstLive(q) - 1 : ~Live(q[i])
         /\ FirstLive(q) = 0 => \A i \in 1 .. Len(q) : ~Live(q[i])
<1> DEFINE I == {i \in 1 .. Len(q) : Live(q[i])}
<1>1. FirstLive(q) = IF I # {} THEN Min(I) ELSE 0
  BY DEF FirstLive, SelectInSeq
<1>2. I \subseteq Nat /\ \A i \in I : i \in 1 .. Len(q) /\ Live(q[i])
  OBVIOUS
<1>3. Len(q) \in Nat /\ \A i \in 1 .. Len(q) : Live(q[i]) => i \in I
  OBVIOUS
<1> HIDE DEF I
<1>4. CASE I = {}
  BY <1>1, <1>3, <1>4
<1>5. CASE I # {}
  <2>1. FirstLive(q) \in I /\ \A i \in I : FirstLive(q) <= i
    BY <1>1, <1>2, <1>5, HasLeast DEF Min
  <2>2. FirstLive(q) \in 1 .. Len(q) /\ Live(q[FirstLive(q)])
    BY <1>2, <2>1
  <2>3. ASSUME NEW i \in 1 .. FirstLive(q) - 1 PROVE ~Live(q[i])
    <3>1. i \in 1 .. Len(q) /\ i < FirstLive(q)
      BY <1>3, <2>2
    <3>2. i \notin I
      BY <1>2, <2>1, <2>2, <3>1
    <3> QED BY <1>3, <3>1, <3>2
  <2> QED BY <1>3, <2>2, <2>3
<1> QED BY <1>4, <1>5

LEMMA Suffix ==
  ASSUME NEW q \in Seq(G), NEW n \in 1 .. Len(q)
  PROVE  LET r == SubSeq(q, n + 1, Len(q)) IN
         /\ r \in Seq(G) /\ Len(r) = Len(q) - n /\ DOMAIN r = 1 .. Len(q) - n
         /\ \A i \in 1 .. Len(q) - n : r[i] = q[n + i]
         /\ \A i \in n + 1 .. Len(q) : i - n \in DOMAIN r /\ r[i - n] = q[i]
<1> DEFINE r == SubSeq(q, n + 1, Len(q))
<1>1. /\ Len(q) \in Int /\ n \in Int /\ n + 1 \in Int /\ n >= 1 /\ n <= Len(q)
      /\ \A i \in n + 1 .. Len(q) : q[i] \in G
  BY LenProperties
<1>2. /\ r \in Seq(G)
      /\ Len(r) = IF n + 1 <= Len(q) THEN Len(q) - (n + 1) + 1 ELSE 0
      /\ \A i \in 1 .. Len(q) - (n + 1) + 1 : r[i] = q[(n + 1) + i - 1]
  BY <1>1, SubSeqProperties
<1> HIDE DEF r
<1>3. Len(r) = Len(q) - n /\ Len(q) - (n + 1) + 1 = Len(q) - n
  BY <1>1, <1>2
<1>4. DOMAIN r = 1 .. Len(q) - n
  BY <1>2, <1>3, LenProperties
<1>5. \A i \in 1 .. Len(q) - n : r[i] = q[n + i]
  <2> TAKE i \in 1 .. Len(q) - n
  <2>1. (n + 1) + i - 1 = n + i
    BY <1>1
  <2>2. r[i] = q[(n + 1) + i - 1]
    BY <1>2, <1>3
  <2> QED BY <2>1, <2>2
<1>6. \A i \in n + 1 .. Len(q) : i - n \in DOMAIN r /\ r[i - n] = q[i]
  <2> TAKE i \in n + 1 .. Len(q)
  <2>1. i - n \in 1 .. Len(q) - n /\ n + (i - n) = i
    BY <1>1
  <2>2. r[i - n] = q[n + (i - n)]
    BY <1>5, <2>1
  <2> QED BY <1>4, <2>1, <2>2
<1> QED BY <1>2, <1>3, <1>4, <1>5, <1>6 DEF r

\* Every channel has its place in the lock order.
LEMMA RankIs ==
  /\ \A c \in C : Rank(c) \in 1 .. Len(Order) /\ Order[Rank(c)] = c
  /\ \A c, d \in C : Rank(c) = Rank(d) => c = d
<1>1. DOMAIN Order = 1 .. Len(Order)
  BY OrderAll
<1>2. ASSUME NEW c \in C PROVE Rank(c) \in 1 .. Len(Order) /\ Order[Rank(c)] = c
  <2>1. \E i \in DOMAIN Order : Order[i] = c
    BY OrderAll DEF ToSet
  <2> QED BY <1>1, <2>1 DEF Rank
<1> QED BY <1>2

\* An operation is a select, or has one case.
LEMMA OpIs ==
  ASSUME Types, NEW g \in G
  PROVE  /\ op[g] \in Op /\ op[g].sel \in BOOLEAN /\ op[g].block \in BOOLEAN
         /\ op[g].cases \subseteq Case /\ Chans(g) \subseteq C
         /\ op[g] # NoOp => /\ op[g] \in Ops /\ op[g].cases # {}
                            /\ ~op[g].sel => /\ TheCase(g) \in Case /\ TheCase(g).c \in C
                                             /\ op[g].cases = {TheCase(g)}
                                             /\ TheCase(g).dir \in {"send", "recv"}
                                             /\ Chans(g) = {TheCase(g).c}
         /\ NoOp.cases = {} /\ NoOp.block /\ ~NoOp.sel
<1>1. NoOp \in Op /\ NoOp.cases = {} /\ NoOp.block /\ ~NoOp.sel
  BY DEF NoOp, Op, Once
<1>2. op[g] \in Op /\ (op[g] # NoOp => op[g] \in Ops)
  BY <1>1, OpsOK DEF Types
<1>3. op[g].sel \in BOOLEAN /\ op[g].block \in BOOLEAN /\ op[g].cases \subseteq Case
  BY <1>2 DEF Op
<1>4. Chans(g) \subseteq C
  BY <1>3 DEF Chans, Case
<1>5. ASSUME op[g] # NoOp
      PROVE  /\ op[g].cases # {}
             /\ ~op[g].sel => /\ TheCase(g) \in Case /\ TheCase(g).c \in C
                              /\ op[g].cases = {TheCase(g)}
                              /\ TheCase(g).dir \in {"send", "recv"} /\ Chans(g) = {TheCase(g).c}
  <2>1. op[g].cases # {} /\ (~op[g].sel => \E k \in Case : op[g].cases = {k})
    BY <1>2, <1>5, OpsOK
  <2>2. ASSUME NEW k \in Case, op[g].cases = {k}
        PROVE  /\ TheCase(g) = k /\ k.c \in C /\ k.dir \in {"send", "recv"}
               /\ Chans(g) = {k.c}
    BY <2>2 DEF TheCase, Case, Chans
  <2> QED BY <2>1, <2>2
<1> QED BY <1>1, <1>2, <1>3, <1>4, <1>5

\* The number of sudogs with which an operation waits in the queue of a case.
LEMMA TimesAre ==
  ASSUME Types, NEW x \in G, NEW c \in C, NEW dir \in {"send", "recv"}
  PROVE  LET n == op[x].times[[c |-> c, dir |-> dir]]
         IN  n \in Nat /\ n > 0 /\ (~op[x].sel => n = 1)
<1> DEFINE k == [c |-> c, dir |-> dir]
<1>1. k \in Case
  BY DEF Case
<1> HIDE DEF k
<1>2. NoOp \in Op /\ NoOp.times = Once
  BY DEF NoOp, Once, Op
<1>3. op[x] \in Op /\ (~op[x].sel => op[x].times = Once)
  BY <1>2, OpsOK DEF Types
<1>4. op[x].times \in [Case -> Nat \ {0}] /\ Once[k] = 1
  BY <1>1, <1>3 DEF Op, Once
<1> QED BY <1>1, <1>3, <1>4 DEF k

\* dequeue takes the first live sudog and keeps all others that are live.
LEMMA Dequeue ==
  ASSUME Types, NEW c \in C, NEW dir \in {"send", "recv"},
         NEW q \in Seq(G), Tight(q, op, c, dir)
  PROVE  /\ Rest(q) \in Seq(G) /\ Tight(Rest(q), op, c, dir)
         /\ ToSet(Rest(q)) \subseteq ToSet(q)
         /\ Found(q) <=> \E h \in ToSet(q) : Live(h)
         /\ Found(q) => /\ Peer(q) \in ToSet(q) /\ Live(Peer(q))
                        /\ Peer(q) \in ToSet(Rest(q)) => op[Peer(q)].sel
         /\ \A h \in ToSet(q) : Live(h) => h \in ToSet(Rest(q)) \/ h = Peer(q)
         /\ ~Found(q) => Rest(q) = << >>
<1> DEFINE n == FirstLive(q)
           r == Rest(q)
           t(x) == op[x].times[[c |-> c, dir |-> dir]]
<1>1. /\ Len(q) \in Nat /\ DOMAIN q = 1 .. Len(q) /\ \A i \in 1 .. Len(q) : q[i] \in G
      /\ n \in 0 .. Len(q)
      /\ n > 0 => Live(q[n]) /\ \A i \in 1 .. n - 1 : ~Live(q[i])
      /\ n = 0 => \A i \in 1 .. Len(q) : ~Live(q[i])
      /\ Found(q) <=> n > 0
  BY FirstLiveIs DEF Found
<1> HIDE DEF n
<1>2. CASE n = 0
  <2>1. r = << >> /\ ToSet(<< >>) = {} /\ Tight(<< >>, op, c, dir)
    BY <1>1, <1>2 DEF Rest, ToSet, Tight
  <2>2. \A h \in ToSet(q) : ~Live(h)
    BY <1>1, <1>2 DEF ToSet
  <2> QED BY <1>1, <1>2, <2>1, <2>2, EmptySeq
<1>3. CASE n > 0
  <2>0. n \in 1 .. Len(q) /\ Found(q)
    BY <1>1, <1>3
  <2>1. r = SubSeq(q, n + 1, Len(q)) /\ Peer(q) = q[n] /\ n \in 1 .. Len(q)
    <3>1. r = SubSeq(q, n + 1, Len(q)) /\ Peer(q) = q[n]
      BY <2>0, Zenon DEF Rest, Peer, n
    <3> QED BY <2>0, <3>1
  <2>2. /\ r \in Seq(G) /\ Len(r) = Len(q) - n /\ DOMAIN r = 1 .. Len(q) - n
        /\ \A i \in 1 .. Len(q) - n : r[i] = q[n + i]
        /\ \A i \in n + 1 .. Len(q) : i - n \in DOMAIN r /\ r[i - n] = q[i]
    BY <2>1, Suffix
  <2>3. \A i, j \in 1 .. Len(q) : q[i] = q[j] => j - i < t(q[i])
    BY <1>1 DEF Tight
  <2>4. \A x \in G : t(x) \in Nat /\ t(x) > 0 /\ (~op[x].sel => t(x) = 1)
    BY TimesAre
  <2> HIDE DEF r, t
  <2>5. Tight(r, op, c, dir)
    <3> SUFFICES ASSUME NEW i \in 1 .. Len(q) - n, NEW j \in 1 .. Len(q) - n, r[i] = r[j]
                 PROVE  j - i < t(r[i])
      BY <2>2 DEF Tight, t
    <3>1. r[i] = q[n + i] /\ r[j] = q[n + j]
      BY <2>2
    <3>2. n + i \in 1 .. Len(q) /\ n + j \in 1 .. Len(q) /\ (n + j) - (n + i) = j - i
      BY <1>1, <2>1
    <3>3. (n + j) - (n + i) < t(q[n + i])
      BY <2>3, <3>1, <3>2
    <3> QED BY <3>1, <3>2, <3>3
  <2>6. ToSet(r) \subseteq ToSet(q) /\ q[n] \in ToSet(q) /\ (q[n] \in ToSet(r) => op[q[n]].sel)
    <3>1. ASSUME NEW x \in ToSet(r) PROVE x \in ToSet(q) /\ (x = q[n] => op[x].sel)
      <4>1. PICK i \in 1 .. Len(q) - n : x = r[i]
        BY <2>2 DEF ToSet
      <4>2. n + i \in 1 .. Len(q) /\ (n + i) - n = i /\ i >= 1
        BY <1>1, <2>1
      <4>3. x = q[n + i]
        BY <2>2, <4>1
      <4>4. x \in ToSet(q) /\ x \in G
        BY <1>1, <4>2, <4>3 DEF ToSet
      <4>5. ASSUME x = q[n] PROVE op[x].sel
        <5>1. i < t(x)
          BY <2>1, <2>3, <4>2, <4>3, <4>5
        <5>2. t(x) # 1
          BY <2>4, <4>2, <4>4, <5>1
        <5> QED BY <2>4, <4>4, <5>2
      <4> QED BY <4>4, <4>5
    <3>2. q[n] \in ToSet(q)
      BY <1>1, <2>1 DEF ToSet
    <3> QED BY <3>1, <3>2
  <2>7. \A h \in ToSet(q) : Live(h) => h \in ToSet(r) \/ h = q[n]
    <3> SUFFICES ASSUME NEW i \in 1 .. Len(q), Live(q[i]), i # n PROVE q[i] \in ToSet(r)
      BY <1>1 DEF ToSet
    <3>1. i \in n + 1 .. Len(q)
      BY <1>1, <2>1
    <3> QED BY <2>2, <3>1 DEF ToSet
  <2> QED BY <1>1, <1>3, <2>1, <2>2, <2>5, <2>6, <2>7 DEF r
<1> QED BY <1>1, <1>2, <1>3

Copies(x, n) == [i \in 1 .. n |-> x]

\* Enqueueing adds the new sudogs of one goroutine, one for each time that its operation
\* lists the case.
LEMMA PushBack ==
  ASSUME Types, NEW c \in C, NEW dir \in {"send", "recv"},
         NEW q \in Seq(G), Tight(q, op, c, dir), NEW x \in G, x \notin ToSet(q)
  PROVE  LET r == q \o Copies(x, op[x].times[[c |-> c, dir |-> dir]])
         IN  r \in Seq(G) /\ ToSet(r) = ToSet(q) \cup {x} /\ Tight(r, op, c, dir)
<1> DEFINE t(y) == op[y].times[[c |-> c, dir |-> dir]]
           n == t(x)
           b == Copies(x, n)
           r == q \o b
<1>1. n \in Nat /\ n > 0
  BY TimesAre
<1>2. \A i, j \in DOMAIN q : q[i] = q[j] => j - i < t(q[i])
  BY DEF Tight
<1> HIDE DEF n, t
<1>3. b \in Seq(G) /\ Len(b) = n /\ \A i \in 1 .. n : b[i] = x
  <2>1. b \in [1 .. n -> G] /\ DOMAIN b = 1 .. n
    BY DEF Copies
  <2>2. b \in Seq(G)
    BY <1>1, <2>1, SeqDef
  <2>3. Len(b) = n
    BY <1>1, <2>1, <2>2, LenProperties
  <2> QED BY <2>2, <2>3 DEF Copies
<1> HIDE DEF b
<1>4. Len(q) \in Nat /\ DOMAIN q = 1 .. Len(q)
  BY LenProperties
<1>5. /\ r \in Seq(G) /\ Len(r) = Len(q) + n /\ DOMAIN r = 1 .. Len(q) + n
      /\ \A i \in 1 .. Len(q) + n : r[i] = IF i <= Len(q) THEN q[i] ELSE x
  <2>1. /\ r \in Seq(G) /\ Len(r) = Len(q) + Len(b)
        /\ \A i \in 1 .. Len(q) + Len(b) : r[i] = IF i <= Len(q) THEN q[i] ELSE b[i - Len(q)]
    BY <1>3, ConcatProperties
  <2>2. DOMAIN r = 1 .. Len(q) + n
    BY <1>3, <2>1, LenProperties
  <2> HIDE DEF r
  <2>3. ASSUME NEW i \in 1 .. Len(q) + n PROVE r[i] = IF i <= Len(q) THEN q[i] ELSE x
    <3>1. ~(i <= Len(q)) => i - Len(q) \in 1 .. n
      BY <1>1, <1>4
    <3> QED BY <1>3, <2>1, <3>1
  <2> QED BY <1>3, <2>1, <2>2, <2>3
<1> HIDE DEF r
<1>6. ToSet(r) = ToSet(q) \cup {x}
  <2>1. ASSUME NEW i \in 1 .. Len(q) + n PROVE r[i] \in ToSet(q) \cup {x}
    BY <1>1, <1>4, <1>5 DEF ToSet
  <2>2. ASSUME NEW i \in 1 .. Len(q) PROVE q[i] \in ToSet(r)
    <3>1. i \in 1 .. Len(q) + n /\ i <= Len(q)
      BY <1>1, <1>4
    <3> QED BY <1>5, <3>1 DEF ToSet
  <2>3. x \in ToSet(r)
    <3>1. Len(q) + 1 \in 1 .. Len(q) + n /\ ~(Len(q) + 1 <= Len(q))
      BY <1>1, <1>4
    <3> QED BY <1>5, <3>1 DEF ToSet
  <2> QED BY <1>4, <1>5, <2>1, <2>2, <2>3 DEF ToSet
<1>7. Tight(r, op, c, dir)
  <2> SUFFICES ASSUME NEW i \in 1 .. Len(q) + n, NEW j \in 1 .. Len(q) + n, r[i] = r[j]
               PROVE  j - i < t(r[i])
    BY <1>5 DEF Tight, t
  <2>1. \A m \in 1 .. Len(q) : q[m] # x
    BY <1>4 DEF ToSet
  <2>2. CASE i <= Len(q)
    <3>1. r[i] = q[i] /\ i \in 1 .. Len(q)
      BY <1>4, <1>5, <2>2
    <3>2. j <= Len(q)
      BY <1>5, <2>1, <3>1
    <3>3. r[j] = q[j] /\ j \in 1 .. Len(q)
      BY <1>4, <1>5, <3>2
    <3> QED BY <1>2, <1>4, <3>1, <3>3
  <2>3. CASE ~(i <= Len(q))
    <3>1. r[i] = x /\ i >= Len(q) + 1 /\ j <= Len(q) + n
      BY <1>1, <1>4, <1>5, <2>3
    <3>2. j - i < n
      BY <1>1, <1>4, <3>1
    <3> QED BY <3>1, <3>2 DEF n
  <2> QED BY <2>2, <2>3
<1> QED BY <1>5, <1>6, <1>7 DEF r, b, n, t

\* dequeueSudoG takes out one sudog.
LEMMA Unlinked ==
  ASSUME Types, NEW c \in C, NEW dir \in {"send", "recv"},
         NEW q \in Seq(G), Tight(q, op, c, dir), NEW x \in ToSet(q)
  PROVE  /\ RemoveFirst(q, x) \in Seq(G) /\ Tight(RemoveFirst(q, x), op, c, dir)
         /\ ToSet(RemoveFirst(q, x)) \subseteq ToSet(q)
         /\ ToSet(q) \ {x} \subseteq ToSet(RemoveFirst(q, x))
<1> DEFINE r == RemoveFirst(q, x)
           I == {i \in 1 .. Len(q) : q[i] = x}
           n == SelectInSeq(q, LAMBDA v : v = x)
           t(y) == op[y].times[[c |-> c, dir |-> dir]]
<1>0. Len(q) \in Nat /\ DOMAIN q = 1 .. Len(q) /\ \A i \in 1 .. Len(q) : q[i] \in G
  OBVIOUS
<1>1. I # {} /\ I \subseteq Nat /\ \A i \in I : i \in 1 .. Len(q) /\ q[i] = x
  BY <1>0 DEF ToSet
<1>2. n = Min(I)
  BY <1>1 DEF SelectInSeq
<1>3. r = SubSeq(q, 1, n - 1) \o SubSeq(q, n + 1, Len(q))
  BY <1>0 DEF RemoveFirst, RemoveAt, ToSet
<1>4. n \in I
  <2> HIDE DEF I, n
  <2> QED BY <1>1, <1>2, HasLeast DEF Min
<1>5. n \in 1 .. Len(q) /\ q[n] = x
  BY <1>1, <1>4
<1> HIDE DEF I, n, r
<1> DEFINE a == SubSeq(q, 1, n - 1)
           b == SubSeq(q, n + 1, Len(q))
<1>6. /\ b \in Seq(G) /\ Len(b) = Len(q) - n /\ DOMAIN b = 1 .. Len(q) - n
      /\ \A i \in 1 .. Len(q) - n : b[i] = q[n + i]
      /\ \A i \in n + 1 .. Len(q) : i - n \in DOMAIN b /\ b[i - n] = q[i]
  BY <1>5, Suffix
<1>7. /\ a \in Seq(G) /\ Len(a) = n - 1 /\ DOMAIN a = 1 .. n - 1
      /\ \A i \in 1 .. n - 1 : a[i] = q[i]
  <2>1. 1 \in Int /\ n - 1 \in Int /\ \A i \in 1 .. n - 1 : q[i] \in G
    BY <1>0, <1>5
  <2>2. /\ a \in Seq(G) /\ Len(a) = IF 1 <= n - 1 THEN (n - 1) - 1 + 1 ELSE 0
        /\ \A i \in 1 .. (n - 1) - 1 + 1 : a[i] = q[1 + i - 1]
    BY <2>1, SubSeqProperties
  <2> HIDE DEF a
  <2>3. Len(a) = n - 1 /\ (n - 1) - 1 + 1 = n - 1
    BY <1>5, <2>2
  <2>4. DOMAIN a = 1 .. n - 1
    BY <2>2, <2>3, LenProperties
  <2>5. \A i \in 1 .. n - 1 : a[i] = q[i]
    <3> TAKE i \in 1 .. n - 1
    <3>1. 1 + i - 1 = i
      BY <1>5
    <3> QED BY <2>2, <2>3, <3>1
  <2> QED BY <2>2, <2>3, <2>4, <2>5
<1> HIDE DEF a, b
<1>8. /\ r \in Seq(G) /\ Len(r) = Len(q) - 1 /\ DOMAIN r = 1 .. Len(q) - 1
      /\ \A i \in 1 .. n - 1 : r[i] = q[i]
      /\ \A i \in n .. Len(q) - 1 : r[i] = q[i + 1]
  <2>1. /\ r \in Seq(G) /\ Len(r) = Len(a) + Len(b)
        /\ \A i \in 1 .. Len(a) + Len(b) :
             r[i] = IF i <= Len(a) THEN a[i] ELSE b[i - Len(a)]
    BY <1>3, <1>6, <1>7, ConcatProperties DEF a, b
  <2>2. Len(r) = Len(q) - 1
    BY <1>0, <1>5, <1>6, <1>7, <2>1
  <2>3. DOMAIN r = 1 .. Len(q) - 1
    BY <2>1, <2>2, LenProperties
  <2>4. \A i \in 1 .. n - 1 : r[i] = q[i]
    <3> TAKE i \in 1 .. n - 1
    <3>1. i \in 1 .. Len(a) + Len(b) /\ i <= Len(a)
      BY <1>0, <1>5, <1>6, <1>7
    <3> QED BY <1>7, <2>1, <3>1
  <2>5. \A i \in n .. Len(q) - 1 : r[i] = q[i + 1]
    <3> TAKE i \in n .. Len(q) - 1
    <3>1. i - (n - 1) \in 1 .. Len(q) - n /\ n + (i - (n - 1)) = i + 1 /\ ~(i <= n - 1)
          /\ i \in 1 .. Len(a) + Len(b)
      BY <1>0, <1>5, <1>6, <1>7
    <3>2. r[i] = b[i - (n - 1)]
      BY <1>7, <2>1, <3>1
    <3> QED BY <1>6, <3>1, <3>2
  <2> QED BY <2>1, <2>2, <2>3, <2>4, <2>5
<1>9. \A i \in DOMAIN r : \/ i < n /\ i \in DOMAIN q /\ r[i] = q[i]
                          \/ i >= n /\ i + 1 \in DOMAIN q /\ r[i] = q[i + 1]
  BY <1>0, <1>5, <1>8
<1>10. \A i, j \in 1 .. Len(q) : q[i] = q[j] => j - i < t(q[i])
  BY <1>0 DEF Tight
<1>11. \A y \in G : t(y) \in Nat /\ t(y) > 0
  BY TimesAre
<1> HIDE DEF t
<1>12. Tight(r, op, c, dir)
  <2> SUFFICES ASSUME NEW i \in DOMAIN r, NEW j \in DOMAIN r, r[i] = r[j]
               PROVE  j - i < t(r[i])
    BY DEF Tight, t
  <2>1. i \in Int /\ j \in Int /\ n \in Int
    BY <1>0, <1>5, <1>8
  <2>2. PICK k \in 1 .. Len(q) : r[i] = q[k] /\ (k = i \/ (k = i + 1 /\ i >= n))
    BY <1>0, <1>9
  <2>3. PICK m \in 1 .. Len(q) : r[j] = q[m] /\ ((m = j /\ j < n) \/ m = j + 1)
    BY <1>0, <1>9
  <2>4. m - k < t(q[k]) /\ t(q[k]) \in Nat /\ t(q[k]) > 0
    BY <1>0, <1>10, <1>11, <2>2, <2>3
  <2>5. m \in Int /\ k \in Int
    OBVIOUS
  <2>6. j - i <= m - k \/ j - i < 0
    BY <2>1, <2>2, <2>3, <2>5
  <2> QED BY <2>1, <2>2, <2>4, <2>5, <2>6
<1>13. ToSet(r) \subseteq ToSet(q)
  <2>1. ASSUME NEW i \in DOMAIN r PROVE r[i] \in ToSet(q)
    BY <1>9 DEF ToSet
  <2> QED BY <2>1 DEF ToSet
<1>14. ASSUME NEW i \in 1 .. Len(q), q[i] # x PROVE q[i] \in ToSet(r)
  <2>1. CASE i < n
    <3>1. i \in 1 .. n - 1 /\ i \in DOMAIN r
      BY <1>0, <1>5, <1>8, <2>1
    <3> QED BY <1>8, <3>1 DEF ToSet
  <2>2. CASE i > n
    <3>1. i - 1 \in n .. Len(q) - 1 /\ (i - 1) + 1 = i /\ i - 1 \in DOMAIN r
      BY <1>0, <1>5, <1>8, <2>2
    <3> QED BY <1>8, <3>1 DEF ToSet
  <2> QED BY <1>0, <1>5, <1>14, <2>1, <2>2
<1>15. ToSet(q) \ {x} \subseteq ToSet(r)
  BY <1>0, <1>14 DEF ToSet
<1> QED BY <1>8, <1>12, <1>13, <1>15 DEF r

-----------------------------------------------------------------------------
(* Steps that leave the locks alone *)

LockPhases == {"lock1", "pass1", "lock3", "pass3"}

\* The history variable forgets nothing of an operation that goes on.
LEMMA TrackKeeps ==
  ASSUME Types, Track, op' \in [G -> Ops \cup {NoOp}]
  PROVE  /\ unready' \in [G -> BOOLEAN]
         /\ \A x \in G : /\ op'[x] = op[x] /\ ~op[x].block /\ unready[x] => unready'[x]
                         /\ ~op'[x].block /\ NoneReady(x)' => unready'[x]
<1>1. ASSUME NEW x \in G
      PROVE  (~op'[x].block /\ (unready[x] \/ NoneReady(x)')) \in BOOLEAN
  OBVIOUS
<1>2. unready' = [x \in G |-> ~op'[x].block /\ (unready[x] \/ NoneReady(x)')]
  BY DEF Track
<1> QED BY <1>1, <1>2

\* Sudogs leave the queues, but of the live ones only those in gone.
Shrunk(gone) ==
  /\ recvq' \in [C -> Seq(G)] /\ sendq' \in [C -> Seq(G)]
  /\ \A c \in C : Tight(recvq'[c], op, c, "recv") /\ Tight(sendq'[c], op, c, "send")
  /\ \A x \in G, k \in Case :
       /\ Waiting(x, k)' => Waiting(x, k)
       /\ Waiting(x, k) /\ Live(x) => Waiting(x, k)' \/ x \in gone

\* An empty queue has nobody in it, and a queue with nobody in it is empty.
LEMMA NobodyWaits ==
  ASSUME NEW q \in Seq(G)
  PROVE  /\ q = << >> <=> ToSet(q) = {}
         /\ ToSet(q) \subseteq G
<1>1. Len(q) \in Nat /\ DOMAIN q = 1 .. Len(q) /\ \A i \in 1 .. Len(q) : q[i] \in G
  OBVIOUS
<1>2. ASSUME q # << >> PROVE q[1] \in ToSet(q)
  <2>1. Len(q) # 0
    BY <1>2, EmptySeq
  <2>2. 1 \in DOMAIN q
    BY <1>1, <2>1
  <2> QED BY <2>2 DEF ToSet
<1>3. ToSet(<< >>) = {}
  BY DEF ToSet
<1>4. ToSet(q) \subseteq G
  BY <1>1 DEF ToSet
<1> QED BY <1>2, <1>3, <1>4

\* No sudog is added to the queues of a closed channel.
LEMMA ClosedStaysEmpty ==
  ASSUME ChanInv, NEW gone, Shrunk(gone), closed' = closed
  PROVE  NobodyOnClosed'
<1> SUFFICES ASSUME NEW c \in C, closed[c] PROVE recvq'[c] = << >> /\ sendq'[c] = << >>
  BY DEF NobodyOnClosed
<1>1. recvq[c] = << >> /\ sendq[c] = << >>
  BY DEF ChanInv, NobodyOnClosed
<1>2. recvq'[c] \in Seq(G) /\ sendq'[c] \in Seq(G) /\ ToSet(<< >>) = {}
  BY DEF Shrunk, ToSet
<1> DEFINE r == [c |-> c, dir |-> "recv"]
           s == [c |-> c, dir |-> "send"]
<1>3. r \in Case /\ s \in Case /\ r.c = c /\ s.c = c /\ r.dir = "recv" /\ s.dir = "send"
  BY DEF Case
<1> HIDE DEF r, s
<1>4. \A x \in G : ~Waiting(x, r) /\ ~Waiting(x, s)
  BY <1>1, <1>2, <1>3 DEF Waiting, Queue
<1>5. \A x \in G : ~(Waiting(x, r)') /\ ~(Waiting(x, s)')
  BY <1>3, <1>4 DEF Shrunk
<1>6. \A x \in G : x \notin ToSet(recvq'[c]) /\ x \notin ToSet(sendq'[c])
  BY <1>3, <1>5 DEF Waiting, Queue
<1> QED BY <1>2, <1>6, NobodyWaits

\* The locks, when g has none or releases them and the others stay where they are.
LEMMA LocksKept ==
  ASSUME ChanInv, NEW g \in G, op' = op, pc'[g] \notin LockPhases,
         \A x \in G \ {g} : pc[x] \in LockPhases \/ pc'[x] \in LockPhases => pc'[x] = pc[x],
         \/ lk' = lk /\ pc[g] \notin LockPhases
         \/ lk' = Unlocked(g)
  PROVE  Locks' /\ lk' \in [C -> SUBSET G]
<1>1. Types /\ Locks
  BY DEF ChanInv
<1>2. lk' \in [C -> SUBSET G] /\ \A c \in C : lk'[c] = lk[c] \ {g}
  <2>1. CASE lk' = lk /\ pc[g] \notin LockPhases
    <3>1. ASSUME NEW c \in C PROVE g \notin lk[c]
      BY <1>1, <2>1 DEF Locks, LockPhases
    <3> QED BY <1>1, <2>1, <3>1 DEF Types
  <2>2. CASE lk' = Unlocked(g)
    BY <1>1, <2>2 DEF Types, Unlocked
  <2> QED BY <2>1, <2>2
<1>3. \A x \in G : Chans(x)' = Chans(x)
  BY DEF Chans
<1>4. ASSUME NEW c \in C
      PROVE  lk'[c] = {} \/ \E x \in G : /\ lk'[c] = {x} /\ c \in Chans(x) /\ op[x].sel
                                         /\ pc'[x] \in LockPhases
  <2>1. CASE lk[c] = {}
    BY <1>2, <2>1
  <2>2. ASSUME NEW x \in G, lk[c] = {x}, c \in Chans(x), op[x].sel, pc[x] \in LockPhases
        PROVE  lk'[c] = {} \/ (lk'[c] = {x} /\ pc'[x] \in LockPhases)
    BY <1>2, <2>2
  <2> QED BY <1>1, <2>1, <2>2 DEF Locks, LockPhases
<1>5. ASSUME NEW x \in G, pc'[x] \in LockPhases
      PROVE  x # g /\ pc'[x] = pc[x] /\ \A c \in Chans(x) : x \in lk'[c] <=> x \in lk[c]
  <2>1. x # g /\ pc'[x] = pc[x]
    BY <1>5
  <2>2. \A c \in Chans(x) : c \in C
    BY <1>1, OpIs
  <2> QED BY <1>2, <2>1, <2>2
<1>6. ASSUME NEW x \in G, pc'[x] \in {"pass1", "pass3"}, NEW c \in Chans(x)
      PROVE  x \in lk'[c]
  BY <1>1, <1>5, <1>6 DEF Locks, LockPhases
<1>7. ASSUME NEW x \in G, NEW c \in Chans(x), NEW d \in Chans(x),
             pc'[x] \in {"lock1", "lock3"}, x \in lk'[c], x \notin lk'[d]
      PROVE  Rank(c) < Rank(d)
  BY <1>1, <1>5, <1>7 DEF Locks, LockPhases
<1> QED BY <1>2, <1>3, <1>4, <1>6, <1>7 DEF Locks, LockPhases

\* g finds a peer h and serves it.
LEMMA ServeKeeps ==
  ASSUME ChanInv, Track, UNCHANGED <<closed, op, looks>>,
         NEW g \in G, NEW h \in G, NEW kh \in Case, NEW own \in Results, NEW r \in Results,
         pc[g] \in {"start", "pass1"}, Waiting(h, kh), Live(h),
         Shrunk({h}), (Waiting(h, kh)' => op[h].sel), Serve(g, h, kh, own, r),
         own.how \in {"sent", "received"}, r.how \in {"sent", "received"},
         \A c \in C : closed[c] /\ buf[c] = << >> => buf'[c] = << >>
  PROVE  /\ Placed' /\ Outcomes' /\ Queued' /\ Handed' /\ Parked' /\ NobodyOnClosed'
         /\ ByClose' /\ FastPath'
         /\ pc' \in [G -> Phases] /\ selectDone' \in [G -> BOOLEAN] /\ param' \in [G -> SUBSET Case]
         /\ res' \in [G -> Results] /\ toReady' \in [G -> SUBSET G] /\ unready' \in [G -> BOOLEAN]
         /\ h # g /\ \A x \in G \ {g} : pc'[x] = pc[x]
<1>0. Types /\ Placed /\ Outcomes /\ Queued /\ Handed /\ Parked /\ ByClose /\ FastPath
  BY DEF ChanInv
<1>1. /\ pc[h] = "parked" /\ param[h] = {} /\ ~InHand(h) /\ kh \in op[h].cases /\ h # g
  BY <1>0 DEF Queued
<1>2. /\ selectDone' = IF op[h].sel THEN [selectDone EXCEPT ![h] = TRUE] ELSE selectDone
      /\ param' = [param EXCEPT ![h] = {kh}]
      /\ res' = [res EXCEPT ![g] = own, ![h] = r]
      /\ toReady' = [toReady EXCEPT ![g] = {h}]
      /\ pc' = [pc EXCEPT ![g] = "ready"]
  BY DEF Serve, Jump
<1>3. /\ pc' \in [G -> Phases] /\ selectDone' \in [G -> BOOLEAN]
      /\ param' \in [G -> SUBSET Case]
      /\ res' \in [G -> Results] /\ toReady' \in [G -> SUBSET G]
  <2>1. pc' \in [G -> Phases]
    BY <1>0, <1>2 DEF Types, Phases
  <2>2. selectDone' \in [G -> BOOLEAN]
    BY <1>0, <1>2 DEF Types
  <2>3. param' \in [G -> SUBSET Case]
    BY <1>0, <1>2 DEF Types
  <2>4. res' \in [G -> Results]
    BY <1>0, <1>2 DEF Types
  <2>5. toReady' \in [G -> SUBSET G]
    BY <1>0, <1>2 DEF Types
  <2> QED BY <2>1, <2>2, <2>3, <2>4, <2>5
<1>4. /\ pc'[g] = "ready" /\ pc'[h] = "parked" /\ \A x \in G \ {g} : pc'[x] = pc[x]
      /\ param'[h] = {kh} /\ \A x \in G \ {h} : param'[x] = param[x]
      /\ res'[g] = own /\ res'[h] = r /\ \A x \in G \ {g, h} : res'[x] = res[x]
      /\ toReady'[g] = {h} /\ \A x \in G \ {g} : toReady'[x] = toReady[x]
      /\ toReady[g] = {}
      /\ op[h].sel => selectDone'[h]
      /\ ~op[h].sel => selectDone'[h] = selectDone[h]
      /\ \A x \in G \ {h} : selectDone'[x] = selectDone[x]
  <2>1. toReady[g] = {}
    BY <1>0 DEF Handed, Types
  <2>2. pc'[g] = "ready" /\ pc'[h] = "parked" /\ \A x \in G \ {g} : pc'[x] = pc[x]
    BY <1>0, <1>1, <1>2 DEF Types
  <2>3. param'[h] = {kh} /\ \A x \in G \ {h} : param'[x] = param[x]
    BY <1>0, <1>2 DEF Types
  <2>4. res'[g] = own /\ res'[h] = r /\ \A x \in G \ {g, h} : res'[x] = res[x]
    BY <1>0, <1>1, <1>2 DEF Types
  <2>5. toReady'[g] = {h} /\ \A x \in G \ {g} : toReady'[x] = toReady[x]
    BY <1>0, <1>2 DEF Types
  <2>6. /\ op[h].sel => selectDone'[h]
        /\ ~op[h].sel => selectDone'[h] = selectDone[h]
        /\ \A x \in G \ {h} : selectDone'[x] = selectDone[x]
    BY <1>0, <1>2 DEF Types
  <2> QED BY <2>1, <2>2, <2>3, <2>4, <2>5, <2>6
<1>5. own # NoRes /\ r # NoRes /\ own.how # "failed" /\ r.how # "failed"
  BY DEF NoRes
<1>6. /\ op' = op /\ closed' = closed /\ looks' = looks
      /\ \A x \in G : TheCase(x)' = TheCase(x) /\ (InHand(x)' <=> InHand(x) \/ x = h)
  BY <1>4 DEF TheCase, InHand
<1>7. /\ op[g] # NoOp /\ op[h] # NoOp
      /\ ~op[h].sel => op[h].cases = {kh}
  <2>1. op[g] # NoOp /\ op[h] # NoOp
    BY <1>0, <1>1 DEF Placed
  <2>2. ~op[h].sel => \E k \in Case : op[h].cases = {k}
    BY <1>0, <2>1, OpIs
  <2> QED BY <1>1, <2>1, <2>2
<1>8. /\ unready' \in [G -> BOOLEAN]
      /\ \A x \in G : ~op[x].block /\ unready[x] => unready'[x]
  <2>1. op' \in [G -> Ops \cup {NoOp}]
    BY <1>0, <1>6 DEF Types
  <2> QED BY <1>0, <1>6, <2>1, TrackKeeps
<1>10. Placed'
  <2> SUFFICES ASSUME NEW x \in G
               PROVE  /\ pc'[x] = "idle" => op[x] = NoOp
                      /\ op[x] = NoOp => pc'[x] \in {"idle", "ready"}
                      /\ pc'[x] \in {"fast", "start", "woken"} => ~op[x].sel
                      /\ pc'[x] \in {"lock1", "pass1", "lock3", "pass3"} => op[x].sel
                      /\ pc'[x] \in {"lock3", "pass3"} => selectDone'[x]
                      /\ selectDone'[x] => op[x].sel /\ pc'[x] \in {"parked", "lock3", "pass3"}
                      /\ param'[x] = {} \/ \E k \in op[x].cases : param'[x] = {k}
                      /\ param'[x] # {} => pc'[x] \in Asleep
    BY <1>6 DEF Placed
  <2>1. CASE x = g
    BY <1>0, <1>1, <1>4, <1>7, <2>1 DEF Placed, Asleep
  <2>2. CASE x = h
    BY <1>0, <1>1, <1>4, <1>7, <2>2 DEF Placed, Asleep
  <2>3. CASE x # g /\ x # h
    BY <1>0, <1>4, <2>3 DEF Placed, Asleep
  <2> QED BY <2>1, <2>2, <2>3
<1>11. Outcomes'
  <2> SUFFICES ASSUME NEW x \in G
               PROVE  /\ pc'[x] \in Fresh => res'[x] = NoRes
                      /\ pc'[x] \in Asleep => (res'[x] = NoRes <=> param'[x] = {})
                      /\ pc'[x] = "return" => res'[x] # NoRes
                      /\ pc'[x] = "ready" => (res'[x] = NoRes <=> op[x] = NoOp)
                      /\ res'[x].how = "failed" =>
                           /\ pc'[x] = "return" /\ ~op[x].block
                           /\ op[x].sel \/ TheCase(x).dir = "recv" => unready'[x]
    BY <1>6 DEF Outcomes
  <2>1. CASE x = g
    BY <1>4, <1>5, <1>7, <2>1 DEF Fresh, Asleep
  <2>2. CASE x = h
    BY <1>4, <1>5, <1>7, <2>2 DEF Fresh, Asleep
  <2>3. CASE x # g /\ x # h
    BY <1>0, <1>4, <1>8, <2>3 DEF Outcomes
  <2> QED BY <2>1, <2>2, <2>3
<1>12. Queued'
  <2> SUFFICES ASSUME NEW x \in G, NEW k \in Case, Waiting(x, k)'
               PROVE  /\ k \in op[x].cases /\ (k \in param'[x] => op[x].sel)
                      /\ pc'[x] \in {"parked", "lock3", "pass3"}
                      /\ Live(x)' => pc'[x] = "parked" /\ param'[x] = {} /\ ~(InHand(x)')
    BY <1>6 DEF Queued
  <2>1. /\ Waiting(x, k) /\ k \in op[x].cases /\ (k \in param[x] => op[x].sel)
        /\ pc[x] \in {"parked", "lock3", "pass3"}
        /\ Live(x) => pc[x] = "parked" /\ param[x] = {} /\ ~InHand(x)
    BY <1>0 DEF Shrunk, Queued
  <2>2. CASE x = h
    <3>1. op[h].sel
      BY <1>7, <2>1, <2>2
    <3>2. ~(Live(h)')
      BY <1>4, <1>6, <3>1 DEF Live
    <3> QED BY <1>4, <2>1, <2>2, <3>1, <3>2
  <2>3. CASE x # h
    <3>1. x # g /\ (Live(x)' <=> Live(x))
      BY <1>4, <1>6, <2>1, <2>3 DEF Live
    <3> QED BY <1>4, <1>6, <2>1, <2>3, <3>1
  <2> QED BY <2>2, <2>3
<1>13. Handed'
  <2> SUFFICES ASSUME NEW x \in G, NEW y \in G, x \in toReady'[y]
               PROVE  /\ pc'[y] = "ready" /\ pc'[x] = "parked" /\ (op[x].sel => selectDone'[x])
                      /\ \A i \in G : x \in toReady'[i] => i = y
    BY <1>6 DEF Handed
  <2>1. CASE y = g
    <3>1. x = h /\ \A i \in G : h \notin toReady[i]
      BY <1>1, <1>4, <2>1 DEF InHand
    <3> QED BY <1>4, <2>1, <3>1
  <2>2. CASE y # g
    <3>1. /\ x \in toReady[y] /\ pc[y] = "ready" /\ pc[x] = "parked"
          /\ (op[x].sel => selectDone[x]) /\ \A i \in G : x \in toReady[i] => i = y
      BY <1>0, <1>4, <2>2 DEF Handed
    <3>2. x # h /\ x # g
      BY <1>1, <3>1 DEF InHand
    <3> QED BY <1>4, <2>2, <3>1, <3>2
  <2> QED BY <2>1, <2>2
<1>14. Parked'
  <2> SUFFICES ASSUME NEW x \in G, pc'[x] = "parked", ~(InHand(x)')
               PROVE  /\ ~selectDone'[x] /\ param'[x] = {}
                      /\ \A k \in op[x].cases : Waiting(x, k)'
    BY <1>6 DEF Parked
  <2>1. x # h /\ x # g /\ ~InHand(x) /\ pc[x] = "parked"
    BY <1>4, <1>6
  <2>2. ~selectDone[x] /\ param[x] = {} /\ \A k \in op[x].cases : k \in Case /\ Waiting(x, k)
    BY <1>0, <2>1, OpIs DEF Parked
  <2>3. \A k \in op[x].cases : Waiting(x, k)'
    BY <2>1, <2>2 DEF Shrunk, Live
  <2> QED BY <1>4, <2>1, <2>2, <2>3
<1>15. NobodyOnClosed'
  BY ClosedStaysEmpty
<1>16. ByClose'
  <2> SUFFICES ASSUME NEW x \in G, pc'[x] = "woken" \/ (pc'[x] = "parked" /\ InHand(x)'),
                      ~op[x].sel, param'[x] = {}
               PROVE  /\ closed[TheCase(x).c]
                      /\ TheCase(x).dir = "recv" => buf'[TheCase(x).c] = << >>
    BY <1>6 DEF ByClose
  <2>1. x # g /\ x # h
    BY <1>4
  <2>2. pc[x] = "woken" \/ (pc[x] = "parked" /\ InHand(x))
    BY <1>4, <1>6, <2>1
  <2>3. op[x] # NoOp /\ TheCase(x).c \in C
    BY <1>0, <2>2, OpIs DEF Placed
  <2> QED BY <1>0, <1>4, <2>1, <2>2, <2>3 DEF ByClose
<1>17. FastPath'
  <2> SUFFICES ASSUME NEW x \in G, pc'[x] = "fast"
               PROVE  /\ ~op[x].block
                      /\ TheCase(x).dir = "recv" =>
                           \/ looks[x] = <<"ready", "closed">>
                           \/ looks[x] = <<"closed">> /\ (closed[TheCase(x).c] \/ unready'[x])
    BY <1>6 DEF FastPath
  <2>1. pc[x] = "fast"
    BY <1>4
  <2> QED BY <1>0, <1>8, <2>1 DEF FastPath
<1> QED BY <1>1, <1>3, <1>4, <1>8, <1>10, <1>11, <1>12, <1>13, <1>14, <1>15, <1>16, <1>17

\* g has its outcome without a peer.
LEMMA CompleteKeeps ==
  ASSUME ChanInv, Track, UNCHANGED <<closed, op, looks>>,
         NEW g \in G, NEW own \in Results, pc[g] \in {"start", "pass1"},
         Shrunk({}), Complete(g, own), own.how # "none",
         own.how = "failed" => ~op[g].block /\ unready'[g],
         \A c \in C : closed[c] /\ buf[c] = << >> => buf'[c] = << >>
  PROVE  /\ Placed' /\ Outcomes' /\ Queued' /\ Handed' /\ Parked' /\ NobodyOnClosed'
         /\ ByClose' /\ FastPath'
         /\ pc' \in [G -> Phases] /\ selectDone' \in [G -> BOOLEAN] /\ param' \in [G -> SUBSET Case]
         /\ res' \in [G -> Results] /\ toReady' \in [G -> SUBSET G] /\ unready' \in [G -> BOOLEAN]
         /\ pc'[g] = "return" /\ \A x \in G \ {g} : pc'[x] = pc[x]
<1>0. Types /\ Placed /\ Outcomes /\ Queued /\ Handed /\ Parked /\ ByClose /\ FastPath
  BY DEF ChanInv
<1>1. /\ selectDone' = selectDone /\ param' = param /\ toReady' = toReady
      /\ op' = op /\ closed' = closed /\ looks' = looks
      /\ res' = [res EXCEPT ![g] = own] /\ pc' = [pc EXCEPT ![g] = "return"]
  BY DEF Complete, Jump
<1>2. /\ pc' \in [G -> Phases] /\ selectDone' \in [G -> BOOLEAN] /\ param' \in [G -> SUBSET Case]
      /\ res' \in [G -> Results] /\ toReady' \in [G -> SUBSET G]
  BY <1>0, <1>1 DEF Types, Phases
<1>3. /\ pc'[g] = "return" /\ \A x \in G \ {g} : pc'[x] = pc[x]
      /\ res'[g] = own /\ \A x \in G \ {g} : res'[x] = res[x]
      /\ op[g] # NoOp /\ ~selectDone[g] /\ param[g] = {} /\ own # NoRes
  <2>1. pc'[g] = "return" /\ \A x \in G \ {g} : pc'[x] = pc[x]
    BY <1>0, <1>1 DEF Types
  <2>2. res'[g] = own /\ \A x \in G \ {g} : res'[x] = res[x]
    BY <1>0, <1>1 DEF Types
  <2>3. op[g] # NoOp /\ ~selectDone[g] /\ param[g] = {}
    BY <1>0 DEF Placed, Asleep
  <2> QED BY <2>1, <2>2, <2>3 DEF NoRes
<1>4. \A x \in G : TheCase(x)' = TheCase(x) /\ (InHand(x)' <=> InHand(x)) /\ (Live(x)' <=> Live(x))
  BY <1>1 DEF TheCase, InHand, Live
<1>5. /\ unready' \in [G -> BOOLEAN]
      /\ \A x \in G : ~op[x].block /\ unready[x] => unready'[x]
  <2>1. op' \in [G -> Ops \cup {NoOp}]
    BY <1>0, <1>1 DEF Types
  <2> QED BY <1>0, <1>1, <2>1, TrackKeeps
<1>6. Placed'
  BY <1>0, <1>1, <1>3 DEF Placed, Asleep
<1>7. Outcomes'
  <2> SUFFICES ASSUME NEW x \in G
               PROVE  /\ pc'[x] \in Fresh => res'[x] = NoRes
                      /\ pc'[x] \in Asleep => (res'[x] = NoRes <=> param[x] = {})
                      /\ pc'[x] = "return" => res'[x] # NoRes
                      /\ pc'[x] = "ready" => (res'[x] = NoRes <=> op[x] = NoOp)
                      /\ res'[x].how = "failed" =>
                           /\ pc'[x] = "return" /\ ~op[x].block
                           /\ op[x].sel \/ TheCase(x).dir = "recv" => unready'[x]
    BY <1>1, <1>4 DEF Outcomes
  <2>1. CASE x = g
    BY <1>3, <2>1 DEF Fresh, Asleep
  <2>2. CASE x # g
    BY <1>0, <1>3, <1>5, <2>2 DEF Outcomes
  <2> QED BY <2>1, <2>2
<1>8. Queued'
  BY <1>0, <1>1, <1>3, <1>4 DEF Shrunk, Queued
<1>9. Handed'
  BY <1>0, <1>1, <1>3 DEF Handed
<1>10. Parked'
  <2> SUFFICES ASSUME NEW x \in G, pc'[x] = "parked", ~(InHand(x)')
               PROVE  /\ ~selectDone[x] /\ param[x] = {} /\ \A k \in op[x].cases : Waiting(x, k)'
    BY <1>1 DEF Parked
  <2>1. x # g /\ ~InHand(x) /\ pc[x] = "parked"
    BY <1>3, <1>4
  <2>2. ~selectDone[x] /\ param[x] = {} /\ \A k \in op[x].cases : k \in Case /\ Waiting(x, k)
    BY <1>0, <2>1, OpIs DEF Parked
  <2> QED BY <2>1, <2>2 DEF Shrunk, Live
<1>11. NobodyOnClosed'
  BY <1>1, ClosedStaysEmpty
<1>12. ByClose'
  <2> SUFFICES ASSUME NEW x \in G, pc'[x] = "woken" \/ (pc'[x] = "parked" /\ InHand(x)'),
                      ~op[x].sel, param[x] = {}
               PROVE  /\ closed[TheCase(x).c]
                      /\ TheCase(x).dir = "recv" => buf'[TheCase(x).c] = << >>
    BY <1>1, <1>4 DEF ByClose
  <2>1. pc[x] = "woken" \/ (pc[x] = "parked" /\ InHand(x))
    BY <1>3, <1>4
  <2>2. op[x] # NoOp /\ TheCase(x).c \in C
    BY <1>0, <2>1, OpIs DEF Placed
  <2> QED BY <1>0, <2>1, <2>2 DEF ByClose
<1>13. FastPath'
  <2> SUFFICES ASSUME NEW x \in G, pc'[x] = "fast"
               PROVE  /\ ~op[x].block
                      /\ TheCase(x).dir = "recv" =>
                           \/ looks[x] = <<"ready", "closed">>
                           \/ looks[x] = <<"closed">> /\ (closed[TheCase(x).c] \/ unready'[x])
    BY <1>1, <1>4 DEF FastPath
  <2>1. pc[x] = "fast"
    BY <1>3
  <2> QED BY <1>0, <1>5, <2>1 DEF FastPath
<1> QED BY <1>2, <1>3, <1>5, <1>6, <1>7, <1>8, <1>9, <1>10, <1>11, <1>12, <1>13

\* What a look at the queues of cases that cannot proceed leaves: queues that are empty
\* or untouched.
LEMMA PurgedIs ==
  ASSUME Types, NEW own \in {"send", "recv"},
         NEW q \in [C -> Seq(G)], \A d \in C : Tight(q[d], op, d, own),
         NEW dir, NEW seen, \A d \in C : [c |-> d, dir |-> dir] \in seen => ~Found(q[d])
  PROVE  /\ Purged(q, dir, seen) \in [C -> Seq(G)]
         /\ \A d \in C :
              /\ Tight(Purged(q, dir, seen)[d], op, d, own)
              /\ ToSet(Purged(q, dir, seen)[d]) \subseteq ToSet(q[d])
              /\ \A x \in ToSet(q[d]) : Live(x) => x \in ToSet(Purged(q, dir, seen)[d])
              /\ Purged(q, dir, seen)[d] \in {q[d], << >>}
              /\ [c |-> d, dir |-> dir] \in seen => Purged(q, dir, seen)[d] = << >>
<1> DEFINE r == Purged(q, dir, seen)
<1>1. ASSUME NEW d \in C
      PROVE  /\ r[d] \in Seq(G) /\ Tight(r[d], op, d, own) /\ ToSet(r[d]) \subseteq ToSet(q[d])
             /\ \A x \in ToSet(q[d]) : Live(x) => x \in ToSet(r[d])
             /\ r[d] \in {q[d], << >>}
             /\ [c |-> d, dir |-> dir] \in seen => r[d] = << >>
  <2>0. q[d] \in Seq(G) /\ Tight(q[d], op, d, own)
    OBVIOUS
  <2>1. CASE [c |-> d, dir |-> dir] \in seen
    <3>1. r[d] = Rest(q[d]) /\ ~Found(q[d])
      BY <2>1 DEF Purged
    <3> QED BY <2>0, <3>1, Dequeue
  <2>2. CASE [c |-> d, dir |-> dir] \notin seen
    <3>1. r[d] = q[d]
      BY <2>2 DEF Purged
    <3> QED BY <2>0, <2>2, <3>1
  <2> QED BY <2>1, <2>2
<1>2. r = [d \in C |-> r[d]]
  BY DEF Purged
<1> HIDE DEF r
<1>3. r \in [C -> Seq(G)]
  BY <1>1, <1>2
<1> QED BY <1>1, <1>3 DEF r

\* What the steps of one operation on the data keep, but for the locks.
Kept ==
  /\ Placed' /\ Outcomes' /\ Queued' /\ Handed' /\ Parked' /\ NobodyOnClosed'
  /\ ByClose' /\ FastPath'
  /\ pc' \in [G -> Phases] /\ selectDone' \in [G -> BOOLEAN] /\ param' \in [G -> SUBSET Case]
  /\ res' \in [G -> Results] /\ toReady' \in [G -> SUBSET G] /\ unready' \in [G -> BOOLEAN]

LEMMA ShrunkBy ==
  ASSUME NEW gone, recvq' \in [C -> Seq(G)], sendq' \in [C -> Seq(G)],
         \A d \in C :
           /\ Tight(recvq'[d], op, d, "recv")
           /\ Tight(sendq'[d], op, d, "send")
           /\ ToSet(recvq'[d]) \subseteq ToSet(recvq[d])
           /\ ToSet(sendq'[d]) \subseteq ToSet(sendq[d])
           /\ \A x \in ToSet(recvq[d]) : Live(x) => x \in ToSet(recvq'[d]) \/ x \in gone
           /\ \A x \in ToSet(sendq[d]) : Live(x) => x \in ToSet(sendq'[d]) \/ x \in gone
  PROVE  Shrunk(gone)
<1>1. ASSUME NEW x \in G, NEW k \in Case
      PROVE  /\ Waiting(x, k)' => Waiting(x, k)
             /\ Waiting(x, k) /\ Live(x) => Waiting(x, k)' \/ x \in gone
  <2>1. k.c \in C
    BY DEF Case
  <2>2. CASE k.dir = "recv"
    BY <2>1, <2>2 DEF Waiting, Queue
  <2>3. CASE k.dir # "recv"
    BY <2>1, <2>3 DEF Waiting, Queue
  <2> QED BY <2>2, <2>3
<1> QED BY <1>1 DEF Shrunk

\* The cases of one channel, and who waits in its queues.
LEMMA Cases ==
  ASSUME NEW c \in C
  PROVE  LET r == [c |-> c, dir |-> "recv"]  s == [c |-> c, dir |-> "send"] IN
         /\ r \in Case /\ s \in Case
         /\ \A x : (Waiting(x, r) <=> x \in ToSet(recvq[c])) /\ (Waiting(x, s) <=> x \in ToSet(sendq[c]))
         /\ \A x : /\ Waiting(x, r)' <=> x \in ToSet(recvq'[c])
                   /\ Waiting(x, s)' <=> x \in ToSet(sendq'[c])
         /\ (Can(r) <=> CanRecv(c)) /\ (Can(s) <=> CanSend(c))
BY DEF Case, Waiting, Queue, Can

\* What the two queues of a channel may hold at once, by what the buffer holds.
Balanced(c, b, rq, sq) ==
  /\ \/ sq = << >> \/ rq = << >>
     \/ cap[c] = 0 /\ \E g \in G : op[g].sel /\ ToSet(sq) \cup ToSet(rq) = {g}
  /\ cap[c] > 0 /\ b # << >> => rq = << >>
  /\ cap[c] > 0 /\ Len(b) < cap[c] => sq = << >>

\* It stays so when sudogs leave the queues.
LEMMA BalancedStays ==
  ASSUME NEW c, NEW b, NEW rq \in Seq(G), NEW sq \in Seq(G), Balanced(c, b, rq, sq),
         NEW r \in Seq(G), NEW s \in Seq(G),
         ToSet(r) \subseteq ToSet(rq), ToSet(s) \subseteq ToSet(sq)
  PROVE  Balanced(c, b, r, s)
<1>1. /\ rq = << >> <=> ToSet(rq) = {}
      /\ sq = << >> <=> ToSet(sq) = {}
      /\ r = << >> <=> ToSet(r) = {}
      /\ s = << >> <=> ToSet(s) = {}
  BY NobodyWaits
<1>2. \A g \in G : ToSet(sq) \cup ToSet(rq) = {g} => \/ ToSet(s) = {} \/ ToSet(r) = {}
                                                    \/ ToSet(s) \cup ToSet(r) = {g}
  OBVIOUS
<1> QED BY <1>1, <1>2 DEF Balanced

LEMMA AllBalanced ==
  /\ ChanInvariants <=> \A c \in C : Balanced(c, buf[c], recvq[c], sendq[c])
  /\ op' = op => (ChanInvariants' <=> \A c \in C : Balanced(c, buf'[c], recvq'[c], sendq'[c]))
BY DEF ChanInvariants, Balanced

\* When none of the cases in seen can proceed, the queues they look at become empty.
LEMMA GivenUp ==
  ASSUME ChanInv, NEW seen, \A k \in seen : ~Can(k)
  PROVE  LET rq == Purged(recvq, "send", seen)
             sq == Purged(sendq, "recv", seen)
         IN  /\ rq \in [C -> Seq(G)] /\ sq \in [C -> Seq(G)]
             /\ \A d \in C :
                  /\ Tight(rq[d], op, d, "recv")
                  /\ Tight(sq[d], op, d, "send")
                  /\ ToSet(rq[d]) \subseteq ToSet(recvq[d]) /\ ToSet(sq[d]) \subseteq ToSet(sendq[d])
                  /\ \A x \in ToSet(recvq[d]) : Live(x) => x \in ToSet(rq[d])
                  /\ \A x \in ToSet(sendq[d]) : Live(x) => x \in ToSet(sq[d])
                  /\ rq[d] \in {recvq[d], << >>} /\ sq[d] \in {sendq[d], << >>}
                  /\ [c |-> d, dir |-> "send"] \in seen =>
                       rq[d] = << >> /\ ~closed[d] /\ ~(Len(buf[d]) < cap[d])
                  /\ [c |-> d, dir |-> "recv"] \in seen =>
                       sq[d] = << >> /\ ~closed[d] /\ buf[d] = << >>
<1> DEFINE rq == Purged(recvq, "send", seen)
           sq == Purged(sendq, "recv", seen)
<1>1. \A d \in C : /\ [c |-> d, dir |-> "send"] \in seen =>
                        ~Found(recvq[d]) /\ ~closed[d] /\ ~(Len(buf[d]) < cap[d])
                   /\ [c |-> d, dir |-> "recv"] \in seen =>
                        ~Found(sendq[d]) /\ ~closed[d] /\ buf[d] = << >>
  BY Cases DEF CanSend, CanRecv
<1>2. Types /\ recvq \in [C -> Seq(G)] /\ \A d \in C : Tight(recvq[d], op, d, "recv")
  BY DEF ChanInv, Types
<1>3. sendq \in [C -> Seq(G)] /\ \A d \in C : Tight(sendq[d], op, d, "send")
  BY DEF ChanInv, Types
<1>4. /\ rq \in [C -> Seq(G)]
      /\ \A d \in C :
           /\ Tight(rq[d], op, d, "recv") /\ ToSet(rq[d]) \subseteq ToSet(recvq[d])
           /\ \A x \in ToSet(recvq[d]) : Live(x) => x \in ToSet(rq[d])
           /\ rq[d] \in {recvq[d], << >>}
           /\ [c |-> d, dir |-> "send"] \in seen => rq[d] = << >>
  BY <1>1, <1>2, PurgedIs
<1>5. /\ sq \in [C -> Seq(G)]
      /\ \A d \in C :
           /\ Tight(sq[d], op, d, "send") /\ ToSet(sq[d]) \subseteq ToSet(sendq[d])
           /\ \A x \in ToSet(sendq[d]) : Live(x) => x \in ToSet(sq[d])
           /\ sq[d] \in {sendq[d], << >>}
           /\ [c |-> d, dir |-> "recv"] \in seen => sq[d] = << >>
  BY <1>1, <1>2, <1>3, PurgedIs
<1> HIDE DEF rq, sq
<1>6. ASSUME NEW d \in C
      PROVE  /\ Tight(rq[d], op, d, "recv")
             /\ Tight(sq[d], op, d, "send")
             /\ ToSet(rq[d]) \subseteq ToSet(recvq[d]) /\ ToSet(sq[d]) \subseteq ToSet(sendq[d])
             /\ \A x \in ToSet(recvq[d]) : Live(x) => x \in ToSet(rq[d])
             /\ \A x \in ToSet(sendq[d]) : Live(x) => x \in ToSet(sq[d])
             /\ rq[d] \in {recvq[d], << >>} /\ sq[d] \in {sendq[d], << >>}
             /\ [c |-> d, dir |-> "send"] \in seen =>
                  rq[d] = << >> /\ ~closed[d] /\ ~(Len(buf[d]) < cap[d])
             /\ [c |-> d, dir |-> "recv"] \in seen =>
                  sq[d] = << >> /\ ~closed[d] /\ buf[d] = << >>
  BY <1>1, <1>4, <1>5, Zenon
<1> QED BY <1>4, <1>5, <1>6, Zenon DEF rq, sq

LEMMA SendKeeps ==
  ASSUME ChanInv, Track, UNCHANGED <<closed, op, looks>>,
         NEW g \in G, NEW c \in C, pc[g] \in {"start", "pass1"}, CanSend(c),
         NEW seen, \A k \in seen : ~Can(k), DoSend(g, c, seen)
  PROVE  /\ Kept /\ ChanInvariants'
         /\ buf' \in [C -> Seq(G)] /\ \A d \in C : Len(buf'[d]) <= cap[d]
         /\ recvq' \in [C -> Seq(G)] /\ sendq' \in [C -> Seq(G)]
         /\ \A d \in C : Tight(recvq'[d], op, d, "recv") /\ Tight(sendq'[d], op, d, "send")
         /\ pc'[g] \in {"ready", "return"} /\ \A x \in G \ {g} : pc'[x] = pc[x]
<1>0. Types /\ Queued /\ NobodyOnClosed /\ ChanInvariants /\ cap \in [C -> Nat]
  BY CapNat DEF ChanInv
<1> DEFINE rq == Purged(recvq, "send", seen)
           sq == Purged(sendq, "recv", seen)
           h == Peer(recvq[c])
           r == [c |-> c, dir |-> "recv"]
           s == [c |-> c, dir |-> "send"]
<1>1. /\ rq \in [C -> Seq(G)] /\ sq \in [C -> Seq(G)]
      /\ \A d \in C :
           /\ Tight(rq[d], op, d, "recv")
           /\ Tight(sq[d], op, d, "send")
           /\ ToSet(rq[d]) \subseteq ToSet(recvq[d]) /\ ToSet(sq[d]) \subseteq ToSet(sendq[d])
           /\ \A x \in ToSet(recvq[d]) : Live(x) => x \in ToSet(rq[d])
           /\ \A x \in ToSet(sendq[d]) : Live(x) => x \in ToSet(sq[d])
           /\ rq[d] \in {recvq[d], << >>} /\ sq[d] \in {sendq[d], << >>}
  BY GivenUp
<1>2. /\ recvq[c] \in Seq(G) /\ Tight(recvq[c], op, c, "recv")
      /\ Rest(recvq[c]) \in Seq(G) /\ Tight(Rest(recvq[c]), op, c, "recv")
      /\ ToSet(Rest(recvq[c])) \subseteq ToSet(recvq[c])
      /\ Found(recvq[c]) => /\ h \in ToSet(recvq[c]) /\ Live(h)
                            /\ h \in ToSet(Rest(recvq[c])) => op[h].sel
      /\ \A x \in ToSet(recvq[c]) : Live(x) => x \in ToSet(Rest(recvq[c])) \/ x = h
      /\ Found(recvq[c]) <=> \E x \in ToSet(recvq[c]) : Live(x)
      /\ ~Found(recvq[c]) => Rest(recvq[c]) = << >>
  <2>1. recvq[c] \in Seq(G) /\ Tight(recvq[c], op, c, "recv")
    BY <1>0 DEF Types
  <2> QED BY <1>0, <2>1, Dequeue
<1>3. /\ sendq' = sq
      /\ IF closed[c]
         THEN /\ Complete(g, FoundClosed([c |-> c, dir |-> "send"]))
              /\ recvq' = rq
              /\ UNCHANGED buf
         ELSE /\ recvq' = [rq EXCEPT ![c] = Rest(recvq[c])]
              /\ IF Found(recvq[c])
                 THEN /\ Serve(g, h, r, Sent(c), Received(c, g))
                      /\ UNCHANGED buf
                 ELSE /\ Complete(g, Sent(c))
                      /\ buf' = [buf EXCEPT ![c] = Append(@, g)]
  BY DEF DoSend
<1>4. /\ Sent(c) \in Results /\ Received(c, g) \in Results /\ FoundClosed(s) \in Results
      /\ Sent(c).how = "sent" /\ Received(c, g).how = "received" /\ FoundClosed(s).how = "panic"
  BY Cases DEF Sent, Received, FoundClosed, Results
<1>5. pc[g] \in Phases /\ pc \in [G -> Phases]
  BY <1>0 DEF Types
<1>10. /\ r \in Case
       /\ \A x : Waiting(x, r) <=> x \in ToSet(recvq[c])
       /\ \A x : Waiting(x, r)' <=> x \in ToSet(recvq'[c])
  BY Cases
<1> HIDE DEF rq, sq, h, r, s
<1>11. ASSUME NEW b, Balanced(c, b, recvq'[c], sendq'[c]), buf'[c] = b,
              \A d \in C \ {c} : recvq'[d] = rq[d] /\ buf'[d] = buf[d], sendq' = sq
       PROVE  ChanInvariants'
  <2>1. ASSUME NEW d \in C PROVE Balanced(d, buf'[d], recvq'[d], sendq'[d])
    <3>1. CASE d = c
      BY <1>11, <3>1
    <3>2. CASE d # c
      <4>1. Balanced(d, buf[d], recvq[d], sendq[d]) /\ recvq[d] \in Seq(G) /\ sendq[d] \in Seq(G)
        BY <1>0, AllBalanced DEF Types
      <4> QED BY <1>1, <1>11, <3>2, <4>1, BalancedStays
    <3> QED BY <3>1, <3>2
  <2> QED BY <2>1, AllBalanced
<1>12. /\ Balanced(c, buf[c], recvq[c], sendq[c]) /\ cap[c] \in Nat /\ Len(buf[c]) \in Nat
       /\ recvq[c] \in Seq(G) /\ sendq[c] \in Seq(G)
  BY <1>0, AllBalanced DEF Types
<1>6. CASE closed[c]
  <2>1. /\ sendq' = sq /\ recvq' = rq /\ buf' = buf /\ Complete(g, FoundClosed(s))
    BY <1>3, <1>6 DEF s
  <2>2. Shrunk({})
    BY <1>1, <2>1, ShrunkBy
  <2>3. /\ Kept /\ pc'[g] = "return" /\ \A x \in G \ {g} : pc'[x] = pc[x]
    BY <1>4, <2>1, <2>2, CompleteKeeps DEF Kept
  <2>4. ChanInvariants'
    <3>1. ASSUME NEW d \in C PROVE Balanced(d, buf'[d], recvq'[d], sendq'[d])
      <4>1. Balanced(d, buf[d], recvq[d], sendq[d]) /\ recvq[d] \in Seq(G) /\ sendq[d] \in Seq(G)
        BY <1>0, AllBalanced DEF Types
      <4>2. /\ recvq'[d] \in Seq(G) /\ ToSet(recvq'[d]) \subseteq ToSet(recvq[d])
            /\ sendq'[d] \in Seq(G) /\ ToSet(sendq'[d]) \subseteq ToSet(sendq[d])
        BY <1>1, <2>1
      <4>3. Balanced(d, buf[d], recvq'[d], sendq'[d])
        BY <4>1, <4>2, BalancedStays
      <4> QED BY <2>1, <4>3
    <3> QED BY <3>1, AllBalanced
  <2> QED BY <1>0, <1>1, <2>1, <2>3, <2>4 DEF Types
<1>7. ASSUME ~closed[c]
      PROVE  /\ recvq' \in [C -> Seq(G)] /\ sendq' = sq /\ recvq'[c] = Rest(recvq[c])
             /\ \A d \in C \ {c} : recvq'[d] = rq[d]
             /\ Shrunk(IF Found(recvq[c]) THEN {h} ELSE {})
  <2>1. recvq' = [rq EXCEPT ![c] = Rest(recvq[c])] /\ sendq' = sq
    BY <1>3, <1>7
  <2>2. recvq' \in [C -> Seq(G)] /\ recvq'[c] = Rest(recvq[c]) /\ \A d \in C \ {c} : recvq'[d] = rq[d]
    BY <1>1, <1>2, <2>1
  <2> DEFINE gone == IF Found(recvq[c]) THEN {h} ELSE {}
  <2>3. ASSUME NEW d \in C
        PROVE  /\ Tight(recvq'[d], op, d, "recv") /\ ToSet(recvq'[d]) \subseteq ToSet(recvq[d])
               /\ \A x \in ToSet(recvq[d]) : Live(x) => x \in ToSet(recvq'[d]) \/ x \in gone
    <3>1. CASE d = c
      BY <1>2, <2>2, <3>1
    <3>2. CASE d # c
      BY <1>1, <2>2, <3>2
    <3> QED BY <3>1, <3>2
  <2> HIDE DEF gone
  <2>4. Shrunk(gone)
    BY <1>1, <2>1, <2>2, <2>3, ShrunkBy
  <2> QED BY <2>1, <2>2, <2>4 DEF gone
<1>8. CASE ~closed[c] /\ Found(recvq[c])
  <2>0. PICK x \in G : x = h
    BY <1>2, <1>8, NobodyWaits
  <2>1. Serve(g, x, r, Sent(c), Received(c, g)) /\ buf' = buf
    BY <1>3, <1>8, <2>0
  <2>2. r \in Case /\ Waiting(x, r) /\ Live(x) /\ (Waiting(x, r)' => op[x].sel)
    <3>1. x \in ToSet(recvq[c]) /\ Live(x) /\ (x \in ToSet(recvq'[c]) => op[x].sel)
      BY <1>2, <1>7, <1>8, <2>0
    <3> QED BY <1>10, <3>1
  <2>3. Shrunk({x})
    BY <1>7, <1>8, <2>0
  <2>4. /\ Kept /\ \A y \in G \ {g} : pc'[y] = pc[y]
    BY <1>4, <2>1, <2>2, <2>3, ServeKeeps DEF Kept
  <2>5. pc'[g] = "ready"
    BY <1>5, <2>1 DEF Serve, Jump
  <2>6. ChanInvariants'
    <3>1. /\ recvq'[c] \in Seq(G) /\ ToSet(recvq'[c]) \subseteq ToSet(recvq[c])
          /\ sendq'[c] \in Seq(G) /\ ToSet(sendq'[c]) \subseteq ToSet(sendq[c])
      BY <1>1, <1>2, <1>7, <1>8
    <3>2. Balanced(c, buf[c], recvq'[c], sendq'[c])
      BY <1>12, <3>1, BalancedStays
    <3> QED BY <1>7, <1>8, <1>11, <2>1, <3>2
  <2> QED BY <1>0, <1>1, <1>7, <1>8, <2>1, <2>3, <2>4, <2>5, <2>6 DEF Types, Shrunk
<1>9. CASE ~closed[c] /\ ~Found(recvq[c])
  <2>1. Complete(g, Sent(c)) /\ buf' = [buf EXCEPT ![c] = Append(@, g)]
    BY <1>3, <1>9
  <2>2. Shrunk({})
    BY <1>7, <1>9
  <2>3. Len(buf[c]) < cap[c] /\ buf[c] \in Seq(G) /\ cap[c] > 0
    BY <1>0, <1>9 DEF CanSend, Types
  <2>4. /\ buf' \in [C -> Seq(G)] /\ buf'[c] = Append(buf[c], g)
        /\ \A d \in C \ {c} : buf'[d] = buf[d]
        /\ Len(buf'[c]) = Len(buf[c]) + 1
    <3>1. Append(buf[c], g) \in Seq(G) /\ Len(Append(buf[c], g)) = Len(buf[c]) + 1
      BY <2>3, AppendProperties
    <3> QED BY <1>0, <2>1, <3>1 DEF Types
  <2>5. \A d \in C : closed[d] /\ buf[d] = << >> => buf'[d] = << >>
    BY <1>9, <2>4
  <2>6. /\ Kept /\ pc'[g] = "return" /\ \A x \in G \ {g} : pc'[x] = pc[x]
    BY <1>4, <2>1, <2>2, <2>5, CompleteKeeps DEF Kept
  <2>7. ChanInvariants'
    <3>1. sendq[c] = << >>
      BY <1>12, <2>3 DEF Balanced
    <3>2. sendq'[c] = << >> /\ recvq'[c] = << >>
      BY <1>1, <1>2, <1>7, <1>9, <3>1
    <3>3. Balanced(c, buf'[c], recvq'[c], sendq'[c])
      BY <3>2 DEF Balanced
    <3> QED BY <1>7, <1>9, <1>11, <2>4, <3>3
  <2>8. ASSUME NEW d \in C PROVE Len(buf'[d]) <= cap[d]
    <3>1. Len(buf[d]) <= cap[d]
      BY <1>0 DEF Types
    <3> QED BY <1>12, <2>3, <2>4, <3>1
  <2> QED BY <2>2, <2>4, <2>6, <2>7, <2>8 DEF Shrunk
<1> QED BY <1>6, <1>8, <1>9

LEMMA RecvKeeps ==
  ASSUME ChanInv, Track, UNCHANGED <<closed, op, looks>>,
         NEW g \in G, NEW c \in C, pc[g] \in {"start", "pass1"}, CanRecv(c),
         NEW seen, \A k \in seen : ~Can(k), DoRecv(g, c, seen)
  PROVE  /\ Kept /\ ChanInvariants'
         /\ buf' \in [C -> Seq(G)] /\ \A d \in C : Len(buf'[d]) <= cap[d]
         /\ recvq' \in [C -> Seq(G)] /\ sendq' \in [C -> Seq(G)]
         /\ \A d \in C : Tight(recvq'[d], op, d, "recv") /\ Tight(sendq'[d], op, d, "send")
         /\ pc'[g] \in {"ready", "return"} /\ \A x \in G \ {g} : pc'[x] = pc[x]
<1>0. Types /\ Queued /\ NobodyOnClosed /\ ChanInvariants /\ cap \in [C -> Nat]
  BY CapNat DEF ChanInv
<1> DEFINE rq == Purged(recvq, "send", seen)
           sq == Purged(sendq, "recv", seen)
           h == Peer(sendq[c])
           head == IF cap[c] = 0 THEN h ELSE Head(buf[c])
           r == [c |-> c, dir |-> "recv"]
           s == [c |-> c, dir |-> "send"]
<1>1. /\ rq \in [C -> Seq(G)] /\ sq \in [C -> Seq(G)]
      /\ \A d \in C :
           /\ Tight(rq[d], op, d, "recv")
           /\ Tight(sq[d], op, d, "send")
           /\ ToSet(rq[d]) \subseteq ToSet(recvq[d]) /\ ToSet(sq[d]) \subseteq ToSet(sendq[d])
           /\ \A x \in ToSet(recvq[d]) : Live(x) => x \in ToSet(rq[d])
           /\ \A x \in ToSet(sendq[d]) : Live(x) => x \in ToSet(sq[d])
           /\ rq[d] \in {recvq[d], << >>} /\ sq[d] \in {sendq[d], << >>}
  BY GivenUp
<1>2. /\ sendq[c] \in Seq(G) /\ Tight(sendq[c], op, c, "send")
      /\ Rest(sendq[c]) \in Seq(G) /\ Tight(Rest(sendq[c]), op, c, "send")
      /\ ToSet(Rest(sendq[c])) \subseteq ToSet(sendq[c])
      /\ Found(sendq[c]) => /\ h \in ToSet(sendq[c]) /\ Live(h)
                            /\ h \in ToSet(Rest(sendq[c])) => op[h].sel
      /\ \A x \in ToSet(sendq[c]) : Live(x) => x \in ToSet(Rest(sendq[c])) \/ x = h
      /\ Found(sendq[c]) <=> \E x \in ToSet(sendq[c]) : Live(x)
      /\ ~Found(sendq[c]) => Rest(sendq[c]) = << >>
  <2>1. sendq[c] \in Seq(G) /\ Tight(sendq[c], op, c, "send")
    BY <1>0 DEF Types
  <2> QED BY <1>0, <2>1, Dequeue
<1>3. /\ recvq' = rq
      /\ sendq' = [sq EXCEPT ![c] = Rest(sendq[c])]
      /\ IF Found(sendq[c])
         THEN /\ Serve(g, h, s, Received(c, head), Sent(c))
              /\ buf' = IF cap[c] = 0 THEN buf ELSE [buf EXCEPT ![c] = Append(Tail(@), h)]
         ELSE IF buf[c] # << >>
         THEN /\ Complete(g, Received(c, Head(buf[c])))
              /\ buf' = [buf EXCEPT ![c] = Tail(@)]
         ELSE /\ Complete(g, FoundClosed(r))
              /\ UNCHANGED buf
  BY DEF DoRecv
<1>4. /\ Sent(c) \in Results /\ FoundClosed(r) \in Results
      /\ \A v \in G : Received(c, v) \in Results /\ Received(c, v).how = "received"
      /\ Sent(c).how = "sent" /\ FoundClosed(r).how = "closed"
  BY Cases DEF Sent, Received, FoundClosed, Results
<1>5. pc[g] \in Phases /\ pc \in [G -> Phases]
  BY <1>0 DEF Types
<1>10. /\ s \in Case
       /\ \A x : Waiting(x, s) <=> x \in ToSet(sendq[c])
       /\ \A x : Waiting(x, s)' <=> x \in ToSet(sendq'[c])
  BY Cases
<1>13. head = IF cap[c] = 0 THEN h ELSE Head(buf[c])
  OBVIOUS
<1> HIDE DEF rq, sq, h, head, r, s
<1>7. /\ recvq' = rq /\ sendq' \in [C -> Seq(G)] /\ sendq'[c] = Rest(sendq[c])
      /\ \A d \in C \ {c} : sendq'[d] = sq[d]
      /\ Shrunk(IF Found(sendq[c]) THEN {h} ELSE {})
  <2>1. sendq' = [sq EXCEPT ![c] = Rest(sendq[c])] /\ recvq' = rq
    BY <1>3
  <2>2. sendq' \in [C -> Seq(G)] /\ sendq'[c] = Rest(sendq[c]) /\ \A d \in C \ {c} : sendq'[d] = sq[d]
    BY <1>1, <1>2, <2>1
  <2> DEFINE gone == IF Found(sendq[c]) THEN {h} ELSE {}
  <2>3. ASSUME NEW d \in C
        PROVE  /\ Tight(sendq'[d], op, d, "send") /\ ToSet(sendq'[d]) \subseteq ToSet(sendq[d])
               /\ \A x \in ToSet(sendq[d]) : Live(x) => x \in ToSet(sendq'[d]) \/ x \in gone
    <3>1. CASE d = c
      BY <1>2, <2>2, <3>1
    <3>2. CASE d # c
      BY <1>1, <2>2, <3>2
    <3> QED BY <3>1, <3>2
  <2> HIDE DEF gone
  <2>4. Shrunk(gone)
    BY <1>1, <2>1, <2>2, <2>3, ShrunkBy
  <2> QED BY <2>1, <2>2, <2>4 DEF gone
<1>11. ASSUME NEW b, Balanced(c, b, recvq'[c], sendq'[c]), buf'[c] = b,
              \A d \in C \ {c} : buf'[d] = buf[d]
       PROVE  ChanInvariants'
  <2>1. ASSUME NEW d \in C PROVE Balanced(d, buf'[d], recvq'[d], sendq'[d])
    <3>1. CASE d = c
      BY <1>11, <3>1
    <3>2. CASE d # c
      <4>1. Balanced(d, buf[d], recvq[d], sendq[d]) /\ recvq[d] \in Seq(G) /\ sendq[d] \in Seq(G)
        BY <1>0, AllBalanced DEF Types
      <4> QED BY <1>1, <1>7, <1>11, <3>2, <4>1, BalancedStays
    <3> QED BY <3>1, <3>2
  <2> QED BY <2>1, AllBalanced
<1>12. /\ Balanced(c, buf[c], recvq[c], sendq[c]) /\ cap[c] \in Nat /\ Len(buf[c]) \in Nat
       /\ recvq[c] \in Seq(G) /\ sendq[c] \in Seq(G)
  BY <1>0, AllBalanced DEF Types
<1>14. buf[c] \in Seq(G) /\ Len(buf[c]) <= cap[c] /\ recvq'[c] \in {recvq[c], << >>}
  BY <1>0, <1>1, <1>7 DEF Types
<1>15. ASSUME buf[c] # << >>
       PROVE  /\ Head(buf[c]) \in G /\ Tail(buf[c]) \in Seq(G)
              /\ Len(Tail(buf[c])) = Len(buf[c]) - 1 /\ Len(buf[c]) >= 1
  BY <1>14, <1>15, HeadTailProperties
<1>16. ASSUME NEW b \in Seq(G), buf' = [buf EXCEPT ![c] = b], Len(b) <= cap[c]
       PROVE  /\ buf' \in [C -> Seq(G)] /\ \A d \in C : Len(buf'[d]) <= cap[d]
              /\ buf'[c] = b /\ \A d \in C \ {c} : buf'[d] = buf[d]
  BY <1>0, <1>16 DEF Types
<1>8. CASE Found(sendq[c])
  <2>0. PICK x \in G : x = h
    BY <1>2, <1>8, NobodyWaits
  <2>1. /\ Serve(g, x, s, Received(c, head), Sent(c))
        /\ buf' = IF cap[c] = 0 THEN buf ELSE [buf EXCEPT ![c] = Append(Tail(@), x)]
    BY <1>3, <1>8, <2>0
  <2>2. s \in Case /\ Waiting(x, s) /\ Live(x) /\ (Waiting(x, s)' => op[x].sel)
    <3>1. x \in ToSet(sendq[c]) /\ Live(x) /\ (x \in ToSet(sendq'[c]) => op[x].sel)
      BY <1>2, <1>7, <1>8, <2>0
    <3> QED BY <1>10, <3>1
  <2>3. Shrunk({x}) /\ sendq[c] # << >> /\ ~closed[c]
    <3>1. sendq[c] # << >>
      BY <1>2, <1>8 DEF ToSet
    <3> QED BY <1>0, <1>7, <1>8, <2>0, <3>1 DEF NobodyOnClosed
  <2>4. cap[c] # 0 => buf[c] # << >> /\ Len(buf[c]) = cap[c]
    <3>1. Len(<< >>) = 0
      OBVIOUS
    <3> QED BY <1>12, <1>14, <2>3, <3>1 DEF Balanced
  <2>5. head \in G
    BY <1>13, <1>15, <2>0, <2>4
  <2>6. PICK b \in Seq(G) : /\ buf' = [buf EXCEPT ![c] = b] /\ Len(b) = Len(buf[c])
    <3>1. CASE cap[c] = 0
      <4>1. buf' = [buf EXCEPT ![c] = buf[c]]
        BY <1>0, <2>1, <3>1 DEF Types
      <4> QED BY <1>14, <4>1
    <3>2. CASE cap[c] # 0
      <4>1. /\ Append(Tail(buf[c]), x) \in Seq(G)
            /\ Len(Append(Tail(buf[c]), x)) = Len(Tail(buf[c])) + 1
        BY <1>15, <2>4, <3>2, AppendProperties
      <4>2. Len(Append(Tail(buf[c]), x)) = Len(buf[c])
        BY <1>12, <1>15, <2>4, <3>2, <4>1
      <4> QED BY <2>1, <3>2, <4>1, <4>2
    <3> QED BY <3>1, <3>2
  <2>7. /\ buf' \in [C -> Seq(G)] /\ \A d \in C : Len(buf'[d]) <= cap[d]
        /\ buf'[c] = b /\ \A d \in C \ {c} : buf'[d] = buf[d]
    BY <1>14, <1>16, <2>6
  <2>8. \A d \in C : closed[d] /\ buf[d] = << >> => buf'[d] = << >>
    BY <2>3, <2>7
  <2>9. /\ Kept /\ \A y \in G \ {g} : pc'[y] = pc[y]
    BY <1>4, <2>1, <2>2, <2>3, <2>5, <2>8, ServeKeeps DEF Kept
  <2>10. pc'[g] = "ready"
    BY <1>5, <2>1 DEF Serve, Jump
  <2>11. ChanInvariants'
    <3>1. /\ recvq'[c] \in Seq(G) /\ ToSet(recvq'[c]) \subseteq ToSet(recvq[c])
          /\ sendq'[c] \in Seq(G) /\ ToSet(sendq'[c]) \subseteq ToSet(sendq[c])
      BY <1>1, <1>2, <1>7
    <3>2. Balanced(c, buf[c], recvq'[c], sendq'[c])
      BY <1>12, <3>1, BalancedStays
    <3>3. cap[c] > 0 => recvq[c] = << >> /\ Len(b) = cap[c]
      BY <1>12, <2>4, <2>6 DEF Balanced
    <3>4. Balanced(c, b, recvq'[c], sendq'[c])
      BY <1>12, <1>14, <3>2, <3>3 DEF Balanced
    <3> QED BY <1>11, <2>7, <3>4
  <2> QED BY <2>3, <2>7, <2>9, <2>10, <2>11 DEF Shrunk
<1>9. CASE ~Found(sendq[c])
  <2>1. Shrunk({}) /\ sendq'[c] = << >>
    BY <1>2, <1>7, <1>9
  <2>2. CASE buf[c] # << >>
    <3>1. Complete(g, Received(c, Head(buf[c]))) /\ buf' = [buf EXCEPT ![c] = Tail(buf[c])]
      BY <1>3, <1>9, <2>2
    <3>2. Tail(buf[c]) \in Seq(G) /\ Head(buf[c]) \in G /\ Len(Tail(buf[c])) <= cap[c]
      BY <1>12, <1>14, <1>15, <2>2
    <3>3. /\ buf' \in [C -> Seq(G)] /\ \A d \in C : Len(buf'[d]) <= cap[d]
          /\ buf'[c] = Tail(buf[c]) /\ \A d \in C \ {c} : buf'[d] = buf[d]
      BY <1>16, <3>1, <3>2
    <3>4. \A d \in C : closed[d] /\ buf[d] = << >> => buf'[d] = << >>
      BY <2>2, <3>3
    <3>5. /\ Kept /\ pc'[g] = "return" /\ \A x \in G \ {g} : pc'[x] = pc[x]
      BY <1>4, <2>1, <3>1, <3>2, <3>4, CompleteKeeps DEF Kept
    <3>6. Balanced(c, Tail(buf[c]), recvq'[c], sendq'[c])
      BY <1>12, <1>14, <2>1, <2>2 DEF Balanced
    <3>7. ChanInvariants'
      BY <1>11, <3>3, <3>6
    <3> QED BY <2>1, <3>3, <3>5, <3>7 DEF Shrunk
  <2>3. CASE buf[c] = << >>
    <3>1. Complete(g, FoundClosed(r)) /\ buf' = buf
      BY <1>3, <1>9, <2>3
    <3>2. /\ Kept /\ pc'[g] = "return" /\ \A x \in G \ {g} : pc'[x] = pc[x]
      BY <1>4, <2>1, <3>1, CompleteKeeps DEF Kept
    <3>3. Balanced(c, buf[c], recvq'[c], sendq'[c])
      BY <1>12, <1>14, <2>1, <2>3 DEF Balanced
    <3>4. ChanInvariants'
      BY <1>11, <3>1, <3>3
    <3> QED BY <1>0, <2>1, <3>1, <3>2, <3>4 DEF Types, Shrunk
  <2> QED BY <2>2, <2>3
<1> QED BY <1>8, <1>9

\* A non-blocking operation fails: at that moment none of its cases can proceed.
LEMMA FailKeeps ==
  ASSUME ChanInv, Track, UNCHANGED <<closed, op, looks>>,
         NEW g \in G, pc[g] \in {"start", "pass1"}, \A k \in op[g].cases : ~Can(k),
         ~op[g].block, GiveUp(g)
  PROVE  /\ Kept /\ ChanInvariants' /\ buf' = buf
         /\ recvq' \in [C -> Seq(G)] /\ sendq' \in [C -> Seq(G)]
         /\ \A d \in C : Tight(recvq'[d], op, d, "recv") /\ Tight(sendq'[d], op, d, "send")
         /\ pc'[g] = "return" /\ \A x \in G \ {g} : pc'[x] = pc[x]
<1>0. Types /\ ChanInvariants
  BY DEF ChanInv
<1> DEFINE rq == Purged(recvq, "send", op[g].cases)
           sq == Purged(sendq, "recv", op[g].cases)
<1>1. recvq' = rq /\ sendq' = sq /\ Complete(g, Failed) /\ buf' = buf
  BY DEF GiveUp, Complete
<1>2. /\ rq \in [C -> Seq(G)] /\ sq \in [C -> Seq(G)]
      /\ \A d \in C :
           /\ Tight(rq[d], op, d, "recv")
           /\ Tight(sq[d], op, d, "send")
           /\ ToSet(rq[d]) \subseteq ToSet(recvq[d]) /\ ToSet(sq[d]) \subseteq ToSet(sendq[d])
           /\ \A x \in ToSet(recvq[d]) : Live(x) => x \in ToSet(rq[d])
           /\ \A x \in ToSet(sendq[d]) : Live(x) => x \in ToSet(sq[d])
           /\ rq[d] \in {recvq[d], << >>} /\ sq[d] \in {sendq[d], << >>}
           /\ [c |-> d, dir |-> "send"] \in op[g].cases =>
                rq[d] = << >> /\ ~closed[d] /\ ~(Len(buf[d]) < cap[d])
           /\ [c |-> d, dir |-> "recv"] \in op[g].cases =>
                sq[d] = << >> /\ ~closed[d] /\ buf[d] = << >>
  BY GivenUp
<1> HIDE DEF rq, sq
<1>3. Shrunk({})
  BY <1>1, <1>2, ShrunkBy
<1>4. op' = op /\ op' \in [G -> Ops \cup {NoOp}]
  BY <1>0 DEF Types
<1>5. NoneReady(g)'
  <2> SUFFICES ASSUME NEW k \in op[g].cases PROVE ~(Can(k)')
    BY <1>4 DEF NoneReady
  <2>1. k \in Case /\ k.c \in C /\ k = [c |-> k.c, dir |-> k.dir] /\ k.dir \in {"send", "recv"}
    BY <1>0, OpIs DEF Case
  <2>2. Len(<< >>) = 0
    OBVIOUS
  <2>3. CASE k.dir = "send"
    <3>1. recvq'[k.c] = << >> /\ ~closed'[k.c] /\ ~(Len(buf'[k.c]) < cap[k.c])
      BY <1>1, <1>2, <2>1, <2>3
    <3> QED BY <2>2, <2>3, <3>1 DEF Can, CanSend, Found, FirstLive, SelectInSeq
  <2>4. CASE k.dir = "recv"
    <3>1. sendq'[k.c] = << >> /\ ~closed'[k.c] /\ buf'[k.c] = << >>
      BY <1>1, <1>2, <2>1, <2>4
    <3> QED BY <2>2, <2>4, <3>1 DEF Can, CanRecv, Found, FirstLive, SelectInSeq
  <2> QED BY <2>1, <2>3, <2>4
<1>6. unready'[g]
  BY <1>0, <1>4, <1>5, TrackKeeps
<1>7. Failed \in Results /\ Failed.how = "failed"
  BY DEF Failed, Results
<1>8. /\ Kept /\ pc'[g] = "return" /\ \A x \in G \ {g} : pc'[x] = pc[x]
  BY <1>1, <1>3, <1>6, <1>7, CompleteKeeps DEF Kept
<1>9. ChanInvariants'
  <2>1. ASSUME NEW d \in C PROVE Balanced(d, buf'[d], recvq'[d], sendq'[d])
    <3>1. Balanced(d, buf[d], recvq[d], sendq[d]) /\ recvq[d] \in Seq(G) /\ sendq[d] \in Seq(G)
      BY <1>0, AllBalanced DEF Types
    <3> QED BY <1>1, <1>2, <3>1, BalancedStays
  <2> QED BY <1>4, <2>1, AllBalanced
<1> QED BY <1>1, <1>2, <1>8, <1>9

\* g waits in the queues of all its cases.
LEMMA ParkKeeps ==
  ASSUME ChanInv, Track, UNCHANGED <<closed, op, looks>>,
         NEW g \in G, pc[g] \in {"start", "pass1"}, \A k \in op[g].cases : ~Can(k),
         op[g].block, GiveUp(g)
  PROVE  /\ Kept /\ ChanInvariants' /\ buf' = buf
         /\ recvq' \in [C -> Seq(G)] /\ sendq' \in [C -> Seq(G)]
         /\ \A d \in C : Tight(recvq'[d], op, d, "recv") /\ Tight(sendq'[d], op, d, "send")
         /\ pc'[g] = "parked" /\ \A x \in G \ {g} : pc'[x] = pc[x]
<1>0. /\ Types /\ Placed /\ Outcomes /\ Queued /\ Handed /\ Parked /\ NobodyOnClosed
      /\ ByClose /\ FastPath /\ ChanInvariants
  BY DEF ChanInv
<1> DEFINE rq == Purged(recvq, "send", op[g].cases)
           sq == Purged(sendq, "recv", op[g].cases)
           ks == op[g].cases
           r(d) == [c |-> d, dir |-> "recv"]
           s(d) == [c |-> d, dir |-> "send"]
<1>1. /\ recvq' = [d \in C |-> IF r(d) \in ks THEN rq[d] \o Copies(g, op[g].times[r(d)]) ELSE rq[d]]
      /\ sendq' = [d \in C |-> IF s(d) \in ks THEN sq[d] \o Copies(g, op[g].times[s(d)]) ELSE sq[d]]
      /\ pc' = [pc EXCEPT ![g] = "parked"]
      /\ UNCHANGED <<buf, selectDone, param, toReady, res>>
  BY DEF GiveUp, Jump, Copies
<1>2. /\ rq \in [C -> Seq(G)] /\ sq \in [C -> Seq(G)]
      /\ \A d \in C :
           /\ Tight(rq[d], op, d, "recv")
           /\ Tight(sq[d], op, d, "send")
           /\ ToSet(rq[d]) \subseteq ToSet(recvq[d]) /\ ToSet(sq[d]) \subseteq ToSet(sendq[d])
           /\ \A x \in ToSet(recvq[d]) : Live(x) => x \in ToSet(rq[d])
           /\ \A x \in ToSet(sendq[d]) : Live(x) => x \in ToSet(sq[d])
           /\ rq[d] \in {recvq[d], << >>} /\ sq[d] \in {sendq[d], << >>}
           /\ s(d) \in ks => rq[d] = << >> /\ ~closed[d] /\ ~(Len(buf[d]) < cap[d])
           /\ r(d) \in ks => sq[d] = << >> /\ ~closed[d] /\ buf[d] = << >>
  BY GivenUp
<1>3. \A d \in C :
        /\ r(d) \in Case /\ s(d) \in Case /\ r(d) # s(d)
        /\ \A x : (Waiting(x, r(d)) <=> x \in ToSet(recvq[d])) /\ (Waiting(x, s(d)) <=> x \in ToSet(sendq[d]))
        /\ \A x : /\ Waiting(x, r(d))' <=> x \in ToSet(recvq'[d])
                  /\ Waiting(x, s(d))' <=> x \in ToSet(sendq'[d])
  BY Cases
<1>4. \A k \in Case : k.c \in C /\ (k = r(k.c) \/ k = s(k.c))
  BY DEF Case
<1> HIDE DEF rq, sq
<1>5. \A k \in Case : ~Waiting(g, k)
  BY <1>0 DEF Queued
<1>6. ASSUME NEW d \in C
      PROVE  /\ recvq'[d] \in Seq(G) /\ Tight(recvq'[d], op, d, "recv")
             /\ sendq'[d] \in Seq(G) /\ Tight(sendq'[d], op, d, "send")
             /\ r(d) \in ks => ToSet(recvq'[d]) = ToSet(rq[d]) \cup {g}
             /\ s(d) \in ks => ToSet(sendq'[d]) = ToSet(sq[d]) \cup {g}
             /\ r(d) \notin ks => recvq'[d] = rq[d]
             /\ s(d) \notin ks => sendq'[d] = sq[d]
  <2>1. g \notin ToSet(rq[d]) /\ g \notin ToSet(sq[d])
    BY <1>2, <1>3, <1>5
  <2>2. rq[d] \in Seq(G) /\ sq[d] \in Seq(G) /\ Tight(rq[d], op, d, "recv")
                                             /\ Tight(sq[d], op, d, "send")
    BY <1>2
  <2>3. /\ recvq'[d] = IF r(d) \in ks THEN rq[d] \o Copies(g, op[g].times[r(d)]) ELSE rq[d]
        /\ sendq'[d] = IF s(d) \in ks THEN sq[d] \o Copies(g, op[g].times[s(d)]) ELSE sq[d]
    BY <1>1
  <2>4. LET q == rq[d] \o Copies(g, op[g].times[r(d)])
        IN  q \in Seq(G) /\ ToSet(q) = ToSet(rq[d]) \cup {g} /\ Tight(q, op, d, "recv")
    BY <1>0, <2>1, <2>2, PushBack
  <2>5. LET q == sq[d] \o Copies(g, op[g].times[s(d)])
        IN  q \in Seq(G) /\ ToSet(q) = ToSet(sq[d]) \cup {g} /\ Tight(q, op, d, "send")
    BY <1>0, <2>1, <2>2, PushBack
  <2> HIDE DEF ks, r, s
  <2> QED BY <2>2, <2>3, <2>4, <2>5
<1> HIDE DEF r, s
<1>7. recvq' \in [C -> Seq(G)] /\ sendq' \in [C -> Seq(G)]
  <2> HIDE DEF ks
  <2>1. /\ recvq' = [d \in C |-> recvq'[d]]
        /\ sendq' = [d \in C |-> sendq'[d]]
    BY <1>1
  <2> QED BY <1>6, <2>1
<1>8. ASSUME NEW x \in G, NEW k \in Case
      PROVE  /\ Waiting(x, k)' => Waiting(x, k) \/ (x = g /\ k \in ks)
             /\ Waiting(x, k) /\ Live(x) => Waiting(x, k)'
             /\ x = g /\ k \in ks => Waiting(x, k)'
  <2> HIDE DEF ks
  <2>1. PICK d \in C : k = r(d) \/ k = s(d)
    BY <1>4
  <2>2. CASE k = r(d)
    <3>1. /\ Waiting(x, k) <=> x \in ToSet(recvq[d])
          /\ Waiting(x, k)' <=> x \in ToSet(recvq'[d])
      BY <1>3, <2>2
    <3>2. ToSet(rq[d]) \subseteq ToSet(recvq[d]) /\ (x \in ToSet(recvq[d]) /\ Live(x) => x \in ToSet(rq[d]))
      BY <1>2
    <3>3. /\ k \in ks => ToSet(recvq'[d]) = ToSet(rq[d]) \cup {g}
          /\ k \notin ks => recvq'[d] = rq[d]
      BY <1>6, <2>2
    <3> QED BY <3>1, <3>2, <3>3
  <2>3. CASE k = s(d)
    <3>1. /\ Waiting(x, k) <=> x \in ToSet(sendq[d])
          /\ Waiting(x, k)' <=> x \in ToSet(sendq'[d])
      BY <1>3, <2>3
    <3>2. ToSet(sq[d]) \subseteq ToSet(sendq[d]) /\ (x \in ToSet(sendq[d]) /\ Live(x) => x \in ToSet(sq[d]))
      BY <1>2
    <3>3. /\ k \in ks => ToSet(sendq'[d]) = ToSet(sq[d]) \cup {g}
          /\ k \notin ks => sendq'[d] = sq[d]
      BY <1>6, <2>3
    <3> QED BY <3>1, <3>2, <3>3
  <2> QED BY <2>1, <2>2, <2>3
<1>9. /\ pc' \in [G -> Phases] /\ pc'[g] = "parked" /\ \A x \in G \ {g} : pc'[x] = pc[x]
      /\ op[g] # NoOp /\ ~selectDone[g] /\ param[g] = {} /\ res[g] = NoRes /\ ~InHand(g)
  <2>1. /\ pc' \in [G -> Phases] /\ pc'[g] = "parked" /\ \A x \in G \ {g} : pc'[x] = pc[x]
    BY <1>0, <1>1 DEF Types, Phases
  <2>2. op[g] # NoOp /\ ~selectDone[g] /\ param[g] = {} /\ res[g] = NoRes
    BY <1>0 DEF Placed, Asleep, Outcomes, Fresh
  <2>3. ~InHand(g)
    BY <1>0 DEF Handed, InHand
  <2> QED BY <2>1, <2>2, <2>3
<1>10. /\ op' = op /\ closed' = closed /\ looks' = looks /\ buf' = buf
       /\ selectDone' = selectDone /\ param' = param /\ toReady' = toReady /\ res' = res
  BY <1>1
<1>11. \A x \in G : TheCase(x)' = TheCase(x) /\ (InHand(x)' <=> InHand(x)) /\ (Live(x)' <=> Live(x))
  BY <1>10 DEF TheCase, InHand, Live
<1>12. /\ unready' \in [G -> BOOLEAN]
       /\ \A x \in G : ~op[x].block /\ unready[x] => unready'[x]
  <2>1. op' \in [G -> Ops \cup {NoOp}]
    BY <1>0, <1>10 DEF Types
  <2> QED BY <1>0, <1>10, <2>1, TrackKeeps
<1>13. Placed'
  BY <1>0, <1>9, <1>10 DEF Placed, Asleep
<1>14. Outcomes'
  <2> SUFFICES ASSUME NEW x \in G
               PROVE  /\ pc'[x] \in Fresh => res[x] = NoRes
                      /\ pc'[x] \in Asleep => (res[x] = NoRes <=> param[x] = {})
                      /\ pc'[x] = "return" => res[x] # NoRes
                      /\ pc'[x] = "ready" => (res[x] = NoRes <=> op[x] = NoOp)
                      /\ res[x].how = "failed" =>
                           /\ pc'[x] = "return" /\ ~op[x].block
                           /\ op[x].sel \/ TheCase(x).dir = "recv" => unready'[x]
    BY <1>10, <1>11 DEF Outcomes
  <2>1. CASE x = g
    BY <1>9, <2>1 DEF Fresh, Asleep, NoRes
  <2>2. CASE x # g
    BY <1>0, <1>9, <1>12, <2>2 DEF Outcomes
  <2> QED BY <2>1, <2>2
<1>15. Queued'
  <2> SUFFICES ASSUME NEW x \in G, NEW k \in Case, Waiting(x, k)'
               PROVE  /\ k \in op[x].cases /\ (k \in param[x] => op[x].sel)
                      /\ pc'[x] \in {"parked", "lock3", "pass3"}
                      /\ Live(x) => pc'[x] = "parked" /\ param[x] = {} /\ ~InHand(x)
    BY <1>10, <1>11 DEF Queued
  <2>1. CASE x = g
    BY <1>5, <1>8, <1>9, <2>1
  <2>2. CASE x # g
    BY <1>0, <1>8, <1>9, <2>2 DEF Queued
  <2> QED BY <2>1, <2>2
<1>16. Handed'
  BY <1>0, <1>9, <1>10 DEF Handed
<1>17. Parked'
  <2> SUFFICES ASSUME NEW x \in G, pc'[x] = "parked", ~InHand(x)
               PROVE  ~selectDone[x] /\ param[x] = {} /\ \A k \in op[x].cases : Waiting(x, k)'
    BY <1>10, <1>11 DEF Parked
  <2>0. op[x].cases \subseteq Case
    BY <1>0, OpIs
  <2>1. CASE x = g
    BY <1>8, <1>9, <2>0, <2>1
  <2>2. CASE x # g
    <3>1. ~selectDone[x] /\ param[x] = {} /\ \A k \in op[x].cases : Waiting(x, k)
      BY <1>0, <1>9, <2>2 DEF Parked
    <3>2. Live(x)
      BY <3>1 DEF Live
    <3> QED BY <1>8, <2>0, <3>1, <3>2
  <2> QED BY <2>1, <2>2
<1>18. NobodyOnClosed'
  <2> SUFFICES ASSUME NEW d \in C, closed[d] PROVE recvq'[d] = << >> /\ sendq'[d] = << >>
    BY <1>10 DEF NobodyOnClosed
  <2> QED BY <1>0, <1>2, <1>6 DEF NobodyOnClosed
<1>19. ByClose'
  <2> SUFFICES ASSUME NEW x \in G, pc'[x] = "woken" \/ (pc'[x] = "parked" /\ InHand(x)),
                      ~op[x].sel, param[x] = {}
               PROVE  /\ closed[TheCase(x).c]
                      /\ TheCase(x).dir = "recv" => buf[TheCase(x).c] = << >>
    BY <1>10, <1>11 DEF ByClose
  <2>1. x # g /\ (pc[x] = "woken" \/ (pc[x] = "parked" /\ InHand(x)))
    BY <1>9
  <2> QED BY <1>0, <2>1 DEF ByClose
<1>20. FastPath'
  <2> SUFFICES ASSUME NEW x \in G, pc'[x] = "fast"
               PROVE  /\ ~op[x].block
                      /\ TheCase(x).dir = "recv" =>
                           \/ looks[x] = <<"ready", "closed">>
                           \/ looks[x] = <<"closed">> /\ (closed[TheCase(x).c] \/ unready'[x])
    BY <1>10, <1>11 DEF FastPath
  <2>1. pc[x] = "fast"
    BY <1>9
  <2> QED BY <1>0, <1>12, <2>1 DEF FastPath
<1>21. ChanInvariants'
  <2>1. ASSUME NEW d \in C PROVE Balanced(d, buf[d], recvq'[d], sendq'[d])
    <3>1. Balanced(d, buf[d], recvq[d], sendq[d]) /\ recvq[d] \in Seq(G) /\ sendq[d] \in Seq(G)
      BY <1>0, AllBalanced DEF Types
    <3>2. CASE r(d) \notin ks /\ s(d) \notin ks
      BY <1>2, <1>6, <3>1, <3>2, BalancedStays
    <3>3. CASE r(d) \notin ks /\ s(d) \in ks
      BY <1>2, <1>6, <3>3 DEF Balanced
    <3>4. CASE r(d) \in ks /\ s(d) \notin ks
      BY <1>2, <1>6, <3>4 DEF Balanced
    <3>5. CASE r(d) \in ks /\ s(d) \in ks
      <4>1. ToSet(sendq'[d]) \cup ToSet(recvq'[d]) = {g}
        <5>1. rq[d] = << >> /\ sq[d] = << >> /\ ToSet(<< >>) = {}
          BY <1>2, <3>5 DEF ToSet
        <5> QED BY <1>6, <3>5, <5>1
      <4>2. op[g].sel
        <5>1. ~op[g].sel => \E k \in Case : op[g].cases = {k}
          BY <1>0, <1>9, OpIs
        <5> QED BY <1>3, <3>5, <5>1
      <4>3. cap[d] = 0
        <5>1. ~(Len(buf[d]) < cap[d]) /\ buf[d] = << >> /\ cap[d] \in Nat
          BY <1>2, <3>5, CapNat
        <5> QED BY <5>1
      <4> QED BY <4>1, <4>2, <4>3 DEF Balanced
    <3> QED BY <3>2, <3>3, <3>4, <3>5
  <2> QED BY <1>10, <2>1, AllBalanced
<1>22. /\ selectDone' \in [G -> BOOLEAN] /\ param' \in [G -> SUBSET Case]
       /\ res' \in [G -> Results] /\ toReady' \in [G -> SUBSET G]
  BY <1>0, <1>10 DEF Types
<1> QED
  BY <1>6, <1>7, <1>9, <1>10, <1>12, <1>13, <1>14, <1>15, <1>16, <1>17, <1>18, <1>19, <1>20,
     <1>21, <1>22 DEF Kept

-----------------------------------------------------------------------------
(* The inductive invariant is preserved by every action. *)

\* An operation looks at its cases under the locks: the first that can proceed does,
\* or the operation fails or parks.
LEMMA CasesKeep ==
  ASSUME ChanInv, Track, UNCHANGED <<closed, op, looks>>,
         NEW g \in G, pc[g] \in {"start", "pass1"},
         \/ \E k \in op[g].cases : \E seen : Can(k) /\ (\A j \in seen : ~Can(j)) /\ Do(g, k, seen)
         \/ (\A k \in op[g].cases : ~Can(k)) /\ GiveUp(g),
         \/ lk' = lk /\ pc[g] = "start"
         \/ lk' = Unlocked(g)
  PROVE  ChanInv'
<1>0. Types /\ op' = op /\ looks' = looks
  BY DEF ChanInv
<1>1. /\ Kept /\ ChanInvariants'
      /\ buf' \in [C -> Seq(G)] /\ \A d \in C : Len(buf'[d]) <= cap[d]
      /\ recvq' \in [C -> Seq(G)] /\ sendq' \in [C -> Seq(G)]
      /\ \A d \in C : Tight(recvq'[d], op, d, "recv") /\ Tight(sendq'[d], op, d, "send")
      /\ pc'[g] \in {"ready", "return", "parked"} /\ \A x \in G \ {g} : pc'[x] = pc[x]
  <2>1. ASSUME NEW k \in op[g].cases, NEW seen, Can(k), \A j \in seen : ~Can(j), Do(g, k, seen)
        PROVE  <1>1!:
    <3>1. k.c \in C
      BY <1>0, OpIs DEF Case
    <3>2. CASE k.dir = "send"
      <4>1. CanSend(k.c) /\ DoSend(g, k.c, seen)
        BY <2>1, <3>2 DEF Can, Do
      <4> QED BY <2>1, <3>1, <4>1, SendKeeps
    <3>3. CASE k.dir # "send"
      <4>1. CanRecv(k.c) /\ DoRecv(g, k.c, seen)
        BY <2>1, <3>3 DEF Can, Do
      <4> QED BY <2>1, <3>1, <4>1, RecvKeeps
    <3> QED BY <3>2, <3>3
  <2>2. ASSUME \A k \in op[g].cases : ~Can(k), GiveUp(g) PROVE <1>1!:
    <3>1. buf \in [C -> Seq(G)] /\ \A d \in C : Len(buf[d]) <= cap[d]
      BY <1>0 DEF Types
    <3>2. op[g].block \in BOOLEAN
      BY <1>0, OpIs
    <3>3. CASE op[g].block
      BY <2>2, <3>1, <3>3, ParkKeeps
    <3>4. CASE ~op[g].block
      BY <2>2, <3>1, <3>4, FailKeeps
    <3> QED BY <3>2, <3>3, <3>4
  <2> QED BY <2>1, <2>2
<1>2. Locks' /\ lk' \in [C -> SUBSET G]
  BY <1>0, <1>1, LocksKept DEF LockPhases
<1>3. Types'
  BY <1>0, <1>1, <1>2 DEF Types, Kept
<1>4. Looking'
  BY <1>0, <1>1 DEF ChanInv, Looking
<1> QED BY <1>1, <1>2, <1>3, <1>4 DEF ChanInv, Kept

LEMMA LockedKeeps ==
  ASSUME ChanInv, Track, NEW g \in G, Locked(g)
  PROVE  ChanInv'
<1>1. /\ pc[g] = "start" /\ UNCHANGED <<closed, op, looks>> /\ lk' = lk
      /\ IF Can(TheCase(g)) THEN Do(g, TheCase(g), {}) ELSE GiveUp(g)
  BY DEF Locked
<1>2. op[g].cases = {TheCase(g)}
  <2>1. op[g] # NoOp /\ ~op[g].sel /\ Types
    BY <1>1 DEF ChanInv, Placed
  <2> QED BY <2>1, OpIs
<1>3. \/ \E k \in op[g].cases : \E seen : Can(k) /\ (\A j \in seen : ~Can(j)) /\ Do(g, k, seen)
      \/ (\A k \in op[g].cases : ~Can(k)) /\ GiveUp(g)
  <2>1. CASE Can(TheCase(g))
    <3>1. Do(g, TheCase(g), {}) /\ \A j \in {} : ~Can(j)
      BY <1>1, <2>1
    <3> QED BY <1>2, <2>1, <3>1
  <2>2. CASE ~Can(TheCase(g))
    BY <1>1, <1>2, <2>2
  <2> QED BY <2>1, <2>2
<1> QED BY <1>1, <1>3, CasesKeep

LEMMA SelPass1Keeps ==
  ASSUME ChanInv, Track, NEW g \in G, SelPass1(g)
  PROVE  ChanInv'
<1> DEFINE ready == {k \in op[g].cases : Can(k)}
<1>1. /\ pc[g] = "pass1" /\ UNCHANGED <<closed, op, looks>> /\ lk' = Unlocked(g)
      /\ IF ready # {}
         THEN \E k \in ready, seen \in SUBSET (op[g].cases \ ready) : Do(g, k, seen)
         ELSE GiveUp(g)
  BY DEF SelPass1
<1>2. \/ \E k \in op[g].cases : \E seen : Can(k) /\ (\A j \in seen : ~Can(j)) /\ Do(g, k, seen)
      \/ (\A k \in op[g].cases : ~Can(k)) /\ GiveUp(g)
  <2>1. CASE ready # {}
    <3>1. PICK k, seen : k \in ready /\ seen \subseteq (op[g].cases \ ready) /\ Do(g, k, seen)
      BY <1>1, <2>1
    <3>2. k \in op[g].cases /\ Can(k) /\ \A j \in seen : ~Can(j)
      BY <3>1
    <3> QED BY <3>1, <3>2
  <2>2. CASE ready = {}
    BY <1>1, <2>2
  <2> QED BY <2>1, <2>2
<1> QED BY <1>1, <1>2, CasesKeep

\* The loads of the fast path.
LEMMA LookKeeps ==
  ASSUME ChanInv, Track, NEW g \in G, Look(g)
  PROVE  ChanInv'
<1>0. /\ Types /\ Placed /\ Outcomes /\ Queued /\ Handed /\ Parked /\ NobodyOnClosed
      /\ ByClose /\ Locks /\ FastPath /\ Looking /\ ChanInvariants
  BY DEF ChanInv
<1>1. /\ pc[g] = "fast"
      /\ UNCHANGED <<buf, closed, recvq, sendq, lk, op, selectDone, param, toReady>>
  BY DEF Look
<1> DEFINE k == TheCase(g)
           what == Head(looks[g])
<1>2. /\ looks[g] \in Seq({"closed", "ready"}) /\ looks[g] # << >> /\ Len(looks[g]) <= 2
      /\ op[g] # NoOp /\ ~op[g].sel /\ ~op[g].block /\ k \in Case /\ k.c \in C
      /\ op[g].cases = {k} /\ k.dir \in {"send", "recv"} /\ res[g] = NoRes
  <2>1. looks[g] \in Seq({"closed", "ready"}) /\ looks[g] # << >> /\ Len(looks[g]) <= 2
    BY <1>0, <1>1 DEF Types, Looking
  <2>2. op[g] # NoOp /\ ~op[g].sel /\ ~op[g].block /\ res[g] = NoRes
    BY <1>0, <1>1 DEF Placed, FastPath, Outcomes, Fresh
  <2> QED BY <1>0, <2>1, <2>2, OpIs
<1>3. /\ Tail(looks[g]) \in Seq({"closed", "ready"})
      /\ Len(Tail(looks[g])) = Len(looks[g]) - 1 /\ Len(looks[g]) >= 1 /\ Len(looks[g]) \in Nat
  BY <1>2, HeadTailProperties
<1>4. PICK l, p, r :
        /\ looks' = [looks EXCEPT ![g] = l] /\ l \in Seq({"closed", "ready"}) /\ Len(l) <= 2
        /\ pc' = [pc EXCEPT ![g] = p] /\ res' = [res EXCEPT ![g] = r]
        /\ \/ p = "return" /\ r = Failed /\ Unpromising(k, what) /\ Len(looks[g]) = 1
           \/ p = "fast" /\ r = NoRes /\ Unpromising(k, what) /\ Len(looks[g]) # 1 /\ l = Tail(looks[g])
           \/ p = "start" /\ r = NoRes
  <2>1. CASE Unpromising(k, what) /\ Len(looks[g]) = 1
    <3>1. /\ looks' = [looks EXCEPT ![g] = Tail(looks[g])] /\ pc' = [pc EXCEPT ![g] = "return"]
          /\ res' = [res EXCEPT ![g] = Failed]
      BY <2>1 DEF Look, Jump
    <3>2. Len(Tail(looks[g])) <= 2
      BY <1>2, <1>3
    <3> QED BY <1>3, <2>1, <3>1, <3>2
  <2>2. CASE Unpromising(k, what) /\ Len(looks[g]) # 1
    <3>1. looks' = [looks EXCEPT ![g] = Tail(looks[g])] /\ pc' = pc /\ res' = res
      BY <2>2 DEF Look
    <3>2. pc' = [pc EXCEPT ![g] = "fast"] /\ res' = [res EXCEPT ![g] = NoRes]
      BY <1>0, <1>1, <1>2, <3>1 DEF Types
    <3>3. Len(Tail(looks[g])) <= 2
      BY <1>2, <1>3
    <3> QED BY <1>3, <2>2, <3>1, <3>2, <3>3
  <2>3. CASE ~Unpromising(k, what)
    <3>1. /\ looks' = [looks EXCEPT ![g] = << >>] /\ pc' = [pc EXCEPT ![g] = "start"]
          /\ res' = res
      BY <2>3 DEF Look, Jump
    <3>2. res' = [res EXCEPT ![g] = NoRes]
      BY <1>0, <1>2, <3>1 DEF Types
    <3>3. << >> \in Seq({"closed", "ready"}) /\ Len(<< >>) <= 2
      OBVIOUS
    <3> QED BY <3>1, <3>2, <3>3
  <2> QED BY <2>1, <2>2, <2>3
<1> HIDE DEF k, what
<1>5. /\ looks' \in [G -> Seq({"closed", "ready"})] /\ looks'[g] = l
      /\ \A x \in G \ {g} : looks'[x] = looks[x]
      /\ pc' \in [G -> Phases] /\ pc'[g] = p /\ \A x \in G \ {g} : pc'[x] = pc[x]
      /\ res' \in [G -> Results] /\ res'[g] = r /\ \A x \in G \ {g} : res'[x] = res[x]
      /\ p \in {"return", "fast", "start"} /\ r \in {Failed, NoRes} /\ Failed # NoRes
      /\ ~selectDone[g] /\ param[g] = {}
  <2>1. p \in {"return", "fast", "start"} /\ r \in {Failed, NoRes} /\ Failed # NoRes
        /\ r \in Results /\ p \in Phases
    BY <1>4 DEF Failed, NoRes, Results, Phases
  <2>2. looks' \in [G -> Seq({"closed", "ready"})] /\ looks'[g] = l
        /\ \A x \in G \ {g} : looks'[x] = looks[x]
    BY <1>0, <1>4 DEF Types
  <2>3. pc' \in [G -> Phases] /\ pc'[g] = p /\ \A x \in G \ {g} : pc'[x] = pc[x]
    BY <1>0, <1>4, <2>1 DEF Types
  <2>4. res' \in [G -> Results] /\ res'[g] = r /\ \A x \in G \ {g} : res'[x] = res[x]
    BY <1>0, <1>4, <2>1 DEF Types
  <2>5. ~selectDone[g] /\ param[g] = {}
    BY <1>0, <1>1 DEF Placed, Asleep
  <2> QED BY <2>1, <2>2, <2>3, <2>4, <2>5
<1>6. /\ op' = op /\ closed' = closed /\ buf' = buf /\ recvq' = recvq /\ sendq' = sendq
      /\ selectDone' = selectDone /\ param' = param /\ toReady' = toReady /\ lk' = lk
  BY <1>1
<1>7. /\ \A x \in G : TheCase(x)' = TheCase(x) /\ (InHand(x)' <=> InHand(x)) /\ (Live(x)' <=> Live(x))
      /\ \A x, j : Waiting(x, j)' <=> Waiting(x, j)
  BY <1>6 DEF TheCase, InHand, Live, Waiting, Queue
<1>8. /\ unready' \in [G -> BOOLEAN]
      /\ \A x \in G : ~op[x].block /\ unready[x] => unready'[x]
      /\ NoneReady(g)' => unready'[g]
  <2>1. op' \in [G -> Ops \cup {NoOp}]
    BY <1>0, <1>6 DEF Types
  <2> QED BY <1>0, <1>2, <1>6, <2>1, TrackKeeps
<1>9. Types'
  <2>1. \A x \in G : Len(looks'[x]) <= 2
    BY <1>0, <1>4, <1>5 DEF Types
  <2> QED BY <1>0, <1>5, <1>6, <1>8, <2>1 DEF Types
<1>10. Placed'
  BY <1>0, <1>2, <1>5, <1>6 DEF Placed, Asleep
<1>11. k.dir = "recv" => \/ looks[g] = <<"ready", "closed">>
                         \/ looks[g] = <<"closed">> /\ (closed[k.c] \/ unready[g])
  <2>1. TheCase(g).dir = "recv" =>
          \/ looks[g] = <<"ready", "closed">>
          \/ looks[g] = <<"closed">> /\ (closed[TheCase(g).c] \/ unready[g])
    BY <1>0, <1>1 DEF FastPath
  <2> QED BY <2>1 DEF k
<1>12. Outcomes'
  <2> SUFFICES ASSUME NEW x \in G
               PROVE  /\ pc'[x] \in Fresh => res'[x] = NoRes
                      /\ pc'[x] \in Asleep => (res'[x] = NoRes <=> param[x] = {})
                      /\ pc'[x] = "return" => res'[x] # NoRes
                      /\ pc'[x] = "ready" => (res'[x] = NoRes <=> op[x] = NoOp)
                      /\ res'[x].how = "failed" =>
                           /\ pc'[x] = "return" /\ ~op[x].block
                           /\ op[x].sel \/ TheCase(x).dir = "recv" => unready'[x]
    BY <1>6, <1>7 DEF Outcomes
  <2>1. CASE x = g /\ p = "return"
    <3>1. r = Failed /\ Unpromising(k, what) /\ Len(looks[g]) = 1
      BY <1>4, <2>1
    <3>2. k.dir = "recv" => unready[g]
      <4>1. Len(<<"ready", "closed">>) = 2 /\ Head(<<"closed">>) = "closed"
        OBVIOUS
      <4>2. k.dir = "recv" => looks[g] = <<"closed">> /\ (closed[k.c] \/ unready[g])
        BY <1>11, <3>1, <4>1
      <4>3. k.dir = "recv" => ~closed[k.c]
        BY <3>1, <4>1, <4>2 DEF Unpromising, what
      <4> QED BY <4>2, <4>3
    <3> QED BY <1>2, <1>5, <1>8, <2>1, <3>1, <3>2 DEF Fresh, Asleep, k
  <2>2. CASE x = g /\ p # "return"
    BY <1>2, <1>4, <1>5, <2>2 DEF Fresh, Asleep, NoRes
  <2>3. CASE x # g
    <3>1. pc'[x] = pc[x] /\ res'[x] = res[x] /\ (~op[x].block /\ unready[x] => unready'[x])
      BY <1>5, <1>8, <2>3
    <3>2. /\ pc[x] \in Fresh => res[x] = NoRes
          /\ pc[x] \in Asleep => (res[x] = NoRes <=> param[x] = {})
          /\ pc[x] = "return" => res[x] # NoRes
          /\ pc[x] = "ready" => (res[x] = NoRes <=> op[x] = NoOp)
      BY <1>0 DEF Outcomes
    <3>3. res[x].how = "failed" =>
            /\ pc[x] = "return" /\ ~op[x].block
            /\ op[x].sel \/ TheCase(x).dir = "recv" => unready[x]
      BY <1>0 DEF Outcomes
    <3>4. res'[x].how = "failed" =>
            /\ pc'[x] = "return" /\ ~op[x].block
            /\ op[x].sel \/ TheCase(x).dir = "recv" => unready'[x]
      BY <3>1, <3>3
    <3>5. /\ pc'[x] \in Fresh => res'[x] = NoRes
          /\ pc'[x] \in Asleep => (res'[x] = NoRes <=> param[x] = {})
          /\ pc'[x] = "return" => res'[x] # NoRes
          /\ pc'[x] = "ready" => (res'[x] = NoRes <=> op[x] = NoOp)
      BY <3>1, <3>2
    <3> QED BY <3>4, <3>5
  <2> QED BY <2>1, <2>2, <2>3
<1>13. Queued'
  <2> SUFFICES ASSUME NEW x \in G, NEW j \in Case, Waiting(x, j)
               PROVE  /\ j \in op[x].cases /\ (j \in param[x] => op[x].sel)
                      /\ pc'[x] \in {"parked", "lock3", "pass3"}
                      /\ Live(x) => pc'[x] = "parked" /\ param[x] = {} /\ ~InHand(x)
    BY <1>6, <1>7 DEF Queued
  <2>1. x # g
    BY <1>0, <1>1 DEF Queued
  <2> QED BY <1>0, <1>5, <2>1 DEF Queued
<1>14. Handed'
  BY <1>0, <1>1, <1>5, <1>6 DEF Handed
<1>15. Parked'
  <2> SUFFICES ASSUME NEW x \in G, pc'[x] = "parked", ~InHand(x)
               PROVE  ~selectDone[x] /\ param[x] = {} /\ \A j \in op[x].cases : Waiting(x, j)
    BY <1>6, <1>7 DEF Parked
  <2>1. x # g
    BY <1>5
  <2> QED BY <1>0, <1>5, <2>1 DEF Parked
<1>16. NobodyOnClosed' /\ ChanInvariants'
  BY <1>0, <1>6 DEF NobodyOnClosed, ChanInvariants
<1>17. ByClose'
  <2> SUFFICES ASSUME NEW x \in G, pc'[x] = "woken" \/ (pc'[x] = "parked" /\ InHand(x)),
                      ~op[x].sel, param[x] = {}
               PROVE  /\ closed[TheCase(x).c]
                      /\ TheCase(x).dir = "recv" => buf[TheCase(x).c] = << >>
    BY <1>6, <1>7 DEF ByClose
  <2>1. x # g /\ (pc[x] = "woken" \/ (pc[x] = "parked" /\ InHand(x)))
    BY <1>5
  <2> QED BY <1>0, <2>1 DEF ByClose
<1>18. Locks'
  BY <1>0, <1>1, <1>5, <1>6, LocksKept DEF LockPhases
<1>19. ASSUME p = "fast", k.dir = "recv"
       PROVE  l = <<"closed">> /\ (closed[k.c] \/ unready'[g])
  <2>1. Unpromising(k, what) /\ Len(looks[g]) # 1 /\ l = Tail(looks[g])
    BY <1>4, <1>19
  <2>2. looks[g] = <<"ready", "closed">>
    <3>1. Len(<<"closed">>) = 1
      OBVIOUS
    <3> QED BY <1>11, <1>19, <2>1, <3>1
  <2>3. Head(<<"ready", "closed">>) = "ready" /\ Tail(<<"ready", "closed">>) = <<"closed">>
    OBVIOUS
  <2>4. IF cap[k.c] = 0 THEN sendq[k.c] = << >> ELSE buf[k.c] = << >>
    BY <1>19, <2>1, <2>2, <2>3 DEF Unpromising, what
  <2>5. sendq[k.c] = << >> /\ buf[k.c] = << >>
    <3>1. /\ cap[k.c] \in Nat /\ buf[k.c] \in Seq(G) /\ Len(buf[k.c]) <= cap[k.c]
          /\ Len(<< >>) = 0
      BY <1>0, <1>2, CapNat DEF Types
    <3>2. cap[k.c] = 0 => buf[k.c] = << >>
      BY <3>1, LenProperties, EmptySeq
    <3>3. cap[k.c] # 0 => sendq[k.c] = << >>
      BY <1>0, <1>2, <2>4, <3>1 DEF ChanInvariants
    <3> QED BY <2>4, <3>2, <3>3
  <2>6. closed[k.c] \/ NoneReady(g)'
    <3>1. PICK j \in Case : j = k
      BY <1>2
    <3> SUFFICES ASSUME ~closed[j.c] PROVE ~(Can(j)')
      BY <1>2, <1>6, <3>1 DEF NoneReady
    <3>2. ~closed'[j.c] /\ sendq'[j.c] = << >> /\ buf'[j.c] = << >> /\ Len(<< >>) = 0
      BY <1>6, <2>5, <3>1
    <3>3. j.dir = "recv"
      BY <1>19, <3>1
    <3> QED BY <3>2, <3>3 DEF Can, CanRecv, Found, FirstLive, SelectInSeq
  <2> QED BY <1>8, <2>1, <2>2, <2>3, <2>6
<1>20. FastPath'
  <2> SUFFICES ASSUME NEW x \in G, pc'[x] = "fast"
               PROVE  /\ ~op[x].block
                      /\ TheCase(x).dir = "recv" =>
                           \/ looks'[x] = <<"ready", "closed">>
                           \/ looks'[x] = <<"closed">> /\ (closed[TheCase(x).c] \/ unready'[x])
    BY <1>6, <1>7 DEF FastPath
  <2>1. CASE x = g
    BY <1>2, <1>5, <1>19, <2>1 DEF k
  <2>2. CASE x # g
    BY <1>0, <1>5, <1>8, <2>2 DEF FastPath
  <2> QED BY <2>1, <2>2
<1>21. Looking'
  <2>1. p = "fast" => l # << >>
    <3>1. Len(<< >>) = 0
      OBVIOUS
    <3>2. p = "fast" => l = Tail(looks[g]) /\ Len(looks[g]) # 1
      BY <1>4
    <3>3. Len(looks[g]) # 1 => Len(Tail(looks[g])) # 0
      BY <1>3
    <3> QED BY <3>1, <3>2, <3>3
  <2> QED BY <1>0, <1>5, <2>1 DEF Looking
<1> QED
  BY <1>9, <1>10, <1>12, <1>13, <1>14, <1>15, <1>16, <1>17, <1>18, <1>20, <1>21 DEF ChanInv

\* A sender or receiver goes on after gopark.
LEMMA WokenKeeps ==
  ASSUME ChanInv, Track, NEW g \in G, Woken(g)
  PROVE  ChanInv'
<1>0. /\ Types /\ Placed /\ Outcomes /\ Queued /\ Handed /\ Parked /\ NobodyOnClosed
      /\ ByClose /\ Locks /\ FastPath /\ Looking /\ ChanInvariants
  BY DEF ChanInv
<1>1. /\ pc[g] = "woken" /\ param' = [param EXCEPT ![g] = {}]
      /\ res' = IF param[g] = {} THEN [res EXCEPT ![g] = FoundClosed(TheCase(g))] ELSE res
      /\ pc' = [pc EXCEPT ![g] = "return"]
      /\ op' = op /\ closed' = closed /\ buf' = buf /\ recvq' = recvq /\ sendq' = sendq
      /\ selectDone' = selectDone /\ toReady' = toReady /\ lk' = lk /\ looks' = looks
  BY DEF Woken, Jump
<1>2. op[g] # NoOp /\ ~op[g].sel /\ TheCase(g) \in Case
  <2>1. op[g] # NoOp /\ ~op[g].sel
    BY <1>0, <1>1 DEF Placed
  <2> QED BY <1>0, <2>1, OpIs
<1>3. /\ FoundClosed(TheCase(g)) \in Results /\ FoundClosed(TheCase(g)) # NoRes
      /\ FoundClosed(TheCase(g)).how # "failed"
  BY <1>2 DEF FoundClosed, Results, NoRes
<1>4. /\ pc' \in [G -> Phases] /\ pc'[g] = "return" /\ \A x \in G \ {g} : pc'[x] = pc[x]
      /\ param' \in [G -> SUBSET Case] /\ param'[g] = {} /\ \A x \in G \ {g} : param'[x] = param[x]
      /\ res' \in [G -> Results] /\ res'[g] # NoRes /\ res'[g].how # "failed"
      /\ \A x \in G \ {g} : res'[x] = res[x]
  <2>1. pc' \in [G -> Phases] /\ pc'[g] = "return" /\ \A x \in G \ {g} : pc'[x] = pc[x]
    BY <1>0, <1>1 DEF Types, Phases
  <2>2. param' \in [G -> SUBSET Case] /\ param'[g] = {} /\ \A x \in G \ {g} : param'[x] = param[x]
    BY <1>0, <1>1 DEF Types
  <2>3. res' \in [G -> Results] /\ \A x \in G \ {g} : res'[x] = res[x]
    BY <1>0, <1>1, <1>3 DEF Types
  <2>4. res'[g] # NoRes /\ res'[g].how # "failed"
    <3>1. CASE param[g] = {}
      BY <1>0, <1>1, <1>3, <3>1 DEF Types
    <3>2. CASE param[g] # {}
      BY <1>0, <1>1, <3>2 DEF Outcomes, Asleep
    <3> QED BY <3>1, <3>2
  <2> QED BY <2>1, <2>2, <2>3, <2>4
<1>5. /\ \A x \in G : TheCase(x)' = TheCase(x) /\ (InHand(x)' <=> InHand(x)) /\ (Live(x)' <=> Live(x))
      /\ \A x, j : Waiting(x, j)' <=> Waiting(x, j)
  BY <1>1 DEF TheCase, InHand, Live, Waiting, Queue
<1>6. /\ unready' \in [G -> BOOLEAN]
      /\ \A x \in G : ~op[x].block /\ unready[x] => unready'[x]
  <2>1. op' \in [G -> Ops \cup {NoOp}]
    BY <1>0, <1>1 DEF Types
  <2> QED BY <1>0, <1>1, <2>1, TrackKeeps
<1>7. Types'
  BY <1>0, <1>1, <1>4, <1>6 DEF Types
<1>8. Placed'
  BY <1>0, <1>1, <1>2, <1>4 DEF Placed, Asleep
<1>9. Outcomes'
  <2> SUFFICES ASSUME NEW x \in G
               PROVE  /\ pc'[x] \in Fresh => res'[x] = NoRes
                      /\ pc'[x] \in Asleep => (res'[x] = NoRes <=> param'[x] = {})
                      /\ pc'[x] = "return" => res'[x] # NoRes
                      /\ pc'[x] = "ready" => (res'[x] = NoRes <=> op[x] = NoOp)
                      /\ res'[x].how = "failed" =>
                           /\ pc'[x] = "return" /\ ~op[x].block
                           /\ op[x].sel \/ TheCase(x).dir = "recv" => unready'[x]
    BY <1>1, <1>5 DEF Outcomes
  <2>1. CASE x = g
    BY <1>4, <2>1 DEF Fresh, Asleep
  <2>2. CASE x # g
    BY <1>0, <1>4, <1>6, <2>2 DEF Outcomes
  <2> QED BY <2>1, <2>2
<1>10. Queued'
  <2> SUFFICES ASSUME NEW x \in G, NEW j \in Case, Waiting(x, j)
               PROVE  /\ j \in op[x].cases /\ (j \in param'[x] => op[x].sel)
                      /\ pc'[x] \in {"parked", "lock3", "pass3"}
                      /\ Live(x) => pc'[x] = "parked" /\ param'[x] = {} /\ ~InHand(x)
    BY <1>1, <1>5 DEF Queued
  <2>1. x # g
    BY <1>0, <1>1 DEF Queued
  <2> QED BY <1>0, <1>4, <2>1 DEF Queued
<1>11. Handed'
  BY <1>0, <1>1, <1>4 DEF Handed
<1>12. Parked'
  <2> SUFFICES ASSUME NEW x \in G, pc'[x] = "parked", ~InHand(x)
               PROVE  ~selectDone[x] /\ param'[x] = {} /\ \A j \in op[x].cases : Waiting(x, j)
    BY <1>1, <1>5 DEF Parked
  <2>1. x # g
    BY <1>4
  <2> QED BY <1>0, <1>4, <2>1 DEF Parked
<1>13. NobodyOnClosed' /\ ChanInvariants'
  BY <1>0, <1>1 DEF NobodyOnClosed, ChanInvariants
<1>14. ByClose'
  <2> SUFFICES ASSUME NEW x \in G, pc'[x] = "woken" \/ (pc'[x] = "parked" /\ InHand(x)),
                      ~op[x].sel, param'[x] = {}
               PROVE  /\ closed[TheCase(x).c]
                      /\ TheCase(x).dir = "recv" => buf[TheCase(x).c] = << >>
    BY <1>1, <1>5 DEF ByClose
  <2>1. x # g /\ (pc[x] = "woken" \/ (pc[x] = "parked" /\ InHand(x))) /\ param[x] = {}
    BY <1>4
  <2> QED BY <1>0, <2>1 DEF ByClose
<1>15. Locks'
  BY <1>1, <1>4, LocksKept DEF LockPhases
<1>16. FastPath' /\ Looking'
  <2>1. FastPath'
    <3> SUFFICES ASSUME NEW x \in G, pc'[x] = "fast"
                 PROVE  /\ ~op[x].block
                        /\ TheCase(x).dir = "recv" =>
                             \/ looks[x] = <<"ready", "closed">>
                             \/ looks[x] = <<"closed">> /\ (closed[TheCase(x).c] \/ unready'[x])
      BY <1>1, <1>5 DEF FastPath
    <3>1. pc[x] = "fast"
      BY <1>4
    <3> QED BY <1>0, <1>6, <3>1 DEF FastPath
  <2>2. Looking'
    BY <1>0, <1>1, <1>4 DEF Looking
  <2> QED BY <2>1, <2>2
<1> QED
  BY <1>7, <1>8, <1>9, <1>10, <1>11, <1>12, <1>13, <1>14, <1>15, <1>16 DEF ChanInv

\* goready.
LEMMA ReadyKeeps ==
  ASSUME ChanInv, Track, NEW g \in G, Ready(g)
  PROVE  ChanInv'
<1>0. /\ Types /\ Placed /\ Outcomes /\ Queued /\ Handed /\ Parked /\ NobodyOnClosed
      /\ ByClose /\ Locks /\ FastPath /\ Looking /\ ChanInvariants
  BY DEF ChanInv
<1> DEFINE after == IF op[g] = NoOp THEN "idle" ELSE "return"
<1>1. PICK h \in toReady[g] :
        /\ toReady' = [toReady EXCEPT ![g] = @ \ {h}]
        /\ pc' = [pc EXCEPT ![h] = IF op[h].sel THEN "lock3" ELSE "woken",
                            ![g] = IF toReady[g] # {h} THEN "ready" ELSE after]
  BY DEF Ready
<1>2. /\ pc[g] = "ready" /\ op' = op /\ closed' = closed /\ buf' = buf
      /\ recvq' = recvq /\ sendq' = sendq /\ selectDone' = selectDone /\ param' = param
      /\ res' = res /\ lk' = lk /\ looks' = looks
  BY DEF Ready
<1>3. /\ h \in G /\ h # g /\ pc[h] = "parked" /\ (op[h].sel => selectDone[h]) /\ InHand(h)
      /\ \A i \in G : h \in toReady[i] => i = g
  <2>1. h \in G
    BY <1>0 DEF Types
  <2> QED BY <1>0, <1>2, <2>1 DEF Handed, InHand
<1>4. /\ pc' \in [G -> Phases] /\ \A x \in G \ {g, h} : pc'[x] = pc[x]
      /\ pc'[h] = IF op[h].sel THEN "lock3" ELSE "woken"
      /\ pc'[g] = IF toReady[g] # {h} THEN "ready" ELSE after
      /\ after \in Phases
  BY <1>0, <1>1, <1>3 DEF Types, Phases
<1>5. /\ toReady' \in [G -> SUBSET G] /\ toReady'[g] = toReady[g] \ {h}
      /\ \A x \in G \ {g} : toReady'[x] = toReady[x]
  BY <1>0, <1>1 DEF Types
<1>6. /\ \A x \in G : TheCase(x)' = TheCase(x) /\ (Live(x)' <=> Live(x))
      /\ \A x, j : Waiting(x, j)' <=> Waiting(x, j)
  BY <1>2 DEF TheCase, Live, Waiting, Queue
<1>7. \A x \in G : InHand(x)' <=> InHand(x) /\ x # h
  BY <1>3, <1>5 DEF InHand
<1>8. /\ unready' \in [G -> BOOLEAN]
      /\ \A x \in G : ~op[x].block /\ unready[x] => unready'[x]
  <2>1. op' \in [G -> Ops \cup {NoOp}]
    BY <1>0, <1>2 DEF Types
  <2> QED BY <1>0, <1>2, <2>1, TrackKeeps
<1>9. /\ ~selectDone[g] /\ param[g] = {} /\ (res[g] = NoRes <=> op[g] = NoOp)
      /\ op[h] # NoOp
  BY <1>0, <1>2, <1>3 DEF Placed, Asleep, Outcomes
<1>10. Types'
  BY <1>0, <1>2, <1>4, <1>5, <1>8 DEF Types
<1>11. Placed'
  <2> SUFFICES ASSUME NEW x \in G
               PROVE  /\ pc'[x] = "idle" => op[x] = NoOp
                      /\ op[x] = NoOp => pc'[x] \in {"idle", "ready"}
                      /\ pc'[x] \in {"fast", "start", "woken"} => ~op[x].sel
                      /\ pc'[x] \in {"lock1", "pass1", "lock3", "pass3"} => op[x].sel
                      /\ pc'[x] \in {"lock3", "pass3"} => selectDone[x]
                      /\ selectDone[x] => op[x].sel /\ pc'[x] \in {"parked", "lock3", "pass3"}
                      /\ param[x] = {} \/ \E k \in op[x].cases : param[x] = {k}
                      /\ param[x] # {} => pc'[x] \in Asleep
    BY <1>2 DEF Placed
  <2>1. CASE x = g
    BY <1>4, <1>9, <2>1 DEF Asleep
  <2>2. CASE x = h
    BY <1>0, <1>3, <1>4, <1>9, <2>2 DEF Placed, Asleep
  <2>3. CASE x # g /\ x # h
    BY <1>0, <1>4, <2>3 DEF Placed, Asleep
  <2> QED BY <2>1, <2>2, <2>3
<1>12. Outcomes'
  <2> SUFFICES ASSUME NEW x \in G
               PROVE  /\ pc'[x] \in Fresh => res[x] = NoRes
                      /\ pc'[x] \in Asleep => (res[x] = NoRes <=> param[x] = {})
                      /\ pc'[x] = "return" => res[x] # NoRes
                      /\ pc'[x] = "ready" => (res[x] = NoRes <=> op[x] = NoOp)
                      /\ res[x].how = "failed" =>
                           /\ pc'[x] = "return" /\ ~op[x].block
                           /\ op[x].sel \/ TheCase(x).dir = "recv" => unready'[x]
    BY <1>2, <1>6 DEF Outcomes
  <2>1. CASE x = g
    <3>1. res[g].how # "failed"
      BY <1>0, <1>2 DEF Outcomes
    <3> QED BY <1>4, <1>9, <2>1, <3>1 DEF Fresh, Asleep
  <2>2. CASE x = h
    <3>1. res[h].how # "failed" /\ (res[h] = NoRes <=> param[h] = {})
      BY <1>0, <1>3 DEF Outcomes, Asleep
    <3> QED BY <1>4, <2>2, <3>1 DEF Fresh, Asleep
  <2>3. CASE x # g /\ x # h
    BY <1>0, <1>4, <1>8, <2>3 DEF Outcomes
  <2> QED BY <2>1, <2>2, <2>3
<1>13. Queued'
  <2> SUFFICES ASSUME NEW x \in G, NEW j \in Case, Waiting(x, j)
               PROVE  /\ j \in op[x].cases /\ (j \in param[x] => op[x].sel)
                      /\ pc'[x] \in {"parked", "lock3", "pass3"}
                      /\ Live(x) => pc'[x] = "parked" /\ param[x] = {} /\ ~(InHand(x)')
    BY <1>2, <1>6 DEF Queued
  <2>1. x # g
    BY <1>0, <1>2 DEF Queued
  <2>2. CASE x = h
    <3>1. ~Live(h) /\ j \in op[h].cases /\ (j \in param[h] => op[h].sel)
      BY <1>0, <1>3, <2>2 DEF Queued
    <3>2. op[h].sel
      BY <3>1 DEF Live
    <3> QED BY <1>4, <2>2, <3>1, <3>2
  <2>3. CASE x # h
    BY <1>0, <1>4, <1>7, <2>1, <2>3 DEF Queued
  <2> QED BY <2>2, <2>3
<1>14. Handed'
  <2> SUFFICES ASSUME NEW x \in G, NEW y \in G, x \in toReady'[y]
               PROVE  /\ pc'[y] = "ready" /\ pc'[x] = "parked" /\ (op[x].sel => selectDone[x])
                      /\ \A i \in G : x \in toReady'[i] => i = y
    BY <1>2 DEF Handed
  <2>1. x # h /\ x \in toReady[y] /\ \A i \in G : x \in toReady'[i] => x \in toReady[i]
    BY <1>3, <1>5
  <2>2. /\ pc[y] = "ready" /\ pc[x] = "parked" /\ (op[x].sel => selectDone[x])
        /\ \A i \in G : x \in toReady[i] => i = y
    BY <1>0, <2>1 DEF Handed
  <2>3. x # g /\ y # h /\ (y = g => toReady[g] # {h})
    BY <1>2, <1>3, <2>1, <2>2
  <2> QED BY <1>4, <2>1, <2>2, <2>3
<1>15. Parked'
  <2> SUFFICES ASSUME NEW x \in G, pc'[x] = "parked", ~(InHand(x)')
               PROVE  ~selectDone[x] /\ param[x] = {} /\ \A j \in op[x].cases : Waiting(x, j)
    BY <1>2, <1>6 DEF Parked
  <2>1. x # g /\ x # h /\ ~InHand(x)
    BY <1>4, <1>7
  <2> QED BY <1>0, <1>4, <2>1 DEF Parked
<1>16. NobodyOnClosed' /\ ChanInvariants'
  BY <1>0, <1>2 DEF NobodyOnClosed, ChanInvariants
<1>17. ByClose'
  <2> SUFFICES ASSUME NEW x \in G, pc'[x] = "woken" \/ (pc'[x] = "parked" /\ InHand(x)'),
                      ~op[x].sel, param[x] = {}
               PROVE  /\ closed[TheCase(x).c]
                      /\ TheCase(x).dir = "recv" => buf[TheCase(x).c] = << >>
    BY <1>2, <1>6 DEF ByClose
  <2>1. x # g /\ (pc[x] = "woken" \/ (pc[x] = "parked" /\ InHand(x)))
    BY <1>3, <1>4, <1>7
  <2> QED BY <1>0, <2>1 DEF ByClose
<1>18. Locks'
  <2>1. \A x \in G : Chans(x)' = Chans(x) /\ Chans(x) \subseteq C
    BY <1>0, <1>2, OpIs DEF Chans
  <2>2. \A c \in C : g \notin lk[c] /\ h \notin lk[c]
    BY <1>0, <1>2, <1>3 DEF Locks
  <2>3. \A c \in C :
          lk[c] = {} \/ \E x \in G : /\ lk[c] = {x} /\ c \in Chans(x) /\ op[x].sel
                                     /\ pc'[x] \in {"lock1", "pass1", "lock3", "pass3"}
    <3> TAKE c \in C
    <3>1. CASE lk[c] # {}
      <4>1. PICK x \in G : /\ lk[c] = {x} /\ c \in Chans(x) /\ op[x].sel
                           /\ pc[x] \in {"lock1", "pass1", "lock3", "pass3"}
        BY <1>0, <3>1 DEF Locks
      <4>2. x # g /\ x # h
        BY <2>2, <4>1
      <4> QED BY <1>4, <4>1, <4>2
    <3> QED BY <3>1
  <2>4. ASSUME NEW x \in G, pc'[x] \in {"pass1", "pass3"}, NEW c \in Chans(x)
        PROVE  x \in lk[c]
    BY <1>0, <1>4, <2>4 DEF Locks
  <2>5. ASSUME NEW x \in G, NEW c \in Chans(x), NEW d \in Chans(x),
               pc'[x] \in {"lock1", "lock3"}, x \in lk[c], x \notin lk[d]
        PROVE  Rank(c) < Rank(d)
    <3>1. x # g /\ x # h
      BY <2>1, <2>2, <2>5
    <3> QED BY <1>0, <1>4, <2>5, <3>1 DEF Locks
  <2> QED BY <1>2, <2>1, <2>3, <2>4, <2>5 DEF Locks
<1>19. FastPath' /\ Looking'
  <2>0. ASSUME NEW x \in G, pc'[x] = "fast" PROVE pc[x] = "fast"
    BY <1>4, <2>0
  <2>1. FastPath'
    <3> SUFFICES ASSUME NEW x \in G, pc'[x] = "fast"
                 PROVE  /\ ~op[x].block
                        /\ TheCase(x).dir = "recv" =>
                             \/ looks[x] = <<"ready", "closed">>
                             \/ looks[x] = <<"closed">> /\ (closed[TheCase(x).c] \/ unready'[x])
      BY <1>2, <1>6 DEF FastPath
    <3> QED BY <1>0, <1>8, <2>0 DEF FastPath
  <2>2. Looking'
    BY <1>0, <1>2, <2>0 DEF Looking
  <2> QED BY <2>1, <2>2
<1> QED
  BY <1>10, <1>11, <1>12, <1>13, <1>14, <1>15, <1>16, <1>17, <1>18, <1>19 DEF ChanInv

\* g enters an operation or leaves one: no queue, lock or wakeup knows of it.
LEMMA EnterKeeps ==
  ASSUME ChanInv, Track, NEW g \in G, pc[g] \in {"idle", "return"},
         UNCHANGED <<buf, closed, recvq, sendq, lk, selectDone, param, toReady>>,
         op' \in [G -> Ops \cup {NoOp}], pc' \in [G -> Phases], res' \in [G -> Results],
         looks' \in [G -> Seq({"closed", "ready"})], Len(looks'[g]) <= 2,
         \A x \in G \ {g} : /\ op'[x] = op[x] /\ pc'[x] = pc[x]
                            /\ res'[x] = res[x] /\ looks'[x] = looks[x],
         res'[g] = NoRes, pc'[g] \in {"idle", "fast", "start", "lock1"},
         op'[g] = NoOp <=> pc'[g] = "idle",
         pc'[g] \in {"fast", "start"} => ~op'[g].sel, pc'[g] = "lock1" => op'[g].sel,
         pc'[g] = "fast" => /\ ~op'[g].block /\ looks'[g] # << >>
                            /\ TheCase(g)'.dir = "recv" => looks'[g] = <<"ready", "closed">>
  PROVE  ChanInv'
<1>0. /\ Types /\ Placed /\ Outcomes /\ Queued /\ Handed /\ Parked /\ NobodyOnClosed
      /\ ByClose /\ Locks /\ FastPath /\ Looking /\ ChanInvariants
  BY DEF ChanInv
<1>1. /\ closed' = closed /\ buf' = buf /\ recvq' = recvq /\ sendq' = sendq /\ lk' = lk
      /\ selectDone' = selectDone /\ param' = param /\ toReady' = toReady
  OBVIOUS
<1>2. /\ ~selectDone[g] /\ param[g] = {} /\ ~InHand(g) /\ toReady[g] = {}
      /\ (\A k \in Case : ~Waiting(g, k)) /\ (\A c \in C : g \notin lk[c])
  <2>1. ~selectDone[g] /\ param[g] = {}
    BY <1>0 DEF Placed, Asleep
  <2>2. ~InHand(g) /\ toReady[g] = {}
    BY <1>0 DEF Handed, InHand, Types
  <2>3. \A k \in Case : ~Waiting(g, k)
    BY <1>0 DEF Queued
  <2>4. \A c \in C : g \notin lk[c]
    BY <1>0 DEF Locks
  <2> QED BY <2>1, <2>2, <2>3, <2>4
<1>3. /\ \A x \in G \ {g} : /\ TheCase(x)' = TheCase(x) /\ (Live(x)' <=> Live(x))
                            /\ Chans(x)' = Chans(x)
      /\ \A x \in G : InHand(x)' <=> InHand(x)
      /\ \A x, j : Waiting(x, j)' <=> Waiting(x, j)
  BY <1>1 DEF TheCase, Live, Waiting, Queue, InHand, Chans
<1>4. /\ unready' \in [G -> BOOLEAN]
      /\ \A x \in G \ {g} : ~op[x].block /\ unready[x] => unready'[x]
  BY <1>0, TrackKeeps
<1>5. Types'
  <2>1. \A x \in G : Len(looks'[x]) <= 2
    BY <1>0 DEF Types
  <2>2. ASSUME NEW c \in C, NEW dir \in {"send", "recv"}, NEW q \in Seq(G), g \notin ToSet(q),
               Tight(q, op, c, dir)
        PROVE  Tight(q, op', c, dir)
    <3>1. \A i \in DOMAIN q : q[i] \in G \ {g}
      <4>1. \A i \in DOMAIN q : q[i] \in ToSet(q)
        BY DEF ToSet
      <4> QED BY <2>2, <4>1, NobodyWaits
    <3>2. \A i \in DOMAIN q : op'[q[i]] = op[q[i]]
      BY <3>1
    <3> QED BY <2>2, <3>2 DEF Tight
  <2>3. ASSUME NEW c \in C
        PROVE  Tight(recvq[c], op', c, "recv") /\ Tight(sendq[c], op', c, "send")
    <3>1. g \notin ToSet(recvq[c]) /\ g \notin ToSet(sendq[c])
      BY <1>2, Cases
    <3>2. /\ recvq[c] \in Seq(G) /\ Tight(recvq[c], op, c, "recv")
          /\ sendq[c] \in Seq(G) /\ Tight(sendq[c], op, c, "send")
      BY <1>0 DEF Types
    <3> QED BY <2>2, <3>1, <3>2
  <2> QED BY <1>0, <1>1, <1>4, <2>1, <2>3 DEF Types
<1>6. Placed'
  <2> SUFFICES ASSUME NEW x \in G
               PROVE  /\ pc'[x] = "idle" => op'[x] = NoOp
                      /\ op'[x] = NoOp => pc'[x] \in {"idle", "ready"}
                      /\ pc'[x] \in {"fast", "start", "woken"} => ~op'[x].sel
                      /\ pc'[x] \in {"lock1", "pass1", "lock3", "pass3"} => op'[x].sel
                      /\ pc'[x] \in {"lock3", "pass3"} => selectDone'[x]
                      /\ selectDone'[x] => op'[x].sel /\ pc'[x] \in {"parked", "lock3", "pass3"}
                      /\ param'[x] = {} \/ \E k \in op'[x].cases : param'[x] = {k}
                      /\ param'[x] # {} => pc'[x] \in Asleep
    BY Zenon DEF Placed
  <2>1. CASE x = g
    BY <1>1, <1>2, <2>1
  <2>2. CASE x # g
    <3>1. op'[x] = op[x] /\ pc'[x] = pc[x] /\ selectDone'[x] = selectDone[x] /\ param'[x] = param[x]
      BY <1>1, <2>2
    <3> QED BY <1>0, <3>1 DEF Placed
  <2> QED BY <2>1, <2>2
<1>7. Outcomes'
  <2> SUFFICES ASSUME NEW x \in G
               PROVE  /\ pc'[x] \in Fresh => res'[x] = NoRes
                      /\ pc'[x] \in Asleep => (res'[x] = NoRes <=> param[x] = {})
                      /\ pc'[x] = "return" => res'[x] # NoRes
                      /\ pc'[x] = "ready" => (res'[x] = NoRes <=> op'[x] = NoOp)
                      /\ res'[x].how = "failed" =>
                           /\ pc'[x] = "return" /\ ~op'[x].block
                           /\ op'[x].sel \/ TheCase(x)'.dir = "recv" => unready'[x]
    BY <1>1 DEF Outcomes
  <2>1. CASE x = g
    BY <2>1 DEF Fresh, Asleep, NoRes
  <2>2. CASE x # g
    <3>1. /\ op'[x] = op[x] /\ pc'[x] = pc[x] /\ res'[x] = res[x] /\ TheCase(x)' = TheCase(x)
          /\ ~op[x].block /\ unready[x] => unready'[x]
      BY <1>3, <1>4, <2>2
    <3>2. /\ pc[x] \in Fresh => res[x] = NoRes
          /\ pc[x] \in Asleep => (res[x] = NoRes <=> param[x] = {})
          /\ pc[x] = "return" => res[x] # NoRes
          /\ pc[x] = "ready" => (res[x] = NoRes <=> op[x] = NoOp)
          /\ res[x].how = "failed" =>
               /\ pc[x] = "return" /\ ~op[x].block
               /\ op[x].sel \/ TheCase(x).dir = "recv" => unready[x]
      BY <1>0 DEF Outcomes
    <3>3. /\ pc'[x] \in Fresh => res'[x] = NoRes
          /\ pc'[x] \in Asleep => (res'[x] = NoRes <=> param[x] = {})
          /\ pc'[x] = "return" => res'[x] # NoRes
          /\ pc'[x] = "ready" => (res'[x] = NoRes <=> op'[x] = NoOp)
      BY <3>1, <3>2
    <3>4. res'[x].how = "failed" =>
            /\ pc'[x] = "return" /\ ~op'[x].block
            /\ op'[x].sel \/ TheCase(x)'.dir = "recv" => unready'[x]
      BY <3>1, <3>2
    <3> QED BY <3>3, <3>4
  <2> QED BY <2>1, <2>2
<1>8. Queued'
  <2> SUFFICES ASSUME NEW x \in G, NEW j \in Case, Waiting(x, j)
               PROVE  /\ j \in op'[x].cases /\ (j \in param[x] => op'[x].sel)
                      /\ pc'[x] \in {"parked", "lock3", "pass3"}
                      /\ Live(x)' => pc'[x] = "parked" /\ param[x] = {} /\ ~InHand(x)
    BY <1>1, <1>3 DEF Queued
  <2>1. x # g
    BY <1>2
  <2> QED BY <1>0, <1>3, <2>1 DEF Queued
<1>9. Handed'
  <2> SUFFICES ASSUME NEW x \in G, NEW y \in G, x \in toReady[y]
               PROVE  /\ pc'[y] = "ready" /\ pc'[x] = "parked" /\ (op'[x].sel => selectDone[x])
                      /\ \A i \in G : x \in toReady[i] => i = y
    BY <1>1 DEF Handed
  <2>1. x # g /\ y # g
    BY <1>2 DEF InHand
  <2>2. /\ pc[y] = "ready" /\ pc[x] = "parked" /\ (op[x].sel => selectDone[x])
        /\ \A i \in G : x \in toReady[i] => i = y
    BY <1>0 DEF Handed
  <2>3. op'[x] = op[x] /\ pc'[x] = pc[x] /\ pc'[y] = pc[y]
    BY <1>3, <2>1
  <2> QED BY <2>2, <2>3
<1>10. Parked'
  <2> SUFFICES ASSUME NEW x \in G, pc'[x] = "parked", ~InHand(x)
               PROVE  ~selectDone[x] /\ param[x] = {} /\ \A j \in op'[x].cases : Waiting(x, j)
    BY <1>1, <1>3 DEF Parked
  <2>1. x # g
    OBVIOUS
  <2> QED BY <1>0, <2>1 DEF Parked
<1>11. NobodyOnClosed'
  BY <1>0, <1>1 DEF NobodyOnClosed
<1>12. ChanInvariants'
  <2> SUFFICES ASSUME NEW c \in C
               PROVE  /\ \/ sendq[c] = << >> \/ recvq[c] = << >>
                         \/ /\ cap[c] = 0
                            /\ \E x \in G : op'[x].sel /\ ToSet(sendq[c]) \cup ToSet(recvq[c]) = {x}
                      /\ cap[c] > 0 /\ buf[c] # << >> => recvq[c] = << >>
                      /\ cap[c] > 0 /\ Len(buf[c]) < cap[c] => sendq[c] = << >>
    BY <1>1 DEF ChanInvariants
  <2>1. ASSUME NEW x \in G, op[x].sel, ToSet(sendq[c]) \cup ToSet(recvq[c]) = {x}
        PROVE  op'[x].sel
    <3>1. g \notin ToSet(recvq[c]) /\ g \notin ToSet(sendq[c])
      BY <1>2, Cases
    <3> QED BY <2>1, <3>1
  <2> QED BY <1>0, <2>1 DEF ChanInvariants
<1>13. ByClose'
  <2> SUFFICES ASSUME NEW x \in G, pc'[x] = "woken" \/ (pc'[x] = "parked" /\ InHand(x)),
                      ~op'[x].sel, param[x] = {}
               PROVE  /\ closed[TheCase(x)'.c]
                      /\ TheCase(x)'.dir = "recv" => buf[TheCase(x)'.c] = << >>
    BY <1>1, <1>3 DEF ByClose
  <2>1. x # g
    OBVIOUS
  <2> QED BY <1>0, <1>3, <2>1 DEF ByClose
<1>14. Locks'
  <2>1. \A c \in C :
          lk[c] = {} \/ \E x \in G : /\ lk[c] = {x} /\ c \in Chans(x)' /\ op'[x].sel
                                     /\ pc'[x] \in {"lock1", "pass1", "lock3", "pass3"}
    <3> TAKE c \in C
    <3>1. CASE lk[c] # {}
      <4>1. PICK x \in G : /\ lk[c] = {x} /\ c \in Chans(x) /\ op[x].sel
                           /\ pc[x] \in {"lock1", "pass1", "lock3", "pass3"}
        BY <1>0, <3>1 DEF Locks
      <4>2. x # g
        BY <1>2, <4>1
      <4>3. op'[x] = op[x] /\ pc'[x] = pc[x] /\ Chans(x)' = Chans(x)
        BY <1>3, <4>2
      <4>4. /\ lk[c] = {x} /\ c \in Chans(x)' /\ op'[x].sel
            /\ pc'[x] \in {"lock1", "pass1", "lock3", "pass3"}
        BY <4>1, <4>3
      <4> QED BY <4>4
    <3> QED BY <3>1
  <2>2. ASSUME NEW x \in G, pc'[x] \in {"pass1", "pass3"}, NEW c \in Chans(x)'
        PROVE  x \in lk[c]
    <3>1. x # g
      BY <2>2
    <3> QED BY <1>0, <1>3, <2>2, <3>1 DEF Locks
  <2>3. ASSUME NEW x \in G, NEW c \in Chans(x)', NEW d \in Chans(x)',
               pc'[x] \in {"lock1", "lock3"}, x \in lk[c], x \notin lk[d]
        PROVE  Rank(c) < Rank(d)
    <3>1. c \in C
      <4>1. \A o \in Ops \cup {NoOp} : o.cases \subseteq Case
        <5>1. NoOp.cases = {}
          BY <1>0, OpIs
        <5>2. \A o \in Op : o.cases \subseteq Case
          BY DEF Op
        <5> QED BY <5>1, <5>2, OpsOK
      <4>2. op'[x].cases \subseteq Case
        BY <4>1
      <4> QED BY <4>2 DEF Chans, Case
    <3>2. x # g
      BY <1>2, <2>3, <3>1
    <3>3. pc'[x] = pc[x] /\ Chans(x)' = Chans(x)
      BY <1>3, <3>2
    <3>4. c \in Chans(x) /\ d \in Chans(x) /\ pc[x] \in {"lock1", "lock3"}
      BY <2>3, <3>3
    <3>5. \A i, j \in Chans(x) : x \in lk[i] /\ x \notin lk[j] => Rank(i) < Rank(j)
      BY <1>0, <3>4 DEF Locks
    <3> QED BY <2>3, <3>4, <3>5
  <2> QED BY <1>1, <2>1, <2>2, <2>3 DEF Locks
<1>15. FastPath'
  <2> SUFFICES ASSUME NEW x \in G, pc'[x] = "fast"
               PROVE  /\ ~op'[x].block
                      /\ TheCase(x)'.dir = "recv" =>
                           \/ looks'[x] = <<"ready", "closed">>
                           \/ looks'[x] = <<"closed">> /\ (closed[TheCase(x)'.c] \/ unready'[x])
    BY <1>1 DEF FastPath
  <2>1. CASE x = g
    BY <2>1
  <2>2. CASE x # g
    BY <1>0, <1>3, <1>4, <2>2 DEF FastPath
  <2> QED BY <2>1, <2>2
<1>16. Looking'
  BY <1>0 DEF Looking
<1> QED
  BY <1>5, <1>6, <1>7, <1>8, <1>9, <1>10, <1>11, <1>12, <1>13, <1>14, <1>15, <1>16 DEF ChanInv

LEMMA ReturnKeeps ==
  ASSUME ChanInv, Track, NEW g \in G, Return(g)
  PROVE  ChanInv'
<1>0. Types
  BY DEF ChanInv
<1>1. /\ pc[g] = "return"
      /\ op' = [op EXCEPT ![g] = NoOp] /\ res' = [res EXCEPT ![g] = NoRes]
      /\ looks' = [looks EXCEPT ![g] = << >>] /\ pc' = [pc EXCEPT ![g] = "idle"]
      /\ UNCHANGED <<buf, closed, recvq, sendq, lk, selectDone, param, toReady>>
  BY DEF Return, Jump
<1>2. NoRes \in Results /\ << >> \in Seq({"closed", "ready"}) /\ Len(<< >>) = 0
  BY DEF NoRes, Results
<1>3. op' \in [G -> Ops \cup {NoOp}] /\ op'[g] = NoOp /\ \A x \in G \ {g} : op'[x] = op[x]
  BY <1>0, <1>1 DEF Types
<1>4. pc' \in [G -> Phases] /\ pc'[g] = "idle" /\ \A x \in G \ {g} : pc'[x] = pc[x]
  BY <1>0, <1>1 DEF Types, Phases
<1>5. res' \in [G -> Results] /\ res'[g] = NoRes /\ \A x \in G \ {g} : res'[x] = res[x]
  BY <1>0, <1>1, <1>2 DEF Types
<1>6. /\ looks' \in [G -> Seq({"closed", "ready"})] /\ Len(looks'[g]) <= 2
      /\ \A x \in G \ {g} : looks'[x] = looks[x]
  BY <1>0, <1>1, <1>2 DEF Types
<1> QED BY <1>1, <1>3, <1>4, <1>5, <1>6, EnterKeeps

LEMMA CallKeeps ==
  ASSUME ChanInv, Track, NEW g \in G, NEW o \in Ops, Call(g, o)
  PROVE  ChanInv'
<1>0. Types /\ Outcomes
  BY DEF ChanInv
<1> DEFINE phase == IF o.sel THEN "lock1" ELSE IF o.block THEN "start" ELSE "fast"
           k == CHOOSE j \in o.cases : TRUE
<1>1. /\ pc[g] = "idle" /\ op' = [op EXCEPT ![g] = o] /\ pc' = [pc EXCEPT ![g] = phase]
      /\ IF o.sel \/ o.block THEN looks' = looks
         ELSE \E l \in Looks(k) : looks' = [looks EXCEPT ![g] = l]
      /\ UNCHANGED <<buf, closed, recvq, sendq, lk, selectDone, param, res, toReady>>
  BY DEF Call, Jump
<1>2. o \in Op /\ o # NoOp
  <2>1. o.cases # {} /\ o \in Op
    BY OpsOK
  <2> QED BY <2>1 DEF NoOp
<1>3. op' \in [G -> Ops \cup {NoOp}] /\ op'[g] = o /\ \A x \in G \ {g} : op'[x] = op[x]
  BY <1>0, <1>1 DEF Types
<1>4. pc' \in [G -> Phases] /\ pc'[g] = phase /\ \A x \in G \ {g} : pc'[x] = pc[x]
  BY <1>0, <1>1 DEF Types, Phases
<1>5. res' \in [G -> Results] /\ res'[g] = NoRes /\ res' = res
  BY <1>0, <1>1 DEF Types, Outcomes, Fresh
<1>6. TheCase(g)' = k
  BY <1>3 DEF TheCase
<1>7. /\ looks' \in [G -> Seq({"closed", "ready"})] /\ Len(looks'[g]) <= 2
      /\ \A x \in G \ {g} : looks'[x] = looks[x]
      /\ phase = "fast" => /\ looks'[g] # << >>
                           /\ k.dir = "recv" => looks'[g] = <<"ready", "closed">>
  <2>1. CASE o.sel \/ o.block
    BY <1>0, <1>1, <2>1 DEF Types
  <2>2. CASE ~(o.sel \/ o.block)
    <3>1. PICK l \in Looks(k) : looks' = [looks EXCEPT ![g] = l]
      BY <1>1, <2>2
    <3>2. /\ l \in {<<"closed", "ready">>, <<"ready", "closed">>}
          /\ k.dir = "recv" => l = <<"ready", "closed">>
      BY <3>1 DEF Looks
    <3>3. l \in Seq({"closed", "ready"}) /\ Len(l) <= 2 /\ l # << >>
      <4>1. \A a, b \in {"closed", "ready"} : /\ <<a, b>> \in Seq({"closed", "ready"})
                                             /\ Len(<<a, b>>) = 2 /\ <<a, b>> # << >>
        OBVIOUS
      <4>2. \E a, b \in {"closed", "ready"} : l = <<a, b>>
        BY <3>2
      <4>3. PICK a, b \in {"closed", "ready"} : l = <<a, b>>
        BY <4>2
      <4> HIDE DEF k
      <4> QED BY <4>1, <4>3
    <3> HIDE DEF k
    <3>4. looks' \in [G -> Seq({"closed", "ready"})] /\ looks'[g] = l /\ \A x \in G \ {g} : looks'[x] = looks[x]
      BY <1>0, <3>1, <3>3 DEF Types
    <3> QED BY <3>2, <3>3, <3>4
  <2> QED BY <2>1, <2>2
<1>8. /\ phase \in {"fast", "start", "lock1"} /\ (phase \in {"fast", "start"} => ~o.sel)
      /\ (phase = "lock1" => o.sel) /\ (phase = "fast" => ~o.block)
  OBVIOUS
<1> HIDE DEF phase, k
<1>9. pc'[g] = "fast" => /\ ~op'[g].block /\ looks'[g] # << >>
                         /\ TheCase(g)'.dir = "recv" => looks'[g] = <<"ready", "closed">>
  BY <1>3, <1>4, <1>6, <1>7, <1>8
<1>10. /\ pc'[g] \in {"idle", "fast", "start", "lock1"} /\ (op'[g] = NoOp <=> pc'[g] = "idle")
       /\ (pc'[g] \in {"fast", "start"} => ~op'[g].sel) /\ (pc'[g] = "lock1" => op'[g].sel)
  BY <1>2, <1>3, <1>4, <1>8
<1> QED BY <1>1, <1>3, <1>4, <1>5, <1>7, <1>9, <1>10, EnterKeeps

\* closechan.
LEMMA CloseKeeps ==
  ASSUME ChanInv, Track, NEW g \in G, NEW c \in C, Close(g, c)
  PROVE  ChanInv'
<1>0. /\ Types /\ Placed /\ Outcomes /\ Queued /\ Handed /\ Parked /\ NobodyOnClosed
      /\ ByClose /\ Locks /\ FastPath /\ Looking /\ ChanInvariants
  BY DEF ChanInv
<1>1. PICK D : D = Drained(c)
  OBVIOUS
<1>2. /\ pc[g] = "idle" /\ ~closed[c] /\ closed' = [closed EXCEPT ![c] = TRUE]
      /\ recvq' = [recvq EXCEPT ![c] = << >>] /\ sendq' = [sendq EXCEPT ![c] = << >>]
      /\ selectDone' = [h \in G |-> selectDone[h] \/ (h \in D /\ op[h].sel)]
      /\ param' = [h \in G |-> IF h \in D THEN {} ELSE param[h]]
      /\ toReady' = [toReady EXCEPT ![g] = D]
      /\ pc' = [pc EXCEPT ![g] = IF D = {} THEN "idle" ELSE "ready"]
      /\ buf' = buf /\ lk' = lk /\ op' = op /\ looks' = looks /\ res' = res
  BY <1>1 DEF Close, Jump
<1> DEFINE r == [c |-> c, dir |-> "recv"]
           s == [c |-> c, dir |-> "send"]
<1>3. /\ r \in Case /\ s \in Case /\ r.c = c /\ s.c = c /\ r.dir = "recv" /\ s.dir = "send"
      /\ \A k \in Case : k.c = c => k = r \/ k = s
      /\ \A x : (Waiting(x, r) <=> x \in ToSet(recvq[c])) /\ (Waiting(x, s) <=> x \in ToSet(sendq[c]))
  <2>1. \A k \in Case : k.c = c => k = r \/ k = s
    BY DEF Case
  <2> QED BY <2>1, Cases
<1> HIDE DEF r, s
<1>4. \A x : x \in D <=> Live(x) /\ (Waiting(x, r) \/ Waiting(x, s))
  BY <1>1, <1>3 DEF Drained
<1>5. D \subseteq G
  <2>1. recvq[c] \in Seq(G) /\ sendq[c] \in Seq(G)
    BY <1>0 DEF Types
  <2> QED BY <1>3, <1>4, <2>1, NobodyWaits
<1>6. ASSUME NEW x \in D
      PROVE  x \in G /\ pc[x] = "parked" /\ param[x] = {} /\ ~InHand(x) /\ x # g
  BY <1>0, <1>2, <1>3, <1>4, <1>5 DEF Queued
<1>7. /\ recvq' \in [C -> Seq(G)] /\ recvq'[c] = << >> /\ \A d \in C \ {c} : recvq'[d] = recvq[d]
      /\ sendq' \in [C -> Seq(G)] /\ sendq'[c] = << >> /\ \A d \in C \ {c} : sendq'[d] = sendq[d]
      /\ closed' \in [C -> BOOLEAN] /\ closed'[c] /\ \A d \in C \ {c} : closed'[d] = closed[d]
  BY <1>0, <1>2 DEF Types
<1>8. \A x \in G, k \in Case : Waiting(x, k)' <=> Waiting(x, k) /\ k.c # c
  <2> SUFFICES ASSUME NEW x \in G, NEW k \in Case
               PROVE  Waiting(x, k)' <=> Waiting(x, k) /\ k.c # c
    OBVIOUS
  <2>1. k.c \in C /\ ToSet(<< >>) = {}
    BY DEF Case, ToSet
  <2> QED BY <1>7, <2>1 DEF Waiting, Queue
<1>9. /\ selectDone' \in [G -> BOOLEAN]
      /\ \A x \in G : selectDone'[x] <=> selectDone[x] \/ (x \in D /\ op[x].sel)
      /\ param' = param
  <2>1. selectDone' \in [G -> BOOLEAN] /\ \A x \in G : selectDone'[x] <=> selectDone[x] \/ (x \in D /\ op[x].sel)
    <3>1. \A x \in G : (selectDone[x] \/ (x \in D /\ op[x].sel)) \in BOOLEAN
      OBVIOUS
    <3> QED BY <1>2, <3>1
  <2>2. \A x \in G : (IF x \in D THEN {} ELSE param[x]) = param[x]
    BY <1>6
  <2>3. param = [x \in G |-> param[x]]
    BY <1>0 DEF Types
  <2>4. param' = param
    BY <1>2, <2>2, <2>3
  <2> QED BY <2>1, <2>4
<1>10. /\ pc' \in [G -> Phases] /\ pc'[g] \in {"idle", "ready"} /\ (D # {} => pc'[g] = "ready")
       /\ \A x \in G \ {g} : pc'[x] = pc[x]
       /\ toReady' \in [G -> SUBSET G] /\ toReady'[g] = D /\ toReady[g] = {}
       /\ \A x \in G \ {g} : toReady'[x] = toReady[x]
       /\ op[g] = NoOp
  <2>1. /\ pc' \in [G -> Phases] /\ pc'[g] \in {"idle", "ready"} /\ (D # {} => pc'[g] = "ready")
        /\ \A x \in G \ {g} : pc'[x] = pc[x]
    BY <1>0, <1>2 DEF Types, Phases
  <2>2. /\ toReady' \in [G -> SUBSET G] /\ toReady'[g] = D
        /\ \A x \in G \ {g} : toReady'[x] = toReady[x]
    BY <1>0, <1>2, <1>5 DEF Types
  <2>3. toReady[g] = {} /\ op[g] = NoOp
    BY <1>0, <1>2 DEF Types, Handed, Placed
  <2> QED BY <2>1, <2>2, <2>3
<1>11. \A x \in G : /\ TheCase(x)' = TheCase(x) /\ (InHand(x)' <=> InHand(x) \/ x \in D)
                    /\ (Live(x)' => Live(x))
  <2>1. \A x \in G : TheCase(x)' = TheCase(x)
    BY <1>2 DEF TheCase
  <2>2. \A x \in G : InHand(x)' <=> InHand(x) \/ x \in D
    BY <1>10 DEF InHand
  <2>3. \A x \in G : Live(x)' => Live(x)
    BY <1>2, <1>9 DEF Live
  <2> QED BY <2>1, <2>2, <2>3
<1>12. /\ unready' \in [G -> BOOLEAN]
       /\ \A x \in G : ~op[x].block /\ unready[x] => unready'[x]
  <2>1. op' \in [G -> Ops \cup {NoOp}]
    BY <1>0, <1>2 DEF Types
  <2> QED BY <1>0, <1>2, <2>1, TrackKeeps
<1>13. Types'
  <2>1. \A d \in C : Tight(recvq'[d], op, d, "recv") /\ Tight(sendq'[d], op, d, "send")
    <3>1. \A d \in C : Tight(<< >>, op, d, "recv") /\ Tight(<< >>, op, d, "send")
      BY DEF Tight
    <3> QED BY <1>0, <1>7, <3>1 DEF Types
  <2> QED BY <1>0, <1>2, <1>7, <1>9, <1>10, <1>12, <2>1 DEF Types
<1>14. Placed'
  <2> SUFFICES ASSUME NEW x \in G
               PROVE  /\ pc'[x] = "idle" => op[x] = NoOp
                      /\ op[x] = NoOp => pc'[x] \in {"idle", "ready"}
                      /\ pc'[x] \in {"fast", "start", "woken"} => ~op[x].sel
                      /\ pc'[x] \in {"lock1", "pass1", "lock3", "pass3"} => op[x].sel
                      /\ pc'[x] \in {"lock3", "pass3"} => selectDone'[x]
                      /\ selectDone'[x] => op[x].sel /\ pc'[x] \in {"parked", "lock3", "pass3"}
                      /\ param[x] = {} \/ \E k \in op[x].cases : param[x] = {k}
                      /\ param[x] # {} => pc'[x] \in Asleep
    BY <1>2, <1>9 DEF Placed
  <2>1. CASE x = g
    <3>1. ~selectDone[g] /\ param[g] = {} /\ g \notin D
      BY <1>0, <1>2, <1>6 DEF Placed, Asleep
    <3> QED BY <1>9, <1>10, <2>1, <3>1
  <2>2. CASE x # g
    <3>1. x \in D => pc[x] = "parked"
      BY <1>6
    <3> QED BY <1>0, <1>9, <1>10, <2>2, <3>1 DEF Placed
  <2> QED BY <2>1, <2>2
<1>15. Outcomes'
  <2> SUFFICES ASSUME NEW x \in G
               PROVE  /\ pc'[x] \in Fresh => res[x] = NoRes
                      /\ pc'[x] \in Asleep => (res[x] = NoRes <=> param[x] = {})
                      /\ pc'[x] = "return" => res[x] # NoRes
                      /\ pc'[x] = "ready" => (res[x] = NoRes <=> op[x] = NoOp)
                      /\ res[x].how = "failed" =>
                           /\ pc'[x] = "return" /\ ~op[x].block
                           /\ op[x].sel \/ TheCase(x).dir = "recv" => unready'[x]
    BY <1>2, <1>9, <1>11 DEF Outcomes
  <2>1. CASE x = g
    <3>1. res[g] = NoRes
      BY <1>0, <1>2 DEF Outcomes, Fresh
    <3> QED BY <1>10, <2>1, <3>1 DEF Fresh, Asleep, NoRes
  <2>2. CASE x # g
    BY <1>0, <1>10, <1>12, <2>2 DEF Outcomes
  <2> QED BY <2>1, <2>2
<1>16. Queued'
  <2> SUFFICES ASSUME NEW x \in G, NEW k \in Case, Waiting(x, k)'
               PROVE  /\ k \in op[x].cases /\ (k \in param[x] => op[x].sel)
                      /\ pc'[x] \in {"parked", "lock3", "pass3"}
                      /\ Live(x)' => pc'[x] = "parked" /\ param[x] = {} /\ ~(InHand(x)')
    BY <1>2, <1>9 DEF Queued
  <2>1. /\ Waiting(x, k) /\ k.c # c /\ k \in op[x].cases /\ (k \in param[x] => op[x].sel)
        /\ pc[x] \in {"parked", "lock3", "pass3"}
        /\ Live(x) => pc[x] = "parked" /\ param[x] = {} /\ ~InHand(x)
    BY <1>0, <1>8 DEF Queued
  <2>2. x # g /\ pc'[x] = pc[x]
    BY <1>2, <1>10, <2>1
  <2>3. ASSUME x \in D PROVE ~(Live(x)')
    <3>1. op[x].sel
      <4>1. \E j \in op[x].cases : j.c = c
        BY <1>0, <1>3, <1>4, <2>3 DEF Queued
      <4>2. op[x] # NoOp
        BY <1>0, <2>1 DEF Placed
      <4>3. ~op[x].sel => \E j \in Case : op[x].cases = {j}
        BY <1>0, <4>2, OpIs
      <4> QED BY <2>1, <4>1, <4>3
    <3> QED BY <1>2, <1>9, <2>3, <3>1 DEF Live
  <2> QED BY <1>11, <2>1, <2>2, <2>3
<1>17. Handed'
  <2> SUFFICES ASSUME NEW x \in G, NEW y \in G, x \in toReady'[y]
               PROVE  /\ pc'[y] = "ready" /\ pc'[x] = "parked" /\ (op[x].sel => selectDone'[x])
                      /\ \A i \in G : x \in toReady'[i] => i = y
    BY <1>2 DEF Handed
  <2>1. CASE y = g
    <3>1. x \in D /\ pc'[g] = "ready" /\ pc'[x] = "parked" /\ \A i \in G : x \notin toReady[i]
      BY <1>6, <1>10, <2>1 DEF InHand
    <3> QED BY <1>9, <1>10, <2>1, <3>1
  <2>2. CASE y # g
    <3>1. /\ x \in toReady[y] /\ pc[y] = "ready" /\ pc[x] = "parked"
          /\ (op[x].sel => selectDone[x]) /\ \A i \in G : x \in toReady[i] => i = y
      BY <1>0, <1>10, <2>2 DEF Handed
    <3>2. x \notin D /\ x # g
      BY <1>2, <1>6, <3>1 DEF InHand
    <3> QED BY <1>9, <1>10, <2>2, <3>1, <3>2
  <2> QED BY <2>1, <2>2
<1>18. Parked'
  <2> SUFFICES ASSUME NEW x \in G, pc'[x] = "parked", ~(InHand(x)')
               PROVE  ~selectDone'[x] /\ param[x] = {} /\ \A k \in op[x].cases : Waiting(x, k)'
    BY <1>2, <1>9 DEF Parked
  <2>1. x # g /\ pc[x] = "parked" /\ ~InHand(x) /\ x \notin D
    BY <1>10, <1>11
  <2>2. /\ ~selectDone[x] /\ param[x] = {}
        /\ \A k \in op[x].cases : k \in Case /\ Waiting(x, k)
    BY <1>0, <2>1, OpIs DEF Parked
  <2>3. \A k \in op[x].cases : k.c # c
    <3>1. Live(x)
      BY <2>2 DEF Live
    <3> QED BY <1>3, <1>4, <2>1, <2>2, <3>1
  <2> QED BY <1>8, <1>9, <2>1, <2>2, <2>3
<1>19. NobodyOnClosed'
  BY <1>0, <1>7 DEF NobodyOnClosed
<1>20. ByClose'
  <2> SUFFICES ASSUME NEW x \in G, pc'[x] = "woken" \/ (pc'[x] = "parked" /\ InHand(x)'),
                      ~op[x].sel, param[x] = {}
               PROVE  /\ closed'[TheCase(x).c]
                      /\ TheCase(x).dir = "recv" => buf[TheCase(x).c] = << >>
    BY <1>2, <1>9, <1>11 DEF ByClose
  <2>1. x # g /\ pc[x] = pc'[x]
    BY <1>10
  <2>2. op[x] # NoOp /\ TheCase(x).c \in C /\ op[x].cases = {TheCase(x)} /\ TheCase(x) \in Case
    <3>1. op[x] # NoOp
      BY <1>0, <2>1 DEF Placed
    <3> QED BY <1>0, <3>1, OpIs
  <2>3. CASE x \in D
    <3>1. PICK k \in {r, s} : Waiting(x, k)
      BY <1>4, <2>3
    <3>2. k = TheCase(x) /\ k.c = c
      <4>1. k \in op[x].cases
        BY <1>0, <1>3, <3>1 DEF Queued
      <4> QED BY <1>3, <2>2, <3>1, <4>1
    <3>3. ASSUME TheCase(x).dir = "recv" PROVE buf[c] = << >>
      <4>1. recvq[c] # << >>
        <5>1. k = r
          BY <1>3, <3>1, <3>2, <3>3
        <5> QED BY <1>3, <3>1, <5>1 DEF ToSet
      <4>2. /\ cap[c] \in Nat /\ buf[c] \in Seq(G) /\ Len(buf[c]) <= cap[c]
        BY <1>0, CapNat DEF Types
      <4>3. cap[c] = 0 => buf[c] = << >>
        BY <4>2, LenProperties, EmptySeq
      <4>4. cap[c] > 0 => buf[c] = << >>
        BY <1>0, <4>1 DEF ChanInvariants
      <4> QED BY <4>2, <4>3, <4>4
    <3> QED BY <1>7, <3>2, <3>3
  <2>4. CASE x \notin D
    <3>1. pc[x] = "woken" \/ (pc[x] = "parked" /\ InHand(x))
      BY <1>11, <2>1, <2>4
    <3>2. closed[TheCase(x).c] /\ (TheCase(x).dir = "recv" => buf[TheCase(x).c] = << >>)
      BY <1>0, <3>1 DEF ByClose
    <3> QED BY <1>2, <1>7, <2>2, <3>2
  <2> QED BY <2>3, <2>4
<1>21. Locks'
  BY <1>2, <1>10, LocksKept DEF LockPhases
<1>22. FastPath' /\ Looking'
  <2>0. ASSUME NEW x \in G, pc'[x] = "fast" PROVE pc[x] = "fast" /\ TheCase(x).c \in C
    <3>1. pc[x] = "fast"
      BY <1>10, <2>0
    <3>2. op[x] # NoOp /\ ~op[x].sel
      BY <1>0, <3>1 DEF Placed
    <3> QED BY <1>0, <3>1, <3>2, OpIs
  <2>1. FastPath'
    <3> SUFFICES ASSUME NEW x \in G, pc'[x] = "fast"
                 PROVE  /\ ~op[x].block
                        /\ TheCase(x).dir = "recv" =>
                             \/ looks[x] = <<"ready", "closed">>
                             \/ looks[x] = <<"closed">> /\ (closed'[TheCase(x).c] \/ unready'[x])
      BY <1>2, <1>11 DEF FastPath
    <3>1. closed[TheCase(x).c] => closed'[TheCase(x).c]
      BY <1>7, <2>0
    <3> QED BY <1>0, <1>12, <2>0, <3>1 DEF FastPath
  <2>2. Looking'
    BY <1>0, <1>2, <2>0 DEF Looking
  <2> QED BY <2>1, <2>2
<1>23. ChanInvariants'
  <2>1. ASSUME NEW d \in C PROVE Balanced(d, buf'[d], recvq'[d], sendq'[d])
    <3>1. Balanced(d, buf[d], recvq[d], sendq[d]) /\ recvq[d] \in Seq(G) /\ sendq[d] \in Seq(G)
      BY <1>0, AllBalanced DEF Types
    <3>2. /\ recvq'[d] \in Seq(G) /\ ToSet(recvq'[d]) \subseteq ToSet(recvq[d])
          /\ sendq'[d] \in Seq(G) /\ ToSet(sendq'[d]) \subseteq ToSet(sendq[d])
          /\ buf'[d] = buf[d]
      <4>1. recvq'[d] \in {recvq[d], << >>} /\ sendq'[d] \in {sendq[d], << >>} /\ buf'[d] = buf[d]
        BY <1>2, <1>7
      <4>2. << >> \in Seq(G) /\ ToSet(<< >>) = {}
        BY DEF ToSet
      <4>3. recvq'[d] \in Seq(G) /\ ToSet(recvq'[d]) \subseteq ToSet(recvq[d])
        <5>1. CASE recvq'[d] = recvq[d]
          BY <3>1, <5>1
        <5>2. CASE recvq'[d] = << >>
          BY <4>2, <5>2
        <5> QED BY <4>1, <5>1, <5>2
      <4>4. sendq'[d] \in Seq(G) /\ ToSet(sendq'[d]) \subseteq ToSet(sendq[d])
        <5>1. CASE sendq'[d] = sendq[d]
          BY <3>1, <5>1
        <5>2. CASE sendq'[d] = << >>
          BY <4>2, <5>2
        <5> QED BY <4>1, <5>1, <5>2
      <4> QED BY <4>1, <4>3, <4>4
    <3>3. Balanced(d, buf[d], recvq'[d], sendq'[d])
      BY <3>1, <3>2, BalancedStays
    <3> QED BY <3>2, <3>3
  <2> QED BY <1>2, <2>1, AllBalanced
<1> QED
  BY <1>13, <1>14, <1>15, <1>16, <1>17, <1>18, <1>19, <1>20, <1>21, <1>22, <1>23 DEF ChanInv

\* sellock takes one lock.
LEMMA SelLockKeeps ==
  ASSUME ChanInv, Track, NEW g \in G, SelLock(g)
  PROVE  ChanInv'
<1>0. /\ Types /\ Placed /\ Outcomes /\ Queued /\ Handed /\ Parked /\ NobodyOnClosed
      /\ ByClose /\ Locks /\ FastPath /\ Looking /\ ChanInvariants
  BY DEF ChanInv
<1>1. /\ pc[g] \in {"lock1", "lock3"}
      /\ buf' = buf /\ closed' = closed /\ recvq' = recvq /\ sendq' = sendq /\ op' = op
      /\ looks' = looks /\ selectDone' = selectDone /\ param' = param /\ res' = res
      /\ toReady' = toReady
  BY DEF SelLock
<1>2. PICK c \in NextLocks(g) :
        /\ lk[c] = {} /\ lk' = [lk EXCEPT ![c] = {g}]
        /\ IF Held(g) \cup {c} # Chans(g) THEN pc' = pc
           ELSE pc' = [pc EXCEPT ![g] = IF pc[g] = "lock1" THEN "pass1" ELSE "pass3"]
  BY DEF SelLock, Jump
<1>3. /\ c \in Chans(g) /\ c \in C /\ g \notin lk[c]
      /\ \A d \in Chans(g) : d \in C /\ (g \notin lk[d] => Rank(c) <= Rank(d))
      /\ \A d : d \in Held(g) <=> d \in C /\ g \in lk[d]
  <2>1. Chans(g) \subseteq C
    BY <1>0, OpIs
  <2> QED BY <1>2, <2>1 DEF NextLocks, Held
<1>4. /\ pc' \in [G -> Phases] /\ \A x \in G \ {g} : pc'[x] = pc[x]
      /\ \/ pc'[g] = pc[g]
         \/ pc'[g] \in {"pass1", "pass3"} /\ Held(g) \cup {c} = Chans(g)
      /\ pc[g] = "lock1" => pc'[g] \in {"lock1", "pass1"}
      /\ pc[g] = "lock3" => pc'[g] \in {"lock3", "pass3"}
  <2>1. CASE Held(g) \cup {c} # Chans(g)
    <3>1. pc' = pc
      BY <1>2, <2>1
    <3> QED BY <1>0, <3>1 DEF Types
  <2>2. CASE Held(g) \cup {c} = Chans(g)
    <3>1. pc' = [pc EXCEPT ![g] = IF pc[g] = "lock1" THEN "pass1" ELSE "pass3"]
      BY <1>2, <2>2
    <3> QED BY <1>0, <1>1, <2>2, <3>1 DEF Types, Phases
  <2> QED BY <2>1, <2>2
<1>5. /\ lk' \in [C -> SUBSET G] /\ lk'[c] = {g} /\ \A d \in C \ {c} : lk'[d] = lk[d]
  BY <1>0, <1>2, <1>3 DEF Types
<1>6. /\ \A x \in G : /\ TheCase(x)' = TheCase(x) /\ (InHand(x)' <=> InHand(x))
                      /\ (Live(x)' <=> Live(x)) /\ Chans(x)' = Chans(x)
      /\ \A x, j : Waiting(x, j)' <=> Waiting(x, j)
  BY <1>1 DEF TheCase, InHand, Live, Waiting, Queue, Chans
<1>7. /\ unready' \in [G -> BOOLEAN]
      /\ \A x \in G : ~op[x].block /\ unready[x] => unready'[x]
  <2>1. op' \in [G -> Ops \cup {NoOp}]
    BY <1>0, <1>1 DEF Types
  <2> QED BY <1>0, <1>1, <2>1, TrackKeeps
<1>8. Types'
  BY <1>0, <1>1, <1>4, <1>5, <1>7 DEF Types
<1>9. Placed'
  <2> SUFFICES ASSUME NEW x \in G
               PROVE  /\ pc'[x] = "idle" => op[x] = NoOp
                      /\ op[x] = NoOp => pc'[x] \in {"idle", "ready"}
                      /\ pc'[x] \in {"fast", "start", "woken"} => ~op[x].sel
                      /\ pc'[x] \in {"lock1", "pass1", "lock3", "pass3"} => op[x].sel
                      /\ pc'[x] \in {"lock3", "pass3"} => selectDone[x]
                      /\ selectDone[x] => op[x].sel /\ pc'[x] \in {"parked", "lock3", "pass3"}
                      /\ param[x] = {} \/ \E k \in op[x].cases : param[x] = {k}
                      /\ param[x] # {} => pc'[x] \in Asleep
    BY <1>1 DEF Placed
  <2>1. CASE x = g
    <3>1. CASE pc[g] = "lock1"
      BY <1>0, <1>4, <2>1, <3>1 DEF Placed, Asleep
    <3>2. CASE pc[g] = "lock3"
      BY <1>0, <1>4, <2>1, <3>2 DEF Placed, Asleep
    <3> QED BY <1>1, <3>1, <3>2
  <2>2. CASE x # g
    BY <1>0, <1>4, <2>2 DEF Placed
  <2> QED BY <2>1, <2>2
<1>10. Outcomes'
  <2> SUFFICES ASSUME NEW x \in G
               PROVE  /\ pc'[x] \in Fresh => res[x] = NoRes
                      /\ pc'[x] \in Asleep => (res[x] = NoRes <=> param[x] = {})
                      /\ pc'[x] = "return" => res[x] # NoRes
                      /\ pc'[x] = "ready" => (res[x] = NoRes <=> op[x] = NoOp)
                      /\ res[x].how = "failed" =>
                           /\ pc'[x] = "return" /\ ~op[x].block
                           /\ op[x].sel \/ TheCase(x).dir = "recv" => unready'[x]
    BY <1>1, <1>6 DEF Outcomes
  <2>1. CASE x = g
    <3>1. res[g].how # "failed"
      BY <1>0, <1>1 DEF Outcomes
    <3>2. CASE pc[g] = "lock1"
      BY <1>0, <1>4, <2>1, <3>1, <3>2 DEF Outcomes, Fresh, Asleep
    <3>3. CASE pc[g] = "lock3"
      BY <1>0, <1>4, <2>1, <3>1, <3>3 DEF Outcomes, Fresh, Asleep
    <3> QED BY <1>1, <3>2, <3>3
  <2>2. CASE x # g
    BY <1>0, <1>4, <1>7, <2>2 DEF Outcomes
  <2> QED BY <2>1, <2>2
<1>11. Queued'
  <2> SUFFICES ASSUME NEW x \in G, NEW j \in Case, Waiting(x, j)
               PROVE  /\ j \in op[x].cases /\ (j \in param[x] => op[x].sel)
                      /\ pc'[x] \in {"parked", "lock3", "pass3"}
                      /\ Live(x) => pc'[x] = "parked" /\ param[x] = {} /\ ~InHand(x)
    BY <1>1, <1>6 DEF Queued
  <2>1. CASE x = g
    <3>1. pc[g] = "lock3" /\ ~Live(g) /\ j \in op[g].cases /\ (j \in param[g] => op[g].sel)
      BY <1>0, <1>1, <2>1 DEF Queued
    <3> QED BY <1>4, <2>1, <3>1
  <2>2. CASE x # g
    BY <1>0, <1>4, <2>2 DEF Queued
  <2> QED BY <2>1, <2>2
<1>12. Handed'
  BY <1>0, <1>1, <1>4 DEF Handed
<1>13. Parked'
  <2> SUFFICES ASSUME NEW x \in G, pc'[x] = "parked", ~InHand(x)
               PROVE  ~selectDone[x] /\ param[x] = {} /\ \A j \in op[x].cases : Waiting(x, j)
    BY <1>1, <1>6 DEF Parked
  <2>1. x # g
    BY <1>1, <1>4
  <2> QED BY <1>0, <1>4, <2>1 DEF Parked
<1>14. NobodyOnClosed' /\ ChanInvariants'
  BY <1>0, <1>1 DEF NobodyOnClosed, ChanInvariants
<1>15. ByClose'
  <2> SUFFICES ASSUME NEW x \in G, pc'[x] = "woken" \/ (pc'[x] = "parked" /\ InHand(x)),
                      ~op[x].sel, param[x] = {}
               PROVE  /\ closed[TheCase(x).c]
                      /\ TheCase(x).dir = "recv" => buf[TheCase(x).c] = << >>
    BY <1>1, <1>6 DEF ByClose
  <2>1. x # g /\ pc'[x] = pc[x]
    BY <1>1, <1>4
  <2> QED BY <1>0, <2>1 DEF ByClose
<1>16. Locks'
  <2>0. \A x \in G : Chans(x) \subseteq C
    BY <1>0, OpIs
  <2>1. \A d \in C :
          lk'[d] = {} \/ \E x \in G : /\ lk'[d] = {x} /\ d \in Chans(x) /\ op[x].sel
                                      /\ pc'[x] \in {"lock1", "pass1", "lock3", "pass3"}
    <3> TAKE d \in C
    <3>1. \A x \in G : pc[x] \in {"lock1", "pass1", "lock3", "pass3"} =>
                         pc'[x] \in {"lock1", "pass1", "lock3", "pass3"}
      BY <1>1, <1>4
    <3>2. CASE d = c
      <4>1. op[g].sel
        BY <1>0, <1>1 DEF Placed
      <4> QED BY <1>1, <1>3, <1>5, <3>1, <3>2, <4>1
    <3>3. CASE d # c
      BY <1>0, <1>5, <3>1, <3>3 DEF Locks
    <3> QED BY <3>2, <3>3
  <2>2. ASSUME NEW x \in G, pc'[x] \in {"pass1", "pass3"}, NEW d \in Chans(x)
        PROVE  x \in lk'[d]
    <3>1. CASE x = g
      <4>1. Held(g) \cup {c} = Chans(g)
        BY <1>1, <1>4, <2>2, <3>1
      <4> QED BY <1>3, <1>5, <2>2, <3>1, <4>1
    <3>2. CASE x # g
      <4>1. x \in lk[d] /\ d \in C
        BY <1>0, <1>4, <2>0, <2>2, <3>2 DEF Locks
      <4>2. d # c
        BY <1>2, <4>1
      <4> QED BY <1>5, <4>1, <4>2
    <3> QED BY <3>1, <3>2
  <2>3. ASSUME NEW x \in G, NEW d \in Chans(x), NEW e \in Chans(x),
               pc'[x] \in {"lock1", "lock3"}, x \in lk'[d], x \notin lk'[e]
        PROVE  Rank(d) < Rank(e)
    <3>1. d \in C /\ e \in C /\ pc[x] \in {"lock1", "lock3"} /\ x \notin lk[e]
      BY <1>1, <1>2, <1>4, <1>5, <2>0, <2>3
    <3>2. CASE d = c
      <4>1. x = g /\ e # c
        BY <1>5, <2>3, <3>2
      <4>2. Rank(c) <= Rank(e)
        BY <1>3, <2>3, <3>1, <4>1
      <4>3. Rank(c) \in Int /\ Rank(e) \in Int /\ Rank(c) # Rank(e)
        BY <1>3, <3>1, <4>1, RankIs
      <4> QED BY <3>2, <4>2, <4>3
    <3>3. CASE d # c
      BY <1>0, <1>5, <2>3, <3>1, <3>3 DEF Locks
    <3> QED BY <3>2, <3>3
  <2> QED BY <1>1, <1>6, <2>1, <2>2, <2>3 DEF Locks
<1>17. FastPath' /\ Looking'
  <2>0. ASSUME NEW x \in G, pc'[x] = "fast" PROVE pc[x] = "fast"
    BY <1>1, <1>4, <2>0
  <2>1. FastPath'
    <3> SUFFICES ASSUME NEW x \in G, pc'[x] = "fast"
                 PROVE  /\ ~op[x].block
                        /\ TheCase(x).dir = "recv" =>
                             \/ looks[x] = <<"ready", "closed">>
                             \/ looks[x] = <<"closed">> /\ (closed[TheCase(x).c] \/ unready'[x])
      BY <1>1, <1>6 DEF FastPath
    <3> QED BY <1>0, <1>7, <2>0 DEF FastPath
  <2>2. Looking'
    BY <1>0, <1>1, <2>0 DEF Looking
  <2> QED BY <2>1, <2>2
<1> QED
  BY <1>8, <1>9, <1>10, <1>11, <1>12, <1>13, <1>14, <1>15, <1>16, <1>17 DEF ChanInv

\* Pass 3 takes one of the select's other sudogs out of its queue.
LEMMA SelDequeueKeeps ==
  ASSUME ChanInv, Track, NEW g \in G, SelDequeue(g)
  PROVE  ChanInv'
<1>0. /\ Types /\ Placed /\ Outcomes /\ Queued /\ Handed /\ Parked /\ NobodyOnClosed
      /\ ByClose /\ Locks /\ FastPath /\ Looking /\ ChanInvariants
  BY DEF ChanInv
<1>1. /\ pc[g] = "pass3" /\ buf' = buf /\ closed' = closed /\ lk' = lk /\ op' = op /\ pc' = pc
      /\ looks' = looks /\ selectDone' = selectDone /\ param' = param /\ res' = res
      /\ toReady' = toReady
  BY DEF SelDequeue
<1>2. PICK k \in op[g].cases :
        /\ g \in ToSet(Queue(k))
        /\ recvq' = IF k.dir = "recv" THEN [recvq EXCEPT ![k.c] = RemoveFirst(@, g)] ELSE recvq
        /\ sendq' = IF k.dir = "send" THEN [sendq EXCEPT ![k.c] = RemoveFirst(@, g)] ELSE sendq
  BY DEF SelDequeue, Enqueued
<1>3. k.c \in C /\ k.dir \in {"send", "recv"}
  BY <1>0, OpIs DEF Case
<1>4. ~Live(g)
  BY <1>0, <1>1 DEF Placed, Live
<1>5. /\ recvq \in [C -> Seq(G)] /\ sendq \in [C -> Seq(G)]
      /\ \A d \in C : Tight(recvq[d], op, d, "recv")
      /\ \A d \in C : Tight(sendq[d], op, d, "send")
  BY <1>0 DEF Types
<1>6. /\ recvq' \in [C -> Seq(G)]
      /\ \A d \in C : /\ Tight(recvq'[d], op, d, "recv")
                      /\ ToSet(recvq'[d]) \subseteq ToSet(recvq[d])
                      /\ \A x \in ToSet(recvq[d]) : x # g => x \in ToSet(recvq'[d])
  <2>1. CASE k.dir = "recv"
    <3>1. PICK q : q = RemoveFirst(recvq[k.c], g)
      OBVIOUS
    <3>2. g \in ToSet(recvq[k.c])
      BY <1>2, <2>1 DEF Queue
    <3>3. /\ q \in Seq(G) /\ Tight(q, op, k.c, "recv") /\ ToSet(q) \subseteq ToSet(recvq[k.c])
          /\ ToSet(recvq[k.c]) \ {g} \subseteq ToSet(q)
      BY <1>0, <1>3, <1>5, <3>1, <3>2, Unlinked
    <3>4. recvq' = [recvq EXCEPT ![k.c] = q]
      BY <1>2, <2>1, <3>1
    <3> QED BY <1>3, <1>5, <3>3, <3>4
  <2>2. CASE k.dir # "recv"
    BY <1>2, <1>5, <2>2
  <2> QED BY <2>1, <2>2
<1>7. /\ sendq' \in [C -> Seq(G)]
      /\ \A d \in C : /\ Tight(sendq'[d], op, d, "send")
                      /\ ToSet(sendq'[d]) \subseteq ToSet(sendq[d])
                      /\ \A x \in ToSet(sendq[d]) : x # g => x \in ToSet(sendq'[d])
  <2>1. CASE k.dir = "send"
    <3>1. PICK q : q = RemoveFirst(sendq[k.c], g)
      OBVIOUS
    <3>2. g \in ToSet(sendq[k.c])
      BY <1>2, <2>1 DEF Queue
    <3>3. /\ q \in Seq(G) /\ Tight(q, op, k.c, "send") /\ ToSet(q) \subseteq ToSet(sendq[k.c])
          /\ ToSet(sendq[k.c]) \ {g} \subseteq ToSet(q)
      BY <1>0, <1>3, <1>5, <3>1, <3>2, Unlinked
    <3>4. sendq' = [sendq EXCEPT ![k.c] = q]
      BY <1>2, <2>1, <3>1
    <3> QED BY <1>3, <1>5, <3>3, <3>4
  <2>2. CASE k.dir # "send"
    BY <1>2, <1>5, <2>2
  <2> QED BY <2>1, <2>2
<1>8. Shrunk({})
  <2>1. \A d \in C : /\ \A x \in ToSet(recvq[d]) : Live(x) => x \in ToSet(recvq'[d])
                     /\ \A x \in ToSet(sendq[d]) : Live(x) => x \in ToSet(sendq'[d])
    BY <1>4, <1>6, <1>7
  <2> QED BY <1>6, <1>7, <2>1, ShrunkBy
<1>9. \A x \in G : /\ TheCase(x)' = TheCase(x) /\ (InHand(x)' <=> InHand(x))
                   /\ (Live(x)' <=> Live(x)) /\ Chans(x)' = Chans(x)
  BY <1>1 DEF TheCase, InHand, Live, Chans
<1>10. /\ unready' \in [G -> BOOLEAN]
       /\ \A x \in G : ~op[x].block /\ unready[x] => unready'[x]
  <2>1. op' \in [G -> Ops \cup {NoOp}]
    BY <1>0, <1>1 DEF Types
  <2> QED BY <1>0, <1>1, <2>1, TrackKeeps
<1>11. Types'
  BY <1>0, <1>1, <1>6, <1>7, <1>10 DEF Types
<1>12. Placed' /\ Handed' /\ Looking'
  BY <1>0, <1>1 DEF Placed, Handed, Looking
<1>13. Outcomes'
  BY <1>0, <1>1, <1>9, <1>10 DEF Outcomes
<1>14. Queued'
  BY <1>0, <1>1, <1>8, <1>9 DEF Queued, Shrunk
<1>15. Parked'
  <2> SUFFICES ASSUME NEW x \in G, pc[x] = "parked", ~InHand(x)
               PROVE  ~selectDone[x] /\ param[x] = {} /\ \A j \in op[x].cases : Waiting(x, j)'
    BY <1>1, <1>9 DEF Parked
  <2>1. ~selectDone[x] /\ param[x] = {} /\ \A j \in op[x].cases : j \in Case /\ Waiting(x, j)
    BY <1>0, OpIs DEF Parked
  <2> QED BY <1>8, <2>1 DEF Shrunk, Live
<1>16. NobodyOnClosed'
  BY <1>1, <1>8, ClosedStaysEmpty
<1>17. ByClose'
  BY <1>0, <1>1, <1>9 DEF ByClose
<1>18. Locks'
  BY <1>0, <1>1, <1>9 DEF Locks
<1>19. FastPath'
  BY <1>0, <1>1, <1>9, <1>10 DEF FastPath
<1>20. ChanInvariants'
  <2>1. ASSUME NEW d \in C PROVE Balanced(d, buf'[d], recvq'[d], sendq'[d])
    <3>1. Balanced(d, buf[d], recvq[d], sendq[d])
      BY <1>0, AllBalanced
    <3> QED BY <1>1, <1>5, <1>6, <1>7, <3>1, BalancedStays
  <2> QED BY <1>1, <2>1, AllBalanced
<1> QED
  BY <1>11, <1>12, <1>13, <1>14, <1>15, <1>16, <1>17, <1>18, <1>19, <1>20 DEF ChanInv

\* The end of pass 3: the select waits in no queue any more.
LEMMA SelPass3Keeps ==
  ASSUME ChanInv, Track, NEW g \in G, SelPass3(g)
  PROVE  ChanInv'
<1>0. /\ Types /\ Placed /\ Outcomes /\ Queued /\ Handed /\ Parked /\ NobodyOnClosed
      /\ ByClose /\ Locks /\ FastPath /\ Looking /\ ChanInvariants
  BY DEF ChanInv
<1>1. /\ pc[g] = "pass3"
      /\ selectDone' = [selectDone EXCEPT ![g] = FALSE] /\ param' = [param EXCEPT ![g] = {}]
      /\ pc' = [pc EXCEPT ![g] = IF param[g] = {} THEN "pass1" ELSE "return"]
      /\ IF param[g] = {} THEN lk' = lk ELSE lk' = Unlocked(g)
      /\ buf' = buf /\ closed' = closed /\ op' = op /\ looks' = looks /\ res' = res
      /\ recvq' = recvq /\ sendq' = sendq /\ toReady' = toReady
  BY DEF SelPass3, Jump
<1>2. \A k \in Case : ~Waiting(g, k)
  BY <1>0 DEF Queued, SelPass3, Enqueued, Waiting
<1>3. \A x, k : Waiting(x, k)' <=> Waiting(x, k)
  BY <1>1 DEF Waiting, Queue
<1>4. /\ pc' \in [G -> Phases] /\ pc'[g] = (IF param[g] = {} THEN "pass1" ELSE "return")
      /\ \A x \in G \ {g} : pc'[x] = pc[x]
      /\ selectDone' \in [G -> BOOLEAN] /\ ~selectDone'[g]
      /\ \A x \in G \ {g} : selectDone'[x] = selectDone[x]
      /\ param' \in [G -> SUBSET Case] /\ param'[g] = {} /\ \A x \in G \ {g} : param'[x] = param[x]
  <2>1. /\ pc' \in [G -> Phases] /\ pc'[g] = (IF param[g] = {} THEN "pass1" ELSE "return")
        /\ \A x \in G \ {g} : pc'[x] = pc[x]
    BY <1>0, <1>1 DEF Types, Phases
  <2>2. /\ selectDone' \in [G -> BOOLEAN] /\ ~selectDone'[g]
        /\ \A x \in G \ {g} : selectDone'[x] = selectDone[x]
    BY <1>0, <1>1 DEF Types
  <2>3. param' \in [G -> SUBSET Case] /\ param'[g] = {} /\ \A x \in G \ {g} : param'[x] = param[x]
    BY <1>0, <1>1 DEF Types
  <2> QED BY <2>1, <2>2, <2>3
<1>5. /\ op[g] # NoOp /\ op[g].sel /\ (res[g] = NoRes <=> param[g] = {}) /\ res[g].how # "failed"
  BY <1>0, <1>1 DEF Placed, Outcomes, Asleep
<1>6. \A x \in G : /\ TheCase(x)' = TheCase(x) /\ (InHand(x)' <=> InHand(x))
                    /\ (x # g => (Live(x)' <=> Live(x))) /\ Chans(x)' = Chans(x)
  BY <1>1, <1>4 DEF TheCase, InHand, Live, Chans
<1>7. /\ unready' \in [G -> BOOLEAN]
       /\ \A x \in G : ~op[x].block /\ unready[x] => unready'[x]
  <2>1. op' \in [G -> Ops \cup {NoOp}]
    BY <1>0, <1>1 DEF Types
  <2> QED BY <1>0, <1>1, <2>1, TrackKeeps
<1>8. Locks' /\ lk' \in [C -> SUBSET G]
  <2>1. CASE param[g] = {}
    <3>1. lk' = lk /\ pc'[g] = "pass1"
      BY <1>1, <1>4, <2>1
    <3>2. lk' \in [C -> SUBSET G]
      BY <1>0, <3>1 DEF Types
    <3>3. ASSUME NEW d \in C
          PROVE  lk'[d] = {} \/ \E x \in G : /\ lk'[d] = {x} /\ d \in Chans(x) /\ op[x].sel
                                             /\ pc'[x] \in {"lock1", "pass1", "lock3", "pass3"}
      <4>1. \A x \in G : pc[x] \in {"lock1", "pass1", "lock3", "pass3"} =>
                           pc'[x] \in {"lock1", "pass1", "lock3", "pass3"}
        BY <1>4, <3>1
      <4> QED BY <1>0, <3>1, <4>1 DEF Locks
    <3>4. ASSUME NEW x \in G, pc'[x] \in {"pass1", "pass3"}, NEW d \in Chans(x)
          PROVE  x \in lk'[d]
      <4>1. pc[x] \in {"pass1", "pass3"}
        BY <1>1, <1>4, <3>4
      <4> QED BY <1>0, <3>1, <3>4, <4>1 DEF Locks
    <3>5. ASSUME NEW x \in G, NEW d \in Chans(x), NEW e \in Chans(x),
                 pc'[x] \in {"lock1", "lock3"}, x \in lk'[d], x \notin lk'[e]
          PROVE  Rank(d) < Rank(e)
      <4>1. pc[x] \in {"lock1", "lock3"}
        BY <1>4, <3>1, <3>5
      <4> QED BY <1>0, <3>1, <3>5, <4>1 DEF Locks
    <3> QED BY <1>1, <1>6, <3>2, <3>3, <3>4, <3>5 DEF Locks
  <2>2. CASE param[g] # {}
    <3>1. lk' = Unlocked(g) /\ pc'[g] = "return"
      BY <1>1, <1>4, <2>2
    <3> QED BY <1>1, <1>4, <3>1, LocksKept DEF LockPhases
  <2> QED BY <2>1, <2>2
<1>9. Types'
  BY <1>0, <1>1, <1>4, <1>7, <1>8 DEF Types
<1>10. Placed'
  <2> SUFFICES ASSUME NEW x \in G
               PROVE  /\ pc'[x] = "idle" => op[x] = NoOp
                      /\ op[x] = NoOp => pc'[x] \in {"idle", "ready"}
                      /\ pc'[x] \in {"fast", "start", "woken"} => ~op[x].sel
                      /\ pc'[x] \in {"lock1", "pass1", "lock3", "pass3"} => op[x].sel
                      /\ pc'[x] \in {"lock3", "pass3"} => selectDone'[x]
                      /\ selectDone'[x] => op[x].sel /\ pc'[x] \in {"parked", "lock3", "pass3"}
                      /\ param'[x] = {} \/ \E k \in op[x].cases : param'[x] = {k}
                      /\ param'[x] # {} => pc'[x] \in Asleep
    BY <1>1 DEF Placed
  <2>1. CASE x = g
    BY <1>4, <1>5, <2>1
  <2>2. CASE x # g
    BY <1>0, <1>4, <2>2 DEF Placed
  <2> QED BY <2>1, <2>2
<1>11. Outcomes'
  <2> SUFFICES ASSUME NEW x \in G
               PROVE  /\ pc'[x] \in Fresh => res[x] = NoRes
                      /\ pc'[x] \in Asleep => (res[x] = NoRes <=> param'[x] = {})
                      /\ pc'[x] = "return" => res[x] # NoRes
                      /\ pc'[x] = "ready" => (res[x] = NoRes <=> op[x] = NoOp)
                      /\ res[x].how = "failed" =>
                           /\ pc'[x] = "return" /\ ~op[x].block
                           /\ op[x].sel \/ TheCase(x).dir = "recv" => unready'[x]
    BY <1>1, <1>6 DEF Outcomes
  <2>1. CASE x = g
    BY <1>4, <1>5, <2>1 DEF Fresh, Asleep
  <2>2. CASE x # g
    BY <1>0, <1>4, <1>7, <2>2 DEF Outcomes
  <2> QED BY <2>1, <2>2
<1>12. Queued'
  <2> SUFFICES ASSUME NEW x \in G, NEW j \in Case, Waiting(x, j)'
               PROVE  /\ j \in op[x].cases /\ (j \in param'[x] => op[x].sel)
                      /\ pc'[x] \in {"parked", "lock3", "pass3"}
                      /\ Live(x)' => pc'[x] = "parked" /\ param'[x] = {} /\ ~InHand(x)
    BY <1>1, <1>6 DEF Queued
  <2>1. x # g /\ Waiting(x, j)
    BY <1>2, <1>3
  <2> QED BY <1>0, <1>4, <1>6, <2>1 DEF Queued
<1>13. Handed'
  <2> SUFFICES ASSUME NEW x \in G, NEW y \in G, x \in toReady[y]
               PROVE  /\ pc'[y] = "ready" /\ pc'[x] = "parked" /\ (op[x].sel => selectDone'[x])
                      /\ \A i \in G : x \in toReady[i] => i = y
    BY <1>1 DEF Handed
  <2>1. x # g /\ y # g
    BY <1>0, <1>1 DEF Handed
  <2> QED BY <1>0, <1>4, <2>1 DEF Handed
<1>14. Parked'
  <2> SUFFICES ASSUME NEW x \in G, pc'[x] = "parked", ~InHand(x)
               PROVE  ~selectDone'[x] /\ param'[x] = {} /\ \A j \in op[x].cases : Waiting(x, j)'
    BY <1>1, <1>6 DEF Parked
  <2>1. x # g
    BY <1>4
  <2>2. ~selectDone[x] /\ param[x] = {} /\ \A j \in op[x].cases : j \in Case /\ Waiting(x, j)
    BY <1>0, <1>4, <2>1, OpIs DEF Parked
  <2> QED BY <1>3, <1>4, <2>1, <2>2
<1>15. NobodyOnClosed' /\ ChanInvariants'
  BY <1>0, <1>1 DEF NobodyOnClosed, ChanInvariants
<1>16. ByClose'
  <2> SUFFICES ASSUME NEW x \in G, pc'[x] = "woken" \/ (pc'[x] = "parked" /\ InHand(x)),
                      ~op[x].sel, param'[x] = {}
               PROVE  /\ closed[TheCase(x).c]
                      /\ TheCase(x).dir = "recv" => buf[TheCase(x).c] = << >>
    BY <1>1, <1>6 DEF ByClose
  <2>1. x # g /\ pc'[x] = pc[x] /\ param[x] = {}
    BY <1>4, <1>5
  <2> QED BY <1>0, <2>1 DEF ByClose
<1>17. FastPath' /\ Looking'
  <2>0. ASSUME NEW x \in G, pc'[x] = "fast" PROVE pc[x] = "fast"
    BY <1>4, <2>0
  <2>1. FastPath'
    <3> SUFFICES ASSUME NEW x \in G, pc'[x] = "fast"
                 PROVE  /\ ~op[x].block
                        /\ TheCase(x).dir = "recv" =>
                             \/ looks[x] = <<"ready", "closed">>
                             \/ looks[x] = <<"closed">> /\ (closed[TheCase(x).c] \/ unready'[x])
      BY <1>1, <1>6 DEF FastPath
    <3> QED BY <1>0, <1>7, <2>0 DEF FastPath
  <2>2. Looking'
    BY <1>0, <1>1, <2>0 DEF Looking
  <2> QED BY <2>1, <2>2
<1> QED
  BY <1>8, <1>9, <1>10, <1>11, <1>12, <1>13, <1>14, <1>15, <1>16, <1>17 DEF ChanInv

LEMMA ChanInit == Init => ChanInv
<1> SUFFICES ASSUME Init PROVE ChanInv
  OBVIOUS
<1>1. /\ \A c \in C : buf[c] = << >> /\ ~closed[c] /\ recvq[c] = << >> /\ sendq[c] = << >> /\ lk[c] = {}
      /\ \A g \in G : /\ op[g] = NoOp /\ pc[g] = "idle" /\ looks[g] = << >> /\ ~selectDone[g]
                      /\ param[g] = {} /\ res[g] = NoRes /\ toReady[g] = {} /\ ~unready[g]
  BY DEF Init
<1>2. NoRes \in Results /\ NoRes.how # "failed" /\ ~NoOp.sel
  BY DEF NoRes, Results, NoOp
<1>3. \A g \in G, k \in Case : ~Waiting(g, k)
  <2>1. \A k \in Case : k.c \in C
    BY DEF Case
  <2> QED BY <1>1, <2>1 DEF Waiting, Queue, ToSet
<1>4. Types
  <2>1. /\ buf \in [C -> Seq(G)] /\ recvq \in [C -> Seq(G)] /\ sendq \in [C -> Seq(G)]
        /\ looks \in [G -> Seq({"closed", "ready"})]
    BY DEF Init
  <2>2. /\ \A c \in C : Len(buf[c]) <= cap[c] /\ Tight(recvq[c], op, c, "recv")
                                              /\ Tight(sendq[c], op, c, "send")
        /\ \A g \in G : Len(looks[g]) <= 2
    BY <1>1, CapNat DEF Tight
  <2>3. /\ closed \in [C -> BOOLEAN] /\ lk \in [C -> SUBSET G] /\ op \in [G -> Ops \cup {NoOp}]
        /\ pc \in [G -> Phases] /\ selectDone \in [G -> BOOLEAN] /\ unready \in [G -> BOOLEAN]
        /\ param \in [G -> SUBSET Case] /\ res \in [G -> Results] /\ toReady \in [G -> SUBSET G]
    BY <1>2 DEF Init, Phases
  <2> QED BY <2>1, <2>2, <2>3 DEF Types
<1>5. Placed /\ Outcomes
  BY <1>1, <1>2 DEF Placed, Outcomes, Fresh, Asleep
<1>6. Queued /\ Handed /\ Parked /\ NobodyOnClosed /\ ByClose
  BY <1>1, <1>3 DEF Queued, Handed, Parked, NobodyOnClosed, ByClose
<1>7. Locks
  BY <1>1 DEF Locks
<1>8. FastPath /\ Looking /\ ChanInvariants
  BY <1>1 DEF FastPath, Looking, ChanInvariants
<1> QED BY <1>4, <1>5, <1>6, <1>7, <1>8 DEF ChanInv

LEMMA ChanStep == ChanInv /\ [Next]_vars => ChanInv'
<1> SUFFICES ASSUME ChanInv, [Next]_vars PROVE ChanInv'
  OBVIOUS
<1>1. ASSUME NEW g \in G, Step(g), Track PROVE ChanInv'
  BY <1>1, LookKeeps, LockedKeeps, WokenKeeps, ReadyKeeps, ReturnKeeps, SelLockKeeps,
     SelPass1Keeps, SelDequeueKeeps, SelPass3Keeps DEF Step
<1>2. ASSUME NEW g \in G, Begin(g), Track PROVE ChanInv'
  BY <1>2, CallKeeps, CloseKeeps DEF Begin
<1>3. ASSUME UNCHANGED vars PROVE ChanInv'
  <2>1. /\ buf' = buf /\ closed' = closed /\ recvq' = recvq /\ sendq' = sendq /\ lk' = lk
        /\ op' = op /\ pc' = pc /\ looks' = looks /\ selectDone' = selectDone
        /\ param' = param /\ res' = res /\ toReady' = toReady /\ unready' = unready
    BY <1>3 DEF vars
  <2>2. /\ \A x : /\ TheCase(x)' = TheCase(x) /\ (InHand(x)' <=> InHand(x))
                  /\ (Live(x)' <=> Live(x)) /\ Chans(x)' = Chans(x)
        /\ \A x, j : Waiting(x, j)' <=> Waiting(x, j)
    BY <2>1 DEF TheCase, InHand, Live, Chans, Waiting, Queue
  <2>3. Types' /\ Placed' /\ NobodyOnClosed' /\ Looking' /\ ChanInvariants'
    BY <2>1 DEF ChanInv, Types, Placed, NobodyOnClosed, Looking, ChanInvariants
  <2>4. Outcomes' /\ FastPath'
    BY <2>1, <2>2 DEF ChanInv, Outcomes, FastPath
  <2>5. Queued' /\ Parked'
    BY <2>1, <2>2 DEF ChanInv, Queued, Parked
  <2>6. Handed' /\ ByClose'
    BY <2>1, <2>2 DEF ChanInv, Handed, ByClose
  <2>7. Locks'
    BY <2>1, <2>2 DEF ChanInv, Locks
  <2> QED BY <2>3, <2>4, <2>5, <2>6, <2>7 DEF ChanInv
<1> QED BY <1>1, <1>2, <1>3 DEF Next

LEMMA ChanAlways == Spec => []ChanInv
BY ChanInit, ChanStep, PTL DEF Spec

-----------------------------------------------------------------------------
(* What follows from the inductive invariant *)

\* The types, and the invariants that chan.go's first comment states: one of the two
\* queues of a channel is empty but for one select that waits in both, no receiver waits
\* at a channel with a value and no sender at one with room.
THEOREM ChanIsSound == Spec => []ChanStructure
<1>1. ASSUME ChanInv PROVE ChanStructure
  <2>0. Types /\ Placed /\ Locks /\ ChanInvariants
    BY <1>1 DEF ChanInv
  <2>1. ASSUME NEW c \in C PROVE lk[c] \subseteq {g \in G : op[g].sel} /\ Cardinality(lk[c]) <= 1
    <3>1. CASE lk[c] = {}
      BY <3>1, FS_EmptySet
    <3>2. ASSUME NEW g \in G, lk[c] = {g}, op[g].sel
          PROVE  lk[c] \subseteq {x \in G : op[x].sel} /\ Cardinality(lk[c]) <= 1
      <4>1. Cardinality({g}) = 1
        BY FS_Singleton
      <4> QED BY <3>2, <4>1
    <3> QED BY <2>0, <3>1, <3>2 DEF Locks
  <2>2. ASSUME NEW g \in G PROVE param[g] \subseteq op[g].cases /\ Cardinality(param[g]) <= 1
    <3>1. CASE param[g] = {}
      BY <3>1, FS_EmptySet
    <3>2. ASSUME NEW k \in op[g].cases, param[g] = {k}
          PROVE  param[g] \subseteq op[g].cases /\ Cardinality(param[g]) <= 1
      <4>1. Cardinality({k}) = 1
        BY FS_Singleton
      <4> QED BY <3>2, <4>1
    <3> QED BY <2>0, <3>1, <3>2 DEF Placed
  <2>3. /\ \A c \in C : buf[c] \in Seq(G) /\ Len(buf[c]) <= cap[c]
        /\ recvq \in [C -> Seq(G)] /\ sendq \in [C -> Seq(G)]
        /\ \A g \in G : looks[g] \in Seq({"closed", "ready"}) /\ Len(looks[g]) <= 2
    BY <2>0 DEF Types
  <2>4. /\ closed \in [C -> BOOLEAN] /\ op \in [G -> Ops \cup {NoOp}] /\ pc \in [G -> Phases]
        /\ selectDone \in [G -> BOOLEAN] /\ unready \in [G -> BOOLEAN]
        /\ res \in [G -> Results] /\ toReady \in [G -> SUBSET G]
    BY <2>0 DEF Types
  <2>5. ASSUME NEW c \in C, NEW dir \in {"send", "recv"}
        PROVE  LET k == [c |-> c, dir |-> dir] IN Together(Queue(k), k)
    BY <2>0 DEF Types, Tight, Together, Queue
  <2>6. ChanTypeOK
    BY <2>1, <2>2, <2>3, <2>4, <2>5 DEF ChanTypeOK
  <2> QED BY <2>0, <2>6 DEF ChanStructure
<1> QED BY <1>1, ChanAlways, PTL

\* Taking the locks in the order of the addresses cannot deadlock: the select that holds
\* the locked channel of the highest address can go on.
THEOREM SelectsDoNotDeadlock == Spec => []LockProgress
<1>1. ASSUME ChanInv PROVE LockProgress
  <2>0. Types /\ Locks
    BY <1>1 DEF ChanInv
  <2> SUFFICES ASSUME NEW e \in C, lk[e] # {}
               PROVE  \E g \in G : /\ Held(g) # {}
                                   /\ Held(g) = Chans(g) \/ \E c \in NextLocks(g) : lk[c] = {}
    BY DEF LockProgress
  <2> DEFINE I == {Rank(c) : c \in {d \in C : lk[d] # {}}}
  <2>1. Rank(e) \in I /\ I \subseteq 1 .. Len(Order) /\ Len(Order) \in Nat
    <3>1. Len(Order) \in Nat
      BY OrderAll
    <3> QED BY <3>1, RankIs
  <2>2. PICK m \in I : \A i \in I : i <= m
    <3> HIDE DEF I
    <3> QED BY <2>1, HasGreatest
  <2>3. PICK c \in C : lk[c] # {} /\ \A d \in C : lk[d] # {} => Rank(d) <= Rank(c)
    BY <2>2
  <2>4. PICK g \in G : lk[c] = {g} /\ c \in Chans(g) /\ pc[g] \in LockPhases
    BY <2>0, <2>3 DEF Locks, LockPhases
  <2>5. c \in Held(g) /\ Chans(g) \subseteq C
    BY <2>0, <2>4, OpIs DEF Held
  <2>6. Held(g) \subseteq Chans(g)
    <3>1. ASSUME NEW d \in C, g \in lk[d] PROVE d \in Chans(g)
      BY <2>0, <3>1 DEF Locks
    <3> QED BY <3>1 DEF Held
  <2>7. CASE Chans(g) \subseteq Held(g)
    BY <2>5, <2>6, <2>7
  <2>8. CASE ~(Chans(g) \subseteq Held(g))
    <3>1. pc[g] \in {"lock1", "lock3"}
      <4>1. pc[g] \in {"pass1", "pass3"} => Chans(g) \subseteq Held(g)
        BY <2>0, <2>5 DEF Locks, Held
      <4> QED BY <2>4, <2>8, <4>1 DEF LockPhases
    <3> DEFINE J == {Rank(d) : d \in Chans(g) \ Held(g)}
    <3>2. J # {} /\ J \subseteq Nat
      BY <2>1, <2>5, <2>8, RankIs
    <3>3. PICK n \in J : \A j \in J : n <= j
      <4> HIDE DEF J
      <4> QED BY <3>2, HasLeast
    <3>4. PICK d \in Chans(g) \ Held(g) : \A x \in Chans(g) \ Held(g) : Rank(d) <= Rank(x)
      BY <3>3
    <3>5. d \in NextLocks(g) /\ d \in C /\ g \notin lk[d]
      BY <2>5, <3>4 DEF NextLocks, Held
    <3>6. Rank(c) < Rank(d)
      BY <2>0, <2>4, <3>1, <3>4, <3>5 DEF Locks
    <3>7. Rank(c) \in Int /\ Rank(d) \in Int
      BY <3>5, RankIs
    <3>8. lk[d] = {}
      BY <2>3, <3>5, <3>6, <3>7
    <3> QED BY <2>5, <3>5, <3>8
  <2> QED BY <2>7, <2>8
<1> QED BY <1>1, ChanAlways, PTL

\* A receive or a select that reports that it cannot proceed has met a moment at which
\* none of its cases could.
THEOREM FailuresAreJust == Spec => []ReceiveFailsJustly
<1>1. ASSUME ChanInv PROVE ReceiveFailsJustly
  <2>0. Types /\ Placed /\ Outcomes
    BY <1>1 DEF ChanInv
  <2> SUFFICES ASSUME NEW g \in G, op[g].sel \/ \E k \in op[g].cases : k.dir = "recv",
                      res[g].how = "failed"
               PROVE  unready[g]
    BY DEF ReceiveFailsJustly, Justified
  <2>1. pc[g] = "return" /\ (op[g].sel \/ TheCase(g).dir = "recv" => unready[g])
    BY <2>0 DEF Outcomes
  <2>2. op[g] # NoOp
    BY <2>0, <2>1 DEF Placed
  <2>3. ~op[g].sel => op[g].cases = {TheCase(g)}
    BY <2>0, <2>2, OpIs
  <2> QED BY <2>1, <2>3
<1> QED BY <1>1, ChanAlways, PTL

\* A goroutine that has been served, or whose channel has been closed, is one that some
\* goroutine is about to make ready.
THEOREM WakeupsArePending == Spec => []WakeupPending
<1>1. ASSUME ChanInv PROVE WakeupPending
  <2>0. Types /\ Handed /\ Parked /\ NobodyOnClosed
    BY <1>1 DEF ChanInv
  <2> SUFFICES ASSUME NEW g \in G, pc[g] = "parked",
                      param[g] # {} \/ \E c \in Chans(g) : closed[c]
               PROVE  \E h \in G : pc[h] = "ready" /\ g \in toReady[h]
    BY DEF WakeupPending, Due
  <2>1. InHand(g)
    <3> SUFFICES ASSUME ~InHand(g) PROVE FALSE
      OBVIOUS
    <3>1. param[g] = {} /\ \A k \in op[g].cases : Waiting(g, k)
      BY <2>0 DEF Parked
    <3>2. PICK k \in op[g].cases : closed[k.c]
      BY <3>1 DEF Chans
    <3>3. k.c \in C
      BY <2>0, OpIs DEF Case
    <3>4. Queue(k) = << >>
      BY <2>0, <3>2, <3>3 DEF NobodyOnClosed, Queue
    <3> QED BY <3>1, <3>4 DEF Waiting, ToSet
  <2> QED BY <2>0, <2>1 DEF InHand, Handed
<1> QED BY <1>1, ChanAlways, PTL

-----------------------------------------------------------------------------
(* Refinement: every step is a step of Channel or changes nothing there. *)

\* g's operation offers a case exactly while it has no outcome.
LEMMA Offered ==
  ASSUME NEW g \in G, NEW c, NEW dir
  PROVE  Abs!Offers(g, c, dir) <=> [c |-> c, dir |-> dir] \in op[g].cases /\ res[g] = NoRes
BY DEF Abs!Offers, Abs!NoResult, NoRes

LEMMA SameResults ==
  /\ \A c : Abs!Sent(c) = Sent(c)
  /\ \A c, v : Abs!Received(c, v) = Received(c, v)
  /\ Abs!NoResult = NoRes
BY DEF Abs!Sent, Sent, Abs!Received, Received, Abs!NoResult, NoRes

\* Steps that touch neither the data nor an outcome.
LEMMA QuietRefines ==
  ASSUME UNCHANGED <<buf, closed, op, res>>
  PROVE  UNCHANGED Abs!avars
BY DEF Abs!avars

LEMMA SendRefines ==
  ASSUME ChanInv, NEW g \in G, NEW c \in C, NEW seen, pc[g] \in {"start", "pass1"},
         [c |-> c, dir |-> "send"] \in op[g].cases, CanSend(c), DoSend(g, c, seen),
         UNCHANGED <<closed, op>>
  PROVE  Abs!ChannelNext
<1>0. Types /\ Placed /\ Outcomes /\ Queued /\ ChanInvariants
  BY DEF ChanInv
<1>1. Abs!Offers(g, c, "send") /\ op' = op /\ closed' = closed
  <2>1. res[g] = NoRes
    BY <1>0 DEF Outcomes, Fresh
  <2> QED BY <2>1, Offered
<1>2. CASE closed[c]
  <2>1. res' = [res EXCEPT ![g] = FoundClosed([c |-> c, dir |-> "send"])] /\ buf' = buf
    BY <1>2 DEF DoSend, Complete
  <2>2. Abs!SendPanics(g, c)
    BY <1>1, <1>2, <2>1 DEF Abs!SendPanics, Abs!Finish, FoundClosed
  <2> QED BY <2>2 DEF Abs!ChannelNext
<1>3. CASE ~closed[c] /\ Found(recvq[c])
  <2>1. PICK x : x = Peer(recvq[c])
    OBVIOUS
  <2>2. res' = [res EXCEPT ![g] = Sent(c), ![x] = Received(c, g)] /\ buf' = buf
    BY <1>3, <2>1 DEF DoSend, Serve
  <2>3. recvq[c] \in Seq(G) /\ Tight(recvq[c], op, c, "recv")
    BY <1>0 DEF Types
  <2>4. x \in ToSet(recvq[c]) /\ Live(x) /\ x \in G
    BY <1>0, <1>3, <2>1, <2>3, Dequeue, NobodyWaits
  <2>5. /\ [c |-> c, dir |-> "recv"] \in op[x].cases /\ pc[x] = "parked" /\ param[x] = {}
        /\ x # g /\ res[x] = NoRes
    <3>1. /\ [c |-> c, dir |-> "recv"] \in op[x].cases /\ pc[x] = "parked" /\ param[x] = {}
      BY <1>0, <2>4, Cases DEF Queued
    <3> QED BY <1>0, <2>4, <3>1 DEF Outcomes, Asleep
  <2>6. buf[c] = << >>
    <3>1. recvq[c] # << >>
      BY <2>4 DEF ToSet
    <3>2. cap[c] \in Nat /\ buf[c] \in Seq(G) /\ Len(buf[c]) <= cap[c]
      BY <1>0, CapNat DEF Types
    <3>3. cap[c] = 0 => buf[c] = << >>
      BY <3>2, LenProperties, EmptySeq
    <3>4. cap[c] > 0 => buf[c] = << >>
      BY <1>0, <3>1 DEF ChanInvariants
    <3> QED BY <3>2, <3>3, <3>4
  <2>7. Abs!Offers(x, c, "recv")
    BY <2>4, <2>5, Offered
  <2>8. Abs!Meet(g, x, c)
    BY <1>1, <1>3, <2>2, <2>5, <2>6, <2>7, SameResults DEF Abs!Meet
  <2> QED BY <2>4, <2>8 DEF Abs!ChannelNext
<1>4. CASE ~closed[c] /\ ~Found(recvq[c])
  <2>1. /\ res' = [res EXCEPT ![g] = Sent(c)] /\ buf' = [buf EXCEPT ![c] = Append(@, g)]
        /\ Len(buf[c]) < cap[c]
    BY <1>4 DEF DoSend, Complete, CanSend
  <2>2. Abs!SendBuffered(g, c)
    BY <1>1, <1>4, <2>1, SameResults DEF Abs!SendBuffered, Abs!Finish
  <2> QED BY <2>2 DEF Abs!ChannelNext
<1> QED BY <1>2, <1>3, <1>4

LEMMA RecvRefines ==
  ASSUME ChanInv, NEW g \in G, NEW c \in C, NEW seen, pc[g] \in {"start", "pass1"},
         [c |-> c, dir |-> "recv"] \in op[g].cases, CanRecv(c), DoRecv(g, c, seen),
         UNCHANGED <<closed, op>>
  PROVE  Abs!ChannelNext
<1>0. Types /\ Placed /\ Outcomes /\ Queued /\ NobodyOnClosed /\ ChanInvariants
  BY DEF ChanInv
<1>1. Abs!Offers(g, c, "recv") /\ op' = op /\ closed' = closed
  <2>1. res[g] = NoRes
    BY <1>0 DEF Outcomes, Fresh
  <2> QED BY <2>1, Offered
<1>2. cap[c] \in Nat /\ buf[c] \in Seq(G) /\ Len(buf[c]) <= cap[c] /\ Len(buf[c]) \in Nat
  BY <1>0, CapNat DEF Types
<1>3. CASE Found(sendq[c])
  <2>1. PICK x : x = Peer(sendq[c])
    OBVIOUS
  <2>2. /\ res' = [res EXCEPT ![g] = Received(c, IF cap[c] = 0 THEN x ELSE Head(buf[c])),
                              ![x] = Sent(c)]
        /\ buf' = IF cap[c] = 0 THEN buf ELSE [buf EXCEPT ![c] = Append(Tail(@), x)]
    BY <1>3, <2>1 DEF DoRecv, Serve
  <2>3. sendq[c] \in Seq(G) /\ Tight(sendq[c], op, c, "send")
    BY <1>0 DEF Types
  <2>4. x \in ToSet(sendq[c]) /\ Live(x) /\ x \in G
    BY <1>0, <1>3, <2>1, <2>3, Dequeue, NobodyWaits
  <2>5. /\ [c |-> c, dir |-> "send"] \in op[x].cases /\ pc[x] = "parked" /\ param[x] = {}
        /\ x # g /\ res[x] = NoRes
    <3>1. /\ [c |-> c, dir |-> "send"] \in op[x].cases /\ pc[x] = "parked" /\ param[x] = {}
      BY <1>0, <2>4, Cases DEF Queued
    <3> QED BY <1>0, <2>4, <3>1 DEF Outcomes, Asleep
  <2>6. sendq[c] # << >> /\ ~closed[c]
    <3>1. sendq[c] # << >>
      BY <2>4 DEF ToSet
    <3> QED BY <1>0, <3>1 DEF NobodyOnClosed
  <2>7. Abs!Offers(x, c, "send")
    BY <2>4, <2>5, Offered
  <2>8. ASSUME NEW v, NEW w
        PROVE  [res EXCEPT ![g] = v, ![x] = w] = [res EXCEPT ![x] = w, ![g] = v]
    BY <1>0, <2>4, <2>5 DEF Types
  <2>9. CASE cap[c] = 0
    <3>1. buf[c] = << >>
      BY <1>2, <2>9, LenProperties, EmptySeq
    <3>2. res' = [res EXCEPT ![x] = Sent(c), ![g] = Received(c, x)] /\ buf' = buf
      BY <2>2, <2>8, <2>9
    <3>3. Abs!Meet(x, g, c)
      BY <1>1, <2>5, <2>6, <2>7, <3>1, <3>2, SameResults DEF Abs!Meet
    <3> QED BY <2>4, <3>3 DEF Abs!ChannelNext
  <2>10. CASE cap[c] # 0
    <3>1. Len(buf[c]) = cap[c] /\ cap[c] > 0
      BY <1>0, <1>2, <2>6, <2>10 DEF ChanInvariants
    <3>2. /\ res' = [res EXCEPT ![x] = Sent(c), ![g] = Received(c, Head(buf[c]))]
          /\ buf' = [buf EXCEPT ![c] = Append(Tail(@), x)]
      BY <2>2, <2>8, <2>10
    <3>3. Abs!Refill(x, g, c)
      BY <1>1, <2>5, <2>6, <2>7, <3>1, <3>2, SameResults DEF Abs!Refill
    <3> QED BY <2>4, <3>3 DEF Abs!ChannelNext
  <2> QED BY <2>9, <2>10
<1>4. CASE ~Found(sendq[c]) /\ buf[c] # << >>
  <2>1. res' = [res EXCEPT ![g] = Received(c, Head(buf[c]))] /\ buf' = [buf EXCEPT ![c] = Tail(@)]
    BY <1>4 DEF DoRecv, Complete
  <2>2. Abs!RecvBuffered(g, c)
    BY <1>1, <1>4, <2>1, SameResults DEF Abs!RecvBuffered, Abs!Finish
  <2> QED BY <2>2 DEF Abs!ChannelNext
<1>5. CASE ~Found(sendq[c]) /\ buf[c] = << >>
  <2>1. /\ res' = [res EXCEPT ![g] = FoundClosed([c |-> c, dir |-> "recv"])] /\ buf' = buf
        /\ closed[c]
    BY <1>5 DEF DoRecv, Complete, CanRecv
  <2>2. Abs!RecvClosed(g, c)
    BY <1>1, <1>5, <2>1 DEF Abs!RecvClosed, Abs!Finish, FoundClosed
  <2> QED BY <2>2 DEF Abs!ChannelNext
<1> QED BY <1>3, <1>4, <1>5

\* A non-blocking operation reports that it cannot proceed.
LEMMA FailRefines ==
  ASSUME NEW g \in G, op[g].cases # {}, ~op[g].block, res[g] = NoRes,
         res' = [res EXCEPT ![g] = Failed], UNCHANGED <<buf, closed, op>>
  PROVE  Abs!ChannelNext
<1>1. Abs!Fail(g)
  BY SameResults DEF Abs!Fail, Abs!Finish, Failed
<1> QED BY <1>1 DEF Abs!ChannelNext

LEMMA CasesRefine ==
  ASSUME ChanInv, NEW g \in G, pc[g] \in {"start", "pass1"}, UNCHANGED <<closed, op>>,
         \/ \E k \in op[g].cases : \E seen : Can(k) /\ Do(g, k, seen)
         \/ GiveUp(g)
  PROVE  Abs!ChannelNext \/ UNCHANGED Abs!avars
<1>0. Types /\ Placed /\ Outcomes
  BY DEF ChanInv
<1>1. ASSUME NEW k \in op[g].cases, NEW seen, Can(k), Do(g, k, seen) PROVE Abs!ChannelNext
  <2>1. k.c \in C /\ k = [c |-> k.c, dir |-> k.dir] /\ k.dir \in {"send", "recv"}
    BY <1>0, OpIs DEF Case
  <2>2. CASE k.dir = "send"
    <3>1. CanSend(k.c) /\ DoSend(g, k.c, seen) /\ [c |-> k.c, dir |-> "send"] \in op[g].cases
      BY <1>1, <2>1, <2>2 DEF Can, Do
    <3> QED BY <2>1, <3>1, SendRefines
  <2>3. CASE k.dir = "recv"
    <3>1. CanRecv(k.c) /\ DoRecv(g, k.c, seen) /\ [c |-> k.c, dir |-> "recv"] \in op[g].cases
      BY <1>1, <2>1, <2>3 DEF Can, Do
    <3> QED BY <2>1, <3>1, RecvRefines
  <2> QED BY <2>1, <2>2, <2>3
<1>2. ASSUME GiveUp(g) PROVE Abs!ChannelNext \/ UNCHANGED Abs!avars
  <2>1. op[g] # NoOp /\ res[g] = NoRes
    BY <1>0 DEF Placed, Outcomes, Fresh
  <2>2. op[g].cases # {} /\ op[g].block \in BOOLEAN
    BY <1>0, <2>1, OpIs
  <2>3. CASE op[g].block
    BY <1>2, <2>3, QuietRefines DEF GiveUp
  <2>4. CASE ~op[g].block
    BY <1>2, <2>1, <2>2, <2>4, FailRefines DEF GiveUp
  <2> QED BY <2>2, <2>3, <2>4
<1> QED BY <1>1, <1>2

\* A sender or receiver that close has woken.
LEMMA WokenRefines ==
  ASSUME ChanInv, NEW g \in G, Woken(g)
  PROVE  Abs!ChannelNext \/ UNCHANGED Abs!avars
<1>0. Types /\ Placed /\ Outcomes /\ ByClose
  BY DEF ChanInv
<1>1. /\ pc[g] = "woken" /\ UNCHANGED <<buf, closed, op>>
      /\ res' = IF param[g] = {} THEN [res EXCEPT ![g] = FoundClosed(TheCase(g))] ELSE res
  BY DEF Woken
<1>2. CASE param[g] # {}
  BY <1>1, <1>2, QuietRefines
<1>3. CASE param[g] = {}
  <2>1. op[g] # NoOp /\ ~op[g].sel /\ res[g] = NoRes
    BY <1>0, <1>1, <1>3 DEF Placed, Outcomes, Asleep
  <2>2. /\ TheCase(g) \in Case /\ TheCase(g) \in op[g].cases /\ TheCase(g).c \in C
        /\ TheCase(g).dir \in {"send", "recv"}
    BY <1>0, <2>1, OpIs
  <2>3. PICK c \in C, dir \in {"send", "recv"} : TheCase(g) = [c |-> c, dir |-> dir]
    BY <2>2 DEF Case
  <2>4. Abs!Offers(g, c, dir)
    BY <2>1, <2>2, <2>3, Offered
  <2>5. closed[c] /\ (dir = "recv" => buf[c] = << >>)
    BY <1>0, <1>1, <1>3, <2>1, <2>3 DEF ByClose
  <2>6. res' = [res EXCEPT ![g] = FoundClosed([c |-> c, dir |-> dir])]
    BY <1>1, <1>3, <2>3
  <2>7. CASE dir = "send"
    <3>1. Abs!SendPanics(g, c)
      BY <1>1, <2>4, <2>5, <2>6, <2>7 DEF Abs!SendPanics, Abs!Finish, FoundClosed
    <3> QED BY <3>1 DEF Abs!ChannelNext
  <2>8. CASE dir = "recv"
    <3>1. Abs!RecvClosed(g, c)
      BY <1>1, <2>4, <2>5, <2>6, <2>8 DEF Abs!RecvClosed, Abs!Finish, FoundClosed
    <3> QED BY <3>1 DEF Abs!ChannelNext
  <2> QED BY <2>7, <2>8
<1> QED BY <1>2, <1>3

LEMMA LookRefines ==
  ASSUME ChanInv, NEW g \in G, Look(g)
  PROVE  Abs!ChannelNext \/ UNCHANGED Abs!avars
<1>0. Types /\ Placed /\ Outcomes /\ FastPath
  BY DEF ChanInv
<1>1. pc[g] = "fast" /\ UNCHANGED <<buf, closed, op>>
  BY DEF Look
<1>2. op[g] # NoOp /\ ~op[g].block /\ res[g] = NoRes
  BY <1>0, <1>1 DEF Placed, FastPath, Outcomes, Fresh
<1>3. op[g].cases # {}
  BY <1>0, <1>2, OpIs
<1>4. res' = res \/ res' = [res EXCEPT ![g] = Failed]
  BY DEF Look
<1> QED BY <1>1, <1>2, <1>3, <1>4, FailRefines, QuietRefines

LEMMA ReturnRefines ==
  ASSUME ChanInv, NEW g \in G, Return(g)
  PROVE  Abs!ChannelNext
<1>1. /\ Types /\ res[g] # NoRes /\ op' = [op EXCEPT ![g] = NoOp]
      /\ res' = [res EXCEPT ![g] = NoRes] /\ UNCHANGED <<buf, closed>>
  BY DEF ChanInv, Outcomes, Return
<1>2. \A x \in G : op'[x] = IF x = g THEN NoOp ELSE op[x]
  BY <1>1 DEF Types
<1>3. NoOp.cases = {} /\ NoOp.block
  BY DEF NoOp
<1>4. [x \in G |-> op[x].cases]' = [[x \in G |-> op[x].cases] EXCEPT ![g] = {}]
  BY <1>2, <1>3
<1>5. [x \in G |-> ~op[x].block]' = [[x \in G |-> ~op[x].block] EXCEPT ![g] = FALSE]
  BY <1>2, <1>3
<1>6. Abs!End(g)
  BY <1>1, <1>4, <1>5, SameResults DEF Abs!End
<1> QED BY <1>6 DEF Abs!ChannelNext

LEMMA CallRefines ==
  ASSUME ChanInv, NEW g \in G, NEW o \in Ops, Call(g, o)
  PROVE  Abs!ChannelNext
<1>1. /\ Types /\ op[g] = NoOp /\ op' = [op EXCEPT ![g] = o] /\ UNCHANGED <<buf, closed, res>>
  BY DEF ChanInv, Placed, Call
<1>2. \A x \in G : op'[x] = IF x = g THEN o ELSE op[x]
  BY <1>1 DEF Types
<1>3. op[g].cases = {} /\ o.cases \subseteq Case
  BY <1>1, OpsOK DEF NoOp, Op
<1>4. [x \in G |-> op[x].cases]' = [[x \in G |-> op[x].cases] EXCEPT ![g] = o.cases]
  BY <1>2
<1>5. PICK nb \in BOOLEAN : nb = ~o.block
  OBVIOUS
<1>6. [x \in G |-> ~op[x].block]' = [[x \in G |-> ~op[x].block] EXCEPT ![g] = nb]
  BY <1>2, <1>5
<1>7. Abs!Begin(g, o.cases, nb)
  BY <1>1, <1>3, <1>4, <1>6 DEF Abs!Begin
<1>8. Abs!Case = Case
  BY DEF Abs!Case, Case
<1> QED BY <1>3, <1>7, <1>8 DEF Abs!ChannelNext

LEMMA CloseRefines ==
  ASSUME ChanInv, NEW g \in G, NEW c \in C, Close(g, c)
  PROVE  Abs!ChannelNext
<1>1. ~closed[c] /\ closed' = [closed EXCEPT ![c] = TRUE] /\ UNCHANGED <<buf, op, res>>
  BY DEF Close
<1>2. Abs!Close(c)
  BY <1>1 DEF Abs!Close
<1> QED BY <1>2 DEF Abs!ChannelNext

\* The queues, locks and wakeups of chan.go and select.go implement the channels that the
\* language promises.
THEOREM ChanIsChannel == Spec => ImplementsChannel
<1>1. Init => Abs!ChannelInit
  <2> SUFFICES ASSUME Init PROVE Abs!ChannelInit
    OBVIOUS
  <2>1. \A g \in G : op[g] = NoOp
    BY DEF Init
  <2>2. \A g \in G : op[g].cases = {} /\ op[g].block
    BY <2>1 DEF NoOp
  <2>3. [g \in G |-> op[g].cases] = [g \in G |-> {}]
    BY <2>2
  <2>4. [g \in G |-> ~op[g].block] = [g \in G |-> FALSE]
    <3>1. \A g \in G : (~op[g].block) = FALSE
      BY <2>2, Zenon
    <3> QED BY <3>1, Zenon
  <2> QED BY <2>3, <2>4, SameResults DEF Init, Abs!ChannelInit
<1>2. ChanInv /\ [Next]_vars => [Abs!ChannelNext]_(Abs!avars)
  <2> SUFFICES ASSUME ChanInv, [Next]_vars
               PROVE  Abs!ChannelNext \/ UNCHANGED Abs!avars
    OBVIOUS
  <2>1. CASE UNCHANGED vars
    BY <2>1, QuietRefines DEF vars
  <2>2. ASSUME NEW g \in G, Step(g) PROVE Abs!ChannelNext \/ UNCHANGED Abs!avars
    <3>1. CASE Look(g)
      BY <3>1, LookRefines
    <3>2. CASE Locked(g)
      <4>1. /\ pc[g] = "start" /\ UNCHANGED <<closed, op>>
            /\ IF Can(TheCase(g)) THEN Do(g, TheCase(g), {}) ELSE GiveUp(g)
        BY <3>2 DEF Locked
      <4>2. TheCase(g) \in op[g].cases
        <5>1. op[g] # NoOp /\ ~op[g].sel /\ Types
          BY <4>1 DEF ChanInv, Placed
        <5> QED BY <5>1, OpIs
      <4> QED BY <4>1, <4>2, CasesRefine
    <3>3. CASE Woken(g)
      BY <3>3, WokenRefines
    <3>4. CASE Ready(g) \/ SelLock(g) \/ SelDequeue(g) \/ SelPass3(g)
      BY <3>4, QuietRefines DEF Ready, SelLock, SelDequeue, SelPass3
    <3>5. CASE Return(g)
      BY <3>5, ReturnRefines
    <3>6. CASE SelPass1(g)
      <4>1. /\ pc[g] = "pass1" /\ UNCHANGED <<closed, op>>
            /\ \/ \E k \in op[g].cases : \E seen : Can(k) /\ Do(g, k, seen)
               \/ GiveUp(g)
        BY <3>6 DEF SelPass1
      <4> QED BY <4>1, CasesRefine
    <3> QED BY <2>2, <3>1, <3>2, <3>3, <3>4, <3>5, <3>6 DEF Step
  <2>3. ASSUME NEW g \in G, Begin(g) PROVE Abs!ChannelNext
    BY <2>3, CallRefines, CloseRefines DEF Begin
  <2> QED BY <2>1, <2>2, <2>3 DEF Next
<1> QED BY <1>1, <1>2, ChanAlways, PTL DEF Spec, ImplementsChannel, Abs!ChannelSpec

=============================================================================
