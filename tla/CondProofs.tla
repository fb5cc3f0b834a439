----------------------------- MODULE CondProofs -----------------------------
(***************************************************************************)
(* Proofs about module Cond for any finite number of goroutines, counters  *)
(* of any even width and any lag that less allows for: nobody sleeps on a  *)
(* ticket that was called, no Signal or Broadcast passes over a waiter,    *)
(* and the notifyList is the condition variable of module CondVar.         *)
(*                                                                         *)
(* The argument is about distances on the circle of tickets.  The tickets  *)
(* from notify to wait belong to one goroutine each, on the list or on its *)
(* way to it; a goroutine on its way whose ticket has been called is, as   *)
(* far as less can see, behind notify.  What notifier g found waiting lies *)
(* between notify and the value of wait that g loaded, for as long as it   *)
(* waits.                                                                  *)
(***************************************************************************)
EXTENDS Cond, FiniteSetTheorems, SequenceTheorems, TLAPS

OnTheWay(h) == pc[h] \in {"unlock", "list"}
Ahead(h) == (tick[h] - notify) % W       \* how many tickets are called before that of h

\* Every ticket that is out has one owner.
Tickets ==
  /\ Cardinality(Unnotified) = Outstanding
  /\ \A h \in Unnotified : Ahead(h) < Outstanding
  /\ \A h, k \in Unnotified : tick[h] = tick[k] => h = k
  /\ \A i \in 0 .. Outstanding - 1 : \E h \in Unnotified : Ahead(h) = i

Lags ==
  \A h \in G : lag[h] > 0 => OnTheWay(h) /\ (notify - tick[h]) % W = lag[h]

\* The list and the local lists of the notifiers have no goroutine in common.
Lists ==
  /\ IsInjective(list)
  /\ \A h \in ToSet(list) : pc[h] = "parked"
  /\ \A g \in G : /\ pc[g] = "ready" <=> toReady[g] # << >>
                  /\ IsInjective(toReady[g])
                  /\ \A h \in ToSet(toReady[g]) : pc[h] = "parked" /\ h \notin ToSet(list)
  /\ \A g, k \in G : ToSet(toReady[g]) \cap ToSet(toReady[k]) # {} => g = k

Covers ==
  \A g \in G :
    /\ covered[g] \subseteq Unnotified
    /\ pc[g] \in {"one", "all"} => \A h \in covered[g] : Ahead(h) < (loaded[g] - notify) % W

CondInv == TypeOK /\ Tickets /\ Lags /\ Lists /\ Covers

-----------------------------------------------------------------------------
(* The circle of tickets *)

LEMMA WidthOK ==
  /\ W \in Nat /\ W > 0 /\ Half \in Nat /\ W = 2 * Half
  /\ Cardinality(G) \in Nat /\ Cardinality(G) <= Half /\ Half < W
  /\ MaxLag \in Nat /\ MaxLag <= Half
<1>1. W \in Nat /\ W > 0 /\ Half \in Nat /\ W = 2 * Half
  BY WrapsLate DEF Half
<1>2. Cardinality(G) \in Nat
  BY WrapsLate, FS_CardinalityType
<1> QED BY <1>1, <1>2, WrapsLate, LagBounded

\* The distance from b to a, and n tickets on from a.
LEMMA Distance ==
  ASSUME NEW a \in 0 .. W - 1, NEW b \in 0 .. W - 1
  PROVE  /\ (a - b) % W = IF b <= a THEN a - b ELSE a - b + W
         /\ (a - b) % W \in 0 .. W - 1
BY WidthOK

LEMMA Onward ==
  ASSUME NEW a \in 0 .. W - 1, NEW n \in 0 .. W - 1
  PROVE  /\ (a + n) % W = IF a + n < W THEN a + n ELSE a + n - W
         /\ (a + n) % W \in 0 .. W - 1
BY WidthOK

\* From a point n further on: what lies ahead of it comes nearer, and what does
\* not is behind.
LEMMA Nearer ==
  ASSUME NEW a \in 0 .. W - 1, NEW b \in 0 .. W - 1, NEW n \in 0 .. W - 1
  PROVE  /\ n <= (a - b) % W => (a - ((b + n) % W)) % W = ((a - b) % W) - n
         /\ (a - b) % W < n => (((b + n) % W) - a) % W = n - ((a - b) % W)
         /\ ((b - a) % W) + n < W => (((b + n) % W) - a) % W = ((b - a) % W) + n
<1> DEFINE c == (b + n) % W
<1>1. c = (IF b + n < W THEN b + n ELSE b + n - W) /\ c \in 0 .. W - 1
  BY Onward
<1> HIDE DEF c
<1>2. /\ (a - c) % W = IF c <= a THEN a - c ELSE a - c + W
      /\ (c - a) % W = IF a <= c THEN c - a ELSE c - a + W
      /\ (a - b) % W = IF b <= a THEN a - b ELSE a - b + W
      /\ (b - a) % W = IF a <= b THEN b - a ELSE b - a + W
  BY <1>1, Distance
<1>3. /\ n <= (a - b) % W => (a - c) % W = ((a - b) % W) - n
      /\ (a - b) % W < n => (c - a) % W = n - ((a - b) % W)
      /\ ((b - a) % W) + n < W => (c - a) % W = ((b - a) % W) + n
  BY <1>1, <1>2, WidthOK
<1> QED BY <1>3 DEF c

\* Equal distances from a point are of equal tickets.
LEMMA SameDistance ==
  ASSUME NEW a \in 0 .. W - 1, NEW b \in 0 .. W - 1, NEW c \in 0 .. W - 1
  PROVE  (a - c) % W = (b - c) % W <=> a = b
<1>1. /\ (a - c) % W = IF c <= a THEN a - c ELSE a - c + W
      /\ (b - c) % W = IF c <= b THEN b - c ELSE b - c + W
  BY Distance
<1> QED BY <1>1, WidthOK

\* What less makes of a ticket: those ahead are not less, those behind are.
LEMMA LessOK ==
  ASSUME NEW a \in 0 .. W - 1, NEW b \in 0 .. W - 1
  PROVE  /\ (a - b) % W < Half => ~less(a, b)
         /\ (b - a) % W \in 1 .. Half => less(a, b)
<1>1. /\ (a - b) % W = IF b <= a THEN a - b ELSE a - b + W
      /\ (b - a) % W = IF a <= b THEN b - a ELSE b - a + W
      /\ (a - b) % W \in 0 .. W - 1
  BY Distance
<1> QED BY <1>1, WidthOK DEF less

-----------------------------------------------------------------------------
(* Lists of goroutines *)

LEMMA ListEnd ==
  ASSUME NEW S, NEW q \in Seq(S), NEW x \in S
  PROVE  /\ Append(q, x) \in Seq(S) /\ ToSet(Append(q, x)) = ToSet(q) \cup {x}
         /\ IsInjective(q) /\ x \notin ToSet(q) => IsInjective(Append(q, x))
<1> DEFINE r == Append(q, x)
<1>1. /\ r \in Seq(S) /\ Len(r) = Len(q) + 1
      /\ DOMAIN r = 1 .. Len(q) + 1 /\ DOMAIN q = 1 .. Len(q) /\ Len(q) \in Nat
      /\ r[Len(q) + 1] = x /\ \A i \in 1 .. Len(q) : r[i] = q[i]
  BY AppendProperties, LenProperties
<1> HIDE DEF r
<1>2. \A i \in DOMAIN r : i = Len(q) + 1 \/ (i \in DOMAIN q /\ r[i] = q[i])
  BY <1>1
<1>3. ToSet(r) = ToSet(q) \cup {x}
  BY <1>1, <1>2 DEF ToSet
<1>4. IsInjective(q) /\ x \notin ToSet(q) => IsInjective(r)
  BY <1>1, <1>2 DEF IsInjective, ToSet
<1> QED BY <1>1, <1>3, <1>4 DEF r

\* A list without its element at i.
LEMMA ListRemove ==
  ASSUME NEW S, NEW q \in Seq(S), IsInjective(q), NEW i \in 1 .. Len(q)
  PROVE  /\ RemoveAt(q, i) \in Seq(S) /\ IsInjective(RemoveAt(q, i))
         /\ ToSet(RemoveAt(q, i)) = ToSet(q) \ {q[i]}
<1> DEFINE a == SubSeq(q, 1, i - 1)
           b == SubSeq(q, i + 1, Len(q))
           r == a \o b
<1>1. Len(q) \in Nat /\ DOMAIN q = 1 .. Len(q) /\ \A j \in 1 .. Len(q) : q[j] \in S
  BY LenProperties, ElementOfSeq
<1>2. a \in Seq(S) /\ Len(a) = i - 1 /\ \A j \in 1 .. i - 1 : a[j] = q[j]
  <2>1. \A j \in 1 .. i - 1 : q[j] \in S
    BY <1>1
  <2>2. /\ a \in Seq(S) /\ Len(a) = IF 1 <= i - 1 THEN (i - 1) - 1 + 1 ELSE 0
        /\ \A j \in 1 .. (i - 1) - 1 + 1 : a[j] = q[1 + j - 1]
    BY <1>1, <2>1, SubSeqProperties
  <2> HIDE DEF a
  <2> QED BY <1>1, <2>2
<1>3. /\ b \in Seq(S) /\ Len(b) = Len(q) - i
      /\ \A j \in 1 .. Len(q) - i : b[j] = q[i + j]
  <2>1. \A j \in i + 1 .. Len(q) : q[j] \in S
    BY <1>1
  <2>2. /\ b \in Seq(S) /\ Len(b) = IF i + 1 <= Len(q) THEN Len(q) - (i + 1) + 1 ELSE 0
        /\ \A j \in 1 .. Len(q) - (i + 1) + 1 : b[j] = q[i + 1 + j - 1]
    BY <1>1, <2>1, SubSeqProperties
  <2> HIDE DEF b
  <2>3. \A j \in 1 .. Len(q) - i : b[j] = q[i + j]
    <3> TAKE j \in 1 .. Len(q) - i
    <3>1. j \in 1 .. Len(q) - (i + 1) + 1 /\ i + 1 + j - 1 = i + j
      BY <1>1
    <3> QED BY <2>2, <3>1
  <2>4. Len(b) = Len(q) - i
    <3>1. Len(q) \in Int /\ i \in Int /\ i <= Len(q)
      BY <1>1
    <3>2. CASE i + 1 <= Len(q)
      BY <2>2, <3>1, <3>2
    <3>3. CASE i = Len(q)
      BY <2>2, <3>1, <3>3
    <3> QED BY <3>1, <3>2, <3>3
  <2> QED BY <2>2, <2>3, <2>4
<1> HIDE DEF a, b
<1>4. /\ r \in Seq(S) /\ Len(r) = Len(q) - 1 /\ DOMAIN r = 1 .. Len(q) - 1
      /\ \A j \in 1 .. Len(q) - 1 : r[j] = IF j <= i - 1 THEN a[j] ELSE b[j - (i - 1)]
  <2>1. /\ r \in Seq(S) /\ Len(r) = (i - 1) + (Len(q) - i)
        /\ \A j \in 1 .. (i - 1) + (Len(q) - i) :
             r[j] = IF j <= i - 1 THEN a[j] ELSE b[j - (i - 1)]
    <3>1. /\ r \in Seq(S) /\ Len(r) = Len(a) + Len(b)
          /\ \A j \in 1 .. Len(a) + Len(b) :
               r[j] = IF j <= Len(a) THEN a[j] ELSE b[j - Len(a)]
      BY <1>2, <1>3, ConcatProperties
    <3> HIDE DEF r
    <3> QED BY <1>2, <1>3, <3>1
  <2> HIDE DEF r
  <2>2. DOMAIN r = 1 .. Len(r)
    BY <2>1, LenProperties
  <2>3. (i - 1) + (Len(q) - i) = Len(q) - 1
    BY <1>1
  <2> QED BY <2>1, <2>2, <2>3
<1> HIDE DEF r
<1>5. \A j \in 1 .. Len(q) - 1 : r[j] = IF j < i THEN q[j] ELSE q[j + 1]
  <2> TAKE j \in 1 .. Len(q) - 1
  <2>1. CASE j < i
    <3>1. j \in 1 .. i - 1 /\ j <= i - 1
      BY <1>1, <2>1
    <3> QED BY <1>2, <1>4, <2>1, <3>1
  <2>2. CASE ~(j < i)
    <3>1. j - (i - 1) \in 1 .. Len(q) - i /\ i + (j - (i - 1)) = j + 1 /\ ~(j <= i - 1)
      BY <1>1, <2>2
    <3> QED BY <1>3, <1>4, <2>2, <3>1
  <2> QED BY <2>1, <2>2
<1>6. IsInjective(r)
  <2> SUFFICES ASSUME NEW j \in 1 .. Len(q) - 1, NEW k \in 1 .. Len(q) - 1, r[j] = r[k]
               PROVE  j = k
    BY <1>4 DEF IsInjective
  <2> DEFINE at(m) == IF m < i THEN m ELSE m + 1
  <2>1. at(j) \in DOMAIN q /\ at(k) \in DOMAIN q /\ q[at(j)] = q[at(k)]
    BY <1>1, <1>5
  <2>2. at(j) = at(k)
    BY <2>1 DEF IsInjective
  <2> QED BY <1>1, <2>2
<1>7. ToSet(r) = ToSet(q) \ {q[i]}
  <2>1. ASSUME NEW x \in ToSet(r) PROVE x \in ToSet(q) /\ x # q[i]
    <3>1. PICK j \in 1 .. Len(q) - 1 : x = r[j]
      BY <1>4, <2>1 DEF ToSet
    <3>2. PICK k \in DOMAIN q : k # i /\ x = q[k]
      <4>1. CASE j < i
        BY <1>1, <1>5, <3>1, <4>1
      <4>2. CASE ~(j < i)
        <5>1. j + 1 \in DOMAIN q /\ j + 1 # i /\ x = q[j + 1]
          BY <1>1, <1>5, <3>1, <4>2
        <5> QED BY <5>1
      <4> QED BY <4>1, <4>2
    <3> QED BY <1>1, <3>2 DEF ToSet, IsInjective
  <2>2. ASSUME NEW x \in ToSet(q), x # q[i] PROVE x \in ToSet(r)
    <3>1. PICK k \in 1 .. Len(q) : x = q[k] /\ k # i
      BY <1>1, <2>2 DEF ToSet
    <3>2. CASE k < i
      <4>1. k \in 1 .. Len(q) - 1 /\ r[k] = x
        BY <1>1, <1>5, <3>1, <3>2
      <4> QED BY <1>4, <4>1 DEF ToSet
    <3>3. CASE ~(k < i)
      <4>1. k - 1 \in 1 .. Len(q) - 1 /\ ~(k - 1 < i) /\ (k - 1) + 1 = k
        BY <1>1, <3>1, <3>3
      <4>2. r[k - 1] = x
        BY <1>5, <3>1, <4>1
      <4> QED BY <1>4, <4>1, <4>2 DEF ToSet
    <3> QED BY <3>2, <3>3
  <2> QED BY <2>1, <2>2
<1> QED BY <1>4, <1>6, <1>7 DEF r, a, b, RemoveAt

\* A list is its head and the rest.
LEMMA ListHead ==
  ASSUME NEW S, NEW q \in Seq(S), q # << >>, IsInjective(q)
  PROVE  /\ Head(q) \in S /\ Tail(q) \in Seq(S) /\ IsInjective(Tail(q))
         /\ Head(q) \in ToSet(q) /\ ToSet(Tail(q)) = ToSet(q) \ {Head(q)}
         /\ Tail(q) = << >> <=> Len(q) = 1
<1> DEFINE r == Tail(q)
<1>1. /\ r \in Seq(S) /\ Len(r) = Len(q) - 1 /\ Head(q) \in S
      /\ DOMAIN r = 1 .. Len(q) - 1 /\ DOMAIN q = 1 .. Len(q) /\ Len(q) \in Nat \ {0}
      /\ Head(q) = q[1] /\ \A i \in 1 .. Len(q) - 1 : r[i] = q[i + 1]
  BY HeadTailProperties, LenProperties, EmptySeq
<1>2. r = << >> <=> Len(q) = 1
  <2> HIDE DEF r
  <2>1. Len(<< >>) = 0 /\ (r # << >> => Len(r) \in Nat \ {0})
    BY <1>1, EmptySeq
  <2> QED BY <1>1, <2>1
<1> HIDE DEF r
<1>3. \A i \in DOMAIN q : i = 1 \/ (i - 1 \in DOMAIN r /\ q[i] = r[i - 1])
  <2> TAKE i \in DOMAIN q
  <2> SUFFICES ASSUME i # 1 PROVE i - 1 \in DOMAIN r /\ q[i] = r[i - 1]
    OBVIOUS
  <2>1. i - 1 \in 1 .. Len(q) - 1 /\ (i - 1) + 1 = i
    BY <1>1
  <2> QED BY <1>1, <2>1
<1>4. \A i \in DOMAIN r : i + 1 \in DOMAIN q /\ i + 1 # 1 /\ r[i] = q[i + 1] /\ 1 \in DOMAIN q
  BY <1>1
<1>5. IsInjective(r) /\ Head(q) \notin ToSet(r)
  <2>1. IsInjective(r)
    <3> SUFFICES ASSUME NEW i \in DOMAIN r, NEW j \in DOMAIN r, r[i] = r[j] PROVE i = j
      BY DEF IsInjective
    <3>1. i + 1 \in DOMAIN q /\ j + 1 \in DOMAIN q /\ q[i + 1] = q[j + 1]
      BY <1>4
    <3>2. i + 1 = j + 1
      BY <3>1 DEF IsInjective
    <3> QED BY <1>1, <3>2
  <2>2. ASSUME NEW i \in DOMAIN r PROVE r[i] # Head(q)
    <3>1. i + 1 \in DOMAIN q /\ 1 \in DOMAIN q /\ i + 1 # 1 /\ r[i] = q[i + 1] /\ Head(q) = q[1]
      BY <1>1, <1>4
    <3> QED BY <3>1 DEF IsInjective
  <2> QED BY <2>1, <2>2 DEF ToSet
<1>6. Head(q) \in ToSet(q)
  BY <1>1, 1 \in DOMAIN q DEF ToSet
<1>7. ToSet(r) = ToSet(q) \ {Head(q)}
  BY <1>1, <1>3, <1>4, <1>5 DEF ToSet
<1> QED BY <1>1, <1>2, <1>5, <1>6, <1>7 DEF r

LEMMA ListOne ==
  ASSUME NEW S, NEW x \in S
  PROVE  <<x>> \in Seq(S) /\ <<x>> # << >> /\ IsInjective(<<x>>) /\ ToSet(<<x>>) = {x}
BY DEF IsInjective, ToSet

LEMMA ListNone == ASSUME NEW S PROVE << >> \in Seq(S) /\ IsInjective(<< >>) /\ ToSet(<< >>) = {}
BY EmptySeq DEF IsInjective, ToSet

LEMMA ListElements == ASSUME NEW S, NEW q \in Seq(S) PROVE ToSet(q) \subseteq S
BY LenProperties, ElementOfSeq DEF ToSet

-----------------------------------------------------------------------------
(* Tickets that stay out, and tickets that are called *)

LEMMA Numbers ==
  ASSUME TypeOK
  PROVE  /\ Unnotified \subseteq G /\ IsFiniteSet(Unnotified)
         /\ Cardinality(Unnotified) \in Nat /\ Cardinality(Unnotified) <= Cardinality(G)
         /\ wait \in 0 .. W - 1 /\ notify \in 0 .. W - 1 /\ Outstanding \in 0 .. W - 1
         /\ \A h \in G : tick[h] \in 0 .. W - 1 /\ lag[h] \in Nat /\ Ahead(h) \in 0 .. W - 1
<1>1. Unnotified \subseteq G
  BY ListElements DEF TypeOK, Unnotified
<1>2. /\ IsFiniteSet(Unnotified)
      /\ Cardinality(Unnotified) \in Nat /\ Cardinality(Unnotified) <= Cardinality(G)
  BY <1>1, WrapsLate, FS_Subset, FS_CardinalityType
<1>3. /\ wait \in 0 .. W - 1 /\ notify \in 0 .. W - 1
      /\ \A h \in G : tick[h] \in 0 .. W - 1 /\ lag[h] \in Nat
  BY WidthOK DEF TypeOK
<1>4. Outstanding \in 0 .. W - 1 /\ \A h \in G : Ahead(h) \in 0 .. W - 1
  BY <1>3, Distance DEF Outstanding, Ahead
<1> QED BY <1>1, <1>2, <1>3, <1>4

LEMMA TicketsStay ==
  ASSUME Tickets, Unnotified' = Unnotified, wait' = wait, notify' = notify,
         \A h \in Unnotified : tick'[h] = tick[h]
  PROVE  Tickets'
BY DEF Tickets, Outstanding, Ahead

LEMMA CoversStay ==
  ASSUME Covers, Unnotified' = Unnotified, notify' = notify,
         \A h \in Unnotified : tick'[h] = tick[h],
         \A h \in G : covered'[h] = covered[h] \/ covered'[h] = {},
         \A h \in G : pc'[h] \in {"one", "all"} => pc'[h] = pc[h] /\ loaded'[h] = loaded[h]
  PROVE  Covers'
BY DEF Covers, Ahead

LEMMA CallOn ==
  ASSUME CondInv, NEW n \in 0 .. Outstanding,
         notify' = (notify + n) % W, wait' = wait,
         lag' = LagAfter(n), \A h \in G : lag'[h] <= MaxLag,
         \A h \in G : OnTheWay(h)' <=> OnTheWay(h),
         \A h \in G : OnTheWay(h) => tick'[h] = tick[h],
         ToSet(list') = ToSet(list) \ Called(n),
         \A h \in ToSet(list') : tick'[h] = tick[h]
  PROVE  /\ lag' \in [G -> 0 .. MaxLag] /\ Lags' /\ notify' \in 0 .. W - 1
         /\ Unnotified' = Unnotified \ Called(n) /\ Outstanding' = Outstanding - n
         /\ \A h \in Unnotified' : /\ tick'[h] = tick[h] /\ n <= Ahead(h)
                                   /\ Ahead(h)' = Ahead(h) - n
<1>0. TypeOK /\ Tickets /\ Lags /\ Lists /\ Outstanding \in 0 .. W - 1 /\ n \in 0 .. W - 1
  BY Numbers, WidthOK DEF CondInv
<1>1. /\ notify \in 0 .. W - 1 /\ wait \in 0 .. W - 1
      /\ \A h \in G : tick[h] \in 0 .. W - 1 /\ lag[h] \in Nat /\ Ahead(h) \in 0 .. W - 1
      /\ Unnotified \subseteq G /\ MaxLag \in Nat /\ MaxLag < W
  BY <1>0, Numbers, WidthOK
<1>2. notify' \in 0 .. W - 1
  BY <1>0, <1>1, Onward
<1>3. Outstanding' = Outstanding - n
  BY <1>0, <1>1, Nearer DEF Outstanding
<1>4. \A h \in G : lag'[h] =
        IF ~OnTheWay(h) THEN 0
        ELSE IF lag[h] > 0 THEN lag[h] + n
        ELSE IF n > Ahead(h) THEN n - Ahead(h) ELSE 0
  BY DEF LagAfter, OnTheWay, Ahead
<1>5. lag' \in [G -> 0 .. MaxLag]
  <2>1. \A h \in G : lag'[h] \in Nat
    BY <1>0, <1>1, <1>4
  <2>2. lag' = [h \in G |-> lag'[h]]
    BY DEF LagAfter
  <2>3. \A h \in G : lag'[h] \in 0 .. MaxLag
    BY <1>1, <2>1
  <2> QED BY <2>2, <2>3
<1>6. Unnotified' = Unnotified \ Called(n)
  <2>1. \A h \in G : OnTheWay(h) => (lag'[h] = 0 <=> lag[h] = 0 /\ ~(Ahead(h) < n))
    BY <1>0, <1>1, <1>4
  <2>2. Called(n) = {h \in Unnotified : Ahead(h) < n}
    BY DEF Called, Ahead
  <2>3. Unnotified = {h \in G : OnTheWay(h) /\ lag[h] = 0} \cup ToSet(list)
    BY DEF Unnotified, OnTheWay
  <2>4. Unnotified' = {h \in G : OnTheWay(h)' /\ lag'[h] = 0} \cup ToSet(list')
    BY DEF Unnotified, OnTheWay
  <2>5. \A h \in ToSet(list) : ~OnTheWay(h)
    BY <1>0 DEF Lists, OnTheWay
  <2> QED BY <2>1, <2>2, <2>3, <2>4, <2>5
<1>7. ASSUME NEW h \in Unnotified'
      PROVE  tick'[h] = tick[h] /\ n <= Ahead(h) /\ Ahead(h)' = Ahead(h) - n
  <2>1. h \in G /\ ~(Ahead(h) < n)
    BY <1>1, <1>6, <1>7 DEF Called, Ahead
  <2>2. tick'[h] = tick[h]
    BY <1>7 DEF Unnotified, OnTheWay
  <2>3. n <= Ahead(h)
    BY <1>0, <1>1, <2>1
  <2> QED BY <1>0, <1>1, <2>1, <2>2, <2>3, Nearer DEF Ahead
<1>8. Lags'
  <2> SUFFICES ASSUME NEW h \in G, lag'[h] > 0
               PROVE  OnTheWay(h)' /\ (notify' - tick'[h]) % W = lag'[h]
    BY DEF Lags
  <2>1. OnTheWay(h) /\ tick'[h] = tick[h] /\ lag'[h] <= MaxLag
    BY <1>4
  <2>2. CASE lag[h] > 0
    <3>1. lag'[h] = lag[h] + n
      BY <1>4, <2>1, <2>2
    <3>2. (notify - tick[h]) % W = lag[h]
      BY <1>0, <2>2 DEF Lags
    <3>3. lag[h] + n < W
      BY <1>0, <1>1, <2>1, <3>1, WidthOK
    <3>4. (notify' - tick[h]) % W = ((notify - tick[h]) % W) + n
      BY <1>0, <1>1, <3>2, <3>3, Nearer
    <3> QED BY <2>1, <3>1, <3>2, <3>4
  <2>3. CASE ~(lag[h] > 0)
    <3>1. lag'[h] = n - Ahead(h) /\ Ahead(h) < n
      BY <1>0, <1>1, <1>4, <2>1, <2>3
    <3>2. (notify' - tick[h]) % W = n - ((tick[h] - notify) % W)
      BY <1>0, <1>1, <3>1, Nearer DEF Ahead
    <3> QED BY <2>1, <3>1, <3>2 DEF Ahead
  <2> QED BY <2>2, <2>3
<1> QED BY <1>2, <1>3, <1>5, <1>6, <1>7, <1>8

\* The tickets that stay out keep their owners.
LEMMA TicketsCalled ==
  ASSUME CondInv, TypeOK', NEW n \in 0 .. Outstanding,
         Unnotified' = Unnotified \ Called(n), Outstanding' = Outstanding - n,
         Cardinality(Called(n)) = n,
         \A h \in Unnotified' : tick'[h] = tick[h] /\ n <= Ahead(h) /\ Ahead(h)' = Ahead(h) - n
  PROVE  Tickets'
<1>0. Tickets /\ Outstanding \in Nat /\ IsFiniteSet(Unnotified) /\ Unnotified \subseteq G
      /\ \A h \in G : Ahead(h) \in Nat
  BY Numbers, WidthOK DEF CondInv
<1>1. Called(n) = {h \in Unnotified : Ahead(h) < n}
  BY DEF Called, Ahead
<1>2. Cardinality(Unnotified') = Cardinality(Unnotified) - Cardinality(Called(n))
  <2>1. Unnotified \cap Called(n) = Called(n)
    BY <1>1
  <2>2. Cardinality(Unnotified \ Called(n))
          = Cardinality(Unnotified) - Cardinality(Unnotified \cap Called(n))
    BY <1>0, FS_Difference
  <2> QED BY <2>1, <2>2
<1>3. Cardinality(Unnotified') = Outstanding'
  BY <1>0, <1>2 DEF Tickets
<1>4. \A h \in Unnotified' : Ahead(h)' < Outstanding'
  BY <1>0 DEF Tickets
<1>5. \A i \in 0 .. Outstanding' - 1 : \E h \in Unnotified' : Ahead(h)' = i
  <2> TAKE i \in 0 .. Outstanding' - 1
  <2>1. i + n \in 0 .. Outstanding - 1
    BY <1>0
  <2> PICK h \in Unnotified : Ahead(h) = i + n
    BY <1>0, <2>1 DEF Tickets
  <2>2. h \in Unnotified'
    BY <1>0, <1>1
  <2> QED BY <1>0, <2>2
<1> QED BY <1>0, <1>3, <1>4, <1>5 DEF Tickets

\* Those a notifier found waiting are still between notify and what it loaded.
LEMMA CoversCalled ==
  ASSUME CondInv, NEW g \in G, NEW n \in 0 .. Outstanding,
         notify' = (notify + n) % W, Unnotified' = Unnotified \ Called(n),
         \A h \in Unnotified' : tick'[h] = tick[h] /\ n <= Ahead(h) /\ Ahead(h)' = Ahead(h) - n,
         \A h \in G : covered'[h] \subseteq covered[h] \ Called(n),
         \A h \in G : pc'[h] \in {"one", "all"} => pc'[h] = pc[h] /\ loaded'[h] = loaded[h]
  PROVE  Covers'
<1>0. Covers /\ TypeOK /\ notify \in 0 .. W - 1 /\ n \in 0 .. W - 1 /\ Unnotified \subseteq G
      /\ \A h \in G : Ahead(h) \in 0 .. W - 1
  BY Numbers, WidthOK DEF CondInv
<1>1. \A k \in G : covered'[k] \subseteq Unnotified'
  BY <1>0 DEF Covers
<1>2. ASSUME NEW k \in G, pc'[k] \in {"one", "all"}, NEW h \in covered'[k]
      PROVE  Ahead(h)' < (loaded'[k] - notify') % W
  <2>1. h \in Unnotified' /\ h \in G /\ h \in covered[k]
    BY <1>0, <1>1, <1>2
  <2>2. /\ pc[k] \in {"one", "all"} /\ loaded'[k] = loaded[k] /\ loaded[k] \in 0 .. W - 1
        /\ Ahead(h) < (loaded[k] - notify) % W /\ (loaded[k] - notify) % W \in 0 .. W - 1
    BY <1>0, <1>2, <2>1, Distance DEF Covers, TypeOK
  <2>3. n <= (loaded[k] - notify) % W
    BY <1>0, <2>1, <2>2, WidthOK
  <2>4. (loaded[k] - notify') % W = ((loaded[k] - notify) % W) - n
    BY <1>0, <2>2, <2>3, Nearer
  <2> QED BY <1>0, <2>1, <2>2, <2>4, WidthOK
<1> QED BY <1>1, <1>2 DEF Covers

-----------------------------------------------------------------------------
(* Each step keeps the invariant *)

PCs == {"idle"} \cup WaitPhases \cup NotifyPhases

\* g moves, and neither comes from a list nor goes to one.
LEMMA ListsStay ==
  ASSUME TypeOK, Lists, NEW g \in G, \A h \in G \ {g} : pc'[h] = pc[h],
         pc[g] \notin {"parked", "ready"}, pc'[g] # "ready",
         UNCHANGED <<list, toReady>>
  PROVE  Lists'
<1>1. list' = list /\ toReady' = toReady
      /\ ToSet(list) \subseteq G /\ \A h \in G : ToSet(toReady[h]) \subseteq G
  BY ListElements DEF TypeOK
<1>2. \A h \in G : pc[h] = "parked" => pc'[h] = "parked"
  OBVIOUS
<1>3. \A h \in G : pc'[h] = "ready" <=> pc[h] = "ready"
  OBVIOUS
<1> QED BY <1>1, <1>2, <1>3 DEF Lists

\* The tickets that are out are the same when g moves and is on its way, or not,
\* before and after.
LEMMA UnnotifiedStays ==
  ASSUME NEW g \in G, \A h \in G \ {g} : pc'[h] = pc[h] /\ lag'[h] = lag[h],
         OnTheWay(g) /\ lag[g] = 0 <=> OnTheWay(g)' /\ lag'[g] = 0, list' = list
  PROVE  Unnotified' = Unnotified
BY DEF Unnotified, OnTheWay

LEMMA LockCond ==
  ASSUME CondInv, NEW g \in G, Lock(g) \/ Unlock(g)
  PROVE  CondInv'
<1>1. /\ UNCHANGED <<wait, notify, list, pc, tick, loaded, toReady, lag, covered>>
      /\ L' \subseteq G
  BY DEF Lock, Unlock
<1>2. Unnotified' = Unnotified /\ TypeOK' /\ Lists'
  BY <1>1 DEF CondInv, Unnotified, TypeOK, Lists
<1>3. Tickets' /\ Covers' /\ Lags'
  BY <1>1, <1>2, TicketsStay, CoversStay DEF CondInv, Lags, OnTheWay
<1> QED BY <1>2, <1>3 DEF CondInv

LEMMA WaitAddCond ==
  ASSUME CondInv, NEW g \in G, WaitAdd(g)
  PROVE  CondInv'
<1>0. /\ TypeOK /\ Tickets /\ Lags /\ Lists /\ Covers /\ pc[g] = "idle"
      /\ tick' = [tick EXCEPT ![g] = wait] /\ wait' = (wait + 1) % W
      /\ pc' = [pc EXCEPT ![g] = "unlock"]
      /\ UNCHANGED <<L, notify, list, loaded, toReady, lag, covered>>
      /\ pc \in [G -> PCs] /\ tick \in [G -> 0 .. W - 1] /\ lag[g] = 0
  <2>1. TypeOK /\ Lags /\ pc[g] = "idle"
    BY DEF CondInv, WaitAdd
  <2>2. lag[g] = 0
    BY <2>1, Numbers DEF Lags, OnTheWay
  <2> QED BY <2>1, <2>2 DEF CondInv, WaitAdd, Jump, TypeOK, PCs
<1>1. /\ pc'[g] = "unlock" /\ tick'[g] = wait
      /\ \A h \in G \ {g} : pc'[h] = pc[h] /\ tick'[h] = tick[h]
  BY <1>0
<1>2. g \notin Unnotified
  BY <1>0 DEF Unnotified, Lists
<1>3. /\ Unnotified \subseteq G /\ IsFiniteSet(Unnotified)
      /\ wait \in 0 .. W - 1 /\ notify \in 0 .. W - 1 /\ Outstanding \in 0 .. W - 1
      /\ \A h \in G : tick[h] \in 0 .. W - 1 /\ Ahead(h) \in 0 .. W - 1
  BY <1>0, Numbers
<1>4. Unnotified' = Unnotified \cup {g}
  BY <1>0, <1>1 DEF Unnotified
<1>5. Cardinality(Unnotified') = Outstanding + 1 /\ Outstanding + 1 <= Cardinality(G)
  <2>1. Cardinality(Unnotified') = Outstanding + 1
    BY <1>0, <1>2, <1>3, <1>4, FS_AddElement DEF Tickets
  <2>2. Unnotified' \subseteq G
    BY <1>3, <1>4
  <2>3. Cardinality(Unnotified') <= Cardinality(G)
    BY <2>2, WrapsLate, FS_Subset
  <2> QED BY <2>1, <2>3
<1>6. wait' \in 0 .. W - 1 /\ Outstanding' = Outstanding + 1
  <2>1. 1 \in 0 .. W - 1 /\ Outstanding + 1 < W
    BY <1>3, <1>5, WidthOK
  <2>2. (((wait + 1) % W) - notify) % W = ((wait - notify) % W) + 1
    BY <1>3, <2>1, Nearer DEF Outstanding
  <2> QED BY <1>0, <1>3, <2>1, <2>2, Onward DEF Outstanding
<1>7. TypeOK'
  BY <1>0, <1>3, <1>6 DEF TypeOK, WaitPhases
<1>8. Ahead(g)' = Outstanding /\ \A h \in Unnotified : h # g /\ Ahead(h)' = Ahead(h)
  BY <1>0, <1>1, <1>2, <1>3 DEF Ahead, Outstanding
<1>9. Tickets'
  <2>1. \A h \in Unnotified' : Ahead(h)' < Outstanding'
    BY <1>0, <1>3, <1>4, <1>6, <1>8, WidthOK DEF Tickets
  <2>2. \A h \in Unnotified : tick[h] # wait
    <3> TAKE h \in Unnotified
    <3>1. (tick[h] - notify) % W < (wait - notify) % W
      BY <1>0 DEF Tickets, Ahead, Outstanding
    <3>2. (tick[h] - notify) % W \in 0 .. W - 1
      BY <1>3 DEF Ahead
    <3> QED BY <3>1, <3>2, WidthOK
  <2>3. \A h, k \in Unnotified' : tick'[h] = tick'[k] => h = k
    BY <1>0, <1>1, <1>3, <1>4, <1>8, <2>2 DEF Tickets
  <2>4. \A i \in 0 .. Outstanding' - 1 : \E h \in Unnotified' : Ahead(h)' = i
    <3> TAKE i \in 0 .. Outstanding' - 1
    <3>1. CASE i = Outstanding
      BY <1>4, <1>8, <3>1
    <3>2. CASE i # Outstanding
      <4>1. i \in 0 .. Outstanding - 1
        BY <1>3, <1>6, <3>2, WidthOK
      <4>2. PICK h \in Unnotified : Ahead(h) = i
        BY <1>0, <4>1 DEF Tickets
      <4> QED BY <1>4, <1>8, <4>2
    <3> QED BY <3>1, <3>2
  <2> QED BY <1>5, <1>6, <2>1, <2>3, <2>4 DEF Tickets
<1>10. Lags'
  BY <1>0, <1>1 DEF Lags, OnTheWay
<1>11. Lists'
  BY <1>0, <1>1, ListsStay
<1>12. Covers'
  <2>1. \A h \in G : covered[h] \subseteq Unnotified'
    BY <1>0, <1>4 DEF Covers
  <2>2. \A h \in G : pc'[h] \in {"one", "all"} => pc[h] \in {"one", "all"}
    BY <1>0, <1>1
  <2> QED BY <1>0, <1>8, <2>1, <2>2 DEF Covers
<1> QED BY <1>7, <1>9, <1>10, <1>11, <1>12 DEF CondInv

LEMMA WaitUnlockCond ==
  ASSUME CondInv, NEW g \in G, WaitUnlock(g) \/ WaitRelock(g)
  PROVE  CondInv'
<1>0. /\ TypeOK /\ Tickets /\ Lags /\ Lists /\ Covers /\ L' \subseteq G
      /\ UNCHANGED <<wait, notify, list, tick, loaded, toReady, lag, covered>>
      /\ pc \in [G -> PCs]
  BY DEF CondInv, WaitUnlock, WaitRelock, TypeOK, PCs
<1>1. /\ pc' \in [G -> PCs] /\ \A h \in G \ {g} : pc'[h] = pc[h]
      /\ \/ pc[g] = "unlock" /\ pc'[g] = "list"
         \/ pc[g] = "relock" /\ pc'[g] = "idle"
  BY <1>0 DEF WaitUnlock, WaitRelock, Jump, PCs, WaitPhases
<1>2. \A h \in G : OnTheWay(h)' <=> OnTheWay(h)
  BY <1>1 DEF OnTheWay
<1>3. Unnotified' = Unnotified
  BY <1>0, <1>2 DEF Unnotified, OnTheWay
<1>4. TypeOK' /\ Lags'
  BY <1>0, <1>1, <1>2 DEF TypeOK, PCs, Lags
<1>5. Lists'
  BY <1>0, <1>1, ListsStay
<1>6. Tickets' /\ Covers'
  BY <1>0, <1>1, <1>3, TicketsStay, CoversStay
<1> QED BY <1>4, <1>5, <1>6 DEF CondInv

\* A waiter parks when less says that its ticket is still to be called, and less
\* is right.
LEMMA LessRight ==
  ASSUME CondInv, NEW g \in G, OnTheWay(g)
  PROVE  less(tick[g], notify) <=> lag[g] > 0
<1>0. /\ TypeOK /\ Tickets /\ Lags /\ tick[g] \in 0 .. W - 1 /\ notify \in 0 .. W - 1
      /\ lag[g] \in 0 .. MaxLag /\ Ahead(g) \in 0 .. W - 1
  BY Numbers DEF CondInv, TypeOK
<1>1. CASE lag[g] > 0
  <2>1. (notify - tick[g]) % W \in 1 .. Half
    BY <1>0, <1>1, WidthOK DEF Lags
  <2> QED BY <1>0, <1>1, <2>1, LessOK
<1>2. CASE ~(lag[g] > 0)
  <2>1. g \in Unnotified
    BY <1>0, <1>2, WidthOK DEF Unnotified, OnTheWay
  <2>2. Ahead(g) < Outstanding /\ Outstanding <= Half /\ Outstanding \in Nat
    BY <1>0, <2>1, Numbers, WidthOK DEF Tickets
  <2>3. (tick[g] - notify) % W < Half
    BY <1>0, <2>2, WidthOK DEF Ahead
  <2> QED BY <1>0, <1>2, <2>3, LessOK
<1> QED BY <1>1, <1>2

LEMMA WaitListCond ==
  ASSUME CondInv, NEW g \in G, WaitList(g)
  PROVE  CondInv'
<1>0. /\ TypeOK /\ Tickets /\ Lags /\ Lists /\ Covers /\ pc[g] = "list"
      /\ lag' = [lag EXCEPT ![g] = 0] /\ lag \in [G -> 0 .. MaxLag]
      /\ UNCHANGED <<L, wait, notify, loaded, toReady, covered>>
      /\ pc \in [G -> PCs] /\ tick \in [G -> 0 .. W - 1] /\ list \in Seq(G)
      /\ less(tick[g], notify) <=> lag[g] > 0
  BY LessRight DEF CondInv, WaitList, TypeOK, PCs, OnTheWay
<1>1. lag' \in [G -> 0 .. MaxLag] /\ lag'[g] = 0 /\ \A h \in G \ {g} : lag'[h] = lag[h]
  BY <1>0, WidthOK
<1>2. CASE lag[g] > 0
  <2>1. /\ pc' = [pc EXCEPT ![g] = "relock"] /\ tick' = [tick EXCEPT ![g] = 0] /\ list' = list
    BY <1>0, <1>2 DEF WaitList, Jump
  <2>2. /\ pc'[g] = "relock" /\ \A h \in G \ {g} : pc'[h] = pc[h] /\ tick'[h] = tick[h]
    BY <1>0, <2>1
  <2>3. TypeOK'
    <3>1. 0 \in 0 .. W - 1 /\ "relock" \in PCs
      BY WidthOK DEF PCs, WaitPhases
    <3> QED BY <1>0, <1>1, <2>1, <3>1 DEF TypeOK, PCs
  <2>4. g \notin Unnotified
    BY <1>0, <1>2 DEF Unnotified, Lists
  <2>5. Unnotified' = Unnotified
    BY <1>1, <1>2, <2>1, <2>2, UnnotifiedStays DEF OnTheWay
  <2>6. \A h \in Unnotified : h \in G /\ tick'[h] = tick[h]
    BY <1>0, <2>2, <2>4, Numbers
  <2>7. Tickets' /\ Covers'
    BY <1>0, <2>2, <2>5, <2>6, TicketsStay, CoversStay
  <2>8. Lags'
    BY <1>0, <1>1, <2>2 DEF Lags, OnTheWay
  <2>9. Lists'
    BY <1>0, <2>1, <2>2, ListsStay
  <2> QED BY <2>3, <2>7, <2>8, <2>9 DEF CondInv
<1>3. CASE ~(lag[g] > 0)
  <2>1. /\ pc' = [pc EXCEPT ![g] = "parked"] /\ tick' = tick /\ list' = Append(list, g)
    BY <1>0, <1>3 DEF WaitList, Jump
  <2>2. /\ pc'[g] = "parked" /\ \A h \in G \ {g} : pc'[h] = pc[h]
    BY <1>0, <2>1
  <2>3. g \notin ToSet(list)
    BY <1>0 DEF Lists
  <2>4. list' \in Seq(G) /\ ToSet(list') = ToSet(list) \cup {g} /\ IsInjective(list')
    BY <1>0, <2>1, <2>3, ListEnd DEF Lists
  <2>5. TypeOK'
    <3>1. "parked" \in PCs
      BY DEF PCs, WaitPhases
    <3> QED BY <1>0, <1>1, <2>1, <2>4, <3>1 DEF TypeOK, PCs
  <2>6. Unnotified' = Unnotified
    <3>1. lag[g] = 0
      BY <1>0, <1>3, WidthOK
    <3> QED BY <1>0, <1>1, <2>2, <2>4, <3>1 DEF Unnotified
  <2>7. Tickets' /\ Covers'
    BY <1>0, <2>1, <2>2, <2>6, TicketsStay, CoversStay
  <2>8. Lags'
    BY <1>0, <1>1, <2>1, <2>2 DEF Lags, OnTheWay
  <2>9. Lists'
    <3>1. ToSet(list) \subseteq G /\ \A h \in G : ToSet(toReady[h]) \subseteq G
      BY <1>0, ListElements DEF TypeOK
    <3>2. \A h \in G : g \notin ToSet(toReady[h])
      BY <1>0 DEF Lists
    <3>3. \A h \in G : (pc'[h] = "ready" <=> pc[h] = "ready") /\ (pc[h] = "parked" => pc'[h] = "parked")
      BY <1>0, <2>2
    <3>4. IsInjective(list') /\ \A h \in ToSet(list') : pc'[h] = "parked"
      <4>1. \A h \in ToSet(list) : h \in G /\ pc[h] = "parked"
        BY <1>0, <3>1 DEF Lists
      <4>2. SUFFICES ASSUME NEW h \in ToSet(list) \cup {g}
                     PROVE  pc'[h] = "parked"
        BY <2>4
      <4> QED BY <2>2, <3>3, <4>1
    <3>5. ASSUME NEW k \in G
          PROVE  /\ pc'[k] = "ready" <=> toReady'[k] # << >>
                 /\ IsInjective(toReady'[k])
                 /\ \A h \in ToSet(toReady'[k]) : pc'[h] = "parked" /\ h \notin ToSet(list')
      <4>1. toReady'[k] = toReady[k] /\ ToSet(toReady[k]) \subseteq G /\ g \notin ToSet(toReady[k])
        BY <1>0, <3>1, <3>2
      <4>2. /\ pc[k] = "ready" <=> toReady[k] # << >>
            /\ IsInjective(toReady[k])
            /\ \A h \in ToSet(toReady[k]) : pc[h] = "parked" /\ h \notin ToSet(list)
        BY <1>0 DEF Lists
      <4> QED BY <2>4, <3>3, <4>1, <4>2
    <3>6. \A k, j \in G : ToSet(toReady'[k]) \cap ToSet(toReady'[j]) # {} => k = j
      BY <1>0 DEF Lists
    <3> QED BY <3>4, <3>5, <3>6, Zenon DEF Lists
  <2> QED BY <2>5, <2>7, <2>8, <2>9 DEF CondInv
<1> QED BY <1>2, <1>3

LEMMA NotifyCallCond ==
  ASSUME CondInv, NEW g \in G, NEW phase \in {"one", "all"}, NotifyCall(g, phase)
  PROVE  CondInv'
<1>0. /\ TypeOK /\ Tickets /\ Lags /\ Lists /\ Covers /\ pc[g] = "idle"
      /\ loaded' = [loaded EXCEPT ![g] = wait] /\ pc' = [pc EXCEPT ![g] = phase]
      /\ covered' = [covered EXCEPT ![g] = Unnotified]
      /\ UNCHANGED <<L, wait, notify, list, tick, toReady, lag>>
      /\ pc \in [G -> PCs] /\ loaded \in [G -> 0 .. W - 1] /\ covered \in [G -> SUBSET G]
  BY DEF CondInv, NotifyCall, Jump, TypeOK, PCs
<1>1. /\ pc'[g] = phase /\ loaded'[g] = wait /\ covered'[g] = Unnotified
      /\ \A h \in G \ {g} : pc'[h] = pc[h] /\ loaded'[h] = loaded[h] /\ covered'[h] = covered[h]
  BY <1>0
<1>2. Unnotified' = Unnotified
  BY <1>0, <1>1, UnnotifiedStays DEF OnTheWay
<1>3. TypeOK'
  <2>1. Unnotified \subseteq G /\ wait \in 0 .. W - 1
    BY <1>0, Numbers
  <2> QED BY <1>0, <2>1 DEF TypeOK, NotifyPhases
<1>4. Lags' /\ Tickets'
  BY <1>0, <1>1, <1>2, TicketsStay DEF Lags, OnTheWay
<1>5. Lists'
  BY <1>0, <1>1, ListsStay
<1>6. Covers'
  BY <1>0, <1>1, <1>2 DEF Covers, Tickets, Ahead, Outstanding
<1> QED BY <1>3, <1>4, <1>5, <1>6 DEF CondInv

LEMMA NotifyFastCond ==
  ASSUME CondInv, NEW g \in G, NotifyFast(g)
  PROVE  CondInv'
<1>0. /\ TypeOK /\ Tickets /\ Lags /\ Lists /\ Covers /\ pc[g] \in {"one", "all"}
      /\ loaded' = [loaded EXCEPT ![g] = 0]
      /\ UNCHANGED <<L, wait, notify, list, tick, toReady, lag>>
      /\ pc \in [G -> PCs] /\ loaded \in [G -> 0 .. W - 1] /\ covered \in [G -> SUBSET G]
  BY DEF CondInv, NotifyFast, TypeOK, PCs
<1> PICK ph \in {"idle", "oneLocked", "allLocked"} : pc' = [pc EXCEPT ![g] = ph]
  BY DEF NotifyFast, NotifyDone, Jump
<1>1. /\ pc'[g] = ph
      /\ \A h \in G \ {g} : pc'[h] = pc[h] /\ loaded'[h] = loaded[h]
      /\ covered' \in [G -> SUBSET G]
      /\ \A h \in G : covered'[h] = covered[h] \/ covered'[h] = {}
  BY <1>0 DEF NotifyFast, NotifyDone
<1>2. Unnotified' = Unnotified
  BY <1>0, <1>1, UnnotifiedStays DEF OnTheWay
<1>3. TypeOK'
  <2>1. 0 \in 0 .. W - 1 /\ ph \in PCs
    BY WidthOK DEF PCs, NotifyPhases
  <2>2. loaded' \in [G -> 0 .. W - 1] /\ pc' \in [G -> PCs]
    BY <1>0, <2>1
  <2> QED BY <1>0, <1>1, <2>2 DEF TypeOK, PCs
<1>4. Lags' /\ Tickets'
  BY <1>0, <1>1, <1>2, TicketsStay DEF Lags, OnTheWay
<1>5. Lists'
  BY <1>0, <1>1, ListsStay
<1>6. Covers'
  BY <1>0, <1>1, <1>2, CoversStay
<1> QED BY <1>3, <1>4, <1>5, <1>6 DEF CondInv

\* The next ticket to call has an owner, and it is the one that is called.
LEMMA NextOwner ==
  ASSUME CondInv, notify # wait
  PROVE  /\ Outstanding > 0 /\ 1 \in 0 .. Outstanding
         /\ \E o \in Unnotified :
              /\ Called(1) = {o} /\ tick[o] = notify
              /\ \A h \in Unnotified : tick[h] = notify => h = o
<1>0. /\ TypeOK /\ Tickets /\ Outstanding \in Nat /\ wait \in 0 .. W - 1 /\ notify \in 0 .. W - 1
      /\ Unnotified \subseteq G
      /\ \A h \in G : tick[h] \in 0 .. W - 1 /\ Ahead(h) \in Nat
  BY Numbers, WidthOK DEF CondInv
<1>1. (notify - notify) % W = 0
  BY <1>0, WidthOK, Distance
<1>2. Outstanding > 0
  <2>1. (wait - notify) % W # (notify - notify) % W
    BY <1>0, SameDistance
  <2> QED BY <1>0, <1>1, <2>1 DEF Outstanding
<1>3. PICK o \in Unnotified : Ahead(o) = 0
  BY <1>0, <1>2 DEF Tickets
<1>4. \A h \in Unnotified : Ahead(h) = 0 <=> tick[h] = notify
  BY <1>0, <1>1, SameDistance DEF Ahead
<1>5. Called(1) = {o}
  <2>1. Called(1) = {h \in Unnotified : Ahead(h) = 0}
    BY <1>0 DEF Called, Ahead
  <2> QED BY <1>0, <1>3, <1>4, <2>1 DEF Tickets
<1> QED BY <1>0, <1>2, <1>3, <1>4, <1>5 DEF Tickets

\* A call of the next ticket takes its owner off the list, if it is there.
LEMMA NotifyOneCalls ==
  ASSUME CondInv, NEW g \in G, NotifyOne(g), notify # wait
  PROVE  /\ Lists' /\ list' \in Seq(G) /\ toReady' \in [G -> Seq(G)] /\ pc' \in [G -> PCs]
         /\ tick' \in [G -> 0 .. W - 1] /\ lag' \in [G -> 0 .. MaxLag] /\ Lags'
         /\ notify' = (notify + 1) % W /\ notify' \in 0 .. W - 1
         /\ covered' = [h \in G |-> IF h = g THEN {} ELSE covered[h] \ Called(1)]
         /\ \A h \in G \ {g} : pc'[h] = pc[h]
         /\ pc'[g] \in {"idle", "ready"}
         /\ 1 \in 0 .. Outstanding /\ Cardinality(Called(1)) = 1
         /\ Unnotified' = Unnotified \ Called(1) /\ Outstanding' = Outstanding - 1
         /\ \A h \in Unnotified' : /\ tick'[h] = tick[h] /\ 1 <= Ahead(h)
                                   /\ Ahead(h)' = Ahead(h) - 1
<1> DEFINE at == {i \in 1 .. Len(list) : tick[list[i]] = notify}
<1>0. /\ TypeOK /\ Tickets /\ Lags /\ Lists /\ Covers /\ pc[g] = "oneLocked"
      /\ UNCHANGED <<L, wait, loaded>>
      /\ pc \in [G -> PCs] /\ covered \in [G -> SUBSET G] /\ list \in Seq(G)
      /\ toReady \in [G -> Seq(G)] /\ tick \in [G -> 0 .. W - 1]
  BY DEF CondInv, NotifyOne, TypeOK, PCs
<1>1. PICK o \in Unnotified :
        /\ Called(1) = {o} /\ tick[o] = notify
        /\ \A h \in Unnotified : tick[h] = notify => h = o
  BY NextOwner
<1>2. /\ notify' = (notify + 1) % W /\ lag' = LagAfter(1) /\ \A h \in G : lag'[h] <= MaxLag
      /\ covered' = [h \in G |-> IF h = g THEN {} ELSE covered[h] \ Called(1)]
      /\ \/ /\ at = {} /\ pc' = [pc EXCEPT ![g] = "idle"]
            /\ UNCHANGED <<list, toReady, tick>>
         \/ \E i \in at : /\ list' = RemoveAt(list, i)
                          /\ toReady' = [toReady EXCEPT ![g] = <<list[i]>>]
                          /\ tick' = [h \in G |-> IF h \in {list[i]} THEN 0 ELSE tick[h]]
                          /\ pc' = [pc EXCEPT ![g] = "ready"]
  BY DEF NotifyOne, Account, DropTickets, Jump
<1>3. ToSet(list) \subseteq Unnotified /\ Unnotified \subseteq G /\ 1 \in 0 .. Outstanding
      /\ DOMAIN list = 1 .. Len(list)
  BY <1>0, Numbers, NextOwner, LenProperties DEF Unnotified
<1>4. /\ Lists' /\ list' \in Seq(G) /\ toReady' \in [G -> Seq(G)] /\ pc' \in [G -> PCs]
      /\ tick' \in [G -> 0 .. W - 1]
      /\ ToSet(list') = ToSet(list) \ Called(1)
      /\ \A h \in ToSet(list') : tick'[h] = tick[h]
      /\ \A h \in G : OnTheWay(h) => tick'[h] = tick[h]
      /\ \A h \in G \ {g} : pc'[h] = pc[h]
      /\ pc'[g] \in {"idle", "ready"}
  <2>1. CASE at = {} /\ pc' = [pc EXCEPT ![g] = "idle"] /\ UNCHANGED <<list, toReady, tick>>
    <3>1. o \notin ToSet(list)
      BY <1>1, <1>3, <2>1 DEF ToSet
    <3>2. pc'[g] = "idle" /\ \A h \in G \ {g} : pc'[h] = pc[h]
      BY <1>0, <2>1
    <3>3. Lists'
      BY <1>0, <2>1, <3>2, ListsStay
    <3> QED BY <1>0, <1>1, <2>1, <3>1, <3>2, <3>3 DEF PCs
  <2>2. ASSUME NEW i \in at, list' = RemoveAt(list, i),
               toReady' = [toReady EXCEPT ![g] = <<list[i]>>],
               tick' = [h \in G |-> IF h \in {list[i]} THEN 0 ELSE tick[h]],
               pc' = [pc EXCEPT ![g] = "ready"]
        PROVE  <1>4
    <3>1. list[i] = o /\ o \in ToSet(list) /\ o \in G
      BY <1>1, <1>3 DEF ToSet
    <3>2. list' \in Seq(G) /\ IsInjective(list') /\ ToSet(list') = ToSet(list) \ {o}
      BY <1>0, <2>2, <3>1, ListRemove DEF Lists
    <3>3. /\ pc'[g] = "ready" /\ \A h \in G \ {g} : pc'[h] = pc[h] /\ toReady'[h] = toReady[h]
          /\ toReady'[g] = <<o>>
      BY <1>0, <2>2, <3>1
    <3>4. <<o>> \in Seq(G) /\ <<o>> # << >> /\ IsInjective(<<o>>) /\ ToSet(<<o>>) = {o}
      BY <3>1, ListOne
    <3>5. tick' \in [G -> 0 .. W - 1] /\ toReady' \in [G -> Seq(G)] /\ pc' \in [G -> PCs]
      <4>1. 0 \in 0 .. W - 1 /\ "ready" \in PCs
        BY WidthOK DEF PCs, NotifyPhases
      <4> QED BY <1>0, <2>2, <3>1, <3>4, <4>1
    <3>6. /\ pc[o] = "parked" /\ o # g /\ \A k \in G : o \notin ToSet(toReady[k])
          /\ \A k \in G : ToSet(toReady[k]) \subseteq G
      BY <1>0, <3>1, ListElements DEF Lists
    <3>7. Lists'
      <4>1. \A h \in ToSet(list') : pc'[h] = "parked"
        BY <1>0, <1>3, <3>2, <3>3 DEF Lists
      <4>2. ASSUME NEW k \in G
            PROVE  /\ pc'[k] = "ready" <=> toReady'[k] # << >>
                   /\ IsInjective(toReady'[k])
                   /\ \A h \in ToSet(toReady'[k]) : pc'[h] = "parked" /\ h \notin ToSet(list')
        <5>1. CASE k = g
          BY <3>2, <3>3, <3>4, <3>6, <5>1
        <5>2. CASE k # g
          <6>1. toReady'[k] = toReady[k] /\ pc'[k] = pc[k]
            BY <3>3, <5>2
          <6>2. \A h \in ToSet(toReady[k]) : /\ h \in G /\ pc[h] = "parked" /\ h # g
                                             /\ h \notin ToSet(list)
            BY <1>0, <3>6 DEF Lists
          <6> QED BY <1>0, <3>2, <3>3, <6>1, <6>2 DEF Lists
        <5> QED BY <5>1, <5>2
      <4>3. \A k, j \in G : ToSet(toReady'[k]) \cap ToSet(toReady'[j]) # {} => k = j
        <5> TAKE k, j \in G
        <5>1. CASE k # g /\ j # g
          BY <1>0, <3>3, <5>1 DEF Lists
        <5>2. CASE k = g \/ j = g
          BY <3>3, <3>4, <3>6, <5>2
        <5> QED BY <5>1, <5>2
      <4> QED BY <3>2, <4>1, <4>2, <4>3 DEF Lists
    <3>8. /\ \A h \in ToSet(list') : tick'[h] = tick[h]
          /\ \A h \in G : OnTheWay(h) => tick'[h] = tick[h]
      BY <1>3, <2>2, <3>1, <3>2, <3>6 DEF OnTheWay
    <3> QED BY <1>1, <3>2, <3>3, <3>5, <3>7, <3>8
  <2> QED BY <1>2, <2>1, <2>2
<1>5. \A h \in G : OnTheWay(h)' <=> OnTheWay(h)
  BY <1>0, <1>4 DEF OnTheWay
<1>6. /\ lag' \in [G -> 0 .. MaxLag] /\ Lags' /\ notify' \in 0 .. W - 1
      /\ Unnotified' = Unnotified \ Called(1) /\ Outstanding' = Outstanding - 1
      /\ \A h \in Unnotified' : /\ tick'[h] = tick[h] /\ 1 <= Ahead(h)
                                /\ Ahead(h)' = Ahead(h) - 1
  BY <1>0, <1>2, <1>3, <1>4, <1>5, CallOn
<1>7. Cardinality(Called(1)) = 1
  BY <1>1, FS_Singleton
<1> QED BY <1>2, <1>3, <1>4, <1>6, <1>7

LEMMA NotifyOneCond ==
  ASSUME CondInv, NEW g \in G, NotifyOne(g)
  PROVE  CondInv'
<1>0. /\ TypeOK /\ Tickets /\ Lags /\ Lists /\ Covers /\ pc[g] = "oneLocked"
      /\ UNCHANGED <<L, wait, loaded>>
      /\ pc \in [G -> PCs] /\ covered \in [G -> SUBSET G] /\ list \in Seq(G)
      /\ toReady \in [G -> Seq(G)] /\ tick \in [G -> 0 .. W - 1]
  BY DEF CondInv, NotifyOne, TypeOK, PCs
<1>1. CASE notify = wait
  <2>1. /\ pc' = [pc EXCEPT ![g] = "idle"] /\ covered' = [covered EXCEPT ![g] = {}]
        /\ UNCHANGED <<notify, list, toReady, lag, tick>>
    BY <1>1 DEF NotifyOne, NotifyDone, Jump
  <2>2. /\ pc'[g] = "idle" /\ \A h \in G \ {g} : pc'[h] = pc[h]
        /\ \A h \in G : covered'[h] = covered[h] \/ covered'[h] = {}
    BY <1>0, <2>1
  <2>3. Unnotified' = Unnotified
    BY <1>0, <2>1, <2>2, UnnotifiedStays DEF OnTheWay
  <2>4. TypeOK'
    BY <1>0, <2>1 DEF TypeOK
  <2>5. Lags' /\ Tickets'
    BY <1>0, <2>1, <2>2, <2>3, TicketsStay DEF Lags, OnTheWay
  <2>6. Lists'
    BY <1>0, <2>1, <2>2, ListsStay
  <2>7. Covers'
    BY <1>0, <2>1, <2>2, <2>3, CoversStay
  <2> QED BY <2>4, <2>5, <2>6, <2>7 DEF CondInv
<1>2. CASE notify # wait
  <2>1. TypeOK'
    <3>1. covered' \in [G -> SUBSET G]
      <4>1. covered' = [h \in G |-> IF h = g THEN {} ELSE covered[h] \ Called(1)]
        BY <1>2, NotifyOneCalls
      <4> QED BY <1>0, <4>1
    <3> QED BY <1>0, <1>2, <3>1, NotifyOneCalls DEF TypeOK, PCs
  <2>2. Tickets'
    BY <1>2, <2>1, NotifyOneCalls, TicketsCalled
  <2>3. Covers'
    <3>1. /\ \A h \in G : covered'[h] \subseteq covered[h] \ Called(1)
          /\ \A h \in G : pc'[h] \in {"one", "all"} => pc'[h] = pc[h] /\ loaded'[h] = loaded[h]
      BY <1>0, <1>2, NotifyOneCalls
    <3> QED BY <1>2, <3>1, NotifyOneCalls, CoversCalled
  <2> QED BY <1>2, <2>1, <2>2, <2>3, NotifyOneCalls DEF CondInv
<1> QED BY <1>1, <1>2

\* All who wait are called when notify goes up to wait.
LEMMA CalledAll ==
  ASSUME CondInv
  PROVE  /\ Called(Outstanding) = Unnotified
         /\ (notify + Outstanding) % W = wait
<1>0. /\ TypeOK /\ Tickets /\ wait \in 0 .. W - 1 /\ notify \in 0 .. W - 1
      /\ Outstanding \in 0 .. W - 1
  BY Numbers DEF CondInv
<1>1. Called(Outstanding) = Unnotified
  BY <1>0 DEF Tickets, Called, Ahead
<1>2. (notify + Outstanding) % W = wait
  <2>1. /\ Outstanding = IF notify <= wait THEN wait - notify ELSE wait - notify + W
        /\ (notify + Outstanding) % W = IF notify + Outstanding < W THEN notify + Outstanding
                                        ELSE notify + Outstanding - W
    BY <1>0, Distance, Onward DEF Outstanding
  <2> QED BY <1>0, <2>1, WidthOK
<1> QED BY <1>1, <1>2

LEMMA NotifyAllCalls ==
  ASSUME CondInv, NEW g \in G, NotifyAll(g)
  PROVE  /\ lag' \in [G -> 0 .. MaxLag] /\ Lags' /\ notify' \in 0 .. W - 1
         /\ notify' = (notify + Outstanding) % W
         /\ Called(Outstanding) = Unnotified /\ Cardinality(Unnotified) = Outstanding
         /\ Outstanding \in 0 .. Outstanding /\ ToSet(list) \subseteq Unnotified
         /\ \A h \in ToSet(list) : pc[h] = "parked" /\ h # g
         /\ Unnotified' = {} /\ Outstanding' = 0
<1> DEFINE n == Outstanding
<1>0. /\ TypeOK /\ Tickets /\ Lags /\ Lists /\ Covers /\ pc[g] = "allLocked"
      /\ UNCHANGED <<L, wait, loaded>> /\ notify' = wait /\ lag' = LagAfter(n)
      /\ \A h \in G : lag'[h] <= MaxLag
      /\ covered' = [h \in G |-> IF h = g THEN {} ELSE covered[h] \ Called(n)]
      /\ list' = << >> /\ toReady' = [toReady EXCEPT ![g] = list]
      /\ tick' = [h \in G |-> IF h \in ToSet(list) THEN 0 ELSE tick[h]]
      /\ pc' = [pc EXCEPT ![g] = IF list = << >> THEN "idle" ELSE "ready"]
      /\ pc \in [G -> PCs] /\ covered \in [G -> SUBSET G] /\ list \in Seq(G)
      /\ toReady \in [G -> Seq(G)] /\ tick \in [G -> 0 .. W - 1]
  BY DEF CondInv, NotifyAll, TypeOK, PCs, Account, DropTickets, Jump, Outstanding
<1>1. /\ pc'[g] = (IF list = << >> THEN "idle" ELSE "ready") /\ toReady'[g] = list
      /\ \A h \in G \ {g} : pc'[h] = pc[h] /\ toReady'[h] = toReady[h]
  BY <1>0
<1>2. /\ Called(n) = Unnotified /\ notify' = (notify + n) % W
      /\ n \in 0 .. n /\ Cardinality(Called(n)) = n
      /\ ToSet(list) \subseteq Unnotified /\ Unnotified \subseteq G
      /\ ToSet(list') = {} /\ list' \in Seq(G) /\ IsInjective(list')
  <2>1. Called(n) = Unnotified /\ (notify + n) % W = wait
    BY CalledAll
  <2>2. n \in Nat /\ Unnotified \subseteq G
    BY <1>0, Numbers, WidthOK
  <2>3. Cardinality(Unnotified) = n /\ ToSet(list) \subseteq Unnotified
    BY <1>0 DEF Tickets, Unnotified
  <2>4. ToSet(<< >>) = {} /\ << >> \in Seq(G) /\ IsInjective(<< >>)
    BY ListNone
  <2> HIDE DEF n
  <2>5. n \in 0 .. n
    BY <2>2
  <2> QED BY <1>0, <2>1, <2>2, <2>3, <2>4, <2>5
<1>3. \A h \in ToSet(list) : pc[h] = "parked" /\ h # g
  BY <1>0 DEF Lists
<1>4. /\ \A h \in G : OnTheWay(h)' <=> OnTheWay(h)
      /\ \A h \in G : OnTheWay(h) => tick'[h] = tick[h]
  BY <1>0, <1>1, <1>3 DEF OnTheWay
<1>5. /\ lag' \in [G -> 0 .. MaxLag] /\ Lags' /\ notify' \in 0 .. W - 1
      /\ Unnotified' = Unnotified \ Called(n) /\ Outstanding' = Outstanding - n
      /\ \A h \in Unnotified' : /\ tick'[h] = tick[h] /\ n <= Ahead(h)
                                /\ Ahead(h)' = Ahead(h) - n
  BY <1>0, <1>2, <1>4, CallOn
<1>6. Outstanding - Outstanding = 0
  BY Numbers, WidthOK DEF CondInv
<1> QED BY <1>2, <1>3, <1>5, <1>6

LEMMA NotifyAllCond ==
  ASSUME CondInv, NEW g \in G, NotifyAll(g)
  PROVE  CondInv'
<1> DEFINE n == Outstanding
<1>0. /\ TypeOK /\ Tickets /\ Lags /\ Lists /\ Covers /\ pc[g] = "allLocked"
      /\ UNCHANGED <<L, wait, loaded>> /\ notify' = wait /\ lag' = LagAfter(n)
      /\ \A h \in G : lag'[h] <= MaxLag
      /\ covered' = [h \in G |-> IF h = g THEN {} ELSE covered[h] \ Called(n)]
      /\ list' = << >> /\ toReady' = [toReady EXCEPT ![g] = list]
      /\ tick' = [h \in G |-> IF h \in ToSet(list) THEN 0 ELSE tick[h]]
      /\ pc' = [pc EXCEPT ![g] = IF list = << >> THEN "idle" ELSE "ready"]
      /\ pc \in [G -> PCs] /\ covered \in [G -> SUBSET G] /\ list \in Seq(G)
      /\ toReady \in [G -> Seq(G)] /\ tick \in [G -> 0 .. W - 1]
  BY DEF CondInv, NotifyAll, TypeOK, PCs, Account, DropTickets, Jump, Outstanding
<1>1. /\ pc'[g] = (IF list = << >> THEN "idle" ELSE "ready") /\ toReady'[g] = list
      /\ \A h \in G \ {g} : pc'[h] = pc[h] /\ toReady'[h] = toReady[h]
  BY <1>0
<1>2. /\ Called(n) = Unnotified /\ notify' = (notify + n) % W
      /\ n \in 0 .. n /\ Cardinality(Called(n)) = n
      /\ ToSet(list) \subseteq Unnotified
      /\ ToSet(list') = {} /\ list' \in Seq(G) /\ IsInjective(list')
  BY <1>0, NotifyAllCalls, ListNone
<1>3. \A h \in ToSet(list) : pc[h] = "parked" /\ h # g
  BY NotifyAllCalls
<1>5. /\ lag' \in [G -> 0 .. MaxLag] /\ Lags' /\ notify' \in 0 .. W - 1
      /\ Unnotified' = Unnotified \ Called(n) /\ Outstanding' = Outstanding - n
      /\ Unnotified' = {}
  <2>1. Outstanding - Outstanding = 0
    BY Numbers, WidthOK DEF CondInv
  <2> QED BY <1>2, <2>1, NotifyAllCalls
<1>6. TypeOK'
  <2>1. 0 \in 0 .. W - 1 /\ {"idle", "ready"} \subseteq PCs
    BY WidthOK DEF PCs, NotifyPhases
  <2>2. tick' \in [G -> 0 .. W - 1] /\ toReady' \in [G -> Seq(G)] /\ pc' \in [G -> PCs]
    BY <1>0, <2>1
  <2>3. covered' \in [G -> SUBSET G]
    BY <1>0
  <2> QED BY <1>0, <1>2, <1>5, <2>2, <2>3 DEF TypeOK, PCs
<1>7. Tickets'
  BY <1>2, <1>5, <1>6, TicketsCalled
<1>8. Covers'
  <2>1. /\ \A h \in G : covered'[h] \subseteq covered[h] \ Called(n)
        /\ \A h \in G : pc'[h] \in {"one", "all"} => pc'[h] = pc[h] /\ loaded'[h] = loaded[h]
    BY <1>0, <1>1
  <2> QED BY <1>2, <1>5, <2>1, CoversCalled
<1>9. Lists'
  <2>1. \A k \in G : ToSet(toReady[k]) \subseteq G /\ ToSet(toReady[k]) \cap ToSet(list) = {}
    BY <1>0, ListElements DEF Lists
  <2>2. ASSUME NEW k \in G
        PROVE  /\ pc'[k] = "ready" <=> toReady'[k] # << >>
               /\ IsInjective(toReady'[k])
               /\ \A h \in ToSet(toReady'[k]) : pc'[h] = "parked" /\ h \notin ToSet(list')
    <3>1. CASE k = g
      BY <1>0, <1>1, <1>2, <1>3, <3>1 DEF Lists
    <3>2. CASE k # g
      <4>1. toReady'[k] = toReady[k] /\ pc'[k] = pc[k]
        BY <1>1, <3>2
      <4>2. \A h \in ToSet(toReady[k]) : h \in G /\ pc[h] = "parked" /\ h # g
        BY <1>0, <2>1 DEF Lists
      <4>3. (pc[k] = "ready" <=> toReady[k] # << >>) /\ IsInjective(toReady[k])
        BY <1>0 DEF Lists
      <4>4. ASSUME NEW h \in ToSet(toReady[k]) PROVE pc'[h] = "parked" /\ h \notin ToSet(list')
        <5>1. h \in G /\ pc[h] = "parked" /\ h # g
          BY <4>2
        <5> QED BY <1>0, <1>1, <1>2, <5>1
      <4> QED BY <4>1, <4>3, <4>4
    <3> QED BY <3>1, <3>2
  <2>3. \A k, j \in G : ToSet(toReady'[k]) \cap ToSet(toReady'[j]) # {} => k = j
    <3> TAKE k, j \in G
    <3>1. CASE k # g /\ j # g
      BY <1>0, <1>1, <3>1 DEF Lists
    <3>2. CASE k = g \/ j = g
      BY <1>1, <2>1, <3>2
    <3> QED BY <3>1, <3>2
  <2> QED BY <1>2, <2>2, <2>3 DEF Lists
<1> QED BY <1>5, <1>6, <1>7, <1>8, <1>9 DEF CondInv

LEMMA ReadyCond ==
  ASSUME CondInv, NEW g \in G, Ready(g)
  PROVE  CondInv'
<1> DEFINE r == toReady[g]
           h == Head(r)
<1>0. /\ TypeOK /\ Tickets /\ Lags /\ Lists /\ Covers /\ pc[g] = "ready"
      /\ UNCHANGED <<L, wait, notify, list, tick, loaded, lag, covered>>
      /\ toReady' = [toReady EXCEPT ![g] = Tail(r)]
      /\ pc' = [pc EXCEPT ![h] = "relock", ![g] = IF Len(r) = 1 THEN "idle" ELSE "ready"]
      /\ pc \in [G -> PCs] /\ toReady \in [G -> Seq(G)] /\ list \in Seq(G)
      /\ r \in Seq(G) /\ r # << >> /\ IsInjective(r)
  BY DEF CondInv, Ready, TypeOK, PCs, Lists
<1>1. /\ h \in G /\ Tail(r) \in Seq(G) /\ IsInjective(Tail(r)) /\ h \in ToSet(r)
      /\ ToSet(Tail(r)) = ToSet(r) \ {h} /\ (Tail(r) = << >> <=> Len(r) = 1)
  BY <1>0, ListHead
<1>2. /\ pc[h] = "parked" /\ h # g /\ h \notin ToSet(list)
      /\ \A k \in G \ {g} : h \notin ToSet(toReady[k])
      /\ \A k \in G : ToSet(toReady[k]) \subseteq G
  BY <1>0, <1>1, ListElements DEF Lists
<1> DEFINE ph == IF Len(r) = 1 THEN "idle" ELSE "ready"
<1>3. /\ pc'[h] = "relock" /\ pc'[g] = ph
      /\ \A k \in G \ {g, h} : pc'[k] = pc[k]
      /\ toReady'[g] = Tail(r) /\ \A k \in G \ {g} : toReady'[k] = toReady[k]
  BY <1>0, <1>1, <1>2
<1>4. TypeOK'
  <2>1. {"relock", "idle", "ready"} \subseteq PCs
    BY DEF PCs, WaitPhases, NotifyPhases
  <2>2. toReady' \in [G -> Seq(G)] /\ pc' \in [G -> PCs]
    BY <1>0, <1>1, <2>1
  <2> QED BY <1>0, <2>2 DEF TypeOK, PCs
<1>5. \A k \in G : OnTheWay(k)' <=> OnTheWay(k)
  BY <1>0, <1>2, <1>3 DEF OnTheWay
<1>6. Unnotified' = Unnotified
  BY <1>0, <1>5 DEF Unnotified, OnTheWay
<1>7. Lags' /\ Tickets'
  BY <1>0, <1>5, <1>6, TicketsStay DEF Lags
<1>8. Covers'
  <2>1. \A k \in G : pc'[k] \in {"one", "all"} => pc'[k] = pc[k]
    BY <1>2, <1>3
  <2> QED BY <1>0, <1>6, <2>1, CoversStay
<1>9. Lists'
  <2>1. \A k \in ToSet(list) : pc'[k] = "parked"
    <3> TAKE k \in ToSet(list)
    <3>1. k \in G /\ pc[k] = "parked" /\ k # g /\ k # h
      BY <1>0, <1>2, ListElements DEF Lists
    <3> QED BY <1>3, <3>1
  <2>2. ASSUME NEW k \in G
        PROVE  /\ pc'[k] = "ready" <=> toReady'[k] # << >>
               /\ IsInjective(toReady'[k])
               /\ \A j \in ToSet(toReady'[k]) : pc'[j] = "parked" /\ j \notin ToSet(list)
    <3>1. /\ IsInjective(toReady[k])
          /\ \A j \in ToSet(toReady[k]) : /\ j \in G /\ pc[j] = "parked" /\ j # g
                                          /\ j \notin ToSet(list)
      BY <1>0, <1>2 DEF Lists
    <3>2. CASE k = g
      <4>1. pc'[g] = "ready" <=> Tail(r) # << >>
        BY <1>1, <1>3
      <4>2. \A j \in ToSet(Tail(r)) : j # h /\ j \in ToSet(r)
        BY <1>1
      <4>3. \A j \in ToSet(Tail(r)) : pc'[j] = "parked" /\ j \notin ToSet(list)
        BY <1>3, <3>1, <3>2, <4>2
      <4> QED BY <1>1, <1>3, <3>2, <4>1, <4>3
    <3>3. CASE k # g
      <4>1. toReady'[k] = toReady[k]
        BY <1>3, <3>3
      <4>2. pc'[k] = "ready" <=> pc[k] = "ready"
        BY <1>2, <1>3, <3>3
      <4>3. pc[k] = "ready" <=> toReady[k] # << >>
        BY <1>0 DEF Lists
      <4>4. \A j \in ToSet(toReady[k]) : pc'[j] = "parked"
        BY <1>2, <1>3, <3>1, <3>3
      <4> QED BY <3>1, <4>1, <4>2, <4>3, <4>4
    <3> QED BY <3>2, <3>3
  <2>3. \A k, j \in G : ToSet(toReady'[k]) \cap ToSet(toReady'[j]) # {} => k = j
    <3>1. \A k \in G : ToSet(toReady'[k]) \subseteq ToSet(toReady[k])
      BY <1>1, <1>3
    <3> QED BY <1>0, <3>1 DEF Lists
  <2> QED BY <1>0, <2>1, <2>2, <2>3 DEF Lists
<1> QED BY <1>4, <1>7, <1>8, <1>9 DEF CondInv

LEMMA CondInitInv == Init => CondInv
<1> SUFFICES ASSUME Init PROVE CondInv
  OBVIOUS
<1>0. /\ L = {} /\ wait = 0 /\ notify = 0 /\ list = << >> /\ pc = [g \in G |-> "idle"]
      /\ tick = [g \in G |-> 0] /\ loaded = [g \in G |-> 0]
      /\ toReady = [g \in G |-> << >>] /\ lag = [g \in G |-> 0] /\ covered = [g \in G |-> {}]
  BY DEF Init
<1>1. << >> \in Seq(G) /\ IsInjective(<< >>) /\ ToSet(<< >>) = {}
  BY ListNone
<1>2. 0 \in 0 .. W - 1 /\ 0 \in 0 .. MaxLag
  BY WidthOK
<1>3. TypeOK
  BY <1>0, <1>1, <1>2 DEF TypeOK
<1>4. Unnotified = {} /\ Outstanding = 0
  <2>1. Outstanding = 0
    BY <1>0, <1>2, Distance DEF Outstanding
  <2> QED BY <1>0, <1>1, <2>1 DEF Unnotified
<1>5. Tickets
  BY <1>4, FS_EmptySet DEF Tickets
<1>6. Lags /\ Lists /\ Covers
  BY <1>0, <1>1, <1>4 DEF Lags, Lists, Covers
<1> QED BY <1>3, <1>5, <1>6 DEF CondInv

LEMMA CondStutter == CondInv /\ UNCHANGED vars => CondInv'
BY DEF CondInv, vars, TypeOK, Tickets, Lags, Lists, Covers, Unnotified, Outstanding, Ahead, OnTheWay

LEMMA CondAlways == Spec => []CondInv
<1>1. Init => CondInv
  BY CondInitInv
<1>2. CondInv /\ [Next]_vars => CondInv'
  BY LockCond, WaitAddCond, WaitUnlockCond, WaitListCond, NotifyCallCond, NotifyFastCond,
     NotifyOneCond, NotifyAllCond, ReadyCond, CondStutter DEF Next, CondStep
<1> QED BY <1>1, <1>2, PTL DEF Spec

-----------------------------------------------------------------------------
(* The theorems *)

\* The list, the counters and the locals keep their types (cond.go:55-72, sema.go:447-600).
THEOREM CondTypes == Spec => []TypeOK
BY CondAlways, PTL DEF CondInv

\* Nobody sleeps on a ticket that has been called (sema.go:489-510, 561-599).
THEOREM NobodyIsStranded == Spec => []NobodyStranded
<1>1. CondInv => NobodyStranded
  BY DEF CondInv, Tickets, Ahead, Unnotified, NobodyStranded
<1> QED BY <1>1, CondAlways, PTL

\* When the counters are equal nobody waits for a ticket.
LEMMA NoneOut ==
  ASSUME CondInv, notify = wait
  PROVE  Unnotified = {}
<1>1. Tickets /\ Outstanding = 0 /\ \A h \in Unnotified : Ahead(h) \in Nat
  <2>1. TypeOK /\ Tickets
    BY DEF CondInv
  <2>2. Outstanding = 0
    BY <2>1, Numbers, WidthOK, Distance DEF Outstanding
  <2> QED BY <2>1, <2>2, Numbers, WidthOK
<1> QED BY <1>1 DEF Tickets

\* A Signal or Broadcast that wakes nobody leaves nobody behind: whom it found waiting
\* others have woken (sema.go:520-524, 550-556).
THEOREM NobodyIsPassedOver == Spec => NobodyPassedOver
<1>1. ASSUME CondInv, [Next]_vars, NEW g \in G, EmptyHanded(g)
      PROVE  covered[g] = {}
  <2>0. /\ TypeOK /\ Lists /\ Covers /\ Looking(g) /\ pc'[g] = "idle" /\ notify' = notify
        /\ pc \in [G -> PCs] /\ pc[g] \in {"one", "all", "oneLocked", "allLocked"}
        /\ wait \in 0 .. W - 1 /\ notify \in 0 .. W - 1 /\ loaded[g] \in 0 .. W - 1
    BY <1>1, Numbers DEF CondInv, EmptyHanded, Looking, NotifyPhases, TypeOK, PCs
  <2>1. CASE notify = wait
    BY <1>1, <2>0, <2>1, NoneOut DEF Covers
  <2>2. CASE NotifyFast(g)
    <3>1. pc[g] \in {"one", "all"} /\ loaded[g] = notify
      BY <2>0, <2>2 DEF NotifyFast, Jump
    <3>2. (loaded[g] - notify) % W = 0
      BY <2>0, <3>1, WidthOK, Distance
    <3>3. \A h \in covered[g] : Ahead(h) \in 0 .. W - 1 /\ Ahead(h) < 0
      BY <2>0, <3>1, <3>2, Numbers DEF Covers
    <3> QED BY <3>3, WidthOK
  <2>3. CASE NotifyOne(g)
    <3>1. notify = wait \/ notify' = (notify + 1) % W
      BY <2>3 DEF NotifyOne
    <3>2. (notify + 1) % W # notify
      BY <2>0, WidthOK, Onward
    <3> QED BY <2>0, <2>1, <3>1, <3>2
  <2>4. CASE NotifyAll(g)
    BY <2>0, <2>1, <2>4 DEF NotifyAll
  <2>5. \/ NotifyFast(g) \/ NotifyOne(g) \/ NotifyAll(g)
    <3>1. CASE UNCHANGED vars
      BY <2>0, <3>1 DEF vars
    <3>2. ASSUME NEW k \in G,
                 \/ Lock(k) \/ Unlock(k) \/ WaitAdd(k) \/ WaitRelock(k)
                 \/ NotifyCall(k, "one") \/ NotifyCall(k, "all") \/ WaitUnlock(k) \/ WaitList(k)
          PROVE  FALSE
      BY <2>0, <3>2 DEF Lock, Unlock, WaitAdd, WaitRelock, NotifyCall, WaitUnlock, WaitList,
                        Jump
    <3>3. ASSUME NEW k \in G, Ready(k) PROVE FALSE
      <4>1. toReady[k] \in Seq(G) /\ toReady[k] # << >> /\ IsInjective(toReady[k])
        BY <2>0, <3>3 DEF Ready, Lists, TypeOK
      <4>2. pc[Head(toReady[k])] = "parked"
        BY <2>0, <4>1, ListHead DEF Lists
      <4> QED BY <2>0, <3>3, <4>2 DEF Ready
    <3>4. ASSUME NEW k \in G, k # g, NotifyFast(k) \/ NotifyOne(k) \/ NotifyAll(k)
          PROVE  FALSE
      BY <2>0, <3>4 DEF NotifyFast, NotifyOne, NotifyAll, NotifyDone, Jump
    <3> QED BY <1>1, <3>1, <3>2, <3>3, <3>4 DEF Next, CondStep
  <2> QED BY <2>2, <2>3, <2>4, <2>5
<1>2. CondInv /\ [Next]_vars => [\A g \in G : EmptyHanded(g) => covered[g] = {}]_vars
  BY <1>1
<1> QED BY <1>2, CondAlways, PTL DEF Spec, NobodyPassedOver

-----------------------------------------------------------------------------
(* The condition variable *)

\* Waiting lists those who wait by the distance of their tickets.
WaitingFits ==
  /\ Waiting \in Seq(G) /\ Len(Waiting) = Outstanding
  /\ \A i \in 1 .. Outstanding : Waiting[i] \in Unnotified /\ Ahead(Waiting[i]) = i - 1
  /\ \A h, k \in Unnotified : Ahead(h) = Ahead(k) => h = k

LEMMA WaitingFitsNow == CondInv => WaitingFits
<1> SUFFICES ASSUME CondInv PROVE WaitingFits
  OBVIOUS
<1>0. /\ TypeOK /\ Tickets /\ wait \in 0 .. W - 1 /\ notify \in 0 .. W - 1
      /\ Outstanding \in 0 .. W - 1 /\ Unnotified \subseteq G
      /\ \A h \in G : tick[h] \in 0 .. W - 1
  BY Numbers DEF CondInv
<1>1. \A h, k \in Unnotified : Ahead(h) = Ahead(k) => h = k
  BY <1>0, SameDistance DEF Tickets, Ahead
<1>2. ASSUME NEW i \in 1 .. Outstanding
      PROVE  Waiting[i] \in Unnotified /\ Ahead(Waiting[i]) = i - 1
  <2> DEFINE t == (notify + i - 1) % W
  <2>1. i - 1 \in 0 .. W - 1 /\ i - 1 \in 0 .. Outstanding - 1 /\ notify + i - 1 = notify + (i - 1)
    BY <1>0, WidthOK
  <2>2. t \in 0 .. W - 1
    BY <1>0, <2>1, Onward
  <2>3. (t - notify) % W = i - 1
    <3>1. (notify - notify) % W = 0
      BY <1>0, WidthOK, Distance
    <3>2. ((notify - notify) % W) + (i - 1) < W
      BY <2>1, <3>1, WidthOK
    <3> QED BY <1>0, <2>1, <3>1, <3>2, Nearer
  <2>4. PICK h \in Unnotified : Ahead(h) = i - 1
    BY <1>0, <2>1 DEF Tickets
  <2> HIDE DEF t
  <2>5. tick[h] = t
    BY <1>0, <2>2, <2>3, <2>4, SameDistance DEF Ahead
  <2>6. OwnerOf(t) \in Unnotified /\ tick[OwnerOf(t)] = t
    BY <2>5 DEF OwnerOf
  <2>7. Waiting[i] = OwnerOf(t)
    BY DEF Waiting, t
  <2> QED BY <2>3, <2>6, <2>7 DEF Ahead
<1>3. Waiting \in [1 .. Outstanding -> G]
  <2>1. Waiting = [i \in 1 .. Outstanding |-> Waiting[i]]
    BY DEF Waiting
  <2> QED BY <1>0, <1>2, <2>1
<1>4. Waiting \in Seq(G) /\ Len(Waiting) = Outstanding
  <2>1. Outstanding \in Nat
    BY <1>0, WidthOK
  <2>2. Waiting \in Seq(G)
    BY <1>3, <2>1, SeqDef
  <2>3. Len(Waiting) \in Nat /\ DOMAIN Waiting = 1 .. Len(Waiting)
    BY <2>2, LenProperties
  <2>4. 1 .. Len(Waiting) = 1 .. Outstanding
    BY <1>3, <2>3
  <2>5. \A m, n \in Nat : 1 .. m = 1 .. n => m = n
    <3> SUFFICES ASSUME NEW m \in Nat, NEW n \in Nat, 1 .. m = 1 .. n PROVE ~(m < n) /\ ~(n < m)
      OBVIOUS
    <3>1. \A i \in Int : i \in 1 .. m <=> i \in 1 .. n
      OBVIOUS
    <3> QED BY <3>1
  <2>6. Len(Waiting) = Outstanding
    BY <2>1, <2>3, <2>4, <2>5
  <2> QED BY <2>2, <2>6
<1> QED BY <1>1, <1>2, <1>4 DEF WaitingFits

LEMMA WaitingFitsNext == CondInv' => WaitingFits'
BY WaitingFitsNow, PTL

\* A list of all who wait next, in the order of their tickets, is what Waiting will be.
LEMMA WaitingIs ==
  ASSUME CondInv', NEW s \in Seq(G), Len(s) = Outstanding',
         \A i \in 1 .. Len(s) : s[i] \in Unnotified' /\ (tick'[s[i]] - notify') % W = i - 1
  PROVE  Waiting' = s
<1>1. /\ Waiting' \in Seq(G) /\ Len(Waiting') = Len(s)
      /\ \A i \in 1 .. Len(s) : /\ Waiting'[i] \in Unnotified'
                                /\ (tick'[Waiting'[i]] - notify') % W = i - 1
      /\ \A h, k \in Unnotified' :
           (tick'[h] - notify') % W = (tick'[k] - notify') % W => h = k
  BY WaitingFitsNext DEF WaitingFits, Ahead
<1>2. \A i \in 1 .. Len(s) : Waiting'[i] = s[i]
  <2> TAKE i \in 1 .. Len(s)
  <2>1. (tick'[Waiting'[i]] - notify') % W = (tick'[s[i]] - notify') % W
    BY <1>1
  <2> QED BY <1>1, <2>1
<1> QED BY <1>1, <1>2, SeqEqual

\* What neither starts, ends nor wakes is a step of nobody.
LEMMA SameRefines ==
  ASSUME CondInv, CondInv', Unnotified' = Unnotified, wait' = wait, notify' = notify,
         \A h \in Unnotified : tick'[h] = tick[h],
         \A h \in G : pc'[h] \in WaitPhases <=> pc[h] \in WaitPhases
  PROVE  UNCHANGED Abs!cvars
<1>1. WaitingFits
  BY WaitingFitsNow
<1>2. Outstanding' = Outstanding
  BY DEF Outstanding
<1>3. Waiting' = Waiting
  BY <1>1, <1>2, WaitingIs DEF WaitingFits, Ahead
<1>4. Woken' = Woken
  BY DEF Woken
<1> QED BY <1>3, <1>4 DEF Abs!cvars

\* Who is in Wait for the abstract condition variable.
LEMMA InWaitMeans ==
  ASSUME CondInv, NEW g \in G
  PROVE  Abs!InWait(g) <=> g \in Woken \/ g \in Unnotified
<1>1. WaitingFits /\ Tickets /\ Outstanding \in Nat /\ Unnotified \subseteq G
      /\ \A h \in G : Ahead(h) \in Nat
  BY WaitingFitsNow, Numbers, WidthOK DEF CondInv
<1>2. ASSUME g \in Unnotified PROVE \E i \in 1 .. Len(Waiting) : Waiting[i] = g
  <2>1. Ahead(g) + 1 \in 1 .. Outstanding /\ (Ahead(g) + 1) - 1 = Ahead(g)
    BY <1>1, <1>2 DEF Tickets
  <2>2. Waiting[Ahead(g) + 1] = g
    BY <1>1, <1>2, <2>1 DEF WaitingFits
  <2> QED BY <1>1, <2>1, <2>2 DEF WaitingFits
<1> QED BY <1>1, <1>2 DEF Abs!InWait, WaitingFits

\* The goroutines of Waiting are those who wait.
LEMMA WaitingElements ==
  ASSUME CondInv
  PROVE  {Waiting[i] : i \in 1 .. Len(Waiting)} = Unnotified
<1>1. WaitingFits /\ Tickets /\ Outstanding \in Nat /\ Unnotified \subseteq G
      /\ \A h \in G : Ahead(h) \in Nat
  BY WaitingFitsNow, Numbers, WidthOK DEF CondInv
<1>2. \A g \in Unnotified : /\ Ahead(g) + 1 \in 1 .. Outstanding
                            /\ Waiting[Ahead(g) + 1] = g
  <2> TAKE g \in Unnotified
  <2>1. Ahead(g) + 1 \in 1 .. Outstanding /\ (Ahead(g) + 1) - 1 = Ahead(g)
    BY <1>1 DEF Tickets
  <2> QED BY <1>1, <2>1 DEF WaitingFits
<1> QED BY <1>1, <1>2 DEF WaitingFits

LEMMA WaitAddRefines ==
  ASSUME CondInv, CondInv', NEW g \in G, WaitAdd(g)
  PROVE  Abs!StartWait(g)
<1>0. /\ TypeOK /\ Tickets /\ Lags /\ Lists /\ pc[g] = "idle"
      /\ tick' = [tick EXCEPT ![g] = wait] /\ wait' = (wait + 1) % W
      /\ pc' = [pc EXCEPT ![g] = "unlock"] /\ UNCHANGED <<notify, list, lag>>
      /\ pc \in [G -> PCs] /\ tick \in [G -> 0 .. W - 1]
  BY DEF CondInv, WaitAdd, Jump, TypeOK, PCs
<1>1. /\ pc'[g] = "unlock" /\ tick'[g] = wait
      /\ \A h \in G \ {g} : pc'[h] = pc[h] /\ tick'[h] = tick[h]
  BY <1>0
<1>2. /\ WaitingFits /\ Outstanding \in 0 .. W - 1 /\ Unnotified \subseteq G
      /\ Unnotified' = Unnotified \cup {g} /\ g \notin Unnotified
  <2>1. lag[g] = 0
    BY <1>0, Numbers DEF Lags, OnTheWay
  <2>2. g \notin Unnotified
    BY <1>0 DEF Unnotified, Lists
  <2>3. Unnotified' = Unnotified \cup {g}
    BY <1>0, <1>1, <2>1 DEF Unnotified
  <2> QED BY <1>0, <2>2, <2>3, Numbers, WaitingFitsNow
<1>3. Outstanding' = Outstanding + 1
  <2>1. /\ Cardinality(Unnotified) = Outstanding /\ Cardinality(Unnotified') = Outstanding'
        /\ IsFiniteSet(Unnotified)
    BY <1>0, Numbers DEF CondInv, Tickets
  <2> QED BY <1>2, <2>1, FS_AddElement
<1> DEFINE s == Append(Waiting, g)
<1>4. Waiting' = s
  <2>1. /\ s \in Seq(G) /\ Len(s) = Outstanding + 1 /\ s[Outstanding + 1] = g
        /\ \A i \in 1 .. Outstanding : s[i] = Waiting[i]
    BY <1>2, AppendProperties DEF WaitingFits
  <2> HIDE DEF s
  <2>2. ASSUME NEW i \in 1 .. Len(s)
        PROVE  s[i] \in Unnotified' /\ (tick'[s[i]] - notify') % W = i - 1
    <3>1. CASE i = Outstanding + 1
      BY <1>0, <1>1, <1>2, <2>1, <3>1 DEF Outstanding
    <3>2. CASE i # Outstanding + 1
      <4>1. i \in 1 .. Outstanding
        BY <1>2, <2>1, <3>2
      <4>2. s[i] \in Unnotified /\ s[i] # g /\ (tick[s[i]] - notify) % W = i - 1
        BY <1>2, <2>1, <4>1 DEF WaitingFits, Ahead
      <4> QED BY <1>0, <1>1, <1>2, <4>2
    <3> QED BY <3>1, <3>2
  <2> QED BY <1>3, <2>1, <2>2, WaitingIs
<1>5. Woken' = Woken /\ g \notin Woken
  BY <1>0, <1>1, <1>2 DEF Woken, WaitPhases
<1>6. ~Abs!InWait(g)
  BY <1>2, <1>5, InWaitMeans
<1> QED BY <1>4, <1>5, <1>6 DEF Abs!StartWait

LEMMA WaitRelockRefines ==
  ASSUME CondInv, CondInv', NEW g \in G, WaitRelock(g)
  PROVE  Abs!EndWait(g)
<1>0. /\ TypeOK /\ Lists /\ pc[g] = "relock" /\ pc' = [pc EXCEPT ![g] = "idle"]
      /\ UNCHANGED <<wait, notify, list, tick, lag>> /\ pc \in [G -> PCs]
  BY DEF CondInv, WaitRelock, Jump, TypeOK, PCs
<1>1. pc'[g] = "idle" /\ \A h \in G \ {g} : pc'[h] = pc[h]
  BY <1>0
<1>2. Unnotified' = Unnotified
  BY <1>0, <1>1, UnnotifiedStays DEF OnTheWay
<1>3. g \notin Unnotified
  BY <1>0 DEF Unnotified, Lists
<1>4. g \in Woken /\ Woken' = Woken \ {g}
  BY <1>0, <1>1, <1>2, <1>3 DEF Woken, WaitPhases
<1>5. Waiting' = Waiting
  BY <1>0, <1>2, WaitingFitsNow, WaitingIs DEF WaitingFits, Ahead, Outstanding
<1> QED BY <1>4, <1>5 DEF Abs!EndWait

\* The other steps of Wait and the calls of Signal and Broadcast.
LEMMA QuietRefines ==
  ASSUME CondInv, CondInv', NEW g \in G,
         \/ Lock(g) \/ Unlock(g) \/ WaitUnlock(g) \/ WaitList(g)
         \/ NotifyCall(g, "one") \/ NotifyCall(g, "all") \/ NotifyFast(g)
  PROVE  UNCHANGED Abs!cvars
<1>0. TypeOK /\ Lists /\ pc \in [G -> PCs] /\ list \in Seq(G)
      /\ tick \in [G -> 0 .. W - 1] /\ Unnotified \subseteq G
  BY Numbers DEF CondInv, TypeOK, PCs
<1>1. CASE Lock(g) \/ Unlock(g)
  <2>1. UNCHANGED <<wait, notify, list, pc, tick, lag>>
    BY <1>1 DEF Lock, Unlock
  <2>2. Unnotified' = Unnotified
    BY <2>1 DEF Unnotified
  <2> QED BY <2>1, <2>2, SameRefines
<1>2. CASE WaitUnlock(g) \/ NotifyCall(g, "one") \/ NotifyCall(g, "all") \/ NotifyFast(g)
  <2>1. /\ UNCHANGED <<wait, notify, list, tick, lag>>
        /\ \/ pc[g] = "unlock" /\ pc' = [pc EXCEPT ![g] = "list"]
           \/ /\ pc[g] \notin WaitPhases
              /\ \E ph \in {"one", "all", "idle", "oneLocked", "allLocked"} :
                   pc' = [pc EXCEPT ![g] = ph]
    BY <1>2 DEF WaitUnlock, NotifyCall, NotifyFast, NotifyDone, Jump, WaitPhases
  <2>2. /\ \A h \in G \ {g} : pc'[h] = pc[h]
        /\ pc'[g] \in WaitPhases <=> pc[g] \in WaitPhases
        /\ OnTheWay(g) <=> OnTheWay(g)'
    BY <1>0, <2>1 DEF WaitPhases, OnTheWay
  <2>3. Unnotified' = Unnotified
    BY <2>1, <2>2, UnnotifiedStays
  <2>4. \A h \in G : pc'[h] \in WaitPhases <=> pc[h] \in WaitPhases
    BY <2>2
  <2> QED BY <2>1, <2>3, <2>4, SameRefines
<1>3. CASE WaitList(g)
  <2>1. /\ pc[g] = "list" /\ UNCHANGED <<wait, notify>> /\ lag' = [lag EXCEPT ![g] = 0]
        /\ lag \in [G -> 0 .. MaxLag] /\ (less(tick[g], notify) <=> lag[g] > 0)
        /\ lag[g] \in Nat
    BY <1>0, <1>3, LessRight, Numbers DEF WaitList, OnTheWay, TypeOK
  <2>2. CASE lag[g] > 0
    <3>1. /\ pc' = [pc EXCEPT ![g] = "relock"] /\ tick' = [tick EXCEPT ![g] = 0] /\ list' = list
      BY <1>3, <2>1, <2>2 DEF WaitList, Jump
    <3>2. /\ pc'[g] = "relock"
          /\ \A h \in G \ {g} : pc'[h] = pc[h] /\ tick'[h] = tick[h] /\ lag'[h] = lag[h]
      BY <1>0, <2>1, <3>1
    <3>3. g \notin Unnotified
      BY <1>0, <2>1, <2>2 DEF Unnotified, Lists
    <3>4. Unnotified' = Unnotified
      BY <2>1, <2>2, <3>1, <3>2, UnnotifiedStays DEF OnTheWay
    <3>5. \A h \in Unnotified : tick'[h] = tick[h]
      BY <1>0, <3>2, <3>3
    <3>6. \A h \in G : pc'[h] \in WaitPhases <=> pc[h] \in WaitPhases
      BY <2>1, <3>2 DEF WaitPhases
    <3> QED BY <2>1, <3>4, <3>5, <3>6, SameRefines
  <2>3. CASE ~(lag[g] > 0)
    <3>1. /\ pc' = [pc EXCEPT ![g] = "parked"] /\ tick' = tick /\ list' = Append(list, g)
      BY <1>3, <2>1, <2>3 DEF WaitList, Jump
    <3>2. /\ pc'[g] = "parked" /\ lag[g] = 0
          /\ \A h \in G \ {g} : pc'[h] = pc[h] /\ lag'[h] = lag[h]
      BY <1>0, <2>1, <2>3, <3>1
    <3>3. ToSet(list') = ToSet(list) \cup {g}
      BY <1>0, <3>1, ListEnd
    <3>4. Unnotified' = Unnotified
      BY <2>1, <3>2, <3>3 DEF Unnotified
    <3>5. \A h \in G : pc'[h] \in WaitPhases <=> pc[h] \in WaitPhases
      BY <2>1, <3>2 DEF WaitPhases
    <3> QED BY <2>1, <3>1, <3>4, <3>5, SameRefines
  <2> QED BY <2>2, <2>3
<1> QED BY <1>1, <1>2, <1>3

LEMMA ReadyRefines ==
  ASSUME CondInv, CondInv', NEW g \in G, Ready(g)
  PROVE  UNCHANGED Abs!cvars
<1> DEFINE h == Head(toReady[g])
<1>0. /\ pc \in [G -> PCs] /\ pc[g] = "ready" /\ UNCHANGED <<wait, notify, list, tick, lag>>
      /\ \E ph \in {"idle", "ready"} : pc' = [pc EXCEPT ![h] = "relock", ![g] = ph]
      /\ toReady[g] \in Seq(G) /\ toReady[g] # << >> /\ IsInjective(toReady[g])
  BY DEF CondInv, Ready, TypeOK, PCs, Lists
<1>1. h \in G /\ pc[h] = "parked" /\ h # g
  BY <1>0, ListHead DEF CondInv, Lists
<1> HIDE DEF h
<1>2. pc'[h] = "relock" /\ pc'[g] \in {"idle", "ready"} /\ \A k \in G \ {g, h} : pc'[k] = pc[k]
  BY <1>0, <1>1
<1>3. Unnotified' = Unnotified
  <2>1. \A k \in G : pc'[k] \in {"unlock", "list"} <=> pc[k] \in {"unlock", "list"}
    BY <1>0, <1>1, <1>2
  <2> QED BY <1>0, <2>1 DEF Unnotified
<1>4. \A k \in G : pc'[k] \in WaitPhases <=> pc[k] \in WaitPhases
  BY <1>0, <1>1, <1>2 DEF WaitPhases
<1> QED BY <1>0, <1>3, <1>4, SameRefines

\* Those who are called join those who were woken.
LEMMA WokenAfter ==
  ASSUME CondInv, NEW g \in G, pc[g] \notin WaitPhases, pc'[g] \notin WaitPhases,
         \A h \in G \ {g} : pc'[h] = pc[h],
         NEW C \in SUBSET Unnotified, Unnotified' = Unnotified \ C
  PROVE  Woken' = Woken \cup C
<1>1. \A h \in Unnotified : h \in G /\ pc[h] \in WaitPhases
  BY Numbers DEF CondInv, Unnotified, Lists, WaitPhases
<1>2. \A h \in G : pc'[h] \in WaitPhases <=> pc[h] \in WaitPhases
  OBVIOUS
<1> QED BY <1>1, <1>2 DEF Woken

LEMMA NotifyOneRefines ==
  ASSUME CondInv, CondInv', NEW g \in G, NotifyOne(g)
  PROVE  Abs!WakeOne \/ UNCHANGED Abs!cvars
<1>0. TypeOK /\ pc \in [G -> PCs] /\ pc[g] = "oneLocked" /\ UNCHANGED wait
  BY DEF NotifyOne, CondInv, TypeOK, PCs
<1>1. CASE notify = wait
  <2>1. /\ pc' = [pc EXCEPT ![g] = "idle"] /\ UNCHANGED <<notify, list, lag, tick>>
    BY <1>1 DEF NotifyOne, NotifyDone, Jump
  <2>2. pc'[g] = "idle" /\ \A h \in G \ {g} : pc'[h] = pc[h]
    BY <1>0, <2>1
  <2>3. Unnotified' = Unnotified
    BY <1>0, <2>1, <2>2, UnnotifiedStays DEF OnTheWay
  <2>4. \A h \in G : pc'[h] \in WaitPhases <=> pc[h] \in WaitPhases
    BY <1>0, <2>2 DEF WaitPhases
  <2> QED BY <1>0, <2>1, <2>3, <2>4, SameRefines
<1>2. CASE notify # wait
  <2>1. /\ 1 \in 0 .. Outstanding /\ Outstanding' = Outstanding - 1
        /\ Unnotified' = Unnotified \ Called(1) /\ Cardinality(Called(1)) = 1
        /\ \A h \in Unnotified' : tick'[h] = tick[h] /\ Ahead(h)' = Ahead(h) - 1
        /\ \A h \in G \ {g} : pc'[h] = pc[h]
        /\ pc'[g] \in {"idle", "ready"}
    BY <1>2, NotifyOneCalls
  <2>2. /\ WaitingFits /\ Outstanding \in Nat /\ Outstanding >= 1 /\ Unnotified \subseteq G
        /\ \A h \in G : Ahead(h) \in Nat
    BY <1>0, <2>1, Numbers, WaitingFitsNow, WidthOK
  <2>3. /\ Waiting # << >> /\ Head(Waiting) = Waiting[1]
        /\ Tail(Waiting) \in Seq(G) /\ Len(Tail(Waiting)) = Outstanding - 1
        /\ \A i \in 1 .. Outstanding - 1 : Tail(Waiting)[i] = Waiting[i + 1]
    <3>1. Waiting \in Seq(G) /\ Len(Waiting) = Outstanding
      BY <2>2 DEF WaitingFits
    <3>2. Waiting # << >>
      BY <2>2, <3>1, EmptySeq
    <3> HIDE DEF Waiting
    <3> QED BY <3>1, <3>2, HeadTailProperties
  <2>4. Called(1) = {Waiting[1]}
    <3>1. Called(1) = {h \in Unnotified : Ahead(h) = 0}
      BY <2>2 DEF Called, Ahead
    <3>2. Waiting[1] \in Unnotified /\ Ahead(Waiting[1]) = 0
      BY <2>2 DEF WaitingFits
    <3>3. \A h \in Unnotified : Ahead(h) = 0 => h = Waiting[1]
      BY <2>2, <3>2 DEF WaitingFits
    <3> QED BY <3>1, <3>2, <3>3
  <2>5. Waiting' = Tail(Waiting)
    <3> DEFINE s == Tail(Waiting)
    <3>1. /\ s \in Seq(G) /\ Len(s) = Outstanding'
          /\ \A i \in 1 .. Len(s) : i \in 1 .. Outstanding - 1 /\ s[i] = Waiting[i + 1]
      BY <2>1, <2>3
    <3> HIDE DEF s
    <3>2. ASSUME NEW i \in 1 .. Len(s)
          PROVE  s[i] \in Unnotified' /\ (tick'[s[i]] - notify') % W = i - 1
      <4>1. i + 1 \in 1 .. Outstanding /\ s[i] = Waiting[i + 1] /\ i \in Nat /\ i > 0
        BY <2>2, <3>1
      <4>2. s[i] \in Unnotified /\ Ahead(s[i]) = (i + 1) - 1
        BY <2>2, <4>1 DEF WaitingFits
      <4>3. s[i] \in Unnotified'
        <5>1. ~(Ahead(s[i]) < 1)
          BY <4>1, <4>2
        <5> QED BY <2>1, <4>2, <5>1 DEF Called, Ahead
      <4>4. (tick'[s[i]] - notify') % W = ((tick[s[i]] - notify) % W) - 1
        BY <2>1, <4>3 DEF Ahead
      <4> QED BY <4>1, <4>2, <4>3, <4>4 DEF Ahead
    <3>3. Waiting' = s
      BY <3>1, <3>2, WaitingIs
    <3> QED BY <3>3 DEF s
  <2>6. Woken' = Woken \cup {Head(Waiting)}
    <3>1. pc[g] \notin WaitPhases /\ pc'[g] \notin WaitPhases /\ Called(1) \in SUBSET Unnotified
      BY <1>0, <2>1 DEF WaitPhases, Called
    <3>2. Woken' = Woken \cup Called(1)
      BY <2>1, <3>1, WokenAfter
    <3> QED BY <2>3, <2>4, <3>2
  <2> QED BY <2>3, <2>5, <2>6 DEF Abs!WakeOne
<1> QED BY <1>1, <1>2

LEMMA NotifyAllRefines ==
  ASSUME CondInv, CondInv', NEW g \in G, NotifyAll(g)
  PROVE  Abs!WakeAll
<1>0. /\ pc \in [G -> PCs] /\ pc[g] = "allLocked"
      /\ \E ph \in {"idle", "ready"} : pc' = [pc EXCEPT ![g] = ph]
      /\ Unnotified' = {} /\ Outstanding' = 0
  BY NotifyAllCalls DEF NotifyAll, CondInv, TypeOK, PCs, Jump
<1>1. /\ pc[g] \notin WaitPhases /\ pc'[g] \notin WaitPhases
      /\ \A h \in G \ {g} : pc'[h] = pc[h]
  BY <1>0 DEF WaitPhases
<1>2. Woken' = Woken \cup Unnotified
  BY <1>0, <1>1, WokenAfter
<1>3. Waiting' = << >>
  <2>1. Waiting' \in Seq(G) /\ Len(Waiting') = 0
    BY <1>0, WaitingFitsNext DEF WaitingFits
  <2> QED BY <2>1, EmptySeq
<1> QED BY <1>2, <1>3, WaitingElements DEF Abs!WakeAll

LEMMA InitRefines == Init => Abs!CondVarInit
<1> SUFFICES ASSUME Init PROVE Abs!CondVarInit
  OBVIOUS
<1>1. CondInv /\ WaitingFits /\ wait = 0 /\ notify = 0 /\ list = << >>
      /\ pc = [g \in G |-> "idle"]
  BY CondInitInv, WaitingFitsNow DEF Init
<1>2. Outstanding = 0
  BY <1>1, WidthOK, Distance DEF Outstanding
<1>3. Waiting = << >>
  <2>1. Waiting \in Seq(G) /\ Len(Waiting) = 0
    BY <1>1, <1>2 DEF WaitingFits
  <2> QED BY <2>1, EmptySeq
<1>4. Woken = {}
  BY <1>1 DEF Woken, WaitPhases
<1> QED BY <1>3, <1>4 DEF Abs!CondVarInit

(***************************************************************************)
(* The notifyList wakes the waiters in the order of their tickets, each of *)
(* them once, and nobody whom no Signal or Broadcast called, whatever the  *)
(* order in which they reach the list and wherever the counters wrap       *)
(* around (cond.go:55-72, sema.go:447-600).                                *)
(***************************************************************************)
THEOREM NotifyListIsCondVar == Spec => ImplementsCondVar
<1>1. Init => Abs!CondVarInit /\ CondInv
  BY InitRefines, CondInitInv
<1>2. CondInv /\ CondInv' /\ [Next]_vars => [Abs!CondVarNext]_(Abs!cvars)
  <2> SUFFICES ASSUME CondInv, CondInv', [Next]_vars
               PROVE  [Abs!CondVarNext]_(Abs!cvars)
    OBVIOUS
  <2>1. CASE UNCHANGED vars
    <3>1. Waiting' = Waiting /\ Woken' = Woken
      BY <2>1 DEF vars, Waiting, Woken, OwnerOf, Unnotified, Outstanding
    <3> QED BY <3>1 DEF Abs!cvars
  <2>2. ASSUME NEW g \in G, WaitAdd(g) \/ WaitRelock(g) PROVE Abs!CondVarNext
    BY <2>2, WaitAddRefines, WaitRelockRefines DEF Abs!CondVarNext
  <2>3. ASSUME NEW g \in G, NotifyOne(g) \/ NotifyAll(g)
        PROVE  Abs!CondVarNext \/ UNCHANGED Abs!cvars
    BY <2>3, NotifyOneRefines, NotifyAllRefines DEF Abs!CondVarNext
  <2> QED BY <2>1, <2>2, <2>3, QuietRefines, ReadyRefines DEF Next, CondStep
<1> QED BY <1>1, <1>2, CondAlways, PTL DEF Spec, ImplementsCondVar, Abs!CondVarSpec
=============================================================================
