---------------------------- MODULE TimerProofs ----------------------------
(***************************************************************************)
(* Proofs about module Timer, for any finite numbers of timers and         *)
(* goroutines, any Ps, any periods and any bounds: the status words, the   *)
(* heaps and the counters agree, no timer is overlooked, and the whole     *)
(* implements the timers of module TimerSet.                               *)
(***************************************************************************)
EXTENDS Timer, FiniteSetTheorems, WellFoundedInduction, TLAPS

-----------------------------------------------------------------------------
(* The inductive invariant *)

Statuses == {"NoStatus", "Waiting", "Deleted", "Removed", "Modifying", "Moving"} \cup Modified
\* The goroutines that have set a timer's status to timerModifying
Holding == {"unadjust", "delete", "undelete", "readd", "added", "modify", "publish"}
GPhases == {"idle", "clean", "deleted"} \cup Holding
\* The Ms that go over a heap under its lock
Looping == {"locked", "clear"}
MPhases == {"idle", "call"} \cup Looping

TimerTypes ==
  /\ now \in Nat /\ now <= MaxTime
  /\ status \in [Timers -> Statuses] /\ when \in [Timers -> Nat] /\ nextwhen \in [Timers -> Nat]
  /\ tpp \in [Timers -> Ps \cup {None}] /\ fresh \subseteq Timers
  /\ lock \in [Ps -> Ps \cup Gs \cup {None}] /\ heap \in [Ps -> SUBSET Timers]
  /\ timer0When \in [Ps -> Nat]
  /\ adjustTimers \in [Ps -> Int] /\ deletedTimers \in [Ps -> Int]
  /\ gpc \in [Gs -> GPhases]
  /\ gt \in [Gs -> Timers \cup {None}] /\ gp \in [Gs -> Ps \cup {None}]
  /\ old \in [Gs -> Statuses] /\ gwhen \in [Gs -> Nat]
  /\ mpc \in [Ps -> MPhases] /\ mp \in [Ps -> Ps \cup {None}] /\ rnow \in [Ps -> Nat]
  /\ todo \in [Ps -> SUBSET Timers] /\ moved \in [Ps -> SUBSET Timers]
  /\ cdel \in [Ps -> Nat] /\ cearlier \in [Ps -> Nat]

\* Where a timer is, by its status
Where ==
  /\ \A t \in Timers : \A p \in Ps : t \in heap[p] <=> tpp[t] = p
  /\ \A t \in Timers :
       /\ status[t] \in {"Deleted"} \cup Modified => tpp[t] # None
       /\ status[t] \in {"NoStatus", "Removed", "Moving"} => tpp[t] = None
       /\ status[t] = "Waiting" /\ tpp[t] = None => \E g \in Gs : gpc[g] = "clean" /\ gt[g] = t
       /\ status[t] = "Moving" <=> \E m \in Ps : t \in moved[m]
       /\ t \in fresh => status[t] = "NoStatus"

\* Whoever has set a timer's status to timerModifying is alone with it.
Modifiers ==
  /\ \A t \in Timers : status[t] = "Modifying" => \E g \in Gs : gpc[g] \in Holding /\ gt[g] = t
  /\ \A g \in Gs : gpc[g] \in Holding =>
       /\ gt[g] \in Timers /\ gp[g] \in Ps
       /\ status[gt[g]] = "Modifying"
       /\ tpp[gt[g]] = IF gpc[g] = "readd" THEN None ELSE gp[g]
  /\ \A g, h \in Gs : gpc[g] \in Holding /\ gpc[h] \in Holding /\ gt[g] = gt[h] => g = h

\* So is addtimer with the timer that it will add.
Adders ==
  /\ \A g \in Gs : gpc[g] = "clean" =>
       /\ gp[g] \in Ps /\ lock[gp[g]] = g
       /\ gt[g] \in Timers \ fresh /\ status[gt[g]] = "Waiting" /\ tpp[gt[g]] = None
  /\ \A g, h \in Gs : gpc[g] = "clean" /\ gpc[h] = "clean" /\ gt[g] = gt[h] => g = h

\* What a call remembers of the timer
Olds ==
  \A g \in Gs :
    /\ gpc[g] = "deleted" => gp[g] \in Ps
    /\ gpc[g] = "unadjust" => old[g] = "ModifiedEarlier"
    /\ gpc[g] = "delete" => old[g] \in {"Waiting"} \cup Modified
    /\ gpc[g] \in {"readd", "added"} => old[g] \in {"NoStatus", "Removed"}
    /\ gpc[g] = "undelete" => old[g] = "Deleted"
    /\ gpc[g] \in {"modify", "publish"} => old[g] \in {"Waiting", "Deleted"} \cup Modified
    /\ gpc[g] \in {"clean", "readd", "added", "undelete", "modify", "publish"} => gwhen[g] \in Times

\* A heap's lock and who works on the heap
Holders ==
  /\ \A p \in Ps : lock[p] \in Ps => mp[lock[p]] = p /\ mpc[lock[p]] \in Looping
  /\ \A p \in Ps : lock[p] \in Gs => gp[lock[p]] = p /\ gpc[lock[p]] = "clean"
  /\ \A m \in Ps : mpc[m] \in Looping => mp[m] \in Ps /\ lock[mp[m]] = m
  /\ \A m \in Ps : mpc[m] = "call" => mp[m] \in Ps
  /\ \A m \in Ps : rnow[m] <= now

\* The loops of checkTimers
Loops ==
  \A m \in Ps :
    /\ todo[m] # {} => mpc[m] \in Looping /\ todo[m] \subseteq heap[mp[m]]
    /\ moved[m] # {} => mpc[m] = "locked"
    /\ mpc[m] # "clear" => cdel[m] = 0 /\ cearlier[m] = 0
    /\ \A n \in Ps : moved[m] \cap moved[n] # {} => m = n

\* The times of the timers
Whens ==
  \A t \in Timers :
    /\ tpp[t] # None \/ status[t] = "Moving" => when[t] > 0
    /\ status[t] \in Modified => nextwhen[t] > 0
    /\ status[t] = "ModifiedLater" => nextwhen[t] >= when[t]

\* timer0When is the least time in the heap, but for a loop that clears the heap.
LeastIs(p) ==
  IF heap[p] = {} THEN timer0When[p] = 0
  ELSE /\ \E t \in heap[p] : when[t] = timer0When[p]
       /\ \A t \in heap[p] : timer0When[p] <= when[t]
Tops == \A p \in Ps : (\A m \in Ps : mpc[m] = "clear" => mp[m] # p) => LeastIs(p)

\* What adjustTimers and deletedTimers count
Earlier(p) == {t \in heap[p] : status[t] = "ModifiedEarlier"}
ToUncount(p) == {g \in Gs : gp[g] = p /\ old[g] = "ModifiedEarlier" /\ gpc[g] \in {"unadjust", "modify"}}
Counted(p) == {g \in Gs : gp[g] = p /\ gpc[g] = "publish" /\ NewStatus(g) = "ModifiedEarlier"}
Deads(p) == {t \in heap[p] : status[t] = "Deleted"}
Undeleting(p) == {g \in Gs : gp[g] = p /\ gpc[g] = "undelete"}
ToCount(p) == {g \in Gs : gp[g] = p /\ gpc[g] = "deleted"}

Counters ==
  \A p \in Ps :
    /\ adjustTimers[p] = Cardinality(Earlier(p)) + Cardinality(ToUncount(p))
                         + Cardinality(Counted(p)) + Uncounted(p, cearlier)
    /\ deletedTimers[p] = Cardinality(Deads(p)) + Cardinality(Undeleting(p))
                          - Cardinality(ToCount(p)) + Uncounted(p, cdel)

TimerInv ==
  /\ TimerTypes /\ Where /\ Modifiers /\ Adders /\ Olds /\ Holders /\ Loops /\ Whens /\ Tops /\ Counters

-----------------------------------------------------------------------------
(* Sets that gain or lose one element *)

\* What b adds to a count
One(b) == IF b THEN 1 ELSE 0

LEMMA OneElement ==
  ASSUME NEW S, IsFiniteSet(S), NEW R, NEW x, S \ {x} = R \ {x}
  PROVE  Cardinality(R) - Cardinality(S) = One(x \in R) - One(x \in S)
<1>1. Cardinality(S) \in Nat
  BY FS_CardinalityType
<1>2. CASE (x \in S) = (x \in R)
  <2>1. S = R
    BY <1>2
  <2> QED BY <1>1, <2>1 DEF One
<1>3. CASE x \in S /\ x \notin R
  <2>1. R = S \ {x}
    BY <1>3
  <2>2. Cardinality(R) = Cardinality(S) - 1
    BY <1>3, <2>1, FS_RemoveElement
  <2> QED BY <1>1, <1>3, <2>2 DEF One
<1>4. CASE x \notin S /\ x \in R
  <2>1. R = S \cup {x}
    BY <1>4
  <2>2. Cardinality(R) = Cardinality(S) + 1
    BY <1>4, <2>1, FS_AddElement
  <2> QED BY <1>1, <1>4, <2>2 DEF One
<1> QED BY <1>2, <1>3, <1>4

\* The sets that the counters are about have sizes.
LEMMA Sizes ==
  ASSUME TimerTypes, NEW p \in Ps
  PROVE  /\ IsFiniteSet(Earlier(p)) /\ IsFiniteSet(Deads(p)) /\ IsFiniteSet(heap[p])
         /\ IsFiniteSet(ToUncount(p)) /\ IsFiniteSet(Counted(p))
         /\ IsFiniteSet(Undeleting(p)) /\ IsFiniteSet(ToCount(p))
         /\ Cardinality(Earlier(p)) \in Nat /\ Cardinality(Deads(p)) \in Nat
         /\ Cardinality(ToUncount(p)) \in Nat /\ Cardinality(Counted(p)) \in Nat
         /\ Cardinality(Undeleting(p)) \in Nat /\ Cardinality(ToCount(p)) \in Nat
         /\ Uncounted(p, cdel) \in Nat /\ Uncounted(p, cearlier) \in Nat
         /\ adjustTimers[p] \in Int /\ deletedTimers[p] \in Int
<1>1. /\ Earlier(p) \subseteq Timers /\ Deads(p) \subseteq Timers /\ heap[p] \subseteq Timers
  BY DEF TimerTypes, Earlier, Deads
<1>2. /\ ToUncount(p) \subseteq Gs /\ Counted(p) \subseteq Gs
      /\ Undeleting(p) \subseteq Gs /\ ToCount(p) \subseteq Gs
  BY DEF ToUncount, Counted, Undeleting, ToCount
<1>3. /\ IsFiniteSet(Earlier(p)) /\ IsFiniteSet(Deads(p)) /\ IsFiniteSet(heap[p])
  BY <1>1, FS_Subset, TimerConstants
<1>4. /\ IsFiniteSet(ToUncount(p)) /\ IsFiniteSet(Counted(p))
      /\ IsFiniteSet(Undeleting(p)) /\ IsFiniteSet(ToCount(p))
  BY <1>2, FS_Subset, TimerConstants
<1>5. Uncounted(p, cdel) \in Nat /\ Uncounted(p, cearlier) \in Nat
  BY DEF TimerTypes, Uncounted
<1>6. adjustTimers[p] \in Int /\ deletedTimers[p] \in Int
  BY DEF TimerTypes
<1> QED BY <1>3, <1>4, <1>5, <1>6, FS_CardinalityType

LEMMA SizesAfter ==
  ASSUME TimerTypes', NEW p \in Ps
  PROVE  /\ Cardinality(Earlier(p))' \in Int /\ Cardinality(Deads(p))' \in Int
         /\ Cardinality(ToUncount(p))' \in Int /\ Cardinality(Counted(p))' \in Int
         /\ Cardinality(Undeleting(p))' \in Int /\ Cardinality(ToCount(p))' \in Int
         /\ Uncounted(p, cdel)' \in Int /\ Uncounted(p, cearlier)' \in Int
<1>1. /\ Earlier(p)' \subseteq Timers /\ Deads(p)' \subseteq Timers
  BY DEF TimerTypes, Earlier, Deads
<1>2. /\ ToUncount(p)' \subseteq Gs /\ Counted(p)' \subseteq Gs
      /\ Undeleting(p)' \subseteq Gs /\ ToCount(p)' \subseteq Gs
  BY DEF ToUncount, Counted, Undeleting, ToCount
<1>3. \A S : S \subseteq Timers => Cardinality(S) \in Int
  BY FS_Subset, FS_CardinalityType, TimerConstants
<1>4. \A S : S \subseteq Gs => Cardinality(S) \in Int
  BY FS_Subset, FS_CardinalityType, TimerConstants
<1>5. Uncounted(p, cdel)' \in Int /\ Uncounted(p, cearlier)' \in Int
  BY DEF TimerTypes, Uncounted
<1> QED BY <1>1, <1>2, <1>3, <1>4, <1>5

\* A counter that is the sum of four numbers, when one of them stays

LEMMA Sum ==
  ASSUME NEW a \in Int, NEW b \in Int, NEW x \in Int, NEW y \in Int, NEW z \in Int, NEW c \in Int,
         NEW xx \in Int, NEW yy \in Int, NEW zz \in Int, NEW cc \in Int,
         a = x + y + z + c, b - a = (xx - x) + (yy - y) + (zz - z) + (cc - c)
  PROVE  b = xx + yy + zz + cc
OBVIOUS

LEMMA Difference ==
  ASSUME NEW a \in Int, NEW b \in Int, NEW x \in Int, NEW y \in Int, NEW z \in Int, NEW c \in Int,
         NEW xx \in Int, NEW yy \in Int, NEW zz \in Int, NEW cc \in Int,
         a = x + y - z + c, b - a = (xx - x) + (yy - y) - (zz - z) + (cc - c)
  PROVE  b = xx + yy - zz + cc
OBVIOUS

\* The counters stay right when they change by as much as what they count.
LEMMA CountersMove ==
  ASSUME TimerInv, TimerTypes', NEW p \in Ps,
         adjustTimers'[p] - adjustTimers[p] =
           (Cardinality(Earlier(p))' - Cardinality(Earlier(p)))
           + (Cardinality(ToUncount(p))' - Cardinality(ToUncount(p)))
           + (Cardinality(Counted(p))' - Cardinality(Counted(p)))
           + (Uncounted(p, cearlier)' - Uncounted(p, cearlier)),
         deletedTimers'[p] - deletedTimers[p] =
           (Cardinality(Deads(p))' - Cardinality(Deads(p)))
           + (Cardinality(Undeleting(p))' - Cardinality(Undeleting(p)))
           - (Cardinality(ToCount(p))' - Cardinality(ToCount(p)))
           + (Uncounted(p, cdel)' - Uncounted(p, cdel))
  PROVE  /\ adjustTimers'[p] = Cardinality(Earlier(p))' + Cardinality(ToUncount(p))'
                               + Cardinality(Counted(p))' + Uncounted(p, cearlier)'
         /\ deletedTimers'[p] = Cardinality(Deads(p))' + Cardinality(Undeleting(p))'
                                - Cardinality(ToCount(p))' + Uncounted(p, cdel)'
<1>0. TimerTypes /\ Counters
  BY DEF TimerInv
<1>1. /\ adjustTimers[p] = Cardinality(Earlier(p)) + Cardinality(ToUncount(p))
                           + Cardinality(Counted(p)) + Uncounted(p, cearlier)
      /\ deletedTimers[p] = Cardinality(Deads(p)) + Cardinality(Undeleting(p))
                            - Cardinality(ToCount(p)) + Uncounted(p, cdel)
  BY <1>0 DEF Counters
<1>2. /\ adjustTimers'[p] \in Int /\ deletedTimers'[p] \in Int
      /\ adjustTimers[p] \in Int /\ deletedTimers[p] \in Int
  BY <1>0 DEF TimerTypes
<1>3. /\ Cardinality(Earlier(p)) \in Int /\ Cardinality(Deads(p)) \in Int
      /\ Cardinality(ToUncount(p)) \in Int /\ Cardinality(Counted(p)) \in Int
      /\ Cardinality(Undeleting(p)) \in Int /\ Cardinality(ToCount(p)) \in Int
      /\ Uncounted(p, cdel) \in Int /\ Uncounted(p, cearlier) \in Int
  BY <1>0, Sizes
<1>4. /\ Cardinality(Earlier(p))' \in Int /\ Cardinality(Deads(p))' \in Int
      /\ Cardinality(ToUncount(p))' \in Int /\ Cardinality(Counted(p))' \in Int
      /\ Cardinality(Undeleting(p))' \in Int /\ Cardinality(ToCount(p))' \in Int
      /\ Uncounted(p, cdel)' \in Int /\ Uncounted(p, cearlier)' \in Int
  BY SizesAfter
<1>5. adjustTimers'[p] = Cardinality(Earlier(p))' + Cardinality(ToUncount(p))'
                         + Cardinality(Counted(p))' + Uncounted(p, cearlier)'
  BY <1>1, <1>2, <1>3, <1>4, Sum
<1>6. deletedTimers'[p] = Cardinality(Deads(p))' + Cardinality(Undeleting(p))'
                          - Cardinality(ToCount(p))' + Uncounted(p, cdel)'
  BY <1>1, <1>2, <1>3, <1>4, Difference
<1> QED BY <1>5, <1>6

\* When the step is about timer t, its P's sets of timers change by t,
LEMMA TimerTallies ==
  ASSUME TimerTypes, TimerTypes', NEW t \in Timers, NEW p \in Ps,
         \A u \in Timers \ {t} : status'[u] = status[u],
         heap'[p] \ {t} = heap[p] \ {t}
  PROVE  /\ Cardinality(Earlier(p))' - Cardinality(Earlier(p)) = One(t \in Earlier(p)') - One(t \in Earlier(p))
         /\ Cardinality(Deads(p))' - Cardinality(Deads(p)) = One(t \in Deads(p)') - One(t \in Deads(p))
<1>0. heap[p] \subseteq Timers /\ heap'[p] \subseteq Timers
  BY DEF TimerTypes
<1>1. Earlier(p) \ {t} = Earlier(p)' \ {t}
  BY <1>0 DEF Earlier
<1>2. Deads(p) \ {t} = Deads(p)' \ {t}
  BY <1>0 DEF Deads
<1> QED BY <1>1, <1>2, Sizes, OneElement

\* and when it is goroutine g's, its sets of goroutines change by g.
LEMMA CallTallies ==
  ASSUME TimerTypes, TimerTypes', NEW g \in Gs, NEW p \in Ps,
         \A h \in Gs \ {g} : /\ gpc'[h] = gpc[h] /\ gp'[h] = gp[h] /\ old'[h] = old[h]
                             /\ gpc[h] = "publish" => (NewStatus(h)' = NewStatus(h))
  PROVE  /\ Cardinality(ToUncount(p))' - Cardinality(ToUncount(p)) = One(g \in ToUncount(p)') - One(g \in ToUncount(p))
         /\ Cardinality(Counted(p))' - Cardinality(Counted(p)) = One(g \in Counted(p)') - One(g \in Counted(p))
         /\ Cardinality(Undeleting(p))' - Cardinality(Undeleting(p)) = One(g \in Undeleting(p)') - One(g \in Undeleting(p))
         /\ Cardinality(ToCount(p))' - Cardinality(ToCount(p)) = One(g \in ToCount(p)') - One(g \in ToCount(p))
<1>1. ToUncount(p) \ {g} = ToUncount(p)' \ {g}
  BY DEF ToUncount
<1>2. Counted(p) \ {g} = Counted(p)' \ {g}
  BY DEF Counted
<1>3. Undeleting(p) \ {g} = Undeleting(p)' \ {g}
  BY DEF Undeleting
<1>4. ToCount(p) \ {g} = ToCount(p)' \ {g}
  BY DEF ToCount
<1> QED BY <1>1, <1>2, <1>3, <1>4, Sizes, OneElement

LEMMA CallsStay ==
  ASSUME NEW p \in Ps, UNCHANGED <<gpc, gp, old>>,
         \A h \in Gs : gpc[h] = "publish" => (NewStatus(h)' = NewStatus(h))
  PROVE  /\ ToUncount(p)' = ToUncount(p) /\ Counted(p)' = Counted(p)
         /\ Undeleting(p)' = Undeleting(p) /\ ToCount(p)' = ToCount(p)
BY DEF ToUncount, Counted, Undeleting, ToCount

-----------------------------------------------------------------------------
(* What steps of one kind keep *)

\* A goroutine takes, keeps or gives back timer t.
LEMMA ModifiersMove ==
  ASSUME Modifiers, NEW g \in Gs, NEW t \in Timers,
         \A u \in Timers \ {t} : status'[u] = status[u] /\ tpp'[u] = tpp[u],
         \A h \in Gs \ {g} : gpc'[h] = gpc[h] /\ gt'[h] = gt[h] /\ gp'[h] = gp[h],
         \/ gpc[g] \in Holding /\ gt[g] = t
         \/ gpc[g] \notin Holding /\ status[t] # "Modifying",
         \/ /\ gpc'[g] \in Holding /\ gt'[g] = t /\ gp'[g] \in Ps
            /\ status'[t] = "Modifying" /\ tpp'[t] = IF gpc'[g] = "readd" THEN None ELSE gp'[g]
         \/ gpc'[g] \notin Holding /\ status'[t] # "Modifying"
  PROVE  Modifiers'
<1>1. \A h \in Gs \ {g} : gpc[h] \in Holding => gt[h] \in Timers \ {t}
  BY DEF Modifiers
<1>2. ASSUME NEW u \in Timers, status'[u] = "Modifying"
      PROVE  \E h \in Gs : gpc'[h] \in Holding /\ gt'[h] = u
  <2>1. CASE u = t
    BY <1>2, <2>1
  <2>2. CASE u # t
    <3>1. PICK h \in Gs : gpc[h] \in Holding /\ gt[h] = u
      BY <1>2, <2>2 DEF Modifiers
    <3>2. h # g
      BY <2>2, <3>1, <1>2 DEF Modifiers
    <3> QED BY <3>1, <3>2
  <2> QED BY <2>1, <2>2
<1>3. ASSUME NEW h \in Gs, gpc'[h] \in Holding
      PROVE  /\ gt'[h] \in Timers /\ gp'[h] \in Ps
             /\ status'[gt'[h]] = "Modifying"
             /\ tpp'[gt'[h]] = IF gpc'[h] = "readd" THEN None ELSE gp'[h]
  <2>1. CASE h = g
    BY <1>3, <2>1
  <2>2. CASE h # g
    <3>1. gpc[h] \in Holding /\ gt[h] \in Timers \ {t}
      BY <1>1, <1>3, <2>2
    <3>2. /\ gp[h] \in Ps /\ status[gt[h]] = "Modifying"
          /\ tpp[gt[h]] = IF gpc[h] = "readd" THEN None ELSE gp[h]
      BY <3>1 DEF Modifiers
    <3> QED BY <2>2, <3>1, <3>2
  <2> QED BY <2>1, <2>2
<1>4. ASSUME NEW h \in Gs, NEW k \in Gs, gpc'[h] \in Holding, gpc'[k] \in Holding, gt'[h] = gt'[k]
      PROVE  h = k
  <2>1. \A i \in Gs : gpc'[i] \in Holding => (gt'[i] = t <=> i = g)
    BY <1>1
  <2>2. CASE h # g /\ k # g
    BY <1>4, <2>2 DEF Modifiers
  <2> QED BY <1>4, <2>1, <2>2
<1> QED BY <1>2, <1>3, <1>4 DEF Modifiers

LEMMA ModifiersStay ==
  ASSUME Modifiers, UNCHANGED <<gpc, gt, gp>>,
         \A u \in Timers : status[u] = "Modifying" \/ status'[u] = "Modifying" =>
                             status'[u] = status[u] /\ tpp'[u] = tpp[u]
  PROVE  Modifiers'
<1>1. \A u \in Timers : status'[u] = "Modifying" => status[u] = "Modifying"
  OBVIOUS
<1>2. \A h \in Gs : gpc[h] \in Holding => status'[gt[h]] = status[gt[h]] /\ tpp'[gt[h]] = tpp[gt[h]]
  BY DEF Modifiers
<1> QED BY <1>1, <1>2 DEF Modifiers

\* A goroutine changes the status of a timer, and nothing in the heaps.
LEMMA CallKeeps ==
  ASSUME TimerInv, NEW g \in Gs, NEW t \in Timers,
         UNCHANGED <<now, when, tpp, lock, heap, timer0When, mvars>>,
         fresh' \subseteq fresh \ {t},
         \A u \in Timers \ {t} : status'[u] = status[u] /\ nextwhen'[u] = nextwhen[u],
         \A h \in Gs \ {g} : gpc'[h] = gpc[h] /\ gt'[h] = gt[h] /\ gp'[h] = gp[h],
         gpc[g] # "clean", gpc'[g] # "clean",
         \A h \in Gs : gpc[h] = "clean" => gt[h] # t,
         status[t] # "Moving", status'[t] \in {"Waiting", "Deleted", "Modifying"} \cup Modified,
         status'[t] # "Modifying" => tpp[t] # None,
         status'[t] \in Modified => nextwhen'[t] > 0,
         status'[t] = "ModifiedLater" => nextwhen'[t] >= when[t],
         \/ gpc[g] \in Holding /\ gt[g] = t
         \/ gpc[g] \notin Holding /\ status[t] # "Modifying",
         \/ /\ gpc'[g] \in Holding /\ gt'[g] = t /\ gp'[g] \in Ps
            /\ status'[t] = "Modifying" /\ tpp[t] = IF gpc'[g] = "readd" THEN None ELSE gp'[g]
         \/ gpc'[g] \notin Holding /\ status'[t] # "Modifying"
  PROVE  Where' /\ Modifiers' /\ Adders' /\ Holders' /\ Loops' /\ Whens' /\ Tops'
<1>0. /\ Where /\ Modifiers /\ Adders /\ Holders /\ Loops /\ Whens /\ Tops
      /\ now' = now /\ when' = when /\ tpp' = tpp /\ lock' = lock /\ heap' = heap /\ timer0When' = timer0When
      /\ mpc' = mpc /\ mp' = mp /\ rnow' = rnow /\ todo' = todo /\ moved' = moved
      /\ cdel' = cdel /\ cearlier' = cearlier
  BY DEF TimerInv, mvars
<1>1. Modifiers'
  BY <1>0, ModifiersMove
<1>2. Where'
  <2>1. ASSUME NEW u \in Timers
        PROVE  /\ status'[u] \in {"Deleted"} \cup Modified => tpp[u] # None
               /\ status'[u] \in {"NoStatus", "Removed", "Moving"} => tpp[u] = None
               /\ status'[u] = "Waiting" /\ tpp[u] = None => \E h \in Gs : gpc'[h] = "clean" /\ gt'[h] = u
               /\ status'[u] = "Moving" <=> \E m \in Ps : u \in moved[m]
               /\ u \in fresh' => status'[u] = "NoStatus"
    <3>1. CASE u = t
      BY <1>0, <3>1 DEF Where, Modified
    <3>2. CASE u # t
      <4>1. status'[u] = status[u] /\ (u \in fresh' => u \in fresh)
        BY <3>2
      <4>2. \A h \in Gs : gpc[h] = "clean" => gpc'[h] = "clean" /\ gt'[h] = gt[h]
        OBVIOUS
      <4> QED BY <1>0, <4>1, <4>2 DEF Where
    <3> QED BY <3>1, <3>2
  <2> QED BY <1>0, <2>1 DEF Where
<1>3. Adders'
  <2>1. \A h \in Gs : gpc'[h] = "clean" =>
          gpc[h] = "clean" /\ gt'[h] = gt[h] /\ gp'[h] = gp[h] /\ gt[h] # t
    OBVIOUS
  <2> QED BY <1>0, <2>1 DEF Adders
<1>4. Holders'
  <2>1. \A h \in Gs : gpc[h] = "clean" => gpc'[h] = "clean" /\ gp'[h] = gp[h]
    OBVIOUS
  <2> QED BY <1>0, <2>1 DEF Holders
<1>5. Loops'
  BY <1>0 DEF Loops
<1>6. Whens'
  <2> SUFFICES ASSUME NEW u \in Timers
               PROVE  /\ tpp[u] # None \/ status'[u] = "Moving" => when[u] > 0
                      /\ status'[u] \in Modified => nextwhen'[u] > 0
                      /\ status'[u] = "ModifiedLater" => nextwhen'[u] >= when[u]
    BY <1>0 DEF Whens
  <2>1. CASE u = t
    BY <1>0, <2>1 DEF Whens, Modified
  <2>2. CASE u # t
    BY <1>0, <2>2 DEF Whens
  <2> QED BY <2>1, <2>2
<1>7. Tops'
  BY <1>0 DEF Tops, LeastIs
<1> QED BY <1>1, <1>2, <1>3, <1>4, <1>5, <1>6, <1>7

\* The counters, before and after such a step
LEMMA CallCounts ==
  ASSUME TimerInv, TimerTypes', NEW g \in Gs, NEW t \in Timers, NEW p \in Ps,
         UNCHANGED <<when, lock, heap, cdel, cearlier>>,
         \A u \in Timers \ {t} : status'[u] = status[u],
         \A h \in Gs \ {g} : /\ gpc'[h] = gpc[h] /\ gt'[h] = gt[h] /\ gp'[h] = gp[h]
                             /\ old'[h] = old[h] /\ gwhen'[h] = gwhen[h],
         adjustTimers'[p] - adjustTimers[p] =
           One(t \in Earlier(p)') - One(t \in Earlier(p))
           + One(g \in ToUncount(p)') - One(g \in ToUncount(p))
           + One(g \in Counted(p)') - One(g \in Counted(p)) + 0,
         deletedTimers'[p] - deletedTimers[p] =
           One(t \in Deads(p)') - One(t \in Deads(p))
           + One(g \in Undeleting(p)') - One(g \in Undeleting(p))
           - (One(g \in ToCount(p)') - One(g \in ToCount(p))) + 0
  PROVE  /\ adjustTimers'[p] = Cardinality(Earlier(p))' + Cardinality(ToUncount(p))'
                               + Cardinality(Counted(p))' + Uncounted(p, cearlier)'
         /\ deletedTimers'[p] = Cardinality(Deads(p))' + Cardinality(Undeleting(p))'
                                - Cardinality(ToCount(p))' + Uncounted(p, cdel)'
<1>0. TimerTypes /\ Counters
  BY DEF TimerInv
<1>1. /\ Cardinality(Earlier(p))' - Cardinality(Earlier(p)) = One(t \in Earlier(p)') - One(t \in Earlier(p))
      /\ Cardinality(Deads(p))' - Cardinality(Deads(p)) = One(t \in Deads(p)') - One(t \in Deads(p))
  BY <1>0, TimerTallies
<1>2. \A h \in Gs \ {g} : NewStatus(h)' = NewStatus(h)
  BY DEF NewStatus
<1>3. /\ Cardinality(ToUncount(p))' - Cardinality(ToUncount(p)) = One(g \in ToUncount(p)') - One(g \in ToUncount(p))
      /\ Cardinality(Counted(p))' - Cardinality(Counted(p)) = One(g \in Counted(p)') - One(g \in Counted(p))
      /\ Cardinality(Undeleting(p))' - Cardinality(Undeleting(p)) = One(g \in Undeleting(p)') - One(g \in Undeleting(p))
      /\ Cardinality(ToCount(p))' - Cardinality(ToCount(p)) = One(g \in ToCount(p)') - One(g \in ToCount(p))
  BY <1>0, <1>2, CallTallies
<1>4. Uncounted(p, cearlier)' = Uncounted(p, cearlier) /\ Uncounted(p, cdel)' = Uncounted(p, cdel)
  BY DEF Uncounted
<1>5. Uncounted(p, cearlier) \in Int /\ Uncounted(p, cdel) \in Int
  BY <1>0, Sizes
<1>6. /\ Uncounted(p, cearlier)' - Uncounted(p, cearlier) = 0
      /\ Uncounted(p, cdel)' - Uncounted(p, cdel) = 0
  BY <1>4, <1>5
<1> QED BY <1>1, <1>3, <1>6, CountersMove, Zenon

-----------------------------------------------------------------------------
(* deltimer and modtimer *)

\* A timer that a call may take is in the heap of its P unless its status says otherwise,
\* and nobody else is at it.
LEMMA Free ==
  ASSUME TimerInv, NEW t \in Timers, Known(t),
         status[t] \notin {"Modifying", "Moving"}
  PROVE  /\ \A h \in Gs : gpc[h] \in Holding \cup {"clean"} => gt[h] # t
         /\ status[t] \in {"Waiting", "Deleted"} \cup Modified => tpp[t] \in Ps
         /\ status[t] \in {"NoStatus", "Removed"} => tpp[t] = None
<1>0. TimerTypes /\ Where /\ Modifiers /\ Adders
  BY DEF TimerInv
<1>1. \A h \in Gs : gpc[h] = "clean" => gt[h] # t
  BY <1>0 DEF Known, Adders
<1>2. \A h \in Gs : gpc[h] \in Holding => gt[h] # t
  BY <1>0 DEF Modifiers
<1>3. tpp[t] \in Ps \cup {None}
  BY <1>0 DEF TimerTypes
<1>4. status[t] = "Waiting" => t \notin fresh
  BY <1>0 DEF Where
<1>5. status[t] \in {"Waiting", "Deleted"} \cup Modified => tpp[t] # None
  BY <1>0, <1>1, <1>4 DEF Where, Known
<1> QED BY <1>0, <1>1, <1>2, <1>3, <1>5 DEF Where

\* A step that only counts a call or records an event
LEMMA Unmoved ==
  ASSUME TimerInv, UNCHANGED <<now, status, when, nextwhen, tpp, fresh>>,
         UNCHANGED <<lock, heap, timer0When, adjustTimers, deletedTimers>>,
         UNCHANGED <<gpc, gt, gp, old, gwhen>>,
         UNCHANGED <<mpc, mp, rnow, todo, moved, cdel, cearlier>>
  PROVE  TimerInv'
<1>1. /\ TimerTypes' /\ Where' /\ Modifiers' /\ Adders' /\ Olds' /\ Holders' /\ Loops'
  BY DEF TimerInv, TimerTypes, Where, Modifiers, Adders, Olds, Holders, Loops
<1>2. Whens' /\ Tops'
  BY DEF TimerInv, Whens, Tops, LeastIs
<1>3. \A p \in Ps : /\ Earlier(p)' = Earlier(p) /\ ToUncount(p)' = ToUncount(p) /\ Counted(p)' = Counted(p)
                    /\ Deads(p)' = Deads(p) /\ Undeleting(p)' = Undeleting(p) /\ ToCount(p)' = ToCount(p)
                    /\ Uncounted(p, cearlier)' = Uncounted(p, cearlier)
                    /\ Uncounted(p, cdel)' = Uncounted(p, cdel)
  BY DEF Earlier, ToUncount, Counted, NewStatus, Deads, Undeleting, ToCount, Uncounted
<1>4. Counters'
  BY <1>3 DEF TimerInv, Counters
<1> QED BY <1>1, <1>2, <1>4 DEF TimerInv

LEMMA deltimerInv ==
  ASSUME TimerInv, NEW g \in Gs, deltimer(g)
  PROVE  TimerInv'
<1>0. TimerTypes /\ Where /\ Modifiers /\ Adders /\ Olds /\ Whens
  BY DEF TimerInv
<1>1. /\ UNCHANGED <<now, when, nextwhen, tpp, fresh, lock, heap, timer0When, adjustTimers, deletedTimers>>
      /\ UNCHANGED <<mpc, mp, rnow, todo, moved, cdel, cearlier>>
      /\ mvars' = mvars /\ gpc[g] = "idle"
  BY DEF deltimer, Call, hvars, mvars
<1>2. PICK t \in Timers :
        /\ Known(t)
        /\ \/ /\ status[t] \in {"Waiting"} \cup Modified
              /\ status' = Set(status, t, "Modifying")
              /\ Locals(g, t, tpp[t], status[t], 0)
              /\ GJump(g, IF status[t] = "ModifiedEarlier" THEN "unadjust" ELSE "delete")
           \/ UNCHANGED <<status, gpc, gt, gp, old, gwhen>>
  BY DEF deltimer
<1>3. CASE UNCHANGED <<status, gpc, gt, gp, old, gwhen>>
  BY <1>1, <1>3, Unmoved
<1>4. CASE /\ status[t] \in {"Waiting"} \cup Modified
           /\ status' = Set(status, t, "Modifying")
           /\ Locals(g, t, tpp[t], status[t], 0)
           /\ GJump(g, IF status[t] = "ModifiedEarlier" THEN "unadjust" ELSE "delete")
  <2>1. /\ \A h \in Gs : gpc[h] \in Holding \cup {"clean"} => gt[h] # t
        /\ tpp[t] \in Ps /\ t \notin fresh
    <3>1. t \notin fresh
      BY <1>0, <1>4 DEF Where, Modified
    <3> QED BY <1>2, <1>4, <3>1, Free DEF Modified
  <2>2. /\ status'[t] = "Modifying" /\ (\A u \in Timers \ {t} : status'[u] = status[u])
        /\ gpc'[g] = (IF status[t] = "ModifiedEarlier" THEN "unadjust" ELSE "delete")
        /\ gt'[g] = t /\ gp'[g] = tpp[t] /\ old'[g] = status[t]
        /\ \A h \in Gs \ {g} : /\ gpc'[h] = gpc[h] /\ gt'[h] = gt[h] /\ gp'[h] = gp[h]
                               /\ old'[h] = old[h] /\ gwhen'[h] = gwhen[h]
    BY <1>0, <1>4 DEF TimerTypes, Set, Locals, GJump
  <2>3. TimerTypes'
    <3>1. gpc'[g] \in GPhases /\ status[t] \in Statuses /\ "Modifying" \in Statuses
      BY <1>0, <2>2 DEF GPhases, Holding, TimerTypes, Statuses
    <3>2. /\ gpc' \in [Gs -> GPhases] /\ status' \in [Timers -> Statuses]
          /\ gt' \in [Gs -> Timers \cup {None}] /\ gp' \in [Gs -> Ps \cup {None}]
          /\ old' \in [Gs -> Statuses] /\ gwhen' \in [Gs -> Nat]
      BY <1>0, <1>4, <2>1, <2>2, <3>1 DEF TimerTypes, Set, Locals, GJump
    <3> QED BY <1>0, <1>1, <3>2 DEF TimerTypes
  <2>4. gpc[g] \notin Holding /\ gpc'[g] \in Holding /\ gpc'[g] # "readd"
    BY <1>1, <2>2 DEF Holding
  <2>5. Where' /\ Modifiers' /\ Adders' /\ Holders' /\ Loops' /\ Whens' /\ Tops'
    <3>1. /\ fresh' \subseteq fresh \ {t} /\ nextwhen' = nextwhen /\ status[t] \notin {"Moving", "Modifying"}
          /\ status'[t] \notin Modified
      BY <1>1, <1>4, <2>1, <2>2 DEF Modified
    <3>2. gpc[g] # "clean" /\ gpc'[g] # "clean"
      BY <1>1, <2>2
    <3> QED BY <1>1, <2>1, <2>2, <2>4, <3>1, <3>2, CallKeeps
  <2>6. Olds'
    <3>1. /\ gpc'[g] = "unadjust" => old'[g] = "ModifiedEarlier"
          /\ gpc'[g] = "delete" => old'[g] \in {"Waiting"} \cup Modified
          /\ gpc'[g] \in {"unadjust", "delete"}
      BY <1>4, <2>2
    <3> QED BY <1>0, <2>2, <3>1 DEF Olds
  <2>7. Counters'
    <3> SUFFICES ASSUME NEW p \in Ps
                 PROVE  /\ adjustTimers'[p] = Cardinality(Earlier(p))' + Cardinality(ToUncount(p))'
                                              + Cardinality(Counted(p))' + Uncounted(p, cearlier)'
                        /\ deletedTimers'[p] = Cardinality(Deads(p))' + Cardinality(Undeleting(p))'
                                               - Cardinality(ToCount(p))' + Uncounted(p, cdel)'
      BY DEF Counters
    <3>1. /\ t \in Earlier(p) <=> p = tpp[t] /\ status[t] = "ModifiedEarlier"
          /\ t \notin Earlier(p)' /\ t \notin Deads(p) /\ t \notin Deads(p)'
      BY <1>0, <1>4, <2>2 DEF Earlier, Deads, Where, Modified
    <3>2. /\ g \in ToUncount(p)' <=> p = tpp[t] /\ status[t] = "ModifiedEarlier"
          /\ g \notin ToUncount(p) /\ g \notin Counted(p) /\ g \notin Counted(p)'
          /\ g \notin Undeleting(p) /\ g \notin Undeleting(p)' /\ g \notin ToCount(p) /\ g \notin ToCount(p)'
      BY <1>1, <2>2 DEF ToUncount, Counted, Undeleting, ToCount
    <3>3. /\ adjustTimers'[p] - adjustTimers[p] = 0 /\ deletedTimers'[p] - deletedTimers[p] = 0
      BY <1>0, <1>1 DEF TimerTypes
    <3> QED BY <1>1, <2>2, <2>3, <3>1, <3>2, <3>3, CallCounts DEF One
  <2> QED BY <2>3, <2>5, <2>6, <2>7 DEF TimerInv
<1> QED BY <1>2, <1>3, <1>4

LEMMA modtimerInv ==
  ASSUME TimerInv, NEW g \in Gs, modtimer(g)
  PROVE  TimerInv'
<1>0. TimerTypes /\ Where /\ Modifiers /\ Adders /\ Olds /\ Whens
  BY DEF TimerInv
<1>1. /\ UNCHANGED <<now, when, nextwhen, tpp, lock, heap, timer0When, adjustTimers, deletedTimers>>
      /\ UNCHANGED <<mpc, mp, rnow, todo, moved, cdel, cearlier>>
      /\ mvars' = mvars /\ gpc[g] = "idle"
  BY DEF modtimer, Call, hvars, mvars
<1>2. PICK t \in Timers, w \in Times :
        /\ Known(t)
        /\ status[t] \in {"Waiting", "NoStatus", "Removed", "Deleted"} \cup Modified
        /\ status' = Set(status, t, "Modifying")
        /\ fresh' = fresh \ {t}
        /\ IF status[t] \in {"NoStatus", "Removed"}
           THEN GJump(g, "readd") /\ \E p \in Ps : Locals(g, t, p, status[t], w)
           ELSE /\ GJump(g, IF status[t] = "Deleted" THEN "undelete" ELSE "modify")
                /\ Locals(g, t, tpp[t], status[t], w)
  BY DEF modtimer
<1>3. /\ \A h \in Gs : gpc[h] \in Holding \cup {"clean"} => gt[h] # t
      /\ status[t] \in {"Waiting", "Deleted"} \cup Modified => tpp[t] \in Ps
      /\ status[t] \in {"NoStatus", "Removed"} => tpp[t] = None
  BY <1>2, Free DEF Modified
<1>4. PICK q \in Ps : /\ Locals(g, t, q, status[t], w)
                      /\ tpp[t] = IF status[t] \in {"NoStatus", "Removed"} THEN None ELSE q
  BY <1>2, <1>3 DEF Modified
<1>5. PICK where \in {"readd", "undelete", "modify"} :
        /\ GJump(g, where)
        /\ where = "readd" <=> status[t] \in {"NoStatus", "Removed"}
        /\ where = "undelete" <=> status[t] = "Deleted"
        /\ where = "modify" <=> status[t] \in {"Waiting"} \cup Modified
  <2>1. status[t] \in {"Waiting", "NoStatus", "Removed", "Deleted", "ModifiedEarlier", "ModifiedLater"}
    BY <1>2 DEF Modified
  <2>2. GJump(g, IF status[t] \in {"NoStatus", "Removed"} THEN "readd"
                 ELSE IF status[t] = "Deleted" THEN "undelete" ELSE "modify")
    BY <1>2
  <2> QED BY <2>1, <2>2 DEF Modified
<1>6. /\ status'[t] = "Modifying" /\ (\A u \in Timers \ {t} : status'[u] = status[u])
      /\ gpc'[g] = where /\ gt'[g] = t /\ gp'[g] = q /\ old'[g] = status[t] /\ gwhen'[g] = w
      /\ \A h \in Gs \ {g} : /\ gpc'[h] = gpc[h] /\ gt'[h] = gt[h] /\ gp'[h] = gp[h]
                             /\ old'[h] = old[h] /\ gwhen'[h] = gwhen[h]
  BY <1>0, <1>2, <1>4, <1>5 DEF TimerTypes, Set, Locals, GJump
<1>7. TimerTypes'
  <2>1. where \in GPhases /\ status[t] \in Statuses /\ "Modifying" \in Statuses /\ w \in Nat
    BY <1>0, <1>5 DEF GPhases, Holding, TimerTypes, Statuses, Times
  <2>2. /\ gpc' \in [Gs -> GPhases] /\ status' \in [Timers -> Statuses]
        /\ gt' \in [Gs -> Timers \cup {None}] /\ gp' \in [Gs -> Ps \cup {None}]
        /\ old' \in [Gs -> Statuses] /\ gwhen' \in [Gs -> Nat]
    BY <1>0, <1>2, <1>4, <1>5, <2>1 DEF TimerTypes, Set, Locals, GJump
  <2> QED BY <1>0, <1>1, <1>2, <2>2 DEF TimerTypes
<1>8. Where' /\ Modifiers' /\ Adders' /\ Holders' /\ Loops' /\ Whens' /\ Tops'
  <2>1. /\ fresh' \subseteq fresh \ {t} /\ nextwhen' = nextwhen /\ status[t] \notin {"Moving", "Modifying"}
        /\ status'[t] \notin Modified
    BY <1>1, <1>2, <1>6 DEF Modified
  <2>2. /\ gpc[g] # "clean" /\ gpc'[g] # "clean" /\ gpc[g] \notin Holding /\ gpc'[g] \in Holding
        /\ tpp[t] = IF gpc'[g] = "readd" THEN None ELSE gp'[g]
    BY <1>1, <1>4, <1>5, <1>6 DEF Holding
  <2> QED BY <1>1, <1>3, <1>6, <2>1, <2>2, CallKeeps
<1>9. Olds'
  <2>1. /\ gpc'[g] \in {"readd", "undelete", "modify"} /\ gwhen'[g] \in Times
        /\ gpc'[g] \in {"readd", "added"} => old'[g] \in {"NoStatus", "Removed"}
        /\ gpc'[g] = "undelete" => old'[g] = "Deleted"
        /\ gpc'[g] \in {"modify", "publish"} => old'[g] \in {"Waiting", "Deleted"} \cup Modified
    BY <1>5, <1>6
  <2> QED BY <1>0, <1>6, <2>1 DEF Olds
<1>10. Counters'
  <2> SUFFICES ASSUME NEW p \in Ps
               PROVE  /\ adjustTimers'[p] = Cardinality(Earlier(p))' + Cardinality(ToUncount(p))'
                                            + Cardinality(Counted(p))' + Uncounted(p, cearlier)'
                      /\ deletedTimers'[p] = Cardinality(Deads(p))' + Cardinality(Undeleting(p))'
                                             - Cardinality(ToCount(p))' + Uncounted(p, cdel)'
    BY DEF Counters
  <2>1. /\ t \in Earlier(p) <=> p = tpp[t] /\ status[t] = "ModifiedEarlier"
        /\ t \in Deads(p) <=> p = tpp[t] /\ status[t] = "Deleted"
        /\ t \notin Earlier(p)' /\ t \notin Deads(p)'
    BY <1>0, <1>6 DEF Earlier, Deads, Where
  <2>2. /\ g \in ToUncount(p)' <=> p = tpp[t] /\ status[t] = "ModifiedEarlier"
        /\ g \in Undeleting(p)' <=> p = tpp[t] /\ status[t] = "Deleted"
    BY <1>4, <1>5, <1>6 DEF ToUncount, Undeleting, Modified
  <2>3. /\ g \notin ToUncount(p) /\ g \notin Counted(p) /\ g \notin Counted(p)'
        /\ g \notin Undeleting(p) /\ g \notin ToCount(p) /\ g \notin ToCount(p)'
    BY <1>1, <1>5, <1>6 DEF ToUncount, Counted, Undeleting, ToCount
  <2>4. adjustTimers'[p] - adjustTimers[p] = 0 /\ deletedTimers'[p] - deletedTimers[p] = 0
    BY <1>0, <1>1 DEF TimerTypes
  <2> QED BY <1>1, <1>6, <1>7, <2>1, <2>2, <2>3, <2>4, CallCounts DEF One
<1> QED BY <1>7, <1>8, <1>9, <1>10 DEF TimerInv

\* What is known of a timer with the status timerModifying
LEMMA Held ==
  ASSUME TimerInv, NEW g \in Gs, gpc[g] \in Holding
  PROVE  /\ gt[g] \in Timers /\ gp[g] \in Ps /\ status[gt[g]] = "Modifying" /\ gt[g] \notin fresh
         /\ tpp[gt[g]] = IF gpc[g] = "readd" THEN None ELSE gp[g]
         /\ \A p \in Ps : gt[g] \in heap[p] <=> p = gp[g] /\ gpc[g] # "readd"
         /\ \A h \in Gs : gpc[h] = "clean" => gt[h] # gt[g]
         /\ \A h \in Gs : gpc[h] \in Holding /\ gt[h] = gt[g] => h = g
<1>0. TimerTypes /\ Where /\ Modifiers /\ Adders
  BY DEF TimerInv
<1>1. /\ gt[g] \in Timers /\ gp[g] \in Ps /\ status[gt[g]] = "Modifying"
      /\ tpp[gt[g]] = IF gpc[g] = "readd" THEN None ELSE gp[g]
      /\ \A h \in Gs : gpc[h] \in Holding /\ gt[h] = gt[g] => h = g
  BY <1>0 DEF Modifiers
<1>2. /\ gt[g] \notin fresh
      /\ \A p \in Ps : gt[g] \in heap[p] <=> p = gp[g] /\ gpc[g] # "readd"
  BY <1>0, <1>1, TimerConstants DEF Where
<1>3. \A h \in Gs : gpc[h] = "clean" => gt[h] # gt[g]
  BY <1>0, <1>1 DEF Adders
<1> QED BY <1>1, <1>2, <1>3

\* The call goes on to its next operation, and leaves the timer as it is.
LEMMA CallGoesOn ==
  ASSUME TimerInv, NEW g \in Gs, gpc[g] \in {"unadjust", "undelete", "modify"},
         NEW where \in {"delete", "modify", "publish"}, gpc' = Set(gpc, g, where),
         UNCHANGED <<now, status, when, nextwhen, tpp, fresh, lock, heap, timer0When>>,
         UNCHANGED <<gt, gp, old, gwhen>>, UNCHANGED mvars,
         where = "delete" => old[g] \in {"Waiting"} \cup Modified,
         where \in {"modify", "publish"} =>
           gwhen[g] \in Times /\ old[g] \in {"Waiting", "Deleted"} \cup Modified,
         adjustTimers' \in [Ps -> Int], deletedTimers' \in [Ps -> Int],
         \A p \in Ps :
           /\ adjustTimers'[p] - adjustTimers[p] =
                One(g \in ToUncount(p)') - One(g \in ToUncount(p))
                + One(g \in Counted(p)') - One(g \in Counted(p))
           /\ deletedTimers'[p] - deletedTimers[p] =
                One(g \in Undeleting(p)') - One(g \in Undeleting(p))
                - (One(g \in ToCount(p)') - One(g \in ToCount(p)))
  PROVE  TimerInv'
<1>0. /\ TimerTypes /\ Olds /\ Whens
      /\ mpc' = mpc /\ mp' = mp /\ rnow' = rnow /\ todo' = todo /\ moved' = moved
      /\ cdel' = cdel /\ cearlier' = cearlier
  BY DEF TimerInv, mvars
<1>1. gpc[g] \in Holding /\ gpc[g] # "readd" /\ gpc[g] # "clean"
  BY DEF Holding
<1>2. PICK t \in Timers : t = gt[g]
  BY <1>1, Held
<1>3. /\ gp[g] \in Ps /\ status[t] = "Modifying" /\ t \notin fresh /\ tpp[t] = gp[g]
      /\ \A h \in Gs : gpc[h] = "clean" => gt[h] # t
  BY <1>1, <1>2, Held
<1>4. gpc'[g] = where /\ (\A h \in Gs \ {g} : gpc'[h] = gpc[h]) /\ where \in Holding \ {"readd"} /\ where # "clean"
  BY <1>0 DEF TimerTypes, Set, Holding
<1>5. TimerTypes'
  <2>1. gpc' \in [Gs -> GPhases]
    BY <1>0, <1>4 DEF TimerTypes, Set, GPhases
  <2> QED BY <1>0, <2>1 DEF TimerTypes
<1>6. Where' /\ Modifiers' /\ Adders' /\ Holders' /\ Loops' /\ Whens' /\ Tops'
  <2>1. fresh' \subseteq fresh \ {t} /\ status'[t] \notin Modified
    BY <1>3 DEF Modified
  <2> QED BY <1>1, <1>2, <1>3, <1>4, <2>1, CallKeeps
<1>7. Olds'
  BY <1>0, <1>4 DEF Olds
<1>8. ASSUME NEW p \in Ps
      PROVE  /\ adjustTimers'[p] = Cardinality(Earlier(p))' + Cardinality(ToUncount(p))'
                                   + Cardinality(Counted(p))' + Uncounted(p, cearlier)'
             /\ deletedTimers'[p] = Cardinality(Deads(p))' + Cardinality(Undeleting(p))'
                                    - Cardinality(ToCount(p))' + Uncounted(p, cdel)'
  <2>1. t \notin Earlier(p) /\ t \notin Earlier(p)' /\ t \notin Deads(p) /\ t \notin Deads(p)'
    BY <1>3 DEF Earlier, Deads
  <2>2. /\ One(t \in Earlier(p)') = 0 /\ One(t \in Earlier(p)) = 0
        /\ One(t \in Deads(p)') = 0 /\ One(t \in Deads(p)) = 0
    BY <2>1 DEF One
  <2>3. /\ One(g \in ToUncount(p)') \in Int /\ One(g \in ToUncount(p)) \in Int
        /\ One(g \in Counted(p)') \in Int /\ One(g \in Counted(p)) \in Int
        /\ One(g \in Undeleting(p)') \in Int /\ One(g \in Undeleting(p)) \in Int
        /\ One(g \in ToCount(p)') \in Int /\ One(g \in ToCount(p)) \in Int
    BY DEF One
  <2>4. /\ adjustTimers'[p] - adjustTimers[p] =
             One(t \in Earlier(p)') - One(t \in Earlier(p))
             + One(g \in ToUncount(p)') - One(g \in ToUncount(p))
             + One(g \in Counted(p)') - One(g \in Counted(p)) + 0
        /\ deletedTimers'[p] - deletedTimers[p] =
             One(t \in Deads(p)') - One(t \in Deads(p))
             + One(g \in Undeleting(p)') - One(g \in Undeleting(p))
             - (One(g \in ToCount(p)') - One(g \in ToCount(p))) + 0
    BY <2>2, <2>3
  <2> QED BY <1>0, <1>4, <1>5, <2>4, CallCounts
<1>9. Counters'
  BY <1>8 DEF Counters
<1> QED BY <1>5, <1>6, <1>7, <1>9 DEF TimerInv

LEMMA UnadjustInv ==
  ASSUME TimerInv, NEW g \in Gs, Unadjust(g)
  PROVE  TimerInv'
<1>0. /\ TimerTypes /\ Olds /\ gp[g] \in Ps
      /\ gpc[g] = "unadjust" /\ old[g] = "ModifiedEarlier"
      /\ adjustTimers' = Add(adjustTimers, gp[g], -1) /\ deletedTimers' = deletedTimers
      /\ gpc' = Set(gpc, g, "delete")
      /\ UNCHANGED <<now, status, when, nextwhen, tpp, fresh, lock, heap, timer0When>>
      /\ UNCHANGED <<gt, gp, old, gwhen>> /\ UNCHANGED mvars
  BY Held DEF TimerInv, Unadjust, GJump, tvars, Olds, Holding
<1>1. gpc'[g] = "delete"
  BY <1>0 DEF TimerTypes, Set
<1>2. /\ adjustTimers' \in [Ps -> Int] /\ deletedTimers' \in [Ps -> Int]
      /\ \A p \in Ps : /\ adjustTimers'[p] - adjustTimers[p] = IF p = gp[g] THEN -1 ELSE 0
                       /\ deletedTimers'[p] - deletedTimers[p] = 0
  BY <1>0 DEF TimerTypes, Add
<1>3. \A p \in Ps :
        /\ g \in ToUncount(p) <=> p = gp[g]
        /\ g \notin ToUncount(p)' /\ g \notin Counted(p) /\ g \notin Counted(p)'
        /\ g \notin Undeleting(p) /\ g \notin Undeleting(p)' /\ g \notin ToCount(p) /\ g \notin ToCount(p)'
  BY <1>0, <1>1 DEF ToUncount, Counted, Undeleting, ToCount
<1>4. \A p \in Ps :
        /\ adjustTimers'[p] - adjustTimers[p] =
             One(g \in ToUncount(p)') - One(g \in ToUncount(p))
             + One(g \in Counted(p)') - One(g \in Counted(p))
        /\ deletedTimers'[p] - deletedTimers[p] =
             One(g \in Undeleting(p)') - One(g \in Undeleting(p))
             - (One(g \in ToCount(p)') - One(g \in ToCount(p)))
  BY <1>2, <1>3 DEF One
<1> QED BY <1>0, <1>2, <1>4, CallGoesOn DEF Modified

LEMMA UndeleteInv ==
  ASSUME TimerInv, NEW g \in Gs, Undelete(g)
  PROVE  TimerInv'
<1>0. /\ TimerTypes /\ Olds /\ gp[g] \in Ps
      /\ gpc[g] = "undelete" /\ old[g] = "Deleted" /\ gwhen[g] \in Times
      /\ deletedTimers' = Add(deletedTimers, gp[g], -1) /\ adjustTimers' = adjustTimers
      /\ gpc' = Set(gpc, g, "modify")
      /\ UNCHANGED <<now, status, when, nextwhen, tpp, fresh, lock, heap, timer0When>>
      /\ UNCHANGED <<gt, gp, old, gwhen>> /\ UNCHANGED mvars
  BY Held DEF TimerInv, Undelete, GJump, tvars, Olds, Holding
<1>1. gpc'[g] = "modify" /\ old'[g] # "ModifiedEarlier"
  BY <1>0 DEF TimerTypes, Set
<1>2. /\ adjustTimers' \in [Ps -> Int] /\ deletedTimers' \in [Ps -> Int]
      /\ \A p \in Ps : /\ adjustTimers'[p] - adjustTimers[p] = 0
                       /\ deletedTimers'[p] - deletedTimers[p] = IF p = gp[g] THEN -1 ELSE 0
  BY <1>0 DEF TimerTypes, Add
<1>3. \A p \in Ps :
        /\ g \in Undeleting(p) <=> p = gp[g]
        /\ g \notin Undeleting(p)' /\ g \notin Counted(p) /\ g \notin Counted(p)'
        /\ g \notin ToUncount(p) /\ g \notin ToUncount(p)' /\ g \notin ToCount(p) /\ g \notin ToCount(p)'
  BY <1>0, <1>1 DEF ToUncount, Counted, Undeleting, ToCount
<1>4. \A p \in Ps :
        /\ adjustTimers'[p] - adjustTimers[p] =
             One(g \in ToUncount(p)') - One(g \in ToUncount(p))
             + One(g \in Counted(p)') - One(g \in Counted(p))
        /\ deletedTimers'[p] - deletedTimers[p] =
             One(g \in Undeleting(p)') - One(g \in Undeleting(p))
             - (One(g \in ToCount(p)') - One(g \in ToCount(p)))
  BY <1>2, <1>3 DEF One
<1> QED BY <1>0, <1>2, <1>4, CallGoesOn

LEMMA ModifyInv ==
  ASSUME TimerInv, NEW g \in Gs, Modify(g)
  PROVE  TimerInv'
<1> DEFINE minus == IF old[g] = "ModifiedEarlier" THEN 1 ELSE 0
           plus == IF NewStatus(g) = "ModifiedEarlier" THEN 1 ELSE 0
<1>0. /\ TimerTypes /\ Olds /\ gp[g] \in Ps
      /\ gpc[g] = "modify" /\ old[g] \in {"Waiting", "Deleted"} \cup Modified /\ gwhen[g] \in Times
      /\ adjustTimers' = Add(adjustTimers, gp[g], plus - minus) /\ deletedTimers' = deletedTimers
      /\ gpc' = Set(gpc, g, "publish")
      /\ UNCHANGED <<now, status, when, nextwhen, tpp, fresh, lock, heap, timer0When>>
      /\ UNCHANGED <<gt, gp, old, gwhen>> /\ UNCHANGED mvars
  BY Held DEF TimerInv, Modify, GJump, tvars, Olds, Holding
<1>1. gpc'[g] = "publish" /\ NewStatus(g)' = NewStatus(g)
  BY <1>0 DEF TimerTypes, Set, NewStatus
<1>2. /\ adjustTimers' \in [Ps -> Int] /\ deletedTimers' \in [Ps -> Int]
      /\ \A p \in Ps : /\ adjustTimers'[p] - adjustTimers[p] = IF p = gp[g] THEN plus - minus ELSE 0
                       /\ deletedTimers'[p] - deletedTimers[p] = 0
  BY <1>0 DEF TimerTypes, Add
<1>3. \A p \in Ps :
        /\ g \in ToUncount(p) <=> p = gp[g] /\ minus = 1
        /\ g \in Counted(p)' <=> p = gp[g] /\ plus = 1
        /\ g \notin ToUncount(p)' /\ g \notin Counted(p)
        /\ g \notin Undeleting(p) /\ g \notin Undeleting(p)' /\ g \notin ToCount(p) /\ g \notin ToCount(p)'
  BY <1>0, <1>1 DEF ToUncount, Counted, Undeleting, ToCount
<1>4. \A p \in Ps :
        /\ adjustTimers'[p] - adjustTimers[p] =
             One(g \in ToUncount(p)') - One(g \in ToUncount(p))
             + One(g \in Counted(p)') - One(g \in Counted(p))
        /\ deletedTimers'[p] - deletedTimers[p] =
             One(g \in Undeleting(p)') - One(g \in Undeleting(p))
             - (One(g \in ToCount(p)') - One(g \in ToCount(p)))
  BY <1>2, <1>3 DEF One
<1> QED BY <1>0, <1>2, <1>4, CallGoesOn

\* The call ends its work on the timer, which gets its new status.
LEMMA CallLeaves ==
  ASSUME TimerInv, NEW g \in Gs, gpc[g] \in Holding \ {"readd"},
         NEW s \in {"Waiting", "Deleted"} \cup Modified, NEW where \in {"idle", "deleted"},
         status' = Set(status, gt[g], s), gpc' = Set(gpc, g, where),
         UNCHANGED <<now, when, tpp, fresh, lock, heap, timer0When, adjustTimers, deletedTimers>>,
         UNCHANGED mvars,
         TimerTypes',
         \A u \in Timers \ {gt[g]} : nextwhen'[u] = nextwhen[u],
         \A h \in Gs \ {g} : gt'[h] = gt[h] /\ gp'[h] = gp[h] /\ old'[h] = old[h] /\ gwhen'[h] = gwhen[h],
         where = "deleted" => gp'[g] = gp[g],
         s \in Modified => nextwhen'[gt[g]] > 0,
         s = "ModifiedLater" => nextwhen'[gt[g]] >= when[gt[g]],
         s = "Deleted" <=> where = "deleted",
         gpc[g] \in {"delete", "added", "publish"},
         gpc[g] = "publish" => s = NewStatus(g),
         gpc[g] # "publish" => s # "ModifiedEarlier"
  PROVE  TimerInv'
<1>0. /\ TimerTypes /\ Olds /\ Whens /\ gpc[g] # "clean" /\ where \notin Holding /\ where # "clean"
      /\ mpc' = mpc /\ mp' = mp /\ rnow' = rnow /\ todo' = todo /\ moved' = moved
      /\ cdel' = cdel /\ cearlier' = cearlier
  BY DEF TimerInv, mvars, Holding
<1>1. PICK t \in Timers : t = gt[g]
  BY Held
<1>2. /\ gp[g] \in Ps /\ status[t] = "Modifying" /\ t \notin fresh /\ tpp[t] = gp[g]
      /\ \A h \in Gs : gpc[h] = "clean" => gt[h] # t
      /\ \A p \in Ps : t \in heap[p] <=> p = gp[g]
  BY <1>1, Held
<1>3. gpc'[g] = where /\ (\A h \in Gs \ {g} : gpc'[h] = gpc[h])
      /\ status'[t] = s /\ (\A u \in Timers \ {t} : status'[u] = status[u])
  BY <1>0, <1>1 DEF TimerTypes, Set
<1>4. Where' /\ Modifiers' /\ Adders' /\ Holders' /\ Loops' /\ Whens' /\ Tops'
  <2>1. /\ fresh' \subseteq fresh \ {t} /\ tpp[t] # None /\ status[t] # "Moving"
        /\ s # "Modifying"
    BY <1>2, TimerConstants DEF Modified
  <2> QED BY <1>0, <1>1, <1>2, <1>3, <2>1, CallKeeps
<1>5. Olds'
  BY <1>0, <1>2, <1>3 DEF Olds
<1>6. ASSUME NEW p \in Ps
      PROVE  /\ adjustTimers'[p] = Cardinality(Earlier(p))' + Cardinality(ToUncount(p))'
                                   + Cardinality(Counted(p))' + Uncounted(p, cearlier)'
             /\ deletedTimers'[p] = Cardinality(Deads(p))' + Cardinality(Undeleting(p))'
                                    - Cardinality(ToCount(p))' + Uncounted(p, cdel)'
  <2>1. /\ t \notin Earlier(p) /\ t \notin Deads(p)
        /\ t \in Earlier(p)' <=> p = gp[g] /\ s = "ModifiedEarlier"
        /\ t \in Deads(p)' <=> p = gp[g] /\ s = "Deleted"
    BY <1>2, <1>3 DEF Earlier, Deads
  <2>2. /\ g \notin ToUncount(p) /\ g \notin ToUncount(p)' /\ g \notin Counted(p)'
        /\ g \notin Undeleting(p) /\ g \notin Undeleting(p)' /\ g \notin ToCount(p)
        /\ g \in Counted(p) <=> p = gp[g] /\ gpc[g] = "publish" /\ NewStatus(g) = "ModifiedEarlier"
        /\ g \in ToCount(p)' <=> p = gp[g] /\ where = "deleted"
    BY <1>3 DEF ToUncount, Counted, Undeleting, ToCount
  <2>3. g \in Counted(p) <=> t \in Earlier(p)'
    BY <2>1, <2>2
  <2>4. g \in ToCount(p)' <=> t \in Deads(p)'
    BY <2>1, <2>2
  <2>5. adjustTimers'[p] - adjustTimers[p] = 0 /\ deletedTimers'[p] - deletedTimers[p] = 0
    BY <1>0 DEF TimerTypes
  <2>6. /\ adjustTimers'[p] - adjustTimers[p] =
             One(t \in Earlier(p)') - One(t \in Earlier(p))
             + One(g \in ToUncount(p)') - One(g \in ToUncount(p))
             + One(g \in Counted(p)') - One(g \in Counted(p)) + 0
        /\ deletedTimers'[p] - deletedTimers[p] =
             One(t \in Deads(p)') - One(t \in Deads(p))
             + One(g \in Undeleting(p)') - One(g \in Undeleting(p))
             - (One(g \in ToCount(p)') - One(g \in ToCount(p))) + 0
    BY <2>1, <2>2, <2>3, <2>4, <2>5 DEF One
  <2> QED BY <1>0, <1>3, <2>6, CallCounts
<1>7. Counters'
  BY <1>6 DEF Counters
<1> QED BY <1>0, <1>4, <1>5, <1>7 DEF TimerInv

LEMMA DeleteInv ==
  ASSUME TimerInv, NEW g \in Gs, Delete(g)
  PROVE  TimerInv'
<1>0. /\ TimerTypes /\ gpc[g] = "delete" /\ gpc[g] \in Holding \ {"readd"} /\ gt[g] \in Timers
      /\ status' = Set(status, gt[g], "Deleted") /\ gpc' = Set(gpc, g, "deleted")
      /\ UNCHANGED <<now, when, nextwhen, tpp, fresh, lock, heap, timer0When, adjustTimers, deletedTimers>>
      /\ UNCHANGED <<gt, gp, old, gwhen>> /\ UNCHANGED mvars
  BY Held DEF TimerInv, Delete, GJump, hvars, Holding
<1>1. TimerTypes'
  <2>1. gpc' \in [Gs -> GPhases] /\ status' \in [Timers -> Statuses]
    BY <1>0 DEF TimerTypes, Set, GPhases, Statuses
  <2> QED BY <1>0, <2>1 DEF TimerTypes, mvars
<1> QED BY <1>0, <1>1, CallLeaves DEF Modified

LEMMA AddedInv ==
  ASSUME TimerInv, NEW g \in Gs, Added(g)
  PROVE  TimerInv'
<1>0. /\ TimerTypes /\ gpc[g] = "added" /\ gpc[g] \in Holding \ {"readd"} /\ gt[g] \in Timers
      /\ status' = Set(status, gt[g], "Waiting") /\ gpc' = Set(gpc, g, "idle")
      /\ Locals(g, None, None, "NoStatus", 0)
      /\ UNCHANGED <<now, when, nextwhen, tpp, fresh, lock, heap, timer0When, adjustTimers, deletedTimers>>
      /\ UNCHANGED mvars
  BY Held DEF TimerInv, Added, GJump, Done, hvars, Holding
<1>1. TimerTypes'
  <2>1. gpc' \in [Gs -> GPhases] /\ status' \in [Timers -> Statuses]
    BY <1>0 DEF TimerTypes, Set, GPhases, Statuses
  <2>2. /\ gt' \in [Gs -> Timers \cup {None}] /\ gp' \in [Gs -> Ps \cup {None}]
        /\ old' \in [Gs -> Statuses] /\ gwhen' \in [Gs -> Nat]
    BY <1>0 DEF TimerTypes, Set, Locals, Statuses
  <2> QED BY <1>0, <2>1, <2>2 DEF TimerTypes, mvars
<1>2. \A h \in Gs \ {g} : gt'[h] = gt[h] /\ gp'[h] = gp[h] /\ old'[h] = old[h] /\ gwhen'[h] = gwhen[h]
  BY <1>0 DEF TimerTypes, Set, Locals
<1> QED BY <1>0, <1>1, <1>2, CallLeaves DEF Modified

LEMMA PublishInv ==
  ASSUME TimerInv, NEW g \in Gs, Publish(g)
  PROVE  TimerInv'
<1>0. /\ TimerTypes /\ gpc[g] = "publish" /\ gpc[g] \in Holding \ {"readd"} /\ gt[g] \in Timers
      /\ gwhen[g] \in Nat /\ gwhen[g] > 0 /\ when[gt[g]] \in Nat
      /\ nextwhen' = Set(nextwhen, gt[g], gwhen[g])
      /\ status' = Set(status, gt[g], NewStatus(g)) /\ gpc' = Set(gpc, g, "idle")
      /\ Locals(g, None, None, "NoStatus", 0)
      /\ UNCHANGED <<now, when, tpp, fresh, lock, heap, timer0When, adjustTimers, deletedTimers>>
      /\ UNCHANGED mvars
  <2>1. gpc[g] = "publish" /\ TimerTypes /\ Olds
    BY DEF Publish, TimerInv
  <2>2. gpc[g] \in Holding \ {"readd"} /\ gt[g] \in Timers
    BY <2>1, Held DEF Holding
  <2>3. gwhen[g] \in Nat /\ gwhen[g] > 0 /\ when[gt[g]] \in Nat
    BY <2>1, <2>2, TimerConstants DEF Olds, Times, TimerTypes
  <2> QED BY <2>1, <2>2, <2>3 DEF Publish, GJump, Done, hvars
<1>1. NewStatus(g) \in Modified /\ (NewStatus(g) = "ModifiedLater" => gwhen[g] >= when[gt[g]])
  BY <1>0 DEF NewStatus, Modified
<1>2. nextwhen'[gt[g]] = gwhen[g] /\ \A u \in Timers \ {gt[g]} : nextwhen'[u] = nextwhen[u]
  BY <1>0 DEF TimerTypes, Set
<1>3. TimerTypes'
  <2>1. gpc' \in [Gs -> GPhases] /\ status' \in [Timers -> Statuses] /\ nextwhen' \in [Timers -> Nat]
    BY <1>0, <1>1 DEF TimerTypes, Set, GPhases, Statuses
  <2>2. /\ gt' \in [Gs -> Timers \cup {None}] /\ gp' \in [Gs -> Ps \cup {None}]
        /\ old' \in [Gs -> Statuses] /\ gwhen' \in [Gs -> Nat]
    BY <1>0 DEF TimerTypes, Set, Locals, Statuses
  <2> QED BY <1>0, <2>1, <2>2 DEF TimerTypes, mvars
<1>4. \A h \in Gs \ {g} : gt'[h] = gt[h] /\ gp'[h] = gp[h] /\ old'[h] = old[h] /\ gwhen'[h] = gwhen[h]
  BY <1>0 DEF TimerTypes, Set, Locals
<1>5. NewStatus(g) # "Deleted"
  BY <1>1 DEF Modified
<1> QED BY <1>0, <1>1, <1>2, <1>3, <1>4, <1>5, CallLeaves

LEMMA CountDeletedInv ==
  ASSUME TimerInv, NEW g \in Gs, CountDeleted(g)
  PROVE  TimerInv'
<1>0. /\ TimerTypes /\ Where /\ Modifiers /\ Adders /\ Olds /\ Holders /\ Loops /\ Whens /\ Tops
      /\ gpc[g] = "deleted" /\ gp[g] \in Ps
      /\ deletedTimers' = Add(deletedTimers, gp[g], 1) /\ gpc' = Set(gpc, g, "idle")
      /\ Locals(g, None, None, "NoStatus", 0)
      /\ UNCHANGED <<now, status, when, nextwhen, tpp, fresh, lock, heap, timer0When, adjustTimers>>
      /\ UNCHANGED <<mpc, mp, rnow, todo, moved, cdel, cearlier>>
  BY DEF TimerInv, CountDeleted, GJump, Done, tvars, mvars, Olds
<1>1. gpc'[g] = "idle" /\ old'[g] = "NoStatus"
      /\ \A h \in Gs \ {g} : /\ gpc'[h] = gpc[h] /\ gt'[h] = gt[h] /\ gp'[h] = gp[h]
                             /\ old'[h] = old[h] /\ gwhen'[h] = gwhen[h]
  BY <1>0 DEF TimerTypes, Set, Locals
<1>2. TimerTypes'
  <2>1. gpc' \in [Gs -> GPhases] /\ deletedTimers' \in [Ps -> Int]
    BY <1>0 DEF TimerTypes, Set, Add, GPhases
  <2>2. /\ gt' \in [Gs -> Timers \cup {None}] /\ gp' \in [Gs -> Ps \cup {None}]
        /\ old' \in [Gs -> Statuses] /\ gwhen' \in [Gs -> Nat]
    BY <1>0 DEF TimerTypes, Set, Locals, Statuses
  <2> QED BY <1>0, <2>1, <2>2 DEF TimerTypes
<1>3. \A h \in Gs : /\ gpc[h] \in Holding \/ gpc'[h] \in Holding \/ gpc[h] = "clean" \/ gpc'[h] = "clean"
                       => h # g /\ gpc'[h] = gpc[h] /\ gt'[h] = gt[h] /\ gp'[h] = gp[h]
  BY <1>0, <1>1 DEF Holding
<1>4. Where' /\ Adders' /\ Holders' /\ Loops' /\ Whens' /\ Tops'
  BY <1>0, <1>3 DEF Where, Adders, Holders, Loops, Whens, Tops, LeastIs
<1>5. Modifiers'
  BY <1>0, <1>3 DEF Modifiers
<1>6. Olds'
  BY <1>0, <1>1 DEF Olds
<1>7. ASSUME NEW p \in Ps
      PROVE  /\ adjustTimers'[p] = Cardinality(Earlier(p))' + Cardinality(ToUncount(p))'
                                   + Cardinality(Counted(p))' + Uncounted(p, cearlier)'
             /\ deletedTimers'[p] = Cardinality(Deads(p))' + Cardinality(Undeleting(p))'
                                    - Cardinality(ToCount(p))' + Uncounted(p, cdel)'
  <2>1. Earlier(p)' = Earlier(p) /\ Deads(p)' = Deads(p)
        /\ Uncounted(p, cearlier)' = Uncounted(p, cearlier) /\ Uncounted(p, cdel)' = Uncounted(p, cdel)
    BY <1>0 DEF Earlier, Deads, Uncounted
  <2>2. \A h \in Gs \ {g} : NewStatus(h)' = NewStatus(h)
    BY <1>0, <1>1 DEF NewStatus
  <2>3. /\ g \notin ToUncount(p) /\ g \notin ToUncount(p)' /\ g \notin Counted(p) /\ g \notin Counted(p)'
        /\ g \notin Undeleting(p) /\ g \notin Undeleting(p)' /\ g \notin ToCount(p)'
        /\ g \in ToCount(p) <=> p = gp[g]
    BY <1>0, <1>1 DEF ToUncount, Counted, Undeleting, ToCount
  <2>4. /\ Cardinality(ToUncount(p))' - Cardinality(ToUncount(p)) = 0
        /\ Cardinality(Counted(p))' - Cardinality(Counted(p)) = 0
        /\ Cardinality(Undeleting(p))' - Cardinality(Undeleting(p)) = 0
        /\ Cardinality(ToCount(p))' - Cardinality(ToCount(p)) = IF p = gp[g] THEN -1 ELSE 0
    BY <1>0, <1>1, <1>2, <2>2, <2>3, CallTallies DEF One
  <2>5. /\ Cardinality(Earlier(p))' - Cardinality(Earlier(p)) = 0
        /\ Cardinality(Deads(p))' - Cardinality(Deads(p)) = 0
        /\ Uncounted(p, cearlier)' - Uncounted(p, cearlier) = 0
        /\ Uncounted(p, cdel)' - Uncounted(p, cdel) = 0
    BY <1>0, <2>1, Sizes
  <2>6. /\ adjustTimers'[p] - adjustTimers[p] = 0
        /\ deletedTimers'[p] - deletedTimers[p] = IF p = gp[g] THEN 1 ELSE 0
    BY <1>0 DEF TimerTypes, Add
  <2> QED BY <1>2, <2>4, <2>5, <2>6, CountersMove
<1>8. Counters'
  BY <1>7 DEF Counters
<1> QED BY <1>2, <1>4, <1>5, <1>6, <1>8 DEF TimerInv

-----------------------------------------------------------------------------
(* The heaps and their tops *)

LEMMA LeastBy ==
  ASSUME NEW R, \A x, y \in Nat : x < y => <<x, y>> \in R,
         NEW S, S \subseteq Nat, \E w \in S : \A v \in S : ~(<<v, w>> \in R)
  PROVE  \E w \in S : \A v \in S : w <= v
<1>1. PICK w \in S : \A v \in S : ~(<<v, w>> \in R)
  OBVIOUS
<1>2. \A v \in S : ~(v < w)
  BY <1>1
<1> QED BY <1>2

LEMMA LeastTime ==
  ASSUME NEW S, S \subseteq Nat, S # {}
  PROVE  \E w \in S : \A v \in S : w <= v
<1>1. \A x, y \in Nat : x < y => <<x, y>> \in OpToRel(<, Nat)
  BY DEF OpToRel
<1>2. \E w \in S : \A v \in S : ~(<<v, w>> \in OpToRel(<, Nat))
  BY NatLessThanWellFounded, WFMin, Zenon
<1> QED BY <1>1, <1>2, LeastBy, Zenon

\* updateTimer0When brings timer0When up to date.
LEMMA TopUpdated ==
  ASSUME NEW p \in Ps, updateTimer0When(p), timer0When \in [Ps -> Nat],
         heap'[p] \subseteq Timers, when' \in [Timers -> Nat]
  PROVE  /\ LeastIs(p)' /\ timer0When' \in [Ps -> Nat]
         /\ \A q \in Ps \ {p} : timer0When'[q] = timer0When[q]
<1> DEFINE S == {when'[t] : t \in heap'[p]}
<1>1. CASE heap'[p] = {}
  <2>1. timer0When' = [timer0When EXCEPT ![p] = 0]
    BY <1>1 DEF updateTimer0When
  <2> QED BY <1>1, <2>1 DEF LeastIs
<1>2. CASE heap'[p] # {}
  <2>1. PICK w : w = CHOOSE v \in S : \A t \in heap'[p] : v <= when'[t]
    OBVIOUS
  <2>2. timer0When' = [timer0When EXCEPT ![p] = w]
    BY <1>2, <2>1 DEF updateTimer0When
  <2>3. S \subseteq Nat /\ S # {}
    BY <1>2
  <2>4. \E v \in S : \A u \in S : v <= u
    BY <2>3, LeastTime
  <2>5. \E v \in S : \A t \in heap'[p] : v <= when'[t]
    BY <2>4
  <2>6. w \in S /\ \A t \in heap'[p] : w <= when'[t]
    BY <2>1, <2>5
  <2>7. w \in Nat /\ \E t \in heap'[p] : when'[t] = w
    BY <2>3, <2>6
  <2> QED BY <1>2, <2>2, <2>6, <2>7 DEF LeastIs
<1> QED BY <1>1, <1>2

\* What doaddtimer does to the heap of p, which was in order
LEMMA Inserted ==
  ASSUME TimerTypes, NEW p \in Ps, NEW t \in Timers, NEW w \in Nat, w > 0, LeastIs(p),
         doaddtimer(p, t, w), when'[t] = w, \A u \in Timers \ {t} : when'[u] = when[u],
         t \notin heap[p]
  PROVE  /\ heap' \in [Ps -> SUBSET Timers] /\ tpp' \in [Timers -> Ps \cup {None}]
         /\ timer0When' \in [Ps -> Nat]
         /\ heap'[p] = heap[p] \cup {t} /\ tpp'[t] = p
         /\ \A q \in Ps \ {p} : heap'[q] = heap[q] /\ timer0When'[q] = timer0When[q]
         /\ \A u \in Timers \ {t} : tpp'[u] = tpp[u]
         /\ LeastIs(p)'
<1>1. /\ heap \in [Ps -> SUBSET Timers] /\ tpp \in [Timers -> Ps \cup {None}]
      /\ timer0When \in [Ps -> Nat] /\ when \in [Timers -> Nat]
  BY DEF TimerTypes
<1>2. /\ heap' = [heap EXCEPT ![p] = heap[p] \cup {t}] /\ tpp' = [tpp EXCEPT ![t] = p]
      /\ timer0When' = IF \A u \in heap[p] : w < when[u] THEN [timer0When EXCEPT ![p] = w] ELSE timer0When
  BY <1>1 DEF doaddtimer, Set
<1>3. /\ heap' \in [Ps -> SUBSET Timers] /\ tpp' \in [Timers -> Ps \cup {None}]
      /\ timer0When' \in [Ps -> Nat]
      /\ heap'[p] = heap[p] \cup {t} /\ tpp'[t] = p
      /\ \A q \in Ps \ {p} : heap'[q] = heap[q] /\ timer0When'[q] = timer0When[q]
      /\ \A u \in Timers \ {t} : tpp'[u] = tpp[u]
  BY <1>1, <1>2
<1>4. heap'[p] # {} /\ heap[p] \subseteq Timers /\ (\A u \in heap[p] : when'[u] = when[u] /\ when[u] \in Nat)
  BY <1>1, <1>3
<1>5. CASE \A u \in heap[p] : w < when[u]
  <2>1. timer0When'[p] = w
    BY <1>1, <1>2, <1>5
  <2>2. \A u \in heap'[p] : w <= when'[u]
    BY <1>3, <1>4, <1>5
  <2> QED BY <1>3, <1>4, <2>1, <2>2 DEF LeastIs
<1>6. CASE ~(\A u \in heap[p] : w < when[u])
  <2>1. timer0When'[p] = timer0When[p] /\ timer0When[p] \in Nat
    BY <1>1, <1>2, <1>6
  <2>2. PICK v \in heap[p] : ~(w < when[v])
    BY <1>6
  <2>3. /\ \E u \in heap[p] : when[u] = timer0When[p]
        /\ \A u \in heap[p] : timer0When[p] <= when[u]
    BY <2>2 DEF LeastIs
  <2>4. timer0When[p] <= w
    BY <1>4, <2>1, <2>2, <2>3
  <2>5. /\ \E u \in heap'[p] : when'[u] = timer0When'[p]
        /\ \A u \in heap'[p] : timer0When'[p] <= when'[u]
    <3>1. \E u \in heap'[p] : when'[u] = timer0When'[p]
      BY <1>3, <1>4, <2>1, <2>3
    <3>2. \A u \in heap[p] : timer0When'[p] <= when'[u]
      BY <1>4, <2>1, <2>3
    <3> QED BY <1>3, <2>1, <2>4, <3>1, <3>2
  <2> QED BY <1>3, <2>5 DEF LeastIs
<1> QED BY <1>3, <1>5, <1>6

\* The heap of p changes; it is in order after that or its M has yet to see to it.
LEMMA TopsMove ==
  ASSUME Tops, NEW p \in Ps,
         \A q \in Ps \ {p} : /\ heap'[q] = heap[q] /\ timer0When'[q] = timer0When[q]
                             /\ \A t \in heap[q] : when'[t] = when[t],
         \A m \in Ps : mpc[m] = "clear" /\ mp[m] # p => mpc'[m] = "clear" /\ mp'[m] = mp[m],
         LeastIs(p)' \/ \E m \in Ps : mpc'[m] = "clear" /\ mp'[m] = p
  PROVE  Tops'
<1> SUFFICES ASSUME NEW q \in Ps, \A m \in Ps : mpc'[m] = "clear" => mp'[m] # q
             PROVE  LeastIs(q)'
  BY DEF Tops
<1>1. CASE q = p
  BY <1>1
<1>2. CASE q # p
  <2>1. \A m \in Ps : mpc[m] = "clear" => mp[m] # q
    BY <1>2
  <2>2. LeastIs(q)
    BY <2>1 DEF Tops
  <2> QED BY <1>2, <2>2 DEF LeastIs
<1> QED BY <1>1, <1>2

-----------------------------------------------------------------------------
(* addtimer, and modtimer's adding of a timer that was in no heap *)

LEMMA CountersStay ==
  ASSUME Counters, adjustTimers' = adjustTimers, deletedTimers' = deletedTimers,
         \A p \in Ps : /\ Earlier(p)' = Earlier(p) /\ ToUncount(p)' = ToUncount(p) /\ Counted(p)' = Counted(p)
                       /\ Deads(p)' = Deads(p) /\ Undeleting(p)' = Undeleting(p) /\ ToCount(p)' = ToCount(p)
                       /\ Uncounted(p, cearlier)' = Uncounted(p, cearlier)
                       /\ Uncounted(p, cdel)' = Uncounted(p, cdel)
  PROVE  Counters'
BY DEF Counters

LEMMA addtimerInv ==
  ASSUME TimerInv, NEW g \in Gs, addtimer(g)
  PROVE  TimerInv'
<1>0. /\ TimerTypes /\ Where /\ Modifiers /\ Adders /\ Olds /\ Holders /\ Loops /\ Whens /\ Tops /\ Counters
      /\ gpc[g] = "idle"
      /\ UNCHANGED <<now, when, nextwhen, tpp, heap, timer0When, adjustTimers, deletedTimers>>
      /\ UNCHANGED <<mpc, mp, rnow, todo, moved, cdel, cearlier>>
      /\ gpc' = Set(gpc, g, "clean")
  BY DEF TimerInv, addtimer, Call, GJump, mvars
<1>1. PICK t \in fresh, p \in Ps, w \in Times :
        /\ lock[p] = None /\ lock' = Set(lock, p, g)
        /\ status' = Set(status, t, "Waiting") /\ fresh' = fresh \ {t}
        /\ Locals(g, t, p, "NoStatus", w)
  BY DEF addtimer
<1>2. /\ t \in Timers /\ status[t] = "NoStatus" /\ tpp[t] = None
      /\ \A q \in Ps : t \notin heap[q]
  BY <1>0, TimerConstants DEF TimerTypes, Where
<1>3. /\ gpc'[g] = "clean" /\ gt'[g] = t /\ gp'[g] = p /\ old'[g] = "NoStatus" /\ gwhen'[g] = w
      /\ \A h \in Gs \ {g} : /\ gpc'[h] = gpc[h] /\ gt'[h] = gt[h] /\ gp'[h] = gp[h]
                             /\ old'[h] = old[h] /\ gwhen'[h] = gwhen[h]
      /\ status'[t] = "Waiting" /\ (\A u \in Timers \ {t} : status'[u] = status[u])
      /\ lock'[p] = g /\ (\A q \in Ps \ {p} : lock'[q] = lock[q])
  BY <1>0, <1>1, <1>2 DEF TimerTypes, Set, Locals
<1>4. TimerTypes'
  <2>1. gpc' \in [Gs -> GPhases] /\ status' \in [Timers -> Statuses] /\ lock' \in [Ps -> Ps \cup Gs \cup {None}]
    BY <1>0, <1>1, <1>2 DEF TimerTypes, Set, GPhases, Statuses
  <2>2. /\ gt' \in [Gs -> Timers \cup {None}] /\ gp' \in [Gs -> Ps \cup {None}]
        /\ old' \in [Gs -> Statuses] /\ gwhen' \in [Gs -> Nat]
    BY <1>0, <1>1, <1>2 DEF TimerTypes, Set, Locals, Statuses, Times
  <2> QED BY <1>0, <1>1, <2>1, <2>2 DEF TimerTypes
<1>5. Where'
  <2>1. ASSUME NEW u \in Timers
        PROVE  /\ status'[u] \in {"Deleted"} \cup Modified => tpp[u] # None
               /\ status'[u] \in {"NoStatus", "Removed", "Moving"} => tpp[u] = None
               /\ status'[u] = "Waiting" /\ tpp[u] = None => \E h \in Gs : gpc'[h] = "clean" /\ gt'[h] = u
               /\ status'[u] = "Moving" <=> \E m \in Ps : u \in moved[m]
               /\ u \in fresh' => status'[u] = "NoStatus"
    <3>1. CASE u = t
      BY <1>0, <1>1, <1>2, <1>3, <3>1 DEF Where, Modified
    <3>2. CASE u # t
      <4>1. status'[u] = status[u] /\ (u \in fresh' => u \in fresh)
        BY <1>1, <1>3, <3>2
      <4>2. \A h \in Gs : gpc[h] = "clean" => gpc'[h] = "clean" /\ gt'[h] = gt[h]
        BY <1>0, <1>3
      <4> QED BY <1>0, <4>1, <4>2 DEF Where
    <3> QED BY <3>1, <3>2
  <2> QED BY <1>0, <2>1 DEF Where
<1>6. Modifiers'
  <2>1. gpc[g] \notin Holding /\ gpc'[g] \notin Holding
    BY <1>0, <1>3 DEF Holding
  <2> QED BY <1>0, <1>2, <1>3, <2>1, ModifiersMove
<1>7. Adders'
  <2>1. \A h \in Gs \ {g} : gpc'[h] = "clean" =>
          /\ gpc[h] = "clean" /\ gt'[h] = gt[h] /\ gp'[h] = gp[h] /\ gt[h] \in Timers \ fresh
          /\ gp[h] \in Ps /\ lock[gp[h]] = h /\ gt[h] # t /\ gp[h] # p
    BY <1>0, <1>1, <1>3, TimerConstants DEF Adders
  <2>2. ASSUME NEW h \in Gs, gpc'[h] = "clean"
        PROVE  /\ gp'[h] \in Ps /\ lock'[gp'[h]] = h
               /\ gt'[h] \in Timers \ fresh' /\ status'[gt'[h]] = "Waiting" /\ tpp[gt'[h]] = None
    <3>1. CASE h = g
      BY <1>1, <1>2, <1>3, <3>1
    <3>2. CASE h # g
      <4>1. status[gt[h]] = "Waiting" /\ tpp[gt[h]] = None
        BY <1>0, <2>1, <2>2, <3>2 DEF Adders
      <4> QED BY <1>1, <1>3, <2>1, <2>2, <3>2, <4>1
    <3> QED BY <3>1, <3>2
  <2>3. ASSUME NEW h \in Gs, NEW k \in Gs, gpc'[h] = "clean", gpc'[k] = "clean", gt'[h] = gt'[k]
        PROVE  h = k
    <3>1. CASE h = g \/ k = g
      BY <1>3, <2>1, <2>3, <3>1
    <3>2. CASE h # g /\ k # g
      BY <1>0, <2>1, <2>3, <3>2 DEF Adders
    <3> QED BY <3>1, <3>2
  <2> QED BY <1>0, <2>2, <2>3 DEF Adders
<1>8. Olds'
  BY <1>0, <1>3 DEF Olds
<1>9. Holders'
  <2>1. \A m \in Ps : mpc[m] \in Looping => mp[m] \in Ps /\ lock[mp[m]] = m /\ mp[m] # p
    BY <1>0, <1>1, TimerConstants DEF Holders
  <2>2. \A m \in Ps : mpc[m] \in Looping => lock'[mp[m]] = m
    BY <1>3, <2>1
  <2>3. g \notin Ps
    BY TimerConstants
  <2>4. \A q \in Ps : lock'[q] \in Ps => q # p /\ lock'[q] = lock[q]
    BY <1>3, <2>3
  <2>5. \A q \in Ps : lock'[q] \in Gs => gp'[lock'[q]] = q /\ gpc'[lock'[q]] = "clean"
    BY <1>0, <1>3 DEF Holders
  <2> QED BY <1>0, <2>1, <2>2, <2>4, <2>5 DEF Holders
<1>10. Loops' /\ Tops'
  BY <1>0 DEF Loops, Tops, LeastIs
<1>11. Whens'
  BY <1>0, <1>2, <1>3 DEF Whens, Modified
<1>12. Counters'
  <2> SUFFICES ASSUME NEW q \in Ps
               PROVE  /\ Earlier(q)' = Earlier(q) /\ ToUncount(q)' = ToUncount(q) /\ Counted(q)' = Counted(q)
                      /\ Deads(q)' = Deads(q) /\ Undeleting(q)' = Undeleting(q) /\ ToCount(q)' = ToCount(q)
                      /\ Uncounted(q, cearlier)' = Uncounted(q, cearlier)
                      /\ Uncounted(q, cdel)' = Uncounted(q, cdel)
    BY <1>0, CountersStay
  <2>1. Earlier(q)' = Earlier(q) /\ Deads(q)' = Deads(q)
    <3>1. heap[q] \subseteq Timers \ {t}
      BY <1>0, <1>2 DEF TimerTypes
    <3> QED BY <1>0, <1>3, <3>1 DEF Earlier, Deads
  <2>2. \A h \in Gs \ {g} : NewStatus(h)' = NewStatus(h)
    BY <1>0, <1>3 DEF NewStatus
  <2>3. /\ ToUncount(q)' = ToUncount(q) /\ Counted(q)' = Counted(q)
        /\ Undeleting(q)' = Undeleting(q) /\ ToCount(q)' = ToCount(q)
    BY <1>0, <1>3, <2>2 DEF ToUncount, Counted, Undeleting, ToCount
  <2>4. lock[q] \in Ps \/ lock'[q] \in Ps => lock'[q] = lock[q]
    BY <1>1, <1>3, TimerConstants
  <2> QED BY <1>0, <2>1, <2>3, <2>4 DEF Uncounted
<1> QED BY <1>4, <1>5, <1>6, <1>7, <1>8, <1>9, <1>10, <1>11, <1>12 DEF TimerInv

\* A goroutine puts timer t, which was in no heap, into the heap of p.
LEMMA GoesIn ==
  ASSUME TimerInv, NEW g \in Gs, NEW t \in Timers, NEW p \in Ps, tpp[t] = None,
         status[t] \in {"Waiting", "Modifying"}, t \notin fresh,
         gwhen[g] \in Times, doaddtimer(p, t, gwhen[g]), when' = Set(when, t, gwhen[g]),
         \A m \in Ps : mpc[m] = "clear" => mp[m] # p,
         \A h \in Gs \ {g} : /\ gpc'[h] = gpc[h] /\ gt'[h] = gt[h] /\ gp'[h] = gp[h]
                             /\ old'[h] = old[h] /\ gwhen'[h] = gwhen[h],
         \A h \in Gs \ {g} : gpc[h] \in Holding \cup {"clean"} => gt[h] # t,
         UNCHANGED <<now, status, nextwhen, fresh, adjustTimers, deletedTimers>>,
         UNCHANGED <<mpc, mp, rnow, todo, moved, cdel, cearlier>>,
         gpc[g] \in {"clean", "readd"}, gt[g] = t, gpc'[g] \in {"idle", "added"},
         lock' = lock \/ (lock[p] = g /\ lock' = Set(lock, p, None))
  PROVE  /\ when' \in [Timers -> Nat] /\ heap' \in [Ps -> SUBSET Timers]
         /\ tpp' \in [Timers -> Ps \cup {None}] /\ timer0When' \in [Ps -> Nat]
         /\ lock' \in [Ps -> Ps \cup Gs \cup {None}]
         /\ tpp'[t] = p /\ (\A u \in Timers \ {t} : tpp'[u] = tpp[u])
         /\ Where' /\ Loops' /\ Whens' /\ Tops' /\ Counters'
<1>0. /\ TimerTypes /\ Where /\ Loops /\ Whens /\ Tops /\ Counters
      /\ gwhen[g] \in Nat /\ gwhen[g] > 0
  BY DEF TimerInv, Times
<1>1. /\ when' \in [Timers -> Nat] /\ when'[t] = gwhen[g] /\ \A u \in Timers \ {t} : when'[u] = when[u]
  BY <1>0 DEF TimerTypes, Set
<1>2. /\ LeastIs(p) /\ \A q \in Ps : t \notin heap[q]
  BY <1>0, TimerConstants DEF Tops, Where
<1>3. /\ heap' \in [Ps -> SUBSET Timers] /\ tpp' \in [Timers -> Ps \cup {None}]
      /\ timer0When' \in [Ps -> Nat]
      /\ heap'[p] = heap[p] \cup {t} /\ tpp'[t] = p
      /\ \A q \in Ps \ {p} : heap'[q] = heap[q] /\ timer0When'[q] = timer0When[q]
      /\ \A u \in Timers \ {t} : tpp'[u] = tpp[u]
      /\ LeastIs(p)'
  BY <1>0, <1>1, <1>2, Inserted
<1>4. lock' \in [Ps -> Ps \cup Gs \cup {None}]
  BY <1>0 DEF TimerTypes, Set
<1>5. Where'
  <2>1. \A u \in Timers : \A q \in Ps : u \in heap'[q] <=> tpp'[u] = q
    BY <1>0, <1>2, <1>3 DEF Where
  <2>2. ASSUME NEW u \in Timers
        PROVE  /\ status[u] \in {"Deleted"} \cup Modified => tpp'[u] # None
               /\ status[u] \in {"NoStatus", "Removed", "Moving"} => tpp'[u] = None
               /\ status[u] = "Waiting" /\ tpp'[u] = None => \E h \in Gs : gpc'[h] = "clean" /\ gt'[h] = u
               /\ status[u] = "Moving" <=> \E m \in Ps : u \in moved[m]
               /\ u \in fresh => status[u] = "NoStatus"
    <3>1. CASE u = t
      BY <1>0, <1>3, <3>1, TimerConstants DEF Where, Modified
    <3>2. CASE u # t
      <4>1. tpp'[u] = tpp[u]
        BY <1>3, <3>2
      <4>2. status[u] = "Waiting" /\ tpp[u] = None => \E h \in Gs : gpc'[h] = "clean" /\ gt'[h] = u
        <5>1. SUFFICES ASSUME status[u] = "Waiting", tpp[u] = None
                       PROVE  \E h \in Gs : gpc'[h] = "clean" /\ gt'[h] = u
          OBVIOUS
        <5>2. PICK h \in Gs : gpc[h] = "clean" /\ gt[h] = u
          BY <1>0, <5>1 DEF Where
        <5>3. CASE h # g
          BY <5>2, <5>3
        <5>4. CASE h = g
          BY <3>2, <5>2, <5>4
        <5> QED BY <5>3, <5>4
      <4> QED BY <1>0, <4>1, <4>2 DEF Where
    <3> QED BY <3>1, <3>2
  <2> QED BY <2>1, <2>2 DEF Where
<1>6. Loops'
  <2>1. \A q \in Ps : heap[q] \subseteq heap'[q]
    BY <1>0, <1>3
  <2>2. ASSUME NEW m \in Ps, todo[m] # {} PROVE mpc[m] \in Looping /\ todo[m] \subseteq heap'[mp[m]]
    <3>1. mpc[m] \in Looping /\ todo[m] \subseteq heap[mp[m]] /\ mp[m] \in Ps
      BY <1>0, <2>2 DEF Loops, TimerInv, Holders
    <3> QED BY <2>1, <3>1
  <2> QED BY <1>0, <2>2 DEF Loops
<1>7. Whens'
  <2> SUFFICES ASSUME NEW u \in Timers
               PROVE  /\ tpp'[u] # None \/ status[u] = "Moving" => when'[u] > 0
                      /\ status[u] \in Modified => nextwhen[u] > 0
                      /\ status[u] = "ModifiedLater" => nextwhen[u] >= when'[u]
    BY DEF Whens
  <2>1. CASE u = t
    BY <1>0, <1>1, <2>1 DEF Modified
  <2>2. CASE u # t
    BY <1>0, <1>1, <1>3, <2>2 DEF Whens
  <2> QED BY <2>1, <2>2
<1>8. Tops'
  <2>1. \A q \in Ps \ {p} : \A u \in heap[q] : when'[u] = when[u]
    BY <1>0, <1>1, <1>2 DEF TimerTypes
  <2> QED BY <1>0, <1>3, <2>1, TopsMove
<1>9. Counters'
  <2> SUFFICES ASSUME NEW q \in Ps
               PROVE  /\ Earlier(q)' = Earlier(q) /\ ToUncount(q)' = ToUncount(q) /\ Counted(q)' = Counted(q)
                      /\ Deads(q)' = Deads(q) /\ Undeleting(q)' = Undeleting(q) /\ ToCount(q)' = ToCount(q)
                      /\ Uncounted(q, cearlier)' = Uncounted(q, cearlier)
                      /\ Uncounted(q, cdel)' = Uncounted(q, cdel)
    BY <1>0, CountersStay
  <2>1. Earlier(q)' = Earlier(q) /\ Deads(q)' = Deads(q)
    BY <1>3 DEF Earlier, Deads
  <2>2. \A h \in Gs \ {g} : gpc[h] = "publish" => (NewStatus(h)' = NewStatus(h))
    <3>1. \A h \in Gs \ {g} : gpc[h] = "publish" => gt[h] \in Timers \ {t}
      BY Held DEF Holding
    <3> QED BY <1>1, <3>1 DEF NewStatus
  <2>3. /\ ToUncount(q)' = ToUncount(q) /\ Counted(q)' = Counted(q)
        /\ Undeleting(q)' = Undeleting(q) /\ ToCount(q)' = ToCount(q)
    BY <2>2 DEF ToUncount, Counted, Undeleting, ToCount
  <2>4. lock[q] \in Ps \/ lock'[q] \in Ps => lock'[q] = lock[q]
    BY <1>0, TimerConstants DEF TimerTypes, Set
  <2> QED BY <2>1, <2>3, <2>4 DEF Uncounted
<1> QED BY <1>1, <1>3, <1>4, <1>5, <1>6, <1>7, <1>8, <1>9

LEMMA AddToHeapInv ==
  ASSUME TimerInv, NEW g \in Gs, AddToHeap(g)
  PROVE  TimerInv'
<1>0. /\ TimerTypes /\ Where /\ Modifiers /\ Adders /\ Olds /\ Holders /\ Loops /\ Whens /\ Tops
      /\ gpc[g] = "clean" /\ gwhen[g] \in Times
      /\ when' = Set(when, gt[g], gwhen[g]) /\ doaddtimer(gp[g], gt[g], gwhen[g])
      /\ lock' = Set(lock, gp[g], None) /\ gpc' = Set(gpc, g, "idle")
      /\ Locals(g, None, None, "NoStatus", 0)
      /\ UNCHANGED <<now, status, nextwhen, fresh, adjustTimers, deletedTimers>>
      /\ UNCHANGED <<mpc, mp, rnow, todo, moved, cdel, cearlier>>
  BY DEF TimerInv, AddToHeap, GJump, Done, mvars, Olds
<1>1. PICK t \in Timers, p \in Ps : t = gt[g] /\ p = gp[g]
  BY <1>0 DEF Adders
<1>2. /\ lock[p] = g /\ t \notin fresh /\ status[t] = "Waiting" /\ tpp[t] = None
      /\ \A h \in Gs \ {g} : gpc[h] \in Holding \cup {"clean"} => gt[h] # t
  <2>1. /\ lock[p] = g /\ t \notin fresh /\ status[t] = "Waiting" /\ tpp[t] = None
        /\ \A h \in Gs \ {g} : gpc[h] = "clean" => gt[h] # t
    BY <1>0, <1>1 DEF Adders
  <2>2. \A h \in Gs \ {g} : gpc[h] \in Holding => gt[h] # t
    BY <1>0, <2>1 DEF Modifiers
  <2> QED BY <2>1, <2>2
<1>3. /\ gpc'[g] = "idle" /\ old'[g] = "NoStatus"
      /\ \A h \in Gs \ {g} : /\ gpc'[h] = gpc[h] /\ gt'[h] = gt[h] /\ gp'[h] = gp[h]
                             /\ old'[h] = old[h] /\ gwhen'[h] = gwhen[h]
      /\ lock'[p] = None /\ (\A q \in Ps \ {p} : lock'[q] = lock[q])
  BY <1>0, <1>1 DEF TimerTypes, Set, Locals
<1>4. \A m \in Ps : mpc[m] \in Looping => mp[m] # p
  BY <1>0, <1>2, TimerConstants DEF Holders
<1>5. /\ when' \in [Timers -> Nat] /\ heap' \in [Ps -> SUBSET Timers]
      /\ tpp' \in [Timers -> Ps \cup {None}] /\ timer0When' \in [Ps -> Nat]
      /\ lock' \in [Ps -> Ps \cup Gs \cup {None}]
      /\ tpp'[t] = p /\ (\A u \in Timers \ {t} : tpp'[u] = tpp[u])
      /\ Where' /\ Loops' /\ Whens' /\ Tops' /\ Counters'
  <2>1. \A m \in Ps : mpc[m] = "clear" => mp[m] # p
    BY <1>4 DEF Looping
  <2> QED BY <1>0, <1>1, <1>2, <1>3, <2>1, GoesIn
<1>6. TimerTypes'
  <2>1. gpc' \in [Gs -> GPhases]
    BY <1>0 DEF TimerTypes, Set, GPhases
  <2>2. /\ gt' \in [Gs -> Timers \cup {None}] /\ gp' \in [Gs -> Ps \cup {None}]
        /\ old' \in [Gs -> Statuses] /\ gwhen' \in [Gs -> Nat]
    BY <1>0 DEF TimerTypes, Set, Locals, Statuses
  <2> QED BY <1>0, <1>5, <2>1, <2>2 DEF TimerTypes
<1>7. Modifiers'
  <2>1. gpc[g] \notin Holding /\ gpc'[g] \notin Holding
    BY <1>0, <1>3 DEF Holding
  <2> QED BY <1>0, <1>2, <1>3, <1>5, <2>1, ModifiersMove
<1>8. Adders'
  <2>1. \A h \in Gs : gpc'[h] = "clean" =>
          /\ h # g /\ gpc[h] = "clean" /\ gt'[h] = gt[h] /\ gp'[h] = gp[h]
          /\ gp[h] \in Ps \ {p} /\ gt[h] \in Timers \ {t}
    BY <1>0, <1>2, <1>3 DEF Adders
  <2>2. \A h \in Gs : gpc'[h] = "clean" =>
          /\ lock'[gp'[h]] = h /\ gt'[h] \in Timers \ fresh' /\ status'[gt'[h]] = "Waiting"
          /\ tpp'[gt'[h]] = None
    BY <1>0, <1>3, <1>5, <2>1 DEF Adders
  <2> QED BY <1>0, <2>1, <2>2 DEF Adders
<1>9. Olds'
  BY <1>0, <1>3 DEF Olds
<1>10. Holders'
  <2>1. \A q \in Ps : lock'[q] \in Ps \cup Gs => q # p /\ lock'[q] = lock[q]
    BY <1>3, TimerConstants
  <2>2. \A q \in Ps \ {p} : lock[q] \in Gs => gpc'[lock[q]] = "clean" /\ gp'[lock[q]] = q
    BY <1>0, <1>1, <1>3 DEF Holders
  <2>3. \A m \in Ps : mpc[m] \in Looping => mp[m] \in Ps /\ lock'[mp[m]] = m
    BY <1>0, <1>3, <1>4 DEF Holders
  <2> QED BY <1>0, <2>1, <2>2, <2>3 DEF Holders
<1> QED BY <1>5, <1>6, <1>7, <1>8, <1>9, <1>10 DEF TimerInv

LEMMA ReaddInv ==
  ASSUME TimerInv, NEW g \in Gs, Readd(g)
  PROVE  TimerInv'
<1>0. /\ TimerTypes /\ Where /\ Modifiers /\ Adders /\ Olds /\ Holders /\ Loops /\ Whens /\ Tops
      /\ gpc[g] = "readd" /\ gwhen[g] \in Times /\ lock[gp[g]] = None
      /\ when' = Set(when, gt[g], gwhen[g]) /\ doaddtimer(gp[g], gt[g], gwhen[g])
      /\ gpc' = Set(gpc, g, "added")
      /\ UNCHANGED <<now, status, nextwhen, fresh, lock, adjustTimers, deletedTimers>>
      /\ UNCHANGED <<gt, gp, old, gwhen>>
      /\ UNCHANGED <<mpc, mp, rnow, todo, moved, cdel, cearlier>>
  BY DEF TimerInv, Readd, GJump, mvars, Olds
<1>1. PICK t \in Timers, p \in Ps : t = gt[g] /\ p = gp[g]
  BY <1>0, Held DEF Holding
<1>2. /\ t \notin fresh /\ status[t] = "Modifying" /\ tpp[t] = None
      /\ \A h \in Gs \ {g} : gpc[h] \in Holding \cup {"clean"} => gt[h] # t
  BY <1>0, <1>1, Held DEF Holding
<1>3. gpc'[g] = "added" /\ \A h \in Gs \ {g} : gpc'[h] = gpc[h]
  BY <1>0 DEF TimerTypes, Set
<1>4. \A m \in Ps : mpc[m] = "clear" => mp[m] # p
  BY <1>0, <1>1, TimerConstants DEF Holders, Looping
<1>5. /\ when' \in [Timers -> Nat] /\ heap' \in [Ps -> SUBSET Timers]
      /\ tpp' \in [Timers -> Ps \cup {None}] /\ timer0When' \in [Ps -> Nat]
      /\ lock' \in [Ps -> Ps \cup Gs \cup {None}]
      /\ tpp'[t] = p /\ (\A u \in Timers \ {t} : tpp'[u] = tpp[u])
      /\ Where' /\ Loops' /\ Whens' /\ Tops' /\ Counters'
  BY <1>0, <1>1, <1>2, <1>3, <1>4, GoesIn
<1>6. TimerTypes'
  <2>1. gpc' \in [Gs -> GPhases]
    BY <1>0 DEF TimerTypes, Set, GPhases, Holding
  <2> QED BY <1>0, <1>5, <2>1 DEF TimerTypes
<1>7. Modifiers'
  <2>1. gpc[g] \in Holding /\ gpc'[g] \in Holding
    BY <1>0, <1>3 DEF Holding
  <2> QED BY <1>0, <1>1, <1>2, <1>3, <1>5, <2>1, ModifiersMove
<1>8. Adders'
  <2>1. \A h \in Gs : gpc'[h] = "clean" => gpc[h] = "clean" /\ gt[h] \in Timers \ {t}
    BY <1>0, <1>2, <1>3 DEF Adders
  <2> QED BY <1>0, <1>5, <2>1 DEF Adders
<1>9. Olds'
  BY <1>0, <1>3 DEF Olds
<1>10. Holders'
  <2>1. \A h \in Gs : gpc[h] = "clean" => gpc'[h] = "clean"
    BY <1>0, <1>3
  <2> QED BY <1>0, <2>1 DEF Holders
<1> QED BY <1>5, <1>6, <1>7, <1>8, <1>9, <1>10 DEF TimerInv

-----------------------------------------------------------------------------
(* Work on a heap under its lock *)

\* Timer t of the heap of p, or one that was taken off it to be moved, is put in order.
LEMMA HeapStep ==
  ASSUME TimerInv, TimerTypes', NEW p \in Ps, NEW t \in Timers,
         UNCHANGED <<now, nextwhen, fresh, gpc, gt, gp, old, gwhen>>,
         t \in heap[p] \/ status[t] = "Moving", status[t] # "Modifying",
         \A u \in Timers \ {t} : status'[u] = status[u] /\ when'[u] = when[u] /\ tpp'[u] = tpp[u],
         \A q \in Ps \ {p} : heap'[q] = heap[q],
         heap'[p] \ {t} = heap[p] \ {t},
         \/ status'[t] = "Waiting" /\ tpp'[t] = p /\ t \in heap'[p] /\ when'[t] > 0
         \/ status'[t] \in {"Removed", "NoStatus"} /\ tpp'[t] = None /\ t \notin heap'[p]
         \/ status'[t] = "Moving" /\ tpp'[t] = None /\ t \notin heap'[p] /\ when'[t] > 0,
         \A u \in Timers \ {t} : (\E n \in Ps : u \in moved'[n]) <=> (\E n \in Ps : u \in moved[n]),
         status'[t] = "Moving" <=> \E n \in Ps : t \in moved'[n],
         \A q \in Ps : lock[q] \in Gs => lock'[q] = lock[q],
         \A q \in Ps :
           /\ adjustTimers'[q] - adjustTimers[q] =
                (IF q = p /\ status[t] = "ModifiedEarlier" THEN -1 ELSE 0)
                + (Uncounted(q, cearlier)' - Uncounted(q, cearlier))
           /\ deletedTimers'[q] - deletedTimers[q] =
                (IF q = p /\ status[t] = "Deleted" THEN -1 ELSE 0)
                + (Uncounted(q, cdel)' - Uncounted(q, cdel))
  PROVE  Where' /\ Modifiers' /\ Adders' /\ Olds' /\ Whens' /\ Counters'
<1>0. TimerTypes /\ Where /\ Modifiers /\ Adders /\ Olds /\ Whens
  BY DEF TimerInv
<1>1. /\ tpp[t] = p \/ status[t] = "Moving"
      /\ \A q \in Ps \ {p} : t \notin heap[q]
      /\ t \notin fresh
  BY <1>0, TimerConstants DEF Where
<1>2. \A h \in Gs : gpc[h] \in Holding => gt[h] \in Timers \ {t}
  BY <1>0 DEF Modifiers
<1>3. \A h \in Gs : gpc[h] = "clean" => gt[h] \in Timers \ {t}
  <2>1. tpp[t] # None \/ status[t] = "Moving"
    BY <1>1, TimerConstants
  <2> QED BY <1>0, <2>1 DEF Adders
<1>4. Where'
  <2>1. \A u \in Timers : \A q \in Ps : u \in heap'[q] <=> tpp'[u] = q
    <3> TAKE u \in Timers
    <3> TAKE q \in Ps
    <3>1. CASE u = t
      BY <1>1, <3>1, TimerConstants
    <3>2. CASE u # t
      BY <1>0, <3>2 DEF Where
    <3> QED BY <3>1, <3>2
  <2>2. ASSUME NEW u \in Timers
        PROVE  /\ status'[u] \in {"Deleted"} \cup Modified => tpp'[u] # None
               /\ status'[u] \in {"NoStatus", "Removed", "Moving"} => tpp'[u] = None
               /\ status'[u] = "Waiting" /\ tpp'[u] = None => \E h \in Gs : gpc'[h] = "clean" /\ gt'[h] = u
               /\ status'[u] = "Moving" <=> \E n \in Ps : u \in moved'[n]
               /\ u \in fresh => status'[u] = "NoStatus"
    <3>1. CASE u = t
      BY <1>1, <3>1, TimerConstants DEF Modified
    <3>2. CASE u # t
      BY <1>0, <3>2 DEF Where
    <3> QED BY <3>1, <3>2
  <2> QED BY <2>1, <2>2 DEF Where
<1>5. Modifiers'
  BY <1>0, ModifiersStay
<1>6. Adders'
  <2>1. \A h \in Gs : gpc[h] = "clean" =>
          /\ gp[h] \in Ps /\ lock'[gp[h]] = h
          /\ gt[h] \in Timers \ fresh /\ status'[gt[h]] = "Waiting" /\ tpp'[gt[h]] = None
    BY <1>0, <1>3 DEF Adders
  <2> QED BY <1>0, <2>1 DEF Adders
<1>7. Olds'
  BY <1>0 DEF Olds
<1>8. Whens'
  <2> SUFFICES ASSUME NEW u \in Timers
               PROVE  /\ tpp'[u] # None \/ status'[u] = "Moving" => when'[u] > 0
                      /\ status'[u] \in Modified => nextwhen[u] > 0
                      /\ status'[u] = "ModifiedLater" => nextwhen[u] >= when'[u]
    BY DEF Whens
  <2>1. CASE u = t
    BY <2>1 DEF Modified
  <2>2. CASE u # t
    BY <1>0, <2>2 DEF Whens
  <2> QED BY <2>1, <2>2
<1>9. ASSUME NEW q \in Ps
      PROVE  /\ adjustTimers'[q] = Cardinality(Earlier(q))' + Cardinality(ToUncount(q))'
                                   + Cardinality(Counted(q))' + Uncounted(q, cearlier)'
             /\ deletedTimers'[q] = Cardinality(Deads(q))' + Cardinality(Undeleting(q))'
                                    - Cardinality(ToCount(q))' + Uncounted(q, cdel)'
  <2>1. \A h \in Gs : gpc[h] = "publish" => (NewStatus(h)' = NewStatus(h))
    BY <1>2 DEF NewStatus, Holding
  <2>2. /\ ToUncount(q)' = ToUncount(q) /\ Counted(q)' = Counted(q)
        /\ Undeleting(q)' = Undeleting(q) /\ ToCount(q)' = ToCount(q)
    BY <2>1, CallsStay
  <2>3. /\ Cardinality(ToUncount(q))' - Cardinality(ToUncount(q)) = 0
        /\ Cardinality(Counted(q))' - Cardinality(Counted(q)) = 0
        /\ Cardinality(Undeleting(q))' - Cardinality(Undeleting(q)) = 0
        /\ Cardinality(ToCount(q))' - Cardinality(ToCount(q)) = 0
    BY <1>0, <2>2, Sizes
  <2>4. heap'[q] \ {t} = heap[q] \ {t}
    OBVIOUS
  <2>5. /\ t \in Earlier(q) <=> q = p /\ status[t] = "ModifiedEarlier"
        /\ t \in Deads(q) <=> q = p /\ status[t] = "Deleted"
        /\ t \notin Earlier(q)' /\ t \notin Deads(q)'
    BY <1>1 DEF Earlier, Deads
  <2>6. /\ Cardinality(Earlier(q))' - Cardinality(Earlier(q)) =
             IF q = p /\ status[t] = "ModifiedEarlier" THEN -1 ELSE 0
        /\ Cardinality(Deads(q))' - Cardinality(Deads(q)) =
             IF q = p /\ status[t] = "Deleted" THEN -1 ELSE 0
    BY <1>0, <2>4, <2>5, TimerTallies DEF One
  <2>7. /\ Uncounted(q, cearlier)' - Uncounted(q, cearlier) \in Int
        /\ Uncounted(q, cdel)' - Uncounted(q, cdel) \in Int
    BY <1>0, Sizes, SizesAfter
  <2> QED BY <2>3, <2>6, <2>7, CountersMove
<1>10. Counters'
  BY <1>9 DEF Counters
<1> QED BY <1>4, <1>5, <1>6, <1>7, <1>8, <1>10

\* A step under the lock of p after which timer t is in order, and so is the top of the heap.
LEMMA OrderKept ==
  ASSUME TimerInv, NEW p \in Ps, NEW t \in Timers,
         UNCHANGED <<now, nextwhen, fresh, gpc, gt, gp, old, gwhen>>,
         UNCHANGED <<lock, mpc, mp, rnow, cdel, cearlier>>,
         t \in heap[p] \/ status[t] = "Moving", status[t] # "Modifying",
         status' \in [Timers -> Statuses], when' \in [Timers -> Nat],
         tpp' \in [Timers -> Ps \cup {None}], heap' \in [Ps -> SUBSET Timers],
         timer0When' \in [Ps -> Nat], adjustTimers' \in [Ps -> Int], deletedTimers' \in [Ps -> Int],
         todo' \in [Ps -> SUBSET Timers], moved' \in [Ps -> SUBSET Timers],
         \A u \in Timers \ {t} : status'[u] = status[u] /\ when'[u] = when[u] /\ tpp'[u] = tpp[u],
         \A q \in Ps \ {p} : heap'[q] = heap[q] /\ timer0When'[q] = timer0When[q],
         heap'[p] \ {t} = heap[p] \ {t}, LeastIs(p)',
         \/ status'[t] = "Waiting" /\ tpp'[t] = p /\ t \in heap'[p] /\ when'[t] > 0
         \/ status'[t] \in {"Removed", "NoStatus"} /\ tpp'[t] = None /\ t \notin heap'[p]
         \/ status'[t] = "Moving" /\ tpp'[t] = None /\ t \notin heap'[p] /\ when'[t] > 0,
         \A n \in Ps : todo'[n] \subseteq todo[n] /\ (mpc[n] \in Looping /\ mp[n] = p => t \notin todo'[n]),
         \A n \in Ps : moved'[n] \ {t} = moved[n] \ {t} /\ (t \in moved'[n] => mpc[n] = "locked"),
         \A n, o \in Ps : t \in moved'[n] /\ t \in moved'[o] => n = o,
         status'[t] = "Moving" <=> \E n \in Ps : t \in moved'[n],
         \A q \in Ps :
           /\ adjustTimers'[q] - adjustTimers[q] = IF q = p /\ status[t] = "ModifiedEarlier" THEN -1 ELSE 0
           /\ deletedTimers'[q] - deletedTimers[q] = IF q = p /\ status[t] = "Deleted" THEN -1 ELSE 0
  PROVE  TimerInv'
<1>0. TimerTypes /\ Where /\ Olds /\ Holders /\ Loops /\ Tops
  BY DEF TimerInv
<1>1. TimerTypes'
  BY <1>0 DEF TimerTypes
<1>2. \A q \in Ps :
        /\ Uncounted(q, cearlier)' - Uncounted(q, cearlier) = 0
        /\ Uncounted(q, cdel)' - Uncounted(q, cdel) = 0
  <2> TAKE q \in Ps
  <2>1. Uncounted(q, cearlier)' = Uncounted(q, cearlier) /\ Uncounted(q, cdel)' = Uncounted(q, cdel)
    BY DEF Uncounted
  <2> QED BY <1>0, <2>1, Sizes
<1>3. \A u \in Timers \ {t} : (\E n \in Ps : u \in moved'[n]) <=> (\E n \in Ps : u \in moved[n])
  OBVIOUS
<1>4. \A q \in Ps :
        /\ adjustTimers'[q] - adjustTimers[q] =
             (IF q = p /\ status[t] = "ModifiedEarlier" THEN -1 ELSE 0)
             + (Uncounted(q, cearlier)' - Uncounted(q, cearlier))
        /\ deletedTimers'[q] - deletedTimers[q] =
             (IF q = p /\ status[t] = "Deleted" THEN -1 ELSE 0)
             + (Uncounted(q, cdel)' - Uncounted(q, cdel))
  BY <1>2
<1>5. Where' /\ Modifiers' /\ Adders' /\ Olds' /\ Whens' /\ Counters'
  BY <1>1, <1>3, <1>4, HeapStep
<1>6. Holders'
  BY <1>0 DEF Holders
<1>7. Loops'
  <2>1. ASSUME NEW n \in Ps, todo'[n] # {} PROVE mpc[n] \in Looping /\ todo'[n] \subseteq heap'[mp[n]]
    <3>1. mpc[n] \in Looping /\ todo[n] \subseteq heap[mp[n]] /\ mp[n] \in Ps
      BY <1>0, <2>1 DEF Loops, Holders
    <3>2. CASE mp[n] = p
      BY <3>1, <3>2
    <3>3. CASE mp[n] # p
      BY <3>1, <3>3
    <3> QED BY <3>1, <3>2, <3>3
  <2>2. ASSUME NEW n \in Ps, moved'[n] # {} PROVE mpc[n] = "locked"
    BY <1>0, <2>2 DEF Loops
  <2>3. ASSUME NEW n \in Ps, NEW o \in Ps, moved'[n] \cap moved'[o] # {} PROVE n = o
    <3>1. PICK u : u \in moved'[n] /\ u \in moved'[o]
      BY <2>3
    <3>2. CASE u # t
      BY <1>0, <3>1, <3>2 DEF Loops
    <3> QED BY <3>1, <3>2
  <2> QED BY <1>0, <2>1, <2>2, <2>3 DEF Loops
<1>8. Tops'
  <2>1. \A q \in Ps \ {p} : \A u \in heap[q] : u \in Timers \ {t}
    <3>1. tpp[t] = p \/ tpp[t] = None
      BY <1>0 DEF Where
    <3> QED BY <1>0, <3>1, TimerConstants DEF Where, TimerTypes
  <2> QED BY <1>0, <2>1, TopsMove
<1> QED BY <1>1, <1>5, <1>6, <1>7, <1>8 DEF TimerInv

\* A deleted timer is taken off the heap of p.
LEMMA RemovedFrom ==
  ASSUME TimerTypes, NEW p \in Ps, NEW t \in heap[p], RemoveDeleted(p, t)
  PROVE  /\ status[t] = "Deleted" /\ status'[t] = "Removed" /\ tpp'[t] = None /\ heap'[p] = heap[p] \ {t}
         /\ when' = when /\ adjustTimers' = adjustTimers
         /\ \A u \in Timers \ {t} : status'[u] = status[u] /\ tpp'[u] = tpp[u]
         /\ \A q \in Ps \ {p} : heap'[q] = heap[q] /\ timer0When'[q] = timer0When[q]
         /\ \A q \in Ps : deletedTimers'[q] - deletedTimers[q] = IF q = p THEN -1 ELSE 0
         /\ LeastIs(p)'
         /\ status' \in [Timers -> Statuses] /\ tpp' \in [Timers -> Ps \cup {None}]
         /\ heap' \in [Ps -> SUBSET Timers] /\ timer0When' \in [Ps -> Nat]
         /\ deletedTimers' \in [Ps -> Int]
<1>1. /\ status[t] = "Deleted" /\ when' = when /\ adjustTimers' = adjustTimers
      /\ heap' = [heap EXCEPT ![p] = heap[p] \ {t}] /\ tpp' = [tpp EXCEPT ![t] = None]
      /\ status' = [status EXCEPT ![t] = "Removed"] /\ updateTimer0When(p)
      /\ deletedTimers' = [deletedTimers EXCEPT ![p] = deletedTimers[p] + (-1)]
  BY DEF TimerTypes, RemoveDeleted, dodeltimer, Set, Add
<1>2. /\ t \in Timers /\ heap' \in [Ps -> SUBSET Timers] /\ when' \in [Timers -> Nat]
      /\ timer0When \in [Ps -> Nat]
  BY <1>1 DEF TimerTypes
<1>3. /\ LeastIs(p)' /\ timer0When' \in [Ps -> Nat]
      /\ \A q \in Ps \ {p} : timer0When'[q] = timer0When[q]
  BY <1>1, <1>2, TopUpdated
<1>4. /\ status' \in [Timers -> Statuses] /\ tpp' \in [Timers -> Ps \cup {None}]
      /\ deletedTimers' \in [Ps -> Int]
  BY <1>1, <1>2 DEF TimerTypes, Statuses
<1>5. \A q \in Ps : deletedTimers'[q] - deletedTimers[q] = IF q = p THEN -1 ELSE 0
  BY <1>1 DEF TimerTypes
<1> QED BY <1>1, <1>2, <1>3, <1>4, <1>5 DEF TimerTypes

\* The timer's new time, of MoveModified or to be moved
LEMMA Retimed ==
  ASSUME TimerInv, NEW p \in Ps, NEW t \in heap[p], status[t] \in Modified,
         when' = Set(when, t, nextwhen[t]),
         adjustTimers' = IF status[t] = "ModifiedEarlier" THEN Add(adjustTimers, p, -1) ELSE adjustTimers
  PROVE  /\ t \in Timers /\ when' \in [Timers -> Nat] /\ when'[t] = nextwhen[t] /\ when'[t] > 0
         /\ \A u \in Timers \ {t} : when'[u] = when[u]
         /\ adjustTimers' \in [Ps -> Int]
         /\ \A q \in Ps : adjustTimers'[q] - adjustTimers[q] =
              IF q = p /\ status[t] = "ModifiedEarlier" THEN -1 ELSE 0
<1>0. TimerTypes /\ Whens
  BY DEF TimerInv
<1>1. t \in Timers /\ nextwhen[t] > 0
  BY <1>0 DEF TimerTypes, Whens
<1>2. when' \in [Timers -> Nat] /\ when'[t] = nextwhen[t] /\ \A u \in Timers \ {t} : when'[u] = when[u]
  BY <1>0, <1>1 DEF TimerTypes, Set
<1>3. /\ adjustTimers' \in [Ps -> Int]
      /\ \A q \in Ps : adjustTimers'[q] - adjustTimers[q] =
           IF q = p /\ status[t] = "ModifiedEarlier" THEN -1 ELSE 0
  <2>1. adjustTimers \in [Ps -> Int]
    BY <1>0 DEF TimerTypes
  <2>2. CASE status[t] = "ModifiedEarlier"
    <3>1. adjustTimers' = [adjustTimers EXCEPT ![p] = adjustTimers[p] + (-1)]
      BY <2>2 DEF Add
    <3> QED BY <2>1, <2>2, <3>1
  <2>3. CASE status[t] # "ModifiedEarlier"
    BY <2>1, <2>3
  <2> QED BY <2>2, <2>3
<1> QED BY <1>1, <1>2, <1>3

\* What the lock's holder does about the timer at the top: cleantimers and runtimer
LEMMA HeapCleaned ==
  ASSUME TimerInv, NEW p \in Ps, NEW t \in heap[p], RemoveDeleted(p, t) \/ MoveModified(p, t),
         UNCHANGED <<now, nextwhen, fresh, gpc, gt, gp, old, gwhen>>,
         UNCHANGED <<lock, mpc, mp, rnow, todo, moved, cdel, cearlier>>,
         \A m \in Ps : mpc[m] \in Looping /\ mp[m] = p => todo[m] = {}
  PROVE  TimerInv'
<1>0. TimerTypes /\ Where
  BY DEF TimerInv
<1>1. t \in Timers /\ tpp[t] = p /\ p # None /\ todo \in [Ps -> SUBSET Timers] /\ moved \in [Ps -> SUBSET Timers]
  BY <1>0, TimerConstants DEF TimerTypes, Where
<1>2. status[t] \in {"Deleted"} \cup Modified => \A n \in Ps : t \notin moved[n]
  BY <1>0, <1>1 DEF Where
<1>3. CASE RemoveDeleted(p, t)
  <2>1. /\ status[t] = "Deleted" /\ status'[t] = "Removed" /\ tpp'[t] = None /\ heap'[p] = heap[p] \ {t}
        /\ when' = when /\ adjustTimers' = adjustTimers
        /\ \A u \in Timers \ {t} : status'[u] = status[u] /\ tpp'[u] = tpp[u]
        /\ \A q \in Ps \ {p} : heap'[q] = heap[q] /\ timer0When'[q] = timer0When[q]
        /\ \A q \in Ps : deletedTimers'[q] - deletedTimers[q] = IF q = p THEN -1 ELSE 0
        /\ LeastIs(p)'
        /\ status' \in [Timers -> Statuses] /\ tpp' \in [Timers -> Ps \cup {None}]
        /\ heap' \in [Ps -> SUBSET Timers] /\ timer0When' \in [Ps -> Nat]
        /\ deletedTimers' \in [Ps -> Int]
    BY <1>0, <1>3, RemovedFrom
  <2>2. /\ when' \in [Timers -> Nat] /\ adjustTimers' \in [Ps -> Int]
        /\ \A q \in Ps : adjustTimers'[q] - adjustTimers[q] = 0
    BY <1>0, <2>1 DEF TimerTypes
  <2> QED BY <1>1, <1>2, <2>1, <2>2, OrderKept
<1>4. CASE MoveModified(p, t)
  <2>1. /\ status[t] \in Modified /\ UNCHANGED <<heap, tpp, deletedTimers>>
        /\ when' = Set(when, t, nextwhen[t]) /\ status' = Set(status, t, "Waiting") /\ updateTimer0When(p)
        /\ adjustTimers' = IF status[t] = "ModifiedEarlier" THEN Add(adjustTimers, p, -1) ELSE adjustTimers
    BY <1>4 DEF MoveModified
  <2>2. /\ when' \in [Timers -> Nat] /\ when'[t] > 0 /\ (\A u \in Timers \ {t} : when'[u] = when[u])
        /\ adjustTimers' \in [Ps -> Int]
        /\ \A q \in Ps : adjustTimers'[q] - adjustTimers[q] =
             IF q = p /\ status[t] = "ModifiedEarlier" THEN -1 ELSE 0
    BY <2>1, Retimed
  <2>3. /\ status' \in [Timers -> Statuses] /\ status'[t] = "Waiting"
        /\ \A u \in Timers \ {t} : status'[u] = status[u]
    BY <1>0, <1>1, <2>1 DEF TimerTypes, Set, Statuses
  <2>4. /\ heap' \in [Ps -> SUBSET Timers] /\ tpp' \in [Timers -> Ps \cup {None}]
        /\ deletedTimers' \in [Ps -> Int] /\ timer0When \in [Ps -> Nat]
        /\ \A q \in Ps : deletedTimers'[q] - deletedTimers[q] = 0
    BY <1>0, <2>1 DEF TimerTypes
  <2>5. /\ LeastIs(p)' /\ timer0When' \in [Ps -> Nat]
        /\ \A q \in Ps \ {p} : timer0When'[q] = timer0When[q]
    BY <2>1, <2>2, <2>4, TopUpdated
  <2>6. status[t] # "Deleted" /\ status[t] # "Modifying"
    BY <2>1 DEF Modified
  <2>7. /\ t \in heap[p] \/ status[t] = "Moving"
        /\ \/ status'[t] = "Waiting" /\ tpp'[t] = p /\ t \in heap'[p] /\ when'[t] > 0
           \/ status'[t] \in {"Removed", "NoStatus"} /\ tpp'[t] = None /\ t \notin heap'[p]
           \/ status'[t] = "Moving" /\ tpp'[t] = None /\ t \notin heap'[p] /\ when'[t] > 0
    BY <1>1, <2>1, <2>2, <2>3
  <2>8. /\ \A u \in Timers \ {t} : status'[u] = status[u] /\ when'[u] = when[u] /\ tpp'[u] = tpp[u]
        /\ \A q \in Ps \ {p} : heap'[q] = heap[q] /\ timer0When'[q] = timer0When[q]
        /\ heap'[p] \ {t} = heap[p] \ {t}
    BY <2>1, <2>2, <2>3, <2>5
  <2>9. /\ todo' \in [Ps -> SUBSET Timers] /\ moved' \in [Ps -> SUBSET Timers]
        /\ \A n \in Ps : todo'[n] \subseteq todo[n] /\ (mpc[n] \in Looping /\ mp[n] = p => t \notin todo'[n])
        /\ \A n \in Ps : moved'[n] \ {t} = moved[n] \ {t} /\ (t \in moved'[n] => mpc[n] = "locked")
        /\ \A n, o \in Ps : t \in moved'[n] /\ t \in moved'[o] => n = o
        /\ status'[t] = "Moving" <=> \E n \in Ps : t \in moved'[n]
    BY <1>1, <1>2, <2>1, <2>3
  <2>10. \A q \in Ps :
           /\ adjustTimers'[q] - adjustTimers[q] = IF q = p /\ status[t] = "ModifiedEarlier" THEN -1 ELSE 0
           /\ deletedTimers'[q] - deletedTimers[q] = IF q = p /\ status[t] = "Deleted" THEN -1 ELSE 0
    BY <2>2, <2>4, <2>6
  <2>11. UNCHANGED <<lock, mpc, mp, rnow, cdel, cearlier>> /\ status[t] # "Modifying"
    BY <2>6
  <2> QED BY <1>1, <2>2, <2>3, <2>4, <2>5, <2>7, <2>8, <2>9, <2>10, <2>11, OrderKept
<1> QED BY <1>3, <1>4

LEMMA cleantimersInv ==
  ASSUME TimerInv, NEW g \in Gs, cleantimers(g)
  PROVE  TimerInv'
<1>0. /\ Adders /\ Holders /\ gpc[g] = "clean"
      /\ UNCHANGED <<now, nextwhen, fresh, gpc, gt, gp, old, gwhen>>
      /\ UNCHANGED <<lock, mpc, mp, rnow, todo, moved, cdel, cearlier>>
  BY DEF TimerInv, cleantimers, gvars, mvars
<1>1. PICK p \in Ps : p = gp[g] /\ lock[p] = g
  BY <1>0 DEF Adders
<1>2. PICK t \in heap[p] : RemoveDeleted(p, t) \/ MoveModified(p, t)
  BY <1>1 DEF cleantimers, Top
<1>3. \A m \in Ps : mpc[m] \in Looping => mp[m] # p
  BY <1>0, <1>1, TimerConstants DEF Holders
<1> QED BY <1>0, <1>2, <1>3, HeapCleaned

LEMMA runtimerInv ==
  ASSUME TimerInv, NEW m \in Ps, runtimer(m)
  PROVE  TimerInv'
<1>0. /\ Holders /\ mpc[m] = "locked" /\ todo[m] = {}
      /\ UNCHANGED <<now, nextwhen, fresh, gpc, gt, gp, old, gwhen>>
      /\ UNCHANGED <<lock, mpc, mp, rnow, todo, moved, cdel, cearlier>>
  BY DEF TimerInv, runtimer, Running, gvars, mvars
<1>1. PICK p \in Ps : p = mp[m] /\ lock[p] = m
  BY <1>0 DEF Holders, Looping
<1>2. PICK t \in heap[p] : RemoveDeleted(p, t) \/ MoveModified(p, t)
  BY <1>1 DEF runtimer, Top
<1>3. \A n \in Ps : mpc[n] \in Looping /\ mp[n] = p => todo[n] = {}
  BY <1>0, <1>1 DEF Holders
<1> QED BY <1>0, <1>2, <1>3, HeapCleaned

\* A loop goes on to the next timer.
LEMMA LoopGoesOn ==
  ASSUME TimerInv, UNCHANGED <<now, status, when, nextwhen, tpp, fresh>>,
         UNCHANGED <<lock, heap, timer0When, adjustTimers, deletedTimers>>,
         UNCHANGED <<gpc, gt, gp, old, gwhen>>,
         UNCHANGED <<mpc, mp, rnow, moved, cdel, cearlier>>,
         todo' \in [Ps -> SUBSET Timers], \A n \in Ps : todo'[n] \subseteq todo[n]
  PROVE  TimerInv'
<1>1. /\ TimerTypes' /\ Where' /\ Modifiers' /\ Adders' /\ Olds' /\ Holders'
  BY DEF TimerInv, TimerTypes, Where, Modifiers, Adders, Olds, Holders
<1>2. Loops'
  <2>1. Loops
    BY DEF TimerInv
  <2>2. \A n \in Ps : todo'[n] # {} => mpc[n] \in Looping /\ todo'[n] \subseteq heap[mp[n]]
    BY <2>1 DEF Loops
  <2> QED BY <2>1, <2>2 DEF Loops
<1>3. Whens' /\ Tops'
  BY DEF TimerInv, Whens, Tops, LeastIs
<1>4. \A p \in Ps : /\ Earlier(p)' = Earlier(p) /\ ToUncount(p)' = ToUncount(p) /\ Counted(p)' = Counted(p)
                    /\ Deads(p)' = Deads(p) /\ Undeleting(p)' = Undeleting(p) /\ ToCount(p)' = ToCount(p)
                    /\ Uncounted(p, cearlier)' = Uncounted(p, cearlier)
                    /\ Uncounted(p, cdel)' = Uncounted(p, cdel)
  BY DEF Earlier, ToUncount, Counted, NewStatus, Deads, Undeleting, ToCount, Uncounted
<1>5. Counters'
  BY <1>4 DEF TimerInv, Counters
<1> QED BY <1>1, <1>2, <1>3, <1>5 DEF TimerInv

LEMMA adjusttimersInv ==
  ASSUME TimerInv, NEW m \in Ps, adjusttimers(m)
  PROVE  TimerInv'
<1>0. /\ TimerTypes /\ Where /\ Holders /\ Loops /\ mpc[m] = "locked"
      /\ UNCHANGED <<now, nextwhen, fresh, gpc, gt, gp, old, gwhen>>
      /\ UNCHANGED <<lock, mpc, mp, rnow, cdel, cearlier>>
  BY DEF TimerInv, adjusttimers, gvars
<1>1. PICK p \in Ps : p = mp[m] /\ lock[p] = m
  BY <1>0 DEF Holders, Looping
<1>2. todo[m] \subseteq heap[p]
  BY <1>0, <1>1 DEF Loops
<1>2a. PICK t \in todo[m] :
        \E left \in Onward(m, t) :
          \/ /\ RemoveDeleted(p, t)
             /\ todo' = Set(todo, m, left)
             /\ UNCHANGED moved
          \/ /\ status[t] \in Modified
             /\ when' = Set(when, t, nextwhen[t])
             /\ dodeltimer(p, t, "Moving")
             /\ updateTimer0When(p)
             /\ moved' = Set(moved, m, moved[m] \cup {t})
             /\ IF status[t] = "ModifiedEarlier"
                THEN /\ adjustTimers' = Add(adjustTimers, p, -1)
                     /\ todo' = Set(todo, m, IF adjustTimers[p] <= 1 THEN {} ELSE left)
                ELSE todo' = Set(todo, m, left) /\ UNCHANGED adjustTimers
             /\ UNCHANGED deletedTimers
          \/ /\ status[t] = "Waiting"
             /\ todo' = Set(todo, m, todo[m] \ {t})
             /\ UNCHANGED <<status, when, tpp, heap, timer0When, adjustTimers, deletedTimers, moved>>
  BY <1>1 DEF adjusttimers
<1>3. PICK left \in Onward(m, t) :
        \/ /\ RemoveDeleted(p, t)
           /\ todo' = Set(todo, m, left)
           /\ UNCHANGED moved
        \/ /\ status[t] \in Modified
           /\ when' = Set(when, t, nextwhen[t])
           /\ dodeltimer(p, t, "Moving")
           /\ updateTimer0When(p)
           /\ moved' = Set(moved, m, moved[m] \cup {t})
           /\ IF status[t] = "ModifiedEarlier"
              THEN /\ adjustTimers' = Add(adjustTimers, p, -1)
                   /\ todo' = Set(todo, m, IF adjustTimers[p] <= 1 THEN {} ELSE left)
              ELSE todo' = Set(todo, m, left) /\ UNCHANGED adjustTimers
           /\ UNCHANGED deletedTimers
        \/ /\ status[t] = "Waiting"
           /\ todo' = Set(todo, m, todo[m] \ {t})
           /\ UNCHANGED <<status, when, tpp, heap, timer0When, adjustTimers, deletedTimers, moved>>
  BY <1>2a
<1>4. t \in heap[p] /\ t \in Timers /\ tpp[t] = p
  BY <1>0, <1>1, <1>2, <1>2a DEF TimerTypes, Where
<1>5. \E T \in SUBSET (todo[m] \ {t}) : todo' = Set(todo, m, T)
  <2>1. /\ left \in SUBSET (todo[m] \ {t})
        /\ todo[m] \ {t} \in SUBSET (todo[m] \ {t}) /\ {} \in SUBSET (todo[m] \ {t})
    BY <1>3 DEF Onward
  <2> QED BY <1>3, <2>1
<1>6. /\ todo' \in [Ps -> SUBSET Timers] /\ (\A n \in Ps : todo'[n] \subseteq todo[n])
      /\ \A n \in Ps : mpc[n] \in Looping /\ mp[n] = p => t \notin todo'[n]
  <2>1. PICK T \in SUBSET (todo[m] \ {t}) : todo' = Set(todo, m, T)
    BY <1>5
  <2>2. todo \in [Ps -> SUBSET Timers] /\ todo' = [todo EXCEPT ![m] = T]
    BY <1>0, <2>1 DEF TimerTypes, Set
  <2>3. \A n \in Ps : mpc[n] \in Looping /\ mp[n] = p => n = m
    BY <1>0, <1>1 DEF Holders
  <2> QED BY <2>1, <2>2, <2>3
<1>7. CASE RemoveDeleted(p, t) /\ UNCHANGED moved
  <2>1. /\ status[t] = "Deleted" /\ status'[t] = "Removed" /\ tpp'[t] = None /\ heap'[p] = heap[p] \ {t}
        /\ when' = when /\ adjustTimers' = adjustTimers
        /\ \A u \in Timers \ {t} : status'[u] = status[u] /\ tpp'[u] = tpp[u]
        /\ \A q \in Ps \ {p} : heap'[q] = heap[q] /\ timer0When'[q] = timer0When[q]
        /\ \A q \in Ps : deletedTimers'[q] - deletedTimers[q] = IF q = p THEN -1 ELSE 0
        /\ LeastIs(p)'
        /\ status' \in [Timers -> Statuses] /\ tpp' \in [Timers -> Ps \cup {None}]
        /\ heap' \in [Ps -> SUBSET Timers] /\ timer0When' \in [Ps -> Nat]
        /\ deletedTimers' \in [Ps -> Int]
    BY <1>0, <1>4, <1>7, RemovedFrom
  <2>2. /\ when' \in [Timers -> Nat] /\ adjustTimers' \in [Ps -> Int] /\ moved' \in [Ps -> SUBSET Timers]
        /\ \A q \in Ps : adjustTimers'[q] - adjustTimers[q] = 0
    BY <1>0, <1>7, <2>1 DEF TimerTypes
  <2>3. \A n \in Ps : t \notin moved[n]
    BY <1>0, <1>4, <2>1 DEF Where
  <2>4. \A n \in Ps : todo'[n] \subseteq todo[n] /\ (mpc[n] \in Looping /\ mp[n] = p => t \notin todo'[n])
    BY <1>6
  <2>5. /\ \A n \in Ps : moved'[n] \ {t} = moved[n] \ {t} /\ (t \in moved'[n] => mpc[n] = "locked")
        /\ \A n, o \in Ps : t \in moved'[n] /\ t \in moved'[o] => n = o
        /\ status'[t] = "Moving" <=> \E n \in Ps : t \in moved'[n]
    BY <1>7, <2>1, <2>3
  <2>6. heap'[p] \ {t} = heap[p] \ {t} /\ t \notin heap'[p] /\ status[t] # "Modifying"
    BY <2>1
  <2> QED BY <1>0, <1>4, <1>6, <2>1, <2>2, <2>4, <2>5, <2>6, OrderKept
<1>8. CASE /\ status[t] \in Modified
           /\ when' = Set(when, t, nextwhen[t])
           /\ dodeltimer(p, t, "Moving")
           /\ updateTimer0When(p)
           /\ moved' = Set(moved, m, moved[m] \cup {t})
           /\ adjustTimers' = IF status[t] = "ModifiedEarlier" THEN Add(adjustTimers, p, -1) ELSE adjustTimers
           /\ UNCHANGED deletedTimers
  <2>1. /\ when' \in [Timers -> Nat] /\ when'[t] > 0 /\ (\A u \in Timers \ {t} : when'[u] = when[u])
        /\ adjustTimers' \in [Ps -> Int]
        /\ \A q \in Ps : adjustTimers'[q] - adjustTimers[q] =
             IF q = p /\ status[t] = "ModifiedEarlier" THEN -1 ELSE 0
    BY <1>4, <1>8, Retimed
  <2>2. /\ heap' = [heap EXCEPT ![p] = heap[p] \ {t}] /\ tpp' = [tpp EXCEPT ![t] = None]
        /\ status' = [status EXCEPT ![t] = "Moving"] /\ moved' = [moved EXCEPT ![m] = moved[m] \cup {t}]
    BY <1>0, <1>8 DEF TimerTypes, dodeltimer, Set
  <2>3. /\ status' \in [Timers -> Statuses] /\ status'[t] = "Moving"
        /\ \A u \in Timers \ {t} : status'[u] = status[u]
    BY <1>0, <1>4, <2>2 DEF TimerTypes, Statuses
  <2>4. /\ heap' \in [Ps -> SUBSET Timers] /\ tpp' \in [Timers -> Ps \cup {None}]
        /\ heap'[p] = heap[p] \ {t} /\ (\A q \in Ps \ {p} : heap'[q] = heap[q])
        /\ tpp'[t] = None /\ (\A u \in Timers \ {t} : tpp'[u] = tpp[u])
    BY <1>0, <1>4, <2>2 DEF TimerTypes
  <2>5. /\ deletedTimers' \in [Ps -> Int] /\ timer0When \in [Ps -> Nat]
        /\ \A q \in Ps : deletedTimers'[q] - deletedTimers[q] = 0
    BY <1>0, <1>8 DEF TimerTypes
  <2>6. /\ LeastIs(p)' /\ timer0When' \in [Ps -> Nat]
        /\ \A q \in Ps \ {p} : timer0When'[q] = timer0When[q]
    BY <1>8, <2>1, <2>4, <2>5, TopUpdated
  <2>7. status[t] # "Deleted" /\ status[t] # "Modifying" /\ status[t] # "Moving"
    BY <1>8 DEF Modified
  <2>8. \A n \in Ps : t \notin moved[n]
    BY <1>0, <1>4, <2>7 DEF Where
  <2>9. /\ moved' \in [Ps -> SUBSET Timers] /\ (\A n \in Ps : t \in moved'[n] <=> n = m)
        /\ \A n \in Ps : moved'[n] \ {t} = moved[n] \ {t}
    BY <1>0, <1>4, <2>2, <2>8 DEF TimerTypes
  <2>10. \A n \in Ps : todo'[n] \subseteq todo[n] /\ (mpc[n] \in Looping /\ mp[n] = p => t \notin todo'[n])
    BY <1>6
  <2>11. /\ \A n \in Ps : moved'[n] \ {t} = moved[n] \ {t} /\ (t \in moved'[n] => mpc[n] = "locked")
         /\ \A n, o \in Ps : t \in moved'[n] /\ t \in moved'[o] => n = o
         /\ status'[t] = "Moving" <=> \E n \in Ps : t \in moved'[n]
    BY <1>0, <2>3, <2>9
  <2>12. heap'[p] \ {t} = heap[p] \ {t} /\ t \notin heap'[p]
    BY <2>4
  <2>13. moved' \in [Ps -> SUBSET Timers] /\ todo' \in [Ps -> SUBSET Timers] /\ status[t] # "Modifying"
    BY <1>6, <2>7, <2>9
  <2>14. /\ \A u \in Timers \ {t} : status'[u] = status[u] /\ when'[u] = when[u] /\ tpp'[u] = tpp[u]
         /\ \A q \in Ps \ {p} : heap'[q] = heap[q] /\ timer0When'[q] = timer0When[q]
    BY <2>1, <2>3, <2>4, <2>6
  <2>15. /\ \A q \in Ps :
              /\ adjustTimers'[q] - adjustTimers[q] = IF q = p /\ status[t] = "ModifiedEarlier" THEN -1 ELSE 0
              /\ deletedTimers'[q] - deletedTimers[q] = IF q = p /\ status[t] = "Deleted" THEN -1 ELSE 0
         /\ deletedTimers' \in [Ps -> Int] /\ adjustTimers' \in [Ps -> Int]
    BY <2>1, <2>5, <2>7
  <2>16. /\ when' \in [Timers -> Nat] /\ status' \in [Timers -> Statuses]
         /\ heap' \in [Ps -> SUBSET Timers] /\ tpp' \in [Timers -> Ps \cup {None}]
         /\ timer0When' \in [Ps -> Nat] /\ LeastIs(p)'
         /\ status'[t] = "Moving" /\ tpp'[t] = None /\ t \notin heap'[p] /\ when'[t] > 0
    BY <2>1, <2>3, <2>4, <2>6, <2>12
  <2>17. /\ UNCHANGED <<now, nextwhen, fresh, gpc, gt, gp, old, gwhen>>
         /\ UNCHANGED <<lock, mpc, mp, rnow, cdel, cearlier>>
         /\ t \in heap[p] \/ status[t] = "Moving"
    BY <1>0, <1>4
  <2> QED BY <1>4, <2>10, <2>11, <2>12, <2>13, <2>14, <2>15, <2>16, <2>17, OrderKept
<1>9. CASE UNCHANGED <<status, when, tpp, heap, timer0When, adjustTimers, deletedTimers, moved>>
  BY <1>0, <1>6, <1>9, LoopGoesOn
<1> QED BY <1>3, <1>7, <1>8, <1>9

LEMMA addAdjustedTimersInv ==
  ASSUME TimerInv, NEW m \in Ps, addAdjustedTimers(m)
  PROVE  TimerInv'
<1>0. /\ TimerTypes /\ Where /\ Holders /\ Loops /\ Whens /\ Tops /\ mpc[m] = "locked" /\ todo[m] = {}
      /\ UNCHANGED <<now, nextwhen, fresh, gpc, gt, gp, old, gwhen>>
      /\ UNCHANGED <<lock, mpc, mp, rnow, cdel, cearlier>>
      /\ UNCHANGED <<when, adjustTimers, deletedTimers, todo>>
  BY DEF TimerInv, addAdjustedTimers, gvars
<1>1. PICK p \in Ps : p = mp[m] /\ lock[p] = m
  BY <1>0 DEF Holders, Looping
<1>2. PICK t \in moved[m] :
        /\ doaddtimer(p, t, when[t])
        /\ status' = Set(status, t, "Waiting")
        /\ moved' = Set(moved, m, moved[m] \ {t})
  BY <1>1 DEF addAdjustedTimers
<1>3. /\ t \in Timers /\ status[t] = "Moving" /\ tpp[t] = None /\ when[t] \in Nat /\ when[t] > 0
      /\ \A q \in Ps : t \notin heap[q]
  BY <1>0, <1>2, TimerConstants DEF TimerTypes, Where, Whens
<1>4. \A n \in Ps : mpc[n] \in Looping /\ mp[n] = p => n = m
  BY <1>0, <1>1 DEF Holders
<1>5. LeastIs(p)
  <2>1. \A n \in Ps : mpc[n] = "clear" => mp[n] # p
    BY <1>0, <1>4 DEF Looping
  <2> QED BY <1>0, <2>1 DEF Tops
<1>6. /\ heap' \in [Ps -> SUBSET Timers] /\ tpp' \in [Timers -> Ps \cup {None}]
      /\ timer0When' \in [Ps -> Nat]
      /\ heap'[p] = heap[p] \cup {t} /\ tpp'[t] = p
      /\ \A q \in Ps \ {p} : heap'[q] = heap[q] /\ timer0When'[q] = timer0When[q]
      /\ \A u \in Timers \ {t} : tpp'[u] = tpp[u]
      /\ LeastIs(p)'
  BY <1>0, <1>2, <1>3, <1>5, Inserted
<1>7. /\ status' \in [Timers -> Statuses] /\ status'[t] = "Waiting"
      /\ \A u \in Timers \ {t} : status'[u] = status[u]
  BY <1>0, <1>2, <1>3 DEF TimerTypes, Set, Statuses
<1>8. \A n \in Ps : t \in moved[n] => n = m
  BY <1>0, <1>2 DEF Loops
<1>9. /\ moved' \in [Ps -> SUBSET Timers] /\ (\A n \in Ps : t \notin moved'[n])
      /\ \A n \in Ps : moved'[n] \ {t} = moved[n] \ {t}
  BY <1>0, <1>2, <1>8 DEF TimerTypes, Set
<1>10. /\ when' \in [Timers -> Nat] /\ todo' \in [Ps -> SUBSET Timers]
       /\ adjustTimers' \in [Ps -> Int] /\ deletedTimers' \in [Ps -> Int]
       /\ \A q \in Ps : adjustTimers'[q] - adjustTimers[q] = 0 /\ deletedTimers'[q] - deletedTimers[q] = 0
  BY <1>0 DEF TimerTypes
<1>11. \A n \in Ps : todo'[n] \subseteq todo[n] /\ (mpc[n] \in Looping /\ mp[n] = p => t \notin todo'[n])
  BY <1>0, <1>4
<1>12. /\ \A n \in Ps : moved'[n] \ {t} = moved[n] \ {t} /\ (t \in moved'[n] => mpc[n] = "locked")
       /\ \A n, o \in Ps : t \in moved'[n] /\ t \in moved'[o] => n = o
       /\ status'[t] = "Moving" <=> \E n \in Ps : t \in moved'[n]
  BY <1>7, <1>9
<1>13. heap'[p] \ {t} = heap[p] \ {t} /\ t \in heap'[p]
  BY <1>6
<1> QED BY <1>0, <1>3, <1>6, <1>7, <1>9, <1>10, <1>11, <1>12, <1>13, OrderKept

\* A timer runs again after a whole number of periods.
LEMMA Periods ==
  ASSUME NEW w \in Nat, NEW r \in Nat, w <= r, NEW d \in Nat, d > 0
  PROVE  /\ d * (1 + (r - w) \div d) \in Nat
         /\ (r - w) \div d \in Nat
<1>1. (r - w) \in Nat
  OBVIOUS
<1>2. \A a \in Nat : a \div d \in Nat
  OBVIOUS
<1>3. (r - w) \div d \in Nat
  BY <1>1, <1>2
<1>4. \A k \in Nat : d * (1 + k) \in Nat
  OBVIOUS
<1> QED BY <1>3, <1>4

LEMMA runOneTimerInv ==
  ASSUME TimerInv, NEW m \in Ps, runOneTimer(m)
  PROVE  TimerInv'
<1>0. /\ TimerTypes /\ Where /\ Holders /\ Loops /\ Whens /\ Tops
      /\ mpc[m] = "locked" /\ todo[m] = {} /\ moved[m] = {}
      /\ UNCHANGED <<now, nextwhen, fresh, gpc, gt, gp, old, gwhen>>
      /\ UNCHANGED <<adjustTimers, deletedTimers, mp, rnow, todo, moved, cdel, cearlier>>
      /\ mpc' = Set(mpc, m, "call")
  BY DEF TimerInv, runOneTimer, Running, MJump, gvars
<1>1. PICK p \in Ps : p = mp[m] /\ lock[p] = m
  BY <1>0 DEF Holders, Looping
<1>2. PICK t \in heap[p] :
        /\ status[t] = "Waiting" /\ when[t] <= rnow[m]
        /\ \/ /\ period[t] > 0
              /\ when' = Add(when, t, period[t] * (1 + (rnow[m] - when[t]) \div period[t]))
              /\ UNCHANGED <<status, tpp, heap>>
           \/ /\ period[t] = 0
              /\ dodeltimer(p, t, "NoStatus")
              /\ UNCHANGED when
        /\ updateTimer0When(p)
        /\ lock' = Set(lock, p, None)
  BY <1>1 DEF runOneTimer, Top
<1>3. /\ t \in Timers /\ tpp[t] = p /\ when[t] > 0 /\ when[t] \in Nat /\ rnow[m] \in Nat /\ period[t] \in Nat
      /\ \A n \in Ps : t \notin moved[n]
  BY <1>0, <1>1, <1>2, TimerConstants DEF TimerTypes, Where, Whens
<1>4. /\ status' \in [Timers -> Statuses] /\ when' \in [Timers -> Nat]
      /\ tpp' \in [Timers -> Ps \cup {None}] /\ heap' \in [Ps -> SUBSET Timers]
      /\ \A u \in Timers \ {t} : status'[u] = status[u] /\ when'[u] = when[u] /\ tpp'[u] = tpp[u]
      /\ \A q \in Ps \ {p} : heap'[q] = heap[q]
      /\ heap'[p] \ {t} = heap[p] \ {t}
      /\ \/ status'[t] = "Waiting" /\ tpp'[t] = p /\ t \in heap'[p] /\ when'[t] > 0
         \/ status'[t] \in {"Removed", "NoStatus"} /\ tpp'[t] = None /\ t \notin heap'[p]
  <2>1. CASE /\ period[t] > 0
             /\ when' = Add(when, t, period[t] * (1 + (rnow[m] - when[t]) \div period[t]))
             /\ UNCHANGED <<status, tpp, heap>>
    <3>1. PICK k \in Nat : k = period[t] * (1 + (rnow[m] - when[t]) \div period[t])
      BY <1>2, <1>3, <2>1, Periods
    <3>2. when' = [when EXCEPT ![t] = when[t] + k]
      BY <2>1, <3>1 DEF Add
    <3>3. /\ when' \in [Timers -> Nat] /\ when'[t] > 0
          /\ \A u \in Timers \ {t} : when'[u] = when[u]
      BY <1>0, <1>3, <3>2 DEF TimerTypes
    <3> QED BY <1>0, <1>2, <1>3, <2>1, <3>3 DEF TimerTypes
  <2>2. CASE dodeltimer(p, t, "NoStatus") /\ UNCHANGED when
    <3>1. /\ heap' = [heap EXCEPT ![p] = heap[p] \ {t}] /\ tpp' = [tpp EXCEPT ![t] = None]
          /\ status' = [status EXCEPT ![t] = "NoStatus"]
      BY <1>0, <2>2 DEF TimerTypes, dodeltimer, Set
    <3>2. /\ status' \in [Timers -> Statuses] /\ status'[t] = "NoStatus"
          /\ \A u \in Timers \ {t} : status'[u] = status[u]
      BY <1>0, <1>3, <3>1 DEF TimerTypes, Statuses
    <3> QED BY <1>0, <1>3, <2>2, <3>1, <3>2 DEF TimerTypes
  <2> QED BY <1>2, <2>1, <2>2
<1>5. /\ LeastIs(p)' /\ timer0When' \in [Ps -> Nat]
      /\ \A q \in Ps \ {p} : timer0When'[q] = timer0When[q]
  <2>1. timer0When \in [Ps -> Nat] /\ heap'[p] \subseteq Timers
    BY <1>0, <1>4 DEF TimerTypes
  <2> QED BY <1>2, <1>4, <2>1, TopUpdated
<1>6. /\ lock' \in [Ps -> Ps \cup Gs \cup {None}] /\ lock'[p] = None
      /\ (\A q \in Ps \ {p} : lock'[q] = lock[q])
      /\ mpc' \in [Ps -> MPhases] /\ mpc'[m] = "call" /\ (\A n \in Ps \ {m} : mpc'[n] = mpc[n])
  BY <1>0, <1>2 DEF TimerTypes, Set, MPhases
<1>7. TimerTypes'
  BY <1>0, <1>4, <1>5, <1>6 DEF TimerTypes
<1>8. \A q \in Ps :
        /\ Uncounted(q, cearlier)' - Uncounted(q, cearlier) = 0
        /\ Uncounted(q, cdel)' - Uncounted(q, cdel) = 0
  <2>1. cearlier[m] = 0 /\ cdel[m] = 0
    BY <1>0 DEF Loops
  <2> TAKE q \in Ps
  <2>2. Uncounted(q, cearlier)' = Uncounted(q, cearlier) /\ Uncounted(q, cdel)' = Uncounted(q, cdel)
    BY <1>0, <1>1, <1>6, <2>1, TimerConstants DEF Uncounted
  <2> QED BY <1>0, <2>2, Sizes
<1>9. \A q \in Ps : lock[q] \in Gs => lock'[q] = lock[q]
  BY <1>1, <1>6, TimerConstants
<1>10. \A q \in Ps :
         /\ adjustTimers'[q] - adjustTimers[q] =
              (IF q = p /\ status[t] = "ModifiedEarlier" THEN -1 ELSE 0)
              + (Uncounted(q, cearlier)' - Uncounted(q, cearlier))
         /\ deletedTimers'[q] - deletedTimers[q] =
              (IF q = p /\ status[t] = "Deleted" THEN -1 ELSE 0)
              + (Uncounted(q, cdel)' - Uncounted(q, cdel))
  <2>1. \A q \in Ps : adjustTimers'[q] - adjustTimers[q] = 0 /\ deletedTimers'[q] - deletedTimers[q] = 0
    BY <1>0 DEF TimerTypes
  <2> QED BY <1>2, <1>8, <2>1
<1>11. Where' /\ Modifiers' /\ Adders' /\ Olds' /\ Whens' /\ Counters'
  <2>1. status[t] # "Modifying" /\ (status'[t] = "Moving" <=> \E n \in Ps : t \in moved'[n])
    BY <1>0, <1>2, <1>3, <1>4
  <2>2. \A u \in Timers \ {t} : (\E n \in Ps : u \in moved'[n]) <=> (\E n \in Ps : u \in moved[n])
    BY <1>0
  <2> QED BY <1>0, <1>2, <1>3, <1>4, <1>7, <1>9, <1>10, <2>1, <2>2, HeapStep
<1>12. \A n \in Ps : mpc'[n] \in Looping => n # m /\ mpc[n] \in Looping /\ mp[n] \in Ps \ {p} /\ lock[mp[n]] = n
  BY <1>0, <1>1, <1>6 DEF Holders, Looping
<1>13. Holders'
  <2>1. \A q \in Ps : lock'[q] \in Ps => q # p /\ lock[q] # m /\ lock'[q] = lock[q]
    BY <1>0, <1>1, <1>6, TimerConstants DEF Holders
  <2>2. \A q \in Ps : lock'[q] \in Gs => q # p /\ lock'[q] = lock[q]
    BY <1>6, TimerConstants
  <2>3. \A n \in Ps : mpc'[n] = "call" => mp[n] \in Ps
    BY <1>0, <1>1, <1>6 DEF Holders
  <2> QED BY <1>0, <1>6, <1>12, <2>1, <2>2, <2>3 DEF Holders
<1>14. Loops'
  <2>1. \A n \in Ps : todo[n] # {} => n # m /\ mpc[n] \in Looping /\ todo[n] \subseteq heap[mp[n]]
    BY <1>0 DEF Loops
  <2>2. \A n \in Ps : todo[n] # {} => mpc'[n] \in Looping /\ todo[n] \subseteq heap'[mp[n]]
    BY <1>4, <1>6, <1>12, <2>1
  <2> QED BY <1>0, <1>6, <2>2 DEF Loops
<1>15. Tops'
  <2>1. \A q \in Ps \ {p} : \A u \in heap[q] : u \in Timers \ {t}
    BY <1>0, <1>3 DEF Where, TimerTypes
  <2>2. \A q \in Ps \ {p} : /\ heap'[q] = heap[q] /\ timer0When'[q] = timer0When[q]
                            /\ \A u \in heap[q] : when'[u] = when[u]
    BY <1>4, <1>5, <2>1
  <2>3. \A n \in Ps : mpc[n] = "clear" /\ mp[n] # p => mpc'[n] = "clear" /\ mp'[n] = mp[n]
    BY <1>0, <1>6
  <2> QED BY <1>0, <1>5, <2>2, <2>3, TopsMove
<1> QED BY <1>7, <1>11, <1>13, <1>14, <1>15 DEF TimerInv

LEMMA clearDeletedTimersInv ==
  ASSUME TimerInv, NEW m \in Ps, clearDeletedTimers(m)
  PROVE  TimerInv'
<1>0. /\ TimerTypes /\ Where /\ Holders /\ Loops /\ Whens /\ Tops /\ mpc[m] = "clear"
      /\ UNCHANGED <<now, nextwhen, fresh, gpc, gt, gp, old, gwhen>>
      /\ UNCHANGED <<lock, timer0When, adjustTimers, deletedTimers, mpc, mp, rnow, moved>>
  BY DEF TimerInv, clearDeletedTimers, gvars
<1>1. PICK p \in Ps : p = mp[m] /\ lock[p] = m
  BY <1>0 DEF Holders, Looping
<1>2. PICK t \in todo[m] :
        /\ todo' = Set(todo, m, todo[m] \ {t})
        /\ \/ /\ status[t] = "Waiting"
              /\ UNCHANGED <<status, when, tpp, heap, cdel, cearlier>>
           \/ /\ status[t] \in Modified
              /\ when' = Set(when, t, nextwhen[t])
              /\ status' = Set(status, t, "Waiting")
              /\ cearlier' = IF status[t] = "ModifiedEarlier" THEN Add(cearlier, m, 1) ELSE cearlier
              /\ UNCHANGED <<tpp, heap, cdel>>
           \/ /\ status[t] = "Deleted"
              /\ dodeltimer(p, t, "Removed")
              /\ cdel' = Add(cdel, m, 1)
              /\ UNCHANGED <<when, cearlier>>
  BY <1>1 DEF clearDeletedTimers
<1>3. /\ t \in heap[p] /\ t \in Timers /\ tpp[t] = p /\ (\A u \in Timers : \A q \in Ps : u \in heap[q] => tpp[u] = q)
      /\ todo \in [Ps -> SUBSET Timers]
  <2>1. t \in heap[p]
    BY <1>0, <1>1 DEF Loops
  <2>2. t \in Timers /\ todo \in [Ps -> SUBSET Timers]
    BY <1>0, <2>1 DEF TimerTypes
  <2> QED BY <1>0, <2>1, <2>2 DEF Where
<1>4. /\ todo' \in [Ps -> SUBSET Timers] /\ todo'[m] = todo[m] \ {t}
      /\ \A n \in Ps \ {m} : todo'[n] = todo[n]
  BY <1>2, <1>3 DEF Set
<1>5. CASE UNCHANGED <<status, when, tpp, heap, cdel, cearlier>>
  BY <1>0, <1>4, <1>5, LoopGoesOn
<1>6. CASE \/ /\ status[t] \in Modified
              /\ when' = Set(when, t, nextwhen[t])
              /\ status' = Set(status, t, "Waiting")
              /\ cearlier' = IF status[t] = "ModifiedEarlier" THEN Add(cearlier, m, 1) ELSE cearlier
              /\ UNCHANGED <<tpp, heap, cdel>>
           \/ /\ status[t] = "Deleted"
              /\ dodeltimer(p, t, "Removed")
              /\ cdel' = Add(cdel, m, 1)
              /\ UNCHANGED <<when, cearlier>>
  <2>1. /\ status' \in [Timers -> Statuses] /\ when' \in [Timers -> Nat]
        /\ tpp' \in [Timers -> Ps \cup {None}] /\ heap' \in [Ps -> SUBSET Timers]
        /\ cdel' \in [Ps -> Nat] /\ cearlier' \in [Ps -> Nat]
        /\ \A u \in Timers \ {t} : status'[u] = status[u] /\ when'[u] = when[u] /\ tpp'[u] = tpp[u]
        /\ \A q \in Ps \ {p} : heap'[q] = heap[q]
        /\ heap'[p] \ {t} = heap[p] \ {t}
        /\ \/ status'[t] = "Waiting" /\ tpp'[t] = p /\ t \in heap'[p] /\ when'[t] > 0
           \/ status'[t] \in {"Removed", "NoStatus"} /\ tpp'[t] = None /\ t \notin heap'[p]
        /\ status[t] # "Modifying" /\ status[t] # "Moving"
        /\ \A n \in Ps \ {m} : cdel'[n] = cdel[n] /\ cearlier'[n] = cearlier[n]
        /\ cdel'[m] = cdel[m] + (IF status[t] = "Deleted" THEN 1 ELSE 0)
        /\ cearlier'[m] = cearlier[m] + (IF status[t] = "ModifiedEarlier" THEN 1 ELSE 0)
    <3>1. CASE /\ status[t] \in Modified
               /\ when' = Set(when, t, nextwhen[t])
               /\ status' = Set(status, t, "Waiting")
               /\ cearlier' = IF status[t] = "ModifiedEarlier" THEN Add(cearlier, m, 1) ELSE cearlier
               /\ UNCHANGED <<tpp, heap, cdel>>
      <4>1. when' \in [Timers -> Nat] /\ when'[t] > 0 /\ \A u \in Timers \ {t} : when'[u] = when[u]
        <5>1. nextwhen[t] > 0 /\ nextwhen[t] \in Nat
          BY <1>0, <1>3, <3>1 DEF TimerTypes, Whens
        <5> QED BY <1>0, <1>3, <3>1, <5>1 DEF TimerTypes, Set
      <4>2. /\ status' \in [Timers -> Statuses] /\ status'[t] = "Waiting"
            /\ \A u \in Timers \ {t} : status'[u] = status[u]
        BY <1>0, <1>3, <3>1 DEF TimerTypes, Set, Statuses
      <4>3. /\ cearlier' \in [Ps -> Nat] /\ (\A n \in Ps \ {m} : cearlier'[n] = cearlier[n])
            /\ cearlier'[m] = cearlier[m] + (IF status[t] = "ModifiedEarlier" THEN 1 ELSE 0)
        <5>1. CASE status[t] = "ModifiedEarlier"
          <6>1. cearlier' = [cearlier EXCEPT ![m] = cearlier[m] + 1]
            BY <3>1, <5>1 DEF Add
          <6> QED BY <1>0, <5>1, <6>1 DEF TimerTypes
        <5>2. CASE status[t] # "ModifiedEarlier"
          BY <1>0, <3>1, <5>2 DEF TimerTypes
        <5> QED BY <5>1, <5>2
      <4>4. /\ tpp' \in [Timers -> Ps \cup {None}] /\ heap' \in [Ps -> SUBSET Timers]
            /\ cdel' \in [Ps -> Nat] /\ cdel'[m] = cdel[m] + 0
            /\ status[t] # "Modifying" /\ status[t] # "Moving" /\ status[t] # "Deleted"
        BY <1>0, <3>1 DEF TimerTypes, Modified
      <4> QED BY <1>3, <3>1, <4>1, <4>2, <4>3, <4>4
    <3>2. CASE /\ status[t] = "Deleted"
               /\ dodeltimer(p, t, "Removed")
               /\ cdel' = Add(cdel, m, 1)
               /\ UNCHANGED <<when, cearlier>>
      <4>1. /\ heap' = [heap EXCEPT ![p] = heap[p] \ {t}] /\ tpp' = [tpp EXCEPT ![t] = None]
            /\ status' = [status EXCEPT ![t] = "Removed"] /\ cdel' = [cdel EXCEPT ![m] = cdel[m] + 1]
        BY <1>0, <3>2 DEF TimerTypes, dodeltimer, Set, Add
      <4>2. /\ status' \in [Timers -> Statuses] /\ status'[t] = "Removed"
            /\ \A u \in Timers \ {t} : status'[u] = status[u]
        BY <1>0, <1>3, <4>1 DEF TimerTypes, Statuses
      <4>3. /\ heap' \in [Ps -> SUBSET Timers] /\ tpp' \in [Timers -> Ps \cup {None}]
            /\ heap'[p] = heap[p] \ {t} /\ (\A q \in Ps \ {p} : heap'[q] = heap[q])
            /\ tpp'[t] = None /\ (\A u \in Timers \ {t} : tpp'[u] = tpp[u])
        BY <1>0, <1>3, <4>1 DEF TimerTypes
      <4>4. /\ cdel' \in [Ps -> Nat] /\ (\A n \in Ps \ {m} : cdel'[n] = cdel[n])
            /\ cdel'[m] = cdel[m] + 1 /\ when' \in [Timers -> Nat]
            /\ cearlier' \in [Ps -> Nat] /\ cearlier'[m] = cearlier[m] + 0
        <5>1. cdel \in [Ps -> Nat] /\ cearlier \in [Ps -> Nat] /\ when \in [Timers -> Nat]
          BY <1>0 DEF TimerTypes
        <5>2. cdel[m] \in Nat /\ cearlier[m] \in Nat
          BY <5>1
        <5>3. cdel' \in [Ps -> Nat] /\ cdel'[m] = cdel[m] + 1 /\ \A n \in Ps \ {m} : cdel'[n] = cdel[n]
          BY <4>1, <5>1, <5>2
        <5> QED BY <3>2, <5>1, <5>2, <5>3
      <4> QED BY <1>3, <3>2, <4>2, <4>3, <4>4
    <3> QED BY <1>6, <3>1, <3>2
  <2>2. TimerTypes'
    BY <1>0, <1>4, <2>1 DEF TimerTypes
  <2>3. \A q \in Ps : lock[q] = m => q = p
    BY <1>0, <1>1 DEF Holders
  <2>4. \A q \in Ps :
          /\ adjustTimers'[q] - adjustTimers[q] =
               (IF q = p /\ status[t] = "ModifiedEarlier" THEN -1 ELSE 0)
               + (Uncounted(q, cearlier)' - Uncounted(q, cearlier))
          /\ deletedTimers'[q] - deletedTimers[q] =
               (IF q = p /\ status[t] = "Deleted" THEN -1 ELSE 0)
               + (Uncounted(q, cdel)' - Uncounted(q, cdel))
    <3> TAKE q \in Ps
    <3>1. adjustTimers'[q] - adjustTimers[q] = 0 /\ deletedTimers'[q] - deletedTimers[q] = 0
      BY <1>0 DEF TimerTypes
    <3>2. CASE q = p
      <4>1. /\ Uncounted(q, cearlier) = cearlier[m] /\ Uncounted(q, cearlier)' = cearlier'[m]
            /\ Uncounted(q, cdel) = cdel[m] /\ Uncounted(q, cdel)' = cdel'[m]
        BY <1>0, <1>1, <3>2 DEF Uncounted
      <4>2. cearlier[m] \in Nat /\ cdel[m] \in Nat
        BY <1>0 DEF TimerTypes
      <4> QED BY <2>1, <3>1, <3>2, <4>1, <4>2
    <3>3. CASE q # p
      <4>1. Uncounted(q, cearlier)' = Uncounted(q, cearlier) /\ Uncounted(q, cdel)' = Uncounted(q, cdel)
        BY <1>0, <2>1, <2>3, <3>3 DEF Uncounted
      <4> QED BY <1>0, <3>1, <3>3, <4>1, Sizes
    <3> QED BY <3>2, <3>3
  <2>5. Where' /\ Modifiers' /\ Adders' /\ Olds' /\ Whens' /\ Counters'
    <3>1. status'[t] = "Moving" <=> \E n \in Ps : t \in moved'[n]
      BY <1>0, <1>3, <2>1 DEF Where
    <3>2. \A u \in Timers \ {t} : (\E n \in Ps : u \in moved'[n]) <=> (\E n \in Ps : u \in moved[n])
      BY <1>0
    <3> QED BY <1>0, <1>3, <2>1, <2>2, <2>4, <3>1, <3>2, HeapStep
  <2>6. Holders'
    BY <1>0 DEF Holders
  <2>7. Loops'
    <3>1. ASSUME NEW n \in Ps, todo'[n] # {}
          PROVE  mpc[n] \in Looping /\ todo'[n] \subseteq heap'[mp[n]]
      <4>1. CASE n = m
        <5>1. todo[m] \subseteq heap[p] /\ todo'[m] = todo[m] \ {t}
          BY <1>0, <1>1, <1>2, <1>4 DEF Loops
        <5> QED BY <1>0, <1>1, <2>1, <4>1, <5>1 DEF Looping
      <4>2. CASE n # m
        <5>1. mpc[n] \in Looping /\ todo[n] \subseteq heap[mp[n]] /\ mp[n] \in Ps /\ mp[n] # p
          BY <1>0, <1>1, <1>4, <3>1, <4>2 DEF Loops, Holders
        <5> QED BY <1>4, <2>1, <4>2, <5>1
      <4> QED BY <4>1, <4>2
    <3>2. \A n \in Ps : mpc[n] # "clear" => cdel'[n] = 0 /\ cearlier'[n] = 0
      BY <1>0, <2>1 DEF Loops
    <3> QED BY <1>0, <3>1, <3>2 DEF Loops
  <2>8. Tops'
    <3>1. \A q \in Ps \ {p} : \A u \in heap[q] : u \in Timers \ {t}
      BY <1>0, <1>3 DEF TimerTypes
    <3>2. \A q \in Ps \ {p} : /\ heap'[q] = heap[q] /\ timer0When'[q] = timer0When[q]
                              /\ \A u \in heap[q] : when'[u] = when[u]
      BY <1>0, <2>1, <3>1
    <3>3. \E n \in Ps : mpc'[n] = "clear" /\ mp'[n] = p
      BY <1>0, <1>1
    <3> QED BY <1>0, <3>2, <3>3, TopsMove
  <2> QED BY <2>2, <2>5, <2>6, <2>7, <2>8 DEF TimerInv
<1> QED BY <1>2, <1>5, <1>6

-----------------------------------------------------------------------------
(* Ms take and release the locks *)

\* Nothing happens to a timer, and no goroutine gains or loses a lock.
LEMMA LockMoves ==
  ASSUME TimerInv, TimerTypes',
         UNCHANGED <<now, status, when, nextwhen, tpp, fresh>>, UNCHANGED <<heap, moved>>,
         UNCHANGED <<gpc, gt, gp, old, gwhen>>,
         \A q \in Ps : lock[q] \in Gs \/ lock'[q] \in Gs => lock'[q] = lock[q],
         \A q \in Ps :
           /\ adjustTimers'[q] - adjustTimers[q] = Uncounted(q, cearlier)' - Uncounted(q, cearlier)
           /\ deletedTimers'[q] - deletedTimers[q] = Uncounted(q, cdel)' - Uncounted(q, cdel)
  PROVE  Where' /\ Modifiers' /\ Adders' /\ Olds' /\ Whens' /\ Counters'
<1>0. TimerTypes /\ Where /\ Modifiers /\ Adders /\ Olds /\ Whens
  BY DEF TimerInv
<1>1. Where' /\ Modifiers' /\ Olds' /\ Whens'
  BY <1>0 DEF Where, Modifiers, Olds, Whens
<1>2. Adders'
  BY <1>0 DEF Adders
<1>3. ASSUME NEW q \in Ps
      PROVE  /\ adjustTimers'[q] = Cardinality(Earlier(q))' + Cardinality(ToUncount(q))'
                                   + Cardinality(Counted(q))' + Uncounted(q, cearlier)'
             /\ deletedTimers'[q] = Cardinality(Deads(q))' + Cardinality(Undeleting(q))'
                                    - Cardinality(ToCount(q))' + Uncounted(q, cdel)'
  <2>1. /\ Earlier(q)' = Earlier(q) /\ ToUncount(q)' = ToUncount(q) /\ Counted(q)' = Counted(q)
        /\ Deads(q)' = Deads(q) /\ Undeleting(q)' = Undeleting(q) /\ ToCount(q)' = ToCount(q)
    BY DEF Earlier, ToUncount, Counted, NewStatus, Deads, Undeleting, ToCount
  <2>2. /\ Cardinality(Earlier(q))' - Cardinality(Earlier(q)) = 0
        /\ Cardinality(ToUncount(q))' - Cardinality(ToUncount(q)) = 0
        /\ Cardinality(Counted(q))' - Cardinality(Counted(q)) = 0
        /\ Cardinality(Deads(q))' - Cardinality(Deads(q)) = 0
        /\ Cardinality(Undeleting(q))' - Cardinality(Undeleting(q)) = 0
        /\ Cardinality(ToCount(q))' - Cardinality(ToCount(q)) = 0
    BY <1>0, <2>1, Sizes
  <2>3. /\ Uncounted(q, cearlier)' - Uncounted(q, cearlier) \in Int
        /\ Uncounted(q, cdel)' - Uncounted(q, cdel) \in Int
    BY <1>0, Sizes, SizesAfter
  <2> QED BY <2>2, <2>3, CountersMove
<1>4. Counters'
  BY <1>3 DEF Counters
<1> QED BY <1>1, <1>2, <1>4

\* M number m takes the lock of p, to go through the timers of T first.
LEMMA Locks ==
  ASSUME TimerInv, NEW m \in Ps, NEW p \in Ps, NEW T, T \subseteq heap[p],
         UNCHANGED <<now, status, when, nextwhen, tpp, fresh>>,
         UNCHANGED <<heap, timer0When, adjustTimers, deletedTimers>>,
         UNCHANGED <<gpc, gt, gp, old, gwhen>>, UNCHANGED <<moved, cdel, cearlier>>,
         mpc[m] \in {"idle", "call"}, lock[p] = None, lock' = Set(lock, p, m),
         mpc' = Set(mpc, m, "locked"), mp' = Set(mp, m, p), todo' = Set(todo, m, T),
         rnow' = Set(rnow, m, now) \/ rnow' = rnow
  PROVE  TimerInv'
<1>0. TimerTypes /\ Holders /\ Loops /\ Tops
  BY DEF TimerInv
<1>1. /\ lock'[p] = m /\ (\A q \in Ps \ {p} : lock'[q] = lock[q])
      /\ mpc'[m] = "locked" /\ mp'[m] = p /\ todo'[m] = T
      /\ \A n \in Ps \ {m} : mpc'[n] = mpc[n] /\ mp'[n] = mp[n] /\ todo'[n] = todo[n]
  BY <1>0 DEF TimerTypes, Set
<1>2. /\ lock' \in [Ps -> Ps \cup Gs \cup {None}] /\ mpc' \in [Ps -> MPhases]
      /\ mp' \in [Ps -> Ps \cup {None}]
  BY <1>0 DEF TimerTypes, Set, MPhases, Looping
<1>3. todo' \in [Ps -> SUBSET Timers] /\ rnow' \in [Ps -> Nat] /\ (\A n \in Ps : rnow'[n] <= now)
  <2>1. T \subseteq Timers
    BY <1>0 DEF TimerTypes
  <2>2. todo' \in [Ps -> SUBSET Timers]
    BY <1>0, <2>1 DEF TimerTypes, Set
  <2>3. rnow' \in [Ps -> Nat] /\ \A n \in Ps : rnow'[n] <= now
    <3>1. rnow \in [Ps -> Nat] /\ (\A n \in Ps : rnow[n] <= now) /\ now \in Nat /\ now <= now
      BY <1>0 DEF TimerTypes, Holders
    <3>2. CASE rnow' = rnow
      BY <3>1, <3>2
    <3>3. CASE rnow' = [rnow EXCEPT ![m] = now]
      BY <3>1, <3>3
    <3> QED BY <3>2, <3>3 DEF Set
  <2> QED BY <2>2, <2>3
<1>4. TimerTypes'
  BY <1>0, <1>2, <1>3 DEF TimerTypes
<1>5. /\ mpc[m] \notin Looping /\ mpc[m] # "clear" /\ cdel[m] = 0 /\ cearlier[m] = 0 /\ moved[m] = {}
  BY <1>0 DEF Loops, Looping
<1>6. \A q \in Ps :
        /\ adjustTimers'[q] - adjustTimers[q] = Uncounted(q, cearlier)' - Uncounted(q, cearlier)
        /\ deletedTimers'[q] - deletedTimers[q] = Uncounted(q, cdel)' - Uncounted(q, cdel)
  <2> TAKE q \in Ps
  <2>1. Uncounted(q, cearlier)' = Uncounted(q, cearlier) /\ Uncounted(q, cdel)' = Uncounted(q, cdel)
    BY <1>1, <1>5, TimerConstants DEF Uncounted
  <2>2. adjustTimers'[q] - adjustTimers[q] = 0 /\ deletedTimers'[q] - deletedTimers[q] = 0
    BY <1>0 DEF TimerTypes
  <2> QED BY <1>0, <2>1, <2>2, Sizes
<1>7. Where' /\ Modifiers' /\ Adders' /\ Olds' /\ Whens' /\ Counters'
  <2>1. \A q \in Ps : lock[q] \in Gs \/ lock'[q] \in Gs => lock'[q] = lock[q]
    BY <1>1, TimerConstants
  <2> QED BY <1>4, <1>6, <2>1, LockMoves
<1>8. Holders'
  <2>1. \A n \in Ps \ {m} : mpc[n] \in Looping => mp[n] \in Ps /\ mp[n] # p /\ lock[mp[n]] = n
    BY <1>0, TimerConstants DEF Holders
  <2>2. ASSUME NEW q \in Ps, lock'[q] \in Ps PROVE mp'[lock'[q]] = q /\ mpc'[lock'[q]] \in Looping
    <3>1. CASE q = p
      BY <1>1, <3>1 DEF Looping
    <3>2. CASE q # p
      <4>1. lock'[q] = lock[q] /\ mpc[lock[q]] \in Looping /\ mp[lock[q]] = q
        BY <1>0, <1>1, <2>2, <3>2 DEF Holders
      <4> QED BY <1>1, <1>5, <2>2, <4>1
    <3> QED BY <3>1, <3>2
  <2>3. \A q \in Ps : lock'[q] \in Gs => q # p /\ lock'[q] = lock[q]
    BY <1>1, TimerConstants
  <2>4. \A n \in Ps : mpc'[n] \in Looping => mp'[n] \in Ps /\ lock'[mp'[n]] = n
    BY <1>1, <2>1
  <2>5. \A n \in Ps : mpc'[n] = "call" => mp'[n] \in Ps
    BY <1>0, <1>1 DEF Holders
  <2> QED BY <1>0, <1>3, <2>2, <2>3, <2>4, <2>5 DEF Holders
<1>9. Loops'
  <2>1. \A n \in Ps : todo'[n] # {} => mpc'[n] \in Looping /\ todo'[n] \subseteq heap[mp'[n]]
    BY <1>0, <1>1 DEF Loops, Looping
  <2>2. \A n \in Ps : moved[n] # {} => mpc'[n] = "locked"
    BY <1>0, <1>1 DEF Loops
  <2>3. \A n \in Ps : mpc'[n] # "clear" => cdel[n] = 0 /\ cearlier[n] = 0
    BY <1>0, <1>1, <1>5 DEF Loops
  <2> QED BY <1>0, <2>1, <2>2, <2>3 DEF Loops
<1>10. Tops'
  <2>1. \A n \in Ps : mpc[n] = "clear" => mpc'[n] = "clear" /\ mp'[n] = mp[n]
    BY <1>1, <1>5
  <2> QED BY <1>0, <2>1 DEF Tops, LeastIs
<1> QED BY <1>4, <1>7, <1>8, <1>9, <1>10 DEF TimerInv

LEMMA checkTimersInv ==
  ASSUME TimerInv, NEW m \in Ps, checkTimers(m)
  PROVE  TimerInv'
<1>0. /\ mpc[m] \in {"idle", "call"} /\ mpc' = Set(mpc, m, "locked") /\ rnow' = Set(rnow, m, now)
      /\ UNCHANGED <<now, status, when, nextwhen, tpp, fresh>>
      /\ UNCHANGED <<heap, timer0When, adjustTimers, deletedTimers>>
      /\ UNCHANGED <<gpc, gt, gp, old, gwhen>> /\ UNCHANGED <<moved, cdel, cearlier>>
  BY DEF checkTimers, MJump, tvars, gvars
<1>1. PICK p \in Ps : /\ lock[p] = None /\ lock' = Set(lock, p, m) /\ mp' = Set(mp, m, p)
                      /\ todo' = Set(todo, m, IF adjustTimers[p] = 0 THEN {} ELSE heap[p])
  BY DEF checkTimers
<1>2. (IF adjustTimers[p] = 0 THEN {} ELSE heap[p]) \subseteq heap[p]
  OBVIOUS
<1> QED BY <1>0, <1>1, <1>2, Locks

LEMMA RelockInv ==
  ASSUME TimerInv, NEW m \in Ps, Relock(m)
  PROVE  TimerInv'
<1>0. /\ TimerTypes /\ Loops /\ Holders
      /\ mpc[m] = "call" /\ lock[mp[m]] = None /\ lock' = Set(lock, mp[m], m)
      /\ mpc' = Set(mpc, m, "locked") /\ mp' = mp /\ todo' = todo /\ rnow' = rnow
      /\ UNCHANGED <<now, status, when, nextwhen, tpp, fresh>>
      /\ UNCHANGED <<heap, timer0When, adjustTimers, deletedTimers>>
      /\ UNCHANGED <<gpc, gt, gp, old, gwhen>> /\ UNCHANGED <<moved, cdel, cearlier>>
  BY DEF TimerInv, Relock, MJump, tvars, gvars
<1>1. PICK p \in Ps : p = mp[m]
  BY <1>0 DEF Holders
<1>2. todo[m] = {}
  BY <1>0 DEF Loops, Looping
<1>3. mp' = Set(mp, m, p) /\ todo' = Set(todo, m, {})
  BY <1>0, <1>1, <1>2 DEF TimerTypes, Set
<1> QED BY <1>0, <1>1, <1>3, Locks

\* M number m is done with the heap of p, whose counters take what it has counted.
LEMMA Unlocks ==
  ASSUME TimerInv, NEW m \in Ps, NEW p \in Ps, p = mp[m], mpc[m] \in Looping,
         todo[m] = {}, moved[m] = {},
         UNCHANGED <<now, status, when, nextwhen, tpp, fresh>>, UNCHANGED <<heap, todo, moved>>,
         UNCHANGED <<gpc, gt, gp, old, gwhen>>,
         lock' = Set(lock, p, None), mpc' = Set(mpc, m, "idle"), mp' = Set(mp, m, None),
         rnow' = Set(rnow, m, 0) \/ rnow' = rnow,
         cdel' = Set(cdel, m, 0), cearlier' = Set(cearlier, m, 0),
         deletedTimers' = Add(deletedTimers, p, -cdel[m]),
         adjustTimers' = Add(adjustTimers, p, -cearlier[m]),
         timer0When' \in [Ps -> Nat], \A q \in Ps \ {p} : timer0When'[q] = timer0When[q], LeastIs(p)'
  PROVE  TimerInv'
<1>0. TimerTypes /\ Holders /\ Loops /\ Tops
  BY DEF TimerInv
<1>1. /\ lock'[p] = None /\ (\A q \in Ps \ {p} : lock'[q] = lock[q])
      /\ mpc'[m] = "idle" /\ mp'[m] = None /\ cdel'[m] = 0 /\ cearlier'[m] = 0
      /\ \A n \in Ps \ {m} : mpc'[n] = mpc[n] /\ mp'[n] = mp[n] /\ cdel'[n] = cdel[n] /\ cearlier'[n] = cearlier[n]
  BY <1>0 DEF TimerTypes, Set
<1>2. /\ lock' \in [Ps -> Ps \cup Gs \cup {None}] /\ mpc' \in [Ps -> MPhases]
      /\ mp' \in [Ps -> Ps \cup {None}] /\ cdel' \in [Ps -> Nat] /\ cearlier' \in [Ps -> Nat]
  BY <1>0 DEF TimerTypes, Set, MPhases
<1>3. rnow' \in [Ps -> Nat] /\ (\A n \in Ps : rnow'[n] <= now)
  <2>1. rnow \in [Ps -> Nat] /\ (\A n \in Ps : rnow[n] <= now) /\ now \in Nat /\ 0 <= now
    BY <1>0 DEF TimerTypes, Holders
  <2>2. CASE rnow' = rnow
    BY <2>1, <2>2
  <2>3. CASE rnow' = [rnow EXCEPT ![m] = 0]
    BY <2>1, <2>3
  <2> QED BY <2>2, <2>3 DEF Set
<1>4. /\ adjustTimers' \in [Ps -> Int] /\ deletedTimers' \in [Ps -> Int]
      /\ adjustTimers'[p] - adjustTimers[p] = -cearlier[m]
      /\ deletedTimers'[p] - deletedTimers[p] = -cdel[m]
      /\ \A q \in Ps \ {p} : adjustTimers'[q] - adjustTimers[q] = 0 /\ deletedTimers'[q] - deletedTimers[q] = 0
  <2>1. /\ adjustTimers \in [Ps -> Int] /\ deletedTimers \in [Ps -> Int]
        /\ cearlier[m] \in Nat /\ cdel[m] \in Nat
    BY <1>0 DEF TimerTypes
  <2>2. adjustTimers' = [adjustTimers EXCEPT ![p] = adjustTimers[p] + (-cearlier[m])]
    BY DEF Add
  <2>3. deletedTimers' = [deletedTimers EXCEPT ![p] = deletedTimers[p] + (-cdel[m])]
    BY DEF Add
  <2>4. /\ adjustTimers' \in [Ps -> Int] /\ adjustTimers'[p] - adjustTimers[p] = -cearlier[m]
        /\ \A q \in Ps \ {p} : adjustTimers'[q] - adjustTimers[q] = 0
    BY <2>1, <2>2
  <2>5. /\ deletedTimers' \in [Ps -> Int] /\ deletedTimers'[p] - deletedTimers[p] = -cdel[m]
        /\ \A q \in Ps \ {p} : deletedTimers'[q] - deletedTimers[q] = 0
    BY <2>1, <2>3
  <2> QED BY <2>4, <2>5
<1>5. TimerTypes'
  BY <1>0, <1>2, <1>3, <1>4 DEF TimerTypes
<1>6. lock[p] = m /\ \A q \in Ps \ {p} : lock[q] # m
  BY <1>0 DEF Holders
<1>7. \A q \in Ps :
        /\ adjustTimers'[q] - adjustTimers[q] = Uncounted(q, cearlier)' - Uncounted(q, cearlier)
        /\ deletedTimers'[q] - deletedTimers[q] = Uncounted(q, cdel)' - Uncounted(q, cdel)
  <2> TAKE q \in Ps
  <2>1. CASE q = p
    <3>1. /\ Uncounted(q, cearlier) = cearlier[m] /\ Uncounted(q, cearlier)' = 0
          /\ Uncounted(q, cdel) = cdel[m] /\ Uncounted(q, cdel)' = 0
      BY <1>1, <1>6, <2>1, TimerConstants DEF Uncounted
    <3>2. cearlier[m] \in Nat /\ cdel[m] \in Nat
      BY <1>0 DEF TimerTypes
    <3> QED BY <1>4, <2>1, <3>1, <3>2
  <2>2. CASE q # p
    <3>1. Uncounted(q, cearlier)' = Uncounted(q, cearlier) /\ Uncounted(q, cdel)' = Uncounted(q, cdel)
      BY <1>1, <1>6, <2>2 DEF Uncounted
    <3> QED BY <1>0, <1>4, <2>2, <3>1, Sizes
  <2> QED BY <2>1, <2>2
<1>8. Where' /\ Modifiers' /\ Adders' /\ Olds' /\ Whens' /\ Counters'
  <2>1. \A q \in Ps : lock[q] \in Gs \/ lock'[q] \in Gs => lock'[q] = lock[q]
    BY <1>1, <1>6, TimerConstants
  <2> QED BY <1>5, <1>7, <2>1, LockMoves
<1>9. Holders'
  <2>1. \A n \in Ps : mpc'[n] \in Looping => n # m /\ mpc[n] \in Looping /\ mp[n] \in Ps \ {p} /\ lock[mp[n]] = n
    BY <1>0, <1>1, <1>6 DEF Holders, Looping
  <2>2. \A q \in Ps : lock'[q] \in Ps => q # p /\ lock[q] # m /\ lock'[q] = lock[q]
    BY <1>1, <1>6, TimerConstants
  <2>3. \A q \in Ps : lock'[q] \in Gs => q # p /\ lock'[q] = lock[q]
    BY <1>1, TimerConstants
  <2>4. \A q \in Ps : lock'[q] \in Ps => mp'[lock'[q]] = q /\ mpc'[lock'[q]] \in Looping
    BY <1>0, <1>1, <2>2 DEF Holders
  <2>5. \A n \in Ps : mpc'[n] \in Looping => mp'[n] \in Ps /\ lock'[mp'[n]] = n
    BY <1>1, <2>1
  <2>6. \A n \in Ps : mpc'[n] = "call" => mp'[n] \in Ps
    BY <1>0, <1>1 DEF Holders
  <2> QED BY <1>0, <1>3, <2>3, <2>4, <2>5, <2>6 DEF Holders
<1>10. Loops'
  <2>1. \A n \in Ps : todo[n] # {} => mpc'[n] \in Looping /\ todo[n] \subseteq heap[mp'[n]]
    BY <1>0, <1>1 DEF Loops
  <2>2. \A n \in Ps : moved[n] # {} => mpc'[n] = "locked"
    BY <1>0, <1>1 DEF Loops
  <2>3. \A n \in Ps : mpc'[n] # "clear" => cdel'[n] = 0 /\ cearlier'[n] = 0
    BY <1>0, <1>1 DEF Loops
  <2> QED BY <1>0, <2>1, <2>2, <2>3 DEF Loops
<1>11. Tops'
  <2>1. \A n \in Ps : mpc[n] = "clear" /\ mp[n] # p => mpc'[n] = "clear" /\ mp'[n] = mp[n]
    BY <1>1
  <2> QED BY <1>0, <2>1, TopsMove
<1> QED BY <1>5, <1>8, <1>9, <1>10, <1>11 DEF TimerInv

LEMMA EndClearInv ==
  ASSUME TimerInv, NEW m \in Ps, EndClear(m)
  PROVE  TimerInv'
<1>0. /\ TimerTypes /\ Loops /\ Holders /\ mpc[m] = "clear" /\ todo[m] = {}
      /\ UNCHANGED <<now, status, when, nextwhen, tpp, fresh>> /\ UNCHANGED <<heap, todo, moved>>
      /\ UNCHANGED <<gpc, gt, gp, old, gwhen>> /\ rnow' = rnow
      /\ deletedTimers' = Add(deletedTimers, mp[m], -cdel[m])
      /\ adjustTimers' = Add(adjustTimers, mp[m], -cearlier[m])
      /\ updateTimer0When(mp[m])
      /\ lock' = Set(lock, mp[m], None) /\ mpc' = Set(mpc, m, "idle") /\ mp' = Set(mp, m, None)
      /\ cdel' = Set(cdel, m, 0) /\ cearlier' = Set(cearlier, m, 0)
  BY DEF TimerInv, EndClear, MJump, tvars, gvars
<1>1. PICK p \in Ps : p = mp[m]
  BY <1>0 DEF Holders, Looping
<1>2. moved[m] = {} /\ mpc[m] \in Looping
  BY <1>0 DEF Loops, Looping
<1>3. timer0When \in [Ps -> Nat] /\ heap'[p] \subseteq Timers /\ when' \in [Timers -> Nat]
  BY <1>0 DEF TimerTypes
<1>4. /\ LeastIs(p)' /\ timer0When' \in [Ps -> Nat]
      /\ \A q \in Ps \ {p} : timer0When'[q] = timer0When[q]
  BY <1>0, <1>1, <1>3, TopUpdated
<1> QED BY <1>0, <1>1, <1>2, <1>4, Unlocks

LEMMA EndRunInv ==
  ASSUME TimerInv, NEW m \in Ps, EndRun(m)
  PROVE  TimerInv'
<1>0. /\ TimerTypes /\ Where /\ Modifiers /\ Adders /\ Olds /\ Holders /\ Loops /\ Whens /\ Tops
      /\ mpc[m] = "locked" /\ todo[m] = {} /\ moved[m] = {} /\ rnow' = Set(rnow, m, 0)
      /\ UNCHANGED <<now, status, when, nextwhen, tpp, fresh>>
      /\ UNCHANGED <<heap, timer0When, adjustTimers, deletedTimers>>
      /\ UNCHANGED <<gpc, gt, gp, old, gwhen>> /\ UNCHANGED <<moved, cdel, cearlier>>
  BY DEF TimerInv, EndRun, Running, tvars, gvars
<1>1. PICK p \in Ps : p = mp[m] /\ lock[p] = m
  BY <1>0 DEF Holders, Looping
<1>2. cdel[m] = 0 /\ cearlier[m] = 0 /\ mpc[m] \in Looping
  BY <1>0 DEF Loops, Looping
<1>3. CASE /\ mpc' = Set(mpc, m, "idle") /\ lock' = Set(lock, p, None)
           /\ mp' = Set(mp, m, None) /\ todo' = todo
  <2>1. cdel' = Set(cdel, m, 0) /\ cearlier' = Set(cearlier, m, 0)
    BY <1>0, <1>2 DEF TimerTypes, Set
  <2>2. deletedTimers' = Add(deletedTimers, p, -cdel[m]) /\ adjustTimers' = Add(adjustTimers, p, -cearlier[m])
    <3>1. /\ deletedTimers \in [Ps -> Int] /\ adjustTimers \in [Ps -> Int]
          /\ deletedTimers[p] + (-0) = deletedTimers[p] /\ adjustTimers[p] + (-0) = adjustTimers[p]
      BY <1>0 DEF TimerTypes
    <3> QED BY <1>0, <1>2, <3>1 DEF Add
  <2>3. LeastIs(p)' /\ timer0When' \in [Ps -> Nat] /\ \A q \in Ps \ {p} : timer0When'[q] = timer0When[q]
    <3>1. \A n \in Ps : mpc[n] = "clear" => mp[n] # p
      BY <1>0, <1>1 DEF Holders, Looping
    <3>2. LeastIs(p) /\ timer0When \in [Ps -> Nat]
      BY <1>0, <3>1 DEF Tops, TimerTypes
    <3> QED BY <1>0, <3>2 DEF LeastIs
  <2> QED BY <1>0, <1>1, <1>2, <1>3, <2>1, <2>2, <2>3, Unlocks
<1>4. CASE mpc' = Set(mpc, m, "clear") /\ todo' = Set(todo, m, heap[p]) /\ mp' = mp /\ lock' = lock
  <2>1. /\ mpc'[m] = "clear" /\ todo'[m] = heap[p]
        /\ (\A n \in Ps \ {m} : mpc'[n] = mpc[n] /\ todo'[n] = todo[n])
        /\ mpc' \in [Ps -> MPhases] /\ todo' \in [Ps -> SUBSET Timers]
    <3>1. mpc \in [Ps -> MPhases] /\ todo \in [Ps -> SUBSET Timers] /\ heap[p] \subseteq Timers
      BY <1>0 DEF TimerTypes
    <3> QED BY <1>4, <3>1 DEF Set, MPhases, Looping
  <2>2. rnow' \in [Ps -> Nat] /\ \A n \in Ps : rnow'[n] <= now
    <3>1. rnow \in [Ps -> Nat] /\ (\A n \in Ps : rnow[n] <= now) /\ now \in Nat /\ 0 <= now
      BY <1>0 DEF TimerTypes, Holders
    <3> QED BY <1>0, <3>1 DEF Set
  <2>3. TimerTypes'
    BY <1>0, <1>4, <2>1, <2>2 DEF TimerTypes
  <2>4. \A q \in Ps :
          /\ adjustTimers'[q] - adjustTimers[q] = Uncounted(q, cearlier)' - Uncounted(q, cearlier)
          /\ deletedTimers'[q] - deletedTimers[q] = Uncounted(q, cdel)' - Uncounted(q, cdel)
    <3> TAKE q \in Ps
    <3>1. Uncounted(q, cearlier)' = Uncounted(q, cearlier) /\ Uncounted(q, cdel)' = Uncounted(q, cdel)
      BY <1>0, <1>4 DEF Uncounted
    <3>2. adjustTimers'[q] - adjustTimers[q] = 0 /\ deletedTimers'[q] - deletedTimers[q] = 0
      BY <1>0 DEF TimerTypes
    <3> QED BY <1>0, <3>1, <3>2, Sizes
  <2>5. Where' /\ Modifiers' /\ Adders' /\ Olds' /\ Whens' /\ Counters'
    BY <1>0, <1>4, <2>3, <2>4, LockMoves
  <2>6. Holders'
    <3>1. \A n \in Ps : mpc'[n] \in Looping <=> mpc[n] \in Looping
      BY <1>2, <2>1 DEF Looping
    <3>2. \A n \in Ps : mpc'[n] = "call" => mpc[n] = "call"
      BY <2>1
    <3> QED BY <1>0, <1>4, <2>2, <3>1, <3>2 DEF Holders
  <2>7. Loops'
    <3>1. \A n \in Ps : todo'[n] # {} => mpc'[n] \in Looping /\ todo'[n] \subseteq heap[mp[n]]
      BY <1>0, <1>1, <2>1 DEF Loops, Looping
    <3>2. \A n \in Ps : moved[n] # {} => mpc'[n] = "locked"
      BY <1>0, <2>1 DEF Loops
    <3>3. \A n \in Ps : mpc'[n] # "clear" => cdel[n] = 0 /\ cearlier[n] = 0
      BY <1>0, <2>1 DEF Loops
    <3> QED BY <1>0, <1>4, <3>1, <3>2, <3>3 DEF Loops
  <2>8. Tops'
    <3>1. \A n \in Ps : mpc[n] = "clear" => mpc'[n] = "clear"
      BY <2>1
    <3> QED BY <1>0, <1>4, <3>1 DEF Tops, LeastIs
  <2> QED BY <2>3, <2>5, <2>6, <2>7, <2>8 DEF TimerInv
<1> QED BY <1>1, <1>3, <1>4 DEF EndRun, MJump

LEMMA TickInv ==
  ASSUME TimerInv, Tick
  PROVE  TimerInv'
<1>0. /\ TimerTypes /\ Holders /\ now' = now + 1 /\ now < MaxTime
      /\ UNCHANGED <<status, when, nextwhen, tpp, fresh>>
      /\ UNCHANGED <<lock, heap, timer0When, adjustTimers, deletedTimers>>
      /\ UNCHANGED <<gpc, gt, gp, old, gwhen>>
      /\ UNCHANGED <<mpc, mp, rnow, todo, moved, cdel, cearlier>>
  BY DEF TimerInv, Tick, tvars, hvars, gvars, mvars
<1>1. now' \in Nat /\ now' <= MaxTime /\ \A m \in Ps : rnow[m] <= now'
  <2>1. now \in Nat /\ (\A m \in Ps : rnow[m] \in Nat /\ rnow[m] <= now)
    BY <1>0 DEF TimerTypes, Holders
  <2> QED BY <1>0, <2>1, TimerConstants
<1>2. TimerTypes' /\ Where' /\ Modifiers' /\ Adders' /\ Olds'
  BY <1>0, <1>1 DEF TimerInv, TimerTypes, Where, Modifiers, Adders, Olds
<1>3. Holders' /\ Loops' /\ Whens' /\ Tops'
  BY <1>0, <1>1 DEF TimerInv, Holders, Loops, Whens, Tops, LeastIs
<1>4. \A p \in Ps : /\ Earlier(p)' = Earlier(p) /\ ToUncount(p)' = ToUncount(p) /\ Counted(p)' = Counted(p)
                    /\ Deads(p)' = Deads(p) /\ Undeleting(p)' = Undeleting(p) /\ ToCount(p)' = ToCount(p)
                    /\ Uncounted(p, cearlier)' = Uncounted(p, cearlier)
                    /\ Uncounted(p, cdel)' = Uncounted(p, cdel)
  BY <1>0 DEF Earlier, ToUncount, Counted, NewStatus, Deads, Undeleting, ToCount, Uncounted
<1>5. Counters'
  BY <1>0, <1>4 DEF TimerInv, Counters
<1> QED BY <1>2, <1>3, <1>5 DEF TimerInv

-----------------------------------------------------------------------------
(* The invariant *)

LEMMA TimerInit == Init => TimerInv
<1> SUFFICES ASSUME Init
             PROVE  TimerInv
  OBVIOUS
<1>1. TimerTypes
  BY TimerConstants DEF Init, TimerTypes, Statuses, GPhases, MPhases
<1>2. Where /\ Modifiers /\ Adders
  BY TimerConstants DEF Init, Where, Modifiers, Adders, Holding, Modified
<1>3. Olds /\ Holders /\ Loops
  BY TimerConstants DEF Init, Olds, Holders, Loops, Looping
<1>4. Whens /\ Tops
  BY DEF Init, Whens, Tops, LeastIs, Modified
<1>5. Counters
  <2> SUFFICES ASSUME NEW p \in Ps
               PROVE  /\ adjustTimers[p] = Cardinality(Earlier(p)) + Cardinality(ToUncount(p))
                                           + Cardinality(Counted(p)) + Uncounted(p, cearlier)
                      /\ deletedTimers[p] = Cardinality(Deads(p)) + Cardinality(Undeleting(p))
                                            - Cardinality(ToCount(p)) + Uncounted(p, cdel)
    BY DEF Counters
  <2>1. /\ Earlier(p) = {} /\ ToUncount(p) = {} /\ Counted(p) = {}
        /\ Deads(p) = {} /\ Undeleting(p) = {} /\ ToCount(p) = {}
    BY DEF Init, Earlier, ToUncount, Counted, Deads, Undeleting, ToCount
  <2>2. /\ Uncounted(p, cearlier) = 0 /\ Uncounted(p, cdel) = 0
        /\ adjustTimers[p] = 0 /\ deletedTimers[p] = 0
    BY TimerConstants DEF Init, Uncounted
  <2> QED BY <2>1, <2>2, FS_EmptySet
<1> QED BY <1>1, <1>2, <1>3, <1>4, <1>5 DEF TimerInv

LEMMA TimerNext == TimerInv /\ [Next]_vars => TimerInv'
<1> SUFFICES ASSUME TimerInv, [Next]_vars
             PROVE  TimerInv'
  OBVIOUS
<1>1. CASE UNCHANGED vars
  BY <1>1, Unmoved DEF vars, tvars, hvars, gvars, mvars
<1>2. CASE Tick
  BY <1>2, TickInv
<1>3. ASSUME NEW g \in Gs, GCall(g) PROVE TimerInv'
  BY <1>3, addtimerInv, deltimerInv, modtimerInv DEF GCall
<1>4. ASSUME NEW g \in Gs, GStep(g) PROVE TimerInv'
  BY <1>4, cleantimersInv, AddToHeapInv, UnadjustInv, DeleteInv, CountDeletedInv,
     ReaddInv, AddedInv, UndeleteInv, ModifyInv, PublishInv DEF GStep
<1>5. ASSUME NEW m \in Ps, checkTimers(m) \/ MStep(m) PROVE TimerInv'
  BY <1>5, checkTimersInv, adjusttimersInv, addAdjustedTimersInv, runtimerInv, runOneTimerInv,
     RelockInv, EndRunInv, clearDeletedTimersInv, EndClearInv DEF MStep
<1> QED BY <1>1, <1>2, <1>3, <1>4, <1>5 DEF Next

LEMMA TimerAlways == Spec => []TimerInv
BY TimerInit, TimerNext, PTL DEF Spec

-----------------------------------------------------------------------------
(* What follows from the invariant *)

\* One goroutine at most modifies a timer, and Modifying says which.
LEMMA Alone ==
  ASSUME TimerInv, NEW t \in Timers
  PROVE  Cardinality({g \in Gs : Modifying(g, t)}) = IF status[t] = "Modifying" THEN 1 ELSE 0
<1>0. Modifiers
  BY DEF TimerInv
<1>1. \A g \in Gs : Modifying(g, t) <=> gt[g] = t /\ gpc[g] \in Holding
  BY DEF Modifying, Holding
<1>2. CASE status[t] = "Modifying"
  <2>1. PICK g \in Gs : gpc[g] \in Holding /\ gt[g] = t
    BY <1>0, <1>2 DEF Modifiers
  <2>2. {h \in Gs : Modifying(h, t)} = {g}
    BY <1>0, <1>1, <2>1 DEF Modifiers
  <2> QED BY <1>2, <2>2, FS_Singleton
<1>3. CASE status[t] # "Modifying"
  <2>1. {h \in Gs : Modifying(h, t)} = {}
    BY <1>0, <1>1, <1>3 DEF Modifiers
  <2> QED BY <1>3, <2>1, FS_EmptySet
<1> QED BY <1>2, <1>3

\* Each conjunct of TimerStructure is in the invariant, or a count of what it says.
LEMMA InOrder == TimerInv => TimerStructure
<1> SUFFICES ASSUME TimerInv
             PROVE  TimerStructure
  OBVIOUS
<1>0. TimerTypes /\ Where /\ Modifiers /\ Adders /\ Holders /\ Tops /\ Counters
  BY DEF TimerInv
<1>1. TypeOK
  <2>1. \A p \in Ps : adjustTimers[p] \in Nat
    <3> TAKE p \in Ps
    <3>1. adjustTimers[p] = Cardinality(Earlier(p)) + Cardinality(ToUncount(p))
                            + Cardinality(Counted(p)) + Uncounted(p, cearlier)
      BY <1>0 DEF Counters
    <3> QED BY <1>0, <3>1, Sizes
  <2>2. adjustTimers \in [Ps -> Nat]
    BY <1>0, <2>1 DEF TimerTypes
  <2>3. now \in 0 .. MaxTime
    BY <1>0, TimerConstants DEF TimerTypes
  <2> QED BY <1>0, <2>2, <2>3 DEF TimerTypes, TypeOK, Statuses
<1>2. StatusesRight
  <2> SUFFICES ASSUME NEW t \in Timers
               PROVE  /\ \A p \in Ps : t \in heap[p] <=> tpp[t] = p
                      /\ Cardinality({g \in Gs : Modifying(g, t)}) = IF status[t] = "Modifying" THEN 1 ELSE 0
                      /\ status[t] \in {"Deleted"} \cup Modified => tpp[t] # None
                      /\ status[t] \in {"NoStatus", "Removed"} => tpp[t] = None
                      /\ status[t] = "Waiting" /\ tpp[t] = None =>
                           \E g \in Gs : gpc[g] = "clean" /\ gt[g] = t
                      /\ status[t] = "Moving" <=> \E m \in Ps : t \in moved[m]
                      /\ status[t] = "Moving" => tpp[t] = None
                      /\ \A g \in Gs : Modifying(g, t) =>
                           tpp[t] = IF gpc[g] = "readd" THEN None ELSE gp[g]
    BY DEF StatusesRight
  <2>1. Cardinality({g \in Gs : Modifying(g, t)}) = IF status[t] = "Modifying" THEN 1 ELSE 0
    BY Alone
  <2>2. \A g \in Gs : Modifying(g, t) => tpp[t] = IF gpc[g] = "readd" THEN None ELSE gp[g]
    BY <1>0 DEF Modifiers, Modifying, Holding
  <2> QED BY <1>0, <2>1, <2>2 DEF Where
<1>3. CountersRight
  <2> SUFFICES ASSUME NEW p \in Ps
               PROVE  /\ adjustTimers[p] = Count(Earlier(p)) + Count(ToUncount(p)) + Count(Counted(p))
                                           + Uncounted(p, cearlier)
                      /\ deletedTimers[p] = Count(Deads(p)) + Count(Undeleting(p)) - Count(ToCount(p))
                                            + Uncounted(p, cdel)
                      /\ lock[p] = None =>
                           IF heap[p] = {} THEN timer0When[p] = 0
                           ELSE \E t \in Top(p) : timer0When[p] = when[t]
    BY DEF CountersRight, Earlier, ToUncount, Counted, Deads, Undeleting, ToCount
  <2>1. lock[p] = None => LeastIs(p)
    BY <1>0, TimerConstants DEF Tops, Holders, Looping
  <2>2. LeastIs(p) => IF heap[p] = {} THEN timer0When[p] = 0
                      ELSE \E t \in Top(p) : timer0When[p] = when[t]
    BY DEF LeastIs, Top
  <2> QED BY <1>0, <2>1, <2>2 DEF Counters, Count
<1> QED BY <1>1, <1>2, <1>3 DEF TimerStructure

\* A timer whose time is not that of its place in the heap is one that adjustTimers counts.
LEMMA Looked == TimerInv => NothingOverlooked
<1> SUFFICES ASSUME TimerInv, NEW p \in Ps, lock[p] = None, adjustTimers[p] = 0,
                    timer0When[p] = 0 \/ now < timer0When[p],
                    NEW t \in heap[p], status[t] # "Modifying"
             PROVE  Armed(t) = None \/ Armed(t) > now
  BY DEF NothingOverlooked
<1>0. TimerTypes /\ Where /\ Holders /\ Whens /\ Tops /\ Counters
  BY DEF TimerInv
<1>1. t \in Timers /\ tpp[t] = p /\ tpp[t] # None /\ when[t] > 0
  BY <1>0, TimerConstants DEF TimerTypes, Where, Whens
<1>2. now < when[t]
  <2>1. LeastIs(p)
    BY <1>0, TimerConstants DEF Tops, Holders, Looping
  <2>2. PICK u \in heap[p] : when[u] = timer0When[p]
    BY <2>1 DEF LeastIs
  <2>3. u \in Timers /\ when[u] > 0
    BY <1>0, TimerConstants DEF TimerTypes, Where, Whens
  <2>4. timer0When[p] <= when[t] /\ timer0When[p] \in Nat /\ when[t] \in Nat /\ now \in Nat
    BY <1>0, <1>1, <2>1 DEF LeastIs, TimerTypes
  <2> QED BY <2>2, <2>3, <2>4
<1>3. status[t] # "ModifiedEarlier"
  <2>1. adjustTimers[p] = Cardinality(Earlier(p)) + Cardinality(ToUncount(p))
                          + Cardinality(Counted(p)) + Uncounted(p, cearlier)
    BY <1>0 DEF Counters
  <2>2. Cardinality(Earlier(p)) = 0
    BY <1>0, <2>1, Sizes
  <2>3. Earlier(p) = {}
    BY <1>0, <2>2, Sizes, FS_EmptySet
  <2> QED BY <2>3 DEF Earlier
<1>4. status[t] \in {"Waiting", "Deleted", "ModifiedLater"}
  BY <1>0, <1>1, <1>3 DEF TimerTypes, Statuses, Where, Modified
<1>5. CASE status[t] = "Waiting"
  BY <1>0, <1>1, <1>2, <1>5 DEF Armed, Modified, TimerTypes
<1>6. CASE status[t] = "Deleted"
  BY <1>6 DEF Armed, Modified
<1>7. CASE status[t] = "ModifiedLater"
  <2>1. Armed(t) = nextwhen[t]
    BY <1>7 DEF Armed, Modified
  <2>2. nextwhen[t] >= when[t] /\ nextwhen[t] \in Nat /\ when[t] \in Nat /\ now \in Nat
    BY <1>0, <1>1, <1>7 DEF Whens, TimerTypes
  <2> QED BY <1>2, <2>1, <2>2
<1> QED BY <1>4, <1>5, <1>6, <1>7

(***************************************************************************)
(* The status words say where each timer is and who may change it, and     *)
(* adjustTimers, deletedTimers and timer0When are right, whoever adds,     *)
(* modifies and deletes timers while the Ps run them (time.go:43-195,      *)
(* 237-1010): badTimer and the throws of doaddtimer and dodeltimer are not *)
(* reached.                                                                *)
(***************************************************************************)
THEOREM TimersInOrder == Spec => []TimerStructure
BY TimerAlways, InOrder, PTL

(***************************************************************************)
(* No timer that is due waits in a heap that timer0When and adjustTimers   *)
(* give nobody a reason to look at (checkTimers, and adjusttimers and      *)
(* cleantimers of time.go:521-702, which count adjustTimers down).         *)
(***************************************************************************)
THEOREM NoTimerOverlooked == Spec => []NothingOverlooked
BY TimerAlways, Looked, PTL

-----------------------------------------------------------------------------
(* The timers of module TimerSet *)

\* When a timer with status s is to run next
ArmedAs(s, t) ==
  IF s \in Modified THEN nextwhen[t]
  ELSE IF s = "Moving" \/ (s = "Waiting" /\ tpp[t] # None) THEN when[t]
  ELSE None

LEMMA ArmedByStatus ==
  ASSUME NEW t \in Timers, status[t] # "Modifying"
  PROVE  Armed(t) = ArmedAs(status[t], t)
BY DEF Armed, ArmedAs

LEMMA ArmedByOld ==
  ASSUME Modifiers, NEW g \in Gs, gpc[g] \in Holding
  PROVE  Armed(gt[g]) = ArmedAs(old[g], gt[g])
<1>1. \A h \in Gs : Modifying(h, gt[g]) <=> h = g
  BY DEF Modifiers, Modifying, Holding
<1>2. g = CHOOSE h \in Gs : Modifying(h, gt[g])
  BY <1>1
<1>3. status[gt[g]] = "Modifying"
  BY DEF Modifiers
<1> QED BY <1>2, <1>3 DEF Armed, ArmedAs

LEMMA ArmedByOldNext ==
  ASSUME Modifiers', NEW g \in Gs, gpc'[g] \in Holding
  PROVE  Armed(gt[g])' = ArmedAs(old[g], gt[g])'
<1>1. \A h \in Gs : Modifying(h, gt[g])' <=> h = g
  BY DEF Modifiers, Modifying, Holding
<1>2. g = CHOOSE h \in Gs : Modifying(h, gt[g])'
  BY <1>1
<1>3. status'[gt'[g]] = "Modifying"
  BY DEF Modifiers
<1> QED BY <1>2, <1>3 DEF Armed, ArmedAs

\* A timer that the step is not about
LEMMA ArmedStays ==
  ASSUME TimerInv, TimerInv', NEW t \in Timers,
         status'[t] = status[t] /\ when'[t] = when[t] /\ nextwhen'[t] = nextwhen[t] /\ tpp'[t] = tpp[t],
         \A g \in Gs : gpc[g] \in Holding /\ gt[g] = t => gpc'[g] \in Holding /\ gt'[g] = t /\ old'[g] = old[g]
  PROVE  Armed(t)' = Armed(t)
<1>0. Modifiers /\ Modifiers'
  BY DEF TimerInv
<1>1. \A s : ArmedAs(s, t)' = ArmedAs(s, t)
  BY DEF ArmedAs
<1>2. CASE status[t] = "Modifying"
  <2>1. PICK g \in Gs : gpc[g] \in Holding /\ gt[g] = t
    BY <1>0, <1>2 DEF Modifiers
  <2>2. Armed(t) = ArmedAs(old[g], t)
    BY <1>0, <2>1, ArmedByOld
  <2>3. gpc'[g] \in Holding /\ gt'[g] = t /\ old'[g] = old[g]
    BY <2>1
  <2>4. Armed(gt[g])' = ArmedAs(old[g], gt[g])'
    BY <1>0, <2>3, ArmedByOldNext
  <2>5. Armed(t)' = ArmedAs(old[g], t)'
    BY <2>3, <2>4 DEF Armed, ArmedAs, Modifying
  <2> QED BY <2>2, <2>3, <2>5 DEF ArmedAs
<1>3. CASE status[t] # "Modifying"
  BY <1>3 DEF Armed
<1> QED BY <1>2, <1>3

\* A call has the timer that it sets at the time that it is told.
AddedInTime == \A g \in Gs : gpc[g] = "added" => when[gt[g]] = gwhen[g]

\* The kinds of step
LEMMA WorkStep ==
  ASSUME event' = None, now' = now, \A t \in Timers : Armed(t)' = Armed(t)
  PROVE  TS!SetNext
BY DEF TS!SetNext, TS!Work

LEMMA ArmedMoves ==
  ASSUME NEW t \in Timers, NEW w, Armed(t)' = w, \A u \in Timers \ {t} : Armed(u)' = Armed(u)
  PROVE  [u \in Timers |-> Armed(u)]' = [[u \in Timers |-> Armed(u)] EXCEPT ![t] = w]
OBVIOUS

LEMMA ArmStep ==
  ASSUME NEW t \in Timers, NEW w \in Times, now' = now,
         event' = [act |-> "arm", t |-> t, when |-> w], Armed(t)' = w,
         \A u \in Timers \ {t} : Armed(u)' = Armed(u)
  PROVE  TS!SetNext
<1>1. [u \in Timers |-> Armed(u)]' = [[u \in Timers |-> Armed(u)] EXCEPT ![t] = w]
  BY ArmedMoves
<1>2. TS!Arm(t)
  BY <1>1 DEF TS!Arm
<1> QED BY <1>2 DEF TS!SetNext

LEMMA StopStep ==
  ASSUME NEW t \in Timers, NEW g \in Gs, now' = now, NEW was \in BOOLEAN,
         event' = [act |-> "stop", g |-> g, t |-> t, was |-> was], was <=> Armed(t) # None,
         Armed(t)' = None, \A u \in Timers \ {t} : Armed(u)' = Armed(u)
  PROVE  TS!SetNext
<1>1. [u \in Timers |-> Armed(u)]' = [[u \in Timers |-> Armed(u)] EXCEPT ![t] = None]
  BY ArmedMoves
<1>2. was = ([u \in Timers |-> Armed(u)][t] # None)
  OBVIOUS
<1>3. TS!Stop(g, t)
  BY <1>1, <1>2 DEF TS!Stop
<1> QED BY <1>3 DEF TS!SetNext

LEMMA RunStep ==
  ASSUME NEW t \in Timers, now' = now, event' = [act |-> "run", t |-> t],
         Armed(t) # None, Armed(t) <= now,
         \/ period[t] = 0 /\ Armed(t)' = None
         \/ period[t] # 0 /\ \E k \in 1 .. now - Armed(t) + 1 : Armed(t)' = Armed(t) + k * period[t],
         \A u \in Timers \ {t} : Armed(u)' = Armed(u)
  PROVE  TS!SetNext
<1>1. [u \in Timers |-> Armed(u)][t] = Armed(t)
  OBVIOUS
<1>2. CASE period[t] = 0 /\ Armed(t)' = None
  <2>1. [u \in Timers |-> Armed(u)]' = [[u \in Timers |-> Armed(u)] EXCEPT ![t] = None]
    BY <1>2, ArmedMoves
  <2>2. TS!Run(t)
    BY <1>1, <1>2, <2>1 DEF TS!Run
  <2> QED BY <2>2 DEF TS!SetNext
<1>3. CASE period[t] # 0 /\ \E k \in 1 .. now - Armed(t) + 1 : Armed(t)' = Armed(t) + k * period[t]
  <2>1. PICK k \in 1 .. now - Armed(t) + 1 : Armed(t)' = Armed(t) + k * period[t]
    BY <1>3
  <2>2. [u \in Timers |-> Armed(u)]' =
          [[u \in Timers |-> Armed(u)] EXCEPT ![t] = @ + k * period[t]]
    BY <1>1, <2>1, ArmedMoves
  <2>3. TS!Run(t)
    BY <1>1, <1>3, <2>1, <2>2 DEF TS!Run
  <2> QED BY <2>3 DEF TS!SetNext
<1> QED BY <1>2, <1>3

\* What a step about timer t leaves as it is
LEMMA OthersStay ==
  ASSUME TimerInv, TimerInv', AddedInTime, NEW t \in Timers,
         \A u \in Timers \ {t} :
           status'[u] = status[u] /\ when'[u] = when[u] /\ nextwhen'[u] = nextwhen[u] /\ tpp'[u] = tpp[u],
         \A h \in Gs : gpc[h] \in Holding /\ gt[h] # t =>
           gpc'[h] = gpc[h] /\ gt'[h] = gt[h] /\ old'[h] = old[h] /\ gwhen'[h] = gwhen[h],
         \A h \in Gs : gpc'[h] = "added" =>
           \/ gpc[h] = "added" /\ gt[h] # t
           \/ gt'[h] = t /\ when'[t] = gwhen'[h]
  PROVE  (\A u \in Timers \ {t} : Armed(u)' = Armed(u)) /\ AddedInTime'
<1>1. ASSUME NEW u \in Timers \ {t} PROVE Armed(u)' = Armed(u)
  <2>1. \A h \in Gs : gpc[h] \in Holding /\ gt[h] = u => gpc'[h] \in Holding /\ gt'[h] = u /\ old'[h] = old[h]
    OBVIOUS
  <2> QED BY <2>1, ArmedStays
<1>2. ASSUME NEW h \in Gs, gpc'[h] = "added" PROVE when'[gt'[h]] = gwhen'[h]
  <2>1. CASE gpc[h] = "added" /\ gt[h] # t
    <3>1. gt[h] \in Timers \ {t} /\ gpc[h] \in Holding
      BY <2>1, Held DEF Holding
    <3> QED BY <2>1, <3>1 DEF AddedInTime
  <2>2. CASE gt'[h] = t /\ when'[t] = gwhen'[h]
    BY <2>2
  <2> QED BY <1>2, <2>1, <2>2
<1> QED BY <1>1, <1>2 DEF AddedInTime

\* and one about none
LEMMA AllStay ==
  ASSUME TimerInv, TimerInv', AddedInTime, UNCHANGED <<status, when, nextwhen, tpp>>,
         \A h \in Gs : gpc[h] \in Holding => gpc'[h] \in Holding /\ gt'[h] = gt[h] /\ old'[h] = old[h],
         \A h \in Gs : gpc'[h] = "added" => gpc[h] = "added" /\ gt'[h] = gt[h] /\ gwhen'[h] = gwhen[h]
  PROVE  (\A u \in Timers : Armed(u)' = Armed(u)) /\ AddedInTime'
<1>1. ASSUME NEW u \in Timers PROVE Armed(u)' = Armed(u)
  BY ArmedStays
<1>2. AddedInTime'
  BY DEF AddedInTime
<1> QED BY <1>1, <1>2

\* Under a heap's lock: timer t is armed as before, whatever its status is now.
LEMMA HeapStays ==
  ASSUME TimerInv, TimerInv', AddedInTime, NEW t \in Timers, status[t] # "Modifying", status'[t] # "Modifying",
         UNCHANGED <<now, nextwhen, gpc, gt, gp, old, gwhen>>,
         \A u \in Timers \ {t} : status'[u] = status[u] /\ when'[u] = when[u] /\ tpp'[u] = tpp[u]
  PROVE  (\A u \in Timers \ {t} : Armed(u)' = Armed(u)) /\ AddedInTime'
<1>1. \A h \in Gs : gpc[h] \in Holding => gt[h] # t
  BY Held
<1>2. \A h \in Gs : gpc[h] = "added" => gt[h] # t
  BY <1>1 DEF Holding
<1> QED BY <1>1, <1>2, OthersStay

LEMMA HeapWork ==
  ASSUME TimerInv, TimerInv', AddedInTime, NEW p \in Ps, NEW t \in heap[p], event' = None,
         UNCHANGED <<now, nextwhen, gpc, gt, gp, old, gwhen>>,
         \/ RemoveDeleted(p, t)
         \/ MoveModified(p, t)
         \/ /\ status[t] \in Modified /\ when' = Set(when, t, nextwhen[t])
            /\ dodeltimer(p, t, "Moving")
  PROVE  TS!SetNext /\ AddedInTime'
<1>0. TimerTypes /\ Where
  BY DEF TimerInv
<1>1. t \in Timers /\ tpp[t] # None
  BY <1>0, TimerConstants DEF TimerTypes, Where
<1>2. /\ \A u \in Timers \ {t} : status'[u] = status[u] /\ when'[u] = when[u] /\ tpp'[u] = tpp[u]
      /\ \/ status[t] = "Deleted" /\ status'[t] = "Removed"
         \/ status[t] \in Modified /\ status'[t] = "Waiting" /\ tpp'[t] # None /\ when'[t] = nextwhen[t]
         \/ status[t] \in Modified /\ status'[t] = "Moving" /\ when'[t] = nextwhen[t]
  <2>1. CASE RemoveDeleted(p, t)
    BY <1>0, <1>1, <2>1 DEF RemoveDeleted, dodeltimer, TimerTypes, Set
  <2>2. CASE MoveModified(p, t)
    BY <1>0, <1>1, <2>2 DEF MoveModified, TimerTypes, Set
  <2>3. CASE /\ status[t] \in Modified /\ when' = Set(when, t, nextwhen[t])
             /\ dodeltimer(p, t, "Moving")
    BY <1>0, <1>1, <2>3 DEF dodeltimer, TimerTypes, Set
  <2> QED BY <2>1, <2>2, <2>3
<1>3. status[t] # "Modifying" /\ status'[t] # "Modifying"
  BY <1>2 DEF Modified
<1>4. Armed(t)' = Armed(t)
  BY <1>2 DEF Armed, Modified
<1>5. (\A u \in Timers \ {t} : Armed(u)' = Armed(u)) /\ AddedInTime'
  BY <1>1, <1>2, <1>3, HeapStays
<1> QED BY <1>4, <1>5, WorkStep

\* The steps of M number m and the clock
LEMMA ControlRefines ==
  ASSUME TimerInv, TimerInv', AddedInTime, NEW m \in Ps,
         checkTimers(m) \/ Relock(m) \/ EndRun(m) \/ EndClear(m)
  PROVE  TS!SetNext /\ AddedInTime'
<1>1. /\ event' = None /\ UNCHANGED <<now, status, when, nextwhen, tpp>>
      /\ UNCHANGED <<gpc, gt, gp, old, gwhen>>
  BY DEF checkTimers, Relock, EndRun, EndClear, tvars, gvars
<1>2. (\A t \in Timers : Armed(t)' = Armed(t)) /\ AddedInTime'
  BY <1>1, AllStay
<1> QED BY <1>1, <1>2, WorkStep

LEMMA TickRefines ==
  ASSUME TimerInv, TimerInv', AddedInTime, Tick
  PROVE  TS!SetNext /\ AddedInTime'
<1>1. /\ event' = None /\ now' = now + 1 /\ UNCHANGED <<status, when, nextwhen, tpp>>
      /\ UNCHANGED <<gpc, gt, gp, old, gwhen>>
  BY DEF Tick, tvars, gvars
<1>2. (\A t \in Timers : Armed(t)' = Armed(t)) /\ AddedInTime'
  BY <1>1, AllStay
<1> QED BY <1>1, <1>2 DEF TS!SetNext, TS!Tick

LEMMA CleanRefines ==
  ASSUME TimerInv, TimerInv', AddedInTime,
         (\E g \in Gs : cleantimers(g)) \/ (\E m \in Ps : runtimer(m))
  PROVE  TS!SetNext /\ AddedInTime'
<1>1. /\ event' = None /\ UNCHANGED <<now, nextwhen, gpc, gt, gp, old, gwhen>>
      /\ \E p \in Ps : \E t \in heap[p] : RemoveDeleted(p, t) \/ MoveModified(p, t)
  <2>1. CASE \E g \in Gs : cleantimers(g)
    <3>1. PICK g \in Gs : cleantimers(g)
      BY <2>1
    <3>2. gp[g] \in Ps
      BY <3>1 DEF cleantimers, TimerInv, Adders
    <3> QED BY <3>1, <3>2 DEF cleantimers, Top, gvars
  <2>2. CASE \E m \in Ps : runtimer(m)
    <3>1. PICK m \in Ps : runtimer(m)
      BY <2>2
    <3>2. mp[m] \in Ps
      BY <3>1 DEF runtimer, Running, TimerInv, Holders, Looping
    <3> QED BY <3>1, <3>2 DEF runtimer, Top, gvars
  <2> QED BY <2>1, <2>2
<1> QED BY <1>1, HeapWork

LEMMA adjusttimersRefines ==
  ASSUME TimerInv, TimerInv', AddedInTime, NEW m \in Ps, adjusttimers(m)
  PROVE  TS!SetNext /\ AddedInTime'
<1>0. /\ TimerTypes /\ Holders /\ Loops /\ mpc[m] = "locked" /\ event' = None
      /\ UNCHANGED <<now, nextwhen, gpc, gt, gp, old, gwhen>>
  BY DEF TimerInv, adjusttimers, gvars
<1>1. PICK p \in Ps : p = mp[m]
  BY <1>0 DEF Holders, Looping
<1>2. todo[m] \subseteq heap[p]
  BY <1>0, <1>1 DEF Loops
<1>3. PICK t \in heap[p] :
        \/ RemoveDeleted(p, t)
        \/ /\ status[t] \in Modified /\ when' = Set(when, t, nextwhen[t])
           /\ dodeltimer(p, t, "Moving")
        \/ UNCHANGED <<status, when, tpp>>
  BY <1>1, <1>2 DEF adjusttimers
<1>4. CASE UNCHANGED <<status, when, tpp>>
  <2>1. (\A u \in Timers : Armed(u)' = Armed(u)) /\ AddedInTime'
    BY <1>0, <1>4, AllStay
  <2> QED BY <1>0, <2>1, WorkStep
<1> QED BY <1>0, <1>3, <1>4, HeapWork

LEMMA addAdjustedTimersRefines ==
  ASSUME TimerInv, TimerInv', AddedInTime, NEW m \in Ps, addAdjustedTimers(m)
  PROVE  TS!SetNext /\ AddedInTime'
<1>0. /\ TimerTypes /\ Where /\ Holders /\ mpc[m] = "locked" /\ event' = None
      /\ UNCHANGED <<now, when, nextwhen, gpc, gt, gp, old, gwhen>>
  BY DEF TimerInv, addAdjustedTimers, gvars
<1>1. PICK p \in Ps : p = mp[m]
  BY <1>0 DEF Holders, Looping
<1>2. PICK t \in moved[m] : doaddtimer(p, t, when[t]) /\ status' = Set(status, t, "Waiting")
  BY <1>1 DEF addAdjustedTimers
<1>3. t \in Timers /\ status[t] = "Moving"
  BY <1>0, <1>2 DEF TimerTypes, Where
<1>4. /\ status'[t] = "Waiting" /\ tpp'[t] = p /\ p # None
      /\ \A u \in Timers \ {t} : status'[u] = status[u] /\ tpp'[u] = tpp[u]
  BY <1>0, <1>2, <1>3, TimerConstants DEF TimerTypes, doaddtimer, Set
<1>5. Armed(t)' = Armed(t)
  BY <1>0, <1>3, <1>4 DEF Armed, Modified
<1>6. (\A u \in Timers \ {t} : Armed(u)' = Armed(u)) /\ AddedInTime'
  BY <1>0, <1>3, <1>4, HeapStays
<1> QED BY <1>0, <1>5, <1>6, WorkStep

LEMMA clearDeletedTimersRefines ==
  ASSUME TimerInv, TimerInv', AddedInTime, NEW m \in Ps, clearDeletedTimers(m)
  PROVE  TS!SetNext /\ AddedInTime'
<1>0. /\ TimerTypes /\ Where /\ Holders /\ Loops /\ mpc[m] = "clear" /\ event' = None
      /\ UNCHANGED <<now, nextwhen, gpc, gt, gp, old, gwhen>>
  BY DEF TimerInv, clearDeletedTimers, gvars
<1>1. PICK p \in Ps : p = mp[m]
  BY <1>0 DEF Holders, Looping
<1>2. todo[m] \subseteq heap[p]
  BY <1>0, <1>1 DEF Loops
<1>3. PICK t \in heap[p] :
        \/ UNCHANGED <<status, when, tpp>>
        \/ /\ status[t] \in Modified
           /\ when' = Set(when, t, nextwhen[t])
           /\ status' = Set(status, t, "Waiting")
           /\ UNCHANGED tpp
        \/ /\ status[t] = "Deleted"
           /\ dodeltimer(p, t, "Removed")
           /\ UNCHANGED when
  BY <1>1, <1>2 DEF clearDeletedTimers
<1>4. t \in Timers /\ tpp[t] # None
  BY <1>0, TimerConstants DEF TimerTypes, Where
<1>5. CASE UNCHANGED <<status, when, tpp>>
  <2>1. (\A u \in Timers : Armed(u)' = Armed(u)) /\ AddedInTime'
    BY <1>0, <1>5, AllStay
  <2> QED BY <1>0, <2>1, WorkStep
<1>6. CASE \/ /\ status[t] \in Modified
              /\ when' = Set(when, t, nextwhen[t])
              /\ status' = Set(status, t, "Waiting")
              /\ UNCHANGED tpp
           \/ /\ status[t] = "Deleted"
              /\ dodeltimer(p, t, "Removed")
              /\ UNCHANGED when
  <2>1. /\ \A u \in Timers \ {t} : status'[u] = status[u] /\ when'[u] = when[u] /\ tpp'[u] = tpp[u]
        /\ \/ status[t] = "Deleted" /\ status'[t] = "Removed"
           \/ status[t] \in Modified /\ status'[t] = "Waiting" /\ tpp'[t] # None /\ when'[t] = nextwhen[t]
    BY <1>0, <1>4, <1>6 DEF dodeltimer, TimerTypes, Set
  <2>2. status[t] # "Modifying" /\ status'[t] # "Modifying"
    BY <2>1 DEF Modified
  <2>3. Armed(t)' = Armed(t)
    BY <1>0, <2>1 DEF Armed, Modified
  <2>4. (\A u \in Timers \ {t} : Armed(u)' = Armed(u)) /\ AddedInTime'
    BY <1>0, <1>4, <2>1, <2>2, HeapStays
  <2> QED BY <1>0, <2>3, <2>4, WorkStep
<1> QED BY <1>3, <1>5, <1>6

\* The next time of a periodic timer
LEMMA NextPeriod ==
  ASSUME NEW w \in Nat, NEW r \in Nat, NEW n \in Nat, w <= r, r <= n, NEW d \in Nat, d > 0
  PROVE  \E k \in 1 .. n - w + 1 : w + d * (1 + (r - w) \div d) = w + k * d
<1>1. PICK q \in Nat : q = (r - w) \div d
  BY Periods
<1>2. q <= r - w
  <2>1. d * q <= r - w
    BY <1>1
  <2>2. q <= d * q
    <3>1. (d - 1) * q \in Nat
      <4>1. d - 1 \in Nat
        OBVIOUS
      <4> QED BY <4>1
    <3>2. d * q = (d - 1) * q + q
      OBVIOUS
    <3>3. \A x \in Nat : q <= x + q
      OBVIOUS
    <3> QED BY <3>1, <3>2, <3>3
  <2>3. d * q \in Nat
    OBVIOUS
  <2> QED BY <2>1, <2>2, <2>3
<1>3. 1 + q \in 1 .. n - w + 1
  BY <1>2
<1>4. d * (1 + q) = (1 + q) * d
  OBVIOUS
<1> QED BY <1>1, <1>3, <1>4

LEMMA runOneTimerRefines ==
  ASSUME TimerInv, TimerInv', AddedInTime, NEW m \in Ps, runOneTimer(m)
  PROVE  TS!SetNext /\ AddedInTime'
<1>0. /\ TimerTypes /\ Where /\ Holders /\ mpc[m] = "locked"
      /\ UNCHANGED <<now, nextwhen, gpc, gt, gp, old, gwhen>>
  BY DEF TimerInv, runOneTimer, Running, gvars
<1>1. PICK p \in Ps : p = mp[m]
  BY <1>0 DEF Holders, Looping
<1>2. PICK t \in heap[p] :
        /\ status[t] = "Waiting" /\ when[t] <= rnow[m]
        /\ event' = [act |-> "run", t |-> t]
        /\ \/ /\ period[t] > 0
              /\ when' = Add(when, t, period[t] * (1 + (rnow[m] - when[t]) \div period[t]))
              /\ UNCHANGED <<status, tpp>>
           \/ /\ period[t] = 0
              /\ dodeltimer(p, t, "NoStatus")
              /\ UNCHANGED when
  BY <1>1 DEF runOneTimer, Top
<1>3. /\ t \in Timers /\ tpp[t] # None /\ when[t] \in Nat /\ rnow[m] \in Nat /\ now \in Nat
      /\ rnow[m] <= now /\ period[t] \in Nat /\ when[t] <= now
  <2>1. t \in Timers /\ tpp[t] = p /\ rnow[m] <= now
    BY <1>0, <1>1, <1>2 DEF TimerTypes, Where, Holders
  <2>2. when[t] \in Nat /\ rnow[m] \in Nat /\ now \in Nat
    BY <1>0, <2>1 DEF TimerTypes
  <2> QED BY <1>2, <2>1, <2>2, TimerConstants
<1>4. Armed(t) = when[t] /\ Armed(t) # None
  BY <1>2, <1>3, TimerConstants DEF Armed, Modified
<1>5. /\ status'[t] # "Modifying"
      /\ \A u \in Timers \ {t} : status'[u] = status[u] /\ when'[u] = when[u] /\ tpp'[u] = tpp[u]
      /\ \/ period[t] = 0 /\ Armed(t)' = None
         \/ period[t] # 0 /\ \E k \in 1 .. now - Armed(t) + 1 : Armed(t)' = Armed(t) + k * period[t]
  <2>1. CASE /\ period[t] > 0
             /\ when' = Add(when, t, period[t] * (1 + (rnow[m] - when[t]) \div period[t]))
             /\ UNCHANGED <<status, tpp>>
    <3>1. PICK v : v = when[t] + period[t] * (1 + (rnow[m] - when[t]) \div period[t])
      OBVIOUS
    <3>2. when' = [when EXCEPT ![t] = v]
      BY <2>1, <3>1 DEF Add
    <3>3. when'[t] = v /\ \A u \in Timers \ {t} : when'[u] = when[u]
      BY <1>0, <1>3, <3>2 DEF TimerTypes
    <3>4. \E k \in 1 .. now - when[t] + 1 : v = when[t] + k * period[t]
      <4>1. when[t] <= rnow[m] /\ period[t] > 0
        BY <1>2, <2>1
      <4>2. PICK w \in Nat, r \in Nat, n \in Nat, d \in Nat :
              w = when[t] /\ r = rnow[m] /\ n = now /\ d = period[t]
        BY <1>3
      <4>3. w <= r /\ r <= n /\ d > 0
        BY <1>3, <4>1, <4>2
      <4>4. v = w + d * (1 + (r - w) \div d)
        BY <3>1, <4>2
      <4>5. \E k \in 1 .. n - w + 1 : w + d * (1 + (r - w) \div d) = w + k * d
        BY <4>3, NextPeriod
      <4>6. \E k \in 1 .. n - w + 1 : v = w + k * d
        BY <4>4, <4>5
      <4> QED BY <4>2, <4>6
    <3>5. Armed(t)' = v
      BY <1>2, <1>3, <2>1, <3>3 DEF Armed, Modified
    <3> QED BY <1>2, <1>4, <2>1, <3>3, <3>4, <3>5
  <2>2. CASE period[t] = 0 /\ dodeltimer(p, t, "NoStatus") /\ UNCHANGED when
    <3>1. /\ status'[t] = "NoStatus"
          /\ \A u \in Timers \ {t} : status'[u] = status[u] /\ tpp'[u] = tpp[u]
      BY <1>0, <1>3, <2>2 DEF TimerTypes, dodeltimer, Set
    <3>2. Armed(t)' = None
      BY <3>1 DEF Armed, Modified
    <3> QED BY <2>2, <3>1, <3>2
  <2> QED BY <1>2, <2>1, <2>2
<1>6. status[t] # "Modifying"
  BY <1>2
<1>7. (\A u \in Timers \ {t} : Armed(u)' = Armed(u)) /\ AddedInTime'
  BY <1>0, <1>3, <1>5, <1>6, HeapStays
<1>8. Armed(t) <= now
  BY <1>3, <1>4
<1> QED BY <1>0, <1>2, <1>3, <1>4, <1>5, <1>7, <1>8, RunStep

\* The calls of goroutine g
LEMMA CallFrame ==
  ASSUME TimerTypes, NEW g \in Gs, NEW t, NEW p, NEW s, NEW w, NEW where,
         Locals(g, t, p, s, w), GJump(g, where)
  PROVE  /\ gpc'[g] = where /\ gt'[g] = t /\ gp'[g] = p /\ old'[g] = s /\ gwhen'[g] = w
         /\ \A h \in Gs \ {g} : /\ gpc'[h] = gpc[h] /\ gt'[h] = gt[h] /\ gp'[h] = gp[h]
                                /\ old'[h] = old[h] /\ gwhen'[h] = gwhen[h]
BY DEF TimerTypes, Locals, GJump, Set

LEMMA addtimerRefines ==
  ASSUME TimerInv, TimerInv', AddedInTime, NEW g \in Gs, addtimer(g)
  PROVE  TS!SetNext /\ AddedInTime'
<1>0. /\ TimerTypes /\ Where /\ gpc[g] = "idle" /\ GJump(g, "clean") /\ event' = None
      /\ UNCHANGED <<now, when, nextwhen, tpp>>
  BY DEF TimerInv, addtimer, Call
<1>1. PICK t \in fresh, p \in Ps, w \in Times :
        status' = Set(status, t, "Waiting") /\ Locals(g, t, p, "NoStatus", w)
  BY DEF addtimer
<1>2. t \in Timers /\ status[t] = "NoStatus" /\ tpp[t] = None
  BY <1>0, <1>1 DEF TimerTypes, Where
<1>3. status'[t] = "Waiting" /\ \A u \in Timers \ {t} : status'[u] = status[u]
  BY <1>0, <1>1, <1>2 DEF TimerTypes, Set
<1>4. /\ gpc'[g] = "clean"
      /\ \A h \in Gs \ {g} : /\ gpc'[h] = gpc[h] /\ gt'[h] = gt[h] /\ old'[h] = old[h]
                             /\ gwhen'[h] = gwhen[h]
  BY <1>0, <1>1, CallFrame
<1>5. Armed(t)' = Armed(t)
  BY <1>0, <1>2, <1>3 DEF Armed, Modified
<1>6. \A h \in Gs : gpc[h] \in Holding => h # g /\ gt[h] # t
  BY <1>0, <1>2, Held DEF Holding
<1>7. (\A u \in Timers \ {t} : Armed(u)' = Armed(u)) /\ AddedInTime'
  <2>1. \A h \in Gs : gpc'[h] = "added" => gpc[h] = "added" /\ gt[h] # t
    BY <1>4, <1>6 DEF Holding
  <2> QED BY <1>0, <1>2, <1>3, <1>4, <1>6, <2>1, OthersStay
<1> QED BY <1>0, <1>5, <1>7, WorkStep

\* A call that takes timer t leaves it armed as it is, until it is done.
LEMMA TakesTimer ==
  ASSUME TimerInv, TimerInv', AddedInTime, NEW g \in Gs, NEW t \in Timers,
         gpc[g] = "idle", gpc'[g] \in Holding, gpc'[g] # "added", gt'[g] = t, old'[g] = status[t],
         status[t] # "Modifying", \A u \in Timers \ {t} : status'[u] = status[u],
         \A h \in Gs \ {g} : /\ gpc'[h] = gpc[h] /\ gt'[h] = gt[h] /\ old'[h] = old[h]
                             /\ gwhen'[h] = gwhen[h],
         UNCHANGED <<now, when, nextwhen, tpp>>, event' = None
  PROVE  TS!SetNext /\ AddedInTime'
<1>1. Armed(t)' = Armed(t)
  <2>1. Armed(t) = ArmedAs(status[t], t)
    BY ArmedByStatus
  <2>2. Armed(gt[g])' = ArmedAs(old[g], gt[g])'
    BY ArmedByOldNext DEF TimerInv
  <2>3. Armed(t)' = ArmedAs(old[g], t)'
    BY <2>2 DEF Armed, ArmedAs, Modifying
  <2> QED BY <2>1, <2>3 DEF ArmedAs
<1>2. \A h \in Gs : gpc[h] \in Holding => h # g /\ gt[h] # t
  BY Held DEF Holding
<1>3. \A h \in Gs : gpc'[h] = "added" => gpc[h] = "added" /\ gt[h] # t
  BY <1>2 DEF Holding
<1>4. (\A u \in Timers \ {t} : Armed(u)' = Armed(u)) /\ AddedInTime'
  BY <1>2, <1>3, OthersStay
<1> QED BY <1>1, <1>4, WorkStep

LEMMA deltimerRefines ==
  ASSUME TimerInv, TimerInv', AddedInTime, NEW g \in Gs, deltimer(g)
  PROVE  TS!SetNext /\ AddedInTime'
<1>0. TimerTypes /\ gpc[g] = "idle" /\ UNCHANGED <<now, when, nextwhen, tpp>>
  BY DEF TimerInv, deltimer, Call
<1>1. PICK t \in Timers :
        \/ /\ status[t] \in {"Waiting"} \cup Modified
           /\ status' = Set(status, t, "Modifying")
           /\ Locals(g, t, tpp[t], status[t], 0)
           /\ GJump(g, IF status[t] = "ModifiedEarlier" THEN "unadjust" ELSE "delete")
           /\ event' = None
        \/ /\ status[t] \in {"NoStatus", "Deleted", "Removed"}
           /\ Stopped(g, t, FALSE)
           /\ UNCHANGED <<status, gpc, gt, gp, old, gwhen>>
  BY DEF deltimer
<1>2. CASE /\ status[t] \in {"Waiting"} \cup Modified
           /\ status' = Set(status, t, "Modifying")
           /\ Locals(g, t, tpp[t], status[t], 0)
           /\ GJump(g, IF status[t] = "ModifiedEarlier" THEN "unadjust" ELSE "delete")
           /\ event' = None
  <2>1. /\ gpc'[g] = (IF status[t] = "ModifiedEarlier" THEN "unadjust" ELSE "delete")
        /\ gt'[g] = t /\ old'[g] = status[t]
        /\ \A h \in Gs \ {g} : /\ gpc'[h] = gpc[h] /\ gt'[h] = gt[h] /\ old'[h] = old[h]
                               /\ gwhen'[h] = gwhen[h]
    BY <1>0, <1>2, CallFrame
  <2>2. gpc'[g] \in Holding /\ gpc'[g] # "added"
    BY <2>1 DEF Holding
  <2>3. status[t] # "Modifying" /\ \A u \in Timers \ {t} : status'[u] = status[u]
    BY <1>0, <1>2 DEF Modified, Set, TimerTypes
  <2> QED BY <1>0, <1>2, <2>1, <2>2, <2>3, TakesTimer
<1>3. CASE /\ status[t] \in {"NoStatus", "Deleted", "Removed"}
           /\ Stopped(g, t, FALSE)
           /\ UNCHANGED <<status, gpc, gt, gp, old, gwhen>>
  <2>1. (\A u \in Timers : Armed(u)' = Armed(u)) /\ AddedInTime'
    BY <1>0, <1>3, AllStay
  <2>2. Armed(t) = None
    BY <1>3 DEF Armed, Modified
  <2>3. event' = [act |-> "stop", g |-> g, t |-> t, was |-> FALSE]
    BY <1>3 DEF Stopped
  <2> QED BY <1>0, <2>1, <2>2, <2>3, StopStep
<1> QED BY <1>1, <1>2, <1>3

LEMMA modtimerRefines ==
  ASSUME TimerInv, TimerInv', AddedInTime, NEW g \in Gs, modtimer(g)
  PROVE  TS!SetNext /\ AddedInTime'
<1>0. TimerTypes /\ gpc[g] = "idle" /\ UNCHANGED <<now, when, nextwhen, tpp>> /\ event' = None
  BY DEF TimerInv, modtimer, Call
<1>1. PICK t \in Timers, w \in Times :
        /\ status[t] \in {"Waiting", "NoStatus", "Removed", "Deleted"} \cup Modified
        /\ status' = Set(status, t, "Modifying")
        /\ IF status[t] \in {"NoStatus", "Removed"}
           THEN GJump(g, "readd") /\ \E p \in Ps : Locals(g, t, p, status[t], w)
           ELSE /\ GJump(g, IF status[t] = "Deleted" THEN "undelete" ELSE "modify")
                /\ Locals(g, t, tpp[t], status[t], w)
  BY DEF modtimer
<1>2. PICK where \in {"readd", "undelete", "modify"} : \E p : Locals(g, t, p, status[t], w) /\ GJump(g, where)
  BY <1>1
<1>3. /\ gpc'[g] = where /\ gt'[g] = t /\ old'[g] = status[t]
      /\ \A h \in Gs \ {g} : /\ gpc'[h] = gpc[h] /\ gt'[h] = gt[h] /\ old'[h] = old[h]
                             /\ gwhen'[h] = gwhen[h]
  BY <1>0, <1>2, CallFrame
<1>4. gpc'[g] \in Holding /\ gpc'[g] # "added"
  BY <1>2, <1>3 DEF Holding
<1>5. status[t] # "Modifying" /\ \A u \in Timers \ {t} : status'[u] = status[u]
  BY <1>0, <1>1 DEF Modified, Set, TimerTypes
<1> QED BY <1>0, <1>3, <1>4, <1>5, TakesTimer

\* The steps of a call between its first and its last
LEMMA CallWorkRefines ==
  ASSUME TimerInv, TimerInv', AddedInTime, NEW g \in Gs,
         Unadjust(g) \/ Undelete(g) \/ Modify(g) \/ CountDeleted(g)
  PROVE  TS!SetNext /\ AddedInTime'
<1>0. TimerTypes /\ event' = None /\ UNCHANGED <<now, status, when, nextwhen, tpp>>
  BY DEF TimerInv, Unadjust, Undelete, Modify, CountDeleted, tvars
<1>1. /\ \A h \in Gs : gpc[h] \in Holding => gpc'[h] \in Holding /\ gt'[h] = gt[h] /\ old'[h] = old[h]
      /\ \A h \in Gs : gpc'[h] = "added" => gpc[h] = "added" /\ gt'[h] = gt[h] /\ gwhen'[h] = gwhen[h]
  <2>1. CASE Unadjust(g)
    BY <1>0, <2>1 DEF Unadjust, GJump, Set, TimerTypes, Holding
  <2>2. CASE Undelete(g)
    BY <1>0, <2>2 DEF Undelete, GJump, Set, TimerTypes, Holding
  <2>3. CASE Modify(g)
    BY <1>0, <2>3 DEF Modify, GJump, Set, TimerTypes, Holding
  <2>4. CASE CountDeleted(g)
    <3>1. /\ gpc[g] = "deleted" /\ gpc'[g] = "idle"
          /\ \A h \in Gs \ {g} : /\ gpc'[h] = gpc[h] /\ gt'[h] = gt[h] /\ old'[h] = old[h]
                                 /\ gwhen'[h] = gwhen[h]
      BY <1>0, <2>4, CallFrame DEF CountDeleted, Done
    <3> QED BY <3>1 DEF Holding
  <2> QED BY <2>1, <2>2, <2>3, <2>4
<1>2. (\A t \in Timers : Armed(t)' = Armed(t)) /\ AddedInTime'
  BY <1>0, <1>1, AllStay
<1> QED BY <1>0, <1>2, WorkStep

LEMMA ReaddRefines ==
  ASSUME TimerInv, TimerInv', AddedInTime, NEW g \in Gs, Readd(g)
  PROVE  TS!SetNext /\ AddedInTime'
<1>0. /\ TimerTypes /\ Modifiers /\ Modifiers' /\ Olds /\ gpc[g] = "readd" /\ event' = None
      /\ when' = Set(when, gt[g], gwhen[g]) /\ doaddtimer(gp[g], gt[g], gwhen[g])
      /\ gpc' = Set(gpc, g, "added")
      /\ UNCHANGED <<now, status, nextwhen, gt, gp, old, gwhen>>
  BY DEF TimerInv, Readd, GJump
<1>1. PICK t \in Timers : t = gt[g] /\ \A h \in Gs : gpc[h] \in Holding /\ gt[h] = t => h = g
  BY <1>0, Held DEF Holding
<1>2. /\ when'[t] = gwhen[g] /\ \A u \in Timers \ {t} : when'[u] = when[u] /\ tpp'[u] = tpp[u]
  BY <1>0, <1>1 DEF TimerTypes, doaddtimer, Set
<1>3. gpc'[g] = "added" /\ \A h \in Gs \ {g} : gpc'[h] = gpc[h]
  BY <1>0 DEF TimerTypes, Set
<1>4. Armed(t)' = Armed(t)
  <2>1. Armed(gt[g]) = ArmedAs(old[g], gt[g])
    BY <1>0, ArmedByOld DEF Holding
  <2>2. Armed(gt[g])' = ArmedAs(old[g], gt[g])'
    BY <1>0, <1>3, ArmedByOldNext DEF Holding
  <2>3. old[g] \in {"NoStatus", "Removed"}
    BY <1>0 DEF Olds
  <2>4. Armed(t)' = ArmedAs(old[g], t)'
    BY <1>0, <1>1, <2>2 DEF Armed, ArmedAs, Modifying
  <2>5. ArmedAs(old[g], t) = None /\ ArmedAs(old[g], t)' = None
    BY <1>0, <2>3 DEF ArmedAs, Modified
  <2> QED BY <1>1, <2>1, <2>4, <2>5
<1>5. (\A u \in Timers \ {t} : Armed(u)' = Armed(u)) /\ AddedInTime'
  <2>1. \A h \in Gs : gpc[h] \in Holding /\ gt[h] # t =>
          gpc'[h] = gpc[h] /\ gt'[h] = gt[h] /\ old'[h] = old[h] /\ gwhen'[h] = gwhen[h]
    BY <1>0, <1>1, <1>3
  <2>2. \A h \in Gs : gpc'[h] = "added" =>
          \/ gpc[h] = "added" /\ gt[h] # t
          \/ gt'[h] = t /\ when'[t] = gwhen'[h]
    <3>1. gt'[g] = t /\ when'[t] = gwhen'[g]
      BY <1>0, <1>1, <1>2
    <3>2. \A h \in Gs \ {g} : gpc'[h] = "added" => gpc[h] = "added" /\ gt[h] # t
      BY <1>1, <1>3 DEF Holding
    <3> QED BY <3>1, <3>2
  <2>3. \A u \in Timers \ {t} :
          status'[u] = status[u] /\ when'[u] = when[u] /\ nextwhen'[u] = nextwhen[u] /\ tpp'[u] = tpp[u]
    BY <1>0, <1>2
  <2> QED BY <2>1, <2>2, <2>3, OthersStay
<1> QED BY <1>0, <1>4, <1>5, WorkStep

\* The last step of a call
LEMMA CallEnds ==
  ASSUME TimerInv, TimerInv', AddedInTime, NEW g \in Gs, gpc[g] \in Holding \cup {"clean"},
         NEW t \in Timers, t = gt[g],
         NEW where \in {"idle", "deleted"}, gpc' = Set(gpc, g, where),
         \A h \in Gs \ {g} : gt'[h] = gt[h] /\ old'[h] = old[h] /\ gwhen'[h] = gwhen[h],
         \A u \in Timers \ {t} :
           status'[u] = status[u] /\ when'[u] = when[u] /\ nextwhen'[u] = nextwhen[u] /\ tpp'[u] = tpp[u]
  PROVE  (\A u \in Timers \ {t} : Armed(u)' = Armed(u)) /\ AddedInTime'
<1>0. gpc'[g] = where /\ \A h \in Gs \ {g} : gpc'[h] = gpc[h]
  BY DEF TimerInv, TimerTypes, Set
<1>1. \A h \in Gs : gpc[h] \in Holding /\ gt[h] = t => h = g
  <2>1. CASE gpc[g] \in Holding
    BY <2>1, Held
  <2>2. CASE gpc[g] = "clean"
    BY <2>2, Held
  <2> QED BY <2>1, <2>2
<1>2. \A h \in Gs : gpc[h] \in Holding /\ gt[h] # t =>
        gpc'[h] = gpc[h] /\ gt'[h] = gt[h] /\ old'[h] = old[h] /\ gwhen'[h] = gwhen[h]
  BY <1>0
<1>3. \A h \in Gs : gpc'[h] = "added" => gpc[h] = "added" /\ gt[h] # t
  BY <1>0, <1>1 DEF Holding
<1> QED BY <1>2, <1>3, OthersStay

LEMMA DeleteRefines ==
  ASSUME TimerInv, TimerInv', AddedInTime, NEW g \in Gs, Delete(g)
  PROVE  TS!SetNext /\ AddedInTime'
<1>0. /\ TimerTypes /\ Modifiers /\ Olds /\ Whens /\ gpc[g] = "delete" /\ gpc' = Set(gpc, g, "deleted")
      /\ status' = Set(status, gt[g], "Deleted") /\ Stopped(g, gt[g], TRUE)
      /\ UNCHANGED <<now, when, nextwhen, tpp, gt, old, gwhen>>
  BY DEF TimerInv, Delete, GJump
<1>1. PICK t \in Timers : t = gt[g] /\ tpp[t] # None
  BY <1>0, Held, TimerConstants DEF Holding
<1>2. status'[t] = "Deleted" /\ \A u \in Timers \ {t} : status'[u] = status[u]
  BY <1>0, <1>1 DEF TimerTypes, Set
<1>3. Armed(t) # None
  <2>1. Armed(t) = ArmedAs(old[g], t)
    BY <1>0, <1>1, ArmedByOld DEF Holding
  <2>2. old[g] \in {"Waiting"} \cup Modified
    BY <1>0 DEF Olds
  <2>3. Armed(t) \in Nat
    BY <1>0, <1>1, <2>1, <2>2 DEF ArmedAs, TimerTypes
  <2> QED BY <2>3, TimerConstants
<1>4. Armed(t)' = None
  BY <1>2 DEF Armed, Modified
<1>5. (\A u \in Timers \ {t} : Armed(u)' = Armed(u)) /\ AddedInTime'
  BY <1>0, <1>1, <1>2, CallEnds DEF Holding
<1>6. event' = [act |-> "stop", g |-> g, t |-> t, was |-> TRUE]
  BY <1>0, <1>1 DEF Stopped
<1> QED BY <1>0, <1>3, <1>4, <1>5, <1>6, StopStep

LEMMA ArmsRefine ==
  ASSUME TimerInv, TimerInv', AddedInTime, NEW g \in Gs, AddToHeap(g) \/ Added(g) \/ Publish(g)
  PROVE  TS!SetNext /\ AddedInTime'
<1>0. /\ TimerTypes /\ Modifiers /\ Adders /\ Olds /\ gpc[g] \in {"clean", "added", "publish"}
      /\ gpc' = Set(gpc, g, "idle") /\ Locals(g, None, None, "NoStatus", 0)
      /\ ArmedNow(g) /\ now' = now
  BY DEF TimerInv, AddToHeap, Added, Publish, GJump, Done
<1>1. PICK t \in Timers : t = gt[g]
  BY <1>0, Held DEF Holding, Adders
<1>2. \A h \in Gs \ {g} : gt'[h] = gt[h] /\ old'[h] = old[h] /\ gwhen'[h] = gwhen[h]
  BY <1>0 DEF TimerTypes, Locals, Set
<1>3. gwhen[g] \in Times /\ event' = [act |-> "arm", t |-> t, when |-> gwhen[g]]
  BY <1>0, <1>1 DEF Olds, ArmedNow
<1>4. /\ Armed(t)' = gwhen[g]
      /\ \A u \in Timers \ {t} :
           status'[u] = status[u] /\ when'[u] = when[u] /\ nextwhen'[u] = nextwhen[u] /\ tpp'[u] = tpp[u]
  <2>1. CASE AddToHeap(g)
    <3>1. gpc[g] = "clean" /\ gp[g] \in Ps /\ status[t] = "Waiting"
      BY <1>0, <1>1, <2>1 DEF AddToHeap, Adders
    <3>2. /\ when' = Set(when, t, gwhen[g]) /\ tpp' = Set(tpp, t, gp[g])
          /\ UNCHANGED <<status, nextwhen>>
      BY <1>1, <2>1 DEF AddToHeap, doaddtimer
    <3>3. when'[t] = gwhen[g] /\ tpp'[t] # None /\ \A u \in Timers \ {t} : when'[u] = when[u] /\ tpp'[u] = tpp[u]
      BY <1>0, <1>1, <3>1, <3>2, TimerConstants DEF TimerTypes, Set
    <3> QED BY <3>1, <3>2, <3>3 DEF Armed, Modified
  <2>2. CASE Added(g)
    <3>1. /\ gpc[g] = "added" /\ status' = Set(status, t, "Waiting")
          /\ UNCHANGED <<when, nextwhen, tpp>>
      BY <1>1, <2>2 DEF Added
    <3>2. when[t] = gwhen[g] /\ tpp[t] # None
      BY <1>1, <3>1, Held, TimerConstants DEF AddedInTime, Holding
    <3>3. status'[t] = "Waiting" /\ \A u \in Timers \ {t} : status'[u] = status[u]
      BY <1>0, <3>1 DEF TimerTypes, Set
    <3> QED BY <3>1, <3>2, <3>3 DEF Armed, Modified
  <2>3. CASE Publish(g)
    <3>1. /\ nextwhen' = Set(nextwhen, t, gwhen[g]) /\ status' = Set(status, t, NewStatus(g))
          /\ UNCHANGED <<when, tpp>>
      BY <1>1, <2>3 DEF Publish
    <3>2. /\ nextwhen'[t] = gwhen[g] /\ status'[t] \in Modified
          /\ \A u \in Timers \ {t} : nextwhen'[u] = nextwhen[u] /\ status'[u] = status[u]
      BY <1>0, <3>1 DEF TimerTypes, Set, NewStatus, Modified
    <3> QED BY <3>1, <3>2 DEF Armed, Modified
  <2> QED BY <2>1, <2>2, <2>3
<1>5. (\A u \in Timers \ {t} : Armed(u)' = Armed(u)) /\ AddedInTime'
  BY <1>0, <1>1, <1>2, <1>4, CallEnds DEF Holding
<1> QED BY <1>0, <1>3, <1>4, <1>5, ArmStep

LEMMA StepRefines == TimerInv /\ TimerInv' /\ AddedInTime /\ [Next]_vars => [TS!SetNext]_(TS!tvars) /\ AddedInTime'
<1> SUFFICES ASSUME TimerInv, TimerInv', AddedInTime, [Next]_vars
             PROVE  [TS!SetNext]_(TS!tvars) /\ AddedInTime'
  OBVIOUS
<1>1. CASE UNCHANGED vars
  <2>1. UNCHANGED <<now, event, status, when, nextwhen, tpp>> /\ UNCHANGED <<gpc, gt, gp, old, gwhen>>
    BY <1>1 DEF vars, tvars, gvars
  <2>2. (\A t \in Timers : Armed(t)' = Armed(t)) /\ AddedInTime'
    BY <2>1, AllStay
  <2>3. [t \in Timers |-> Armed(t)]' = [t \in Timers |-> Armed(t)]
    BY <2>2
  <2> QED BY <2>1, <2>2, <2>3 DEF TS!tvars
<1>2. CASE Tick
  BY <1>2, TickRefines
<1>3. ASSUME NEW g \in Gs, GCall(g) PROVE TS!SetNext /\ AddedInTime'
  BY <1>3, addtimerRefines, deltimerRefines, modtimerRefines DEF GCall
<1>4. ASSUME NEW g \in Gs, GStep(g) PROVE TS!SetNext /\ AddedInTime'
  BY <1>4, CleanRefines, CallWorkRefines, ReaddRefines, DeleteRefines, ArmsRefine DEF GStep
<1>5. ASSUME NEW m \in Ps, checkTimers(m) \/ MStep(m) PROVE TS!SetNext /\ AddedInTime'
  BY <1>5, ControlRefines, CleanRefines, adjusttimersRefines, addAdjustedTimersRefines,
     runOneTimerRefines, clearDeletedTimersRefines DEF MStep
<1> QED BY <1>1, <1>2, <1>3, <1>4, <1>5 DEF Next

LEMMA InitRefines == Init => TS!SetInit /\ AddedInTime
BY DEF Init, TS!SetInit, AddedInTime, Armed, Modified

(***************************************************************************)
(* Heaps, status words and Ps are the timers of module TimerSet            *)
(* (time.go:237-915): a timer runs at most once for each time that it is   *)
(* set, not before that time and not after a deltimer that returned true.  *)
(***************************************************************************)
THEOREM TimersImplement == Spec => ImplementsTimers
<1>1. Init => TimerInv /\ AddedInTime /\ TS!SetInit
  BY TimerInit, InitRefines
<1>2. TimerInv /\ AddedInTime /\ [Next]_vars => TimerInv' /\ AddedInTime' /\ [TS!SetNext]_(TS!tvars)
  BY TimerNext, StepRefines
<1> QED BY <1>1, <1>2, PTL DEF Spec, ImplementsTimers, TS!SetSpec
=============================================================================
