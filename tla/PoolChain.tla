----------------------------- MODULE PoolChain -----------------------------
(***************************************************************************)
(* The queue of sync.Pool (sync/poolqueue.go): a list of rings, each twice *)
(* as large as the one before it.  The producer P pushes and pops at the   *)
(* head, the consumers pop at the tail, without locks.  An action is one   *)
(* atomic operation with the plain reads and writes around it; a loop of   *)
(* loads and failed CompareAndSwaps of headTail is one action.             *)
(***************************************************************************)
EXTENDS Naturals, Sequences, FiniteSets

CONSTANTS P, Cs,       \* the producer and the consumers
          Vals,
          Once,        \* those of Vals that are not pushed again before they were popped
          None,        \* nil: no dequeue, no value, an empty slot
          Cleaned,     \* a slot of which val is nil and typ is not yet
          Elts,        \* the memory for dequeues: natural numbers
          W,           \* 1 << dequeueBits: head and tail are counted modulo W
          initSize,
          dequeueLimit

\* Each ring is twice as large as the one before it, up to dequeueLimit.
NextSize(s) == IF 2 * s >= dequeueLimit THEN dequeueLimit ELSE 2 * s

ASSUME ChainConstants ==
  /\ P \notin Cs
  /\ Once \subseteq Vals
  /\ None \notin Vals \cup Elts /\ Cleaned \notin Vals \cup {None}
  /\ Elts \subseteq Nat /\ Elts # {}
  /\ {W, initSize, dequeueLimit} \subseteq Nat \ {0}
  /\ initSize <= dequeueLimit
  /\ 2 * dequeueLimit <= W
\* W and the sizes of the rings are powers of two: each size divides W.
ASSUME SizesDivideW ==
  /\ W % initSize = 0
  /\ \A s \in initSize .. dequeueLimit : W % s = 0 => W % NextSize(s) = 0

VARIABLES
  elt,       \* elt[d]: head, tail, vals, next and prev of the dequeues in use
  chead,     \* c.head, c.tail
  ctail,
  stage,     \* stage[g]: where g is in pushHead, popHead or popTail
  at,        \* at[g]: the local d
  nxt,       \* nxt[g]: the local d2 of popTail
  idx,       \* idx[g]: the index of the slot that a pop took
  val,       \* val[g]: the value that g pushes or has popped
  excuse     \* excuse[g]: why a popTail may fail (a history variable, see Watch)

chainvars == <<elt, chead, ctail, stage, at, nxt, idx, val, excuse>>
Gs == Cs \cup {P}

NewElt(size, prev) ==
  [head |-> 0, tail |-> 0, next |-> None, prev |-> prev,
   vals |-> [i \in 0 .. size - 1 |-> None]]

Init ==
  /\ elt = [d \in {} |-> None]
  /\ chead = None /\ ctail = None
  /\ stage = [g \in Gs |-> "idle"]
  /\ at = [g \in Gs |-> None]
  /\ nxt = [g \in Gs |-> None]
  /\ idx = [g \in Gs |-> 0]
  /\ val = [g \in Gs |-> None]
  /\ excuse = [g \in Gs |-> FALSE]

Proceed(g, where) == stage' = [stage EXCEPT ![g] = where]
Local(x, g, v) == [x EXCEPT ![g] = v]

\* The collector frees the dequeues that nothing points to any more.
Roots == {chead, ctail} \cup {at[g] : g \in Gs} \cup {nxt[g] : g \in Gs}
Reached(m) ==
  LET ahead[d \in DOMAIN m] == {d} \cup IF m[d].next = None THEN {} ELSE ahead[m[d].next]
      behind[d \in DOMAIN m] == {d} \cup IF m[d].prev = None THEN {} ELSE behind[m[d].prev]
  IN  [d \in DOMAIN m |-> ahead[d] \cup behind[d]]
Heap(m) == elt' = [d \in UNION {Reached(m)[r] : r \in Roots' \ {None}} |-> m[d]]

\* The ring of dequeue d.
size(d) == Cardinality(DOMAIN elt[d].vals)
slot(d, i) == elt[d].vals[i % size(d)]
Count(d) == (elt[d].head + W - elt[d].tail) % W
Full(d) == (elt[d].tail + size(d)) % W = elt[d].head
Empty(d) == elt[d].tail = elt[d].head
Fill(d, i, v) == [elt EXCEPT ![d].vals[i % size(d)] = v]

\* A call that is over leaves no local variables.
Over(g) ==
  /\ Proceed(g, "idle")
  /\ at' = Local(at, g, None)
  /\ nxt' = Local(nxt, g, None)
  /\ idx' = Local(idx, g, 0)
  /\ val' = Local(val, g, None)

-----------------------------------------------------------------------------
(* The producer *)

Unused == Elts \ DOMAIN elt
NewAt == CHOOSE d \in Unused : \A e \in Unused : d <= e

\* poolChain.pushHead, which creates the first dequeue; then
\* poolDequeue.pushHead looks at headTail,
PushCall ==
  /\ stage[P] = "idle"
  /\ \E v \in Vals :
       /\ v \in Once => \A d \in DOMAIN elt : \A i \in DOMAIN elt[d].vals : elt[d].vals[i] # v
       /\ val' = Local(val, P, v)
  /\ UNCHANGED <<nxt, idx>>
  /\ \/ /\ chead = None
        /\ Proceed(P, "typ")
        /\ chead' = NewAt /\ ctail' = NewAt
        /\ at' = Local(at, P, NewAt)
        /\ Heap([d \in {NewAt} |-> NewElt(initSize, None)])
     \/ /\ chead # None
        /\ Proceed(P, IF Full(chead) THEN "grow" ELSE "typ")
        /\ at' = Local(at, P, chead)
        /\ UNCHANGED <<elt, chead, ctail>>

\* then at the slot's typ, writes the slot and adds to head.
Pushed(d) ==
  [Fill(d, elt[d].head, val[P]) EXCEPT ![d].head = (@ + 1) % W]
\* A pushHead that looks at headTail only.
PushUnchecked ==
  /\ stage[P] = "typ"
  /\ UNCHANGED <<chead, ctail>>
  /\ Over(P)
  /\ Heap(Pushed(at[P]))

PushTyp ==
  LET d == at[P] IN
  /\ stage[P] = "typ"
  /\ UNCHANGED <<chead, ctail>>
  /\ IF slot(d, elt[d].head) # None
     THEN Proceed(P, "grow") /\ UNCHANGED <<elt, at, nxt, idx, val>>
     ELSE Over(P) /\ Heap(Pushed(d))

\* A new dequeue that is not linked back to the one before it.
GrowForward ==
  LET d == at[P]
      new == NewElt(NextSize(size(d)), None)
  IN
  /\ stage[P] = "grow"
  /\ Unused # {}
  /\ chead' = NewAt
  /\ at' = Local(at, P, NewAt)
  /\ Proceed(P, "new")
  /\ UNCHANGED <<ctail, nxt, idx, val>>
  /\ Heap([e \in DOMAIN elt \cup {NewAt} |->
            IF e = NewAt THEN new ELSE IF e = d THEN [elt[d] EXCEPT !.next = NewAt] ELSE elt[e]])

\* A new dequeue at the head of the chain,
Grow ==
  LET d == at[P]
      new == NewElt(NextSize(size(d)), d)
  IN
  /\ stage[P] = "grow"
  /\ Unused # {}
  /\ chead' = NewAt
  /\ at' = Local(at, P, NewAt)
  /\ Proceed(P, "new")
  /\ UNCHANGED <<ctail, nxt, idx, val>>
  /\ Heap([e \in DOMAIN elt \cup {NewAt} |->
            IF e = NewAt THEN new ELSE IF e = d THEN [elt[d] EXCEPT !.next = NewAt] ELSE elt[e]])

\* and a pushHead of which the result is ignored.
PushNew ==
  LET d == at[P] IN
  /\ stage[P] = "new"
  /\ UNCHANGED <<chead, ctail>>
  /\ Over(P)
  /\ Heap(IF Full(d) \/ slot(d, elt[d].head) # None THEN elt ELSE Pushed(d))

\* poolChain.popHead
PopHeadCall ==
  /\ stage[P] = "idle"
  /\ Proceed(P, "pop")
  /\ at' = Local(at, P, chead)
  /\ UNCHANGED <<elt, chead, ctail, nxt, idx, val>>

\* poolDequeue.popHead takes back the newest slot, if there is one.
PopHead ==
  LET d == at[P] IN
  /\ stage[P] = "pop" /\ d # None
  /\ UNCHANGED <<chead, ctail, at, nxt, val>>
  /\ IF Empty(d)
     THEN Proceed(P, "back") /\ UNCHANGED <<elt, idx>>
     ELSE /\ Proceed(P, "take")
          /\ idx' = Local(idx, P, ((elt[d].head + W - 1) % W) % size(d))
          /\ Heap([elt EXCEPT ![d].head = (@ + W - 1) % W])

\* The slot is read and zeroed, and its value returned.
TakeHead ==
  /\ stage[P] = "take"
  /\ UNCHANGED <<chead, ctail>>
  /\ Over(P)
  /\ Heap(Fill(at[P], idx[P], None))

Back ==
  /\ stage[P] = "back"
  /\ at' = Local(at, P, elt[at[P]].prev)
  /\ Proceed(P, "pop")
  /\ UNCHANGED <<chead, ctail, nxt, idx, val>>
  /\ Heap(elt)

PopHeadFails ==
  /\ stage[P] = "pop" /\ at[P] = None
  /\ Over(P)
  /\ UNCHANGED <<elt, chead, ctail>>

-----------------------------------------------------------------------------
(* A consumer: poolChain.popTail *)

PopTailCall(g) ==
  /\ stage[g] = "idle"
  /\ Proceed(g, "next")
  /\ at' = Local(at, g, ctail)
  /\ UNCHANGED <<elt, chead, ctail, nxt, idx, val>>

\* d.next is loaded before the pop.
LoadNext(g) ==
  /\ stage[g] = "next" /\ at[g] # None
  /\ nxt' = Local(nxt, g, elt[at[g]].next)
  /\ Proceed(g, "pop")
  /\ UNCHANGED <<elt, chead, ctail, at, idx, val>>

\* poolDequeue.popTail takes the oldest slot, if there is one.
PopTail(g) ==
  LET d == at[g] IN
  /\ stage[g] = "pop"
  /\ UNCHANGED <<chead, ctail, at, val>>
  /\ IF Empty(d)
     THEN nxt[g] # None /\ Proceed(g, "drop") /\ UNCHANGED <<elt, nxt, idx>>
     ELSE /\ Proceed(g, "take")
          /\ nxt' = Local(nxt, g, None)
          /\ idx' = Local(idx, g, elt[d].tail % size(d))
          /\ Heap([elt EXCEPT ![d].tail = (@ + 1) % W])

\* The slot is read and its val set to nil,
TakeTail(g) ==
  /\ stage[g] = "take"
  /\ val' = Local(val, g, slot(at[g], idx[g]))
  /\ Proceed(g, "clean")
  /\ UNCHANGED <<chead, ctail, at, nxt, idx>>
  /\ Heap(Fill(at[g], idx[g], Cleaned))

\* then its typ, which gives it to the producer.
Clean(g) ==
  /\ stage[g] = "clean"
  /\ UNCHANGED <<chead, ctail>>
  /\ Over(g)
  /\ Heap(Fill(at[g], idx[g], None))

\* Nothing in the chain, or nothing in what was its only dequeue.
PopTailFails(g) ==
  /\ \/ stage[g] = "next" /\ at[g] = None
     \/ stage[g] = "pop" /\ Empty(at[g]) /\ nxt[g] = None
  /\ UNCHANGED <<chead, ctail>>
  /\ Over(g)
  /\ Heap(elt)

\* The tail of the chain is drained: one consumer drops it from the chain,
Drop(g) ==
  /\ stage[g] = "drop"
  /\ IF ctail = at[g]
     THEN ctail' = nxt[g] /\ Proceed(g, "unlink") /\ UNCHANGED <<at, nxt>>
     ELSE /\ at' = Local(at, g, nxt[g])
          /\ nxt' = Local(nxt, g, None)
          /\ Proceed(g, "next")
          /\ UNCHANGED ctail
  /\ UNCHANGED <<chead, idx, val>>
  /\ Heap(elt)

\* and clears the next one's prev; all go on there.
Unlink(g) ==
  /\ stage[g] = "unlink"
  /\ at' = Local(at, g, nxt[g])
  /\ nxt' = Local(nxt, g, None)
  /\ Proceed(g, "next")
  /\ UNCHANGED <<chead, ctail, idx, val>>
  /\ Heap([elt EXCEPT ![nxt[g]].prev = None])

-----------------------------------------------------------------------------

\* The chain from its tail on, and what it holds.
Chain ==
  LET from[d \in DOMAIN elt] == {d} \cup IF elt[d].next = None THEN {} ELSE from[elt[d].next]
  IN  IF ctail = None THEN {} ELSE from[ctail]
Items ==
  LET values(d) == [i \in 1 .. Count(d) |-> slot(d, elt[d].tail + i - 1)]
      from[d \in DOMAIN elt] == values(d) \o IF elt[d].next = None THEN << >> ELSE from[elt[d].next]
  IN  IF ctail = None THEN << >> ELSE from[ctail]

\* In a popTail that has found no dequeue, or no next one: has the queue been
\* empty, or pushed to, since then?
Watch ==
  LET now == Items' = << >> \/ Len(Items') > Len(Items)
      looking(g) == g # P /\ IF stage'[g] = "next" THEN at'[g] = None
                             ELSE stage'[g] = "pop" /\ nxt'[g] = None
  IN  excuse' = [g \in Gs |-> looking(g) /\ (excuse[g] \/ now)]

Producer ==
  \/ PushCall \/ PushTyp \/ Grow \/ PushNew
  \/ PopHeadCall \/ PopHead \/ TakeHead \/ Back \/ PopHeadFails
Consumer(g) ==
  \/ PopTailCall(g) \/ LoadNext(g) \/ PopTail(g) \/ TakeTail(g) \/ Clean(g)
  \/ PopTailFails(g) \/ Drop(g) \/ Unlink(g)

Next == (Producer \/ \E g \in Cs : Consumer(g)) /\ Watch

Spec == Init /\ [][Next]_chainvars

-----------------------------------------------------------------------------
(* Properties *)

\* Types: the locals name dequeues that exist, and the links too.
TypeOK ==
  /\ DOMAIN elt \subseteq Elts
  /\ \A d \in DOMAIN elt :
       /\ elt[d].head \in 0 .. W - 1 /\ elt[d].tail \in 0 .. W - 1
       /\ {elt[d].next, elt[d].prev} \subseteq DOMAIN elt \cup {None}
       /\ size(d) \in initSize .. dequeueLimit
       /\ \A i \in 0 .. size(d) - 1 : slot(d, i) \in Vals \cup {None, Cleaned}
  /\ Roots \subseteq DOMAIN elt \cup {None}
  /\ stage \in [Gs -> {"idle", "typ", "grow", "new", "pop", "take", "back",
                    "next", "clean", "drop", "unlink"}]
  /\ idx \in [Gs -> 0 .. dequeueLimit - 1]
  /\ val \in [Gs -> Vals \cup {None}]

Owners(d, i) ==
  {g \in Gs : /\ stage[g] \in {"take", "clean"}
              /\ at[g] = d /\ idx[g] = i}
InRange(d, i) == \E n \in 1 .. Count(d) : (elt[d].tail + n - 1) % size(d) = i

\* The comments on headTail and vals: a slot in [tail, head) holds a value
\* that nobody else is taking; any other belongs to the one pop that is
\* taking it, or is empty and keeps no value alive.
SlotOwnership ==
  \A d \in DOMAIN elt :
    /\ Count(d) <= size(d)
    /\ \A i \in 0 .. size(d) - 1 :
         IF InRange(d, i)
         THEN slot(d, i) \in Vals /\ Owners(d, i) = {}
         ELSE IF Owners(d, i) = {} THEN slot(d, i) = None
         ELSE \E g \in Gs : /\ Owners(d, i) = {g}
                            /\ IF stage[g] = "take" THEN slot(d, i) \in Vals ELSE slot(d, i) = Cleaned

\* The comments on next and prev: they link neighbours; a dequeue that the
\* tail has passed, or is about to pass, is empty; only the last is pushed to.
ChainLinks ==
  \A d \in DOMAIN elt :
    /\ elt[d].prev # None => elt[elt[d].prev].next = d
    /\ elt[d].next = None <=> d = chead
    /\ d \in Chain \/ Empty(d)
    /\ \A g \in Cs : stage[g] = "drop" /\ at[g] = d => Empty(d)

\* What makes the rings and their list safe without locks.
ChainStructure == TypeOK /\ SlotOwnership /\ ChainLinks

Doing(g) ==
  CASE stage[g] = "idle" -> "idle"
    [] stage[g] \in {"typ", "grow", "new"} -> "push"
    [] stage[g] \in {"take", "clean"} -> "done"
    [] OTHER -> "pop"

DQ == INSTANCE Deque WITH
        items <- Items,
        doing <- [g \in Gs |-> Doing(g)],
        val <- [g \in Gs |-> IF stage[g] = "take" THEN slot(at[g], idx[g]) ELSE val[g]]

\* The chain of rings is the queue of module Deque: no value is lost or
\* popped twice, both ends keep their order, and a pop that fails may.
ImplementsDeque == DQ!DequeSpec
=============================================================================
