------------------------------- MODULE Deque -------------------------------
(***************************************************************************)
(* What the queue of sync.Pool promises (the comments of                   *)
(* sync/poolqueue.go): one producer pushes and pops at the head, consumers *)
(* pop at the tail; each value pushed is popped at most once, the newest   *)
(* by the producer and the oldest by a consumer.  The producer's pop fails *)
(* only when the queue is empty.  A consumer's pop may also fail when      *)
(* something was pushed while it was looking.                              *)
(***************************************************************************)
EXTENDS Naturals, Sequences

CONSTANTS P,           \* the producer
          Cs,          \* the consumers
          Vals, None

VARIABLES items,       \* the values in the queue, the oldest first
          doing,       \* doing[g]: g's operation; "done" with a value still to be returned
          val,         \* val[g]: the value that g is pushing or has popped
          excuse       \* excuse[g]: in g's pop the queue was empty once, or was pushed to

dvars == <<items, doing, val, excuse>>
Gs == Cs \cup {P}

DequeInit ==
  /\ items = << >>
  /\ doing = [g \in Gs |-> "idle"]
  /\ val = [g \in Gs |-> None]
  /\ excuse = [g \in Gs |-> FALSE]

Does(g, op) == doing' = [doing EXCEPT ![g] = op]
Has(g, v) == val' = [val EXCEPT ![g] = v]

Begin ==
  /\ \/ /\ doing[P] = "idle"
        /\ \/ Does(P, "pop") /\ UNCHANGED val
           \/ Does(P, "push") /\ \E v \in Vals : Has(P, v)
     \/ \E g \in Cs : doing[g] = "idle" /\ Does(g, "pop") /\ UNCHANGED val
  /\ UNCHANGED items

Push ==
  /\ doing[P] = "push"
  /\ Does(P, "idle") /\ Has(P, None)
  /\ items' = Append(items, val[P])

PopHead ==
  /\ doing[P] = "pop"
  /\ Does(P, "done")
  /\ items # << >>
  /\ Has(P, items[Len(items)])
  /\ items' = SubSeq(items, 1, Len(items) - 1)

PopTail(g) ==
  /\ doing[g] = "pop"
  /\ Does(g, "done")
  /\ items # << >>
  /\ Has(g, Head(items))
  /\ items' = Tail(items)

Fail(g) ==
  /\ doing[g] = "pop"
  /\ Does(g, "idle")
  /\ IF g = P THEN items = << >> ELSE excuse[g]
  /\ UNCHANGED <<items, val>>

Return(g) ==
  /\ doing[g] = "done"
  /\ Does(g, "idle") /\ Has(g, None)
  /\ UNCHANGED items

\* A step inside a call.
Work == UNCHANGED <<items, doing, val>>

\* What excuses a failure is said in the comment on excuse; it may be forgotten.
Watch ==
  LET now == items' = << >> \/ Len(items') > Len(items)
  IN  /\ excuse' \in [Gs -> BOOLEAN]
      /\ \A g \in Gs : excuse'[g] => g # P /\ doing'[g] = "pop" /\ (excuse[g] \/ now)

DequeNext ==
  /\ \/ Begin \/ Push \/ PopHead \/ Work
     \/ \E g \in Cs : PopTail(g)
     \/ \E g \in Gs : Fail(g) \/ Return(g)
  /\ Watch

DequeSpec == DequeInit /\ [][DequeNext]_dvars
=============================================================================
