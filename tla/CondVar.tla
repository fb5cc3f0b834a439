------------------------------ MODULE CondVar ------------------------------
(***************************************************************************)
(* What a condition variable promises (sync/cond.go, runtime/sema.go): the *)
(* goroutines in Wait are woken in the order in which they began to wait,  *)
(* one by a Signal, all by a Broadcast, and by nothing else.  A Signal may *)
(* find nobody to wake; when it may is not said here.                      *)
(***************************************************************************)
EXTENDS Naturals, Sequences

CONSTANT G             \* goroutines

VARIABLES waiting,     \* in order, those in Wait that nothing has woken
          woken        \* those in Wait that a Signal or Broadcast has woken

cvars == <<waiting, woken>>

CondVarInit == waiting = << >> /\ woken = {}

InWait(g) == g \in woken \/ \E i \in 1 .. Len(waiting) : waiting[i] = g

StartWait(g) ==
  /\ ~InWait(g)
  /\ waiting' = Append(waiting, g)
  /\ UNCHANGED woken

WakeOne ==
  /\ waiting # << >>
  /\ woken' = woken \cup {Head(waiting)}
  /\ waiting' = Tail(waiting)

WakeAll ==
  /\ woken' = woken \cup {waiting[i] : i \in 1 .. Len(waiting)}
  /\ waiting' = << >>

EndWait(g) ==
  /\ g \in woken
  /\ woken' = woken \ {g}
  /\ UNCHANGED waiting

CondVarNext == WakeOne \/ WakeAll \/ \E g \in G : StartWait(g) \/ EndWait(g)

CondVarSpec == CondVarInit /\ [][CondVarNext]_cvars
=============================================================================
