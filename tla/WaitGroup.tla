----------------------------- MODULE WaitGroup -----------------------------
(***************************************************************************)
(* sync.WaitGroup (sync/waitgroup.go) over the runtime semaphores of       *)
(* module Sema. The 64-bit state word is the pair of its halves. The       *)
(* client keeps the rules of waitgroup.go:40-51: the counter does not go   *)
(* negative, and an Add that takes it up from zero happens (its AddUint64  *)
(* does) while no call of Wait is under way. It may reuse the WaitGroup    *)
(* from then on, also while the Add or Done that took the counter to zero  *)
(* has not returned. It keeps one rule that the documentation lacks and    *)
(* the code needs: no Add(0) while another Add ends a round (see Legal).   *)
(***************************************************************************)
EXTENDS Sema, Integers

CONSTANTS wgSem,       \* the address of the semaphore
          MaxDelta     \* bound on the delta of one Add, up or down, and on the counter

ASSUME WgSemAddr == wgSem \in Addr
ASSUME MaxDeltaNat == MaxDelta \in Nat

VARIABLES
  state,    \* the counter v and the waiter count w
  wpc,      \* wpc[g]: where g is in Add or Wait
  seen      \* seen[g]: the local state; in the release loop of Add, what is left of w

wvars == <<state, wpc, seen>>
wgvars == <<svars, wvars>>

States == [v : Int, w : Nat]
Zero == [v |-> 0, w |-> 0]
WaitPhases == {"cas", "load", "acquire", "asleep"}
WGPhases == {"idle", "check", "reset", "release", "panic"} \cup WaitPhases

WGInit ==
  /\ SemaInit
  /\ state = Zero
  /\ wpc = [g \in G |-> "idle"]
  /\ seen = [g \in G |-> Zero]

WGIdle(g) == wpc[g] = "idle" /\ spc[g] = "idle"
WGJump(g, phase) == wpc' = [wpc EXCEPT ![g] = phase]
Note(g, s) == seen' = [seen EXCEPT ![g] = s]
Leave(g, phase) == WGJump(g, phase) /\ Note(g, Zero)

Waiting == {g \in G : wpc[g] \in WaitPhases}

-----------------------------------------------------------------------------
(* Add and Done *)

\* What the documentation asks of the caller of Add(delta): nothing, of Add(0).
Documented(delta) ==
  /\ state.v + delta \in 0 .. MaxDelta
  /\ delta > 0 /\ state.v = 0 => Waiting = {}

\* What it has to ask as well. Between the AddUint64 of the Add that ends a round and
\* its reset, an Add(0) finds the same state, takes itself for that Add, and resets the
\* state and releases the waiters a second time (or meets the panic of waitgroup.go:87).
Legal(delta) ==
  /\ Documented(delta)
  /\ delta = 0 => ~\E g \in G : wpc[g] \in {"check", "reset"}

\* AddUint64(statep, uint64(delta)<<32) and what follows from its result.
Add(g, delta) ==
  LET new == [state EXCEPT !.v = @ + delta]
  IN  /\ WGIdle(g)
      /\ Legal(delta)
      /\ state' = new
      /\ IF new.v < 0 \/ (new.w # 0 /\ delta > 0 /\ new.v = delta)
         THEN Leave(g, "panic")
         ELSE IF new.v > 0 \/ new.w = 0
         THEN UNCHANGED <<wpc, seen>>
         ELSE WGJump(g, "check") /\ Note(g, new)
      /\ UNCHANGED svars

\* if *statep != state
AddCheck(g) ==
  /\ wpc[g] = "check"
  /\ IF state # seen[g]
     THEN Leave(g, "panic")
     ELSE WGJump(g, "reset") /\ UNCHANGED seen
  /\ UNCHANGED <<svars, state>>

\* *statep = 0
AddReset(g) ==
  /\ wpc[g] = "reset"
  /\ state' = Zero
  /\ WGJump(g, "release")
  /\ UNCHANGED <<svars, seen>>

\* A release loop that ends one waiter early.
AddReleaseShort(g) ==
  /\ wpc[g] = "release"
  /\ IF seen[g].w > 1
     THEN Semrelease(g, wgSem, FALSE)
     ELSE spc[g] = "idle" /\ UNCHANGED svars
  /\ IF seen[g].w = 1
     THEN Leave(g, "idle")
     ELSE UNCHANGED wpc /\ Note(g, [seen[g] EXCEPT !.w = @ - 1])
  /\ UNCHANGED state

\* A release loop that compares with zero before it counts down.
AddReleaseOver(g) ==
  /\ wpc[g] = "release"
  /\ Semrelease(g, wgSem, FALSE)
  /\ IF seen[g].w = 0
     THEN Leave(g, "idle")
     ELSE UNCHANGED wpc /\ Note(g, [seen[g] EXCEPT !.w = @ - 1])
  /\ UNCHANGED state

\* for ; w != 0; w-- { runtime_Semrelease(semap, false, 0) }
AddRelease(g) ==
  /\ wpc[g] = "release"
  /\ Semrelease(g, wgSem, FALSE)
  /\ IF seen[g].w = 1
     THEN Leave(g, "idle")
     ELSE UNCHANGED wpc /\ Note(g, [seen[g] EXCEPT !.w = @ - 1])
  /\ UNCHANGED state

-----------------------------------------------------------------------------
(* Wait *)

\* LoadUint64(statep), at the call or after a CompareAndSwap that failed.
WaitLoad(g) ==
  /\ WGIdle(g) \/ wpc[g] = "load"
  /\ IF state.v = 0
     THEN Leave(g, "idle")
     ELSE WGJump(g, "cas") /\ Note(g, state)
  /\ UNCHANGED <<svars, state>>

\* A Wait that adds itself to the state it loaded, without a comparison.
WaitStore(g) ==
  /\ wpc[g] = "cas"
  /\ state' = [seen[g] EXCEPT !.w = @ + 1]
  /\ Leave(g, "acquire")
  /\ UNCHANGED svars

\* A Wait that counts itself with an addition in place of CompareAndSwap.
WaitAdd(g) ==
  /\ wpc[g] = "cas"
  /\ state' = [state EXCEPT !.w = @ + 1]
  /\ Leave(g, "acquire")
  /\ UNCHANGED svars

\* CompareAndSwapUint64(statep, state, state+1)
WaitCAS(g) ==
  /\ wpc[g] = "cas"
  /\ IF state = seen[g]
     THEN state' = [state EXCEPT !.w = @ + 1] /\ Leave(g, "acquire")
     ELSE Leave(g, "load") /\ UNCHANGED state
  /\ UNCHANGED svars

\* runtime_Semacquire(semap) ...
WaitSleep(g) ==
  /\ wpc[g] = "acquire"
  /\ Semacquire(g, wgSem, FALSE)
  /\ WGJump(g, "asleep")
  /\ UNCHANGED <<state, seen>>

\* ... and its return: if *statep != 0
WaitReturn(g) ==
  /\ wpc[g] = "asleep" /\ spc[g] = "idle"
  /\ WGJump(g, IF state # Zero THEN "panic" ELSE "idle")
  /\ UNCHANGED <<svars, state, seen>>

-----------------------------------------------------------------------------
\* The steps of g inside a call.
WGStep(g) ==
  \/ AddCheck(g) \/ AddReset(g) \/ AddRelease(g)
  \/ wpc[g] = "load" /\ WaitLoad(g)
  \/ WaitCAS(g) \/ WaitSleep(g) \/ WaitReturn(g)
  \/ SemaStep(g) /\ UNCHANGED wvars

WGNext ==
  \E g \in G :
    \/ \E delta \in -MaxDelta .. MaxDelta : Add(g, delta)
    \/ WGIdle(g) /\ WaitLoad(g)
    \/ WGStep(g)

WGSpec == WGInit /\ [][WGNext]_wgvars
WGFairSpec == WGSpec /\ \A g \in G : WF_wgvars(WGStep(g))

-----------------------------------------------------------------------------
\* Types of the state word and of the locals, on top of those of the semaphore.
WGTypeOK ==
  /\ SemaTypeOK
  /\ state \in States
  /\ wpc \in [G -> WGPhases]
  /\ seen \in [G -> States]

(***************************************************************************)
(* A client that keeps the documented rules, and calls no Add(0) while     *)
(* another Add ends a round, meets none of the panics: not the two of Add  *)
(* (waitgroup.go:76, 87), although Waits count themselves while Add is     *)
(* between its addition and its second look at the state, nor the one of   *)
(* Wait (waitgroup.go:131), although the WaitGroup may be reused as soon   *)
(* as the last waiter has returned. The documented rules alone are not     *)
(* enough.                                                                 *)
(***************************************************************************)
NoPanic == \A g \in G : wpc[g] # "panic"

(***************************************************************************)
(* Every waiter that counted itself gets exactly one unit: those that are  *)
(* still to take one are as many as the waiter count, or, once the counter *)
(* has reached zero and the count is reset, as the units that the releaser *)
(* (there is only one) has still to publish and those nobody has taken yet *)
(* (waitgroup.go:91). The rule about Add(0) is what keeps it one releaser. *)
(* One unit too few and a Wait never returns; one too many and the next    *)
(* round's Wait returns at once.                                           *)
(***************************************************************************)
Unserved ==
  {g \in G : wpc[g] = "acquire" \/ (wpc[g] = "asleep" /\ spc[g] # "idle" /\ ~ticket[g])}
Releasers == {g \in G : wpc[g] = "release"}
OneReleaser ==
  \A g, h \in G : {wpc[g], wpc[h]} \subseteq {"check", "reset", "release"} => g = h
ToPublish == IF Releasers = {} THEN 0 ELSE seen[CHOOSE g \in Releasers : TRUE].w
UnitsExact ==
  OneReleaser /\ Cardinality(Unserved) = state.w + ToPublish + sema[wgSem]

\* What the state word and the semaphore keep between them.
WGStructure == WGTypeOK /\ UnitsExact

(***************************************************************************)
(* Wait does not return while the counter is positive: between the return  *)
(* of the last Done's AddUint64 and the return of the last waiter nothing  *)
(* raises it again, and nobody's unit is taken by a Wait of the next round *)
(* (waitgroup.go:102, 113, 130).                                           *)
(***************************************************************************)
WaitsForZero ==
  [][\A g \in Waiting : wpc'[g] \notin WaitPhases => state.v = 0]_wgvars

(***************************************************************************)
(* Every Wait under way when the counter reaches zero returns              *)
(* (waitgroup.go:41: "all goroutines blocked on Wait are released"), the   *)
(* one that slept first and the one that has just failed its               *)
(* CompareAndSwap.                                                         *)
(***************************************************************************)
AllReleased == \A g \in G : (state.v = 0 /\ g \in Waiting) ~> g \notin Waiting
=============================================================================
