------------------------------ MODULE Netpoll ------------------------------
(***************************************************************************)
(* The platform-independent part of the network poller, for one            *)
(* descriptor that is closed and used again: runtime/netpoll.go.  Readers, *)
(* writers and the poller touch the semaphores rg and wg without pd.lock;  *)
(* SetDeadline, Unblock and the deadline timers hold it.                   *)
(*                                                                         *)
(* An action is one atomic operation, or the part of a locked section      *)
(* between two of them.  Package internal/poll, which is the caller, sees  *)
(* to it that one goroutine reads and one writes at a time, that they      *)
(* begin while the file is open and that it is closed when they are done.  *)
(* A timer is what module TimerSet says of it.  The error flag everr, set  *)
(* by an event with no other content, is not modelled.                     *)
(***************************************************************************)
EXTENDS Integers, FiniteSets

CONSTANTS Users,       \* who uses the file: the reader, the writer or both
          MaxTime,     \* time stops here
          MaxInt,      \* the largest time there is: 2^63 - 1
          Durations,   \* what SetDeadline is called with: negative, zero or positive
          MaxSets, MaxArrivals, MaxOpens,   \* how often SetDeadline, input and Open happen
          None

Modes == {"r", "w"}

ASSUME NetpollConstants ==
  /\ Users \subseteq Modes
  /\ MaxTime \in Nat /\ MaxInt \in Nat /\ MaxTime < MaxInt
  /\ Durations \subseteq Int
  /\ MaxSets \in Nat /\ MaxArrivals \in Nat /\ MaxOpens \in Nat
ASSUME NoneIsNone ==
  /\ \A f \in SUBSET Modes : None # f
  /\ None \notin [when : Int, f : SUBSET Modes, seq : Nat]
  /\ None \notin [todo : SUBSET Modes, got : SUBSET Modes]

VARIABLES
  now,
  \* of the pollDesc; r and w stand for the fields of reading and writing
  closing,
  sem,        \* rg, wg: "nil", "Ready", "Wait", or "G": the goroutine is parked
  deadline,   \* rd, wd
  seq,        \* rseq, wseq
  tf,         \* rt.f, wt.f: None, or the modes whose deadline it is
  armed,      \* rt, wt: None, or [when, f, seq]
  lk,         \* who holds pd.lock: None, or [todo, got]: whom it has yet to
              \* unblock and whom it has to make ready after that
  \* of the runtime
  pending,    \* deadline functions that the timers have called: [f, seq]
  toRun,      \* goroutines taken off their semaphores, soon to be made ready: <<mode, counted>>
  waiters,    \* netpollWaiters
  upc,        \* where the reader and the writer are
  \* of the file and the kernel
  life,       \* "free", "open" or "evicted"
  data,       \* what the reader and the writer can proceed with
  kernel,     \* edges that the kernel has to report
  events,     \* how many edges netpoll has got from the kernel and not yet passed on
  sets, arrivals, opens

pdvars == <<closing, sem, deadline, seq, tf, armed>>
filevars == <<life, data, kernel, arrivals, opens>>
vars == <<now, pdvars, lk, pending, toRun, waiters, upc, filevars, events, sets>>

All(v) == [m \in Modes |-> v]

Init ==
  /\ now = 0
  /\ closing = FALSE /\ sem = All("nil") /\ deadline = All(0) /\ seq = All(0)
  /\ tf = All(None) /\ armed = All(None) /\ lk = None
  /\ pending = {} /\ toRun = {} /\ waiters = 0
  /\ upc = All("idle")
  /\ life = "free" /\ data = All(FALSE) /\ kernel = {} /\ events = All(0)
  /\ sets = 0 /\ arrivals = 0 /\ opens = 0

-----------------------------------------------------------------------------
(* The semaphores *)

\* netpollunblock: whether a goroutine is taken off the semaphore of m
Unblocks(m) == sem[m] = "G"
netpollunblock(m, ioready) ==
  sem' = IF sem[m] = "Ready" \/ (sem[m] = "nil" /\ ~ioready) THEN sem
         ELSE [sem EXCEPT ![m] = IF ioready THEN "Ready" ELSE "nil"]

Jump(m, where) == upc' = [upc EXCEPT ![m] = where]

UserOnly == UNCHANGED <<now, closing, deadline, seq, tf, armed, lk, pending, toRun,
                        life, kernel, arrivals, opens, events, sets>>

\* netpollcheckerr: closing is loaded, and then the deadline.
CheckClosing(m) ==
  /\ \E pc \in {"reset", "wait", "recheck"} :
       /\ upc[m] = pc
       /\ CASE ~closing -> Jump(m, IF pc = "reset" THEN "resetD" ELSE IF pc = "wait" THEN "waitD" ELSE "recheckD")
            [] closing /\ pc = "recheck" -> Jump(m, "xchg")
            [] OTHER -> Jump(m, "idle")
  /\ UNCHANGED <<sem, waiters, data>> /\ UserOnly

\* pollReset's end
pollReset(m) ==
  /\ upc[m] = "resetD"
  /\ IF deadline[m] < 0 THEN Jump(m, "idle") /\ UNCHANGED sem
     ELSE Jump(m, "try") /\ sem' = [sem EXCEPT ![m] = "nil"]
  /\ UNCHANGED <<waiters, data>> /\ UserOnly

\* The system call: it does all it can, or would block.
Try(m) ==
  /\ upc[m] = "try"
  /\ data' = [data EXCEPT ![m] = FALSE]
  /\ Jump(m, IF data[m] THEN "idle" ELSE "wait")
  /\ UNCHANGED <<sem, waiters>> /\ UserOnly

pollWait(m) ==
  /\ upc[m] = "waitD"
  /\ Jump(m, IF deadline[m] < 0 THEN "idle" ELSE "block")
  /\ UNCHANGED <<sem, waiters, data>> /\ UserOnly

\* netpollblock consumes a notification, or sets the semaphore to Wait,
netpollblock(m) ==
  /\ upc[m] = "block"
  /\ \/ sem[m] = "Ready" /\ sem' = [sem EXCEPT ![m] = "nil"] /\ Jump(m, "try")
     \/ sem[m] = "nil" /\ sem' = [sem EXCEPT ![m] = "Wait"] /\ Jump(m, "recheck")
  /\ UNCHANGED <<waiters, data>> /\ UserOnly

\* A plausible bug: only closing is looked at again.
RecheckNoDeadline(m) ==
  /\ upc[m] = "recheckD"
  /\ Jump(m, "commit")
  /\ UNCHANGED <<sem, waiters, data>> /\ UserOnly

\* looks again at the errors,
Recheck(m) ==
  /\ upc[m] = "recheckD"
  /\ Jump(m, IF deadline[m] < 0 THEN "xchg" ELSE "commit")
  /\ UNCHANGED <<sem, waiters, data>> /\ UserOnly

\* and parks, unless somebody came first.  (It counts itself only after the
\* CompareAndSwap; nobody looks in between who would not look again.)
netpollblockcommit(m) ==
  /\ upc[m] = "commit"
  /\ IF sem[m] = "Wait"
     THEN sem' = [sem EXCEPT ![m] = "G"] /\ waiters' = waiters + 1 /\ Jump(m, "parked")
     ELSE Jump(m, "xchg") /\ UNCHANGED <<sem, waiters>>
  /\ UNCHANGED data /\ UserOnly

Xchg(m) ==
  /\ upc[m] = "xchg"
  /\ sem' = [sem EXCEPT ![m] = "nil"]
  /\ Jump(m, IF sem[m] = "Ready" THEN "try" ELSE "wait")
  /\ UNCHANGED <<waiters, data>> /\ UserOnly

\* goready, after netpollgoready has counted or else for netpoll's list
goready(m) ==
  /\ \E counted \in BOOLEAN :
       /\ <<m, counted>> \in toRun
       /\ toRun' = toRun \ {<<m, counted>>}
       /\ waiters' = IF counted THEN waiters - 1 ELSE waiters
  /\ Jump(m, "xchg")
  /\ UNCHANGED <<now, pdvars, lk, pending, filevars, events, sets>>

-----------------------------------------------------------------------------
(* The poller *)

\* epollwait hands an edge to some M,
netpoll(m) ==
  /\ m \in kernel
  /\ kernel' = kernel \ {m} /\ events' = [events EXCEPT ![m] = @ + 1]
  /\ UNCHANGED <<now, pdvars, lk, pending, toRun, waiters, upc, life, data, arrivals, opens, sets>>

\* which may be slow, even until the descriptor is used again.
netpollready(m) ==
  /\ events[m] > 0
  /\ events' = [events EXCEPT ![m] = @ - 1]
  /\ netpollunblock(m, TRUE)
  /\ toRun' = IF Unblocks(m) THEN toRun \cup {<<m, FALSE>>} ELSE toRun
  /\ UNCHANGED <<now, closing, deadline, seq, tf, armed, lk, pending, waiters, upc, filevars, sets>>

-----------------------------------------------------------------------------
(* The operations that hold pd.lock *)

Lock(modes) == lk = None /\ lk' = [todo |-> modes, got |-> {}]

UnblockNext(m) ==
  /\ lk # None /\ m \in lk.todo
  /\ m = "w" => "r" \notin lk.todo
  /\ netpollunblock(m, FALSE)
  /\ lk' = [todo |-> lk.todo \ {m}, got |-> IF Unblocks(m) THEN lk.got \cup {m} ELSE lk.got]
  /\ UNCHANGED <<now, closing, deadline, seq, tf, armed, pending, toRun, waiters, upc, filevars, events, sets>>

Unlock ==
  /\ lk # None /\ lk.todo = {}
  /\ lk' = None
  /\ toRun' = toRun \cup {<<m, TRUE>> : m \in lk.got}
  /\ UNCHANGED <<now, pdvars, pending, waiters, upc, filevars, events, sets>>

Combo(dl) == dl["r"] > 0 /\ dl["r"] = dl["w"]

\* The timers that SetDeadline sets for the deadlines dl
Wanted(dl, m) ==
  IF dl[m] <= 0 \/ (m = "w" /\ Combo(dl)) THEN None
  ELSE IF m = "r" /\ Combo(dl) THEN Modes ELSE {m}

\* With closing set, SetDeadline returns at once.
pollSetDeadline ==
  \E d \in Durations, modes \in {{"r"}, {"w"}, Modes} :
    LET till == IF d <= 0 THEN d ELSE IF now + d > MaxInt THEN MaxInt ELSE now + d
        dl == [m \in Modes |-> IF m \in modes THEN till ELSE deadline[m]]
        changed(m) == dl[m] # deadline[m] \/ Combo(dl) # Combo(deadline)
        reset(m) == tf[m] = None /\ Wanted(dl, m) # None
        modify(m) == tf[m] # None /\ changed(m)
    IN
    /\ life = "open" /\ sets < MaxSets
    /\ Lock({m \in Modes : dl[m] < 0})
    /\ deadline' = dl
    /\ seq' = [m \in Modes |-> IF modify(m) THEN seq[m] + 1 ELSE seq[m]]
    /\ tf' = [m \in Modes |-> IF reset(m) \/ modify(m) THEN Wanted(dl, m) ELSE tf[m]]
    /\ armed' = [m \in Modes |->
                   IF ~reset(m) /\ ~modify(m) THEN armed[m]
                   ELSE IF Wanted(dl, m) = None THEN None
                   ELSE [when |-> dl[m], f |-> Wanted(dl, m), seq |-> seq'[m]]]
    /\ sets' = sets + 1
    /\ UNCHANGED <<now, closing, sem, pending, toRun, waiters, upc, filevars, events>>

\* A plausible bug: the timers are deleted, but not the calls under way.
UnblockKeepsSeq ==
  /\ life = "open" /\ life' = "evicted"
  /\ Lock(Modes)
  /\ closing' = TRUE
  /\ tf' = All(None) /\ armed' = All(None)
  /\ UNCHANGED <<now, sem, deadline, seq, pending, toRun, waiters, upc, data, kernel, arrivals, opens, events, sets>>

pollUnblock ==
  /\ life = "open" /\ life' = "evicted"
  /\ Lock(Modes)
  /\ closing' = TRUE
  /\ seq' = [m \in Modes |-> seq[m] + 1]
  /\ tf' = All(None) /\ armed' = All(None)
  /\ UNCHANGED <<now, sem, deadline, pending, toRun, waiters, upc, data, kernel, arrivals, opens, events, sets>>

\* A timer calls its function,
Fire(m) ==
  /\ armed[m] # None /\ armed[m].when <= now
  /\ armed' = [armed EXCEPT ![m] = None]
  /\ pending' = pending \cup {[f |-> armed[m].f, seq |-> armed[m].seq]}
  /\ UNCHANGED <<now, closing, sem, deadline, seq, tf, lk, toRun, waiters, upc, filevars, events, sets>>

\* A plausible bug: the number for reading is compared in any case.
CurrentSeqRead(p) == seq["r"]

CurrentSeq(p) == IF "r" \in p.f THEN seq["r"] ELSE seq["w"]

\* which finds that the descriptor was reused or the timer set again, or
\* that the deadline has passed.
netpolldeadlineimpl ==
  \E p \in pending :
    /\ lk = None
    /\ pending' = pending \ {p}
    /\ IF p.seq # CurrentSeq(p) THEN UNCHANGED <<lk, deadline, tf>>
       ELSE /\ Lock(p.f)
            /\ deadline' = [m \in Modes |-> IF m \in p.f THEN -1 ELSE deadline[m]]
            /\ tf' = [m \in Modes |-> IF m \in p.f THEN None ELSE tf[m]]
    /\ UNCHANGED <<now, closing, sem, seq, armed, toRun, waiters, upc, filevars, events, sets>>

-----------------------------------------------------------------------------
(* internal/poll and the file *)

Start(m) ==
  /\ life = "open" /\ m \in Users /\ upc[m] = "idle"
  /\ Jump(m, "reset")
  /\ UNCHANGED <<sem, waiters, data>> /\ UserOnly

\* alloc and pollOpen
pollOpen ==
  /\ life = "free" /\ opens < MaxOpens
  /\ lk = None
  /\ life' = "open" /\ opens' = opens + 1
  /\ closing' = FALSE
  /\ sem' = All("nil") /\ deadline' = All(0)
  /\ seq' = [m \in Modes |-> seq[m] + 1]
  /\ data' = All(FALSE)
  /\ UNCHANGED <<now, tf, armed, lk, pending, toRun, waiters, upc, kernel, arrivals, events, sets>>

\* pollClose and free, when the last user is gone
Idle == upc = All("idle") /\ lk = None
pollClose ==
  /\ life = "evicted" /\ Idle
  /\ life' = "free"
  /\ kernel' = {}
  /\ UNCHANGED <<now, pdvars, lk, pending, toRun, waiters, upc, data, arrivals, opens, events, sets>>

\* Input arrives, or there is room for output again.
Arrive(m) ==
  /\ life # "free" /\ arrivals < MaxArrivals
  /\ arrivals' = arrivals + 1
  /\ data' = [data EXCEPT ![m] = TRUE]
  /\ kernel' = kernel \cup {m}
  /\ UNCHANGED <<now, pdvars, lk, pending, toRun, waiters, upc, life, opens, events, sets>>

Tick ==
  /\ now < MaxTime
  /\ now' = now + 1
  /\ UNCHANGED <<pdvars, lk, pending, toRun, waiters, upc, filevars, events, sets>>

-----------------------------------------------------------------------------

UserStep(m) ==
  \/ CheckClosing(m) \/ pollReset(m) \/ Try(m) \/ pollWait(m) \/ netpollblock(m)
  \/ Recheck(m) \/ netpollblockcommit(m) \/ Xchg(m)

Poller(m) == netpoll(m) \/ netpollready(m)
Locked == Unlock \/ \E m \in Modes : UnblockNext(m)

Next ==
  \/ \E m \in Modes : UserStep(m) \/ goready(m) \/ Poller(m) \/ Fire(m) \/ Start(m) \/ Arrive(m)
  \/ Locked \/ netpolldeadlineimpl
  \/ pollSetDeadline \/ pollUnblock \/ pollOpen \/ pollClose \/ Tick

Spec == Init /\ [][Next]_vars

\* Goroutines run, due timers fire, their functions and the holder of the
\* lock go on, and the scheduler polls.  Nobody need read, close or set.
FairSpec ==
  /\ Spec
  /\ \A m \in Modes : /\ WF_vars(UserStep(m)) /\ WF_vars(goready(m))
                      /\ WF_vars(Poller(m)) /\ WF_vars(Fire(m))
  /\ WF_vars(Locked) /\ SF_vars(netpolldeadlineimpl)

-----------------------------------------------------------------------------
(* Properties *)

\* Types: the pollDesc, the semaphores and the queue of goroutines to be made
\* ready hold what their declarations allow.
TypeOK ==
  /\ now \in 0 .. MaxTime /\ closing \in BOOLEAN
  /\ sem \in [Modes -> {"nil", "Ready", "Wait", "G"}]
  /\ deadline \in [Modes -> Int] /\ seq \in [Modes -> Nat]
  /\ \A m \in Modes : tf[m] # None => tf[m] \subseteq Modes
  /\ toRun \subseteq Modes \X BOOLEAN /\ waiters \in Nat
  /\ life \in {"free", "open", "evicted"}

Holders(m) == (IF sem[m] = "G" THEN {"sem"} ELSE {})
  \cup (IF lk # None /\ m \in lk.got THEN {"lock"} ELSE {})
  \cup (toRun \cap ({m} \X BOOLEAN))

\* A semaphore says Wait only while its goroutine is about to park; a parked
\* goroutine is in exactly one place from where it will be made ready, so that
\* it is neither lost nor made ready twice.
SemaphoresRight ==
  \A m \in Modes :
    /\ sem[m] = "Wait" => upc[m] \in {"recheck", "recheckD", "commit", "xchg"}
    /\ IF upc[m] = "parked" THEN \E h \in Holders(m) : Holders(m) = {h} ELSE Holders(m) = {}

\* None of the throws of netpoll.go is reached: double wait, corrupted
\* polldesc, blocked on a free or closing polldesc, inconsistent deadline.
NoThrow ==
  /\ \A m \in Modes : upc[m] = "block" => sem[m] \in {"nil", "Ready"}
  /\ \A m \in Modes : upc[m] = "xchg" => sem[m] # "G"
  /\ life = "free" \/ (life = "evicted" /\ Idle) => \A m \in Modes : sem[m] \in {"nil", "Ready"}
  /\ lk = None => \A p \in pending : p.seq = CurrentSeq(p) =>
       \A m \in p.f : deadline[m] > 0 /\ (tf[m] # None \/ (m = "w" /\ "r" \in p.f))

\* A deadline in the future has its timer, or a call of its function that is
\* not stale.
TimersRight ==
  \A m \in Modes :
    /\ Wanted(deadline, m) = tf[m] \/ closing
    /\ tf[m] # None =>
         \/ armed[m] = [when |-> deadline[m], f |-> tf[m], seq |-> seq[m]]
         \/ armed[m] = None /\ [f |-> tf[m], seq |-> seq[m]] \in pending
    /\ tf[m] = None => armed[m] = None

\* netpollWaiters is never less than the number of the goroutines parked, or
\* the scheduler might not poll for them.  (It may be more: netpollready does
\* not count those it takes off, so that the count is not exact.)
WaitersCounted == Cardinality({m \in Modes : upc[m] = "parked"}) <= waiters

\* What the poller's semaphores, timers and counter keep.
PollStructure == TypeOK /\ SemaphoresRight /\ NoThrow /\ TimersRight /\ WaitersCounted

\* A deadline passes only when its time has come: no stale call of a timer
\* function, of an earlier deadline or of an earlier use of the descriptor,
\* makes a later operation time out.
NoEarlyTimeout ==
  [][\A m \in Modes : pending' # pending /\ deadline'[m] # deadline[m] =>
       life = "open" /\ deadline[m] > 0 /\ deadline[m] <= now]_vars

\* Nobody stays parked on a file that is closing, past its deadline, or with
\* something to read or room to write: neither a wakeup nor an edge of the
\* kernel is lost between the look at the errors and the parking.  Nor does
\* anybody sleep past a deadline that nobody moves.
BlockedReturn ==
  \A m \in Users :
    LET due == deadline[m] > 0 /\ now >= deadline[m] IN
    /\ (upc[m] = "parked" /\ (closing \/ deadline[m] < 0 \/ data[m])) ~> (upc[m] # "parked")
    /\ (upc[m] = "parked" /\ due) ~> (upc[m] # "parked" \/ ~due)
=============================================================================
