# Synchronization in the Go standard library: models, checks and proofs

The repository is an annotated snapshot of the Go standard library and runtime
(version 1.14/1.15-dev).  Most of it is sequential library code.  What it has of
core logic of its own - state that several goroutines change in an order nobody
controls - is in `sync`, in the parts of `runtime` that put goroutines to sleep and
wake them - semaphores, channels and `select`, timers, the network poller.  This
directory models those parts in TLA+, checks them with TLC and proves the central
ones with TLAPS.

## 1. Inventory

| Component | State it keeps | Operations | What makes it hard | What makes it correct |
|---|---|---|---|---|
| runtime semaphores (`runtime/sema.go:1-444`) | the count at an address, `nwait` and the waiter lists of its root, `s.ticket` of a sudog | `semacquire1`, `semrelease1` | count and `nwait` are accessed without `root.lock`; a dequeued sudog is used after the unlock; woken waiters compete with newcomers | no sleeper beside a unit nobody is looking after, nobody woken twice, units conserved |
| `sync.Mutex` | one word: locked, woken, starving, waiter count | `Lock`, `Unlock` | every CAS rewrites all four from a possibly stale load; two modes with a switch by the owner | exclusion, exact waiter count, no throw, a free mutex that is wanted is taken |
| `sync.RWMutex` | a Mutex, two semaphores, `readerCount`, `readerWait` | `RLock`, `RUnlock`, `Lock`, `Unlock` | readers leave before the writer has counted them; units released for one generation are taken by the next | exclusion, the writer waits for exactly the readers it found, nobody waits for ever |
| `sync.WaitGroup` | one 64-bit word (counter, waiters), a semaphore | `Add`, `Done`, `Wait` | the reset is a plain store; reuse races with waiters that have just been woken | one unit per counted waiter, no `Wait` returns early, no panic for a client that keeps the rules |
| `sync.Cond` with `notifyList` (`runtime/sema.go:446-601`) | tickets `wait` and `notify`, the list | `Wait`, `Signal`, `Broadcast` | tickets taken in one order, listed in another; a lock-free fast path; wraparound | first-ticket-first-woken, each once, none sleeps on a called ticket |
| channels and `select` (`runtime/chan.go`, `runtime/select.go`) | per channel a ring buffer, two queues of sudogs, closed, lock; per goroutine `selectDone`, `param` | send, receive, close, select, and the non-blocking forms | a select waits in several queues and leaves stale sudogs; locks of several channels; lock-free fast paths racing with close | values neither lost, doubled nor overtaken; each operation commits one case; no deadlock on channel locks |
| `sync.Map` | read-only and dirty map, misses, entries that are nil or expunged | `Load`, `Store`, `LoadOrStore`, `Delete`, `Range` | entries change without the lock while maps are copied, expunged and promoted with it | every operation takes effect once, at a moment of its call |
| the deque of `sync.Pool` (`poolqueue.go`) | a chain of rings, each with head and tail packed into one word | `pushHead`, `popHead`, `popTail` | owner and stealers race for the last element; slots and dequeues are given back late; indexes wrap around | each value popped once, newest by the owner, oldest by the others |
| `sync.Once`, `atomic.Value` | a flag, a typed pointer | `Do`; `Load`, `Store` | first call or store against concurrent ones | done before visible |
| `io.Pipe` | channels, an once-error | `Read`, `Write`, `Close` | partial writes, close on either end | bytes in order, no write lost |
| timers (`runtime/time.go`, `checkTimers` of `proc.go`) | per timer a status word, `when`, `nextwhen`, `pp`; per P a heap and three counters | `addtimer`, `deltimer`, `modtimer`; adjust, run, clear | timers are changed from elsewhere through the status word only; the counters that tell a P to look are changed apart from it | a setting runs at most once and not early, `deltimer` tells the truth, nothing due is overlooked |
| network poller (`runtime/netpoll.go`) | per descriptor `closing`, `rg`, `wg`, deadlines, their timers and sequence numbers | open, reset, wait, `SetDeadline`, unblock, close; events | readiness, deadline and close race for one parked goroutine; events and timer calls arrive after the descriptor was reused | each parked goroutine is released, once; no early timeout |
| `pool.go` of `sync.Pool` | per-P caches, victim cache | `Get`, `Put` | pinning to a P; the collector | a value is given to one caller |
| runtime mutex and note, scheduler | futex words; run queues | `lock`, `unlock`, `gopark`, `goready` | machine threads | assumed: a lock excludes, `goready` makes a parked goroutine run |
| maps, slices, strings; `io`, `bufio`, `bytes`, `strings`, `fmt`, `strconv`, `flag`, `errors`, `unicode`, `reflect`, `os`, `syscall`, `archive/tar`, allocator and collector | sequential data, or memory and the operating system | | no protocol between actors in reach of a small model | |

How they interact.  Mutex, RWMutex and WaitGroup call `semacquire1` and
`semrelease1` through the linknames of `sync/runtime.go`; RWMutex contains a Mutex;
Cond calls the `notifyList` and a client's Locker; `sync.Map` holds a Mutex;
channels, the semaphores and the network poller use the runtime's lock and
`gopark`/`goready` directly.  The network poller sets and stops timers, and a timer
calls it back; the scheduler polls the network and looks at the timers.  Shared
state between two primitives is the semaphore root (addresses that hash alike share
one lock and one `nwait`) and the heap of a P.

`PROJECT.json` lists every component with its status, and under "hazards" what in
this code is hard to test, each at its line with the property that covers it.

## 2. The modules

    Semaphore <--implements-- Sema <-- Mutex --implements--> Locker
                               ^ ^                             |
                               | +---- WaitGroup               v (field w)
                               +------ RWMutex  ------------- uses
    CondVar   <--implements-- Cond
    Channel   <--implements-- Chan <-- MCChan (constants of its runs)
    ConcurrentMap <--implements-- SyncMap   <-- MCSyncMap
    Deque         <--implements-- PoolChain <-- MCPoolChain
    TimerSet      <--implements-- Timer     <-- MCTimer
                                  Netpoll   <-- MCNetpoll
    SemaProofs EXTENDS Sema;  MutexProofs EXTENDS Mutex and SemaProofs;  SyncProofs
    EXTENDS RWMutex, WaitGroup, SemaProofs and PoolChain;  CondProofs, ChanProofs,
    SyncMapProofs, TimerProofs and NetpollProofs EXTEND their module

**Sema** models `semacquire1` and `semrelease1` with one action per atomic access to
shared memory or per critical section of `root.lock`.  The one critical section that
shares state with lock-free code - `nwait++`, second look at the count, enqueue - is
two actions, with the lock held between them (`RootFree`).  The other sections touch
nothing that is read outside the lock.  `spc[g]` is the position of goroutine g:
`lock` (before `sema.go:132`), `recheck`, `parked`, `woken`; and for a releaser
`nwait`, `deq`, `ready`.  `queue[a]` stands for the treap and its per-address lists;
only its order (FIFO, or front with `lifo`) is kept.  **Semaphore** is what
`sync/runtime.go` promises, without queues or wakeups.

**Mutex** has one action per atomic operation on `m.state`: the fast paths, each
turn of the loop of `lockSlow` (`LoadState`, `Spin`, `TryLock`), going to sleep
(`Sleep`, which calls Sema), looking at the state after it (`Wake`, `TakeHandoff`),
and `Unlock`/`unlockSlow`.  The state word is a record of its flags and its count.
Whether a waiter has waited for longer than a millisecond is a free choice, and
whether `runtime_canSpin` says yes is one too, for the first `MaxSpin` turns after the
call or a wakeup.
**Locker** is the lock it implements.

**RWMutex** uses Sema for its two semaphores, and for its field `w` the abstract
Locker, which the theorem `MutexIsLocker` justifies.  Its clients give up what they hold
only; the throws for the others (`rwmutex.go:78-81`, `127-130`) are left out.

**WaitGroup** has the 64-bit word as a record of its halves; the plain comparison and
the plain store of `waitgroup.go:82-91` are separate actions, and its panics are a phase of their own.
Delta is negative, zero or positive.  The client keeps the rules of the comment on `Add`
(`Documented`): the counter does not go below zero, and an `Add` that raises it from zero
happens only when no `Wait` of the round before is still on its way.  It keeps one more
(`Legal`): no `Add(0)` while another `Add` is between its `AddUint64` and its reset, with
waiters to release.  Without it the properties do not hold (see "Where the code and its
comments differ").

**Cond** models the list with counters modulo W in place of 2^32 and `less` on them;
the two loads of the fast paths of `notifyListNotifyAll` and `NotifyOne` are separate
actions, `NotifyAll`'s private list is readied one goroutine at a time.  The history
variables `covered` and `lag` record who was waiting when a notifier came, and by how
many tickets a goroutine has been overtaken.  **CondVar** is a FIFO condition variable.

**Chan** models `chansend`, `chanrecv`, `closechan` and `selectgo`.  An operation on
one channel is: for a non-blocking one the loads of the fast path (`Look`), the
critical section of `c.lock` (`Locked`), parking, `goready` by the peer (`Ready`, a
separate action after the unlock) and what follows `gopark` (`Woken`).  A select
takes the locks of its channels one by one in address order (`SelLock`), looks for a
ready case (`SelPass1`), parks in all queues, is woken, takes all the locks again and
removes its sudogs from the queues one by one (`SelDequeue`); `SelPass3` ends that,
starting over when a close has woken it.
A select may list the same channel and direction several times (`times`): it takes the
lock once and waits with a sudog for each.  The queues hold the goroutines of the sudogs,
so they are, as `chan.go:11-14` says, limited only by the size of the select; equal
cases are not told apart, neither by their value nor in the outcome.
`waitq.dequeue` is `Found`, `Peer` and `Rest`: it drops the sudogs of selects that
another case has woken.  Three steps of the code are folded into a neighbour because
nobody can tell them apart: releasing the locks of a select one by one is part of
the pass that ends with it (releasing later only delays others); `gp.param` and the
value for a parked peer, which are written between the unlock and `goready`, are
part of the dequeue (only the goroutine that dequeued a sudog uses it); and the
critical section of an operation on one channel is one action, also for `closechan`,
whose stores the fast path may see half done: it then either takes the lock, as it
does when it looks before the close, or sees what it would see after it.
The value goroutine g sends is g; the ring buffer is a sequence.  **Channel** is what
the language promises: every operation commits to one of its cases in one step, values
leave in the order they entered, an unbuffered channel passes a value from one
operation to another in one step.

**SyncMap** has one action per atomic operation on `m.read` or on an entry.  The heap
is explicit: a map value is a function from keys to entries, `p` the pointers of the
entries that something still points to, `held[g]` the entries in g's local variables,
so that an entry can be expunged, revived or replaced while an operation still has
it.  A loop of CompareAndSwap is one action, because a failed round changes nothing.
Three sections with `m.mu` have more than one step that others can see, and keep the
lock between them: reviving an entry and inserting it (`UpdateRead`, `Insert`), the
loop of `dirtyLocked` (`NewKey`, `CopyEntry` once per key in any order, `AddKey`), and
`LoadOrStore` on a dirty key, whose miss is counted after the answer is fixed
(`Miss`).  `Range` calls f for one entry at a time and f may end it.  **ConcurrentMap**
keeps one value per key: stores and successful deletes take effect in one step; reads
answer with what the key had at some moment of their call (`seen`), a Range key by
key, as its comment allows.

**PoolChain** models the rings and the chain of `poolqueue.go`: `elt[d]` is a
`poolChainElt` with its head, tail, slots and links; dequeues that nothing points to
are freed, also when a consumer still walks over a dropped one.  A pop is the
CompareAndSwap of `headTail` (`PopHead`, `PopTail`) and then the use of the slot, by a
consumer in two steps, for `val` and for `typ`.  The plain write of a slot is part of the
`AddUint64` that publishes it.  **Deque** is a sequence with a producer at one end and
consumers at the other.  It says exactly when a pop may fail: the producer's only if
the queue is empty, a consumer's also if something was pushed while it was looking.
The second case is real: `popTail` may find its dequeue empty and no next one although
other values were in the queue at every moment, because the producer filled, grew and
emptied in between; the comment in `poolqueue.go:291-292` ("It's empty right now") is
about the dequeue, not the queue.

**Timer** models the status protocol: a goroutine in `deltimer` or `modtimer` takes
the timer with `timerModifying` and goes through its counters and stores one by one;
an M in `checkTimers` (for its own P or to steal) works under `timersLock` on one
timer per action.  `deltimer` and `modtimer` may come for a timer that was never added.
`timerRunning` and `timerRemoving`, which their owner sets and
leaves within one step on one timer, do not show; `timerMoving` does, because
`adjusttimers` keeps timers off the heap for a while.  The heap is a set whose top is
one of the timers with the least `when`; how the slice is sifted is not modelled, but for what
it does to the loop of `adjusttimers`: when that takes a timer off, `dodeltimer` may sift
the last one above a timer already passed, and the loop skips it (`Onward`).  A
timer's function runs with the lock released (`runOneTimer`, `Relock`).  **TimerSet**
is what time.Timer's user sees: a setting in force, or none.

**Netpoll** is one descriptor that is opened, closed and reused.  The reader and the
writer go through `pollReset`, the system call, `pollWait` and `netpollblock` load by
load; `SetDeadline`, `Unblock` and the deadline functions hold `pd.lock` and unblock
one semaphore per action; events reach `netpollready`
arbitrarily late, several of one mode may be under way (`events` counts them).  The timers
are two slots that behave as TimerSet says; a function they have called waits in
`pending` with the sequence number it was armed with.  `toRun` are the goroutines that
were taken off a semaphore and have yet to be made ready.  The kernel and
`internal/poll` (not in the repository) are external: edges are reported once per
arrival, at most one goroutine reads and one writes, they begin while the file is
open, and `pollClose` comes when they are done.  An event for both directions is two
events here.

`PROJECT.json`'s "map" gives the lines of each definition.

## 3. What is checked

All the passing runs check every property named here; each property has a mutant,
a plausible bug in the code of the model, that TLC finds.

| Run | Instance | Safety | Refinement and liveness |
|---|---|---|---|
| `sema` | 3 goroutines, 2 addresses of one root, counts to 2 | `SemaTypeOK`, `ParkedOnce` (every sleeper has one way back, never two), `NoLostWakeup` (units beside a sleeper are matched by goroutines that will look), `NwaitExact` | `ImplementsSemaphore`, `SleepersServed` |
| `mutex` | 3 goroutines, one spin, both modes | `MutexTypeOK`, `MutualExclusion`, `NoThrow`, `WaitersExact` | `ImplementsLocker`, `LockAvailable` |
| `rwmutex` | 4 goroutines, each reader or writer at each call | `RWStructure` (types; `readerWait` is exact), `Exclusion` | `WriterServed`, `ReadersServed` |
| `waitgroup` | 4 goroutines, counter to 2, deltas from -2 to 2, any number of rounds | `WGStructure` (types; one unit per counted waiter, one `Add` that releases), `NoPanic` | `WaitsForZero` (an action property), `AllReleased` |
| `cond` | 3 goroutines, tickets modulo 8 | `TypeOK`, `NobodyStranded` | `ImplementsCondVar`, `NobodyPassedOver` (action property), `CalledReturn` |
| `chan` | 3 goroutines, an unbuffered channel and one with one slot, 6 kinds of operation including a select with both directions of one channel, the receive listed twice, and a third case, symmetric in the goroutines | `ChanStructure` (types; the comment `chan.go:9-18`), `LockProgress` (`sellock` cannot deadlock), `ReceiveFailsJustly`, `WakeupPending` | `ImplementsChannel` |
| `syncmap` | 3 goroutines: one stores, one does `LoadOrStore` (of another value) and `Range`, one loads and deletes; 2 keys, 4 entries per key | `MapStructure` (of the entries of `m.read` a dirty map has those that are not expunged, but for any that the holder of `m.mu` is about to put there, and no other; no entry in use is lost) | `ImplementsMap` |
| `poolchain` | a producer, 2 consumers, rings of 1, 2, 2 slots, at most 3 at a time, indexes modulo 4, 3 values that are pushed again only after they were popped | `ChainStructure` (who owns which slot; what the links say; a dropped dequeue is empty) | `ImplementsDeque` |
| `timer` | 3 goroutines, 2 Ps, a timer and a ticker, 4 calls in all, 2 ticks of the clock | `TimerStructure` (where a timer with each status is; what the counters count), `NothingOverlooked` | `ImplementsTimers` |
| `netpoll` | reader and writer, 2 settings of deadlines, 1 arrival, 2 opens, 1 tick; the largest time is 2 | `PollStructure` (a parked goroutine is in exactly one place; no throw; each deadline has its timer; `netpollWaiters` not too low) | `NoEarlyTimeout` (action property) |
| `netpoll_live` | the same with the writer only | | `BlockedReturn` |

Bounds, and why they are enough to be worth running.  Three goroutines give every
pair of operations a third that comes in between (a releaser, a sleeper and a
barging newcomer); RWMutex and WaitGroup get four, because a writer with two readers
and a second writer, or two waiters of one round, an `Add` and the next round's
`Wait`, need them.  Two addresses in one root are what makes `nwait` differ from one
queue's length.  `MaxCount` bounds the counts that the free client of Sema builds
up, `MaxDelta` the WaitGroup's counter and the deltas, up and down, `MaxSpin` the spins and `MaxQuick` the
sleeps after which a waiter is surely starving (a goroutine is starving after a
millisecond, so after finitely many sleeps; before that it is a free choice).  `W` =
8 and `MaxLag` = 4 let the tickets of three goroutines wrap around while no ticket
is overtaken by half the range.  That is a restriction: nothing in the code keeps a
goroutine that stands still between taking its ticket and looking at `notify`
(`sema.go:480`, `489`) from being overtaken by more than 2^31 tickets, with few
goroutines, and then `less` is wrong.
`MaxReaders` only has to exceed the number of goroutines, as 2^30 does.
In the runs up to `poolchain` no sequence of calls is bounded: every goroutine calls
for ever.

In `syncmap` the calls are shared out so that each slow path with `m.mu` meets a
Store, a Delete or a Load that is paused on a fast path, and so that a value tells
which of the two writing operations it is from.
`Slots` and `Elts` are only
memory: entries and dequeues that nothing points to are used again.  Four entries
for a key are enough for every operation to go on (deadlock is checked); a third
dequeue beside one that is being dropped and one being filled is what a chain of
more than two needs, and with `W` = 4, twice `dequeueLimit`, head and tail wrap
around as early as the code allows.  A producer whose dequeues are all in use waits,
where the code would allocate.  In `timer`, four calls are enough for each of
them to meet the others in the middle of a step, with a third goroutine that
deletes or resets what the first two modify; `MaxTime` = 2 lets a ticker run more than
once and a timer be moved in both directions.  In `netpoll`, two opens give
a stale event and a stale timer call something to hit, two settings a deadline that is
moved, split or joined, and one arrival an event that races with them; `MaxInt` is
reached by a deadline set after one tick.  Two bounds leave out a case, which only the
theorems cover: with one arrival there are never two events of one mode under way
(`PollerIsSound` holds for any number of arrivals; two make the run longer by an order of
magnitude), and a timer that `adjusttimers` skips (`Onward`) takes a third timer in
the model, and a heap of ten in the code, where the last one comes from below another
subtree (`TimersInOrder`, `NoTimerOverlooked` and `TimersImplement` hold for any number).
The waiters of `chan` meet a second sudog of the same goroutine in one queue; more of
them, and any select at all, are in `ChanIsSound`.

Deadlock is checked for `mutex`, `rwmutex`, `syncmap` and `poolchain`, whose clients
always can go on.  `timer`, `netpoll` and `netpoll_live` stop at their bounds.  The
others may really stop: a client may let everybody wait (on a semaphore nobody
releases, a WaitGroup nobody finishes, a channel nobody uses).

Fairness.  Weak fairness of the steps *inside* a call, per goroutine: the scheduler
is preemptive and runs every goroutine that can run, a critical section of the
runtime never blocks.  No call is ever assumed to be made, and no strong fairness of
a lock of package `sync` is assumed: `LockAvailable` and `ReadersServed` say that *somebody* gets
on, which is what the code gives.  `ClientUnlocks` of RWMutex is about the client:
a lock that was granted is given up at some time, which no lock can do without.
`netpoll_live` assumes that users, the holder of `pd.lock`, the poller, due timers
and goroutines made ready go on (weak fairness), and that a deadline function that
waits for `pd.lock` gets it at some time (strong fairness: the runtime's lock is held
for bounded sections only, so that nobody holds it again and again before a goroutine that waits).
Nobody has to set a deadline or close.  `NothingOverlooked` of Timer is the safety
form of "a timer runs when it is due": whenever a P's heap is not being worked on and
has a due timer, `checkTimers` sees a reason to look.
`WakeupPending` of Chan is a safety property on purpose: the wakeup is in the hands
of a goroutine whose next steps are unconditional.

### Where the code and its comments differ

One run checks what a comment says and shows a behaviour of the code that differs;
it breaks no safety property above.

* `mutex_handoff` (`DirectHandoff`): starvation mode is documented as a direct hand-off
  to the front of the queue (`mutex.go:53-57`).  `semrelease1` first adds the unit to
  the count and takes it back for the waiter it has dequeued only later; a newcomer
  in between gets it.

Two more show where a property above needs more, or says less, than the comments do:

* `Add(0)` of a WaitGroup.  The rules of `waitgroup.go:44-51` are about positive and
  negative deltas; they allow `Add(0)` at any time (unless lines 50-51 mean it too, with
  "new Add calls" of a WaitGroup that is reused).  The `Add` or `Done` that takes the counter to zero with w
  waiters goes on after its `AddUint64` (line 64) to reset the state (91) and to release
  w units (92-94).  An `Add(0)` in between finds v = 0 and w > 0 as well, passes the checks
  of lines 73-89, resets again and releases w units again, or meets the panic of line 87 if
  the reset came between its two looks.  "Now there can't be concurrent mutations of state"
  (line 82) misses this.  A surplus unit lets a later `Wait` return while the counter is not
  zero, and the panic of line 131 follows; the second reset can also wipe out a round that has
  begun meanwhile, so that its `Wait` is never released.  The client of the model keeps
  away from it (`Legal`); the mutant of `NoPanic` is the client that keeps the documented
  rules only (`Documented`), and it panics.
* The comment on `entry.p` of sync.Map.  It says that p == nil implies m.dirty == nil
  (`map.go:53`), but `Delete` empties an entry without the lock (`map.go:243-257`), also
  while there is a dirty map; the next `dirtyLocked` expunges it.  It says that an expunged
  entry is updated only after m.dirty[key] = e (`map.go:58`), but `unexpungeLocked` comes
  first in `Store` and `LoadOrStore` (`map.go:107`, `176`), and a `tryStore` without the lock
  may write between the two.  Neither does harm: the insertion follows before the lock is
  released, and the entry is the same.  `DirtyComplete` has both exceptions, and
  `ImplementsMap` shows that nobody can tell.  (Line 57 says `p == expunged` where
  it must mean `!=`.)

Other observations made while modelling, not checked by a run: a reader behind a
blocked `Lock` can take a unit of `readerSem` left over from the `Unlock` before
(`rwmutex.go:26-27` says it is excluded); a `Signal` whose fast path loads `wait` and
`notify` apart may wake nobody although somebody waited at every moment (what remains
true is `NobodyPassedOver`); a non-blocking send that races with `close` can fail
although a receiver waited until the close and a panic was due from then on
(`chan.go:164-168`; the argument for receives holds: `ReceiveFailsJustly`);
`netpollWaiters` (`netpoll.go:379-381`) is counted up by every goroutine that parks
and down only by `netpollgoready`, not for those that `netpoll` returns, so that it
drifts upwards and is a bound rather than a count.

## 4. What is proved

TLAPS checks every proof to the last leaf.  The theorems hold for every value of the
constants under the named assumptions, so for every number of goroutines, channels,
keys, addresses and calls.

| Module | Theorems, with the property each states |
|---|---|
| `SemaProofs` | `SemaTypes` (`SemaTypeOK`), `SemaInvariant` (`ParkedOnce` with the other two), `NwaitIsExact` (`NwaitExact`), `WakeupKept` (`NoLostWakeup`), `SemaIsSemaphore` (`ImplementsSemaphore`) |
| `MutexProofs` | `MutexTypes` (`MutexTypeOK`), `MutexSafe` (`MutualExclusion`), `NeverThrows` (`NoThrow`), `WaitersAreExact` (`WaitersExact`), `MutexIsLocker` (`ImplementsLocker`) |
| `SyncProofs` | of RWMutex: `ReaderWaitIsExact` (`RWStructure`), `WriterIsAlone` (`Exclusion`); of WaitGroup: `UnitsAreExact` (`WGStructure`), `NeverPanics` (`NoPanic`), `WaitReturnsAtZero` (`WaitsForZero`, an action property); of PoolChain: `ChainIsSound` (`ChainStructure`) |
| `CondProofs` | `CondTypes` (`TypeOK`), `NobodyIsStranded` (`NobodyStranded`), `NobodyIsPassedOver` (`NobodyPassedOver`, an action property), `NotifyListIsCondVar` (`ImplementsCondVar`) |
| `ChanProofs` | `ChanIsSound` (`ChanStructure`), `SelectsDoNotDeadlock` (`LockProgress`), `FailuresAreJust` (`ReceiveFailsJustly`), `WakeupsArePending` (`WakeupPending`), `ChanIsChannel` (`ImplementsChannel`) |
| `SyncMapProofs` | `MapIsStructured` (`MapStructure`), `MapIsConcurrentMap` (`ImplementsMap`) |
| `TimerProofs` | `TimersInOrder` (`TimerStructure`), `NoTimerOverlooked` (`NothingOverlooked`), `TimersImplement` (`ImplementsTimers`) |
| `NetpollProofs` | `PollerIsSound` (`PollStructure`), `DeadlinesPassInTime` (`NoEarlyTimeout`, an action property) |

Each module proves one inductive invariant per model, with one lemma per action, and
draws the theorems from it.  What the invariants add to the properties, and why:

* **Sema**: `SemaInv` is `SemaTypeOK`, `ParkedOnce` and `NwaitExact` together.
  `ParkedOnce` alone is not inductive: that a dequeued goroutine is parked needs the
  queues to be injective and disjoint, and that nobody else readies it needs tickets to be
  with woken goroutines only.  `NoLostWakeup` is an argument of cardinalities on top: per
  address, the count does not exceed the number of wakers while the queue is not empty,
  and every action is an instance of one of five lemmas (`Covered...`).  The easy case of
  `semrelease1` is where `NwaitExact` comes in: nwait = 0 means that nobody is queued.
  For the refinement a goroutine is waiting from its failed `cansemacquire` to its unit;
  queueing, parking and a wakeup without a unit change nothing, and that a hand-off goes
  to somebody who still waits, at the same address and without a unit, is `DequeuedParked`
  and `TicketWoken`.
* **What the users of a semaphore see** (`SemaStepView`, `SemacquireView`,
  `SemreleaseView`): no call begins or changes its direction by itself, and a step either
  takes nothing or lets one goroutine that wants a unit have one.  The proofs of Mutex,
  RWMutex and WaitGroup rest on these lemmas and on `SemaInv`, never on the queues.
* **Mutex**: `MutexInv` is about one token.  At any time there is at most one wakeup
  under way, created by the `Unlock` (or the spinning `Lock`) that sets `mutexWoken` or by
  the `Unlock` of a starving mutex; it travels through `m.sema` and is spent by the
  goroutine it wakes.  In normal mode `mutexWoken` says whether it exists, in starvation
  mode a missing `mutexLocked` does, and that keeps a starving mutex closed to all but
  the goroutine that got the unit.  `MutualExclusion` by itself says nothing about who
  may take a starving mutex and is far from inductive.  `WaitersExact` adds the count of
  those that announced themselves.  `MutexIsLocker` is what RWMutex uses in its place.
* **RWMutex**: `RWInv` is a reckoning (`Counts`): `readerCount` is the readers inside and
  behind a writer, less `MaxReaders` while a writer is pending; the units of `readerSem`
  never exceed the readers that sleep on it; a pending writer's `readerWait` is what is
  left of the readers it found, also while it has not added them yet.  The one unit of
  `writerSem` is a token (`OneToken`) that belongs to the pending writer.
* **WaitGroup**: waiters are counted at zero only while an `Add` is about to reset them
  (`RoundEnds`), and with `Legal` no `Add(0)` joins it: one `Add` at a time ends a round.
  From the `Add` that ends a round until the last of its waiters has
  returned the state is zero (`ZeroWhileServing`), so the units, published or to be
  published, can only go to the waiters of this round, and there are as many of one as
  of the other.
* **Cond**: distances on the circle of tickets.  The tickets from `notify` to `wait` have
  one owner each (`Tickets`); a goroutine on its way whose ticket was called is behind
  `notify` by its `lag` (`Lags`); the list and the notifiers' local lists share nobody
  (`Lists`); whom a notifier found waiting lies before the value of `wait` it loaded
  (`Covers`).
* **Chan**: `ChanInv` says what a position in the code implies of the operation and its
  outcome (`Placed`, `Outcomes`), that a sudog in a queue is that of a parked goroutine
  that was not served or a leftover of a select (`Queued`), that who was dequeued is
  readied by one goroutine (`Handed`) and who was not waits in the queues of all its cases
  (`Parked`), that a goroutine which a close has woken finds its channel closed and
  drained (`NobodyOnClosed`, `ByClose`), that locks are taken in order (`Locks`) and what
  the first load of a fast path has established (`FastPath`, `Looking`).  The comment of
  `chan.go:9-18`, `ChanInvariants`, is one conjunct and not inductive without the others: a
  leftover could be taken for a receiver.  `SelectsDoNotDeadlock` takes the locked channel
  that is last in the order and shows that its holder can go on.
* **SyncMap**: `MapInv` adds to `MapStructure` what the local variables of an operation
  have to do with the map: who may write to an entry got it from `m.read`, and it is still
  there or expunged (`HeldRead`).  For the refinement `SeenInv` says that every value an
  operation may still return was the key's value at some moment of the call.
* **PoolChain**: `ChainInv` has the list in terms of ranks (`Ranked`): the dequeues in
  memory are numbered in the order they were made, `next` leads one up, `prev` one down or
  nowhere, and below the tail of the chain all are empty.  What the collector reaches from
  a dequeue is then an interval (`ReachedIs`, the recursive functions of the model have no
  other solution), and what holds before a collection holds after it (`Collected`).  The
  slots: one in use holds a value, one that a pop took is out of use and no other pop's
  (`SlotsOf`, `TakesOf`).  That a push, a `popHead` and a `popTail` add or take away the
  one slot they mean, also where `head` and `tail` wrap around, is arithmetic (`HeadUp`,
  `HeadDown`, `TailUp`) and needs sizes that divide W.  A dequeue may be dropped because
  its `next` was loaded before it was found empty (`Pops`): only the newest is pushed to.
* **Timer**: `TimerInv` has ten parts.  `Where` and `Modifiers` are the status protocol: a
  status says whether the timer is in a heap, `t.pp` in which, and a timer in
  `timerModifying` belongs to one call; `Adders` says the same of the timer that an
  `addtimer` on its way through `cleantimers` has, which nobody else can touch because it
  is in no heap.  `Olds` is what a call remembers of the status it replaced, without which
  nothing can be said of a timer that is being modified.  `Holders` and `Loops` tie a
  heap's lock to who works on the heap, and the rest of a loop to that heap; `moved` has
  the timers that `adjusttimers` took off it.  `Whens` has `nextwhen` not before `when` in
  `timerModifiedLater`: such a timer may stay where it is.  `Tops` says that `timer0When`
  is the least `when` of the heap except while `clearDeletedTimers` changes times in place.
  `Counters` has `adjustTimers` and `deletedTimers` as sums over timers in a status, calls
  that are yet to count or uncount one, and what a loop has not handed in; each action
  changes them by as much as it changes the sum (`TimerTallies`, `CallTallies`).
  `TimerStructure` is read off; that its counter never falls below zero is so because it
  is a sum of sizes.  For `NothingOverlooked`, a timer that is due before its `when` is in
  `timerModifiedEarlier`, so `adjustTimers` is not zero.  For the refinement, a timer in
  `timerModifying` is armed as its old status says; only the last step of a call, and
  `runOneTimer`, change that, and `AddedInTime` says that a timer put back into a heap by
  `modtimer` already has its new time.  `runOneTimer` adds whole periods (`NextPeriod`).
* **Netpoll**: `PollInv` says that a parked goroutine is on its semaphore, with the holder
  of `pd.lock` or in `toRun` and in one of these only (`OneHolder`, `Waits`), what closing
  leaves (`Lives`), which timer a deadline has (`TimersRight`), and that a pending call of a
  timer function whose sequence number is current is due (`Calls`).

Assumptions.  `GFinite`, `KeysFinite`: finitely many goroutines and keys.  `AddrSome`,
`MuAddr`, `WgSemAddr`, `SemsDistinct`: the semaphores a primitive uses exist and differ.
`MaxCountNat`, `BoundsNat`, `MaxDeltaNat`, `NetpollConstants`: the bounds are numbers.
`MaxReadersEnough`: fewer goroutines than `rwmutexMaxReaders`, as `rwmutex.go` requires.
`WrapsLate`: the tickets' width is even and at least twice the number of goroutines;
`LagBounded`: no ticket is overtaken by half the range (`sema.go:469-470`, see the bounds
above).  `CapNat`, `OrderAll`, `OpsOK`: capacities are numbers, every channel has one place
in the locking order, an operation has a case and one that is no select has exactly one.
`MapConstants`, `NoneIsNone`: markers differ from values.  `TimerConstants`: finitely many
timers and goroutines (the counters are sizes of sets), periods are numbers, a P is no
goroutine.  `ChainConstants`, `SizesDivideW`: nil, a half-cleared slot and values differ,
`2 * dequeueLimit <= W` (`poolqueue.go:55-57`), and W and the sizes of rings, from `initSize`
up, are powers of two as `poolqueue.go:37` and `:232` ask, of which the proof needs that
each size divides W.  TLC evaluates each of them on the runs.

Only model-checked: `ImplementsDeque` of PoolChain, whose proof is not written yet; and,
out of reach of the prover, all that needs fairness: `SleepersServed`,
`LockAvailable`, `WriterServed`, `ReadersServed`, `AllReleased`, `CalledReturn`, `BlockedReturn`.  No module
declares a RECURSIVE operator.

## 5. Not modelled, and why

The treap of `sema.go:234-444` (a sequential structure under a lock) is a function
from addresses to lists.  Profiling, race detector and tracing hooks, and the
scheduling hints after a hand-off, change nothing a property sees.  The copy checker
of Cond compares an address with itself.  Of channels: nil channels (which block for
ever, or are skipped by select), `select {}`, a second close (which panics and changes
nothing), stack moves during a wait and the reflect entry points.  Memory order: every
action is sequentially consistent; the one place where the code argues about reordered
loads (`chan.go:170-172`) has both orders in `Looks`.

Of `sync.Pool`: `pool.go`, whose caches belong to Ps and whose victim cache the
collector moves with the world stopped, and `dequeueNil`, a name for a nil value.  Of
the timers: the sifting of the slices (but for `Onward`); `moveTimers`, which runs when a P is destroyed
with the world stopped; `f`, `arg` and `seq`; `time.Sleep`; how an M that sleeps until
the next timer is woken (`wakeNetPoller`, `nobarrierWakeTime`, `timeSleepUntil`),
which is the scheduler's; `checkTimers` decides and locks in one step.  Of the network
poller: `everr`, `pollWaitCanceled` (Windows only), initialisation, the allocation of
blocks of descriptors, `netpollBreak`, and everything of the platforms but the edges
they report.  Adding to `netpollWaiters` is part of the CompareAndSwap before it: nobody
acts on the counter in between without polling again.  The components of
the last rows of the inventory are left out for the reasons there and in
`PROJECT.json`.

## 6. Plan

Done, in this order: Sema with Semaphore, Mutex with Locker, RWMutex, WaitGroup, Cond
with CondVar, Chan with Channel, SyncMap with ConcurrentMap, PoolChain with Deque, Timer
with TimerSet, Netpoll; the proofs of all of them but the refinement of PoolChain.

Possible next modules, most important first: `Pool` (`pool.go`) over Deque; `Pipe`
(`io/pipe.go`) over the abstract Channel and Locker; `Once` over Locker;
`atomic.Value`; the treap of the semaphore root as functions, against a reference map;
the sleeping Ms of the timers.

Next theorem: `ImplementsDeque` of PoolChain, from `ChainInv`.
