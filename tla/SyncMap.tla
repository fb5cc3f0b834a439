------------------------------ MODULE SyncMap ------------------------------
(***************************************************************************)
(* sync.Map (sync/map.go).  A map value points to an entry, and only an    *)
(* entry's p changes, by an atomic operation; m.read is replaced as a      *)
(* whole, m.dirty and m.misses are only used with m.mu.  An action is one  *)
(* atomic operation on m.read or on an entry, with the local computation   *)
(* around it.  A CompareAndSwap loop is one action, since a failed round   *)
(* changes nothing.  A critical section in which only one operation can be *)
(* seen from outside is one action; the others keep m.mu from action to    *)
(* action.                                                                 *)
(***************************************************************************)
EXTENDS Naturals, FiniteSets

CONSTANTS Gs,          \* goroutines
          Does,        \* Does[g]: the calls that g makes
          Keys, Vals,
          Slots,       \* the memory for the entries of one key
          Nil,         \* p == nil
          Expunged,    \* p == expunged
          NoEntry      \* a map has no entry for a key

ASSUME MapConstants ==
  /\ Nil \notin Vals \cup {Expunged}
  /\ Nil \notin Keys
  /\ Expunged \notin Vals
  /\ NoEntry \notin Keys \X Slots
ASSUME KeysFinite == IsFiniteSet(Keys)

VARIABLES
  read,      \* m.read: the fields m (an entry or NoEntry for each key) and amended
  dirty,     \* m.dirty: isNil, and its entries m
  misses,    \* m.misses
  p,         \* p[e], of the entries in use
  pc,        \* pc[g]: where g is in a call; "insert", "copy" and "miss" hold m.mu
  call,      \* call[g]: the operation, its key and its value
  held,      \* held[g]: the entries in g's local variables, by key
  out,       \* <<g, r>> when the last step gave g the answer r or showed it r in a Range
  seen       \* seen[g][k]: the values k has had since g's call began (a history variable)

vars == <<read, dirty, misses, p, pc, call, held, out, seen>>

\* An entry's address; which free one a new entry gets does not matter.
Entries == Keys \X Slots

NoEntries == [k \in Keys |-> NoEntry]
NoCall == [op |-> "none", key |-> Nil, val |-> Nil]
Calls ==
  [op : {"Load", "Delete"}, key : Keys, val : {Nil}]
    \cup [op : {"Store", "LoadOrStore"}, key : Keys, val : Vals]
    \cup {[op |-> "Range", key |-> Nil, val |-> Nil]}

Init ==
  /\ read = [m |-> NoEntries, amended |-> FALSE]
  /\ dirty = [isNil |-> TRUE, m |-> NoEntries]
  /\ misses = 0
  /\ p = [e \in {} |-> Nil]
  /\ pc = [g \in Gs |-> "idle"]
  /\ call = [g \in Gs |-> NoCall]
  /\ held = [g \in Gs |-> NoEntries]
  /\ out = Nil
  /\ seen = [g \in Gs |-> [k \in Keys |-> {}]]

In(m) == {m[k] : k \in Keys} \ {NoEntry}
Size(m) == Cardinality({k \in Keys : m[k] # NoEntry})
Live == In(read.m) \cup In(dirty.m) \cup UNION {In(held[g]) : g \in Gs}

\* The collector frees the entries that nothing points to any more.
Keep == p' = [e \in Live' |-> p[e]]
Put(e, v) == p' = [x \in Live' |-> IF x = e THEN v ELSE p[x]]

\* entry.load
load(e) == IF e = NoEntry \/ p[e] = Expunged THEN Nil ELSE p[e]

Locked == \E g \in Gs : pc[g] \in {"insert", "copy", "miss"}

Key(g) == call[g].key
Ent(g) == held[g][Key(g)]
Jump(g, at) == pc' = [pc EXCEPT ![g] = at]
Hold(g, m) == held' = [held EXCEPT ![g] = m]
HoldOne(g, e) == Hold(g, [NoEntries EXCEPT ![Key(g)] = e])
Drop(g) == Hold(g, NoEntries)

\* The call's answer is fixed; the call goes on at "miss" only to clean up.
Answer(g, r, at) ==
  /\ Jump(g, at)
  /\ call' = [call EXCEPT ![g] = NoCall]
  /\ out' = <<g, r>>
  /\ Drop(g)

-----------------------------------------------------------------------------
(* The fast paths *)

\* Every operation first loads m.read and looks its key up.
Begin(g) ==
  /\ pc[g] = "idle"
  /\ \E c \in Calls \cap Does[g] :
       /\ call' = [call EXCEPT ![g] = c]
       /\ \/ /\ c.op = "Range"
             /\ Jump(g, IF read.amended THEN "lock" ELSE "range")
             /\ Hold(g, IF read.amended THEN NoEntries ELSE read.m)
          \/ /\ c.op # "Range"
             /\ Jump(g, IF /\ read.m[c.key] = NoEntry
                           /\ read.amended \/ c.op \in {"Store", "LoadOrStore"}
                        THEN "lock" ELSE "entry")
             /\ Hold(g, [NoEntries EXCEPT ![c.key] = read.m[c.key]])
  /\ out' = Nil
  /\ UNCHANGED <<read, dirty, misses>>
  /\ Keep

At(g, at, op) == pc[g] = at /\ call[g].op = op

\* The end of Load.
LoadEntry(g) ==
  /\ At(g, "entry", "Load")
  /\ Answer(g, load(Ent(g)), "idle")
  /\ UNCHANGED <<read, dirty, misses>>
  /\ Keep

\* tryStore: an expunged entry is left to the slow path.
TryStore(g) ==
  /\ At(g, "entry", "Store")
  /\ UNCHANGED <<read, dirty, misses>>
  /\ \/ /\ p[Ent(g)] = Expunged
        /\ Jump(g, "lock")
        /\ Drop(g)
        /\ UNCHANGED call /\ out' = Nil
        /\ Keep
     \/ /\ p[Ent(g)] # Expunged
        /\ Answer(g, Nil, "idle")
        /\ Put(Ent(g), call[g].val)

\* What tryLoadOrStore does with an entry that is not expunged.
LoadOrPut(g, e, at) ==
  \/ /\ p[e] = Nil
     /\ Answer(g, call[g].val, at)
     /\ Put(e, call[g].val)
  \/ /\ p[e] # Nil
     /\ Answer(g, p[e], at)
     /\ Keep

TryLoadOrStore(g) ==
  /\ At(g, "entry", "LoadOrStore")
  /\ UNCHANGED <<read, dirty, misses>>
  /\ \/ /\ p[Ent(g)] = Expunged
        /\ Jump(g, "lock")
        /\ Drop(g)
        /\ UNCHANGED call /\ out' = Nil
        /\ Keep
     \/ p[Ent(g)] # Expunged /\ LoadOrPut(g, Ent(g), "idle")

\* entry.delete
DeleteEntry(g) ==
  /\ At(g, "entry", "Delete")
  /\ Answer(g, Nil, "idle")
  /\ UNCHANGED <<read, dirty, misses>>
  /\ IF load(Ent(g)) = Nil THEN Keep ELSE Put(Ent(g), Nil)

-----------------------------------------------------------------------------
(* The slow paths: m.mu.Lock() and a second look at m.read *)

Promote ==
  /\ read' = [m |-> dirty.m, amended |-> FALSE]
  /\ dirty' = [isNil |-> TRUE, m |-> NoEntries]
  /\ misses' = 0

missLocked ==
  IF misses + 1 < Size(dirty.m)
  THEN misses' = misses + 1 /\ UNCHANGED <<read, dirty>>
  ELSE Promote

\* Load, until it unlocks.
LoadLocked(g) ==
  LET k == Key(g) IN
  /\ At(g, "lock", "Load") /\ ~Locked
  /\ \/ /\ read.m[k] = NoEntry /\ read.amended
        /\ HoldOne(g, dirty.m[k])
        /\ missLocked
     \/ /\ read.m[k] # NoEntry \/ ~read.amended
        /\ HoldOne(g, read.m[k])
        /\ UNCHANGED <<read, dirty, misses>>
  /\ Jump(g, "entry")
  /\ UNCHANGED call /\ out' = Nil
  /\ Keep

\* Delete: a key that is only in m.dirty is deleted there.
DeleteLocked(g) ==
  LET k == Key(g) IN
  /\ At(g, "lock", "Delete") /\ ~Locked
  /\ \/ /\ read.m[k] = NoEntry /\ read.amended
        /\ dirty' = [dirty EXCEPT !.m[k] = NoEntry]
        /\ Answer(g, Nil, "idle")
     \/ /\ read.m[k] # NoEntry \/ ~read.amended
        /\ HoldOne(g, read.m[k])
        /\ Jump(g, "entry")
        /\ UNCHANGED <<dirty, call>> /\ out' = Nil
  /\ UNCHANGED <<read, misses>>
  /\ Keep

\* Store and LoadOrStore of a key that m.read has: unexpungeLocked, which
\* only m.mu's holder may do, or the operation on the entry.
UpdateRead(g) ==
  LET e == read.m[Key(g)] IN
  /\ pc[g] = "lock" /\ ~Locked
  /\ call[g].op \in {"Store", "LoadOrStore"}
  /\ e # NoEntry
  /\ UNCHANGED <<read, dirty, misses>>
  /\ \/ /\ p[e] = Expunged
        /\ Jump(g, "insert")
        /\ HoldOne(g, e)
        /\ Put(e, Nil)
        /\ UNCHANGED call /\ out' = Nil
     \/ /\ p[e] # Expunged
        /\ \/ /\ call[g].op = "Store"
              /\ Answer(g, Nil, "idle")
              /\ Put(e, call[g].val)
           \/ call[g].op = "LoadOrStore" /\ LoadOrPut(g, e, "idle")

\* A Store that forgets to put the entry back into m.dirty.
InsertForgets(g) ==
  LET e == Ent(g) IN
  /\ pc[g] = "insert"
  /\ UNCHANGED <<read, dirty, misses>>
  /\ \/ /\ call[g].op = "Store"
        /\ Answer(g, Nil, "idle")
        /\ Put(e, call[g].val)
     \/ call[g].op = "LoadOrStore" /\ LoadOrPut(g, e, "idle")

\* m.dirty[key] = e and the operation on the entry.
Insert(g) ==
  LET e == Ent(g) IN
  /\ pc[g] = "insert"
  /\ dirty' = [dirty EXCEPT !.m[Key(g)] = e]
  /\ UNCHANGED <<read, misses>>
  /\ \/ /\ call[g].op = "Store"
        /\ Answer(g, Nil, "idle")
        /\ Put(e, call[g].val)
     \/ call[g].op = "LoadOrStore" /\ LoadOrPut(g, e, "idle")

\* Store and LoadOrStore of a key that only m.dirty has.
UpdateDirty(g) ==
  LET e == dirty.m[Key(g)] IN
  /\ pc[g] = "lock" /\ ~Locked
  /\ call[g].op \in {"Store", "LoadOrStore"}
  /\ read.m[Key(g)] = NoEntry /\ e # NoEntry
  /\ UNCHANGED <<read, dirty, misses>>
  /\ \/ /\ call[g].op = "Store"
        /\ Answer(g, Nil, "idle")
        /\ Put(e, call[g].val)
     \/ call[g].op = "LoadOrStore" /\ LoadOrPut(g, e, "miss")

\* LoadOrStore then calls missLocked.
Miss(g) ==
  /\ pc[g] = "miss"
  /\ missLocked
  /\ Jump(g, "idle")
  /\ UNCHANGED <<call, held>> /\ out' = Nil
  /\ Keep

\* A new key.  dirtyLocked makes m.dirty out of m.read unless it is there.
NewKey(g) ==
  /\ pc[g] = "lock" /\ ~Locked
  /\ call[g].op \in {"Store", "LoadOrStore"}
  /\ read.m[Key(g)] = NoEntry /\ dirty.m[Key(g)] = NoEntry
  /\ Jump(g, "copy")
  /\ IF ~read.amended /\ dirty.isNil
     THEN Hold(g, read.m) /\ dirty' = [dirty EXCEPT !.isNil = FALSE]
     ELSE UNCHANGED <<held, dirty>>
  /\ UNCHANGED <<read, misses, call>> /\ out' = Nil
  /\ Keep

\* A dirtyLocked that leaves deleted entries out without expunging them.
CopyEntryNil(g) ==
  /\ pc[g] = "copy"
  /\ UNCHANGED <<read, misses, pc, call>> /\ out' = Nil
  /\ \E k \in Keys :
       LET e == held[g][k] IN
       /\ e # NoEntry
       /\ Hold(g, [held[g] EXCEPT ![k] = NoEntry])
       /\ IF p[e] \in {Nil, Expunged} THEN UNCHANGED dirty ELSE dirty' = [dirty EXCEPT !.m[k] = e]
       /\ Keep

\* One round of dirtyLocked's loop: tryExpungeLocked, and the entry is
\* copied unless it is expunged.
CopyEntry(g) ==
  /\ pc[g] = "copy"
  /\ UNCHANGED <<read, misses, pc, call>> /\ out' = Nil
  /\ \E k \in Keys :
       LET e == held[g][k] IN
       /\ e # NoEntry
       /\ Hold(g, [held[g] EXCEPT ![k] = NoEntry])
       /\ \/ /\ p[e] \in {Nil, Expunged}
             /\ UNCHANGED dirty
             /\ Put(e, Expunged)
          \/ /\ p[e] \notin {Nil, Expunged}
             /\ dirty' = [dirty EXCEPT !.m[k] = e]
             /\ Keep

\* m.read is marked as amended and the new entry goes to m.dirty.
AddKey(g) ==
  LET free == {i \in Slots : <<Key(g), i>> \notin Live}
      e == <<Key(g), CHOOSE i \in free : TRUE>> IN
  /\ pc[g] = "copy"
  /\ held[g] = NoEntries
  /\ free # {}
  /\ read' = [read EXCEPT !.amended = TRUE]
  /\ dirty' = [dirty EXCEPT !.m[Key(g)] = e]
  /\ Answer(g, IF call[g].op = "Store" THEN Nil ELSE call[g].val, "idle")
  /\ UNCHANGED misses
  /\ Put(e, call[g].val)

\* Range promotes m.dirty, unless somebody else did.
RangeLocked(g) ==
  /\ At(g, "lock", "Range") /\ ~Locked
  /\ \/ /\ read.amended
        /\ Hold(g, dirty.m)
        /\ Promote
     \/ /\ ~read.amended
        /\ Hold(g, read.m)
        /\ UNCHANGED <<read, dirty, misses>>
  /\ Jump(g, "range")
  /\ UNCHANGED call /\ out' = Nil
  /\ Keep

\* One round of Range's loop; f may end it.
RangeEntry(g) ==
  /\ pc[g] = "range"
  /\ \E k \in Keys :
       LET v == load(held[g][k]) IN
       /\ held[g][k] # NoEntry
       /\ \/ /\ Hold(g, [held[g] EXCEPT ![k] = NoEntry])
             /\ out' = IF v = Nil THEN Nil ELSE <<g, v>>
             /\ UNCHANGED <<pc, call>>
          \/ v # Nil /\ Answer(g, v, "idle")
  /\ UNCHANGED <<read, dirty, misses>>
  /\ Keep

RangeEnd(g) ==
  /\ pc[g] = "range"
  /\ held[g] = NoEntries
  /\ Answer(g, Nil, "idle")
  /\ UNCHANGED <<read, dirty, misses>>
  /\ Keep

-----------------------------------------------------------------------------

\* What the map holds: m.read's entries, and m.dirty's for the other keys.
Content == [k \in Keys |-> IF read.m[k] # NoEntry THEN load(read.m[k]) ELSE load(dirty.m[k])]

Watch ==
  seen' = [g \in Gs |-> [k \in Keys |->
             IF call'[g].key = k \/ call'[g].op = "Range"
             THEN seen[g][k] \cup {Content'[k]} ELSE {}]]

Fast(g) == Begin(g) \/ LoadEntry(g) \/ TryStore(g) \/ TryLoadOrStore(g) \/ DeleteEntry(g)
Slow(g) ==
  \/ LoadLocked(g) \/ DeleteLocked(g) \/ UpdateRead(g) \/ Insert(g) \/ UpdateDirty(g)
  \/ Miss(g) \/ NewKey(g) \/ CopyEntry(g) \/ AddKey(g)
Ranging(g) == RangeLocked(g) \/ RangeEntry(g) \/ RangeEnd(g)

Next == (\E g \in Gs : Fast(g) \/ Slow(g) \/ Ranging(g)) /\ Watch

Spec == Init /\ [][Next]_vars
-----------------------------------------------------------------------------
(* Properties *)

\* Types; and m.mu is held by one goroutine at a time.
TypeOK ==
  /\ read \in [m : [Keys -> Entries \cup {NoEntry}], amended : BOOLEAN]
  /\ dirty \in [isNil : BOOLEAN, m : [Keys -> Entries \cup {NoEntry}]]
  /\ misses \in 0 .. Cardinality(Keys)
  /\ p \in [Live -> Vals \cup {Nil, Expunged}]
  /\ pc \in [Gs -> {"idle", "entry", "lock", "insert", "copy", "miss", "range"}]
  /\ call \in [Gs -> Calls \cup {NoCall}]
  /\ held \in [Gs -> [Keys -> Entries \cup {NoEntry}]]
  /\ out \in {Nil} \cup (Gs \X (Vals \cup {Nil}))
  /\ \A g, h \in Gs : {pc[g], pc[h]} \subseteq {"insert", "copy", "miss"} => g = h

Copying == \E g \in Gs : pc[g] = "copy"

\* What the code keeps of the comment on entry.p (map.go:52-58): an entry of m.read that
\* a non-nil m.dirty lacks is an expunged one, and m.dirty has every other.  Until the
\* critical section ends there are exceptions: an entry that dirtyLocked has yet to
\* copy, and one that unexpungeLocked has made usable before m.dirty[key] = e (map.go:58
\* says after; a TryStore may write it in between).  An entry that is nil may well be in
\* a m.dirty (map.go:53 says there is none then): Delete empties it without the lock.
DirtyComplete ==
  ~dirty.isNil =>
    \A k \in Keys : read.m[k] # NoEntry =>
      \/ dirty.m[k] = read.m[k] /\ p[read.m[k]] # Expunged
      \/ /\ dirty.m[k] = NoEntry
         /\ \/ p[read.m[k]] = Expunged
            \/ \E g \in Gs : /\ held[g][k] = read.m[k]
                             /\ pc[g] = "copy" \/ (pc[g] = "insert" /\ Key(g) = k)

\* Without m.dirty nothing is expunged; outside the critical sections m.read
\* is marked as amended exactly while there is an m.dirty, and where m.dirty
\* is assigned to, it is there (or the assignment panics).
DirtyThere ==
  /\ dirty.isNil => dirty.m = NoEntries /\ \A e \in In(read.m) : p[e] # Expunged
  /\ ~Copying => (read.amended <=> ~dirty.isNil)
  /\ \A g \in Gs : pc[g] \in {"insert", "copy", "miss"} => ~dirty.isNil

\* An entry that the map has lost is never written again: it is expunged,
\* unless a Load found it in m.dirty before a Delete removed it there.
LostEntries ==
  \A e \in Live : e \in In(read.m) \cup In(dirty.m) \/ p[e] = Expunged
    \/ \A g \in Gs : e \in In(held[g]) => call[g].op \in {"Load", "Range"}

\* What m.mu, the atomic operations and the expunged marks keep between
\* m.read, m.dirty and the entries.  It is what the code relies on, and less than the
\* comment on entry.p says: see DirtyComplete.
MapStructure == TypeOK /\ DirtyComplete /\ DirtyThere /\ LostEntries

\* The keys that g's Range has yet to decide about.
Left == [g \in Gs |-> IF call[g].op # "Range" THEN {}
                      ELSE IF pc[g] = "lock" THEN Keys
                      ELSE {k \in Keys : held[g][k] # NoEntry}]

CM == INSTANCE ConcurrentMap WITH content <- Content, left <- Left

\* sync.Map is the map of module ConcurrentMap: in particular a Load that
\* uses a m.read from before a promotion answers with something current.
ImplementsMap == CM!MapSpec
=============================================================================
