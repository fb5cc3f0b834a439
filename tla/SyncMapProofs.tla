--------------------------- MODULE SyncMapProofs ---------------------------
(***************************************************************************)
(* Proofs about module SyncMap, for any goroutines and calls, any finite   *)
(* set of keys, any values and any memory for entries.                     *)
(***************************************************************************)
EXTENDS SyncMap, FiniteSetTheorems, TLAPS

(***************************************************************************)
(* The inductive invariant adds to MapStructure what a goroutine's local   *)
(* variables have to do with the map.                                      *)
(***************************************************************************)
Values == Vals \cup {Nil, Expunged}
OfMap == {"Load", "Delete", "Store", "LoadOrStore"}
Writers == {"Delete", "Store", "LoadOrStore"}
Inserters == {"Store", "LoadOrStore"}

\* An entry is only ever found under its own key.
Keyed(m) == \A k \in Keys : m[k] # NoEntry => m[k][1] = k

\* Where g is determines what it is doing,
CallFits(g) ==
  /\ pc[g] \in {"idle", "miss"} <=> call[g] = NoCall
  /\ pc[g] = "entry" => call[g].op \in OfMap
  /\ pc[g] \in {"insert", "copy"} => call[g].op \in Inserters
  /\ pc[g] = "range" => call[g].op = "Range"

\* and what it holds on to.
HeldFits(g) ==
  /\ Keyed(held[g])
  /\ pc[g] \in {"idle", "miss", "lock"} => held[g] = NoEntries
  /\ pc[g] = "entry" /\ call[g].op \in Inserters => Ent(g) # NoEntry
  /\ pc[g] = "insert" => /\ Ent(g) # NoEntry /\ Ent(g) = read.m[Key(g)]
                         /\ p[Ent(g)] # Expunged
  /\ pc[g] = "copy" =>
       /\ read.m[Key(g)] = NoEntry /\ dirty.m[Key(g)] = NoEntry
       /\ \A k \in Keys : held[g][k] # NoEntry =>
            held[g][k] = read.m[k] /\ dirty.m[k] = NoEntry

\* Who may write to an entry got it from m.read: it is still there, or the map
\* has lost it by a promotion and it is expunged.
HeldRead(g) ==
  call[g].op \in Writers =>
    \A k \in Keys : held[g][k] # NoEntry =>
      held[g][k] = read.m[k] \/ p[held[g][k]] = Expunged

Own(g) == CallFits(g) /\ HeldFits(g) /\ HeldRead(g)

\* m.dirty has no expunged entry, so that a promotion brings none into m.read.
DirtyLive == \A k \in Keys : dirty.m[k] # NoEntry => p[dirty.m[k]] # Expunged

MapInv ==
  /\ TypeOK
  /\ Keyed(read.m) /\ Keyed(dirty.m)
  /\ \A g \in Gs : Own(g)
  /\ DirtyLive /\ DirtyComplete /\ DirtyThere

USE DEF Values

-----------------------------------------------------------------------------
(* Entries in use *)

\* What m.read, m.dirty and the local variables name is in use.
LEMMA Used ==
  /\ \A k \in Keys : read.m[k] # NoEntry => read.m[k] \in Live
  /\ \A k \in Keys : dirty.m[k] # NoEntry => dirty.m[k] \in Live
  /\ \A g \in Gs, k \in Keys : held[g][k] # NoEntry => held[g][k] \in Live
BY DEF Live, In

LEMMA UsedPrime ==
  /\ \A k \in Keys : read'.m[k] # NoEntry => read'.m[k] \in Live'
  /\ \A k \in Keys : dirty'.m[k] # NoEntry => dirty'.m[k] \in Live'
  /\ \A g \in Gs, k \in Keys : held'[g][k] # NoEntry => held'[g][k] \in Live'
BY DEF Live, In

\* Nothing comes into use but what was in use or is in S.
LEMMA NothingNew ==
  ASSUME NEW S,
         \A k \in Keys : read'.m[k] \in Live \cup S \cup {NoEntry},
         \A k \in Keys : dirty'.m[k] \in Live \cup S \cup {NoEntry},
         \A g \in Gs, k \in Keys : held'[g][k] \in Live \cup S \cup {NoEntry}
  PROVE  Live' \subseteq Live \cup S
BY DEF Live, In

\* A step that writes to no entry.
LEMMA KeepOK ==
  ASSUME TypeOK, Keep, Live' \subseteq Live
  PROVE  /\ p' \in [Live' -> Values]
         /\ \A e \in Live' : p'[e] = p[e]
BY DEF TypeOK, Keep

\* A step that writes v to e, which may be new.
LEMMA PutOK ==
  ASSUME TypeOK, NEW e, NEW v \in Values, Put(e, v), Live' \subseteq Live \cup {e}
  PROVE  /\ p' \in [Live' -> Values]
         /\ \A x \in Live' : p'[x] = IF x = e THEN v ELSE p[x]
BY DEF TypeOK, Put

\* The types in use, apart from p's.
LEMMA Types ==
  ASSUME TypeOK
  PROVE  /\ read.m \in [Keys -> Entries \cup {NoEntry}] /\ read.amended \in BOOLEAN
         /\ dirty.m \in [Keys -> Entries \cup {NoEntry}] /\ dirty.isNil \in BOOLEAN
         /\ \A k \in Keys : read.m[k] \in Live \cup {NoEntry}
         /\ \A k \in Keys : dirty.m[k] \in Live \cup {NoEntry}
         /\ \A g \in Gs, k \in Keys : held[g][k] \in Live \cup {NoEntry}
         /\ \A e \in Live : p[e] \in Values
         /\ read = [m |-> read.m, amended |-> read.amended]
         /\ dirty = [isNil |-> dirty.isNil, m |-> dirty.m]
BY Used DEF TypeOK

\* What a call is.
LEMMA CallTypes ==
  /\ NoCall.op = "none" /\ NoCall.key = Nil /\ NoCall.val = Nil /\ NoCall \notin Calls
  /\ NoEntries \in [Keys -> Entries \cup {NoEntry}]
  /\ \A c \in Calls : /\ c.op \in OfMap \cup {"Range"}
                      /\ c.op \in OfMap <=> c.key \in Keys
                      /\ c.op \in Inserters => c.val \in Vals
BY MapConstants DEF NoCall, Calls, OfMap, Inserters, NoEntries

\* Where m.mu is held.
LEMMA LockedApart ==
  ASSUME TypeOK, NEW g \in Gs, ~Locked \/ pc[g] \in {"insert", "copy", "miss"},
         NEW h \in Gs, h # g
  PROVE  pc[h] \notin {"insert", "copy", "miss"}
BY DEF TypeOK, Locked

-----------------------------------------------------------------------------
(* Steps that leave m.read and m.dirty alone *)

\* The entries whose values can count are in use before and after.
SameExpunged == \A e \in Live \cap Live' : p'[e] = Expunged <=> p[e] = Expunged

Phase == {"idle", "entry", "lock", "insert", "copy", "miss", "range"}

\* The types of what a step of a goroutine writes to.
LocalTypes ==
  /\ p \in [Live -> Values]
  /\ pc \in [Gs -> Phase]
  /\ call \in [Gs -> Calls \cup {NoCall}]
  /\ held \in [Gs -> [Keys -> Entries \cup {NoEntry}]]
  /\ out \in {Nil} \cup (Gs \X (Vals \cup {Nil}))

\* A step of g.
OnlyOf(g) ==
  \A h \in Gs \ {g} : pc'[h] = pc[h] /\ call'[h] = call[h] /\ held'[h] = held[h]

\* A step of a goroutine outside the longer critical sections.
LEMMA Quiet ==
  ASSUME MapInv, NEW g \in Gs, UNCHANGED <<read, dirty>>, LocalTypes', OnlyOf(g),
         misses' \in 0 .. Cardinality(Keys),
         pc[g] \notin {"insert", "copy"}, pc'[g] \notin {"insert", "copy"},
         pc'[g] = "miss" => ~Locked /\ ~dirty.isNil,
         SameExpunged, Own(g)'
  PROVE  MapInv'
<1>1. /\ TypeOK /\ DirtyLive /\ DirtyComplete /\ DirtyThere
      /\ \A h \in Gs : Own(h)
  BY DEF MapInv
<1>2. TypeOK'
  <2>1. \A h, i \in Gs : {pc'[h], pc'[i]} \subseteq {"insert", "copy", "miss"} => h = i
    BY <1>1 DEF TypeOK, OnlyOf, Locked
  <2> QED BY <1>1, <2>1 DEF TypeOK, LocalTypes, Phase
<1>3. \A h \in Gs : Own(h)'
  <2> SUFFICES ASSUME NEW h \in Gs, h # g PROVE Own(h)'
    OBVIOUS
  <2>1. pc'[h] = pc[h] /\ call'[h] = call[h] /\ held'[h] = held[h] /\ Own(h)
    BY <1>1 DEF OnlyOf
  <2>2. \A k \in Keys : held[h][k] # NoEntry => held[h][k] \in Live \cap Live'
    BY <2>1, Used, UsedPrime
  <2>3. pc[h] = "insert" => Key(h) \in Keys
    BY <1>1, <2>1, CallTypes DEF Own, CallFits, TypeOK, Key, Inserters, OfMap
  <2>4. CallFits(h)' /\ HeldRead(h)'
    BY <2>1, <2>2 DEF Own, CallFits, HeldRead, SameExpunged
  <2>5. HeldFits(h)'
    BY <2>1, <2>2, <2>3 DEF Own, HeldFits, Keyed, Key, Ent, SameExpunged
  <2> QED BY <2>4, <2>5 DEF Own
<1>4. \A k \in Keys : /\ read.m[k] # NoEntry => read.m[k] \in Live \cap Live'
                      /\ dirty.m[k] # NoEntry => dirty.m[k] \in Live \cap Live'
  BY Used, UsedPrime
<1>5. DirtyLive'
  BY <1>1, <1>4 DEF DirtyLive, SameExpunged
<1>6. DirtyComplete'
  BY <1>1, <1>4 DEF DirtyComplete, SameExpunged, OnlyOf, Key
<1>7. DirtyThere'
  <2>1. Copying' <=> Copying
    BY DEF Copying, OnlyOf
  <2> QED BY <1>1, <1>4, <2>1 DEF DirtyThere, SameExpunged, OnlyOf, In
<1> QED BY <1>2, <1>3, <1>5, <1>6, <1>7 DEF MapInv

\* What MapInv says of a goroutine, in one place.
LEMMA Mine ==
  ASSUME MapInv, NEW g \in Gs
  PROVE  /\ TypeOK /\ Own(g) /\ LocalTypes /\ misses \in 0 .. Cardinality(Keys)
         /\ call[g] \in Calls \cup {NoCall}
         /\ pc[g] = "entry" => call[g].op \in OfMap /\ Key(g) \in Keys
         /\ pc[g] \in {"insert", "copy"} =>
              call[g].op \in Inserters /\ Key(g) \in Keys /\ call[g].val \in Vals
         /\ pc[g] = "lock" => call[g] \in Calls /\ held[g] = NoEntries
         /\ call[g].op \in OfMap => call[g] \in Calls /\ Key(g) \in Keys
         /\ call[g].op \in Inserters => call[g] \in Calls /\ call[g].val \in Vals
BY CallTypes
   DEF MapInv, TypeOK, Own, CallFits, HeldFits, LocalTypes, Phase, Key, OfMap, Inserters

\* An answer leaves a goroutine with nothing.
LEMMA AnswerOK ==
  ASSUME LocalTypes, NEW g \in Gs, NEW r \in Vals \cup {Nil}, NEW at \in {"idle", "miss"},
         Answer(g, r, at)
  PROVE  /\ pc' \in [Gs -> Phase] /\ pc'[g] = at
         /\ call' \in [Gs -> Calls \cup {NoCall}] /\ call'[g] = NoCall
         /\ held' \in [Gs -> [Keys -> Entries \cup {NoEntry}]] /\ held'[g] = NoEntries
         /\ out' \in {Nil} \cup (Gs \X (Vals \cup {Nil}))
         /\ OnlyOf(g) /\ Own(g)'
<1>1. /\ pc' \in [Gs -> Phase] /\ pc'[g] = at
      /\ call' \in [Gs -> Calls \cup {NoCall}] /\ call'[g] = NoCall
      /\ held' \in [Gs -> [Keys -> Entries \cup {NoEntry}]] /\ held'[g] = NoEntries
      /\ out' \in {Nil} \cup (Gs \X (Vals \cup {Nil}))
      /\ OnlyOf(g)
  BY CallTypes DEF LocalTypes, Phase, Answer, Jump, Drop, Hold, OnlyOf
<1>2. Own(g)'
  BY <1>1, CallTypes
  DEF Own, CallFits, HeldFits, HeldRead, Keyed, NoEntries, OfMap, Inserters, Writers
<1> QED BY <1>1, <1>2

\* load answers with a value.
LEMMA LoadValue ==
  ASSUME TypeOK, NEW e \in Live \cup {NoEntry}
  PROVE  load(e) \in Vals \cup {Nil}
BY Types DEF load

\* A goroutine that goes elsewhere and holds on to m.
LEMMA JumpOK ==
  ASSUME LocalTypes, NEW g \in Gs, NEW at \in Phase, Jump(g, at),
         NEW m \in [Keys -> Entries \cup {NoEntry}], Hold(g, m), UNCHANGED call, out' = Nil
  PROVE  /\ pc' \in [Gs -> Phase] /\ pc'[g] = at
         /\ call' \in [Gs -> Calls \cup {NoCall}] /\ call'[g] = call[g]
         /\ held' \in [Gs -> [Keys -> Entries \cup {NoEntry}]] /\ held'[g] = m
         /\ out' \in {Nil} \cup (Gs \X (Vals \cup {Nil}))
         /\ OnlyOf(g)
BY DEF LocalTypes, Jump, Hold, OnlyOf

LEMMA LoadEntryInv ==
  ASSUME MapInv, NEW g \in Gs, LoadEntry(g)
  PROVE  MapInv'
<1>1. /\ TypeOK /\ LocalTypes /\ misses \in 0 .. Cardinality(Keys)
      /\ pc[g] = "entry" /\ Key(g) \in Keys
      /\ Answer(g, load(Ent(g)), "idle") /\ UNCHANGED <<read, dirty, misses>> /\ Keep
  BY Mine DEF LoadEntry, At
<1>2. load(Ent(g)) \in Vals \cup {Nil}
  BY <1>1, Types, LoadValue DEF Ent
<1>3. OnlyOf(g) /\ held'[g] = NoEntries
  BY <1>1, <1>2, AnswerOK
<1>4. Live' \subseteq Live
  BY <1>1, <1>3, Types, NothingNew DEF OnlyOf, NoEntries
<1> QED BY <1>1, <1>2, <1>4, AnswerOK, KeepOK, Quiet DEF LocalTypes, SameExpunged

\* Storing a value or deleting does not change what is expunged.
LEMMA PutQuiet ==
  ASSUME TypeOK, NEW e \in Live, p[e] # Expunged, NEW v \in Vals \cup {Nil}, Put(e, v),
         Live' \subseteq Live
  PROVE  p' \in [Live' -> Values] /\ SameExpunged
<1>1. v # Expunged /\ v \in Values
  BY MapConstants
<1>2. p' \in [Live' -> Values] /\ \A x \in Live' : p'[x] = IF x = e THEN v ELSE p[x]
  BY <1>1, PutOK
<1> QED BY <1>1, <1>2 DEF SameExpunged

LEMMA KeepQuiet ==
  ASSUME TypeOK, Keep, Live' \subseteq Live
  PROVE  p' \in [Live' -> Values] /\ SameExpunged
BY KeepOK DEF SameExpunged

\* The goroutine takes hold of nothing that is not in use.
LEMMA LetGo ==
  ASSUME TypeOK, UNCHANGED <<read, dirty>>, NEW g \in Gs, OnlyOf(g),
         \A k \in Keys : held'[g][k] \in Live \cup {NoEntry}
  PROVE  Live' \subseteq Live
BY Types, NothingNew DEF OnlyOf

\* An answer on the fast path, or in a short critical section.
LEMMA AnswerQuiet ==
  ASSUME MapInv, NEW g \in Gs, UNCHANGED <<read, dirty, misses>>,
         pc[g] \notin {"insert", "copy"},
         NEW r \in Vals \cup {Nil}, Answer(g, r, "idle"),
         \/ Keep
         \/ \E e \in Live, v \in Vals \cup {Nil} : p[e] # Expunged /\ Put(e, v)
  PROVE  MapInv'
<1>1. TypeOK /\ LocalTypes /\ misses \in 0 .. Cardinality(Keys)
  BY Mine
<1>2. /\ OnlyOf(g) /\ held'[g] = NoEntries /\ pc'[g] = "idle" /\ Own(g)'
      /\ pc' \in [Gs -> Phase] /\ call' \in [Gs -> Calls \cup {NoCall}]
      /\ held' \in [Gs -> [Keys -> Entries \cup {NoEntry}]]
      /\ out' \in {Nil} \cup (Gs \X (Vals \cup {Nil}))
  BY <1>1, AnswerOK
<1>3. Live' \subseteq Live
  BY <1>1, <1>2, LetGo DEF NoEntries
<1>4. p' \in [Live' -> Values] /\ SameExpunged
  BY <1>1, <1>3, PutQuiet, KeepQuiet
<1> QED BY <1>1, <1>2, <1>4, Quiet DEF LocalTypes

\* A goroutine outside the longer critical sections goes elsewhere outside them.
LEMMA JumpQuiet ==
  ASSUME MapInv, NEW g \in Gs, UNCHANGED <<read, dirty, call>>,
         misses' \in 0 .. Cardinality(Keys), pc[g] \notin {"insert", "copy"},
         NEW at \in {"entry", "lock", "range"}, Jump(g, at), out' = Nil, Keep,
         NEW m \in [Keys -> Entries \cup {NoEntry}], Hold(g, m),
         \A k \in Keys : m[k] \in Live \cup {NoEntry},
         Own(g)'
  PROVE  MapInv'
<1>1. TypeOK /\ LocalTypes
  BY Mine
<1>2. /\ OnlyOf(g) /\ held'[g] = m /\ pc'[g] = at
      /\ pc' \in [Gs -> Phase] /\ call' \in [Gs -> Calls \cup {NoCall}]
      /\ held' \in [Gs -> [Keys -> Entries \cup {NoEntry}]]
      /\ out' \in {Nil} \cup (Gs \X (Vals \cup {Nil}))
  BY <1>1, JumpOK DEF Phase
<1>3. Live' \subseteq Live
  BY <1>1, <1>2, Types, NothingNew DEF OnlyOf
<1> QED BY <1>1, <1>2, <1>3, KeepQuiet, Quiet DEF LocalTypes

LEMMA TryStoreInv ==
  ASSUME MapInv, NEW g \in Gs, TryStore(g)
  PROVE  MapInv'
<1>1. /\ TypeOK /\ Own(g) /\ misses \in 0 .. Cardinality(Keys)
      /\ pc[g] = "entry" /\ call[g].op = "Store" /\ call[g].val \in Vals
      /\ Key(g) \in Keys /\ call[g] \in Calls /\ UNCHANGED <<read, dirty, misses>>
  BY Mine DEF TryStore, At, Inserters
<1>2. Ent(g) \in Live
  BY <1>1, Used DEF Own, HeldFits, Inserters, Ent
<1>3. CASE p[Ent(g)] = Expunged
  <2>1. Jump(g, "lock") /\ Hold(g, NoEntries) /\ UNCHANGED call /\ out' = Nil /\ Keep
    BY <1>3 DEF TryStore, Drop
  <2>2. pc'[g] = "lock" /\ held'[g] = NoEntries /\ call'[g] = call[g]
    BY <2>1, Mine, CallTypes, JumpOK DEF Phase
  <2>3. Own(g)'
    BY <1>1, <2>2, CallTypes DEF Own, CallFits, HeldFits, HeldRead, Keyed, NoEntries
  <2> QED BY <1>1, <2>1, <2>3, CallTypes, JumpQuiet DEF NoEntries
<1>4. CASE p[Ent(g)] # Expunged
  <2>1. Answer(g, Nil, "idle") /\ Put(Ent(g), call[g].val)
    BY <1>4 DEF TryStore
  <2> QED BY <1>1, <1>2, <1>4, <2>1, AnswerQuiet
<1> QED BY <1>3, <1>4

\* tryLoadOrStore of an entry that is not expunged.
LEMMA LoadOrPutQuiet ==
  ASSUME MapInv, NEW g \in Gs, call[g].op = "LoadOrStore", NEW e \in Live, p[e] # Expunged,
         NEW at, LoadOrPut(g, e, at)
  PROVE  /\ \E r \in Vals \cup {Nil} : Answer(g, r, at)
         /\ Keep \/ \E v \in Vals \cup {Nil} : Put(e, v)
<1>1. call[g].val \in Vals /\ p[e] \in Vals \cup {Nil}
  BY Mine, Types DEF Inserters
<1> QED BY <1>1 DEF LoadOrPut

LEMMA TryLoadOrStoreInv ==
  ASSUME MapInv, NEW g \in Gs, TryLoadOrStore(g)
  PROVE  MapInv'
<1>1. /\ TypeOK /\ Own(g) /\ misses \in 0 .. Cardinality(Keys)
      /\ pc[g] = "entry" /\ call[g].op = "LoadOrStore"
      /\ Key(g) \in Keys /\ call[g] \in Calls /\ UNCHANGED <<read, dirty, misses>>
  BY Mine DEF TryLoadOrStore, At, Inserters
<1>2. Ent(g) \in Live
  BY <1>1, Used DEF Own, HeldFits, Inserters, Ent
<1>3. CASE p[Ent(g)] = Expunged
  <2>1. Jump(g, "lock") /\ Hold(g, NoEntries) /\ UNCHANGED call /\ out' = Nil /\ Keep
    BY <1>3 DEF TryLoadOrStore, Drop
  <2>2. pc'[g] = "lock" /\ held'[g] = NoEntries /\ call'[g] = call[g]
    BY <2>1, Mine, CallTypes, JumpOK DEF Phase
  <2>3. Own(g)'
    BY <1>1, <2>2, CallTypes DEF Own, CallFits, HeldFits, HeldRead, Keyed, NoEntries
  <2> QED BY <1>1, <2>1, <2>3, CallTypes, JumpQuiet DEF NoEntries
<1>4. CASE p[Ent(g)] # Expunged
  <2>1. LoadOrPut(g, Ent(g), "idle")
    BY <1>4 DEF TryLoadOrStore
  <2> QED BY <1>1, <1>2, <1>4, <2>1, LoadOrPutQuiet, AnswerQuiet
<1> QED BY <1>3, <1>4

LEMMA DeleteEntryInv ==
  ASSUME MapInv, NEW g \in Gs, DeleteEntry(g)
  PROVE  MapInv'
<1>1. /\ TypeOK /\ pc[g] = "entry" /\ Key(g) \in Keys
      /\ Answer(g, Nil, "idle") /\ UNCHANGED <<read, dirty, misses>>
      /\ IF load(Ent(g)) = Nil THEN Keep ELSE Put(Ent(g), Nil)
  BY Mine DEF DeleteEntry, At
<1>2. Ent(g) \in Live \cup {NoEntry}
  BY <1>1, Types DEF Ent
<1>3. CASE load(Ent(g)) = Nil
  BY <1>1, <1>3, AnswerQuiet
<1>4. CASE load(Ent(g)) # Nil
  <2>1. Ent(g) \in Live /\ p[Ent(g)] # Expunged
    BY <1>2, <1>4 DEF load
  <2> QED BY <1>1, <1>4, <2>1, AnswerQuiet
<1> QED BY <1>3, <1>4

LEMMA BeginInv ==
  ASSUME MapInv, NEW g \in Gs, Begin(g)
  PROVE  MapInv'
<1>1. /\ TypeOK /\ Own(g) /\ LocalTypes /\ Keyed(read.m)
      /\ misses \in 0 .. Cardinality(Keys)
      /\ pc[g] = "idle" /\ Keep /\ UNCHANGED <<read, dirty, misses>> /\ out' = Nil
  BY Mine DEF Begin, MapInv
<1>2. PICK c \in Calls :
        /\ call' = [call EXCEPT ![g] = c]
        /\ \/ /\ c.op = "Range"
              /\ Jump(g, IF read.amended THEN "lock" ELSE "range")
              /\ Hold(g, IF read.amended THEN NoEntries ELSE read.m)
           \/ /\ c.op # "Range"
              /\ Jump(g, IF /\ read.m[c.key] = NoEntry
                            /\ read.amended \/ c.op \in {"Store", "LoadOrStore"}
                         THEN "lock" ELSE "entry")
              /\ Hold(g, [NoEntries EXCEPT ![c.key] = read.m[c.key]])
  BY DEF Begin
<1>3. PICK at \in {"lock", "range", "entry"} : Jump(g, at)
  BY <1>2
<1>4. PICK m \in [Keys -> Entries \cup {NoEntry}] :
        Hold(g, m) /\ \A k \in Keys : m[k] = NoEntry \/ m[k] = read.m[k]
  BY <1>1, <1>2, Types, CallTypes DEF NoEntries
<1>5. /\ pc' \in [Gs -> Phase] /\ pc'[g] = at
      /\ call' \in [Gs -> Calls \cup {NoCall}] /\ call'[g] = c
      /\ held' \in [Gs -> [Keys -> Entries \cup {NoEntry}]] /\ held'[g] = m
      /\ OnlyOf(g)
  BY <1>1, <1>2, <1>3, <1>4 DEF LocalTypes, Phase, Jump, Hold, OnlyOf
<1>6. Live' \subseteq Live
  BY <1>1, <1>4, <1>5, Types, LetGo
<1>7. Own(g)'
  <2>1. CallFits(g)'
    BY <1>1, <1>2, <1>5, CallTypes DEF CallFits, Jump, LocalTypes, OfMap
  <2>2. Keyed(m) /\ HeldRead(g)'
    BY <1>1, <1>4, <1>5 DEF HeldRead, Keyed
  <2>6. /\ at = pc'[g] /\ m = held'[g] /\ pc \in [Gs -> Phase]
        /\ held \in [Gs -> [Keys -> Entries \cup {NoEntry}]]
    BY <1>1, <1>5 DEF LocalTypes
  <2>3. at = "lock" => m = NoEntries
    <3>1. CASE c.op = "Range"
      BY <1>2, <2>6, <3>1 DEF Jump, Hold
    <3>2. CASE c.op # "Range"
      <4>1. m = [NoEntries EXCEPT ![c.key] = read.m[c.key]]
        BY <1>2, <2>6, <3>2 DEF Hold
      <4>2. at = "lock" => read.m[c.key] = NoEntry
        BY <1>2, <2>6, <3>2 DEF Jump
      <4> QED BY <4>1, <4>2 DEF NoEntries
    <3> QED BY <3>1, <3>2
  <2>4. at = "entry" /\ c.op \in Inserters => m[c.key] # NoEntry
    <3>1. CASE c.op = "Range"
      BY <3>1 DEF Inserters
    <3>2. CASE c.op # "Range"
      <4>1. c.key \in Keys
        BY <3>2, CallTypes
      <4>2. m[c.key] = read.m[c.key]
        BY <1>2, <2>6, <3>2, <4>1 DEF Hold, NoEntries
      <4> QED BY <1>2, <2>6, <3>2, <4>2 DEF Jump, Inserters
    <3> QED BY <3>1, <3>2
  <2>5. HeldFits(g)'
    BY <1>5, <2>2, <2>3, <2>4 DEF HeldFits, Ent, Key
  <2> QED BY <2>1, <2>2, <2>5 DEF Own
<1> QED BY <1>1, <1>5, <1>6, <1>7, KeepQuiet, Quiet DEF LocalTypes

LEMMA RangeEntryInv ==
  ASSUME MapInv, NEW g \in Gs, RangeEntry(g)
  PROVE  MapInv'
<1>1. /\ TypeOK /\ Own(g) /\ LocalTypes /\ misses \in 0 .. Cardinality(Keys)
      /\ pc[g] = "range" /\ call[g].op = "Range"
      /\ Keep /\ UNCHANGED <<read, dirty, misses>>
  BY Mine DEF RangeEntry, Own, CallFits
<1>2. PICK k \in Keys :
        /\ held[g][k] # NoEntry
        /\ \/ /\ Hold(g, [held[g] EXCEPT ![k] = NoEntry])
              /\ out' = IF load(held[g][k]) = Nil THEN Nil ELSE <<g, load(held[g][k])>>
              /\ UNCHANGED <<pc, call>>
           \/ load(held[g][k]) # Nil /\ Answer(g, load(held[g][k]), "idle")
  BY DEF RangeEntry
<1>3. load(held[g][k]) \in Vals \cup {Nil}
  BY <1>1, Types, LoadValue
<1>4. CASE Answer(g, load(held[g][k]), "idle")
  BY <1>1, <1>3, <1>4, AnswerQuiet
<1>5. CASE /\ Hold(g, [held[g] EXCEPT ![k] = NoEntry])
           /\ out' = IF load(held[g][k]) = Nil THEN Nil ELSE <<g, load(held[g][k])>>
           /\ UNCHANGED <<pc, call>>
  <2>1. held'[g] = [held[g] EXCEPT ![k] = NoEntry] /\ OnlyOf(g) /\ pc'[g] = "range"
    BY <1>1, <1>5 DEF Hold, OnlyOf, LocalTypes
  <2>2. LocalTypes' \/ ~(p' \in [Live' -> Values])
    BY <1>1, <1>3, <1>5 DEF LocalTypes, Hold
  <2>3. \A i \in Keys : held'[g][i] \in {NoEntry, held[g][i]}
    BY <1>1, <2>1 DEF LocalTypes
  <2>4. Live' \subseteq Live
    BY <1>1, <2>1, <2>3, Types, LetGo
  <2>5. Own(g)'
    BY <1>1, <1>5, <2>1, <2>3
    DEF Own, CallFits, HeldFits, HeldRead, Keyed, Writers
  <2> QED BY <1>1, <2>1, <2>2, <2>4, <2>5, KeepQuiet, Quiet
<1> QED BY <1>2, <1>4, <1>5

LEMMA RangeEndInv ==
  ASSUME MapInv, NEW g \in Gs, RangeEnd(g)
  PROVE  MapInv'
BY AnswerQuiet DEF RangeEnd

-----------------------------------------------------------------------------
(* Promotion *)

\* What a step that promotes m.dirty has to keep.
LEMMA PromoteInv ==
  ASSUME MapInv, Promote, ~dirty.isNil, NEW g \in Gs, OnlyOf(g), LocalTypes', Keep,
         ~Locked \/ pc[g] = "miss", pc'[g] \notin {"insert", "copy", "miss"},
         CallFits(g)', HeldFits(g)',
         call'[g].op \notin Writers,
         Live' \subseteq Live
  PROVE  MapInv'
<1>1. /\ TypeOK /\ DirtyLive /\ DirtyComplete /\ DirtyThere /\ Keyed(dirty.m)
      /\ \A h \in Gs : Own(h)
  BY DEF MapInv
<1>2. /\ read' = [m |-> dirty.m, amended |-> FALSE] /\ misses' = 0
      /\ dirty' = [isNil |-> TRUE, m |-> NoEntries]
  BY DEF Promote
<1>3. \A h \in Gs : pc'[h] \notin {"insert", "copy", "miss"}
  BY <1>1, LockedApart DEF OnlyOf
<1>4. \A e \in Live' : p'[e] = p[e]
  BY <1>1, KeepOK
<1>5. TypeOK'
  <2>1. IsFiniteSet(Keys) /\ Cardinality(Keys) \in Nat
    BY KeysFinite, FS_CardinalityType
  <2>2. misses' \in 0 .. Cardinality(Keys)
    BY <1>2, <2>1
  <2> QED BY <1>1, <1>2, <1>3, <2>2, CallTypes, Types DEF TypeOK, LocalTypes, Phase
<1>6. Keyed(read.m)' /\ Keyed(dirty.m)'
  BY <1>1, <1>2 DEF Keyed, NoEntries
<1>7. DirtyLive' /\ DirtyComplete'
  BY <1>2 DEF DirtyLive, DirtyComplete, NoEntries
<1>8. DirtyThere'
  <2>1. \A k \in Keys : read'.m[k] # NoEntry => p'[read'.m[k]] # Expunged
    BY <1>1, <1>2, <1>4, UsedPrime DEF DirtyLive
  <2> QED BY <1>2, <1>3, <2>1 DEF DirtyThere, In
<1>9. \A h \in Gs : Own(h)'
  <2>1. ASSUME NEW h \in Gs, h # g PROVE Own(h)'
    <3>1. pc'[h] = pc[h] /\ call'[h] = call[h] /\ held'[h] = held[h] /\ Own(h)
      BY <1>1, <2>1 DEF OnlyOf
    <3>2. CallFits(h)' /\ HeldFits(h)'
      BY <1>3, <2>1, <3>1 DEF Own, CallFits, HeldFits, Ent, Key
    <3>3. ASSUME NEW k \in Keys, held[h][k] = read.m[k], read.m[k] # NoEntry
          PROVE  held[h][k] = read'.m[k] \/ p[held[h][k]] = Expunged
      <4>1. \A i \in Gs : pc[i] \notin {"insert", "copy"}
        BY <1>1, LockedApart DEF Locked
      <4> QED BY <1>1, <1>2, <3>3, <4>1 DEF DirtyComplete
    <3>4. HeldRead(h)'
      <4> SUFFICES ASSUME call[h].op \in Writers, NEW k \in Keys, held[h][k] # NoEntry
                   PROVE  held[h][k] = read'.m[k] \/ p'[held[h][k]] = Expunged
        BY <3>1 DEF HeldRead
      <4>1. held[h][k] \in Live'
        BY <3>1, UsedPrime
      <4> QED BY <1>4, <3>1, <3>3, <4>1 DEF Own, HeldRead
    <3> QED BY <3>2, <3>4 DEF Own
  <2>2. Own(g)'
    BY DEF Own, HeldRead
  <2> QED BY <2>1, <2>2
<1> QED BY <1>5, <1>6, <1>7, <1>8, <1>9 DEF MapInv

\* missLocked counts up to the size of m.dirty at most.
LEMMA MissCount ==
  ASSUME TypeOK, misses + 1 < Size(dirty.m)
  PROVE  misses + 1 \in 0 .. Cardinality(Keys)
<1>1. {k \in Keys : dirty.m[k] # NoEntry} \subseteq Keys
  OBVIOUS
<1>2. Size(dirty.m) <= Cardinality(Keys) /\ Size(dirty.m) \in Nat /\ Cardinality(Keys) \in Nat
  BY <1>1, KeysFinite, FS_Subset, FS_CardinalityType DEF Size
<1> QED BY <1>2 DEF TypeOK

\* Outside the critical sections, an amended m.read means that m.dirty is there.
LEMMA DirtyIsThere ==
  ASSUME MapInv, ~Locked
  PROVE  /\ ~Copying
         /\ read.amended <=> ~dirty.isNil
         /\ dirty.isNil => dirty.m = NoEntries
         /\ ~dirty.isNil => \A k \in Keys : read.m[k] # NoEntry =>
              \/ dirty.m[k] = read.m[k] /\ p[read.m[k]] # Expunged
              \/ dirty.m[k] = NoEntry /\ p[read.m[k]] = Expunged
BY DEF MapInv, DirtyThere, DirtyComplete, Locked, Copying

-----------------------------------------------------------------------------
(* The critical sections *)

LEMMA LoadLockedInv ==
  ASSUME MapInv, NEW g \in Gs, LoadLocked(g)
  PROVE  MapInv'
<1> DEFINE k == Key(g)
<1>1. /\ TypeOK /\ Own(g) /\ LocalTypes /\ misses \in 0 .. Cardinality(Keys)
      /\ Keyed(read.m) /\ Keyed(dirty.m)
      /\ pc[g] = "lock" /\ call[g].op = "Load" /\ k \in Keys /\ ~Locked
      /\ Jump(g, "entry") /\ UNCHANGED call /\ out' = Nil /\ Keep
  BY Mine DEF LoadLocked, At, MapInv, OfMap
<1>2. PICK m \in {read.m, dirty.m} : HoldOne(g, m[k])
  BY DEF LoadLocked
<1>3. PICK n \in [Keys -> Entries \cup {NoEntry}] :
        /\ n = [NoEntries EXCEPT ![k] = m[k]]
        /\ Hold(g, n)
  BY <1>1, <1>2, Types, CallTypes DEF HoldOne
<1>4. \A i \in Keys : n[i] \in Live \cup {NoEntry} /\ (n[i] = NoEntry \/ n[i] = m[i])
  BY <1>1, <1>3, Types DEF NoEntries
<1>5. /\ pc' \in [Gs -> Phase] /\ pc'[g] = "entry"
      /\ call' \in [Gs -> Calls \cup {NoCall}] /\ call'[g] = call[g]
      /\ held' \in [Gs -> [Keys -> Entries \cup {NoEntry}]] /\ held'[g] = n
      /\ out' \in {Nil} \cup (Gs \X (Vals \cup {Nil}))
      /\ OnlyOf(g)
  BY <1>1, <1>3, JumpOK DEF Phase
<1>6. Keyed(n)
  BY <1>1, <1>4 DEF Keyed
<1>7. CallFits(g)' /\ HeldFits(g)' /\ call'[g].op \notin Writers /\ Own(g)'
  BY <1>1, <1>5, <1>6
  DEF Own, CallFits, HeldFits, HeldRead, OfMap, Inserters, Writers
<1>8. CASE UNCHANGED <<read, dirty, misses>>
  BY <1>1, <1>3, <1>4, <1>7, <1>8, JumpQuiet
<1>9. CASE read.amended /\ missLocked
  <2>1. CASE misses + 1 < Size(dirty.m)
    BY <1>1, <1>3, <1>4, <1>7, <1>9, <2>1, MissCount, JumpQuiet DEF missLocked
  <2>2. CASE ~(misses + 1 < Size(dirty.m))
    <3>1. Promote /\ ~dirty.isNil
      BY <1>1, <1>9, <2>2, DirtyIsThere DEF missLocked
    <3>2. /\ \A i \in Keys : read'.m[i] \in Live \cup {NoEntry}
          /\ \A i \in Keys : dirty'.m[i] \in Live \cup {NoEntry}
      BY <1>1, <3>1, Types DEF Promote, NoEntries
    <3>3. Live' \subseteq Live
      BY <1>1, <1>4, <1>5, <3>2, Types, NothingNew DEF OnlyOf
    <3>4. LocalTypes'
      BY <1>1, <1>5, <3>3, KeepOK DEF LocalTypes
    <3> QED BY <1>1, <1>5, <1>7, <3>1, <3>3, <3>4, PromoteInv
  <2> QED BY <2>1, <2>2
<1> QED BY <1>8, <1>9 DEF LoadLocked

LEMMA MissInv ==
  ASSUME MapInv, NEW g \in Gs, Miss(g)
  PROVE  MapInv'
<1>1. /\ TypeOK /\ Own(g) /\ LocalTypes /\ misses \in 0 .. Cardinality(Keys)
      /\ pc[g] = "miss" /\ missLocked /\ ~dirty.isNil
      /\ Jump(g, "idle") /\ UNCHANGED <<call, held>> /\ out' = Nil /\ Keep
  BY Mine DEF Miss, MapInv, DirtyThere
<1>2. call[g] = NoCall /\ held[g] = NoEntries
  BY <1>1 DEF Own, CallFits, HeldFits
<1>3. /\ pc' \in [Gs -> Phase] /\ pc'[g] = "idle"
      /\ call' \in [Gs -> Calls \cup {NoCall}] /\ call'[g] = NoCall
      /\ held' \in [Gs -> [Keys -> Entries \cup {NoEntry}]] /\ held'[g] = NoEntries
      /\ out' \in {Nil} \cup (Gs \X (Vals \cup {Nil}))
      /\ OnlyOf(g)
  BY <1>1, <1>2 DEF LocalTypes, Phase, Jump, OnlyOf
<1>4. CallFits(g)' /\ HeldFits(g)' /\ call'[g].op \notin Writers /\ Own(g)'
  BY <1>3, CallTypes
  DEF Own, CallFits, HeldFits, HeldRead, Keyed, NoEntries, Writers
<1>5. CASE misses + 1 < Size(dirty.m)
  <2>1. UNCHANGED <<read, dirty>> /\ misses' \in 0 .. Cardinality(Keys)
    BY <1>1, <1>5, MissCount DEF missLocked
  <2>2. Live' \subseteq Live
    BY <1>1, <1>3, <2>1, LetGo DEF NoEntries
  <2> QED BY <1>1, <1>3, <1>4, <2>1, <2>2, KeepQuiet, Quiet DEF LocalTypes
<1>6. CASE ~(misses + 1 < Size(dirty.m))
  <2>1. Promote
    BY <1>1, <1>6 DEF missLocked
  <2>2. /\ \A i \in Keys : read'.m[i] \in Live \cup {NoEntry}
        /\ \A i \in Keys : dirty'.m[i] \in Live \cup {NoEntry}
    BY <1>1, <2>1, Types DEF Promote, NoEntries
  <2>3. Live' \subseteq Live
    BY <1>1, <2>2, Types, NothingNew
  <2>4. LocalTypes'
    BY <1>1, <1>3, <2>3, KeepOK DEF LocalTypes
  <2> QED BY <1>1, <1>3, <1>4, <2>1, <2>3, <2>4, PromoteInv
<1> QED BY <1>5, <1>6

LEMMA RangeLockedInv ==
  ASSUME MapInv, NEW g \in Gs, RangeLocked(g)
  PROVE  MapInv'
<1>1. /\ TypeOK /\ Own(g) /\ LocalTypes /\ misses \in 0 .. Cardinality(Keys)
      /\ Keyed(read.m) /\ Keyed(dirty.m)
      /\ pc[g] = "lock" /\ call[g].op = "Range" /\ ~Locked
      /\ Jump(g, "range") /\ UNCHANGED call /\ out' = Nil /\ Keep
  BY Mine DEF RangeLocked, At, MapInv
<1>2. PICK m \in {read.m, dirty.m} : Hold(g, m)
  BY DEF RangeLocked
<1>3. m \in [Keys -> Entries \cup {NoEntry}] /\ \A i \in Keys : m[i] \in Live \cup {NoEntry}
  BY <1>1, Types
<1>4. /\ pc' \in [Gs -> Phase] /\ pc'[g] = "range"
      /\ call' \in [Gs -> Calls \cup {NoCall}] /\ call'[g] = call[g]
      /\ held' \in [Gs -> [Keys -> Entries \cup {NoEntry}]] /\ held'[g] = m
      /\ out' \in {Nil} \cup (Gs \X (Vals \cup {Nil}))
      /\ OnlyOf(g)
  BY <1>1, <1>2, <1>3, JumpOK DEF Phase
<1>5. CallFits(g)' /\ HeldFits(g)' /\ call'[g].op \notin Writers /\ Own(g)'
  BY <1>1, <1>4 DEF Own, CallFits, HeldFits, HeldRead, Writers
<1>6. CASE UNCHANGED <<read, dirty, misses>>
  BY <1>1, <1>2, <1>3, <1>5, <1>6, JumpQuiet
<1>7. CASE read.amended /\ Promote
  <2>1. ~dirty.isNil
    BY <1>1, <1>7, DirtyIsThere
  <2>2. /\ \A i \in Keys : read'.m[i] \in Live \cup {NoEntry}
        /\ \A i \in Keys : dirty'.m[i] \in Live \cup {NoEntry}
    BY <1>1, <1>7, Types DEF Promote, NoEntries
  <2>3. Live' \subseteq Live
    BY <1>1, <1>3, <1>4, <2>2, Types, NothingNew DEF OnlyOf
  <2>4. LocalTypes'
    BY <1>1, <1>4, <2>3, KeepOK DEF LocalTypes
  <2> QED BY <1>1, <1>4, <1>5, <1>7, <2>1, <2>3, <2>4, PromoteInv
<1> QED BY <1>6, <1>7 DEF RangeLocked

\* The others, when the holder of m.mu takes a step.
LEMMA OthersOwn ==
  ASSUME MapInv, NEW g \in Gs, ~Locked \/ pc[g] \in {"insert", "copy", "miss"}, OnlyOf(g),
         \A k \in Keys : \A e \in Live \cap Live' :
           /\ e[1] = k
           /\ e = read.m[k] \/ p[e] = Expunged
           => e = read'.m[k] \/ p'[e] = Expunged,
         NEW h \in Gs, h # g
  PROVE  Own(h)'
<1>1. /\ pc'[h] = pc[h] /\ call'[h] = call[h] /\ held'[h] = held[h] /\ Own(h)
      /\ pc[h] \notin {"insert", "copy", "miss"}
  BY LockedApart DEF MapInv, OnlyOf
<1>2. CallFits(h)' /\ HeldFits(h)'
  BY <1>1 DEF Own, CallFits, HeldFits, Ent, Key
<1>3. HeldRead(h)'
  <2> SUFFICES ASSUME call[h].op \in Writers, NEW k \in Keys, held[h][k] # NoEntry
               PROVE  held[h][k] = read'.m[k] \/ p'[held[h][k]] = Expunged
    BY <1>1 DEF HeldRead
  <2>1. held[h][k] \in Live \cap Live' /\ held[h][k][1] = k
    BY <1>1, Used, UsedPrime DEF Own, HeldFits, Keyed
  <2> QED BY <1>1, <2>1 DEF Own, HeldRead
<1> QED BY <1>2, <1>3 DEF Own

\* The types, when the holder of m.mu takes a step.
LEMMA HolderTypes ==
  ASSUME MapInv, NEW g \in Gs, ~Locked \/ pc[g] \in {"insert", "copy", "miss"}, OnlyOf(g),
         LocalTypes', misses' = misses,
         read' \in [m : [Keys -> Entries \cup {NoEntry}], amended : BOOLEAN],
         dirty' \in [isNil : BOOLEAN, m : [Keys -> Entries \cup {NoEntry}]]
  PROVE  TypeOK'
<1>1. \A h, i \in Gs : {pc'[h], pc'[i]} \subseteq {"insert", "copy", "miss"} => h = i
  BY LockedApart DEF MapInv, OnlyOf
<1> QED BY <1>1 DEF MapInv, TypeOK, LocalTypes, Phase

LEMMA DeleteLockedInv ==
  ASSUME MapInv, NEW g \in Gs, DeleteLocked(g)
  PROVE  MapInv'
<1> DEFINE k == Key(g)
<1>1. /\ TypeOK /\ Own(g) /\ LocalTypes /\ misses \in 0 .. Cardinality(Keys)
      /\ Keyed(read.m) /\ Keyed(dirty.m) /\ DirtyLive /\ DirtyComplete /\ DirtyThere
      /\ pc[g] = "lock" /\ call[g].op = "Delete" /\ k \in Keys /\ ~Locked
      /\ UNCHANGED <<read, misses>> /\ Keep
  BY Mine DEF DeleteLocked, At, MapInv, OfMap
<1>2. CASE /\ HoldOne(g, read.m[k]) /\ Jump(g, "entry")
           /\ UNCHANGED <<dirty, call>> /\ out' = Nil
  <2>1. PICK n \in [Keys -> Entries \cup {NoEntry}] :
          /\ n = [NoEntries EXCEPT ![k] = read.m[k]]
          /\ Hold(g, n)
    BY <1>1, <1>2, Types, CallTypes DEF HoldOne
  <2>2. \A i \in Keys : n[i] \in Live \cup {NoEntry} /\ (n[i] = NoEntry \/ n[i] = read.m[i])
    BY <1>1, <2>1, Types DEF NoEntries
  <2>3. /\ pc'[g] = "entry" /\ call'[g] = call[g] /\ held'[g] = n
    BY <1>1, <1>2, <2>1, JumpOK DEF Phase
  <2>4. Own(g)'
    BY <1>1, <2>2, <2>3
    DEF Own, CallFits, HeldFits, HeldRead, Keyed, OfMap, Inserters
  <2> QED BY <1>1, <1>2, <2>1, <2>2, <2>4, JumpQuiet
<1>3. CASE /\ read.m[k] = NoEntry /\ read.amended
           /\ dirty' = [dirty EXCEPT !.m[k] = NoEntry]
           /\ Answer(g, Nil, "idle")
  <2>1. /\ dirty'.isNil = dirty.isNil /\ ~dirty.isNil /\ dirty'.m[k] = NoEntry
        /\ \A i \in Keys : i # k => dirty'.m[i] = dirty.m[i]
        /\ dirty' \in [isNil : BOOLEAN, m : [Keys -> Entries \cup {NoEntry}]]
    BY <1>1, <1>3, Types, DirtyIsThere
  <2>2. /\ OnlyOf(g) /\ Own(g)' /\ pc'[g] = "idle" /\ held'[g] = NoEntries
        /\ LocalTypes' \/ ~(p' \in [Live' -> Values])
    BY <1>1, <1>3, AnswerOK DEF LocalTypes
  <2>3. Live' \subseteq Live
    BY <1>1, <2>1, <2>2, Types, NothingNew DEF OnlyOf, NoEntries
  <2>4. /\ LocalTypes' /\ \A e \in Live' : p'[e] = p[e]
    BY <1>1, <2>2, <2>3, KeepOK
  <2>5. TypeOK'
    BY <1>1, <2>1, <2>2, <2>4, HolderTypes DEF TypeOK
  <2>6. \A h \in Gs : Own(h)'
    BY <1>1, <2>2, <2>4, OthersOwn
  <2>7. Keyed(read.m)' /\ Keyed(dirty.m)' /\ DirtyLive'
    BY <1>1, <2>1, <2>4, UsedPrime DEF Keyed, DirtyLive
  <2>9. DirtyComplete'
    <3> SUFFICES ASSUME NEW i \in Keys, read.m[i] # NoEntry
                 PROVE  \/ dirty'.m[i] = read.m[i] /\ p'[read.m[i]] # Expunged
                        \/ dirty'.m[i] = NoEntry /\ p'[read.m[i]] = Expunged
      BY <1>1 DEF DirtyComplete
    <3>1. read.m[i] \in Live'
      BY <1>1, UsedPrime
    <3> QED BY <1>1, <1>3, <2>1, <2>4, <3>1, DirtyIsThere
  <2>8. DirtyThere'
    <3>1. ~Copying'
      BY <1>1, <2>2 DEF Copying, Locked, OnlyOf
    <3> QED BY <1>1, <1>3, <2>1, <2>2, <3>1 DEF DirtyThere, Locked, OnlyOf
  <2> QED BY <2>5, <2>6, <2>7, <2>8, <2>9 DEF MapInv
<1> QED BY <1>2, <1>3 DEF DeleteLocked

\* unexpungeLocked: the entry is m.read's, and m.dirty lacks it.
LEMMA UnexpungeInv ==
  ASSUME MapInv, NEW g \in Gs, pc[g] = "lock", ~Locked, call[g].op \in Inserters,
         NEW e, e = read.m[Key(g)], e # NoEntry, p[e] = Expunged,
         UNCHANGED <<read, dirty, misses, call>>, out' = Nil,
         Jump(g, "insert"), HoldOne(g, e), Put(e, Nil)
  PROVE  MapInv'
<1> DEFINE k == Key(g)
<1>1. /\ TypeOK /\ Own(g) /\ LocalTypes /\ k \in Keys
      /\ Keyed(read.m) /\ Keyed(dirty.m) /\ DirtyLive /\ DirtyComplete /\ DirtyThere
      /\ e \in Live /\ e[1] = k
  BY Mine, Used DEF MapInv, Inserters, OfMap, Keyed
<1>2. PICK n \in [Keys -> Entries \cup {NoEntry}] :
        /\ n = [NoEntries EXCEPT ![k] = e]
        /\ Hold(g, n)
  BY <1>1, Types, CallTypes DEF HoldOne
<1>3. n[k] = e /\ \A i \in Keys : i # k => n[i] = NoEntry
  BY <1>1, <1>2 DEF NoEntries
<1>4. /\ pc' \in [Gs -> Phase] /\ pc'[g] = "insert"
      /\ call' \in [Gs -> Calls \cup {NoCall}] /\ call'[g] = call[g]
      /\ held' \in [Gs -> [Keys -> Entries \cup {NoEntry}]] /\ held'[g] = n
      /\ out' \in {Nil} \cup (Gs \X (Vals \cup {Nil}))
      /\ OnlyOf(g)
  BY <1>1, <1>2, JumpOK DEF Phase
<1>5. Live' \subseteq Live
  BY <1>1, <1>3, <1>4, LetGo
<1>6. p' \in [Live' -> Values] /\ \A x \in Live' : p'[x] = IF x = e THEN Nil ELSE p[x]
  BY <1>1, <1>5, PutOK
<1>7. TypeOK'
  BY <1>1, <1>4, <1>6, HolderTypes DEF TypeOK, LocalTypes
<1>8. Nil # Expunged /\ e \in Live'
  BY <1>1, MapConstants, UsedPrime
<1>9. Own(g)'
  BY <1>1, <1>3, <1>4, <1>6, <1>8
  DEF Own, CallFits, HeldFits, HeldRead, Keyed, Ent, Key
<1>10. \A h \in Gs : Own(h)'
  BY <1>1, <1>4, <1>6, <1>9, OthersOwn
<1>11. ~dirty.isNil /\ dirty.m[k] = NoEntry
  BY <1>1 DEF DirtyThere, DirtyComplete, In
<1>12. DirtyLive'
  BY <1>1, <1>6, <1>11, UsedPrime DEF DirtyLive, Keyed
<1>13. DirtyComplete'
  <2>1. k = Key(g)'
    BY <1>4 DEF Key
  <2>2. /\ held'[g][k] = read.m[k] /\ pc'[g] = "insert"
    BY <1>3, <1>4
  <2> SUFFICES ASSUME NEW i \in Keys, read.m[i] # NoEntry, i # k
               PROVE  \/ dirty.m[i] = read.m[i] /\ p'[read.m[i]] # Expunged
                      \/ dirty.m[i] = NoEntry /\ p'[read.m[i]] = Expunged
    BY <1>11, <2>1, <2>2 DEF DirtyComplete
  <2>3. read.m[i] \in Live' /\ read.m[i] # e
    BY <1>1, UsedPrime DEF Keyed
  <2> QED BY <1>1, <1>6, <1>11, <2>3 DEF DirtyComplete, Locked
<1>14. DirtyThere'
  <2>1. ~Copying' /\ ~Copying
    BY <1>4 DEF Copying, Locked, OnlyOf
  <2> QED BY <1>1, <1>11, <2>1 DEF DirtyThere
<1> QED BY <1>1, <1>7, <1>10, <1>12, <1>13, <1>14 DEF MapInv

LEMMA UpdateReadInv ==
  ASSUME MapInv, NEW g \in Gs, UpdateRead(g)
  PROVE  MapInv'
<1> DEFINE e == read.m[Key(g)]
<1>1. /\ TypeOK /\ pc[g] = "lock" /\ ~Locked /\ call[g].op \in Inserters
      /\ Key(g) \in Keys /\ call[g].val \in Vals /\ e # NoEntry
      /\ UNCHANGED <<read, dirty, misses>>
  BY Mine DEF UpdateRead, Inserters, OfMap
<1>2. e \in Live
  BY <1>1, Used
<1>3. CASE p[e] = Expunged
  BY <1>1, <1>3, UnexpungeInv DEF UpdateRead
<1>4. CASE p[e] # Expunged
  <2>1. CASE Answer(g, Nil, "idle") /\ Put(e, call[g].val)
    BY <1>1, <1>2, <1>4, <2>1, AnswerQuiet
  <2>2. CASE call[g].op = "LoadOrStore" /\ LoadOrPut(g, e, "idle")
    BY <1>1, <1>2, <1>4, <2>2, LoadOrPutQuiet, AnswerQuiet
  <2> QED BY <1>4, <2>1, <2>2 DEF UpdateRead
<1> QED BY <1>3, <1>4

LEMMA UpdateDirtyInv ==
  ASSUME MapInv, NEW g \in Gs, UpdateDirty(g)
  PROVE  MapInv'
<1> DEFINE e == dirty.m[Key(g)]
<1>1. /\ TypeOK /\ LocalTypes /\ pc[g] = "lock" /\ ~Locked /\ call[g].op \in Inserters
      /\ Key(g) \in Keys /\ call[g].val \in Vals /\ e # NoEntry
      /\ UNCHANGED <<read, dirty, misses>> /\ misses \in 0 .. Cardinality(Keys)
  BY Mine DEF UpdateDirty, Inserters, OfMap
<1>2. e \in Live /\ p[e] # Expunged /\ ~dirty.isNil
  BY <1>1, Used, DirtyIsThere DEF MapInv, DirtyLive, NoEntries
<1>3. CASE Answer(g, Nil, "idle") /\ Put(e, call[g].val)
  BY <1>1, <1>2, <1>3, AnswerQuiet
<1>4. CASE call[g].op = "LoadOrStore" /\ LoadOrPut(g, e, "miss")
  <2>1. PICK r \in Vals \cup {Nil} : Answer(g, r, "miss")
    BY <1>2, <1>4, LoadOrPutQuiet
  <2>2. /\ OnlyOf(g) /\ Own(g)' /\ pc'[g] = "miss" /\ held'[g] = NoEntries
        /\ LocalTypes' \/ ~(p' \in [Live' -> Values])
    BY <1>1, <2>1, AnswerOK DEF LocalTypes
  <2>3. Live' \subseteq Live
    BY <1>1, <2>2, LetGo DEF NoEntries
  <2>4. p' \in [Live' -> Values] /\ SameExpunged
    BY <1>1, <1>2, <1>4, <2>3, LoadOrPutQuiet, KeepQuiet, PutQuiet
  <2> QED BY <1>1, <1>2, <2>2, <2>4, Quiet
<1> QED BY <1>3, <1>4 DEF UpdateDirty

LEMMA InsertInv ==
  ASSUME MapInv, NEW g \in Gs, Insert(g)
  PROVE  MapInv'
<1> DEFINE e == Ent(g)
           k == Key(g)
<1>1. /\ TypeOK /\ LocalTypes /\ pc[g] = "insert" /\ call[g].op \in Inserters
      /\ k \in Keys /\ call[g].val \in Vals /\ UNCHANGED <<read, misses>>
      /\ Keyed(read.m) /\ Keyed(dirty.m) /\ DirtyLive /\ DirtyComplete /\ DirtyThere
      /\ e # NoEntry /\ e = read.m[k] /\ p[e] # Expunged /\ ~dirty.isNil /\ ~Copying
  BY Mine DEF Insert, MapInv, Own, HeldFits, DirtyThere, TypeOK, Copying
<1>2. e \in Live /\ e \in Live' /\ e \in Entries
  BY <1>1, Used, UsedPrime, Types
<1>3. /\ dirty'.isNil = FALSE /\ dirty'.m[k] = e
      /\ \A i \in Keys : i # k => dirty'.m[i] = dirty.m[i]
      /\ dirty' \in [isNil : BOOLEAN, m : [Keys -> Entries \cup {NoEntry}]]
  BY <1>1, <1>2, Types DEF Insert
<1>4. /\ \E r \in Vals \cup {Nil} : Answer(g, r, "idle")
      /\ Keep \/ \E v \in Vals \cup {Nil} : Put(e, v)
  BY <1>1, <1>2, LoadOrPutQuiet DEF Insert
<1>5. /\ OnlyOf(g) /\ Own(g)' /\ pc'[g] = "idle" /\ held'[g] = NoEntries
      /\ LocalTypes' \/ ~(p' \in [Live' -> Values])
  BY <1>1, <1>4, AnswerOK DEF LocalTypes
<1>6. Live' \subseteq Live
  <2>1. \A i \in Keys : dirty'.m[i] \in Live \cup {NoEntry}
    BY <1>1, <1>2, <1>3, Types
  <2> QED BY <1>1, <1>5, <2>1, Types, NothingNew DEF OnlyOf, NoEntries
<1>7. LocalTypes' /\ SameExpunged
  BY <1>1, <1>2, <1>4, <1>5, <1>6, KeepQuiet, PutQuiet
<1>8. TypeOK'
  BY <1>1, <1>3, <1>5, <1>7, HolderTypes DEF TypeOK
<1>9. \A h \in Gs : Own(h)'
  BY <1>1, <1>5, <1>7, OthersOwn DEF SameExpunged
<1>10. Keyed(read.m)' /\ Keyed(dirty.m)'
  BY <1>1, <1>3 DEF Keyed
<1>11. \A i \in Keys : /\ read.m[i] # NoEntry => read.m[i] \in Live \cap Live'
                       /\ dirty'.m[i] # NoEntry => dirty'.m[i] \in Live \cap Live'
  BY <1>1, <1>6, UsedPrime
<1>12. DirtyLive'
  BY <1>1, <1>3, <1>7, <1>11 DEF DirtyLive, SameExpunged
<1>13. DirtyComplete'
  <2> SUFFICES ASSUME NEW i \in Keys, read.m[i] # NoEntry
               PROVE  \/ dirty'.m[i] = read.m[i] /\ p'[read.m[i]] # Expunged
                      \/ dirty'.m[i] = NoEntry /\ p'[read.m[i]] = Expunged
    BY <1>1 DEF DirtyComplete
  <2>1. CASE i = k
    BY <1>1, <1>2, <1>3, <1>7, <2>1 DEF SameExpunged
  <2>2. CASE i # k
    <3>1. \A h \in Gs : pc[h] = "insert" => h = g
      BY <1>1, LockedApart
    <3> QED BY <1>1, <1>3, <1>7, <1>11, <2>2, <3>1
            DEF DirtyComplete, Copying, SameExpunged
  <2> QED BY <2>1, <2>2
<1>14. DirtyThere'
  <2>1. ~Copying'
    BY <1>1, <1>5 DEF Copying, OnlyOf
  <2> QED BY <1>1, <1>3, <2>1 DEF DirtyThere
<1> QED BY <1>8, <1>9, <1>10, <1>12, <1>13, <1>14 DEF MapInv

LEMMA NewKeyInv ==
  ASSUME MapInv, NEW g \in Gs, NewKey(g)
  PROVE  MapInv'
<1>1. /\ TypeOK /\ Own(g) /\ LocalTypes /\ pc[g] = "lock" /\ ~Locked /\ held[g] = NoEntries
      /\ call[g].op \in Inserters /\ Key(g) \in Keys
      /\ Keyed(read.m) /\ Keyed(dirty.m) /\ DirtyLive /\ DirtyComplete /\ DirtyThere
      /\ read.m[Key(g)] = NoEntry /\ dirty.m[Key(g)] = NoEntry
      /\ Jump(g, "copy") /\ UNCHANGED <<read, misses, call>> /\ out' = Nil /\ Keep
  BY Mine DEF NewKey, MapInv, Inserters, OfMap
<1>2. PICK m \in [Keys -> Entries \cup {NoEntry}] :
        /\ Hold(g, m) /\ \A i \in Keys : m[i] = NoEntry \/ m[i] = read.m[i]
        /\ dirty' = [dirty EXCEPT !.isNil = FALSE]
        /\ \/ dirty.isNil /\ m = read.m
           \/ ~dirty.isNil /\ m = NoEntries
  <2>1. CASE ~read.amended /\ dirty.isNil
    BY <1>1, <2>1, Types DEF NewKey
  <2>2. CASE ~(~read.amended /\ dirty.isNil)
    <3>1. ~dirty.isNil
      BY <1>1, <2>2, DirtyIsThere
    <3>2. dirty' = [dirty EXCEPT !.isNil = FALSE]
      BY <1>1, <2>2, <3>1, Types DEF NewKey
    <3>3. Hold(g, NoEntries)
      BY <1>1, <2>2 DEF NewKey, Hold, LocalTypes
    <3> QED BY <3>1, <3>2, <3>3, CallTypes DEF NoEntries
  <2> QED BY <2>1, <2>2
<1>3. /\ dirty'.isNil = FALSE /\ dirty'.m = dirty.m
      /\ dirty' \in [isNil : BOOLEAN, m : [Keys -> Entries \cup {NoEntry}]]
  BY <1>1, <1>2, Types
<1>4. /\ pc' \in [Gs -> Phase] /\ pc'[g] = "copy"
      /\ call' \in [Gs -> Calls \cup {NoCall}] /\ call'[g] = call[g]
      /\ held' \in [Gs -> [Keys -> Entries \cup {NoEntry}]] /\ held'[g] = m
      /\ out' \in {Nil} \cup (Gs \X (Vals \cup {Nil}))
      /\ OnlyOf(g)
  BY <1>1, <1>2, JumpOK DEF Phase
<1>5. Live' \subseteq Live
  <2>1. \A i \in Keys : m[i] \in Live \cup {NoEntry} /\ dirty'.m[i] \in Live \cup {NoEntry}
    BY <1>1, <1>2, <1>3, Types
  <2>2. \A h \in Gs, i \in Keys : held'[h][i] \in Live \cup {NoEntry}
    BY <1>1, <1>4, <2>1, Types DEF OnlyOf
  <2> QED BY <1>1, <2>1, <2>2, Types, NothingNew
<1>6. LocalTypes' /\ \A e \in Live' : p'[e] = p[e]
  BY <1>1, <1>4, <1>5, KeepOK DEF LocalTypes
<1>7. TypeOK'
  BY <1>1, <1>3, <1>4, <1>6, HolderTypes DEF TypeOK
<1>8. Own(g)'
  <2>1. \A i \in Keys : m[i] # NoEntry => m[i] = read.m[i] /\ dirty.m[i] = NoEntry
    BY <1>1, <1>2, DirtyIsThere DEF NoEntries
  <2>2. CallFits(g)'
    BY <1>1, <1>4 DEF Own, CallFits
  <2>3. HeldFits(g)' /\ HeldRead(g)'
    BY <1>1, <1>3, <1>4, <2>1 DEF HeldFits, HeldRead, Keyed, Key
  <2> QED BY <2>2, <2>3 DEF Own
<1>9. \A h \in Gs : Own(h)'
  BY <1>1, <1>4, <1>6, <1>8, OthersOwn
<1>10. Keyed(read.m)' /\ Keyed(dirty.m)'
  BY <1>1, <1>3 DEF Keyed
<1>11. DirtyLive'
  BY <1>1, <1>3, <1>6, UsedPrime DEF DirtyLive
<1>12. DirtyComplete'
  <2> SUFFICES ASSUME NEW i \in Keys, read.m[i] # NoEntry
               PROVE  \/ dirty.m[i] = read.m[i] /\ p'[read.m[i]] # Expunged
                      \/ dirty.m[i] = NoEntry /\ p'[read.m[i]] = Expunged
                      \/ dirty.m[i] = NoEntry /\ held'[g][i] = read.m[i]
    BY <1>1, <1>3, <1>4 DEF DirtyComplete
  <2>1. read.m[i] \in Live'
    BY <1>1, UsedPrime
  <2>2. CASE dirty.isNil
    BY <1>1, <1>2, <1>4, <2>2, DirtyIsThere DEF NoEntries
  <2>3. CASE ~dirty.isNil
    BY <1>1, <1>6, <2>1, <2>3, DirtyIsThere
  <2> QED BY <2>2, <2>3
<1>13. DirtyThere'
  BY <1>3, <1>4 DEF DirtyThere, Copying
<1> QED BY <1>7, <1>9, <1>10, <1>11, <1>12, <1>13 DEF MapInv

LEMMA CopyEntryInv ==
  ASSUME MapInv, NEW g \in Gs, CopyEntry(g)
  PROVE  MapInv'
<1>1. /\ TypeOK /\ Own(g) /\ LocalTypes /\ pc[g] = "copy" /\ ~dirty.isNil
      /\ call[g].op \in Inserters /\ Key(g) \in Keys
      /\ Keyed(read.m) /\ Keyed(dirty.m) /\ DirtyLive /\ DirtyComplete /\ DirtyThere
      /\ read.m[Key(g)] = NoEntry /\ dirty.m[Key(g)] = NoEntry
      /\ UNCHANGED <<read, misses, pc, call>> /\ out' = Nil
  BY Mine DEF CopyEntry, MapInv, DirtyThere, Own, HeldFits
<1>2. PICK k \in Keys :
        /\ held[g][k] # NoEntry
        /\ Hold(g, [held[g] EXCEPT ![k] = NoEntry])
        /\ \/ /\ UNCHANGED dirty
              /\ Put(held[g][k], Expunged)
           \/ /\ p[held[g][k]] \notin {Nil, Expunged}
              /\ dirty' = [dirty EXCEPT !.m[k] = held[g][k]]
              /\ Keep
  BY DEF CopyEntry
<1> DEFINE e == held[g][k]
<1>3. e = read.m[k] /\ dirty.m[k] = NoEntry /\ e \in Live /\ e \in Live' /\ e \in Entries
  BY <1>1, <1>2, Used, UsedPrime, Types DEF Own, HeldFits
<1>4. /\ dirty'.isNil = FALSE /\ dirty'.m[k] \in {NoEntry, e}
      /\ \A i \in Keys : i # k => dirty'.m[i] = dirty.m[i]
      /\ dirty' \in [isNil : BOOLEAN, m : [Keys -> Entries \cup {NoEntry}]]
  BY <1>1, <1>2, <1>3, Types
<1>5. /\ held' \in [Gs -> [Keys -> Entries \cup {NoEntry}]] /\ OnlyOf(g)
      /\ held'[g][k] = NoEntry /\ \A i \in Keys : i # k => held'[g][i] = held[g][i]
  BY <1>1, <1>2 DEF LocalTypes, Hold, OnlyOf
<1>6. Live' \subseteq Live
  <2>1. /\ \A i \in Keys : held'[g][i] \in Live \cup {NoEntry}
        /\ \A i \in Keys : dirty'.m[i] \in Live \cup {NoEntry}
    BY <1>1, <1>3, <1>4, <1>5, Types
  <2> QED BY <1>1, <1>5, <2>1, Types, NothingNew DEF OnlyOf
<1>7. /\ p' \in [Live' -> Values]
      /\ \A x \in Live' : x # e => p'[x] = p[x]
      /\ \/ dirty'.m[k] = NoEntry /\ p'[e] = Expunged
         \/ dirty'.m[k] = e /\ p'[e] # Expunged
  <2>1. CASE UNCHANGED dirty /\ Put(e, Expunged)
    BY <1>1, <1>3, <1>6, <2>1, PutOK
  <2>2. CASE /\ p[e] \notin {Nil, Expunged} /\ dirty' = [dirty EXCEPT !.m[k] = e] /\ Keep
    BY <1>1, <1>3, <1>6, <2>2, KeepOK, Types
  <2> QED BY <1>2, <2>1, <2>2
<1>8. LocalTypes'
  BY <1>1, <1>5, <1>7 DEF LocalTypes
<1>9. TypeOK'
  BY <1>1, <1>4, <1>5, <1>8, HolderTypes DEF TypeOK
<1>10. Own(g)'
  <2>1. k # Key(g)
    BY <1>1, <1>2, <1>3
  <2>2. CallFits(g)'
    BY <1>1 DEF Own, CallFits
  <2>3. \A i \in Keys : held'[g][i] # NoEntry =>
          held'[g][i] = read.m[i] /\ dirty'.m[i] = NoEntry
    BY <1>1, <1>4, <1>5 DEF Own, HeldFits
  <2>4. HeldFits(g)' /\ HeldRead(g)'
    BY <1>1, <1>4, <2>1, <2>3 DEF HeldFits, HeldRead, Keyed, Key
  <2> QED BY <2>2, <2>4 DEF Own
<1>11. \A h \in Gs : Own(h)'
  <2>1. ASSUME NEW i \in Keys, NEW x \in Live \cap Live', x[1] = i,
               x = read.m[i] \/ p[x] = Expunged
        PROVE  x = read'.m[i] \/ p'[x] = Expunged
    <3>1. CASE x = e
      BY <1>1, <1>2, <1>3, <2>1, <3>1 DEF Keyed
    <3>2. CASE x # e
      BY <1>1, <1>7, <2>1, <3>2
    <3> QED BY <3>1, <3>2
  <2> QED BY <1>1, <1>5, <1>10, <2>1, OthersOwn
<1>12. Keyed(read.m)' /\ Keyed(dirty.m)'
  BY <1>1, <1>3, <1>4 DEF Keyed
<1>13. DirtyLive'
  BY <1>1, <1>3, <1>4, <1>7, UsedPrime DEF DirtyLive, Keyed
<1>14. DirtyComplete'
  <2> SUFFICES ASSUME NEW i \in Keys, read.m[i] # NoEntry
               PROVE  \/ dirty'.m[i] = read.m[i] /\ p'[read.m[i]] # Expunged
                      \/ dirty'.m[i] = NoEntry /\ p'[read.m[i]] = Expunged
                      \/ dirty'.m[i] = NoEntry /\ held'[g][i] = read.m[i]
    BY <1>1 DEF DirtyComplete
  <2>1. CASE i = k
    BY <1>3, <1>7, <2>1
  <2>2. CASE i # k
    <3>1. \A h \in Gs : pc[h] \in {"insert", "copy"} => h = g
      BY <1>1, LockedApart
    <3>2. read.m[i] \in Live' /\ read.m[i] # e
      BY <1>1, <1>3, <2>2, UsedPrime DEF Keyed
    <3> QED BY <1>1, <1>4, <1>5, <1>7, <2>2, <3>1, <3>2 DEF DirtyComplete
  <2> QED BY <2>1, <2>2
<1>15. DirtyThere'
  BY <1>1, <1>4 DEF DirtyThere, Copying
<1> QED BY <1>9, <1>11, <1>12, <1>13, <1>14, <1>15 DEF MapInv

LEMMA AddKeyInv ==
  ASSUME MapInv, NEW g \in Gs, AddKey(g)
  PROVE  MapInv'
<1> DEFINE k == Key(g)
           free == {i \in Slots : <<k, i>> \notin Live}
           e == <<k, CHOOSE i \in free : TRUE>>
           r == IF call[g].op = "Store" THEN Nil ELSE call[g].val
<1>1. /\ TypeOK /\ Own(g) /\ LocalTypes /\ pc[g] = "copy" /\ ~dirty.isNil
      /\ call[g].op \in Inserters /\ k \in Keys /\ call[g].val \in Vals
      /\ Keyed(read.m) /\ Keyed(dirty.m) /\ DirtyLive /\ DirtyComplete /\ DirtyThere
      /\ read.m[k] = NoEntry /\ dirty.m[k] = NoEntry /\ held[g] = NoEntries
      /\ misses' = misses /\ Answer(g, r, "idle") /\ Put(e, call[g].val) /\ free # {}
      /\ read' = [read EXCEPT !.amended = TRUE]
      /\ dirty' = [dirty EXCEPT !.m[k] = e]
  BY Mine DEF AddKey, MapInv, DirtyThere, Own, HeldFits
<1>2. e \notin Live /\ e \in Entries /\ e # NoEntry /\ e[1] = k
  <2>1. (CHOOSE i \in free : TRUE) \in free
    BY <1>1
  <2> HIDE DEF e
  <2>2. e \notin Live /\ e \in Entries /\ e[1] = k
    BY <1>1, <2>1 DEF Entries, e
  <2> QED BY <2>2, MapConstants DEF Entries
<1> HIDE DEF e
<1>3. /\ dirty'.isNil = FALSE /\ dirty'.m[k] = e
      /\ \A i \in Keys : i # k => dirty'.m[i] = dirty.m[i]
      /\ dirty' \in [isNil : BOOLEAN, m : [Keys -> Entries \cup {NoEntry}]]
      /\ read'.m = read.m /\ read'.amended = TRUE
      /\ read' \in [m : [Keys -> Entries \cup {NoEntry}], amended : BOOLEAN]
  BY <1>1, <1>2, Types
<1>4. /\ OnlyOf(g) /\ Own(g)' /\ pc'[g] = "idle" /\ held'[g] = NoEntries
      /\ LocalTypes' \/ ~(p' \in [Live' -> Values])
  BY <1>1, AnswerOK DEF LocalTypes
<1>5. Live' \subseteq Live \cup {e}
  <2>1. \A i \in Keys : /\ dirty'.m[i] \in Live \cup {e} \cup {NoEntry}
                        /\ read'.m[i] \in Live \cup {e} \cup {NoEntry}
    BY <1>1, <1>3, Types
  <2>2. \A h \in Gs, i \in Keys : held'[h][i] \in Live \cup {e} \cup {NoEntry}
    BY <1>1, <1>4, Types DEF OnlyOf, NoEntries
  <2> QED BY <2>1, <2>2, NothingNew
<1>6. /\ p' \in [Live' -> Values]
      /\ \A x \in Live' : p'[x] = IF x = e THEN call[g].val ELSE p[x]
  BY <1>1, <1>5, PutOK
<1>7. LocalTypes' /\ call[g].val # Expunged
  BY <1>1, <1>4, <1>6, MapConstants
<1>8. TypeOK'
  BY <1>1, <1>3, <1>4, <1>7, HolderTypes DEF TypeOK
<1>9. \A h \in Gs : Own(h)'
  BY <1>1, <1>2, <1>3, <1>4, <1>6, OthersOwn
<1>10. Keyed(read.m)' /\ Keyed(dirty.m)'
  BY <1>1, <1>2, <1>3 DEF Keyed
<1>11. DirtyLive'
  BY <1>1, <1>2, <1>3, <1>6, <1>7, Used, UsedPrime DEF DirtyLive
<1>12. DirtyComplete'
  <2> SUFFICES ASSUME NEW i \in Keys, read.m[i] # NoEntry
               PROVE  \/ dirty'.m[i] = read.m[i] /\ p'[read.m[i]] # Expunged
                      \/ dirty'.m[i] = NoEntry /\ p'[read.m[i]] = Expunged
    BY <1>3 DEF DirtyComplete
  <2>1. read.m[i] \in Live' /\ read.m[i] \in Live /\ i # k
    BY <1>1, <1>3, Used, UsedPrime
  <2>2. \A h \in Gs : pc[h] \in {"insert", "copy"} => h = g
    BY <1>1, LockedApart
  <2> QED BY <1>1, <1>2, <1>3, <1>6, <2>1, <2>2 DEF DirtyComplete, NoEntries
<1>13. DirtyThere'
  <2>1. \A h \in Gs : pc'[h] \notin {"insert", "copy", "miss"}
    BY <1>1, <1>4, LockedApart DEF OnlyOf
  <2> QED BY <1>3, <2>1 DEF DirtyThere, Copying
<1> QED BY <1>8, <1>9, <1>10, <1>11, <1>12, <1>13 DEF MapInv

-----------------------------------------------------------------------------
(* The invariant *)

LEMMA InitMapInv ==
  ASSUME Init
  PROVE  MapInv
<1>1. Live = {}
  BY DEF Init, Live, In, NoEntries
<1>2. TypeOK
  <2>1. Cardinality(Keys) \in Nat
    BY KeysFinite, FS_CardinalityType
  <2> QED BY <1>1, <2>1, CallTypes DEF Init, TypeOK
<1> QED BY <1>1, <1>2, CallTypes
        DEF Init, MapInv, Own, CallFits, HeldFits, HeldRead, Keyed, DirtyLive, DirtyComplete,
            DirtyThere, Copying, NoEntries, In, Writers, Inserters, OfMap

LEMMA NextMapInv ==
  ASSUME MapInv, [Next]_vars
  PROVE  MapInv'
<1>1. CASE UNCHANGED vars
  <2>1. /\ UNCHANGED <<read, dirty, misses, p, pc, call, held, out>> /\ Live' = Live
        /\ TypeOK /\ \A g \in Gs : Own(g)
    BY <1>1 DEF vars, Live, MapInv
  <2>2. TypeOK'
    BY <2>1 DEF TypeOK
  <2>3. \A g \in Gs : Own(g)'
    BY <2>1 DEF Own, CallFits, HeldFits, HeldRead, Ent, Key
  <2> QED BY <2>1, <2>2, <2>3
          DEF MapInv, DirtyLive, DirtyComplete, DirtyThere, Copying, In, Key
<1>2. ASSUME NEW g \in Gs, Fast(g) PROVE MapInv'
  BY <1>2, BeginInv, LoadEntryInv, TryStoreInv, TryLoadOrStoreInv, DeleteEntryInv DEF Fast
<1>3. ASSUME NEW g \in Gs, Slow(g) PROVE MapInv'
  BY <1>3, LoadLockedInv, DeleteLockedInv, UpdateReadInv, InsertInv, UpdateDirtyInv, MissInv,
     NewKeyInv, CopyEntryInv, AddKeyInv DEF Slow
<1>4. ASSUME NEW g \in Gs, Ranging(g) PROVE MapInv'
  BY <1>4, RangeLockedInv, RangeEntryInv, RangeEndInv DEF Ranging
<1> QED BY <1>1, <1>2, <1>3, <1>4 DEF Next

\* An entry outside the map is held by readers only, or expunged.
LEMMA LostFromInv ==
  ASSUME MapInv
  PROVE  LostEntries
<1> SUFFICES ASSUME NEW e \in Live, e \notin In(read.m) \cup In(dirty.m), p[e] # Expunged,
                    NEW g \in Gs, e \in In(held[g])
             PROVE  call[g].op \in {"Load", "Range"}
  BY DEF LostEntries
<1>1. PICK k \in Keys : held[g][k] = e /\ e # NoEntry
  BY DEF In
<1>2. call[g].op \notin Writers
  BY <1>1 DEF MapInv, Own, HeldRead, In
<1>3. call[g] # NoCall
  BY <1>1, Mine DEF Own, CallFits, HeldFits, NoEntries
<1> QED BY <1>2, <1>3, Mine, CallTypes DEF OfMap, Writers

(***************************************************************************)
(* What m.mu, the atomic operations and the expunged marks keep between    *)
(* m.read, m.dirty and the entries holds at any time, whatever the         *)
(* goroutines, the keys and the calls: what is not expunged is in m.dirty  *)
(* when there is one (but for the entries that the holder of m.mu is about *)
(* to put there), m.dirty is there when it is written to, and no operation *)
(* writes to an entry that the map has lost.                               *)
(***************************************************************************)
THEOREM MapIsStructured == Spec => []MapStructure
<1>1. Init => MapInv
  BY InitMapInv
<1>2. MapInv /\ [Next]_vars => MapInv'
  BY NextMapInv
<1>3. MapInv => MapStructure
  BY LostFromInv DEF MapInv, MapStructure
<1> QED BY <1>1, <1>2, <1>3, PTL DEF Spec

-----------------------------------------------------------------------------
(* The refinement *)

(***************************************************************************)
(* The invariant of the refinement: what is or was in the map and is still *)
(* held on to has been seen.  An entry that the map has lost keeps its     *)
(* value (MapIsStructured), so that it stays among the values seen.        *)
(***************************************************************************)
SeenFits(g) ==
  \A k \in Keys : CM!About(call[g], k) =>
    /\ Content[k] \in seen[g][k]
    /\ held[g][k] # NoEntry => load(held[g][k]) \in seen[g][k]
    /\ held[g][k] = NoEntry /\ pc[g] = "entry" => Nil \in seen[g][k]

\* Unless m.read is marked, m.dirty has no entries of its own.
Unamended == ~read.amended => \A k \in Keys : dirty.m[k] # NoEntry => dirty.m[k] = read.m[k]

SeenInv == Unamended /\ \A g \in Gs : SeenFits(g)

\* The entry that counts for k.
Cur(k) == IF read.m[k] # NoEntry THEN read.m[k] ELSE dirty.m[k]

\* A step that does not change what any entry shows;
Same == \A e \in (Live \cap Live') \cup {NoEntry} : load(e)' = load(e)

\* a step that changes it to what the map then has for the entry's key, at most.
Tracked == \A k \in Keys : \A e \in Live \cap Live' :
             e[1] = k => load(e)' = load(e) \/ load(e)' = Content'[k]

LEMMA ContentIs ==
  /\ Content = [k \in Keys |-> load(Cur(k))]
  /\ Content' = [k \in Keys |-> load(Cur(k))']
BY DEF Content, Cur

LEMMA CurTypes ==
  ASSUME NEW k \in Keys
  PROVE  /\ MapInv => Cur(k) \in Live \cup {NoEntry} /\ (Cur(k) # NoEntry => Cur(k)[1] = k)
         /\ MapInv' => Cur(k)' \in Live' \cup {NoEntry}
                         /\ (Cur(k)' # NoEntry => Cur(k)'[1] = k)
BY Used, UsedPrime DEF MapInv, Cur, Keyed

LEMMA KeepSame ==
  ASSUME Keep
  PROVE  Same
BY DEF Keep, Same, load

\* The map's contents stay, even if it loses entries that show nothing.
LEMMA ContentSame ==
  ASSUME MapInv, MapInv', Same,
         \A k \in Keys : Cur(k)' = Cur(k) \/ (Cur(k)' = NoEntry /\ load(Cur(k)) = Nil)
  PROVE  Content' = Content /\ Tracked
<1>1. \A k \in Keys : Cur(k) \in Live \cup {NoEntry} /\ Cur(k)' \in Live' \cup {NoEntry}
  BY CurTypes
<1>2. load(NoEntry)' = Nil
  BY DEF load
<1>3. \A k \in Keys : load(Cur(k))' = load(Cur(k))
  <2> SUFFICES ASSUME NEW k \in Keys PROVE load(Cur(k))' = load(Cur(k))
    OBVIOUS
  <2>1. CASE Cur(k)' = NoEntry /\ load(Cur(k)) = Nil
    BY <1>2, <2>1 DEF load
  <2>2. CASE Cur(k)' = Cur(k)
    BY <1>1, <2>2 DEF Same, load
  <2> QED BY <2>1, <2>2
<1> QED BY <1>3, ContentIs DEF Same, Tracked

\* A step that writes the value v to the entry of k.
LEMMA ContentPut ==
  ASSUME MapInv, MapInv', NEW k \in Keys, NEW e \in Live', e = Cur(k)',
         NEW v \in Vals \cup {Nil}, Put(e, v), \A i \in Keys \ {k} : Cur(i)' = Cur(i)
  PROVE  Content' = [Content EXCEPT ![k] = v] /\ Tracked
<1>1. v # Expunged
  BY MapConstants
<1>2. \A x \in Live' : p'[x] = IF x = e THEN v ELSE p[x]
  BY DEF Put
<1>3. e # NoEntry /\ e[1] = k
  <2>1. e # NoEntry
    BY Types, MapConstants, CurTypes DEF MapInv, TypeOK, Live, In
  <2> QED BY <2>1, CurTypes
<1>4. /\ load(e)' = v /\ load(NoEntry)' = Nil /\ load(NoEntry) = Nil
      /\ \A x \in Live' : x # e => load(x)' = load(x)
  BY <1>1, <1>2, <1>3 DEF load
<1>5. \A i \in Keys : /\ Cur(i)' \in Live' \cup {NoEntry}
                      /\ Cur(i)' # NoEntry => Cur(i)'[1] = i
  BY CurTypes
<1>6. load(Cur(k))' = v
  BY <1>4 DEF load
<1>7. \A i \in Keys \ {k} : load(Cur(i))' = load(Cur(i))
  <2> SUFFICES ASSUME NEW i \in Keys \ {k} PROVE load(Cur(i))' = load(Cur(i))
    OBVIOUS
  <2>1. Cur(i)' # e /\ Cur(i)' \in Live' \cup {NoEntry} /\ Cur(i) = Cur(i)'
    BY <1>3, <1>5
  <2> QED BY <1>4, <2>1 DEF load
<1>8. Content' = [Content EXCEPT ![k] = v]
  BY <1>6, <1>7, ContentIs
<1>9. Tracked
  BY <1>3, <1>4, <1>8, ContentIs DEF Tracked
<1> QED BY <1>8, <1>9

\* Who is about k sees what k has after the step.
LEMMA WatchSees ==
  ASSUME Watch, NEW g \in Gs, NEW k \in Keys, CM!About(call'[g], k)
  PROVE  seen'[g][k] = seen[g][k] \cup {Content'[k]}
BY DEF Watch, CM!About

\* What has been seen stays seen, and a step of g keeps up with what changes,
\* if g takes hold of nothing but what counts.
LEMMA SeenNext ==
  ASSUME MapInv, MapInv', \A h \in Gs : SeenFits(h), Watch, Tracked,
         NEW g \in Gs, OnlyOf(g),
         \A k \in Keys : CM!About(call'[g], k) =>
           /\ held'[g][k] # NoEntry =>
                \/ load(held[g][k])' = Content'[k]
                \/ call'[g] = call[g] /\ held'[g][k] = held[g][k]
           /\ held'[g][k] = NoEntry /\ pc'[g] = "entry" => Content'[k] = Nil
  PROVE  \A h \in Gs : SeenFits(h)'
<1>1. ASSUME NEW h \in Gs, NEW k \in Keys, CM!About(call'[h], k), call'[h] = call[h],
             held'[h][k] = held[h][k], held[h][k] # NoEntry
      PROVE  load(held[h][k])' \in seen'[h][k]
  <2>1. held[h][k] \in Live \cap Live' /\ held[h][k][1] = k
    BY <1>1, Used, UsedPrime DEF MapInv, Own, HeldFits, Keyed
  <2>2. load(held[h][k]) \in seen[h][k]
    BY <1>1 DEF SeenFits
  <2>3. seen'[h][k] = seen[h][k] \cup {Content'[k]}
    BY <1>1, WatchSees
  <2>4. load(held[h][k])' \in {load(held[h][k]), Content'[k]}
    <3> DEFINE e == held[h][k]
    <3>1. \A x \in Live \cap Live' : x[1] = k => load(x)' = load(x) \/ load(x)' = Content'[k]
      BY DEF Tracked
    <3> QED BY <1>1, <2>1, <3>1 DEF load
  <2> QED BY <2>2, <2>3, <2>4
<1>2. ASSUME NEW h \in Gs, h # g PROVE SeenFits(h)'
  <2>1. pc'[h] = pc[h] /\ call'[h] = call[h] /\ held'[h] = held[h]
    BY <1>2 DEF OnlyOf
  <2> QED BY <1>1, <2>1, WatchSees DEF SeenFits
<1>3. SeenFits(g)'
  <2> SUFFICES ASSUME NEW k \in Keys, CM!About(call'[g], k)
               PROVE  /\ Content'[k] \in seen'[g][k]
                      /\ held'[g][k] # NoEntry => load(held[g][k])' \in seen'[g][k]
                      /\ held'[g][k] = NoEntry /\ pc'[g] = "entry" => Nil \in seen'[g][k]
    BY DEF SeenFits
  <2>1. Content'[k] \in seen'[g][k]
    BY WatchSees
  <2>2. held'[g][k] # NoEntry => load(held[g][k])' \in seen'[g][k]
    BY <1>1, <2>1 DEF load
  <2> QED BY <2>1, <2>2
<1> QED BY <1>2, <1>3

\* What a step of g has to be of the abstract map, and what it has to keep.
Refines(g) ==
  /\ CM!Work \/ CM!Step(g)
  /\ Unamended'
  /\ \A h \in Gs : SeenFits(h)'

\* A step of g decides for g alone.
LEMMA LeftOf ==
  ASSUME NEW g \in Gs, OnlyOf(g)
  PROVE  Left' = [Left EXCEPT ![g] = Left'[g]]
<1>1. \A h \in Gs \ {g} : Left'[h] = Left[h]
  BY DEF Left, OnlyOf
<1>2. Left' = [h \in Gs |-> Left'[h]] /\ Left = [h \in Gs |-> Left[h]]
  BY DEF Left
<1> QED BY <1>1, <1>2

\* Nobody answers for g, and g's Range decides about nothing.
LEMMA LeftStays ==
  ASSUME NEW g \in Gs, OnlyOf(g), call' = call, call[g].op # "Range"
  PROVE  Left' = Left
BY DEF Left, OnlyOf

\* An answer here is an answer there; who has answered sees nothing.
LEMMA AnswerRefines ==
  ASSUME MapInv, MapInv', \A h \in Gs : SeenFits(h), Watch, Tracked,
         NEW g \in Gs, NEW r \in Vals \cup {Nil}, NEW at \in {"idle", "miss"}, Answer(g, r, at)
  PROVE  CM!Answer(g, r) /\ \A h \in Gs : SeenFits(h)'
<1>1. OnlyOf(g) /\ call'[g] = NoCall /\ call' = [call EXCEPT ![g] = NoCall] /\ out' = <<g, r>>
  BY Mine, AnswerOK DEF Answer
<1>2. Left' = [Left EXCEPT ![g] = {}]
  <2>1. \A h \in Gs \ {g} : Left'[h] = Left[h]
    BY <1>1 DEF Left, OnlyOf
  <2>2. Left'[g] = {}
    BY <1>1, CallTypes DEF Left
  <2>3. Left' = [h \in Gs |-> Left'[h]] /\ Left = [h \in Gs |-> Left[h]]
    BY DEF Left
  <2> HIDE DEF Left
  <2> QED BY <2>1, <2>2, <2>3
<1>3. CM!Answer(g, r)
  BY <1>1, <1>2 DEF CM!Answer, CM!NoCall, NoCall
<1>4. \A k \in Keys : ~CM!About(call'[g], k)
  BY <1>1, MapConstants, CallTypes DEF CM!About
<1>5. \A h \in Gs : SeenFits(h)'
  BY <1>1, <1>4, SeenNext
<1> QED BY <1>3, <1>5

\* A step that answers without changing what the map holds.
LEMMA AnswerSame ==
  ASSUME MapInv, MapInv', SeenInv, Watch, NEW g \in Gs, UNCHANGED <<read, dirty>>, Keep,
         NEW r \in Vals \cup {Nil}, NEW at \in {"idle", "miss"}, Answer(g, r, at)
  PROVE  /\ CM!Answer(g, r) /\ Content' = Content
         /\ Unamended' /\ \A h \in Gs : SeenFits(h)'
<1>1. Content' = Content /\ Tracked
  BY KeepSame, ContentSame DEF Cur
<1> QED BY <1>1, AnswerRefines DEF SeenInv, Unamended

\* A step that answers after writing v to the entry of k.
LEMMA AnswerPut ==
  ASSUME MapInv, MapInv', SeenInv, Watch, NEW g \in Gs, UNCHANGED read,
         NEW r \in Vals \cup {Nil}, NEW at \in {"idle", "miss"}, Answer(g, r, at),
         NEW k \in Keys, NEW e, e # NoEntry, e = Cur(k)',
         \A i \in Keys \ {k} : dirty'.m[i] = dirty.m[i],
         NEW v \in Vals \cup {Nil}, Put(e, v)
  PROVE  /\ CM!Answer(g, r) /\ Content' = [Content EXCEPT ![k] = v]
         /\ \A h \in Gs : SeenFits(h)'
<1>1. e \in Live'
  BY CurTypes
<1>2. Content' = [Content EXCEPT ![k] = v] /\ Tracked
  BY <1>1, ContentPut DEF Cur
<1> QED BY <1>2, AnswerRefines DEF SeenInv

-----------------------------------------------------------------------------
(* The fast paths *)

\* What is shown by what g holds has been seen.
LEMMA HeldSeen ==
  ASSUME MapInv, SeenInv, NEW g \in Gs, pc[g] = "entry"
  PROVE  load(Ent(g)) \in seen[g][Key(g)]
<1>1. Key(g) \in Keys /\ CM!About(call[g], Key(g))
  BY Mine DEF CM!About, Key
<1> QED BY <1>1 DEF SeenInv, SeenFits, load, Ent, Key

LEMMA LoadEntryRefines ==
  ASSUME MapInv, MapInv', SeenInv, Watch, NEW g \in Gs, LoadEntry(g)
  PROVE  Refines(g)
<1>1. /\ pc[g] = "entry" /\ call[g].op = "Load" /\ TypeOK /\ Key(g) \in Keys
      /\ Answer(g, load(Ent(g)), "idle") /\ UNCHANGED <<read, dirty>> /\ Keep
  BY Mine DEF LoadEntry, At
<1>2. load(Ent(g)) \in Vals \cup {Nil}
  BY <1>1, Types, LoadValue DEF Ent
<1>3. CM!Answer(g, load(Ent(g))) /\ Content' = Content
      /\ Unamended' /\ \A h \in Gs : SeenFits(h)'
  BY <1>1, <1>2, AnswerSame
<1>4. CM!Observe(g)
  BY <1>1, <1>3, HeldSeen DEF CM!Observe, Key
<1> QED BY <1>3, <1>4 DEF Refines, CM!Step

\* A goroutine goes elsewhere inside its call, with nothing but what counts.
LEMMA JumpRefines ==
  ASSUME MapInv, MapInv', SeenInv, Watch, NEW g \in Gs, UNCHANGED call, OnlyOf(g),
         call[g].op # "Range", out' = Nil, Same, Unamended',
         \A k \in Keys : Cur(k)' = Cur(k) \/ (Cur(k)' = NoEntry /\ load(Cur(k)) = Nil),
         \A k \in Keys : CM!About(call[g], k) =>
           /\ held'[g][k] # NoEntry => held'[g][k] \in {Cur(k)', held[g][k]}
           /\ held'[g][k] = NoEntry /\ pc'[g] = "entry" => Cur(k)' = NoEntry
  PROVE  Refines(g)
<1>1. Content' = Content /\ Tracked
  BY ContentSame
<1>2. \A k \in Keys : Content'[k] = load(Cur(k))' /\ (Cur(k)' = NoEntry => Content'[k] = Nil)
  BY ContentIs DEF load
<1>3. \A h \in Gs : SeenFits(h)'
  <2> SUFFICES ASSUME NEW k \in Keys, CM!About(call'[g], k)
               PROVE  /\ held'[g][k] # NoEntry =>
                           \/ load(held[g][k])' = Content'[k]
                           \/ call'[g] = call[g] /\ held'[g][k] = held[g][k]
                      /\ held'[g][k] = NoEntry /\ pc'[g] = "entry" => Content'[k] = Nil
    BY <1>1, SeenNext DEF SeenInv
  <2> QED BY <1>2 DEF load
<1>4. CM!Work
  BY <1>1, LeftStays DEF CM!Work
<1> QED BY <1>3, <1>4 DEF Refines

\* e is the entry that counts for k, and the step puts it into m.dirty at most.
CountsFor(e, k) ==
  /\ e # NoEntry /\ Cur(k) = e /\ Cur(k)' = e
  /\ read' = read
  /\ dirty'.m[k] \in {dirty.m[k], e}
  /\ \A i \in Keys \ {k} : dirty'.m[i] = dirty.m[i]

LEMMA StoreRefines ==
  ASSUME MapInv, MapInv', SeenInv, Watch, Unamended', NEW g \in Gs, call[g].op = "Store",
         NEW k \in Keys, k = Key(g), NEW e, CountsFor(e, k), Answer(g, Nil, "idle"), Put(e, call[g].val)
  PROVE  Refines(g)
<1>1. call[g].val \in Vals
  BY Mine DEF Inserters
<1>2. /\ CM!Answer(g, Nil) /\ Content' = [Content EXCEPT ![k] = call[g].val]
      /\ \A h \in Gs : SeenFits(h)'
  BY <1>1, AnswerPut DEF CountsFor
<1> QED BY <1>2 DEF Refines, CM!Step, CM!Write, Key

LEMMA LoadOrPutRefines ==
  ASSUME MapInv, MapInv', SeenInv, Watch, Unamended', NEW g \in Gs,
         call[g].op = "LoadOrStore", NEW k \in Keys, k = Key(g), NEW e, CountsFor(e, k), p[e] # Expunged,
         NEW at \in {"idle", "miss"}, LoadOrPut(g, e, at)
  PROVE  Refines(g)
<1>1. call[g].val \in Vals /\ TypeOK /\ e # NoEntry
  BY Mine DEF Inserters, CountsFor
<1>2. e \in Live
  BY <1>1, CurTypes DEF CountsFor
<1>3. Content[k] = p[e] /\ p[e] \in Vals \cup {Nil}
  BY <1>1, <1>2, Types, ContentIs DEF CountsFor, load
<1>4. CASE p[e] = Nil /\ Answer(g, call[g].val, at) /\ Put(e, call[g].val)
  <2>1. /\ CM!Answer(g, call[g].val)
        /\ Content' = [Content EXCEPT ![k] = call[g].val]
        /\ \A h \in Gs : SeenFits(h)'
    BY <1>1, <1>4, AnswerPut DEF CountsFor
  <2> QED BY <1>3, <1>4, <2>1 DEF Refines, CM!Step, CM!Write, Key
<1>5. CASE p[e] # Nil /\ Answer(g, p[e], at) /\ Keep
  <2>3. Content' = Content /\ Tracked
    <3>1. \A i \in Keys : Cur(i)' = Cur(i)
      BY DEF CountsFor, Cur
    <3> QED BY <1>5, <3>1, KeepSame, ContentSame
  <2>4. CM!Answer(g, p[e]) /\ \A h \in Gs : SeenFits(h)'
    BY <1>3, <1>5, <2>3, AnswerRefines DEF SeenInv
  <2>5. p[e] \in seen[g][k]
    BY <1>1, <1>3 DEF SeenInv, SeenFits, CM!About, Key
  <2> QED BY <1>5, <2>3, <2>4, <2>5 DEF Refines, CM!Step, CM!Observe, Key
<1> QED BY <1>4, <1>5 DEF LoadOrPut

\* A writer that finds its entry not expunged has the one that counts.
LEMMA HeldCounts ==
  ASSUME MapInv, NEW g \in Gs, pc[g] = "entry", call[g].op \in Writers, Ent(g) # NoEntry,
         p[Ent(g)] # Expunged, UNCHANGED <<read, dirty>>
  PROVE  \E k, e : k \in Keys /\ k = Key(g) /\ e = Ent(g) /\ CountsFor(e, k)
<1>1. PICK k \in Keys : k = Key(g) /\ Own(g)
  BY Mine
<1>2. PICK e : e = Ent(g) /\ e = read.m[k] /\ e # NoEntry
  BY <1>1 DEF Own, HeldRead, Ent
<1>3. CountsFor(e, k)
  BY <1>1, <1>2 DEF CountsFor, Cur
<1> QED BY <1>1, <1>2, <1>3

\* An expunged entry sends Store and LoadOrStore to the slow path.
LEMMA SlowRefines ==
  ASSUME MapInv, MapInv', SeenInv, Watch, NEW g \in Gs, UNCHANGED <<read, dirty, call>>,
         call[g].op # "Range", Jump(g, "lock"), Drop(g), out' = Nil, Keep
  PROVE  Refines(g)
<1>1. OnlyOf(g) /\ pc'[g] = "lock" /\ held'[g] = NoEntries
  BY Mine, CallTypes, JumpOK DEF Drop, Phase
<1>2. Same /\ Unamended'
  BY KeepSame DEF SeenInv, Unamended
<1> QED BY <1>1, <1>2, JumpRefines DEF Cur, NoEntries

LEMMA TryStoreRefines ==
  ASSUME MapInv, MapInv', SeenInv, Watch, NEW g \in Gs, TryStore(g)
  PROVE  Refines(g)
<1>1. /\ pc[g] = "entry" /\ call[g].op = "Store" /\ UNCHANGED <<read, dirty>>
      /\ Unamended'
  BY DEF TryStore, At, SeenInv, Unamended
<1>2. Ent(g) # NoEntry
  BY <1>1, Mine DEF Own, HeldFits, Inserters
<1>3. CASE p[Ent(g)] = Expunged
  BY <1>1, <1>3, SlowRefines DEF TryStore
<1>4. CASE p[Ent(g)] # Expunged
  <2>1. PICK k, e : k \in Keys /\ k = Key(g) /\ e = Ent(g) /\ CountsFor(e, k)
    BY <1>1, <1>2, <1>4, HeldCounts DEF Writers
  <2> QED BY <1>1, <1>4, <2>1, StoreRefines DEF TryStore
<1> QED BY <1>3, <1>4

LEMMA TryLoadOrStoreRefines ==
  ASSUME MapInv, MapInv', SeenInv, Watch, NEW g \in Gs, TryLoadOrStore(g)
  PROVE  Refines(g)
<1>1. /\ pc[g] = "entry" /\ call[g].op = "LoadOrStore" /\ UNCHANGED <<read, dirty>>
      /\ Unamended'
  BY DEF TryLoadOrStore, At, SeenInv, Unamended
<1>2. Ent(g) # NoEntry
  BY <1>1, Mine DEF Own, HeldFits, Inserters
<1>3. CASE p[Ent(g)] = Expunged
  BY <1>1, <1>3, SlowRefines DEF TryLoadOrStore
<1>4. CASE p[Ent(g)] # Expunged
  <2>1. PICK k, e : k \in Keys /\ k = Key(g) /\ e = Ent(g) /\ CountsFor(e, k)
    BY <1>1, <1>2, <1>4, HeldCounts DEF Writers
  <2> QED BY <1>1, <1>4, <2>1, LoadOrPutRefines DEF TryLoadOrStore
<1> QED BY <1>3, <1>4

LEMMA DeleteEntryRefines ==
  ASSUME MapInv, MapInv', SeenInv, Watch, NEW g \in Gs, DeleteEntry(g)
  PROVE  Refines(g)
<1>1. /\ pc[g] = "entry" /\ call[g].op = "Delete" /\ UNCHANGED <<read, dirty>>
      /\ Answer(g, Nil, "idle") /\ Unamended' /\ Key(g) \in Keys
  BY Mine DEF DeleteEntry, At, SeenInv, Unamended
<1>2. CASE load(Ent(g)) = Nil
  <2>1. CM!Answer(g, Nil) /\ Content' = Content /\ \A h \in Gs : SeenFits(h)'
    BY <1>1, <1>2, AnswerSame DEF DeleteEntry
  <2>2. CM!Observe(g)
    BY <1>1, <1>2, <2>1, HeldSeen DEF CM!Observe, Key
  <2> QED BY <1>1, <2>1, <2>2 DEF Refines, CM!Step
<1>3. CASE load(Ent(g)) # Nil
  <2>1. PICK k, e : k \in Keys /\ k = Key(g) /\ e = Ent(g) /\ CountsFor(e, k)
    BY <1>1, <1>3, HeldCounts DEF Writers, load
  <2>2. Put(e, Nil)
    BY <1>3, <2>1 DEF DeleteEntry
  <2>3. /\ CM!Answer(g, Nil) /\ Content' = [Content EXCEPT ![k] = Nil]
        /\ \A h \in Gs : SeenFits(h)'
    BY <1>1, <2>1, <2>2, AnswerPut DEF CountsFor
  <2> QED BY <1>1, <2>1, <2>3 DEF Refines, CM!Step, CM!Remove, Key
<1> QED BY <1>2, <1>3

LEMMA BeginRefines ==
  ASSUME MapInv, MapInv', SeenInv, Watch, NEW g \in Gs, Begin(g)
  PROVE  Refines(g)
<1>1. /\ TypeOK /\ Own(g) /\ LocalTypes /\ pc[g] = "idle" /\ call[g] = NoCall
      /\ Keep /\ UNCHANGED <<read, dirty, misses>> /\ out' = Nil /\ Unamended /\ Unamended'
  BY Mine DEF Begin, SeenInv, Unamended, Own, CallFits
<1>2. PICK c \in Calls :
        /\ call' = [call EXCEPT ![g] = c]
        /\ \/ /\ c.op = "Range"
              /\ Jump(g, IF read.amended THEN "lock" ELSE "range")
              /\ Hold(g, IF read.amended THEN NoEntries ELSE read.m)
           \/ /\ c.op # "Range"
              /\ Jump(g, IF /\ read.m[c.key] = NoEntry
                            /\ read.amended \/ c.op \in {"Store", "LoadOrStore"}
                         THEN "lock" ELSE "entry")
              /\ Hold(g, [NoEntries EXCEPT ![c.key] = read.m[c.key]])
  BY DEF Begin
<1>3. OnlyOf(g) /\ call'[g] = c
  BY <1>1, <1>2 DEF OnlyOf, LocalTypes, Jump, Hold
<1>4. Content' = Content /\ Tracked
  BY <1>1, KeepSame, ContentSame DEF Cur
<1>5. ~read.amended => \A k \in Keys : read.m[k] = NoEntry => Content[k] = Nil
  BY <1>1, ContentIs DEF Unamended, Cur, load
<1>6. CASE c.op = "Range"
  <2>1. /\ pc'[g] = IF read.amended THEN "lock" ELSE "range"
        /\ held'[g] = IF read.amended THEN NoEntries ELSE read.m
    BY <1>1, <1>2, <1>6 DEF Jump, Hold, LocalTypes
  <2>2. \A k \in Keys : held'[g][k] # NoEntry => load(held[g][k])' = Content'[k]
    BY <1>1, <2>1, ContentIs DEF load, Cur, NoEntries
  <2>3. \A h \in Gs : SeenFits(h)'
    BY <1>3, <1>4, <2>1, <2>2, SeenNext DEF SeenInv
  <2>4. PICK rest \in SUBSET Keys :
          /\ rest = IF read.amended THEN Keys ELSE {k \in Keys : read.m[k] # NoEntry}
          /\ Left' = [Left EXCEPT ![g] = rest]
    <3>1. Left' = [Left EXCEPT ![g] = IF read.amended THEN Keys
                                      ELSE {k \in Keys : read.m[k] # NoEntry}]
      <4>1. Left'[g] = IF read.amended THEN Keys ELSE {k \in Keys : read.m[k] # NoEntry}
        BY <1>3, <1>6, <2>1 DEF Left
      <4> QED BY <1>3, <4>1, LeftOf
    <3> QED BY <3>1
  <2>5. \A k \in Keys \ rest : Content[k] = Nil
    BY <1>5, <2>4
  <2>6. CM!Begin(g)
    BY <1>1, <1>2, <1>3, <1>4, <1>6, <2>4, <2>5
    DEF CM!Begin, CM!NoCall, CM!Calls, NoCall, Calls
  <2> QED BY <1>1, <2>3, <2>6 DEF Refines, CM!Step
<1>7. CASE c.op # "Range"
  <2>1. PICK k \in Keys : c.key = k
    BY <1>7, CallTypes
  <2>2. /\ held'[g] = [NoEntries EXCEPT ![k] = read.m[k]]
        /\ pc'[g] = "entry" => read.m[k] # NoEntry \/ ~read.amended
    BY <1>1, <1>2, <1>7, <2>1 DEF Jump, Hold, LocalTypes
  <2>3. held'[g][k] = read.m[k] /\ \A i \in Keys : CM!About(call'[g], i) <=> i = k
    BY <1>3, <1>7, <2>1, <2>2 DEF NoEntries, CM!About
  <2>4. held'[g][k] # NoEntry => load(held[g][k])' = Content'[k]
    BY <1>1, <2>3, ContentIs DEF load, Cur
  <2>5. \A h \in Gs : SeenFits(h)'
    BY <1>3, <1>4, <1>5, <2>2, <2>3, <2>4, SeenNext DEF SeenInv
  <2>6. Left' = [Left EXCEPT ![g] = {}]
    BY <1>3, <1>7 DEF Left, OnlyOf
  <2>7. CM!Begin(g)
    BY <1>1, <1>2, <1>3, <1>4, <1>7, <2>6
    DEF CM!Begin, CM!NoCall, CM!Calls, NoCall, Calls
  <2> QED BY <1>1, <2>5, <2>7 DEF Refines, CM!Step
<1> QED BY <1>6, <1>7

-----------------------------------------------------------------------------
(* The slow paths and Range *)

\* Outside dirtyLocked's loop the amended mark says what m.dirty is.
LEMMA Marked ==
  ASSUME MapInv', ~Copying'
  PROVE  Unamended'
BY DEF MapInv, DirtyThere, Unamended, NoEntries

\* What a promotion drops from m.read is expunged.
LEMMA PromoteCur ==
  ASSUME MapInv, Promote, ~dirty.isNil, \A h \in Gs : pc[h] \notin {"insert", "copy"}
  PROVE  \A k \in Keys : /\ Cur(k)' = dirty.m[k] /\ read'.m[k] = dirty.m[k]
                         /\ Cur(k)' = Cur(k) \/ (Cur(k)' = NoEntry /\ load(Cur(k)) = Nil)
BY DEF Promote, MapInv, DirtyComplete, Cur, load, NoEntries

LEMMA LoadLockedRefines ==
  ASSUME MapInv, MapInv', SeenInv, Watch, NEW g \in Gs, LoadLocked(g)
  PROVE  Refines(g)
<1>1. PICK k \in Keys : k = Key(g)
  BY Mine DEF LoadLocked, At, OfMap
<1>2. /\ LocalTypes /\ pc[g] = "lock" /\ call[g].op = "Load" /\ ~Locked
      /\ Jump(g, "entry") /\ UNCHANGED call /\ out' = Nil /\ Keep
      /\ \/ /\ read.m[k] = NoEntry /\ read.amended
            /\ HoldOne(g, dirty.m[k]) /\ missLocked
         \/ /\ read.m[k] # NoEntry \/ ~read.amended
            /\ HoldOne(g, read.m[k])
            /\ UNCHANGED <<read, dirty, misses>>
  BY <1>1, Mine DEF LoadLocked, At
<1>3. OnlyOf(g) /\ pc'[g] = "entry" /\ ~Copying'
  BY <1>2 DEF LocalTypes, OnlyOf, Jump, HoldOne, Hold, Copying, Locked
<1>4. /\ \A i \in Keys : Cur(i)' = Cur(i) \/ (Cur(i)' = NoEntry /\ load(Cur(i)) = Nil)
      /\ held'[g][k] = Cur(k)'
  <2>1. CASE /\ read.m[k] # NoEntry \/ ~read.amended
             /\ HoldOne(g, read.m[k])
             /\ UNCHANGED <<read, dirty, misses>>
    <3>1. held'[g][k] = read.m[k]
      BY <1>1, <1>2, <2>1 DEF LocalTypes, HoldOne, Hold, NoEntries
    <3>2. read.m[k] = NoEntry => dirty.m[k] = NoEntry
      BY <1>2, <2>1, DirtyIsThere DEF NoEntries
    <3> QED BY <2>1, <3>1, <3>2 DEF Cur
  <2>2. CASE /\ read.m[k] = NoEntry /\ read.amended
             /\ HoldOne(g, dirty.m[k]) /\ missLocked
    <3>1. held'[g][k] = dirty.m[k]
      BY <1>1, <1>2, <2>2 DEF LocalTypes, HoldOne, Hold, NoEntries
    <3>2. CASE UNCHANGED <<read, dirty>>
      BY <2>2, <3>1, <3>2 DEF Cur
    <3>3. CASE Promote
      BY <1>2, <2>2, <3>1, <3>3, PromoteCur, DirtyIsThere DEF Locked
    <3> QED BY <2>2, <3>2, <3>3 DEF missLocked
  <2> QED BY <1>2, <2>1, <2>2
<1>5. \A i \in Keys : CM!About(call[g], i) <=> i = k
  BY <1>1, <1>2 DEF CM!About, Key
<1> QED BY <1>2, <1>3, <1>4, <1>5, KeepSame, Marked, JumpRefines

LEMMA MissRefines ==
  ASSUME MapInv, MapInv', SeenInv, Watch, NEW g \in Gs, Miss(g)
  PROVE  Refines(g)
<1>1. /\ TypeOK /\ LocalTypes /\ pc[g] = "miss" /\ missLocked /\ ~dirty.isNil
      /\ call[g] = NoCall /\ held[g] = NoEntries
      /\ Jump(g, "idle") /\ UNCHANGED <<call, held>> /\ out' = Nil /\ Keep
  BY Mine DEF Miss, MapInv, DirtyThere, Own, CallFits, HeldFits
<1>2. /\ OnlyOf(g) /\ pc'[g] = "idle" /\ ~Copying'
      /\ \A h \in Gs : pc[h] \notin {"insert", "copy"}
  <2>1. OnlyOf(g) /\ pc'[g] = "idle"
    BY <1>1 DEF LocalTypes, OnlyOf, Jump
  <2> QED BY <1>1, <2>1, LockedApart DEF Copying, OnlyOf
<1>3. \A i \in Keys : Cur(i)' = Cur(i) \/ (Cur(i)' = NoEntry /\ load(Cur(i)) = Nil)
  BY <1>1, <1>2, PromoteCur DEF missLocked, Cur
<1> QED BY <1>1, <1>2, <1>3, KeepSame, Marked, JumpRefines, CallTypes

LEMMA DeleteLockedRefines ==
  ASSUME MapInv, MapInv', SeenInv, Watch, NEW g \in Gs, DeleteLocked(g)
  PROVE  Refines(g)
<1>1. PICK k \in Keys : k = Key(g)
  BY Mine DEF DeleteLocked, At, OfMap
<1>2. /\ LocalTypes /\ pc[g] = "lock" /\ call[g].op = "Delete" /\ ~Locked
      /\ UNCHANGED read /\ Keep
      /\ \/ /\ read.m[k] = NoEntry /\ read.amended
            /\ dirty' = [dirty EXCEPT !.m[k] = NoEntry]
            /\ Answer(g, Nil, "idle")
         \/ /\ read.m[k] # NoEntry \/ ~read.amended
            /\ HoldOne(g, read.m[k]) /\ Jump(g, "entry")
            /\ UNCHANGED <<dirty, call>> /\ out' = Nil
  BY <1>1, Mine DEF DeleteLocked, At
<1>3. ~Copying' /\ OnlyOf(g)
  BY <1>2 DEF LocalTypes, OnlyOf, Answer, Drop, Jump, HoldOne, Hold, Copying, Locked
<1>4. CASE /\ read.m[k] # NoEntry \/ ~read.amended
           /\ HoldOne(g, read.m[k]) /\ Jump(g, "entry")
           /\ UNCHANGED <<dirty, call>> /\ out' = Nil
  <2>1. held'[g][k] = read.m[k]
    BY <1>1, <1>2, <1>4 DEF LocalTypes, HoldOne, Hold, NoEntries
  <2>2. read.m[k] = NoEntry => dirty.m[k] = NoEntry
    BY <1>2, <1>4, DirtyIsThere DEF NoEntries
  <2>3. \A i \in Keys : CM!About(call[g], i) <=> i = k
    BY <1>1, <1>2 DEF CM!About, Key
  <2>4. held'[g][k] = Cur(k)' /\ \A i \in Keys : Cur(i)' = Cur(i)
    BY <1>2, <1>4, <2>1, <2>2 DEF Cur
  <2> QED BY <1>2, <1>3, <1>4, <2>3, <2>4, KeepSame, Marked, JumpRefines
<1>5. CASE /\ read.m[k] = NoEntry
           /\ dirty' = [dirty EXCEPT !.m[k] = NoEntry]
           /\ Answer(g, Nil, "idle")
  <2>1. dirty'.m[k] = NoEntry /\ \A i \in Keys \ {k} : dirty'.m[i] = dirty.m[i]
    BY <1>5, Mine, Types
  <2>2. \A e \in (Live \cap Live') \cup {NoEntry} : load(e)' = load(e)
    BY <1>2, KeepSame DEF Same
  <2>3. \A i \in Keys : load(Cur(i))' = IF i = k THEN Nil ELSE load(Cur(i))
    <3> SUFFICES ASSUME NEW i \in Keys
                 PROVE  load(Cur(i))' = IF i = k THEN Nil ELSE load(Cur(i))
      OBVIOUS
    <3>1. CASE i = k
      BY <1>2, <1>5, <2>1, <3>1 DEF load, Cur
    <3>2. CASE i # k
      <4>1. Cur(i)' = Cur(i) /\ Cur(i) \in (Live \cap Live') \cup {NoEntry}
        BY <1>2, <2>1, <3>2, CurTypes DEF Cur
      <4> QED BY <2>2, <3>2, <4>1 DEF load
    <3> QED BY <3>1, <3>2
  <2>4. Content' = [Content EXCEPT ![k] = Nil]
    BY <2>3, ContentIs
  <2>5. Tracked
    BY <2>2 DEF Tracked
  <2>6. CM!Answer(g, Nil) /\ \A h \in Gs : SeenFits(h)'
    BY <1>5, <2>5, AnswerRefines DEF SeenInv
  <2>7. CM!Remove(g)
    BY <1>1, <1>2, <2>4, <2>6 DEF CM!Remove, Key
  <2> QED BY <1>3, <2>6, <2>7, Marked DEF Refines, CM!Step
<1> QED BY <1>2, <1>4, <1>5

\* unexpungeLocked changes nothing that can be seen.
LEMMA UpdateReadRefines ==
  ASSUME MapInv, MapInv', SeenInv, Watch, NEW g \in Gs, UpdateRead(g)
  PROVE  Refines(g)
<1>1. PICK k, e : k \in Keys /\ k = Key(g) /\ e = read.m[k] /\ e # NoEntry
  BY Mine DEF UpdateRead, Inserters, OfMap
<1>2. /\ LocalTypes /\ pc[g] = "lock" /\ call[g].op \in Inserters
      /\ UNCHANGED <<read, dirty, misses>> /\ Unamended'
      /\ \/ /\ p[e] = Expunged
            /\ Jump(g, "insert") /\ HoldOne(g, e) /\ Put(e, Nil)
            /\ UNCHANGED call /\ out' = Nil
         \/ /\ p[e] # Expunged
            /\ \/ call[g].op = "Store" /\ Answer(g, Nil, "idle") /\ Put(e, call[g].val)
               \/ call[g].op = "LoadOrStore" /\ LoadOrPut(g, e, "idle")
  BY <1>1, Mine DEF UpdateRead, Inserters, SeenInv, Unamended
<1>3. CASE /\ p[e] = Expunged
           /\ Jump(g, "insert") /\ HoldOne(g, e) /\ Put(e, Nil)
           /\ UNCHANGED call /\ out' = Nil
  <2>1. Same
    BY <1>3, MapConstants DEF Same, Put, load
  <2>2. OnlyOf(g) /\ pc'[g] = "insert" /\ held'[g][k] = e
    BY <1>1, <1>2, <1>3 DEF LocalTypes, OnlyOf, Jump, HoldOne, Hold, NoEntries
  <2>3. \A i \in Keys : CM!About(call[g], i) <=> i = k
    BY <1>1, <1>2 DEF CM!About, Key, Inserters
  <2>4. Cur(k)' = e /\ \A i \in Keys : Cur(i)' = Cur(i)
    BY <1>1, <1>2 DEF Cur
  <2> QED BY <1>2, <1>3, <2>1, <2>2, <2>3, <2>4, JumpRefines DEF Inserters
<1>4. CASE p[e] # Expunged
  <2>1. CountsFor(e, k)
    BY <1>1, <1>2 DEF CountsFor, Cur
  <2> QED BY <1>1, <1>2, <1>4, <2>1, StoreRefines, LoadOrPutRefines
<1> QED BY <1>2, <1>3, <1>4

LEMMA UpdateDirtyRefines ==
  ASSUME MapInv, MapInv', SeenInv, Watch, NEW g \in Gs, UpdateDirty(g)
  PROVE  Refines(g)
<1>1. PICK k, e : k \in Keys /\ k = Key(g) /\ e = dirty.m[k] /\ e # NoEntry /\ read.m[k] = NoEntry
  BY Mine DEF UpdateDirty, Inserters, OfMap
<1>2. /\ UNCHANGED <<read, dirty, misses>> /\ Unamended' /\ p[e] # Expunged
      /\ \/ call[g].op = "Store" /\ Answer(g, Nil, "idle") /\ Put(e, call[g].val)
         \/ call[g].op = "LoadOrStore" /\ LoadOrPut(g, e, "miss")
  BY <1>1 DEF UpdateDirty, SeenInv, Unamended, MapInv, DirtyLive
<1>3. CountsFor(e, k)
  BY <1>1, <1>2 DEF CountsFor, Cur
<1> QED BY <1>1, <1>2, <1>3, StoreRefines, LoadOrPutRefines

LEMMA InsertRefines ==
  ASSUME MapInv, MapInv', SeenInv, Watch, NEW g \in Gs, Insert(g)
  PROVE  Refines(g)
<1>1. PICK k, e : /\ k \in Keys /\ k = Key(g) /\ e = Ent(g)
                  /\ e # NoEntry /\ e = read.m[k] /\ p[e] # Expunged
  BY Mine DEF Insert, Own, HeldFits
<1>2. /\ TypeOK /\ read' = read /\ dirty' = [dirty EXCEPT !.m[k] = e]
      /\ \/ call[g].op = "Store" /\ Answer(g, Nil, "idle") /\ Put(e, call[g].val)
         \/ call[g].op = "LoadOrStore" /\ LoadOrPut(g, e, "idle")
  BY <1>1, Mine DEF Insert
<1>3. dirty'.m[k] = e /\ \A i \in Keys \ {k} : dirty'.m[i] = dirty.m[i]
  BY <1>1, <1>2, Types
<1>4. CountsFor(e, k) /\ Unamended'
  BY <1>1, <1>2, <1>3 DEF CountsFor, Cur, SeenInv, Unamended
<1> QED BY <1>1, <1>2, <1>4, StoreRefines, LoadOrPutRefines

LEMMA NewKeyRefines ==
  ASSUME MapInv, MapInv', SeenInv, Watch, NEW g \in Gs, NewKey(g)
  PROVE  Refines(g)
<1>1. /\ TypeOK /\ LocalTypes /\ call[g].op \in Inserters
      /\ Jump(g, "copy") /\ UNCHANGED <<read, call>> /\ out' = Nil /\ Keep
      /\ \/ Hold(g, read.m) /\ dirty' = [dirty EXCEPT !.isNil = FALSE]
         \/ UNCHANGED <<held, dirty>>
  BY Mine DEF NewKey, Inserters
<1>2. OnlyOf(g) /\ pc'[g] = "copy" /\ \A i \in Keys : held'[g][i] \in {read.m[i], held[g][i]}
  BY <1>1 DEF LocalTypes, OnlyOf, Jump, Hold
<1>3. dirty'.m = dirty.m
  BY <1>1, Types
<1>4. /\ Unamended' /\ \A i \in Keys : Cur(i)' = Cur(i)
      /\ \A i \in Keys : read.m[i] # NoEntry => Cur(i)' = read.m[i]
  BY <1>1, <1>3 DEF SeenInv, Unamended, Cur
<1> QED BY <1>1, <1>2, <1>4, KeepSame, JumpRefines DEF Inserters

\* dirtyLocked copies what m.read has, and expunges what shows nothing.
LEMMA CopyEntryRefines ==
  ASSUME MapInv, MapInv', SeenInv, Watch, NEW g \in Gs, CopyEntry(g)
  PROVE  Refines(g)
<1>1. /\ TypeOK /\ LocalTypes /\ Own(g) /\ pc[g] = "copy" /\ call[g].op \in Inserters
      /\ UNCHANGED <<read, misses, pc, call>> /\ out' = Nil
  BY Mine DEF CopyEntry
<1>2. PICK k, e :
        /\ k \in Keys /\ e = held[g][k] /\ e # NoEntry
        /\ Hold(g, [held[g] EXCEPT ![k] = NoEntry])
        /\ \/ /\ p[e] \in {Nil, Expunged}
              /\ UNCHANGED dirty
              /\ Put(e, Expunged)
           \/ /\ dirty' = [dirty EXCEPT !.m[k] = e]
              /\ Keep
  BY DEF CopyEntry
<1>3. e = read.m[k]
  BY <1>1, <1>2 DEF Own, HeldFits
<1>4. Same
  <2>1. CASE p[e] \in {Nil, Expunged} /\ Put(e, Expunged)
    BY <2>1 DEF Same, Put, load
  <2> QED BY <1>2, <2>1, KeepSame
<1>5. OnlyOf(g) /\ \A i \in Keys : held'[g][i] \in {NoEntry, held[g][i]}
  BY <1>1, <1>2 DEF LocalTypes, OnlyOf, Hold
<1>6. dirty'.m[k] \in {dirty.m[k], e} /\ \A i \in Keys \ {k} : dirty'.m[i] = dirty.m[i]
  BY <1>1, <1>2, Types
<1>7. Unamended' /\ \A i \in Keys : Cur(i)' = Cur(i)
  BY <1>1, <1>2, <1>3, <1>6 DEF SeenInv, Unamended, Cur
<1> QED BY <1>1, <1>4, <1>5, <1>7, JumpRefines DEF Inserters

LEMMA AddKeyRefines ==
  ASSUME MapInv, MapInv', SeenInv, Watch, NEW g \in Gs, AddKey(g)
  PROVE  Refines(g)
<1>1. PICK k \in Keys : k = Key(g) /\ read.m[k] = NoEntry /\ dirty.m[k] = NoEntry
  BY Mine DEF AddKey, Own, HeldFits
<1>2. PICK i \in Slots : <<k, i>> \notin Live /\ i = CHOOSE j \in {j \in Slots : <<k, j>> \notin Live} : TRUE
  BY <1>1 DEF AddKey
<1> DEFINE r == IF call[g].op = "Store" THEN Nil ELSE call[g].val
<1>3. PICK e : e = <<k, i>>
  OBVIOUS
<1>4. /\ TypeOK /\ pc[g] = "copy" /\ call[g].op \in Inserters /\ call[g].val \in Vals
      /\ read' = [read EXCEPT !.amended = TRUE]
      /\ dirty' = [dirty EXCEPT !.m[k] = e]
      /\ Answer(g, r, "idle") /\ Put(e, call[g].val)
  BY <1>1, <1>2, <1>3, Mine DEF AddKey
<1>5. e # NoEntry
  BY <1>3, MapConstants
<1>6. /\ read'.m = read.m /\ read'.amended
      /\ dirty'.m[k] = e /\ \A j \in Keys \ {k} : dirty'.m[j] = dirty.m[j]
  BY <1>4, Types
<1>7. Unamended' /\ Cur(k)' = e /\ Content[k] = Nil
  BY <1>1, <1>6, ContentIs DEF Unamended, Cur, load
<1>8. /\ CM!Answer(g, r) /\ Content' = [Content EXCEPT ![k] = call[g].val]
      /\ \A h \in Gs : SeenFits(h)'
  <2>1. r \in Vals \cup {Nil}
    BY <1>4
  <2>2. PICK v \in Vals : v = call[g].val
    BY <1>4
  <2>3. e \in Live'
    BY <1>5, <1>7, CurTypes
  <2>4. \A j \in Keys \ {k} : Cur(j)' = Cur(j)
    BY <1>6 DEF Cur
  <2>5. Content' = [Content EXCEPT ![k] = call[g].val] /\ Tracked
    BY <1>4, <1>7, <2>2, <2>3, <2>4, ContentPut
  <2> QED BY <1>4, <2>1, <2>5, AnswerRefines DEF SeenInv
<1>9. CM!Write(g)
  BY <1>1, <1>4, <1>7, <1>8 DEF CM!Write, Key, Inserters
<1> QED BY <1>7, <1>8, <1>9 DEF Refines, CM!Step

\* The keys that are left out when the loop begins were absent.
LEMMA RangeLockedRefines ==
  ASSUME MapInv, MapInv', SeenInv, Watch, NEW g \in Gs, RangeLocked(g)
  PROVE  Refines(g)
<1>1. /\ LocalTypes /\ pc[g] = "lock" /\ call[g].op = "Range" /\ ~Locked
      /\ Jump(g, "range") /\ UNCHANGED call /\ out' = Nil /\ Keep
      /\ \/ /\ read.amended /\ Hold(g, dirty.m) /\ Promote
         \/ /\ ~read.amended /\ Hold(g, read.m)
            /\ UNCHANGED <<read, dirty, misses>>
  BY Mine DEF RangeLocked, At
<1>2. OnlyOf(g) /\ pc'[g] = "range" /\ ~Copying' /\ held'[g] \in {dirty.m, read.m}
  BY <1>1 DEF LocalTypes, OnlyOf, Jump, Hold, Copying, Locked
<1>3. /\ \A i \in Keys : Cur(i)' = Cur(i) \/ (Cur(i)' = NoEntry /\ load(Cur(i)) = Nil)
      /\ \A i \in Keys : held'[g][i] = Cur(i)'
  <2>1. CASE read.amended /\ Hold(g, dirty.m) /\ Promote
    <3>1. held'[g] = dirty.m
      BY <1>1, <2>1 DEF LocalTypes, Hold
    <3> QED BY <1>1, <2>1, <3>1, PromoteCur, DirtyIsThere DEF Locked
  <2>2. CASE ~read.amended /\ Hold(g, read.m) /\ UNCHANGED <<read, dirty, misses>>
    <3>1. held'[g] = read.m
      BY <1>1, <2>2 DEF LocalTypes, Hold
    <3> QED BY <1>1, <2>2, <3>1, DirtyIsThere DEF Cur, NoEntries
  <2> QED BY <1>1, <2>1, <2>2
<1>4. Content' = Content /\ Tracked
  BY <1>1, <1>3, KeepSame, ContentSame
<1>5. \A i \in Keys : /\ held'[g][i] # NoEntry => load(held[g][i])' = Content'[i]
                      /\ held'[g][i] = NoEntry => Content'[i] = Nil
  BY <1>3, ContentIs DEF load
<1>6. \A h \in Gs : SeenFits(h)'
  BY <1>2, <1>4, <1>5, SeenNext DEF SeenInv
<1>7. PICK K \in SUBSET Keys : K = {k \in Keys : held'[g][k] = NoEntry}
  OBVIOUS
<1>8. \A k \in K : Nil \in seen[g][k]
  BY <1>1, <1>4, <1>5, <1>7 DEF SeenInv, SeenFits, CM!About
<1>9. Left[g] = Keys /\ Left'[g] = Left[g] \ K
  BY <1>1, <1>2, <1>7 DEF Left
<1>10. CM!Skip(g)
  BY <1>1, <1>2, <1>4, <1>7, <1>8, <1>9, LeftOf DEF CM!Skip
<1> QED BY <1>2, <1>6, <1>10, Marked DEF Refines, CM!Step

LEMMA RangeEntryRefines ==
  ASSUME MapInv, MapInv', SeenInv, Watch, NEW g \in Gs, RangeEntry(g)
  PROVE  Refines(g)
<1>1. /\ TypeOK /\ LocalTypes /\ pc[g] = "range" /\ call[g].op = "Range"
      /\ UNCHANGED <<read, dirty, misses>> /\ Keep /\ Unamended'
  BY Mine DEF RangeEntry, Own, CallFits, SeenInv, Unamended
<1>2. PICK k, v :
        /\ k \in Keys /\ held[g][k] # NoEntry /\ v = load(held[g][k])
        /\ \/ /\ Hold(g, [held[g] EXCEPT ![k] = NoEntry])
              /\ out' = IF v = Nil THEN Nil ELSE <<g, v>>
              /\ UNCHANGED <<pc, call>>
           \/ v # Nil /\ Answer(g, v, "idle")
  BY DEF RangeEntry
<1>3. v \in seen[g][k] /\ k \in Left[g] /\ v \in Vals \cup {Nil}
  BY <1>1, <1>2, Types, LoadValue DEF SeenInv, SeenFits, CM!About, Left
<1>4. CASE v # Nil /\ Answer(g, v, "idle")
  <2>1. CM!Answer(g, v) /\ Content' = Content /\ \A h \in Gs : SeenFits(h)'
    BY <1>1, <1>3, <1>4, AnswerSame
  <2>2. CM!Visit(g)
    BY <1>1, <1>3, <1>4, <2>1 DEF CM!Visit
  <2> QED BY <1>1, <2>1, <2>2 DEF Refines, CM!Step
<1>5. CASE /\ Hold(g, [held[g] EXCEPT ![k] = NoEntry])
           /\ out' = IF v = Nil THEN Nil ELSE <<g, v>>
           /\ UNCHANGED <<pc, call>>
  <2>1. /\ OnlyOf(g) /\ held'[g][k] = NoEntry
        /\ \A i \in Keys \ {k} : held'[g][i] = held[g][i]
    BY <1>1, <1>2, <1>5 DEF LocalTypes, OnlyOf, Hold
  <2>2. Content' = Content /\ Tracked
    BY <1>1, KeepSame, ContentSame DEF Cur
  <2>3. \A h \in Gs : SeenFits(h)'
    BY <1>1, <1>5, <2>1, <2>2, SeenNext DEF SeenInv
  <2>4. Left'[g] = Left[g] \ {k}
    BY <1>1, <1>5, <2>1 DEF Left
  <2>5. Left' = [Left EXCEPT ![g] = @ \ {k}]
    BY <2>1, <2>4, LeftOf
  <2>6. CASE v = Nil
    BY <1>1, <1>3, <1>5, <2>2, <2>3, <2>5, <2>6 DEF Refines, CM!Step, CM!Skip
  <2>7. CASE v # Nil
    BY <1>1, <1>3, <1>5, <2>2, <2>3, <2>5, <2>7 DEF Refines, CM!Step, CM!Visit
  <2> QED BY <2>6, <2>7
<1> QED BY <1>2, <1>4, <1>5

LEMMA RangeEndRefines ==
  ASSUME MapInv, MapInv', SeenInv, Watch, NEW g \in Gs, RangeEnd(g)
  PROVE  Refines(g)
<1>1. /\ pc[g] = "range" /\ call[g].op = "Range" /\ held[g] = NoEntries
      /\ Answer(g, Nil, "idle") /\ UNCHANGED <<read, dirty>> /\ Keep
  BY Mine DEF RangeEnd, Own, CallFits
<1>2. /\ CM!Answer(g, Nil) /\ Content' = Content /\ Unamended'
      /\ \A h \in Gs : SeenFits(h)'
  BY <1>1, AnswerSame
<1>3. Left[g] = {}
  BY <1>1 DEF Left, NoEntries
<1> QED BY <1>1, <1>2, <1>3 DEF Refines, CM!Step, CM!EndRange

LEMMA InitRefines ==
  ASSUME Init
  PROVE  CM!MapInit /\ SeenInv
<1>1. Content = [k \in Keys |-> Nil] /\ Left = [g \in Gs |-> {}]
  BY CallTypes DEF Init, Content, Left, load, NoEntries
<1>2. CM!MapInit
  BY <1>1 DEF CM!MapInit, CM!NoCall, Init, NoCall
<1>3. \A g \in Gs, k \in Keys : ~CM!About(call[g], k)
  BY CallTypes, MapConstants DEF Init, CM!About
<1> QED BY <1>2, <1>3 DEF SeenInv, SeenFits, Unamended, Init, NoEntries

LEMMA NextRefines ==
  ASSUME MapInv, MapInv', SeenInv, Next
  PROVE  SeenInv' /\ CM!MapNext
<1>1. Watch
  BY DEF Next
<1>2. PICK g \in Gs : Fast(g) \/ Slow(g) \/ Ranging(g)
  BY DEF Next
<1>3. Refines(g)
  <2>1. CASE Fast(g)
    BY <1>1, <2>1, BeginRefines, LoadEntryRefines, TryStoreRefines, TryLoadOrStoreRefines,
       DeleteEntryRefines DEF Fast
  <2>2. CASE Slow(g)
    BY <1>1, <2>2, LoadLockedRefines, DeleteLockedRefines, UpdateReadRefines, InsertRefines,
       UpdateDirtyRefines, MissRefines, NewKeyRefines, CopyEntryRefines, AddKeyRefines DEF Slow
  <2>3. CASE Ranging(g)
    BY <1>1, <2>3, RangeLockedRefines, RangeEntryRefines, RangeEndRefines DEF Ranging
  <2> QED BY <1>2, <2>1, <2>2, <2>3
<1>4. CM!Watch
  BY <1>1 DEF Watch, CM!Watch, CM!About
<1> QED BY <1>3, <1>4 DEF Refines, SeenInv, CM!MapNext

LEMMA StutterRefines ==
  ASSUME UNCHANGED vars
  PROVE  (SeenInv => SeenInv') /\ UNCHANGED CM!mvars
<1>1. Content' = Content /\ Left' = Left
  BY DEF vars, Content, Left, load
<1>2. SeenInv => SeenInv'
  BY <1>1 DEF vars, SeenInv, SeenFits, Unamended, load
<1> QED BY <1>1, <1>2 DEF vars, CM!mvars

(***************************************************************************)
(* sync.Map is a concurrent map: each of its operations takes effect once, *)
(* or answers with what the key had, at some moment of the call, whatever  *)
(* happens between its reads of m.read and the entry: a promotion, the     *)
(* expunging of the entry, its way back into m.dirty or its deletion.      *)
(***************************************************************************)
THEOREM MapIsConcurrentMap == Spec => ImplementsMap
<1>1. Init => CM!MapInit /\ MapInv /\ SeenInv
  BY InitRefines, InitMapInv
<1>2. MapInv /\ SeenInv /\ [Next]_vars => (MapInv /\ SeenInv)' /\ [CM!MapNext]_(CM!mvars)
  <2> SUFFICES ASSUME MapInv, SeenInv, [Next]_vars
               PROVE  (MapInv /\ SeenInv)' /\ [CM!MapNext]_(CM!mvars)
    OBVIOUS
  <2>1. MapInv'
    BY NextMapInv
  <2>2. CASE Next
    BY <2>1, <2>2, NextRefines
  <2>3. CASE UNCHANGED vars
    BY <2>1, <2>3, StutterRefines
  <2> QED BY <2>2, <2>3
<1> QED BY <1>1, <1>2, PTL DEF Spec, ImplementsMap, CM!MapSpec
=============================================================================
