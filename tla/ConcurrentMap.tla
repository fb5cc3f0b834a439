--------------------------- MODULE ConcurrentMap ---------------------------
(***************************************************************************)
(* What sync.Map promises (the comments of sync/map.go): each Store and    *)
(* each Delete that finds the key changes the map once, at some moment of  *)
(* its call; a Load, a LoadOrStore that loads and a Delete that finds      *)
(* nothing answer with what the key had at some moment of their call; a    *)
(* Range visits no key twice and may show, key by key, what the key had at *)
(* any moment of the call.                                                 *)
(***************************************************************************)
CONSTANTS Gs,          \* goroutines
          Keys, Vals,
          Nil          \* no value

VARIABLES content,     \* content[k]: the value of k, or Nil
          call,        \* call[g]: the operation g has begun and that has not answered yet
          out,         \* <<g, r>> when the last step told g the answer r
          seen,        \* seen[g][k]: what k has had since g's call began, if the call is about k
          left         \* left[g]: the keys that g's Range has yet to decide about

mvars == <<content, call, out, seen, left>>

NoCall == [op |-> "none", key |-> Nil, val |-> Nil]
Calls ==
  [op : {"Load", "Delete"}, key : Keys, val : {Nil}]
    \cup [op : {"Store", "LoadOrStore"}, key : Keys, val : Vals]
    \cup {[op |-> "Range", key |-> Nil, val |-> Nil]}

\* A call is about its key, a Range about all of them.
About(c, k) == c.key = k \/ c.op = "Range"

MapInit ==
  /\ content = [k \in Keys |-> Nil]
  /\ call = [g \in Gs |-> NoCall]
  /\ out = Nil
  /\ seen = [g \in Gs |-> [k \in Keys |-> {}]]
  /\ left = [g \in Gs |-> {}]

Answer(g, r) ==
  /\ call' = [call EXCEPT ![g] = NoCall]
  /\ out' = <<g, r>>
  /\ left' = [left EXCEPT ![g] = {}]

\* A Range may find at once that some keys are absent.
Begin(g) ==
  /\ call[g] = NoCall
  /\ \E c \in Calls : call' = [call EXCEPT ![g] = c]
  /\ out' = Nil
  /\ \E rest \in SUBSET Keys :
       /\ call'[g].op = "Range" => \A k \in Keys \ rest : content[k] = Nil
       /\ call'[g].op # "Range" => rest = {}
       /\ left' = [left EXCEPT ![g] = rest]
  /\ UNCHANGED content

\* Store, and LoadOrStore when the key is absent.
Write(g) ==
  /\ \/ call[g].op = "Store" /\ Answer(g, Nil)
     \/ call[g].op = "LoadOrStore" /\ content[call[g].key] = Nil /\ Answer(g, call[g].val)
  /\ content' = [content EXCEPT ![call[g].key] = call[g].val]

Remove(g) ==
  /\ call[g].op = "Delete"
  /\ content' = [content EXCEPT ![call[g].key] = Nil]
  /\ Answer(g, Nil)

Observe(g) ==
  /\ call[g].op \in {"Load", "LoadOrStore", "Delete"}
  /\ \E r \in seen[g][call[g].key] :
       /\ call[g].op = "LoadOrStore" => r # Nil
       /\ call[g].op = "Delete" => r = Nil
       /\ Answer(g, r)
  /\ UNCHANGED content

\* Range passes over keys that were absent at some moment of the call,
Skip(g) ==
  /\ call[g].op = "Range"
  /\ \E K \in SUBSET left[g] :
       /\ \A k \in K : Nil \in seen[g][k]
       /\ left' = [left EXCEPT ![g] = @ \ K]
  /\ out' = Nil
  /\ UNCHANGED <<content, call>>

\* calls f with a key and a value, which may end it,
Visit(g) ==
  /\ call[g].op = "Range"
  /\ \E k \in left[g] : \E r \in seen[g][k] \ {Nil} :
       \/ /\ left' = [left EXCEPT ![g] = @ \ {k}]
          /\ out' = <<g, r>>
          /\ UNCHANGED call
       \/ Answer(g, r)
  /\ UNCHANGED content

\* and ends when every key is decided.
EndRange(g) ==
  /\ call[g].op = "Range"
  /\ left[g] = {}
  /\ Answer(g, Nil)
  /\ UNCHANGED content

\* A step inside a call.
Work == out' = Nil /\ UNCHANGED <<content, call, left>>

Step(g) == Begin(g) \/ Write(g) \/ Remove(g) \/ Observe(g) \/ Skip(g) \/ Visit(g) \/ EndRange(g)

\* Whoever is in a call sees what its keys have now.
Watch ==
  seen' = [g \in Gs |-> [k \in Keys |->
             IF About(call'[g], k) THEN seen[g][k] \cup {content'[k]} ELSE {}]]

MapNext == (Work \/ \E g \in Gs : Step(g)) /\ Watch

MapSpec == MapInit /\ [][MapNext]_mvars
=============================================================================
