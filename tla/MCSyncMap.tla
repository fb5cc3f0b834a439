----------------------------- MODULE MCSyncMap -----------------------------
(***************************************************************************)
(* Constants of the run of SyncMap: a writer, a goroutine that inserts     *)
(* where nothing is and ranges, and one that loads and deletes.  What the  *)
(* writer stores differs from what the second goroutine inserts.           *)
(***************************************************************************)
EXTENDS SyncMap, TLC

CONSTANTS g1, g2, g3, stored, inserted

MCGs == {g1, g2, g3}
Of(ops, v) == {c \in Calls : c.op \in ops /\ c.val = v}
MCDoes ==
  [g \in MCGs |-> CASE g = g1 -> Of({"Store"}, stored)
                   [] g = g2 -> Of({"LoadOrStore"}, inserted) \cup Of({"Range"}, Nil)
                   [] g = g3 -> Of({"Load", "Delete"}, Nil)]

Symmetry == Permutations(Keys)
=============================================================================
