------------------------------ MODULE MCTimer ------------------------------
(* Constants of the run of Timer: a timer that runs once and a ticker. *)
EXTENDS Timer, TLC

CONSTANTS t1, t2, p1, p2

MCTimers == {t1, t2}
MCPs == {p1, p2}
MCperiod == [t \in MCTimers |-> IF t = t1 THEN 0 ELSE 1]
Symmetry == Permutations(Gs) \cup Permutations(MCPs)
=============================================================================
