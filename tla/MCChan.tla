------------------------------- MODULE MCChan -------------------------------
(***************************************************************************)
(* Constants of the run of Chan: an unbuffered channel u and a channel b  *)
(* with one slot.                                                          *)
(***************************************************************************)
EXTENDS Chan, TLC

CONSTANTS u, b

S(c) == [c |-> c, dir |-> "send"]
R(c) == [c |-> c, dir |-> "recv"]
Plain(k, block) == [sel |-> FALSE, block |-> block, cases |-> {k}, times |-> Once]
\* A select of the cases ks, those of twice listed twice.
Select(ks, twice, block) ==
  [sel |-> TRUE, block |-> block, cases |-> ks,
   times |-> [k \in Case |-> IF k \in twice THEN 2 ELSE 1]]

MCC == {u, b}
MCcap == [c \in MCC |-> IF c = u THEN 0 ELSE 1]
MCOrder == <<u, b>>
MCOps ==
  {Plain(S(b), TRUE), Plain(R(b), TRUE),
   Plain(S(u), FALSE), Plain(R(b), FALSE),
   Select({R(u), S(u), R(b)}, {R(u)}, TRUE), Select({S(u), S(b)}, {}, FALSE)}

Symmetry == Permutations(G)
=============================================================================
