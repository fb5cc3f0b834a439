---------------------------- MODULE MCPoolChain ----------------------------
(***************************************************************************)
(* Symmetry of the run of PoolChain.  It is sound for the values because   *)
(* all of them are in Once.                                                *)
(***************************************************************************)
EXTENDS PoolChain, TLC

Symmetry == Permutations(Cs) \cup Permutations(Vals)
=============================================================================
