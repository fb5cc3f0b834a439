----------------------------- MODULE MCNetpoll -----------------------------
(* Constants of the runs of Netpoll. *)
EXTENDS Netpoll

MCDurations == {-1, 0, 1}
=============================================================================
