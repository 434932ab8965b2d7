--------------------------- MODULE MCInviteDelivery ---------------------------
(* Instances of InviteDelivery for TLC.  Threads of a kind run the same     *)
(* code, so they are interchangeable in the runs without liveness.          *)
EXTENDS InviteDelivery, TLC

ThreadSymmetry == Permutations(Pollers) \cup Permutations(Callers)
=============================================================================
