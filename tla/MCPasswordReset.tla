---------------------------- MODULE MCPasswordReset ----------------------------
(* Instances of PasswordReset for TLC: clients run the same code.            *)
EXTENDS PasswordReset, TLC

ClientSymmetry == Permutations(Clients)
=============================================================================
