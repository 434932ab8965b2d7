---------------------------- MODULE MCRegistration ----------------------------
(* Instances of Registration for TLC.                                        *)
EXTENDS Registration, TLC

ClientSymmetry == Permutations(Clients) \cup Permutations(Details)
=============================================================================
