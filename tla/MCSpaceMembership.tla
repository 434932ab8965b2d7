-------------------------- MODULE MCSpaceMembership --------------------------
(* Instances of SpaceMembership for TLC.  Which user, space, invitation or   *)
(* client has which name makes no difference in the runs without liveness;   *)
(* the names of spaces are interchangeable only if all are of one type.      *)
EXTENDS SpaceMembership, TLC

NameSymmetry ==
    Permutations(Users) \cup Permutations(Invites) \cup Permutations(Clients)
        \cup IF PersonalSpaces = {} THEN Permutations(Spaces) ELSE {}
=============================================================================
