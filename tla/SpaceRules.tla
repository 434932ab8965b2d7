------------------------------ MODULE SpaceRules ------------------------------
(***************************************************************************)
(* What the spaces promise their people, with every request in one step:   *)
(* one owner at any time, who is replaced by the earliest remaining person *)
(* when leaving; an offer admits one person once; a space is dissolved only*)
(* by an owner who belongs to another one.  SpaceMembership implements it  *)
(* with row locks (docs/transactions-contract.md:789-799).                 *)
(***************************************************************************)
EXTENDS Naturals, FiniteSets

CONSTANTS Users, Spaces, None, MaxMembers

VARIABLES
    people,     \* set of [space, user, since]
    owner,      \* owner[s], or None
    offers      \* set of [id, space, to]: invitations that may still be taken

vars == <<people, owner, offers>>

In(s) == {p \in people : p.space = s}
Belongs(u, s) == \E p \in people : p.space = s /\ p.user = u
Earliest(who) == CHOOSE p \in who : \A q \in who : p.since <= q.since

Init == people = {} /\ owner = [s \in Spaces |-> None] /\ offers = {}

\* The newcomer of a step comes after everyone who is in the space.
Newcomer(p) == people' = people \cup {p} /\ \A q \in In(p.space) : q.since < p.since

\* A new space may come with offers.
Found(s) ==
    /\ owner[s] = None
    /\ \E p \in people' :
          /\ p.space = s /\ Newcomer(p)
          /\ owner' = [owner EXCEPT ![s] = p.user]
    /\ offers \subseteq offers' /\ \A o \in offers' \ offers : o.space = s

Offer(s) ==
    /\ owner[s] # None
    /\ \E o \in offers' : o.space = s /\ o \notin offers /\ offers' = offers \cup {o}
    /\ UNCHANGED <<people, owner>>

Withdraw(o) == offers' = offers \ {o} /\ UNCHANGED <<people, owner>>

Take(o) ==
    /\ owner[o.space] # None
    /\ ~Belongs(o.to, o.space)
    /\ Cardinality(In(o.space)) < MaxMembers
    /\ \E p \in people' : p.space = o.space /\ p.user = o.to /\ Newcomer(p)
    /\ offers' = offers \ {o}
    /\ UNCHANGED owner

\* One person leaves or is removed; someone remains.
Depart(p) ==
    /\ people' = people \ {p}
    /\ LET rest == In(p.space) \ {p} IN
          /\ rest # {}
          /\ owner' = [owner EXCEPT ![p.space] =
                         IF p.user = @ THEN Earliest(rest).user ELSE @]
    /\ UNCHANGED offers

Dissolve(s) ==
    /\ owner[s] # None
    /\ \E p \in people : p.user = owner[s] /\ p.space # s
    /\ people' = people \ In(s)
    /\ owner' = [owner EXCEPT ![s] = None]
    /\ offers' = {o \in offers : o.space # s}

Next ==
    \/ \E s \in Spaces : Found(s) \/ Offer(s) \/ Dissolve(s)
    \/ \E o \in offers : Withdraw(o) \/ Take(o)
    \/ \E p \in people : Depart(p)

Spec == Init /\ [][Next]_vars
=============================================================================
