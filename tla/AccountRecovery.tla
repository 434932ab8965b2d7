---------------------------- MODULE AccountRecovery ----------------------------
(***************************************************************************)
(* What password recovery promises the owner of an account: at most one    *)
(* authorization stands at a time, a new request takes it away, it changes *)
(* the password once, and that change ends every session                   *)
(* (docs/password-reset-contract.md, Flow and Sessions).                   *)
(***************************************************************************)
EXTENDS Naturals

CONSTANT NoGrant

VARIABLES
    password,   \* how often the password was set
    grant,      \* the authorization that stands, or NoGrant
    spent,      \* authorizations that were granted before or are
    live        \* passwords with which the accepted sessions were opened

vars == <<password, grant, spent, live>>

Init == password = 1 /\ grant = NoGrant /\ spent = {} /\ live = {}

\* A request that waited may be given an authorization that has lapsed since.
Authorize ==
    /\ grant = NoGrant
    /\ \E t \in spent' :
          /\ t # NoGrant /\ t \notin spent /\ spent' = spent \cup {t}
          /\ grant' \in {t, NoGrant}
    /\ UNCHANGED <<password, live>>

\* A new request, the fifth wrong code, or time.
Lapse == grant' = NoGrant /\ UNCHANGED <<password, spent, live>>

Reset ==
    /\ grant # NoGrant /\ grant' = NoGrant
    /\ password' = password + 1
    /\ live' = {}
    /\ UNCHANGED spent

SignIn == live' = live \cup {password} /\ UNCHANGED <<password, grant, spent>>

\* The account is registered again before its email is verified.
RegisterAgain ==
    /\ live = {} /\ password' = password + 1
    /\ UNCHANGED <<grant, spent, live>>

Next == Authorize \/ Lapse \/ Reset \/ SignIn \/ RegisterAgain

Spec == Init /\ [][Next]_vars
=============================================================================
