----------------------------- MODULE AccountOpening -----------------------------
(***************************************************************************)
(* What registration promises about one address: an account is opened once, *)
(* by a usable code or by the operator, with its starter data and with the  *)
(* details of the last registration before that; one code is usable at a    *)
(* time, for a limited number of wrong answers (docs/deployment.md:82-111). *)
(***************************************************************************)
EXTENDS Naturals

CONSTANTS Details, Codes, MaxAttempts, NoDetails

VARIABLES
    state,      \* "none", "pending" or "open"
    details,    \* name, password and currency
    starters,   \* sets of starter data
    usable,     \* codes that would open the account
    wrong       \* wrong[n]: wrong answers counted against a code

account == <<state, details, starters>>
vars == <<account, usable, wrong>>

Register(d) ==
    /\ state = "none"
    /\ state' = "pending" /\ details' = d
    /\ UNCHANGED <<starters, usable, wrong>>

Refresh(d) ==
    /\ state = "pending"
    /\ details' = d
    /\ UNCHANGED <<state, starters, usable, wrong>>

Issue(n) ==
    /\ state = "pending" /\ usable = {}
    /\ usable' = {n} /\ wrong' = [wrong EXCEPT ![n] = 0]
    /\ UNCHANGED account

\* The last wrong answer may come as the code runs out.
WrongAnswer(n) ==
    /\ state = "pending" /\ n \in usable /\ wrong[n] < MaxAttempts
    /\ wrong' = [wrong EXCEPT ![n] = @ + 1]
    /\ usable' \in {usable, {}}
    /\ UNCHANGED account

Void ==
    /\ usable' = {}
    /\ UNCHANGED <<account, wrong>>

Open ==
    /\ state' = "open" /\ starters' = 1
    /\ state = "pending" /\ starters = 0
    /\ UNCHANGED <<details, wrong>>

OpenByCode == Open /\ usable' = {} /\ \E n \in usable : wrong[n] < MaxAttempts
OpenByOperator == Open /\ UNCHANGED usable

Init ==
    /\ state = "none" /\ details = NoDetails /\ starters = 0
    /\ usable = {} /\ wrong = [n \in Codes |-> 0]

Next ==
    \/ \E d \in Details : Register(d) \/ Refresh(d)
    \/ \E n \in Codes : Issue(n) \/ WrongAnswer(n)
    \/ Void \/ OpenByCode \/ OpenByOperator

Spec == Init /\ [][Next]_vars
=============================================================================
