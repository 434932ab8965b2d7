----------------------------- MODULE EmailPromise -----------------------------
(***************************************************************************)
(* What invitation delivery promises about the email of an invitation,     *)
(* whatever workers, leases and attempts it uses: a scheduled email stays  *)
(* pending until it is sent, fails or its invitation ends; it is `sent`    *)
(* only if the SMTP server accepted it; `sent` and `failed` change only    *)
(* when the owner schedules another email; an ended invitation never gets  *)
(* a pending email again (docs/invitations-contract.md, Delivery states).  *)
(***************************************************************************)
CONSTANT Invites

VARIABLES
    mail,   \* mail[i]: the latest email of invitation i
    got     \* got[i]: the SMTP server accepted that email

vars == <<mail, got>>

States == {"none", "pending", "sent", "failed", "ended"}

Init ==
    /\ mail = [i \in Invites |-> "none"]
    /\ got = [i \in Invites |-> FALSE]

Schedule(i) ==
    /\ mail[i] \in {"none", "sent", "failed"}
    /\ mail' = [mail EXCEPT ![i] = "pending"]
    /\ got' = [got EXCEPT ![i] = FALSE]

\* Also after the outcome was settled: an attempt whose lease ran out goes on.
Reach(i) ==
    /\ mail[i] # "none"
    /\ got' = [got EXCEPT ![i] = TRUE]
    /\ UNCHANGED mail

Settle(i) ==
    /\ mail[i] = "pending"
    /\ \/ got[i] /\ mail' = [mail EXCEPT ![i] = "sent"]
       \/ mail' = [mail EXCEPT ![i] = "failed"]
    /\ UNCHANGED got

\* Revoked, accepted or expired, or deleted together with its space.
End(S) ==
    /\ mail' = [i \in Invites |-> IF i \in S THEN "ended" ELSE mail[i]]
    /\ UNCHANGED got

Next ==
    \/ \E i \in Invites : Schedule(i) \/ Reach(i) \/ Settle(i)
    \/ \E S \in SUBSET Invites : End(S)

Spec == Init /\ [][Next]_vars

FairSpec == Spec /\ \A i \in Invites : WF_vars(Settle(i))
=============================================================================
