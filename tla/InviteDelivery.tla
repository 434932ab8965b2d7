---------------------------- MODULE InviteDelivery ----------------------------
(***************************************************************************)
(* Invitation emails (src/src/modules/spaces/space-invite-delivery.ts).    *)
(*                                                                         *)
(* The invitation rows are the delivery queue.  A row is claimed for one   *)
(* attempt by a conditional UPDATE that also takes a lease; the email is   *)
(* sent with no transaction open; the result is written back only while    *)
(* the row still carries the attempt id the worker read.  Workers are the  *)
(* periodic run of each server instance (Pollers) and the attempts that a  *)
(* request starts after its commit (Callers).                              *)
(*                                                                         *)
(* Each database statement is one action, because each runs on its own     *)
(* connection with autocommit.  An owner's request is one action: its      *)
(* transaction holds the row's exclusive lock from its check to its write. *)
(* Timestamps are abstracted to whether they have been reached.            *)
(***************************************************************************)
EXTENDS Naturals, FiniteSets

CONSTANTS
    Invites,            \* invitation rows of one space
    NoInvite,           \* the job of a thread that has none
    Pollers,            \* one periodic run per server instance
    Callers,            \* bound: attempts started after a commit, in flight at once
    MaxAttempts,        \* SPACE_INVITE_EMAIL.MAX_ATTEMPTS
    PerInvite,          \* SPACE_INVITE_EMAIL.PER_INVITE; the 24-hour window never slides
    PollBatch,          \* SPACE_INVITE_EMAIL.POLL_BATCH
    MaxFailures,        \* bound: crashes and database errors
    MaxStalls           \* bound: leases that run out between two statements

ASSUME NoInviteAssumption == NoInvite \notin Invites
ASSUME ThreadAssumption == Pollers \cap Callers = {}
ASSUME LimitAssumption == /\ MaxAttempts \in Nat \ {0}
                          /\ PerInvite \in Nat
                          /\ PollBatch \in Nat \ {0}
                          /\ MaxFailures \in Nat
                          /\ MaxStalls \in Nat

VARIABLES
    row,        \* row[i]: the columns of space_invites that delivery uses
    emails,     \* emails[i]: rows of invitation i in the send log
    thr,        \* thr[t]: where a worker is and what it has read
    batch,      \* batch[p]: invitations a periodic run has still to attempt
    failures,   \* crashes and database errors so far
    stalls,     \* leases that ran out between two statements so far
    replies,    \* history: SMTP replies to attempts at the current email of i
    tries,      \* history: SMTP conversations started for the current email of i
    schedId     \* history: attempt id when the current email was scheduled

vars == <<row, emails, thr, batch, failures, stalls, replies, tries, schedId>>
budgets == <<failures, stalls>>
history == <<replies, tries, schedId>>

Threads == Pollers \cup Callers

Pending == {"queued", "sending"}

-----------------------------------------------------------------------------
(* The row.  life stands for accepted_at, revoked_at, expires_at and the   *)
(* row's existence; next and lease for email_next_attempt_at and           *)
(* email_lease_expires_at compared with the clock.                         *)

Lives    == {"absent", "active", "expired", "accepted", "revoked", "gone"}
Statuses == {"not_sent", "queued", "sending", "sent", "failed"}

Row == [life     : Lives,
        status   : Statuses,
        attempts : Nat,
        id       : Nat,                           \* email_attempt_id
        next     : {"none", "later", "due"},
        lease    : {"none", "running", "over"},
        nonce    : BOOLEAN]                       \* token_nonce IS NOT NULL

LegacyRow == [life |-> "active", status |-> "not_sent", attempts |-> 0, id |-> 0,
              next |-> "none", lease |-> "none", nonce |-> FALSE]
AbsentRow == [life |-> "absent", status |-> "not_sent", attempts |-> 0, id |-> 0,
              next |-> "none", lease |-> "none", nonce |-> FALSE]

\* The columns an UPDATE of this component sets; it leaves the others alone.
WithLife(r, life, id) ==
    [life |-> life, status |-> r.status, attempts |-> r.attempts, id |-> id,
     next |-> r.next, lease |-> r.lease, nonce |-> r.nonce]
WithTimes(r, next, lease) ==
    [life |-> r.life, status |-> r.status, attempts |-> r.attempts, id |-> r.id,
     next |-> next, lease |-> lease, nonce |-> r.nonce]
WithStatus(r, status, next, lease) ==
    [life |-> r.life, status |-> status, attempts |-> r.attempts, id |-> r.id,
     next |-> next, lease |-> lease, nonce |-> r.nonce]

Active(i) == row[i].life = "active"

\* The state a client and a resend see: a lapsed attempt waits for its retry.
EffectiveStatus(i) ==
    IF row[i].status = "sending" /\ row[i].lease # "running"
    THEN "queued" ELSE row[i].status

-----------------------------------------------------------------------------
(* Workers.  pc names the statement a worker is about to run.              *)

Places == {"idle", "find", "loop", "claim", "readBack", "loadSpace", "smtp",
           "accepted", "deferred", "refused", "giveUp"}

Thread == [pc       : Places,
           job      : Invites \cup {NoInvite},
           attempts : Nat,      \* email_attempts as read back
           id       : Nat,      \* email_attempt_id as read back
           own      : Nat]      \* history: the attempt id its claim wrote

AtPc(place) == [pc |-> place, job |-> NoInvite, attempts |-> 0, id |-> 0, own |-> 0]
Idle == AtPc("idle")
Starting(i) == [pc |-> "claim", job |-> i, attempts |-> 0, id |-> 0, own |-> 0]
MovedTo(me, place) ==
    [pc |-> place, job |-> me.job, attempts |-> me.attempts, id |-> me.id, own |-> me.own]

\* The end of attempt(): a periodic run goes on with its batch.
AfterAttempt(t) == IF t \in Pollers THEN AtPc("loop") ELSE Idle

\* deliverSoon(): the request starts an attempt, unless its instance has
\* stopped or crashed since the commit.
DeliverSoon(i) ==
    \/ \E c \in Callers :
          /\ thr[c] = Idle
          /\ thr' = [thr EXCEPT ![c] = Starting(i)]
    \/ UNCHANGED thr

-----------------------------------------------------------------------------
(* Requests.                                                               *)

\* A fresh email: a full attempt budget, due now, with a link.
Scheduled(r, life, id) ==
    [life |-> life, status |-> "queued", attempts |-> 0, id |-> id,
     next |-> "due", lease |-> "none", nonce |-> TRUE]

CreateInvite(i) ==
    /\ row[i].life = "absent"
    /\ row' = [row EXCEPT ![i] = Scheduled(row[i], "active", row[i].id)]
    /\ emails' = [emails EXCEPT ![i] = 1]
    /\ DeliverSoon(i)
    /\ UNCHANGED <<batch, budgets, history>>

\* assertCanSchedule() for one invitation: it also refuses an expedite.
CanSchedule(i) == emails[i] < PerInvite

Expedite(i) ==
    /\ Active(i) /\ CanSchedule(i)
    /\ EffectiveStatus(i) = "queued"
    /\ row' = [row EXCEPT ![i] = WithTimes(row[i], "due", row[i].lease)]
    /\ DeliverSoon(i)
    /\ UNCHANGED <<emails, batch, budgets, history>>

Requeue(i) ==
    /\ Active(i) /\ CanSchedule(i)
    /\ EffectiveStatus(i) \notin {"queued", "sending"}
    /\ row' = [row EXCEPT ![i] = Scheduled(row[i], "active", row[i].id + 1)]
    /\ emails' = [emails EXCEPT ![i] = @ + 1]
    /\ replies' = [replies EXCEPT ![i] = {}]
    /\ tries' = [tries EXCEPT ![i] = 0]
    /\ schedId' = [schedId EXCEPT ![i] = row[i].id + 1]
    /\ DeliverSoon(i)
    /\ UNCHANGED <<batch, budgets>>

BugKeepsSchedule(r, life) == WithLife(r, life, r.id + 1) \* the email is not cancelled
\* Ending an invitation cancels its email and outdates a running attempt.
Ended(r, life) == WithTimes(WithLife(r, life, r.id + 1), "none", "none")

\* An expired invitation can still be revoked; only an active one accepted.
Revoke(i) ==
    /\ row[i].life \in {"active", "expired"}
    /\ row' = [row EXCEPT ![i] = Ended(row[i], "revoked")]
    /\ UNCHANGED <<emails, thr, batch, budgets, history>>

Accept(i) ==
    /\ Active(i)
    /\ row' = [row EXCEPT ![i] = Ended(row[i], "accepted")]
    /\ UNCHANGED <<emails, thr, batch, budgets, history>>

\* Deleting the space cascades to its invitations.
DeleteSpace ==
    /\ \E i \in Invites : row[i].life # "gone"
    /\ row' = [i \in Invites |-> WithLife(row[i], "gone", row[i].id)]
    /\ UNCHANGED <<emails, thr, batch, budgets, history>>

-----------------------------------------------------------------------------
(* The periodic run: processDue().                                         *)

BugKeepsExpired(r) == \* only accepted and revoked rows are taken out of the queue
    IF r.status \in Pending /\ r.life \in {"accepted", "revoked"}
    THEN WithTimes(r, "none", "none") ELSE r

Cleared(r) ==
    IF r.status \in Pending /\ r.life \in {"accepted", "revoked", "expired"}
    THEN WithTimes(r, "none", "none") ELSE r

PollClear(p) ==
    /\ thr[p].pc = "idle"
    /\ row' = [i \in Invites |-> Cleared(row[i])]
    /\ thr' = [thr EXCEPT ![p] = AtPc("find")]
    /\ UNCHANGED <<emails, batch, budgets, history>>

Due == {i \in Invites : Active(i) /\ row[i].status \in Pending /\ row[i].next = "due"}

\* Which due rows fill a batch depends on timestamps the model does not keep.
PollFind(p) ==
    /\ thr[p].pc = "find"
    /\ \E picked \in SUBSET Due :
          /\ \/ picked = Due /\ Cardinality(Due) <= PollBatch
             \/ Cardinality(Due) > PollBatch /\ Cardinality(picked) = PollBatch
          /\ batch' = [batch EXCEPT ![p] = picked]
    /\ thr' = [thr EXCEPT ![p] = AtPc("loop")]
    /\ UNCHANGED <<row, emails, budgets, history>>

PollNext(p) ==
    /\ thr[p].pc = "loop"
    /\ \E i \in batch[p] :
          /\ thr' = [thr EXCEPT ![p] = Starting(i)]
          /\ batch' = [batch EXCEPT ![p] = @ \ {i}]
    /\ UNCHANGED <<row, emails, budgets, history>>

\* The purge at the end deletes log rows older than the window: none here.
PollEnd(p) ==
    /\ thr[p].pc = "loop"
    /\ batch[p] = {}
    /\ thr' = [thr EXCEPT ![p] = Idle]
    /\ UNCHANGED <<row, emails, batch, budgets, history>>

-----------------------------------------------------------------------------
(* One attempt: attempt(), claim(), send(), finish().                      *)

BugNoRecovery(r) == \* an attempt whose lease ran out is never claimed again
    r.life = "active" /\ r.nonce /\ r.status = "queued" /\ r.next = "due"
BugAnyStatus(r) == \* only a running attempt keeps others away
    r.life = "active" /\ r.nonce /\ (r.status = "sending" => r.lease = "over")

Claimable(r) ==
    /\ r.life = "active"
    /\ r.nonce
    /\ \/ r.status = "queued" /\ r.next = "due"
       \/ r.status = "sending" /\ r.lease = "over"

Claimed(r) ==
    [life |-> r.life, status |-> "sending", attempts |-> r.attempts + 1, id |-> r.id + 1,
     next |-> "later", lease |-> "running", nonce |-> r.nonce]

Holding(i, id) == [pc |-> "readBack", job |-> i, attempts |-> 0, id |-> 0, own |-> id]

Claim(t) ==
    /\ thr[t].pc = "claim"
    /\ LET i == thr[t].job IN
          IF Claimable(row[i])
          THEN /\ row' = [row EXCEPT ![i] = Claimed(row[i])]
               /\ thr' = [thr EXCEPT ![t] = Holding(i, row[i].id + 1)]
          ELSE /\ thr' = [thr EXCEPT ![t] = AfterAttempt(t)]
               /\ UNCHANGED row
    /\ UNCHANGED <<emails, batch, budgets, history>>

BugNeverExhausted(n) == FALSE
Exhausted(n) == n > MaxAttempts

HasRead(me, r) ==
    [pc |-> IF Exhausted(r.attempts) THEN "giveUp" ELSE "loadSpace",
     job |-> me.job, attempts |-> r.attempts, id |-> r.id, own |-> me.own]

\* The SELECT after the claim.  Expiry is judged by the claim's own clock
\* reading, so an invitation that expired since still counts as active.
ReadBack(t) ==
    /\ thr[t].pc = "readBack"
    /\ LET r == row[thr[t].job] IN
          thr' = [thr EXCEPT ![t] =
                    IF r.life \in {"active", "expired"}
                    THEN HasRead(thr[t], r)
                    ELSE AfterAttempt(t)]
    /\ UNCHANGED <<row, emails, batch, budgets, history>>

\* send() reads the space and starts the SMTP conversation.
LoadSpace(t) ==
    /\ thr[t].pc = "loadSpace"
    /\ LET i == thr[t].job IN
          IF row[i].life = "gone"
          THEN /\ thr' = [thr EXCEPT ![t] = AfterAttempt(t)]
               /\ UNCHANGED tries
          ELSE /\ thr' = [thr EXCEPT ![t] = MovedTo(thr[t], "smtp")]
               /\ tries' = [tries EXCEPT ![i] =
                              IF thr[t].own > schedId[i] THEN @ + 1 ELSE @]
    /\ UNCHANGED <<row, emails, batch, budgets, replies, schedId>>

\* The SMTP conversation ends.  A reply is credited to the email that was
\* current when the attempt read the row.
SmtpEnds(t, place, said) ==
    /\ thr[t].pc = "smtp"
    /\ thr' = [thr EXCEPT ![t] = MovedTo(thr[t], place)]
    /\ LET i == thr[t].job IN
          replies' = [replies EXCEPT ![i] =
                        IF thr[t].id > schedId[i] THEN @ \cup said ELSE @]
    /\ UNCHANGED <<row, emails, batch, budgets, tries, schedId>>

SmtpAccepts(t) == SmtpEnds(t, "accepted", {"accepted"})
SmtpRefuses(t) == SmtpEnds(t, "refused", {"refused"})
\* A temporary failure, or a timeout that hides the server's acceptance.
SmtpDefers(t) == \E said \in {{}, {"accepted"}} : SmtpEnds(t, "deferred", said)

BugShortDelays(n) == IF n \in 1..(MaxAttempts - 2) THEN "later" ELSE "none"
BugDelayForTime(n) == "delay" \* the delay itself, not the instant it leads to
\* The next retry of the n-th attempt: RETRY_DELAYS_MS has MaxAttempts - 1 entries.
RetryAt(n) == IF n \in 1..(MaxAttempts - 1) THEN "later" ELSE "none"

BugAnyAttempt(r, me) == r.status = "sending" /\ r.life = "active"
StillCurrent(r, me) == r.id = me.id /\ r.status = "sending" /\ r.life = "active"

Finish(t, status, next) ==
    /\ LET i == thr[t].job IN
          row' = IF StillCurrent(row[i], thr[t])
                 THEN [row EXCEPT ![i] = WithStatus(row[i], status, next, "none")]
                 ELSE row
    /\ thr' = [thr EXCEPT ![t] = AfterAttempt(t)]
    /\ UNCHANGED <<emails, batch, budgets, history>>

FinishSent(t) == thr[t].pc = "accepted" /\ Finish(t, "sent", "none")

FinishFailed(t) ==
    /\ \/ thr[t].pc \in {"refused", "giveUp"}
       \/ thr[t].pc = "deferred" /\ thr[t].attempts >= MaxAttempts
    /\ Finish(t, "failed", "none")

FinishRetry(t) ==
    /\ thr[t].pc = "deferred" /\ thr[t].attempts < MaxAttempts
    /\ Finish(t, "queued", RetryAt(thr[t].attempts))

-----------------------------------------------------------------------------
(* Failures and time.                                                      *)

\* A statement of the attempt throws: attempt() swallows the error.
AttemptError(t) ==
    /\ failures < MaxFailures
    /\ thr[t].pc \in Places \ {"idle", "find", "loop", "smtp"}
    /\ thr' = [thr EXCEPT ![t] = AfterAttempt(t)]
    /\ failures' = failures + 1
    /\ UNCHANGED <<row, emails, batch, stalls, history>>

\* The instance crashes or stops, or a statement of processDue() itself
\* throws: what the worker held in memory is gone, the rows stay.
Crash(t) ==
    /\ failures < MaxFailures
    /\ thr[t].pc # "idle"
    /\ thr' = [thr EXCEPT ![t] = Idle]
    /\ batch' = [p \in Pollers |-> IF p = t THEN {} ELSE batch[p]]
    /\ failures' = failures + 1
    /\ UNCHANGED <<row, emails, stalls, history>>

\* The current attempt has claimed i and runs its next statement right away,
\* with no email to send in between.
BetweenStatements(i) ==
    \E t \in Threads : /\ thr[t].job = i /\ thr[t].own = row[i].id
                       /\ thr[t].pc \in {"readBack", "giveUp"}

\* A claim sets the lease's end and the next attempt to the same instant.  An
\* SMTP conversation may outlast the lease; two consecutive statements do so
\* only when the worker stalls (an exhausted connection pool, a paused process).
LeaseRunsOut(i) ==
    /\ row[i].lease = "running"
    /\ IF BetweenStatements(i)
       THEN stalls < MaxStalls /\ stalls' = stalls + 1
       ELSE UNCHANGED stalls
    /\ row' = [row EXCEPT ![i] = WithTimes(row[i], "due", "over")]
    /\ UNCHANGED <<emails, thr, batch, failures, history>>

RetryBecomesDue(i) ==
    /\ row[i].status = "queued" /\ row[i].next = "later"
    /\ row' = [row EXCEPT ![i] = WithTimes(row[i], "due", row[i].lease)]
    /\ UNCHANGED <<emails, thr, batch, budgets, history>>

Expire(i) ==
    /\ Active(i)
    /\ row' = [row EXCEPT ![i] = WithLife(row[i], "expired", row[i].id)]
    /\ UNCHANGED <<emails, thr, batch, budgets, history>>

-----------------------------------------------------------------------------
(* An invitation exists from before the release, or does not exist yet.    *)
Init ==
    /\ row \in [Invites -> {AbsentRow, LegacyRow}]
    /\ emails = [i \in Invites |-> 0]
    /\ thr = [t \in Threads |-> Idle]
    /\ batch = [p \in Pollers |-> {}]
    /\ failures = 0
    /\ stalls = 0
    /\ replies = [i \in Invites |-> {}]
    /\ tries = [i \in Invites |-> 0]
    /\ schedId = [i \in Invites |-> 0]

Request(i) == CreateInvite(i) \/ Expedite(i) \/ Requeue(i) \/ Revoke(i) \/ Accept(i)
PollStep(p) == PollClear(p) \/ PollFind(p) \/ PollNext(p) \/ PollEnd(p)
AttemptStep(t) ==
    \/ Claim(t) \/ ReadBack(t) \/ LoadSpace(t)
    \/ SmtpAccepts(t) \/ SmtpRefuses(t) \/ SmtpDefers(t)
    \/ FinishSent(t) \/ FinishFailed(t) \/ FinishRetry(t)
Failure(t) == AttemptError(t) \/ Crash(t)
Time(i) == LeaseRunsOut(i) \/ RetryBecomesDue(i) \/ Expire(i)

Next ==
    \/ \E i \in Invites : Request(i)
    \/ DeleteSpace
    \/ \E p \in Pollers : PollStep(p)
    \/ \E t \in Threads : AttemptStep(t)
    \/ \E t \in Threads : Failure(t)
    \/ \E i \in Invites : Time(i)

Spec == Init /\ [][Next]_vars

\* What the server keeps doing: every instance runs the queue every 30
\* seconds, an attempt's next statement or SMTP timeout comes, and clocks
\* advance.  Requests, and an attempt for a just-committed email, may not come.
Fairness ==
    /\ \A p \in Pollers : WF_vars(PollStep(p))
    /\ \A t \in Threads : WF_vars(AttemptStep(t))
    /\ \A i \in Invites : WF_vars(LeaseRunsOut(i)) /\ WF_vars(RetryBecomesDue(i))

FairSpec == Spec /\ Fairness

-----------------------------------------------------------------------------
(* Properties.                                                             *)

TypeOK ==
    /\ row \in [Invites -> Row]
    /\ emails \in [Invites -> Nat]
    /\ thr \in [Threads -> Thread]
    /\ batch \in [Pollers -> SUBSET Invites]
    /\ failures \in Nat
    /\ stalls \in Nat
    /\ replies \in [Invites -> SUBSET {"accepted", "refused"}]
    /\ tries \in [Invites -> Nat]
    /\ schedId \in [Invites -> Nat]

\* A pending email of an active invitation is never lost: whatever claims,
\* retries, crashes and resends did to the row, it has a link, a time at which
\* the periodic run picks it up, and a lease if it is held by an attempt
\* (docs/invitations-contract.md:734: "always has its email pending").
NoLostEmail ==
    \A i \in Invites :
        Active(i) /\ row[i].status \in Pending =>
            /\ row[i].nonce
            /\ row[i].next # "none"
            /\ row[i].status = "sending" => row[i].lease # "none"

\* The outcome shown to the owner has its cause: `sent` only if the SMTP server
\* accepted this email, not an earlier one of the same invitation; `failed`
\* only if it refused this email for good or the attempts are used up.
OutcomeHasCause ==
    \A i \in Invites :
        Active(i) =>
            /\ row[i].status = "sent" => "accepted" \in replies[i]
            /\ row[i].status = "failed" =>
                  "refused" \in replies[i] \/ row[i].attempts >= MaxAttempts

\* Attempts that claimed a scheduled email start at most MaxAttempts SMTP
\* conversations for it, however many of them crashed, lost their lease or
\* were overtaken (invitations-contract.md:79).
AttemptBudget == \A i \in Invites : tries[i] <= MaxAttempts

\* An accepted or revoked invitation has left the queue for good: no claim,
\* late result, retry or resend writes its row again.
EndedRowsStay ==
    [][\A i \in Invites :
          row[i].life \in {"accepted", "revoked"} =>
              row'[i].life = "gone" \/ row'[i] = row[i]]_vars

WritesResult(t) ==
    /\ thr[t].pc \in {"accepted", "deferred", "refused", "giveUp"}
    /\ thr'[t].pc # thr[t].pc
    /\ thr[t].job \in Invites /\ row'[thr[t].job] # row[thr[t].job]

\* space-invite.entity.ts:59: "an attempt writes its result only while this is
\* still its id", the id that its own claim gave the row.
ResultOnlyByOwnAttempt ==
    [][\A t \in Threads :
          WritesResult(t) => row[thr[t].job].id = thr[t].own]_vars

\* An expired invitation leaves the queue and stays out of it, so that ended
\* rows never fill the periodic run's batches (invitations-contract.md:740).
ExpiredLeavesQueue ==
    \A i \in Invites :
        row[i].life = "expired" ~>
            [](row[i].life # "gone" => row[i].next = "none" /\ row[i].lease = "none")

\* The rows implement EmailPromise.
MailOf(r) ==
    CASE r.life = "absent" -> "none"
      [] r.life = "active" /\ r.status = "not_sent" -> "none"
      [] r.life = "active" /\ r.status \in Pending -> "pending"
      [] r.life = "active" /\ r.status \in {"sent", "failed"} -> r.status
      [] OTHER -> "ended"

Promise == INSTANCE EmailPromise
              WITH mail <- [i \in Invites |-> MailOf(row[i])],
                   got <- [i \in Invites |-> "accepted" \in replies[i]]

\* Every step of delivery is a step of the promise or none.
KeepsPromise == Promise!Spec

\* The promise's fairness follows from the server's: every scheduled email is
\* settled or its invitation ends, and no sequence of temporary failures,
\* crashes, lapsed leases and resends keeps it pending.
KeepsPromiseInTime == Promise!FairSpec
=============================================================================
