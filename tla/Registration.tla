------------------------------ MODULE Registration ------------------------------
(***************************************************************************)
(* Registration of one address and the confirmation of its email           *)
(* (src/src/modules/users/users.service.ts, modules/confirmation-codes).   *)
(*                                                                         *)
(* A registration is four transactions with an SMTP conversation between   *)
(* the last two: create or refresh the account, reserve a send, record its *)
(* outcome.  All that write to an account lock its user row first; a step  *)
(* here takes the lock and reads, the next one writes and commits.         *)
(***************************************************************************)
EXTENDS Integers, FiniteSets

CONSTANTS
    Clients,        \* bound: requests in flight at once
    Details,        \* what people register with: name, password, currency
    NoDetails,
    MaxAttempts,    \* MAX_CONFIRMATION_CODE_ATTEMPTS
    Cooldown,       \* CONFIRMATION_CODE_RESEND_COOLDOWN_MS
    CodeTTL,        \* CONFIRMATION_CODE_TTL_MS
    MaxCodes,       \* bound: confirmation codes of the address
    MaxTime         \* bound: the clock

ASSUME DetailsAssumption == NoDetails \notin Details
ASSUME LimitsAssumption == /\ MaxAttempts \in Nat \ {0} /\ Cooldown \in Nat \ {0}
                           /\ CodeTTL \in Nat \ {0} /\ MaxCodes \in Nat \ {0} /\ MaxTime \in Nat \ {0}

VARIABLES
    account,    \* the row of users with its personal space and starter data
    code,       \* code[n]: a row of confirmation_codes, or NoCode
    tx,         \* tx[c]: the request in progress
    clock,
    accepted    \* history: codes whose latest email the SMTP server accepted

vars == <<account, code, tx, clock, accepted>>

-----------------------------------------------------------------------------
(* Rows.                                                                   *)

Codes == 1..MaxCodes

Account == [state : {"none", "pending", "open"}, details : Details \cup {NoDetails}, starters : Nat]
NoAccount == [state |-> "none", details |-> NoDetails, starters |-> 0]
Open == account.state = "open"

Code == [attempts : 0..MaxAttempts, expires : Int, attempted : Nat,
         status : {"pending", "sent", "failed"}, attempt : Nat \ {0}]
NoCode == [attempts |-> 0, expires |-> -1, attempted |-> 0, status |-> "pending", attempt |-> 0]
NewCode(now) == [attempts |-> 0, expires |-> now + CodeTTL, attempted |-> now,
                 status |-> "pending", attempt |-> 1]
Reserved(row, now, attempt) == [row EXCEPT !.attempted = now, !.status = "pending", !.attempt = attempt]

\* expire(): a second in the past, because an instant that equals now is active.
Expire(row) == [row EXCEPT !.expires = clock - 1]

Active(row, now) == row # NoCode /\ row.expires >= now
ActiveCodes(now) == {n \in Codes : Active(code[n], now)}
Unused == {n \in Codes : code[n] = NoCode}

-----------------------------------------------------------------------------
(* Requests.                                                               *)

Idle == [pc |-> "idle", details |-> NoDetails, now |-> 0, code |-> 0, attempt |-> 0]

At(c, pc) == tx[c].pc = pc
GoesTo(c, pc) == tx' = [tx EXCEPT ![c] = [tx[c] EXCEPT !.pc = pc]]
Ends(c) == tx' = [tx EXCEPT ![c] = Idle]

\* Those that hold the user's lock; with a code, its row's lock too.
Locking == {"refreshing", "reserving", "usedUp", "wrong", "right", "opening"}
UserFree(c) == \A d \in Clients \ {c} : tx[d].pc \notin Locking
CodeFree(c) == \A d \in Clients \ {c} : tx[d].pc \in Locking => tx[d].code # tx[c].code

-----------------------------------------------------------------------------
(* registerOrRefresh().                                                    *)

AfterLookup(d) ==
    IF Open THEN Idle
    ELSE [Idle EXCEPT !.pc = IF account = NoAccount THEN "insert" ELSE "refresh", !.details = d]

BeginRegister(c) ==
    /\ At(c, "idle")
    /\ \E d \in Details : tx' = [tx EXCEPT ![c] = AfterLookup(d)]
    /\ UNCHANGED <<account, code, clock, accepted>>

\* The user with a personal space of its own.
Register(c) ==
    /\ At(c, "insert") /\ account = NoAccount
    /\ account' = [NoAccount EXCEPT !.state = "pending", !.details = tx[c].details]
    /\ GoesTo(c, "reserve")
    /\ UNCHANGED <<code, clock, accepted>>

RegisterDuplicate(c) ==
    /\ At(c, "insert") /\ account # NoAccount
    /\ GoesTo(c, "lookup")
    /\ UNCHANGED <<account, code, clock, accepted>>

LookupWinner(c) ==
    /\ At(c, "lookup")
    /\ IF Open THEN Ends(c) ELSE GoesTo(c, "refresh")
    /\ UNCHANGED <<account, code, clock, accepted>>

\* updateUnverified(): the password is hashed, then the account is checked again.
BugTrustsLookup == TRUE
StillUnverified == ~Open

LockRefresh(c) ==
    /\ At(c, "refresh") /\ UserFree(c)
    /\ IF StillUnverified THEN GoesTo(c, "refreshing") ELSE Ends(c)
    /\ UNCHANGED <<account, code, clock, accepted>>

Refresh(c) ==
    /\ At(c, "refreshing")
    /\ account' = [account EXCEPT !.details = tx[c].details]
    /\ GoesTo(c, "reserve")
    /\ UNCHANGED <<code, clock, accepted>>

-----------------------------------------------------------------------------
(* reserveSend(), the send and its outcome.                                *)

Elapsed(row) == clock - row.attempted >= Cooldown

\* One more attempt for the active code, a new code if there is none, or a
\* refusal: verified, sent a moment ago, or not known to be sent.
LockReserve(c) ==
    /\ At(c, "reserve") /\ UserFree(c)
    /\ tx' = [tx EXCEPT ![c] =
          IF Open THEN Idle
          ELSE IF ActiveCodes(clock) = {}
               THEN [tx[c] EXCEPT !.pc = "reserving", !.now = clock, !.attempt = 1]
          ELSE LET n == CHOOSE n \in ActiveCodes(clock) : TRUE IN
               IF Elapsed(code[n])
               THEN [tx[c] EXCEPT !.pc = "reserving", !.now = clock, !.code = n,
                                  !.attempt = code[n].attempt + 1]
               ELSE Idle]
    /\ UNCHANGED <<account, code, clock, accepted>>

CreateCode(c) ==
    /\ At(c, "reserving") /\ tx[c].code = 0 /\ Unused # {}
    /\ LET n == CHOOSE n \in Unused : \A m \in Unused : n <= m IN
          /\ code' = [code EXCEPT ![n] = NewCode(tx[c].now)]
          /\ tx' = [tx EXCEPT ![c] = [tx[c] EXCEPT !.pc = "smtp", !.code = n]]
    /\ UNCHANGED <<account, clock, accepted>>

ReserveAgain(c) ==
    LET n == tx[c].code IN
    /\ At(c, "reserving") /\ n # 0
    /\ code' = [code EXCEPT ![n] = Reserved(code[n], tx[c].now, tx[c].attempt)]
    /\ GoesTo(c, "smtp") /\ accepted' = accepted \ {n}
    /\ UNCHANGED <<account, clock>>

Latest(c) == code[tx[c].code].attempt = tx[c].attempt

\* An error may hide that the server accepted the email.
SmtpEnds(c) ==
    LET delivered == accepted \cup (IF Latest(c) THEN {tx[c].code} ELSE {}) IN
    /\ At(c, "smtp")
    /\ \/ GoesTo(c, "sent") /\ accepted' = delivered
       \/ GoesTo(c, "failed") /\ accepted' \in {accepted, delivered}
    /\ UNCHANGED <<account, code, clock>>

BugAnyAttempt(c) == TRUE
StillCurrent(c) == Latest(c)

Settle(c, status) ==
    LET n == tx[c].code IN
    /\ CodeFree(c)
    /\ code' = IF StillCurrent(c) THEN [code EXCEPT ![n] = [code[n] EXCEPT !.status = status]]
                                 ELSE code
    /\ Ends(c)
    /\ UNCHANGED <<account, clock, accepted>>

MarkSent(c) == At(c, "sent") /\ Settle(c, "sent")
MarkFailed(c) == At(c, "failed") /\ Settle(c, "failed")

\* markSent() is inside the try: its error is answered like the send's.
MarkSentError(c) ==
    /\ At(c, "sent") /\ GoesTo(c, "failed")
    /\ UNCHANGED <<account, code, clock, accepted>>

-----------------------------------------------------------------------------
(* verifyEmail() and completeEmailVerification().                          *)

BeginVerify(c) ==
    /\ At(c, "idle") /\ account # NoAccount
    /\ GoesTo(c, "verify")
    /\ UNCHANGED <<account, code, clock, accepted>>

\* The answer is right or wrong; an earlier code is a wrong answer.
BugNoLimit(row) == FALSE
UsedUp(row) == row.attempts >= MaxAttempts

LockVerify(c) ==
    /\ At(c, "verify") /\ UserFree(c)
    /\ IF Open \/ ActiveCodes(clock) = {} THEN Ends(c)
       ELSE LET n == CHOOSE n \in ActiveCodes(clock) : TRUE IN
            \E pc \in IF UsedUp(code[n]) THEN {"usedUp"} ELSE {"wrong", "right"} :
                tx' = [tx EXCEPT ![c] = [tx[c] EXCEPT !.pc = pc, !.code = n]]
    /\ UNCHANGED <<account, code, clock, accepted>>

\* Committed, although the request is refused.
RefuseAnswer(c) ==
    LET n == tx[c].code IN
    /\ \/ At(c, "usedUp") /\ code' = [code EXCEPT ![n] = Expire(code[n])]
       \/ /\ At(c, "wrong")
          /\ code' = [code EXCEPT ![n] = [code[n] EXCEPT !.attempts = code[n].attempts + 1]]
    /\ Ends(c)
    /\ UNCHANGED <<account, clock, accepted>>

\* email_verified marks that the starter data is there.
Opened == [account EXCEPT !.state = "open", !.starters = account.starters + 1]

AcceptAnswer(c) ==
    LET n == tx[c].code IN
    /\ At(c, "right")
    /\ code' = [code EXCEPT ![n] = Expire(code[n])]
    /\ account' = IF Open THEN account ELSE Opened
    /\ Ends(c)
    /\ UNCHANGED <<clock, accepted>>

BeginComplete(c) ==
    /\ At(c, "idle") /\ account # NoAccount
    /\ GoesTo(c, "complete")
    /\ UNCHANGED <<account, code, clock, accepted>>

LockComplete(c) ==
    /\ At(c, "complete") /\ UserFree(c)
    /\ IF Open THEN Ends(c) ELSE GoesTo(c, "opening")
    /\ UNCHANGED <<account, code, clock, accepted>>

CompleteVerification(c) ==
    /\ At(c, "opening")
    /\ account' = Opened
    /\ Ends(c)
    /\ UNCHANGED <<code, clock, accepted>>

-----------------------------------------------------------------------------
\* The process dies, or a statement fails: what is not committed is lost.
Abort(c) ==
    /\ ~At(c, "idle") /\ Ends(c)
    /\ UNCHANGED <<account, code, clock, accepted>>

Tick ==
    /\ clock < MaxTime /\ clock' = clock + 1
    /\ UNCHANGED <<account, code, tx, accepted>>

Init ==
    /\ account = NoAccount
    /\ code = [n \in Codes |-> NoCode]
    /\ tx = [c \in Clients |-> Idle]
    /\ clock = 0 /\ accepted = {}

Next ==
    \/ \E c \in Clients :
          \/ BeginRegister(c) \/ Register(c) \/ RegisterDuplicate(c) \/ LookupWinner(c)
          \/ LockRefresh(c) \/ Refresh(c)
          \/ LockReserve(c) \/ CreateCode(c) \/ ReserveAgain(c)
          \/ SmtpEnds(c) \/ MarkSent(c) \/ MarkFailed(c) \/ MarkSentError(c)
          \/ BeginVerify(c) \/ LockVerify(c) \/ RefuseAnswer(c) \/ AcceptAnswer(c)
          \/ BeginComplete(c) \/ LockComplete(c) \/ CompleteVerification(c)
          \/ Abort(c)
    \/ Tick

Spec == Init /\ [][Next]_vars

-----------------------------------------------------------------------------
(* Properties.                                                             *)

Request == [pc : Locking \cup {"idle", "insert", "lookup", "refresh", "reserve", "smtp", "sent",
                               "failed", "verify", "complete"},
            details : Details \cup {NoDetails}, now : 0..MaxTime, code : {0} \cup Codes, attempt : Nat]

TypeOK ==
    /\ account \in Account
    /\ code \in [Codes -> Code \cup {NoCode}]
    /\ tx \in [Clients -> Request]
    /\ clock \in 0..MaxTime
    /\ accepted \subseteq Codes

\* A code is marked sent only if the SMTP server accepted its latest email, and
\* no longer pending only when that email's conversation is over: outcomes of
\* overtaken sends change nothing (confirmation-codes.entity.ts:43-47).
StatusOfLatestSend ==
    \A n \in Codes :
        /\ code[n].status = "sent" => n \in accepted
        /\ \A c \in Clients : At(c, "smtp") /\ tx[c].code = n /\ Latest(c)
              => code[n].status = "pending"

\* Registrations, confirmations and the operator, side by side, open the account
\* as AccountOpening promises.  A code that is being checked is usable still.
Usable == ActiveCodes(clock) \cup {tx[c].code : c \in {c \in Clients : tx[c].pc \in {"usedUp", "wrong", "right"}}}

Opening == INSTANCE AccountOpening
           WITH state <- account.state, details <- account.details, starters <- account.starters,
                usable <- Usable, wrong <- [n \in Codes |-> code[n].attempts]

KeepsAccount == Opening!Spec
=============================================================================
