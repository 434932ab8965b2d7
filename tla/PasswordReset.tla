----------------------------- MODULE PasswordReset -----------------------------
(***************************************************************************)
(* Password recovery of one account and the sessions it ends               *)
(* (src/src/modules/password-reset, users.service.ts login, verifyEmail).  *)
(*                                                                         *)
(* request() and verify() are transactions that read the clock first, lock *)
(* the account (shared) and the address's challenge (exclusive), and commit*)
(* what they decide: with these locks held nothing but the clock can change*)
(* between the lock and the commit, which are one action here, after the   *)
(* one that read the clock.  complete() and login() read, spend time in    *)
(* bcrypt, then lock and check again.  Emails are sent after the commit.   *)
(* A code is named by the number of its request: random six-digit codes    *)
(* are taken to differ from one request to the next.                       *)
(***************************************************************************)
EXTENDS Integers, FiniteSets

CONSTANTS
    Clients,            \* bound: requests in flight at once
    CodeTTL,            \* PASSWORD_RESET_CODE_TTL_MS
    TokenTTL,           \* PASSWORD_RESET_TOKEN_TTL_MS
    Cooldown,           \* PASSWORD_RESET_RESEND_COOLDOWN_MS
    Window,             \* PASSWORD_RESET_WINDOW_MS
    MaxCodeAttempts,    \* PASSWORD_RESET_MAX_CODE_ATTEMPTS
    MaxAsked,           \* PASSWORD_RESET_WINDOW_MAX_REQUESTS
    MaxWrong,           \* PASSWORD_RESET_WINDOW_MAX_FAILED_ATTEMPTS
    MaxTime,            \* bound: the clock
    MaxWait,            \* bound: how long a transaction waits for its locks
    Requests            \* bound: the kinds of request made; "deliver": emails are sent

Operations == {"request", "verify", "complete", "login", "verifyEmail"}

ASSUME TimeAssumption == /\ CodeTTL \in Nat \ {0} /\ TokenTTL \in Nat \ {0}
                         /\ Cooldown \in Nat \ {0} /\ Window \in Nat \ {0}
                         /\ MaxTime \in Nat \ {0} /\ MaxWait \in Nat
ASSUME LimitAssumption == /\ MaxCodeAttempts \in Nat \ {0}
                          /\ MaxAsked \in Nat \ {0} /\ MaxWrong \in Nat \ {0}
ASSUME RequestAssumption == Requests \subseteq Operations \cup {"deliver"}

VARIABLES
    user,       \* the account's row
    row,        \* the address's row of password_reset_challenges, or NoRow
    tx,         \* tx[c]: a request in progress
    mails,      \* emails being sent
    known,      \* reset tokens that clients were given
    sessions,   \* access tokens that clients were given
    clock,
    used,       \* history: reset tokens that changed the password
    smtp,       \* history: how SMTP conversations ended
    startedAt,  \* history: when the challenge started
    guesses,    \* history: wrong codes since then
    asked,      \* history: the requests accepted
    wrong       \* history: the wrong codes answered

history == <<used, smtp, startedAt, guesses, asked, wrong>>
vars == <<user, row, tx, mails, known, sessions, clock, history>>

Times == 1..MaxTime

-----------------------------------------------------------------------------
(* Rows.  0 stands for NULL in a column of times or codes.                 *)

User == [verified : BOOLEAN, pw : Nat, ver : Nat]

Token == [code : Nat, at : Nat]
NoToken == [code |-> 0, at |-> 0]

Challenge ==
    [bound        : BOOLEAN,          \* user_id IS NOT NULL
     code         : Nat,              \* code_hash
     attempts     : Nat,
     expires      : Nat,
     last         : Nat,              \* last_requested_at
     verified     : Nat,              \* verified_at
     token        : Token,            \* reset_token_hash
     tokenExpires : Nat,
     completed    : BOOLEAN,
     sendId       : Nat,
     sendStatus   : {"none", "pending", "sent", "failed"},
     winStart     : Nat,
     winAsked     : Nat,              \* window_requests
     winWrong     : Nat]              \* window_failed_attempts

NoRow == [bound |-> FALSE, code |-> 0, attempts |-> 0, expires |-> 0, last |-> 0,
          verified |-> 0, token |-> NoToken, tokenExpires |-> 0, completed |-> FALSE,
          sendId |-> 0, sendStatus |-> "none", winStart |-> 0, winAsked |-> 0, winWrong |-> 0]

Exists == row.sendId # 0

\* An event that the hourly limits count: when it was committed, the hour window
\* it was counted in, and the count after it.
Event == [at : Times, window : Nat, nth : Nat \ {0}]
Counted(at, window, nth) == [at |-> at, window |-> window, nth |-> nth]

Mail(id, outcome) == [id |-> id, outcome |-> outcome]

Request == [op : Operations \cup {"none"},
            pc   : {"idle", "lock", "insert", "hash", "sign"},
            now  : Nat,       \* the clock as read
            code : Nat, token : Token,
            pw   : Nat, ver : Nat,      \* the account as read
            runs : Nat]

Idle == [op |-> "none", pc |-> "idle", now |-> 0, code |-> 0, token |-> NoToken,
         pw |-> 0, ver |-> 0, runs |-> 0]
ReadClock(op, pc, code, runs) ==
    [op |-> op, pc |-> pc, now |-> clock, code |-> code, token |-> NoToken,
     pw |-> 0, ver |-> 0, runs |-> runs]
ReadToken(token) ==
    [op |-> "complete", pc |-> "hash", now |-> 0, code |-> 0, token |-> token,
     pw |-> 0, ver |-> 0, runs |-> 0]
ReadAccount(op, pc) ==
    [op |-> op, pc |-> pc, now |-> 0, code |-> 0, token |-> NoToken,
     pw |-> user.pw, ver |-> user.ver, runs |-> 0]

Starts(c, me) ==
    me.op \in Requests /\ tx[c].pc = "idle" /\ tx' = [tx EXCEPT ![c] = me]
Ends(c) == tx' = [tx EXCEPT ![c] = Idle]
At(c, op, pc) == tx[c].op = op /\ tx[c].pc = pc

-----------------------------------------------------------------------------
(* password-reset-rules.ts.                                                *)

State(r, now) ==
    IF r.completed \/ r.attempts >= MaxCodeAttempts THEN "ended"
    ELSE IF r.verified # 0
         THEN IF r.tokenExpires > now THEN "verified" ELSE "ended"
         ELSE IF r.expires > now THEN "pending" ELSE "ended"

CurrentWindow(r, now) ==
    IF now >= r.winStart + Window
    THEN [start |-> now, asked |-> 0, wrong |-> 0]
    ELSE [start |-> r.winStart, asked |-> r.winAsked, wrong |-> r.winWrong]

RequestRefused(r, now) ==
    now < r.last + Cooldown \/ CurrentWindow(r, now).asked >= MaxAsked
BugLimitPerChallenge(r, now) == r.attempts >= MaxCodeAttempts
VerifyRefused(r, now) == CurrentWindow(r, now).wrong >= MaxWrong

Earlier(t, u) == IF t < u THEN t ELSE u
TokenExpiry(now, expires) == Earlier(now + TokenTTL, expires)

CanComplete(r, token, now) ==
    r.bound /\ r.token = token /\ State(r, now) = "verified"

-----------------------------------------------------------------------------
(* request().                                                              *)

BeginRequest(c) ==
    /\ Starts(c, ReadClock("request", "lock", 0, 0))
    /\ UNCHANGED <<user, row, mails, known, sessions, clock, history>>

RequestRefusal(c) ==
    /\ At(c, "request", "lock") /\ Exists /\ RequestRefused(row, tx[c].now)
    /\ Ends(c)
    /\ UNCHANGED <<user, row, mails, known, sessions, clock, history>>

\* A resend within a pending challenge only replaces the code.
Rotates(r, now) == r.sendId # 0 /\ State(r, now) = "pending"

BugResendExtends(r, now) == now + CodeTTL
Expiry(r, now) == IF Rotates(r, now) THEN r.expires ELSE now + CodeTTL

Asked(r, now) ==
    LET id == r.sendId + 1
        win == IF r.sendId # 0 THEN CurrentWindow(r, now)
                               ELSE [start |-> now, asked |-> 0, wrong |-> 0]
        keep == Rotates(r, now) IN
    [bound        |-> user.verified,
     code         |-> IF user.verified THEN id ELSE 0,
     attempts     |-> IF keep THEN r.attempts ELSE 0,
     expires      |-> Expiry(r, now),
     last         |-> now,
     verified     |-> IF keep THEN r.verified ELSE 0,
     token        |-> IF keep THEN r.token ELSE NoToken,
     tokenExpires |-> IF keep THEN r.tokenExpires ELSE 0,
     completed    |-> IF keep THEN r.completed ELSE FALSE,
     sendId       |-> id,
     sendStatus   |-> IF user.verified THEN "pending" ELSE "none",
     winStart     |-> win.start,
     winAsked     |-> win.asked + 1,
     winWrong     |-> win.wrong]

\* request() starts the delivery after the commit, and answers.
Accepts(c) ==
    LET now == tx[c].now
        id == row.sendId + 1
        new == Asked(row, now) IN
    /\ row' = new
    /\ mails' = IF user.verified /\ "deliver" \in Requests 
                THEN mails \cup {Mail(id, "none")} ELSE mails
    /\ asked' = asked \cup {Counted(clock, new.winStart, new.winAsked)}
    /\ startedAt' = IF Rotates(row, now) THEN startedAt ELSE clock
    /\ guesses' = IF Rotates(row, now) THEN guesses ELSE 0
    /\ Ends(c)
    /\ UNCHANGED <<user, known, sessions, clock, used, smtp, wrong>>

RequestOnRow(c) ==
    /\ At(c, "request", "lock") /\ Exists /\ ~RequestRefused(row, tx[c].now)
    /\ Accepts(c)

AtInsert(me) ==
    [op |-> me.op, pc |-> "insert", now |-> me.now, code |-> 0, token |-> NoToken,
     pw |-> 0, ver |-> 0, runs |-> me.runs]

\* There is no row to lock: another first request may insert it too.
RequestMissing(c) ==
    /\ At(c, "request", "lock") /\ ~Exists
    /\ tx' = [tx EXCEPT ![c] = AtInsert(tx[c])]
    /\ UNCHANGED <<user, row, mails, known, sessions, clock, history>>

RequestInsert(c) ==
    /\ At(c, "request", "insert") /\ ~Exists
    /\ Accepts(c)

\* The insert waits for the other one and fails; the retry finds its row.
RequestDuplicate(c) ==
    /\ At(c, "request", "insert") /\ Exists
    /\ tx' = [tx EXCEPT ![c] = IF tx[c].runs = 0
                               THEN ReadClock("request", "lock", 0, 1) ELSE Idle]
    /\ UNCHANGED <<user, row, mails, known, sessions, clock, history>>

-----------------------------------------------------------------------------
(* deliver(): the SMTP conversation, then the result.                      *)

SmtpEnds(m, outcome) ==
    /\ m.outcome = "none"
    /\ mails' = (mails \ {m}) \cup {Mail(m.id, outcome)}
    /\ smtp' = smtp \cup {Mail(m.id, outcome)}
    /\ UNCHANGED <<user, row, tx, known, sessions, clock,
                   used, startedAt, guesses, asked, wrong>>

BugAnyAttempt(r, id) == TRUE
StillCurrent(r, id) == r.sendId = id

RecordResult(m) ==
    /\ m.outcome # "none"
    /\ row' = IF StillCurrent(row, m.id) THEN [row EXCEPT !.sendStatus = m.outcome] ELSE row
    /\ mails' = mails \ {m}
    /\ UNCHANGED <<user, tx, known, sessions, clock, history>>

\* The process dies, or the UPDATE fails and is only logged.
LoseResult(m) ==
    /\ mails' = mails \ {m}
    /\ UNCHANGED <<user, row, tx, known, sessions, clock, history>>

-----------------------------------------------------------------------------
(* verify().                                                               *)

\* Any code that was sent, or one that was not.
BeginVerify(c) ==
    /\ \E code \in 0..row.sendId : Starts(c, ReadClock("verify", "lock", code, 0))
    /\ UNCHANGED <<user, row, mails, known, sessions, clock, history>>

Usable(now) == Exists /\ ~VerifyRefused(row, now) /\ State(row, now) # "ended"
Matches(code) == user.verified /\ row.bound /\ row.code # 0 /\ row.code = code

VerifyRefusal(c) ==
    /\ At(c, "verify", "lock") /\ ~Usable(tx[c].now)
    /\ Ends(c)
    /\ UNCHANGED <<user, row, mails, known, sessions, clock, history>>

WrongCode(c) ==
    LET now == tx[c].now
        win == CurrentWindow(row, now)
        exhausted == row.attempts + 1 >= MaxCodeAttempts IN
    /\ At(c, "verify", "lock") /\ Usable(now) /\ ~Matches(tx[c].code)
    /\ row' = [row EXCEPT !.attempts = @ + 1,
                          !.winStart = win.start,
                          !.winWrong = win.wrong + 1,
                          !.token = IF exhausted THEN NoToken ELSE @,
                          !.tokenExpires = IF exhausted THEN 0 ELSE @]
    /\ wrong' = wrong \cup {Counted(clock, win.start, win.wrong + 1)}
    /\ guesses' = guesses + 1
    /\ Ends(c)
    /\ UNCHANGED <<user, mails, known, sessions, clock, used, smtp, startedAt, asked>>

\* deriveResetToken(): the same code and verified_at give the same token.
BugNoTime(code, at) == [code |-> code]
Derived(code, at) == [code |-> code, at |-> at]

RepeatCode(c) ==
    LET now == tx[c].now IN
    /\ At(c, "verify", "lock") /\ Usable(now) /\ Matches(tx[c].code)
    /\ State(row, now) = "verified"
    /\ known' = known \cup {Derived(row.code, row.verified)}
    /\ Ends(c)
    /\ UNCHANGED <<user, row, mails, sessions, clock, history>>

AcceptCode(c) ==
    LET now == tx[c].now
        token == Derived(row.code, now) IN
    /\ At(c, "verify", "lock") /\ Usable(now) /\ Matches(tx[c].code)
    /\ State(row, now) = "pending"
    /\ row' = [row EXCEPT !.verified = now,
                          !.token = token,
                          !.tokenExpires = TokenExpiry(now, row.expires)]
    /\ known' = known \cup {token}
    /\ Ends(c)
    /\ UNCHANGED <<user, mails, sessions, clock, history>>

-----------------------------------------------------------------------------
(* complete(): find, hash the password, lock, check again, change.         *)

BeginComplete(c) ==
    /\ \E token \in known :
          /\ CanComplete(row, token, clock)
          /\ Starts(c, ReadToken(token))
    /\ UNCHANGED <<user, row, mails, known, sessions, clock, history>>

BugTrustsFirstRead(me) == TRUE
StillComplete(me) == CanComplete(row, me.token, clock)

NextVersion(ver) == ver + 1

CompleteReset(c) ==
    /\ At(c, "complete", "hash") /\ StillComplete(tx[c])
    /\ user' = [verified |-> user.verified, pw |-> user.pw + 1, ver |-> NextVersion(user.ver)]
    /\ row' = [row EXCEPT !.completed = TRUE, !.code = 0, !.token = NoToken]
    /\ used' = used \cup {tx[c].token}
    /\ Ends(c)
    /\ UNCHANGED <<mails, known, sessions, clock, smtp, startedAt, guesses, asked, wrong>>

CompleteRefusal(c) ==
    /\ At(c, "complete", "hash") /\ ~StillComplete(tx[c])
    /\ Ends(c)
    /\ UNCHANGED <<user, row, mails, known, sessions, clock, history>>

-----------------------------------------------------------------------------
(* Sessions: users.service.ts login() and verifyEmail(), jwt.strategy.ts.  *)

\* The password is right; bcrypt compares it with the hash that was read.
BeginLogin(c) ==
    /\ user.verified
    /\ Starts(c, ReadAccount("login", "hash"))
    /\ UNCHANGED <<user, row, mails, known, sessions, clock, history>>

Session(me, ver) == [pw |-> me.pw, ver |-> ver]

BugTrustsPassword(me) == TRUE \* the password was right when it was read
StillSame(me) == user.pw = me.pw /\ user.ver = me.ver

Login(c) ==
    /\ At(c, "login", "hash")
    /\ sessions' = IF StillSame(tx[c]) THEN sessions \cup {Session(tx[c], user.ver)} ELSE sessions
    /\ Ends(c)
    /\ UNCHANGED <<user, row, mails, known, clock, history>>

\* A request keeps its shared lock on the account until it has inserted a row.
AccountFree == \A c \in Clients : tx[c].pc # "insert"

\* The confirmation code is checked; the token is signed after the commit,
\* for the account as read.
VerifyEmail(c) ==
    /\ ~user.verified /\ AccountFree
    /\ Starts(c, ReadAccount("verifyEmail", "sign"))
    /\ user' = [verified |-> TRUE, pw |-> user.pw, ver |-> user.ver]
    /\ UNCHANGED <<row, mails, known, sessions, clock, history>>

SignVerified(c) ==
    /\ At(c, "verifyEmail", "sign")
    /\ sessions' = sessions \cup {Session(tx[c], tx[c].ver)}
    /\ Ends(c)
    /\ UNCHANGED <<user, row, mails, known, clock, history>>

\* Registering an unverified address again replaces its password; once is
\* enough here.
RefreshUnverified ==
    /\ ~user.verified /\ AccountFree /\ user.pw = 1
    /\ user' = [verified |-> FALSE, pw |-> user.pw + 1, ver |-> user.ver]
    /\ UNCHANGED <<row, tx, mails, known, sessions, clock, history>>

\* validate() accepts a session of the current version only.
Accepted == {s \in sessions : s.ver = user.ver}

-----------------------------------------------------------------------------
\* The process dies or the database fails: nothing was committed.
Abort(c) ==
    /\ tx[c].pc # "idle" /\ Ends(c)
    /\ UNCHANGED <<user, row, mails, known, sessions, clock, history>>

\* Transactions that read the clock end before it is MaxWait further.
Tick ==
    /\ clock < MaxTime
    /\ \A c \in Clients : tx[c].pc \in {"lock", "insert"} => clock < tx[c].now + MaxWait
    /\ clock' = clock + 1
    /\ UNCHANGED <<user, row, tx, mails, known, sessions, history>>

Init ==
    /\ user \in [verified : BOOLEAN, pw : {1}, ver : {1}]
    /\ row = NoRow
    /\ tx = [c \in Clients |-> Idle]
    /\ mails = {} /\ known = {} /\ sessions = {}
    /\ clock = 1
    /\ used = {} /\ smtp = {} /\ startedAt = 1 /\ guesses = 0
    /\ asked = {} /\ wrong = {}

Next ==
    \/ \E c \in Clients :
          \/ BeginRequest(c) \/ RequestRefusal(c) \/ RequestOnRow(c) \/ RequestMissing(c)
          \/ RequestInsert(c) \/ RequestDuplicate(c)
          \/ BeginVerify(c) \/ VerifyRefusal(c) \/ WrongCode(c) \/ RepeatCode(c) \/ AcceptCode(c)
          \/ BeginComplete(c) \/ CompleteReset(c) \/ CompleteRefusal(c)
          \/ BeginLogin(c) \/ Login(c) \/ VerifyEmail(c) \/ SignVerified(c)
          \/ Abort(c)
    \/ \E m \in mails :
          \/ SmtpEnds(m, "sent") \/ SmtpEnds(m, "failed")
          \/ RecordResult(m) \/ LoseResult(m)
    \/ RefreshUnverified
    \/ Tick

Spec == Init /\ [][Next]_vars

-----------------------------------------------------------------------------
(* Properties.                                                             *)

TypeOK ==
    /\ user \in User
    /\ row \in Challenge
    /\ tx \in [Clients -> Request]
    /\ mails \subseteq [id : Nat, outcome : {"none", "sent", "failed"}]
    /\ smtp \subseteq [id : Nat, outcome : {"sent", "failed"}]
    /\ known \subseteq Token /\ used \subseteq Token
    /\ sessions \subseteq [pw : Nat, ver : Nat]
    /\ clock \in Times /\ startedAt \in Times /\ guesses \in Nat
    /\ asked \subseteq Event /\ wrong \subseteq Event

\* A login that races a reset is refused or its token is already revoked: a
\* session that validate() accepts was opened with the current password
\* (docs/password-reset-contract.md:179-181).
SessionsKnowThePassword == \A s \in Accepted : s.pw = user.pw

\* The password changes only within the lifetime of the challenge and with
\* fewer than the allowed wrong codes, however often the code was sent again,
\* and whatever clients did between two steps of complete()
\* (docs/password-reset-contract.md:62-70).
ResetsWithinChallenge ==
    [][used' # used => clock < startedAt + CodeTTL /\ guesses < MaxCodeAttempts]_vars

Within(events, from, to) == Cardinality({e \in events : from <= e.at /\ e.at <= to})

\* Neither new challenges nor waits for locks buy more requests or guesses: in
\* any stretch as long as the window at most two windows' worth is answered; a
\* request that waited for its lock counts from when it read the clock
\* (docs/password-reset-contract.md:72-74).
HourlyLimits ==
    \A t \in Times : LET end == t + Window - MaxWait IN
        /\ Within(asked, t, end) <= 2 * MaxAsked
        /\ Within(wrong, t, end) <= 2 * MaxWrong

\* The recorded outcome is that of the latest email
\* (password-reset-challenge.entity.ts:56).
StatusOfLatestEmail ==
    row.sendStatus \in {"sent", "failed"} => Mail(row.sendId, row.sendStatus) \in smtp

\* Two requests are never both accepted within the cooldown, not even the first
\* two of an address, which find no row to lock; one that waited for its lock
\* counts from when it read the clock (docs/password-reset-contract.md:54).
OneEmailPerCooldown ==
    \A t \in Times : Within(asked, t, t + Cooldown - MaxWait - 1) <= 1

\* In every stretch of time no more is answered than the contract allows: an
\* email per cooldown, and the hourly requests and wrong codes.
RatesHold == HourlyLimits /\ OneEmailPerCooldown

\* "A window that has ended counts nothing; the next counted event starts one"
\* (password-reset-rules.ts:34): the requests counted against the next one are
\* those accepted in the current window.
EndedWindowCountsNothing ==
    Exists => row.winAsked = Cardinality({e \in asked : e.window = row.winStart})

\* Recovery implements AccountRecovery: the authorization that stands is the
\* row's token while it can still complete the reset.
Recovery == INSTANCE AccountRecovery
               WITH password <- user.pw,
                    NoGrant <- NoToken,
                    grant <- IF Exists /\ CanComplete(row, row.token, clock)
                             THEN row.token ELSE NoToken,
                    spent <- known,
                    live <- {s.pw : s \in Accepted}

KeepsRecovery == Recovery!Spec
=============================================================================
