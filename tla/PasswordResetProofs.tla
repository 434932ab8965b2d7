-------------------------- MODULE PasswordResetProofs --------------------------
(* Password recovery keeps its limits and its sessions for every number of     *)
(* clients, every length of the times and every limit: the inductive invariant *)
(* of PasswordReset and what follows from it.                                  *)
EXTENDS PasswordReset, Collections

-----------------------------------------------------------------------------
(* The inductive invariant.                                                *)

\* A transaction that waits for its locks has read a clock at most MaxWait ago.
WaitsInTime ==
    \A c \in Clients : tx[c].pc \in {"lock", "insert"} =>
        tx[c].now \in Times /\ tx[c].now <= clock /\ clock <= tx[c].now + MaxWait

\* Whoever knows a password and a version of the account, as it was read or as
\* it is in a session: an old version, or the password of the present one.
Knows(pw, ver) == user.verified /\ ver <= user.ver /\ (ver = user.ver => pw = user.pw)

SignedIn ==
    /\ \A s \in sessions : Knows(s.pw, s.ver)
    /\ \A c \in Clients : tx[c].op \in {"login", "verifyEmail"} => Knows(tx[c].pw, tx[c].ver)

\* The challenge's limits are those of the history, and the tokens that clients
\* know are those of earlier codes or the row's own.
ChallengeKept ==
    /\ guesses = row.attempts
    /\ row.tokenExpires <= row.expires /\ row.expires <= startedAt + CodeTTL
    /\ startedAt <= clock
    /\ row.code \in {0, row.sendId}
    /\ row.verified # 0 /\ row.code # 0 => Derived(row.code, row.verified) \in known
    /\ row.verified # 0 /\ ~row.completed /\ row.attempts < MaxCodeAttempts =>
           row.code # 0 /\ row.token = Derived(row.code, row.verified)
    /\ \A t \in known : /\ t.code # 0 /\ t.code <= row.sendId
                        /\ t.code = row.sendId => row.verified # 0

\* Results of emails are results of SMTP conversations.
ResultsHappened ==
    /\ \A m \in mails : m.outcome # "none" => m \in smtp
    /\ StatusOfLatestEmail

\* Events of one kind, when the current window started at start and has count
\* of them: each is in one of the windows, which do not overlap, committed
\* while the window lasted or MaxWait later, and has a number of its own.
InWindows(events, start, count, max) ==
    /\ IsFiniteSet(events)
    /\ \A e \in events :
          /\ e.window <= e.at /\ e.at < e.window + Window + MaxWait
          /\ e.nth <= max
          /\ (e.window = start /\ e.nth <= count) \/ e.window + Window <= start
    /\ \A e, f \in events :
          /\ e.window = f.window /\ e.nth = f.nth => e = f
          /\ e.window = f.window \/ e.window + Window <= f.window
                                 \/ f.window + Window <= e.window

\* Requests are accepted a cooldown apart, on the clocks that they read.
Spread(events, last) ==
    /\ \A e \in events : e.at <= last + MaxWait
    /\ \A e, f \in events : e = f \/ e.at + Cooldown <= f.at + MaxWait
                                  \/ f.at + Cooldown <= e.at + MaxWait

EventsCounted ==
    /\ row.winStart <= clock
    /\ ~Exists => asked = {} /\ wrong = {}
    /\ InWindows(asked, row.winStart, row.winAsked, MaxAsked)
    /\ InWindows(wrong, row.winStart, row.winWrong, MaxWrong)
    /\ Spread(asked, row.last)

IInv == /\ TypeOK /\ WaitsInTime /\ SignedIn /\ ChallengeKept
        /\ ResultsHappened /\ EventsCounted

-----------------------------------------------------------------------------
(* Operators.                                                              *)

LEMMA WindowKnown ==
    ASSUME NEW r \in Challenge, NEW now \in Nat
    PROVE  LET win == CurrentWindow(r, now) IN
           /\ win.start \in Nat /\ win.asked \in Nat /\ win.wrong \in Nat
           /\ \/ /\ win.start = r.winStart /\ now < win.start + Window
                 /\ win.asked = r.winAsked /\ win.wrong = r.winWrong
              \/ /\ win.start = now /\ r.winStart + Window <= now
                 /\ win.asked = 0 /\ win.wrong = 0
  BY TimeAssumption DEF CurrentWindow, Challenge

\* The row that an accepted request leaves.
LEMMA AskedFields ==
    ASSUME NEW r, NEW now
    PROVE  /\ Asked(r, now).code = (IF user.verified THEN r.sendId + 1 ELSE 0)
           /\ Asked(r, now).last = now
           /\ Asked(r, now).sendId = r.sendId + 1
           /\ Asked(r, now).sendStatus = (IF user.verified THEN "pending" ELSE "none")
           /\ Rotates(r, now) =>
                 /\ Asked(r, now).attempts = r.attempts
                 /\ Asked(r, now).expires = r.expires
                 /\ Asked(r, now).verified = r.verified
                 /\ Asked(r, now).token = r.token
                 /\ Asked(r, now).tokenExpires = r.tokenExpires
           /\ ~Rotates(r, now) =>
                 /\ Asked(r, now).attempts = 0
                 /\ Asked(r, now).expires = now + CodeTTL
                 /\ Asked(r, now).verified = 0
                 /\ Asked(r, now).token = NoToken
                 /\ Asked(r, now).tokenExpires = 0
  BY DEF Asked, Expiry

LEMMA AskedFlags ==
    ASSUME user \in User, NEW r \in Challenge, NEW now
    PROVE  Asked(r, now).bound \in BOOLEAN /\ Asked(r, now).completed \in BOOLEAN
  <1>1. user.verified \in BOOLEAN /\ r.completed \in BOOLEAN
    BY DEF User, Challenge
  <1>2. (IF Rotates(r, now) THEN r.completed ELSE FALSE) \in BOOLEAN
    BY <1>1
  <1> QED
    BY <1>1, <1>2 DEF Asked

LEMMA AskedWindow ==
    ASSUME NEW r \in Challenge, NEW now \in Nat
    PROVE  LET new == Asked(r, now)
               win == CurrentWindow(r, now) IN
           /\ r.sendId # 0 => /\ new.winStart = win.start
                              /\ new.winAsked = win.asked + 1 /\ new.winWrong = win.wrong
           /\ r.sendId = 0 => new.winStart = now /\ new.winAsked = 1 /\ new.winWrong = 0
  BY DEF Asked

LEMMA AskedTyped ==
    ASSUME user \in User, NEW r \in Challenge, NEW now \in Nat
    PROVE  Asked(r, now) \in Challenge
  <1> DEFINE new == Asked(r, now)
             keep == Rotates(r, now)
  <1>1. /\ r.attempts \in Nat /\ r.expires \in Nat /\ r.verified \in Nat
        /\ r.token \in Token /\ r.tokenExpires \in Nat /\ r.completed \in BOOLEAN
        /\ r.sendId \in Nat /\ user.verified \in BOOLEAN /\ NoToken \in Token
        /\ now + CodeTTL \in Nat
    BY TimeAssumption DEF Challenge, User, NoToken, Token
  <1>2. /\ new.code \in Nat /\ new.attempts \in Nat
        /\ new.expires \in Nat /\ new.last \in Nat /\ new.verified \in Nat
        /\ new.token \in Token /\ new.tokenExpires \in Nat
        /\ new.sendId \in Nat
        /\ new.sendStatus \in {"none", "pending", "sent", "failed"}
    <2> HIDE DEF new
    <2>1. CASE Rotates(r, now)
      BY <1>1, <2>1, AskedFields DEF new
    <2>2. CASE ~Rotates(r, now)
      BY <1>1, <2>2, AskedFields DEF new
    <2> QED
      BY <2>1, <2>2
  <1>3. new.bound \in BOOLEAN /\ new.completed \in BOOLEAN
    BY AskedFlags
  <1>4. new.winStart \in Nat /\ new.winAsked \in Nat /\ new.winWrong \in Nat
    BY AskedWindow, WindowKnown DEF Challenge
  <1> HIDE DEF new
  <1>5. new = [bound |-> new.bound, code |-> new.code, attempts |-> new.attempts,
               expires |-> new.expires, last |-> new.last, verified |-> new.verified,
               token |-> new.token, tokenExpires |-> new.tokenExpires,
               completed |-> new.completed, sendId |-> new.sendId,
               sendStatus |-> new.sendStatus, winStart |-> new.winStart,
               winAsked |-> new.winAsked, winWrong |-> new.winWrong]
    BY Zenon DEF Asked, new
  <1>6. [bound |-> new.bound, code |-> new.code, attempts |-> new.attempts,
               expires |-> new.expires, last |-> new.last, verified |-> new.verified,
               token |-> new.token, tokenExpires |-> new.tokenExpires,
               completed |-> new.completed, sendId |-> new.sendId,
               sendStatus |-> new.sendStatus, winStart |-> new.winStart,
               winAsked |-> new.winAsked, winWrong |-> new.winWrong] \in Challenge
    BY <1>2, <1>3, <1>4 DEF Challenge
  <1> QED
    BY <1>5, <1>6, Zenon DEF new

\* What is in a challenge that is pending, or verified.
LEMMA StateKnown ==
    ASSUME NEW r, NEW now
    PROVE  /\ State(r, now) = "pending" =>
                 /\ ~r.completed /\ ~(r.attempts >= MaxCodeAttempts)
                 /\ r.verified = 0 /\ r.expires > now
           /\ State(r, now) = "verified" =>
                 /\ ~r.completed /\ ~(r.attempts >= MaxCodeAttempts)
                 /\ r.verified # 0 /\ r.tokenExpires > now
  BY DEF State

LEMMA Typed ==
    /\ Idle \in Request
    /\ TypeOK => \A op \in Operations, pc \in {"lock", "hash", "sign"}, code, runs \in Nat :
                    ReadClock(op, pc, code, runs) \in Request /\ ReadAccount(op, pc) \in Request
    /\ \A token \in Token : ReadToken(token) \in Request
    /\ \A me \in Request : AtInsert(me) \in Request
  <1>1. Idle \in Request
    BY DEF Idle, Request, NoToken, Token
  <1>2. ASSUME TypeOK, NEW op \in Operations, NEW pc \in {"lock", "hash", "sign"},
               NEW code \in Nat, NEW runs \in Nat
        PROVE  ReadClock(op, pc, code, runs) \in Request /\ ReadAccount(op, pc) \in Request
    BY <1>2 DEF TypeOK, ReadClock, ReadAccount, Request, NoToken, Token, User, Times
  <1>3. \A token \in Token : ReadToken(token) \in Request
    BY DEF ReadToken, Request, Operations
  <1>4. \A me \in Request : AtInsert(me) \in Request
    BY DEF AtInsert, Request, NoToken, Token
  <1> QED
    BY <1>1, <1>2, <1>3, <1>4

LEMMA TypeInit == Init => TypeOK
  <1> SUFFICES ASSUME Init PROVE TypeOK
    OBVIOUS
  <1>1. user \in User /\ row \in Challenge
    BY DEF Init, User, NoRow, Challenge, NoToken, Token
  <1>2. tx \in [Clients -> Request]
    BY Typed DEF Init
  <1> QED
    BY <1>1, <1>2, TimeAssumption DEF Init, TypeOK, Times

LEMMA TxTyped ==
    ASSUME tx \in [Clients -> Request], NEW c \in Clients, NEW me \in Request
    PROVE  [tx EXCEPT ![c] = me] \in [Clients -> Request]
  OBVIOUS

\* An ended request is an idle client; the rows are as typed as they are new.
LEMMA TypeEnds ==
    ASSUME TypeOK, NEW c \in Clients, Ends(c)
    PROVE  tx' \in [Clients -> Request]
  BY TxTyped, Typed DEF TypeOK, Ends

LEMMA TypeAccepts ==
    ASSUME TypeOK, WaitsInTime, NEW c \in Clients, tx[c].pc \in {"lock", "insert"}, Accepts(c)
    PROVE  TypeOK'
  <1> DEFINE now == tx[c].now
             new == Asked(row, now)
  <1>1. now \in Times /\ now \in Nat /\ clock \in Times
    BY DEF WaitsInTime, TypeOK, Times
  <1>2. new \in Challenge /\ row' = new
    BY <1>1, AskedTyped DEF TypeOK, Accepts
  <1>3. Counted(clock, new.winStart, new.winAsked) \in Event
    <2>1. new.winStart \in Nat /\ new.winAsked \in Nat \ {0}
      BY <1>1, AskedWindow, WindowKnown DEF TypeOK, Challenge
    <2> QED
      BY <1>1, <2>1 DEF Counted, Event
  <1>4. mails' \subseteq [id : Nat, outcome : {"none", "sent", "failed"}]
    <2>1. row.sendId + 1 \in Nat
      BY DEF TypeOK, Challenge
    <2> QED
      BY <2>1 DEF TypeOK, Accepts, Mail
  <1>5. asked' \subseteq Event
    BY <1>3 DEF TypeOK, Accepts
  <1>6. tx' \in [Clients -> Request]
    BY TypeEnds DEF Accepts
  <1>7. startedAt' \in Times /\ guesses' \in Nat
    BY <1>1 DEF TypeOK, Accepts
  <1> HIDE DEF new
  <1> QED
    BY <1>2, <1>4, <1>5, <1>6, <1>7 DEF TypeOK, Accepts

LEMMA TypeWrongCode ==
    ASSUME TypeOK, WaitsInTime, NEW c \in Clients, WrongCode(c)
    PROVE  TypeOK'
  <1> DEFINE win == CurrentWindow(row, tx[c].now)
  <1>1. win.start \in Nat /\ win.wrong \in Nat
    BY WindowKnown DEF TypeOK, WaitsInTime, WrongCode, At, Times
  <1>2. row' \in Challenge
    <2> DEFINE exhausted == row.attempts + 1 >= MaxCodeAttempts
               token == IF exhausted THEN NoToken ELSE row.token
               expires == IF exhausted THEN 0 ELSE row.tokenExpires
    <2>1. /\ row.attempts + 1 \in Nat /\ win.wrong + 1 \in Nat
          /\ token \in Token /\ expires \in Nat
      BY <1>1 DEF TypeOK, Challenge, NoToken, Token
    <2>2. row' = [row EXCEPT !.attempts = row.attempts + 1, !.winStart = win.start,
                             !.winWrong = win.wrong + 1, !.token = token,
                             !.tokenExpires = expires]
      BY DEF WrongCode
    <2> HIDE DEF win, token, expires
    <2> QED
      BY <1>1, <2>1, <2>2 DEF TypeOK, Challenge
  <1>3. wrong' \subseteq Event
    <2>1. Counted(clock, win.start, win.wrong + 1) \in Event
      BY <1>1 DEF TypeOK, Counted, Event
    <2> QED
      BY <2>1 DEF TypeOK, WrongCode
  <1>4. tx' \in [Clients -> Request] /\ guesses' \in Nat
    BY TypeEnds DEF TypeOK, WrongCode
  <1> QED
    BY <1>2, <1>3, <1>4 DEF TypeOK, WrongCode

LEMMA TypeAcceptCode ==
    ASSUME TypeOK, WaitsInTime, NEW c \in Clients, AcceptCode(c)
    PROVE  TypeOK'
  <1> DEFINE token == Derived(row.code, tx[c].now)
  <1>1. tx[c].now \in Nat
    BY DEF TypeOK, Request, AcceptCode, At
  <1>2. token \in Token
    BY <1>1 DEF TypeOK, Challenge, Derived, Token
  <1>3. TokenExpiry(tx[c].now, row.expires) \in Nat
    BY <1>1, TimeAssumption DEF TypeOK, Challenge, TokenExpiry, Earlier
  <1>4. row' \in Challenge
    BY <1>1, <1>2, <1>3 DEF TypeOK, AcceptCode, Challenge
  <1>5. tx' \in [Clients -> Request]
    BY TypeEnds DEF AcceptCode
  <1> QED
    BY <1>2, <1>4, <1>5 DEF TypeOK, AcceptCode, history

LEMMA TypeCompleteReset ==
    ASSUME TypeOK, NEW c \in Clients, CompleteReset(c)
    PROVE  TypeOK'
  <1>1. user' \in User
    BY DEF TypeOK, CompleteReset, User, NextVersion
  <1>2. row' \in Challenge
    BY DEF TypeOK, CompleteReset, Challenge, NoToken, Token
  <1>3. tx[c].token \in Token
    BY DEF TypeOK, Request
  <1>4. tx' \in [Clients -> Request]
    BY TypeEnds DEF CompleteReset
  <1>5. used' \subseteq Token
    BY <1>3 DEF TypeOK, CompleteReset
  <1>6. UNCHANGED <<mails, known, sessions, clock, smtp, startedAt, guesses, asked, wrong>>
    BY DEF CompleteReset
  <1> QED
    BY <1>1, <1>2, <1>4, <1>5, <1>6 DEF TypeOK

\* A request ends, begins or goes on, and nothing else changes.
Others == <<user, row, mails, known, sessions, clock, used, smtp, startedAt, guesses, asked, wrong>>

LEMMA TypeGoesOn ==
    ASSUME TypeOK, NEW c \in Clients, NEW me \in Request, tx' = [tx EXCEPT ![c] = me],
           UNCHANGED Others
    PROVE  TypeOK'
  <1>1. tx' \in [Clients -> Request]
    BY TxTyped DEF TypeOK
  <1> QED
    BY <1>1 DEF TypeOK, Others

\* What the actions do that only move a request on.
GoesOn(c, me) == tx' = [tx EXCEPT ![c] = me] /\ UNCHANGED Others

\* The request it goes on as: idle, or with the clock or the account as read.
Quiet(c) ==
    \E me \in Request :
        /\ GoesOn(c, me)
        /\ me.pc \in {"lock", "insert"} => \/ me.now = clock
                                           \/ tx[c].pc = "lock" /\ me.now = tx[c].now
        /\ me.op \in {"login", "verifyEmail"} =>
               user.verified /\ me.pw = user.pw /\ me.ver = user.ver

LEMMA QuietActions ==
    ASSUME TypeOK, NEW c \in Clients
    PROVE  (\/ BeginRequest(c) \/ RequestRefusal(c) \/ RequestMissing(c) \/ RequestDuplicate(c)
            \/ BeginVerify(c) \/ VerifyRefusal(c) \/ BeginComplete(c) \/ CompleteRefusal(c)
            \/ BeginLogin(c) \/ Abort(c)) => Quiet(c)
  <1>1. GoesOn(c, Idle) => Quiet(c)
    BY Typed DEF Quiet, Idle
  <1>2. ASSUME NEW op \in {"request", "verify"}, NEW code \in Nat, NEW runs \in Nat,
               GoesOn(c, ReadClock(op, "lock", code, runs))
        PROVE  Quiet(c)
    <2>1. ReadClock(op, "lock", code, runs) \in Request
      BY Typed DEF Operations
    <2>2. /\ ReadClock(op, "lock", code, runs).op \notin {"login", "verifyEmail"}
          /\ ReadClock(op, "lock", code, runs).now = clock
      BY DEF ReadClock
    <2> QED
      BY <1>2, <2>1, <2>2 DEF Quiet
  <1>3. RequestRefusal(c) \/ VerifyRefusal(c) \/ CompleteRefusal(c) \/ Abort(c) => Quiet(c)
    BY <1>1 DEF RequestRefusal, VerifyRefusal, CompleteRefusal, Abort, GoesOn, Others, Ends, history
  <1>4. BeginRequest(c) => Quiet(c)
    <2>1. BeginRequest(c) => GoesOn(c, ReadClock("request", "lock", 0, 0))
      BY DEF BeginRequest, Starts, GoesOn, Others, history
    <2> QED
      BY <1>2, <2>1
  <1>5. RequestMissing(c) => Quiet(c)
    <2>1. RequestMissing(c) => At(c, "request", "lock") /\ GoesOn(c, AtInsert(tx[c]))
      BY DEF RequestMissing, GoesOn, Others, history
    <2>2. AtInsert(tx[c]) \in Request
      BY Typed DEF TypeOK
    <2>3. AtInsert(tx[c]).op = tx[c].op /\ AtInsert(tx[c]).now = tx[c].now
      BY DEF AtInsert
    <2> QED
      BY <2>1, <2>2, <2>3 DEF Quiet, At
  <1>6. RequestDuplicate(c) => Quiet(c)
    <2>1. RequestDuplicate(c) => \/ GoesOn(c, ReadClock("request", "lock", 0, 1))
                                 \/ GoesOn(c, Idle)
      BY DEF RequestDuplicate, GoesOn, Others, history
    <2> QED
      BY <1>1, <1>2, <2>1
  <1>7. BeginVerify(c) => Quiet(c)
    <2>1. BeginVerify(c) => \E code \in 0..row.sendId :
                               GoesOn(c, ReadClock("verify", "lock", code, 0))
      BY DEF BeginVerify, Starts, GoesOn, Others, history
    <2>2. \A code \in 0..row.sendId : code \in Nat
      BY DEF TypeOK, Challenge
    <2> QED
      BY <1>2, <2>1, <2>2
  <1>8. BeginComplete(c) => Quiet(c)
    <2>1. BeginComplete(c) => \E token \in known : GoesOn(c, ReadToken(token))
      BY DEF BeginComplete, Starts, GoesOn, Others, history
    <2>2. \A token \in known : ReadToken(token) \in Request
      BY Typed DEF TypeOK
    <2>3. \A token : ReadToken(token).op = "complete" /\ ReadToken(token).pc = "hash"
      BY DEF ReadToken
    <2> QED
      BY <2>1, <2>2, <2>3 DEF Quiet
  <1>9. BeginLogin(c) => Quiet(c)
    <2>1. BeginLogin(c) => user.verified /\ GoesOn(c, ReadAccount("login", "hash"))
      BY DEF BeginLogin, Starts, GoesOn, Others, history
    <2>2. ReadAccount("login", "hash") \in Request
      BY Typed DEF Operations
    <2>3. LET me == ReadAccount("login", "hash") IN
          me.pc = "hash" /\ me.pw = user.pw /\ me.ver = user.ver
      BY DEF ReadAccount
    <2> QED
      BY <2>1, <2>2, <2>3 DEF Quiet
  <1> QED
    BY <1>3, <1>4, <1>5, <1>6, <1>7, <1>8, <1>9

\* An accepted request is accepted where it found the row, or found none.
Accepting(c) ==
    /\ \/ tx[c].pc = "lock" /\ Exists /\ ~RequestRefused(row, tx[c].now)
       \/ tx[c].pc = "insert" /\ ~Exists
    /\ Accepts(c)

\* The steps that are left to look at, one by one.
LEMMA Steps ==
    ASSUME TypeOK, [Next]_vars
    PROVE  \/ \E c \in Clients :
                 \/ Quiet(c) \/ Accepting(c)
                 \/ WrongCode(c) \/ RepeatCode(c) \/ AcceptCode(c) \/ CompleteReset(c)
                 \/ Login(c) \/ VerifyEmail(c) \/ SignVerified(c)
           \/ \E m \in mails :
                 \/ SmtpEnds(m, "sent") \/ SmtpEnds(m, "failed")
                 \/ RecordResult(m) \/ LoseResult(m)
           \/ RefreshUnverified
           \/ Tick
           \/ UNCHANGED vars
  <1>1. \A c \in Clients : RequestOnRow(c) \/ RequestInsert(c) => Accepting(c)
    BY DEF RequestOnRow, RequestInsert, Accepting, At
  <1> QED
    BY <1>1, QuietActions DEF Next

LEMMA TypeStep ==
    ASSUME TypeOK, WaitsInTime, [Next]_vars
    PROVE  TypeOK'
  <1>1. ASSUME NEW c \in Clients, Quiet(c) PROVE TypeOK'
    BY <1>1, TypeGoesOn DEF Quiet, GoesOn
  <1>2. ASSUME NEW c \in Clients, Accepting(c) PROVE TypeOK'
    BY <1>2, TypeAccepts DEF Accepting
  <1>3. ASSUME NEW c \in Clients, WrongCode(c) PROVE TypeOK'
    BY <1>3, TypeWrongCode
  <1>4. ASSUME NEW c \in Clients, RepeatCode(c) PROVE TypeOK'
    <2>1. Derived(row.code, row.verified) \in Token
      BY DEF TypeOK, Challenge, Derived, Token
    <2>2. tx' \in [Clients -> Request]
      BY <1>4, TypeEnds DEF RepeatCode
    <2> QED
      BY <1>4, <2>1, <2>2 DEF TypeOK, RepeatCode, history
  <1>5. ASSUME NEW c \in Clients, AcceptCode(c) PROVE TypeOK'
    BY <1>5, TypeAcceptCode
  <1>6. ASSUME NEW c \in Clients, CompleteReset(c) PROVE TypeOK'
    BY <1>6, TypeCompleteReset
  <1>7. ASSUME NEW c \in Clients, Login(c) \/ SignVerified(c) PROVE TypeOK'
    <2>1. /\ Session(tx[c], user.ver) \in [pw : Nat, ver : Nat]
          /\ Session(tx[c], tx[c].ver) \in [pw : Nat, ver : Nat]
      BY DEF TypeOK, Session, User, Request
    <2>2. tx' \in [Clients -> Request]
      BY <1>7, TypeEnds DEF Login, SignVerified
    <2>3. sessions' \subseteq [pw : Nat, ver : Nat]
      BY <1>7, <2>1 DEF TypeOK, Login, SignVerified
    <2>4. UNCHANGED <<user, row, mails, known, clock, history>>
      BY <1>7 DEF Login, SignVerified
    <2> QED
      BY <2>2, <2>3, <2>4 DEF TypeOK, history
  <1>8. ASSUME NEW c \in Clients, VerifyEmail(c) PROVE TypeOK'
    <2>1. ReadAccount("verifyEmail", "sign") \in Request
      BY Typed DEF Operations
    <2>2. tx' \in [Clients -> Request]
      BY <1>8, <2>1, TxTyped DEF TypeOK, VerifyEmail, Starts
    <2>3. user' \in User
      BY <1>8 DEF TypeOK, VerifyEmail, User
    <2> QED
      BY <1>8, <2>2, <2>3 DEF TypeOK, VerifyEmail, history
  <1>9. ASSUME NEW m \in mails, NEW outcome \in {"sent", "failed"}, SmtpEnds(m, outcome)
        PROVE TypeOK'
    <2>1. Mail(m.id, outcome) \in [id : Nat, outcome : {"sent", "failed"}]
      BY DEF TypeOK, Mail
    <2>2. smtp' \subseteq [id : Nat, outcome : {"sent", "failed"}]
      BY <1>9, <2>1 DEF TypeOK, SmtpEnds
    <2>3. mails' \subseteq [id : Nat, outcome : {"none", "sent", "failed"}]
      BY <1>9, <2>1 DEF TypeOK, SmtpEnds
    <2> QED
      BY <1>9, <2>2, <2>3 DEF TypeOK, SmtpEnds
  <1>10. ASSUME NEW m \in mails, RecordResult(m) PROVE TypeOK'
    <2>1. m.outcome \in {"sent", "failed"}
      BY <1>10 DEF TypeOK, RecordResult
    <2>2. row' \in Challenge
      BY <1>10, <2>1 DEF TypeOK, RecordResult, Challenge
    <2> QED
      BY <1>10, <2>2 DEF TypeOK, RecordResult, history
  <1>11. ASSUME NEW m \in mails, LoseResult(m) PROVE TypeOK'
    BY <1>11 DEF TypeOK, LoseResult, history
  <1>12. ASSUME RefreshUnverified PROVE TypeOK'
    <2>1. user' \in User
      BY <1>12 DEF TypeOK, RefreshUnverified, User
    <2> QED
      BY <1>12, <2>1 DEF TypeOK, RefreshUnverified, history
  <1>13. ASSUME Tick PROVE TypeOK'
    <2>1. clock' \in Times
      BY <1>13, TimeAssumption DEF TypeOK, Tick, Times
    <2> QED
      BY <1>13, <2>1 DEF TypeOK, Tick, history
  <1>14. ASSUME UNCHANGED vars PROVE TypeOK'
    BY <1>14 DEF TypeOK, vars, history
  <1> QED
    BY Steps, <1>1, <1>2, <1>3, <1>4, <1>5, <1>6, <1>7, <1>8, <1>9, <1>10, <1>11, <1>12,
       <1>13, <1>14

LEMMA WaitsStep ==
    ASSUME TypeOK, WaitsInTime, [Next]_vars
    PROVE  WaitsInTime'
  <1>1. ASSUME NEW c \in Clients, Quiet(c) PROVE WaitsInTime'
    <2>1. PICK me \in Request : /\ GoesOn(c, me)
                                /\ me.pc \in {"lock", "insert"} =>
                                      \/ me.now = clock
                                      \/ tx[c].pc = "lock" /\ me.now = tx[c].now
      BY <1>1 DEF Quiet
    <2>2. \A d \in Clients : tx'[d] = IF d = c THEN me ELSE tx[d]
      BY <2>1 DEF TypeOK, GoesOn
    <2>3. clock' = clock /\ clock \in Nat
      BY <2>1 DEF TypeOK, GoesOn, Others, Times
    <2> QED
      BY <2>1, <2>2, <2>3, TimeAssumption DEF TypeOK, WaitsInTime
  <1>2. ASSUME NEW c \in Clients, Ends(c), clock' = clock PROVE WaitsInTime'
    <2>1. \A d \in Clients : tx'[d] = IF d = c THEN Idle ELSE tx[d]
      BY <1>2 DEF TypeOK, Ends
    <2> QED
      BY <1>2, <2>1 DEF WaitsInTime, Idle
  <1>3. ASSUME NEW c \in Clients,
               \/ Accepting(c) \/ WrongCode(c) \/ RepeatCode(c) \/ AcceptCode(c)
               \/ CompleteReset(c) \/ Login(c) \/ SignVerified(c)
        PROVE  WaitsInTime'
    <2>1. Ends(c) /\ clock' = clock
      BY <1>3 DEF Accepting, Accepts, WrongCode, RepeatCode, AcceptCode, CompleteReset, Login,
                  SignVerified
    <2> QED
      BY <1>2, <2>1
  <1>4. ASSUME NEW c \in Clients, VerifyEmail(c) PROVE WaitsInTime'
    <2>1. \A d \in Clients : tx'[d] = IF d = c THEN ReadAccount("verifyEmail", "sign") ELSE tx[d]
      BY <1>4 DEF TypeOK, VerifyEmail, Starts
    <2>2. clock' = clock /\ ReadAccount("verifyEmail", "sign").pc = "sign"
      BY <1>4 DEF VerifyEmail, ReadAccount
    <2> QED
      BY <2>1, <2>2 DEF WaitsInTime
  <1>5. ASSUME NEW m \in mails,
               \/ SmtpEnds(m, "sent") \/ SmtpEnds(m, "failed")
               \/ RecordResult(m) \/ LoseResult(m)
        PROVE  WaitsInTime'
    <2>1. UNCHANGED <<tx, clock>>
      BY <1>5 DEF SmtpEnds, RecordResult, LoseResult
    <2> QED
      BY <2>1 DEF WaitsInTime
  <1>6. ASSUME RefreshUnverified \/ UNCHANGED vars PROVE WaitsInTime'
    <2>1. UNCHANGED <<tx, clock>>
      BY <1>6 DEF RefreshUnverified, vars
    <2> QED
      BY <2>1 DEF WaitsInTime
  <1>7. ASSUME Tick PROVE WaitsInTime'
    BY <1>7, TimeAssumption DEF TypeOK, Tick, WaitsInTime, Times
  <1> QED
    BY Steps, <1>1, <1>3, <1>4, <1>5, <1>6, <1>7

-----------------------------------------------------------------------------
(* Sessions.                                                               *)

LEMMA SignedInStep ==
    ASSUME TypeOK, SignedIn, [Next]_vars
    PROVE  SignedIn'
  <1>1. ASSUME NEW c \in Clients, Quiet(c) PROVE SignedIn'
    <2>1. PICK me \in Request : /\ GoesOn(c, me)
                                /\ me.op \in {"login", "verifyEmail"} =>
                                      user.verified /\ me.pw = user.pw /\ me.ver = user.ver
      BY <1>1 DEF Quiet
    <2>2. \A d \in Clients : tx'[d] = IF d = c THEN me ELSE tx[d]
      BY <2>1 DEF TypeOK, GoesOn
    <2>3. UNCHANGED <<user, sessions>>
      BY <2>1 DEF GoesOn, Others
    <2>4. me.op \in {"login", "verifyEmail"} => Knows(me.pw, me.ver)
      BY <2>1 DEF Knows, TypeOK, User
    <2>5. \A pw, ver : Knows(pw, ver) => Knows(pw, ver)'
      BY <2>3 DEF Knows
    <2> QED
      BY <2>2, <2>3, <2>4, <2>5 DEF SignedIn
  <1>2. ASSUME NEW c \in Clients, Ends(c), user' = user,
               \A s \in sessions' : s \in sessions \/ Knows(s.pw, s.ver)
        PROVE  SignedIn'
    <2>1. \A d \in Clients : tx'[d] = IF d = c THEN Idle ELSE tx[d]
      BY <1>2 DEF TypeOK, Ends
    <2>2. \A pw, ver : Knows(pw, ver) => Knows(pw, ver)'
      BY <1>2 DEF Knows
    <2>3. Idle.op = "none"
      BY DEF Idle
    <2>4. \A s \in sessions' : Knows(s.pw, s.ver)'
      BY <1>2, <2>2 DEF SignedIn
    <2>5. \A d \in Clients : tx'[d].op \in {"login", "verifyEmail"} =>
                                Knows(tx[d].pw, tx[d].ver)'
      BY <2>1, <2>2, <2>3 DEF SignedIn
    <2> QED
      BY <2>4, <2>5 DEF SignedIn
  <1>3. ASSUME NEW c \in Clients,
               Accepting(c) \/ WrongCode(c) \/ RepeatCode(c) \/ AcceptCode(c)
        PROVE  SignedIn'
    <2>1. Ends(c) /\ UNCHANGED <<user, sessions>>
      BY <1>3 DEF Accepting, Accepts, WrongCode, RepeatCode, AcceptCode
    <2> QED
      BY <1>2, <2>1
  <1>4. ASSUME NEW c \in Clients, CompleteReset(c) PROVE SignedIn'
    <2>1. \A d \in Clients : tx'[d] = IF d = c THEN Idle ELSE tx[d]
      BY <1>4 DEF TypeOK, CompleteReset, Ends
    <2>2. Idle.op = "none"
      BY DEF Idle
    <2>3. sessions' = sessions /\ user'.verified = user.verified /\ user'.ver = user.ver + 1
      BY <1>4 DEF CompleteReset, NextVersion
    <2>4. \A pw, ver \in Nat : Knows(pw, ver) => Knows(pw, ver)'
      BY <2>3 DEF Knows, TypeOK, User
    <2>5. \A s \in sessions : s.pw \in Nat /\ s.ver \in Nat
      BY DEF TypeOK
    <2>6. \A d \in Clients : tx[d].pw \in Nat /\ tx[d].ver \in Nat
      BY DEF TypeOK, Request
    <2> QED
      BY <2>1, <2>2, <2>3, <2>4, <2>5, <2>6 DEF SignedIn
  <1>5. ASSUME NEW c \in Clients, Login(c) PROVE SignedIn'
    <2>1. Knows(tx[c].pw, tx[c].ver)
      BY <1>5 DEF SignedIn, Login, At
    <2>2. \A s \in sessions' : s \in sessions \/ (s.pw = tx[c].pw /\ s.ver = tx[c].ver)
      BY <1>5 DEF Login, Session, StillSame
    <2>3. Ends(c) /\ user' = user
      BY <1>5 DEF Login
    <2> QED
      BY <1>2, <2>1, <2>2, <2>3
  <1>6. ASSUME NEW c \in Clients, SignVerified(c) PROVE SignedIn'
    <2>1. Knows(tx[c].pw, tx[c].ver)
      BY <1>6 DEF SignedIn, SignVerified, At
    <2>2. \A s \in sessions' : s \in sessions \/ (s.pw = tx[c].pw /\ s.ver = tx[c].ver)
      BY <1>6 DEF SignVerified, Session
    <2>3. Ends(c) /\ user' = user
      BY <1>6 DEF SignVerified
    <2> QED
      BY <1>2, <2>1, <2>2, <2>3
  <1>7. ASSUME NEW c \in Clients, VerifyEmail(c) PROVE SignedIn'
    <2>1. \A d \in Clients : tx'[d] = IF d = c THEN ReadAccount("verifyEmail", "sign") ELSE tx[d]
      BY <1>7 DEF TypeOK, VerifyEmail, Starts
    <2>2. ReadAccount("verifyEmail", "sign").pw = user.pw
          /\ ReadAccount("verifyEmail", "sign").ver = user.ver
      BY DEF ReadAccount
    <2>3. /\ sessions' = sessions /\ user'.verified
          /\ user'.pw = user.pw /\ user'.ver = user.ver /\ user.ver \in Nat
      BY <1>7 DEF VerifyEmail, TypeOK, User
    <2>4. \A pw, ver : Knows(pw, ver) => Knows(pw, ver)'
      BY <2>3 DEF Knows
    <2>5. Knows(user.pw, user.ver)'
      BY <2>3 DEF Knows
    <2> QED
      BY <2>1, <2>2, <2>3, <2>4, <2>5 DEF SignedIn
  <1>8. ASSUME NEW m \in mails,
               \/ SmtpEnds(m, "sent") \/ SmtpEnds(m, "failed")
               \/ RecordResult(m) \/ LoseResult(m)
        PROVE  SignedIn'
    <2>1. UNCHANGED <<user, tx, sessions>>
      BY <1>8 DEF SmtpEnds, RecordResult, LoseResult
    <2> QED
      BY <2>1 DEF SignedIn, Knows
  <1>9. ASSUME RefreshUnverified PROVE SignedIn'
    BY <1>9 DEF RefreshUnverified, SignedIn, Knows
  <1>10. ASSUME Tick \/ UNCHANGED vars PROVE SignedIn'
    <2>1. UNCHANGED <<user, tx, sessions>>
      BY <1>10 DEF Tick, vars
    <2> QED
      BY <2>1 DEF SignedIn, Knows
  <1> QED
    BY Steps, <1>1, <1>3, <1>4, <1>5, <1>6, <1>7, <1>8, <1>9, <1>10

-----------------------------------------------------------------------------
(* What the steps on the row leave in it.                                  *)

SameWindow == UNCHANGED <<row.winStart, row.winAsked, row.winWrong, row.last, asked, wrong>>

LEMMA WrongCodeFields ==
    ASSUME TypeOK, WaitsInTime, NEW c \in Clients, WrongCode(c)
    PROVE  LET win == CurrentWindow(row, tx[c].now) IN
           /\ row'.attempts = row.attempts + 1
           /\ row'.winStart = win.start /\ row'.winWrong = win.wrong + 1
           /\ UNCHANGED <<row.code, row.expires, row.last, row.verified, row.completed,
                          row.sendId, row.sendStatus, row.winAsked, row.bound>>
           /\ \/ row'.token = row.token /\ row'.tokenExpires = row.tokenExpires
                 /\ row.attempts + 1 < MaxCodeAttempts
              \/ row'.token = NoToken /\ row'.tokenExpires = 0
                 /\ row.attempts + 1 >= MaxCodeAttempts
  <1> DEFINE win == CurrentWindow(row, tx[c].now)
             exhausted == row.attempts + 1 >= MaxCodeAttempts
             token == IF exhausted THEN NoToken ELSE row.token
             expires == IF exhausted THEN 0 ELSE row.tokenExpires
  <1>1. row' = [row EXCEPT !.attempts = row.attempts + 1, !.winStart = win.start,
                           !.winWrong = win.wrong + 1, !.token = token,
                           !.tokenExpires = expires]
    BY DEF WrongCode
  <1>2. \/ token = row.token /\ expires = row.tokenExpires
           /\ row.attempts + 1 < MaxCodeAttempts
        \/ token = NoToken /\ expires = 0 /\ row.attempts + 1 >= MaxCodeAttempts
    BY LimitAssumption DEF TypeOK, Challenge
  <1> HIDE DEF win, token, expires
  <1>3. row'.token = token /\ row'.tokenExpires = expires
    BY <1>1 DEF TypeOK, Challenge
  <1>4. /\ row'.attempts = row.attempts + 1
        /\ row'.winStart = win.start /\ row'.winWrong = win.wrong + 1
        /\ UNCHANGED <<row.code, row.expires, row.last, row.verified,
                       row.sendId, row.sendStatus, row.winAsked>>
    BY <1>1 DEF TypeOK, Challenge
  <1>5. UNCHANGED <<row.completed, row.bound>>
    BY <1>1 DEF TypeOK, Challenge
  <1> QED
    BY <1>2, <1>3, <1>4, <1>5 DEF win

LEMMA AcceptCodeFields ==
    ASSUME TypeOK, NEW c \in Clients, AcceptCode(c)
    PROVE  /\ row'.verified = tx[c].now /\ row'.token = Derived(row.code, tx[c].now)
           /\ row'.tokenExpires = TokenExpiry(tx[c].now, row.expires)
           /\ UNCHANGED <<row.code, row.attempts, row.expires, row.completed,
                          row.sendId, row.sendStatus, row.bound>>
           /\ SameWindow
  BY DEF TypeOK, AcceptCode, Challenge, SameWindow, history

LEMMA CompleteResetFields ==
    ASSUME TypeOK, NEW c \in Clients, CompleteReset(c)
    PROVE  /\ row'.completed /\ row'.code = 0
           /\ UNCHANGED <<row.attempts, row.expires, row.verified, row.tokenExpires,
                          row.sendId, row.sendStatus>>
           /\ SameWindow
  BY DEF TypeOK, CompleteReset, Challenge, SameWindow

LEMMA RecordResultFields ==
    ASSUME TypeOK, NEW m \in mails, RecordResult(m)
    PROVE  /\ UNCHANGED <<row.bound, row.code, row.attempts, row.expires, row.verified,
                          row.token, row.tokenExpires, row.completed, row.sendId>>
           /\ SameWindow
           /\ \/ row'.sendStatus = row.sendStatus
              \/ row.sendId = m.id /\ row'.sendStatus = m.outcome
  BY DEF TypeOK, RecordResult, StillCurrent, Challenge, SameWindow, history

-----------------------------------------------------------------------------
(* The challenge.                                                          *)

LEMMA ChallengeAccepts ==
    ASSUME TypeOK, WaitsInTime, ChallengeKept, NEW c \in Clients, Accepting(c)
    PROVE  ChallengeKept'
  <1> DEFINE now == tx[c].now
  <1>1. now \in Nat /\ now <= clock
    BY DEF TypeOK, WaitsInTime, Accepting, Times
  <1>2. /\ row' = Asked(row, now) /\ known' = known /\ clock' = clock
        /\ startedAt' = IF Rotates(row, now) THEN startedAt ELSE clock
        /\ guesses' = IF Rotates(row, now) THEN guesses ELSE 0
    BY DEF Accepting, Accepts
  <1>3. row'.sendId = row.sendId + 1 /\ row'.code \in {0, row'.sendId}
    BY <1>2, AskedFields
  <1>4. /\ guesses' = row'.attempts /\ row'.tokenExpires <= row'.expires
        /\ row'.expires <= startedAt' + CodeTTL /\ startedAt' <= clock' /\ row'.verified = 0
    <2>1. CASE Rotates(row, now)
      <3>1. row.verified = 0
        BY <2>1, StateKnown DEF Rotates
      <3> QED
        BY <1>2, <2>1, <3>1, AskedFields DEF ChallengeKept
    <2>2. CASE ~Rotates(row, now)
      <3>1. clock \in Nat /\ CodeTTL \in Nat
        BY TimeAssumption DEF TypeOK, Times
      <3> QED
        BY <1>1, <1>2, <2>2, <3>1, AskedFields
    <2> QED
      BY <2>1, <2>2
  <1>5. \A t \in known' : t.code # 0 /\ t.code <= row'.sendId /\ t.code # row'.sendId
    <2>1. \A t \in known : t.code \in Nat /\ t.code # 0 /\ t.code <= row.sendId
      BY DEF TypeOK, Token, ChallengeKept
    <2> QED
      BY <1>2, <1>3, <2>1 DEF TypeOK, Challenge
  <1> QED
    BY <1>3, <1>4, <1>5 DEF ChallengeKept

LEMMA ChallengeStep ==
    ASSUME TypeOK, WaitsInTime, ChallengeKept, [Next]_vars
    PROVE  ChallengeKept'
  <1>1. ASSUME UNCHANGED <<row, known, startedAt, guesses>>, clock' \in {clock, clock + 1}
        PROVE ChallengeKept'
    <2>1. startedAt' <= clock'
      BY <1>1 DEF ChallengeKept, TypeOK, Times
    <2> QED
      BY <1>1, <2>1 DEF ChallengeKept
  <1>2. ASSUME NEW c \in Clients, Quiet(c) PROVE ChallengeKept'
    BY <1>1, <1>2 DEF Quiet, GoesOn, Others, TypeOK, Times
  <1>3. ASSUME NEW c \in Clients, Accepting(c) PROVE ChallengeKept'
    BY <1>3, ChallengeAccepts
  <1>4. ASSUME NEW c \in Clients, WrongCode(c) PROVE ChallengeKept'
    <2>1. guesses' = guesses + 1 /\ UNCHANGED <<known, startedAt, clock>>
      BY <1>4 DEF WrongCode
    <2>2. /\ row'.attempts = row.attempts + 1
          /\ UNCHANGED <<row.code, row.expires, row.verified, row.completed, row.sendId>>
          /\ \/ row'.token = row.token /\ row'.tokenExpires = row.tokenExpires
             \/ row'.tokenExpires = 0 /\ row.attempts + 1 >= MaxCodeAttempts
      BY <1>4, WrongCodeFields
    <2>3. row.attempts \in Nat /\ row.expires \in Nat
      BY DEF TypeOK, Challenge
    <2> QED
      BY <2>1, <2>2, <2>3, LimitAssumption DEF ChallengeKept
  <1>5. ASSUME NEW c \in Clients, RepeatCode(c) PROVE ChallengeKept'
    <2>1. row.verified # 0 /\ row.code # 0
      BY <1>5, StateKnown DEF RepeatCode, Matches
    <2>2. known' = known
      BY <1>5, <2>1 DEF RepeatCode, ChallengeKept
    <2> QED
      BY <1>1, <1>5, <2>2 DEF RepeatCode, history, TypeOK, Times
  <1>6. ASSUME NEW c \in Clients, AcceptCode(c) PROVE ChallengeKept'
    <2>1. row.code # 0 /\ row.code = row.sendId
      BY <1>6 DEF AcceptCode, Matches, ChallengeKept
    <2>2. tx[c].now \in Nat /\ tx[c].now # 0
      BY <1>6 DEF AcceptCode, At, WaitsInTime, Times
    <2>3. /\ known' = known \cup {Derived(row.code, tx[c].now)}
          /\ UNCHANGED <<guesses, startedAt, clock>>
      BY <1>6 DEF AcceptCode, history
    <2>4. TokenExpiry(tx[c].now, row.expires) <= row.expires
      BY <2>2, TimeAssumption DEF TokenExpiry, Earlier, TypeOK, Challenge
    <2>5. Derived(row.code, tx[c].now).code = row.code
      BY DEF Derived
    <2>6. \A t \in known' : t.code # 0 /\ t.code <= row.sendId
      BY <2>1, <2>3, <2>5 DEF ChallengeKept, TypeOK, Challenge
    <2> QED
      BY <1>6, <2>1, <2>2, <2>3, <2>4, <2>6, AcceptCodeFields DEF ChallengeKept
  <1>7. ASSUME NEW c \in Clients, CompleteReset(c) PROVE ChallengeKept'
    <2>1. UNCHANGED <<guesses, startedAt, clock, known>>
      BY <1>7 DEF CompleteReset
    <2> QED
      BY <1>7, <2>1, CompleteResetFields DEF ChallengeKept
  <1>8. ASSUME NEW c \in Clients, Login(c) \/ VerifyEmail(c) \/ SignVerified(c)
        PROVE ChallengeKept'
    <2>1. UNCHANGED <<row, known, startedAt, guesses, clock>>
      BY <1>8 DEF Login, VerifyEmail, SignVerified, history
    <2> QED
      BY <1>1, <2>1 DEF TypeOK, Times
  <1>9. ASSUME NEW m \in mails, SmtpEnds(m, "sent") \/ SmtpEnds(m, "failed") \/ LoseResult(m)
        PROVE ChallengeKept'
    <2>1. UNCHANGED <<row, known, startedAt, guesses, clock>>
      BY <1>9 DEF SmtpEnds, LoseResult, history
    <2> QED
      BY <1>1, <2>1 DEF TypeOK, Times
  <1>10. ASSUME NEW m \in mails, RecordResult(m) PROVE ChallengeKept'
    <2>1. UNCHANGED <<known, startedAt, guesses, clock>>
      BY <1>10 DEF RecordResult, history
    <2> QED
      BY <1>10, <2>1, RecordResultFields DEF ChallengeKept
  <1>11. ASSUME RefreshUnverified \/ Tick \/ UNCHANGED vars PROVE ChallengeKept'
    <2>1. UNCHANGED <<row, known, startedAt, guesses>> /\ clock' \in {clock, clock + 1}
      BY <1>11 DEF RefreshUnverified, Tick, vars, history
    <2> QED
      BY <1>1, <2>1 DEF TypeOK, Times
  <1> QED
    BY Steps, <1>2, <1>3, <1>4, <1>5, <1>6, <1>7, <1>8, <1>9, <1>10, <1>11

-----------------------------------------------------------------------------
(* Emails.                                                                 *)

LEMMA ResultsStep ==
    ASSUME TypeOK, WaitsInTime, ResultsHappened, [Next]_vars
    PROVE  ResultsHappened'
  <1>1. ASSUME smtp' = smtp, row'.sendId = row.sendId, row'.sendStatus = row.sendStatus,
               \A m \in mails' : m \in mails
        PROVE  ResultsHappened'
    BY <1>1 DEF ResultsHappened, StatusOfLatestEmail
  <1>2. ASSUME NEW c \in Clients, Quiet(c) PROVE ResultsHappened'
    <2>1. UNCHANGED <<row, mails, smtp>>
      BY <1>2 DEF Quiet, GoesOn, Others
    <2> QED
      BY <1>1, <2>1
  <1>3. ASSUME NEW c \in Clients, Accepting(c) PROVE ResultsHappened'
    <2>1. row'.sendStatus \in {"pending", "none"}
      BY <1>3, AskedFields DEF Accepting, Accepts
    <2>2. smtp' = smtp /\ \A m \in mails' : m \in mails \/ m.outcome = "none"
      BY <1>3 DEF Accepting, Accepts, Mail
    <2> QED
      BY <2>1, <2>2 DEF ResultsHappened, StatusOfLatestEmail
  <1>4. ASSUME NEW c \in Clients, WrongCode(c) PROVE ResultsHappened'
    <2>1. UNCHANGED <<row.sendId, row.sendStatus>>
      BY <1>4, WrongCodeFields
    <2>2. UNCHANGED <<mails, smtp>>
      BY <1>4 DEF WrongCode
    <2> QED
      BY <1>1, <2>1, <2>2
  <1>5. ASSUME NEW c \in Clients, AcceptCode(c) \/ CompleteReset(c) PROVE ResultsHappened'
    <2>1. UNCHANGED <<row.sendId, row.sendStatus>>
      BY <1>5, AcceptCodeFields, CompleteResetFields
    <2>2. UNCHANGED <<mails, smtp>>
      BY <1>5 DEF AcceptCode, CompleteReset, history
    <2> QED
      BY <1>1, <2>1, <2>2
  <1>6. ASSUME NEW c \in Clients,
               RepeatCode(c) \/ Login(c) \/ VerifyEmail(c) \/ SignVerified(c)
        PROVE  ResultsHappened'
    <2>1. UNCHANGED <<row, mails, smtp>>
      BY <1>6 DEF RepeatCode, Login, VerifyEmail, SignVerified, history
    <2> QED
      BY <1>1, <2>1
  <1>7. ASSUME NEW m \in mails, NEW outcome \in {"sent", "failed"}, SmtpEnds(m, outcome)
        PROVE  ResultsHappened'
    <2>1. /\ row' = row /\ smtp' = smtp \cup {Mail(m.id, outcome)}
          /\ \A n \in mails' : n \in mails \/ n = Mail(m.id, outcome)
      BY <1>7 DEF SmtpEnds
    <2> QED
      BY <2>1 DEF ResultsHappened, StatusOfLatestEmail
  <1>8. ASSUME NEW m \in mails, RecordResult(m) PROVE ResultsHappened'
    <2>1. smtp' = smtp /\ \A n \in mails' : n \in mails
      BY <1>8 DEF RecordResult, history
    <2>2. m = Mail(m.id, m.outcome)
      BY DEF TypeOK, Mail
    <2>3. m \in smtp
      BY <1>8 DEF RecordResult, ResultsHappened
    <2>4. StatusOfLatestEmail'
      BY <1>8, <2>1, <2>2, <2>3, RecordResultFields DEF ResultsHappened, StatusOfLatestEmail
    <2> QED
      BY <2>1, <2>4 DEF ResultsHappened
  <1>9. ASSUME NEW m \in mails, LoseResult(m) PROVE ResultsHappened'
    <2>1. UNCHANGED <<row, smtp>> /\ \A n \in mails' : n \in mails
      BY <1>9 DEF LoseResult, history
    <2> QED
      BY <1>1, <2>1
  <1>10. ASSUME RefreshUnverified \/ Tick \/ UNCHANGED vars PROVE ResultsHappened'
    <2>1. UNCHANGED <<row, mails, smtp>>
      BY <1>10 DEF RefreshUnverified, Tick, vars, history
    <2> QED
      BY <1>1, <2>1
  <1> QED
    BY Steps, <1>2, <1>3, <1>4, <1>5, <1>6, <1>7, <1>8, <1>9, <1>10

-----------------------------------------------------------------------------
(* The hourly limits and the cooldown.                                     *)

\* The window that an event is counted in is the current one, or starts with it.
Rolls(start, count, next, nth) ==
    \/ next = start /\ nth = count + 1
    \/ start + Window <= next /\ nth = 1

\* One more event in time and below the limit.
LEMMA EventAdded ==
    ASSUME NEW events \in SUBSET Event, NEW start \in Nat, NEW count \in Nat, NEW max \in Nat,
           NEW next \in Nat, NEW nth \in Nat, NEW at \in Nat,
           InWindows(events, start, count, max), Rolls(start, count, next, nth),
           nth <= max, next <= at, at < next + Window + MaxWait
    PROVE  InWindows(events \cup {Counted(at, next, nth)}, next, nth, max)
  <1> DEFINE new == Counted(at, next, nth)
  <1>1. new.at = at /\ new.window = next /\ new.nth = nth
    BY DEF Counted
  <1>2. \A e \in events : e.at \in Nat /\ e.window \in Nat /\ e.nth \in Nat
    BY DEF Event, Times
  <1>3. IsFiniteSet(events)
    BY DEF InWindows
  <1>4. IsFiniteSet(events \cup {new})
    BY <1>3, FS_AddElement
  <1> HIDE DEF new
  <1>5. \A e \in events : \/ e.window = next /\ e.nth < nth
                          \/ e.window + Window <= next
    BY <1>2, TimeAssumption DEF InWindows, Rolls
  <1>6. \A e \in events \cup {new} :
          /\ e.window <= e.at /\ e.at < e.window + Window + MaxWait
          /\ e.nth <= max
          /\ (e.window = next /\ e.nth <= nth) \/ e.window + Window <= next
    BY <1>1, <1>2, <1>5 DEF InWindows
  <1>7. \A e, f \in events \cup {new} :
          /\ e.window = f.window /\ e.nth = f.nth => e = f
          /\ e.window = f.window \/ e.window + Window <= f.window
                                 \/ f.window + Window <= e.window
    BY <1>1, <1>2, <1>5, TimeAssumption DEF InWindows
  <1> QED
    BY <1>4, <1>6, <1>7 DEF InWindows, new

\* Events of the other kind stay when the window rolls, and its count with it
\* or without it.
LEMMA EventsStay ==
    ASSUME NEW events \in SUBSET Event, NEW start \in Nat, NEW count \in Nat, NEW max \in Nat,
           NEW next \in Nat, NEW more \in Nat, InWindows(events, start, count, max),
           \/ next = start /\ count <= more
           \/ start + Window <= next
    PROVE  InWindows(events, next, more, max)
  <1>1. \A e \in events : e.at \in Nat /\ e.window \in Nat /\ e.nth \in Nat
    BY DEF Event, Times
  <1>2. \A e \in events : \/ e.window = next /\ e.nth <= more
                          \/ e.window + Window <= next
    BY <1>1, TimeAssumption DEF InWindows
  <1> QED
    BY <1>2 DEF InWindows

LEMMA NothingCounted ==
    ASSUME NEW start, NEW count, NEW max
    PROVE  InWindows({}, start, count, max)
  BY FS_EmptySet DEF InWindows

\* A transaction's event is in time for the window that it read.
LEMMA InTime ==
    ASSUME TypeOK, WaitsInTime, NEW c \in Clients, tx[c].pc \in {"lock", "insert"},
           row.winStart <= clock
    PROVE  LET win == CurrentWindow(row, tx[c].now) IN
           /\ win.start <= clock /\ clock < win.start + Window + MaxWait
           /\ Rolls(row.winStart, row.winAsked, win.start, win.asked + 1)
           /\ Rolls(row.winStart, row.winWrong, win.start, win.wrong + 1)
  <1> DEFINE now == tx[c].now
             win == CurrentWindow(row, now)
  <1>1. now \in Nat /\ clock \in Nat /\ now <= clock /\ clock <= now + MaxWait
    BY DEF TypeOK, WaitsInTime, Times
  <1>2. row \in Challenge /\ row.winStart \in Nat
    BY DEF TypeOK, Challenge
  <1>3. /\ win.start \in Nat
        /\ \/ /\ win.start = row.winStart /\ now < win.start + Window
              /\ win.asked = row.winAsked /\ win.wrong = row.winWrong
           \/ /\ win.start = now /\ row.winStart + Window <= now
              /\ win.asked = 0 /\ win.wrong = 0
    BY <1>1, <1>2, WindowKnown
  <1> HIDE DEF win
  <1>4. win.start <= clock /\ clock < win.start + Window + MaxWait
    BY <1>1, <1>2, <1>3, TimeAssumption
  <1>5. /\ Rolls(row.winStart, row.winAsked, win.start, win.asked + 1)
        /\ Rolls(row.winStart, row.winWrong, win.start, win.wrong + 1)
    BY <1>3 DEF Rolls
  <1> QED
    BY <1>4, <1>5 DEF win

LEMMA EventsAccepted ==
    ASSUME TypeOK, WaitsInTime, EventsCounted, NEW c \in Clients, Accepting(c)
    PROVE  EventsCounted'
  <1> DEFINE now == tx[c].now
             win == CurrentWindow(row, now)
             event == Counted(clock, row'.winStart, row'.winAsked)
  <1>1. /\ now \in Nat /\ clock \in Nat /\ now <= clock /\ clock <= now + MaxWait
        /\ tx[c].pc \in {"lock", "insert"}
    BY DEF TypeOK, WaitsInTime, Times, Accepting
  <1>2. /\ row \in Challenge /\ row.winStart \in Nat /\ row.winAsked \in Nat
        /\ row.winWrong \in Nat /\ row.last \in Nat /\ row.sendId \in Nat
        /\ asked \in SUBSET Event /\ wrong \in SUBSET Event
    BY DEF TypeOK, Challenge
  <1>3. /\ row' = Asked(row, now) /\ clock' = clock
        /\ asked' = asked \cup {event} /\ wrong' = wrong
    BY DEF Accepting, Accepts
  <1>4. row'.sendId = row.sendId + 1 /\ row'.last = now
    BY <1>3, AskedFields
  <1>5. event.at = clock
    BY DEF Counted
  <1>6. CASE Exists
    <2>1. row'.winStart = win.start /\ row'.winAsked = win.asked + 1 /\ row'.winWrong = win.wrong
      BY <1>1, <1>2, <1>3, <1>6, AskedWindow DEF Exists
    <2>2. /\ row.last + Cooldown <= now /\ win.asked < MaxAsked
      BY <1>1, <1>2, <1>6, WindowKnown, TimeAssumption, LimitAssumption
         DEF Accepting, RequestRefused, Exists
    <2>3. /\ win.start \in Nat /\ win.asked \in Nat /\ win.wrong \in Nat
          /\ \/ win.start = row.winStart /\ win.wrong = row.winWrong
             \/ row.winStart + Window <= win.start
      BY <1>1, <1>2, WindowKnown
    <2>4. /\ win.start <= clock /\ clock < win.start + Window + MaxWait
          /\ Rolls(row.winStart, row.winAsked, win.start, win.asked + 1)
      BY <1>1, InTime DEF EventsCounted
    <2> HIDE DEF win
    <2>5. InWindows(asked', row'.winStart, row'.winAsked, MaxAsked)
      <3>1. InWindows(asked, row.winStart, row.winAsked, MaxAsked)
        BY DEF EventsCounted
      <3>2. win.asked + 1 \in Nat /\ win.asked + 1 <= MaxAsked /\ MaxAsked \in Nat
        BY <2>2, <2>3, LimitAssumption
      <3>3. InWindows(asked \cup {Counted(clock, win.start, win.asked + 1)},
                      win.start, win.asked + 1, MaxAsked)
        BY <1>1, <1>2, <2>3, <2>4, <3>1, <3>2, EventAdded
      <3> QED
        BY <1>3, <2>1, <3>3
    <2>6. InWindows(wrong', row'.winStart, row'.winWrong, MaxWrong)
      <3>1. InWindows(wrong, row.winStart, row.winWrong, MaxWrong) /\ MaxWrong \in Nat
        BY LimitAssumption DEF EventsCounted
      <3>2. InWindows(wrong, win.start, win.wrong, MaxWrong)
        BY <1>2, <2>3, <3>1, EventsStay
      <3> QED
        BY <1>3, <2>1, <3>2
    <2>7. Spread(asked', row'.last)
      <3>1. \A e \in asked : e.at \in Nat /\ e.at <= row.last + MaxWait
        BY DEF TypeOK, Event, Times, EventsCounted, Spread
      <3>2. \A e \in asked : /\ e.at <= now + MaxWait
                             /\ e.at + Cooldown <= clock + MaxWait
        BY <1>1, <1>2, <2>2, <3>1, TimeAssumption
      <3> HIDE DEF event
      <3> QED
        BY <1>1, <1>3, <1>4, <1>5, <3>2 DEF EventsCounted, Spread
    <2>8. row'.winStart <= clock' /\ Exists'
      BY <1>2, <1>3, <1>4, <2>1, <2>4 DEF Exists
    <2> QED
      BY <2>5, <2>6, <2>7, <2>8 DEF EventsCounted
  <1>7. CASE ~Exists
    <2>1. asked = {} /\ wrong = {} /\ asked' = {event} /\ wrong' = {}
      BY <1>3, <1>7 DEF EventsCounted
    <2>2. row'.winStart = now /\ row'.winAsked = 1 /\ row'.winWrong = 0
      BY <1>1, <1>2, <1>3, <1>7, AskedWindow DEF Exists
    <2>3. InWindows(asked', row'.winStart, row'.winAsked, MaxAsked)
      <3>1. InWindows({}, now, 0, MaxAsked) /\ Rolls(now, 0, now, 1)
        BY NothingCounted DEF Rolls
      <3>2. MaxAsked \in Nat /\ 1 <= MaxAsked /\ clock < now + Window + MaxWait
        BY <1>1, LimitAssumption, TimeAssumption
      <3>3. {} \in SUBSET Event
        OBVIOUS
      <3>4. InWindows({} \cup {Counted(clock, now, 1)}, now, 1, MaxAsked)
        BY <1>1, <3>1, <3>2, <3>3, EventAdded
      <3> QED
        BY <2>1, <2>2, <3>4
    <2>4. InWindows(wrong', row'.winStart, row'.winWrong, MaxWrong)
      BY <2>1, NothingCounted
    <2>5. Spread(asked', row'.last)
      <3> HIDE DEF event
      <3> QED
        BY <1>1, <1>4, <1>5, <2>1 DEF Spread
    <2>6. row'.winStart <= clock' /\ Exists'
      BY <1>1, <1>2, <1>3, <1>4, <2>2 DEF Exists
    <2> QED
      BY <2>3, <2>4, <2>5, <2>6 DEF EventsCounted
  <1> QED
    BY <1>6, <1>7

LEMMA EventsWrongCode ==
    ASSUME TypeOK, WaitsInTime, EventsCounted, NEW c \in Clients, WrongCode(c)
    PROVE  EventsCounted'
  <1> DEFINE now == tx[c].now
             win == CurrentWindow(row, now)
  <1>1. /\ now \in Nat /\ clock \in Nat /\ tx[c].pc = "lock" /\ Exists /\ win.wrong < MaxWrong
        /\ win.wrong \in Nat /\ win.start \in Nat
    <2>1. now \in Nat /\ clock \in Nat /\ tx[c].pc = "lock" /\ row \in Challenge
      BY DEF TypeOK, WaitsInTime, Times, WrongCode, At
    <2>2. Exists /\ ~(win.wrong >= MaxWrong)
      BY DEF WrongCode, Usable, VerifyRefused
    <2> QED
      BY <2>1, <2>2, WindowKnown, LimitAssumption
  <1>2. /\ row.winStart \in Nat /\ row.winAsked \in Nat /\ row.winWrong \in Nat
        /\ asked \in SUBSET Event /\ wrong \in SUBSET Event
        /\ MaxAsked \in Nat /\ MaxWrong \in Nat
    BY LimitAssumption DEF TypeOK, Challenge
  <1>3. /\ clock' = clock /\ asked' = asked
        /\ wrong' = wrong \cup {Counted(clock, win.start, win.wrong + 1)}
    BY DEF WrongCode
  <1>4. /\ row'.winStart = win.start /\ row'.winWrong = win.wrong + 1
        /\ row'.winAsked = row.winAsked /\ row'.last = row.last /\ row'.sendId = row.sendId
    BY WrongCodeFields
  <1>5. /\ win.start <= clock /\ clock < win.start + Window + MaxWait
        /\ Rolls(row.winStart, row.winWrong, win.start, win.wrong + 1)
    BY <1>1, InTime DEF EventsCounted
  <1>6. win.start = row.winStart \/ row.winStart + Window <= win.start
    BY <1>5 DEF Rolls
  <1> HIDE DEF win
  <1>7. InWindows(wrong', row'.winStart, row'.winWrong, MaxWrong)
    <2>1. InWindows(wrong, row.winStart, row.winWrong, MaxWrong)
      BY DEF EventsCounted
    <2>2. win.wrong + 1 \in Nat /\ win.wrong + 1 <= MaxWrong
      BY <1>1, <1>2
    <2>3. InWindows(wrong \cup {Counted(clock, win.start, win.wrong + 1)},
                    win.start, win.wrong + 1, MaxWrong)
      BY <1>1, <1>2, <1>5, <2>1, <2>2, EventAdded
    <2> QED
      BY <1>3, <1>4, <2>3
  <1>8. InWindows(asked', row'.winStart, row'.winAsked, MaxAsked)
    <2>1. InWindows(asked, row.winStart, row.winAsked, MaxAsked)
      BY DEF EventsCounted
    <2>2. row.winAsked <= row.winAsked
      BY <1>2
    <2>3. InWindows(asked, win.start, row.winAsked, MaxAsked)
      BY <1>1, <1>2, <1>6, <2>1, <2>2, EventsStay
    <2> QED
      BY <1>3, <1>4, <2>3
  <1>9. Spread(asked', row'.last)
    BY <1>3, <1>4 DEF EventsCounted
  <1> QED
    BY <1>1, <1>3, <1>4, <1>5, <1>7, <1>8, <1>9 DEF EventsCounted, Exists

LEMMA EventsStep ==
    ASSUME TypeOK, WaitsInTime, EventsCounted, [Next]_vars
    PROVE  EventsCounted'
  <1>1. ASSUME SameWindow, row'.sendId = row.sendId, clock' \in {clock, clock + 1}
        PROVE  EventsCounted'
    <2>1. row.winStart <= clock'
      BY <1>1 DEF EventsCounted, TypeOK, Challenge, Times
    <2> QED
      BY <1>1, <2>1 DEF EventsCounted, SameWindow, Exists
  <1>2. ASSUME NEW c \in Clients, Quiet(c) PROVE EventsCounted'
    <2>1. UNCHANGED <<row, asked, wrong, clock>>
      BY <1>2 DEF Quiet, GoesOn, Others
    <2> QED
      BY <1>1, <2>1 DEF SameWindow
  <1>3. ASSUME NEW c \in Clients, Accepting(c) PROVE EventsCounted'
    BY <1>3, EventsAccepted
  <1>4. ASSUME NEW c \in Clients, WrongCode(c) PROVE EventsCounted'
    BY <1>4, EventsWrongCode
  <1>5. ASSUME NEW c \in Clients, AcceptCode(c) \/ CompleteReset(c) PROVE EventsCounted'
    <2>1. clock' = clock
      BY <1>5 DEF AcceptCode, CompleteReset
    <2>2. SameWindow /\ row'.sendId = row.sendId
      BY <1>5, AcceptCodeFields, CompleteResetFields
    <2> QED
      BY <1>1, <2>1, <2>2
  <1>6. ASSUME NEW c \in Clients,
               RepeatCode(c) \/ Login(c) \/ VerifyEmail(c) \/ SignVerified(c)
        PROVE  EventsCounted'
    <2>1. UNCHANGED <<row, asked, wrong, clock>>
      BY <1>6 DEF RepeatCode, Login, VerifyEmail, SignVerified, history
    <2> QED
      BY <1>1, <2>1 DEF SameWindow
  <1>7. ASSUME NEW m \in mails, SmtpEnds(m, "sent") \/ SmtpEnds(m, "failed") \/ LoseResult(m)
        PROVE  EventsCounted'
    <2>1. UNCHANGED <<row, asked, wrong, clock>>
      BY <1>7 DEF SmtpEnds, LoseResult, history
    <2> QED
      BY <1>1, <2>1 DEF SameWindow
  <1>8. ASSUME NEW m \in mails, RecordResult(m) PROVE EventsCounted'
    <2>1. clock' = clock
      BY <1>8 DEF RecordResult
    <2> QED
      BY <1>1, <1>8, <2>1, RecordResultFields
  <1>9. ASSUME RefreshUnverified \/ Tick \/ UNCHANGED vars PROVE EventsCounted'
    <2>1. UNCHANGED <<row, asked, wrong>> /\ clock' \in {clock, clock + 1}
      BY <1>9 DEF RefreshUnverified, Tick, vars, history
    <2> QED
      BY <1>1, <2>1 DEF SameWindow
  <1> QED
    BY Steps, <1>2, <1>3, <1>4, <1>5, <1>6, <1>7, <1>8, <1>9

-----------------------------------------------------------------------------
(* The invariant holds.                                                    *)

LEMMA InitInv == Init => IInv
  <1> SUFFICES ASSUME Init PROVE IInv
    OBVIOUS
  <1>1. TypeOK
    BY TypeInit
  <1>2. \A c \in Clients : tx[c].op = "none" /\ tx[c].pc = "idle"
    BY DEF Init, Idle
  <1>3. WaitsInTime /\ SignedIn
    BY <1>2 DEF Init, WaitsInTime, SignedIn
  <1>4. ChallengeKept
    BY TimeAssumption DEF Init, ChallengeKept, NoRow
  <1>5. ResultsHappened
    BY DEF Init, ResultsHappened, StatusOfLatestEmail, NoRow
  <1>6. EventsCounted
    BY NothingCounted DEF Init, EventsCounted, NoRow, Spread
  <1> QED
    BY <1>1, <1>3, <1>4, <1>5, <1>6 DEF IInv

LEMMA NextInv == IInv /\ [Next]_vars => IInv'
  BY TypeStep, WaitsStep, SignedInStep, ChallengeStep, ResultsStep, EventsStep DEF IInv

LEMMA Invariance == Spec => []IInv
  BY InitInv, NextInv, PTL DEF Spec

\* The rows, the requests in progress and what clients hold stay of their types.
THEOREM TypeCorrect == Spec => []TypeOK
  <1>1. IInv => TypeOK
    BY DEF IInv
  <1> QED
    BY <1>1, Invariance, PTL

\* Whatever logins, confirmations, registrations and resets run side by side, a
\* session that is accepted was opened with the password that the account has
\* (docs/password-reset-contract.md:179-181).
THEOREM OldPasswordsOut == Spec => []SessionsKnowThePassword
  <1>1. IInv => SessionsKnowThePassword
    BY DEF IInv, SignedIn, Knows, SessionsKnowThePassword, Accepted
  <1> QED
    BY <1>1, Invariance, PTL

\* The outcome in the row is that of the latest email, whatever results arrive
\* late or never (password-reset-challenge.entity.ts:56).
THEOREM LatestEmailsStatus == Spec => []StatusOfLatestEmail
  <1>1. IInv => StatusOfLatestEmail
    BY DEF IInv, ResultsHappened
  <1> QED
    BY <1>1, Invariance, PTL

-----------------------------------------------------------------------------
(* Resets.                                                                 *)

LEMMA CanCompleteKnown ==
    ASSUME row \in Challenge, NEW token, NEW now
    PROVE  CanComplete(row, token, now) <=>
               /\ row.bound /\ row.token = token
               /\ ~row.completed /\ ~(row.attempts >= MaxCodeAttempts)
               /\ row.verified # 0 /\ row.tokenExpires > now
  BY DEF CanComplete, State, Challenge

LEMMA ResetStep ==
    ASSUME IInv, [Next]_vars, used' # used
    PROVE  clock < startedAt + CodeTTL /\ guesses < MaxCodeAttempts
  <1>1. PICK c \in Clients : CompleteReset(c)
    <2>1. ~UNCHANGED used
      OBVIOUS
    <2> QED
      BY <2>1, Steps
         DEF IInv, Quiet, GoesOn, Others, Accepting, Accepts, WrongCode, RepeatCode, AcceptCode,
             Login, VerifyEmail, SignVerified, SmtpEnds, RecordResult, LoseResult,
             RefreshUnverified, Tick, vars, history
  <1>2. ~(row.attempts >= MaxCodeAttempts) /\ row.tokenExpires > clock
    BY <1>1, CanCompleteKnown DEF CompleteReset, StillComplete, IInv, TypeOK
  <1>3. /\ row.tokenExpires <= startedAt + CodeTTL /\ guesses = row.attempts
        /\ row.tokenExpires \in Nat /\ row.attempts \in Nat /\ clock \in Nat /\ startedAt \in Nat
    BY TimeAssumption DEF IInv, ChallengeKept, TypeOK, Challenge, Times
  <1> QED
    BY <1>2, <1>3, LimitAssumption, TimeAssumption

\* The password changes only within its challenge's lifetime and guesses, for
\* every interleaving of requests, codes, retries and resets
\* (docs/password-reset-contract.md:62-70).
THEOREM ResetsInTime == Spec => ResetsWithinChallenge
  <1>1. IInv /\ [Next]_vars => [used' # used => clock < startedAt + CodeTTL
                                               /\ guesses < MaxCodeAttempts]_vars
    BY ResetStep
  <1> QED
    BY <1>1, Invariance, PTL DEF Spec, ResetsWithinChallenge

-----------------------------------------------------------------------------
(* Rates.                                                                  *)

\* In a stretch of the window's length there are events of two windows at most.
LEMMA TwoWindows ==
    ASSUME NEW events \in SUBSET Event, NEW start, NEW count, NEW max \in Nat,
           InWindows(events, start, count, max), NEW t \in Times
    PROVE  Within(events, t, t + Window - MaxWait) <= 2 * max
  <1> DEFINE part == {e \in events : t <= e.at /\ e.at <= t + Window - MaxWait}
  <1>1. IsFiniteSet(part) /\ Within(events, t, t + Window - MaxWait) = Cardinality(part)
    <2>1. IsFiniteSet(events)
      BY DEF InWindows
    <2> QED
      BY <2>1, FS_Subset DEF Within
  <1>2. \A e \in part : /\ e \in events
                        /\ e.at \in Nat /\ e.window \in Nat /\ e.nth \in 1..max
                        /\ t <= e.at /\ e.at <= t + Window - MaxWait
                        /\ e.window <= e.at /\ e.at < e.window + Window + MaxWait
    BY DEF Event, Times, InWindows
  <1>3. \A e, f \in part : /\ e.window = f.window /\ e.nth = f.nth => e = f
                           /\ e.window = f.window \/ e.window + Window <= f.window
                                                  \/ f.window + Window <= e.window
    BY DEF InWindows
  <1> HIDE DEF part
  <1>4. CASE part = {}
    <2>1. Cardinality(part) = 0
      BY <1>4, FS_EmptySet
    <2> QED
      BY <1>1, <2>1
  <1>5. CASE part # {}
    <2> DEFINE windows == {e.window : e \in part}
    <2>1. PICK first \in windows : \A w \in windows : first <= w
      <3>1. windows \in SUBSET Nat /\ windows # {}
        BY <1>2, <1>5
      <3> HIDE DEF windows
      <3> QED
        BY <3>1, NatMinimum
    <2>2. \A e \in part : first <= e.window
      BY <2>1
    <2>3. PICK g \in part : g.window = first
      BY <2>1
    <2>4. \A e, f \in part : e.window # first /\ f.window # first => e.window = f.window
      <3>1. first \in Nat /\ t \in Nat /\ t < first + Window + MaxWait
        BY <1>2, <2>3, TimeAssumption DEF Times
      <3>2. \A e \in part : e.window < first + Window + Window
        BY <1>2, <3>1, TimeAssumption
      <3>3. \A e \in part : e.window # first => first + Window <= e.window
        BY <1>2, <1>3, <2>2, <2>3, TimeAssumption
      <3> QED
        BY <1>2, <1>3, <3>1, <3>2, <3>3, TimeAssumption
    <2> DEFINE number == [e \in part |-> IF e.window = first THEN e.nth ELSE max + e.nth]
    <2>5. number \in Injection(part, 1 .. (2 * max))
      <3>1. number \in [part -> 1 .. (2 * max)]
        BY <1>2
      <3>2. \A e, f \in part : number[e] = number[f] => e = f
        BY <1>2, <1>3, <2>4
      <3> HIDE DEF number
      <3> QED
        BY <3>1, <3>2 DEF Injection, IsInjective
    <2>6. IsFiniteSet(1 .. (2 * max)) /\ Cardinality(1 .. (2 * max)) = 2 * max
      <3>1. 1 \in Int /\ 2 * max \in Int
        OBVIOUS
      <3>2. /\ IsFiniteSet(1 .. (2 * max))
            /\ Cardinality(1 .. (2 * max)) = IF 1 > 2 * max THEN 0 ELSE 2 * max - 1 + 1
        BY <3>1, FS_Interval
      <3> QED
        BY <3>2
    <2>7. Cardinality(part) <= Cardinality(1 .. (2 * max))
      <3> HIDE DEF number
      <3> QED
        BY <2>5, <2>6, FS_Injection
    <2> QED
      BY <1>1, <2>6, <2>7
  <1> QED
    BY <1>4, <1>5

LEMMA OneWithin ==
    ASSUME NEW events \in SUBSET Event, NEW last, IsFiniteSet(events), Spread(events, last),
           NEW t \in Times
    PROVE  Within(events, t, t + Cooldown - MaxWait - 1) <= 1
  <1> DEFINE part == {e \in events : t <= e.at /\ e.at <= t + Cooldown - MaxWait - 1}
  <1>1. IsFiniteSet(part) /\ Within(events, t, t + Cooldown - MaxWait - 1) = Cardinality(part)
    BY FS_Subset DEF Within
  <1>2. \A e, f \in part : e = f
    <2>1. \A e \in part : e \in events /\ e.at \in Nat
                          /\ t <= e.at /\ e.at <= t + Cooldown - MaxWait - 1
      BY DEF Event, Times
    <2>2. t \in Nat
      BY DEF Times
    <2> QED
      BY <2>1, <2>2, TimeAssumption DEF Spread
  <1> HIDE DEF part
  <1>3. part = {} \/ \E e : part = {e}
    BY <1>2
  <1> QED
    BY <1>1, <1>3, FS_EmptySet, FS_Singleton

\* Neither new challenges nor waits for locks buy more emails, requests or
\* guesses than the contract allows (docs/password-reset-contract.md:54, 72-74).
THEOREM LimitsHold == Spec => []RatesHold
  <1>1. IInv => RatesHold
    <2> SUFFICES ASSUME IInv PROVE RatesHold
      OBVIOUS
    <2>1. asked \in SUBSET Event /\ wrong \in SUBSET Event /\ MaxAsked \in Nat /\ MaxWrong \in Nat
      BY LimitAssumption DEF IInv, TypeOK
    <2>2. /\ InWindows(asked, row.winStart, row.winAsked, MaxAsked)
          /\ InWindows(wrong, row.winStart, row.winWrong, MaxWrong)
          /\ Spread(asked, row.last) /\ IsFiniteSet(asked)
      BY DEF IInv, EventsCounted, InWindows
    <2>3. HourlyLimits
      BY <2>1, <2>2, TwoWindows DEF HourlyLimits
    <2>4. OneEmailPerCooldown
      BY <2>1, <2>2, OneWithin DEF OneEmailPerCooldown
    <2> QED
      BY <2>3, <2>4 DEF RatesHold
  <1> QED
    BY <1>1, Invariance, PTL

-----------------------------------------------------------------------------
(* The refinement of AccountRecovery.                                      *)

Grant == IF Exists /\ CanComplete(row, row.token, clock) THEN row.token ELSE NoToken
Live == {s.pw : s \in Accepted}

\* An authorization that stands is the verified row's own token.
Granted == Grant # NoToken
Stands ==
    /\ Exists /\ row.bound
    /\ ~row.completed /\ ~(row.attempts >= MaxCodeAttempts)
    /\ row.verified # 0 /\ row.tokenExpires > clock

LEMMA GrantKnown == IInv => (Granted <=> Stands)
  <1> SUFFICES ASSUME IInv PROVE Granted <=> Stands
    OBVIOUS
  <1>1. CanComplete(row, row.token, clock) =>
            row.token = Derived(row.code, row.verified) /\ row.verified # 0
    <2>1. row.attempts \in Nat /\ row \in Challenge
      BY DEF IInv, TypeOK, Challenge
    <2> QED
      BY <2>1, CanCompleteKnown, LimitAssumption DEF IInv, ChallengeKept
  <1>2. CanComplete(row, row.token, clock) => row.token # NoToken
    BY <1>1 DEF Derived, NoToken
  <1>3. row \in Challenge
    BY DEF IInv, TypeOK
  <1> QED
    BY <1>2, <1>3, CanCompleteKnown DEF Grant, Granted, Stands

\* Nothing is granted: an authorization stays, or lapses.
LEMMA QuietStep ==
    ASSUME UNCHANGED <<user.pw, known, Live>>, Grant' \in {Grant, NoToken}
    PROVE  [Recovery!Next]_(Recovery!vars)
  <1>1. CASE Grant' = Grant
    BY <1>1 DEF Recovery!vars, Grant, Live
  <1>2. CASE Grant' = NoToken
    <2>1. Recovery!Lapse
      BY <1>2 DEF Recovery!Lapse, Grant, Live
    <2> QED
      BY <2>1 DEF Recovery!Next
  <1> QED
    BY <1>1, <1>2

SameGrant ==
    UNCHANGED <<row.bound, row.token, row.completed, row.attempts, row.verified,
                row.tokenExpires, row.sendId>>

LEMMA GrantStays ==
    ASSUME IInv, IInv', SameGrant, clock' \in {clock, clock + 1}
    PROVE  Grant' \in {Grant, NoToken}
  <1>1. Granted' => Granted
    <2>1. clock \in Nat /\ row.tokenExpires \in Nat
      BY DEF IInv, TypeOK, Challenge, Times
    <2>2. (Granted <=> Stands) /\ (Granted' <=> Stands')
      BY GrantKnown, PTL
    <2>3. Stands' => Stands
      BY <2>1 DEF Stands, SameGrant, Exists
    <2> QED
      BY <2>2, <2>3
  <1>2. Grant \in {row.token, NoToken} /\ Grant' \in {row'.token, NoToken}
    BY DEF Grant
  <1> QED
    BY <1>1, <1>2 DEF SameGrant, Granted

\* A request, a wrong code too many, time: what is not verified stands no more.
LEMMA RefusedStep ==
    ASSUME IInv, IInv', ~Stands', UNCHANGED <<user, sessions, known>>
    PROVE  [Recovery!Next]_(Recovery!vars)
  <1>1. ~Granted'
    BY GrantKnown, PTL
  <1>2. Live' = Live
    BY DEF Live, Accepted
  <1> QED
    BY <1>1, <1>2, QuietStep DEF Granted

LEMMA SameStep ==
    ASSUME IInv, IInv', SameGrant, clock' \in {clock, clock + 1},
           UNCHANGED <<user.pw, user.ver, sessions, known>>
    PROVE  [Recovery!Next]_(Recovery!vars)
  <1>1. Live' = Live
    BY DEF Live, Accepted
  <1> QED
    BY <1>1, GrantStays, QuietStep

LEMMA AcceptsStep ==
    ASSUME IInv, IInv', NEW c \in Clients, Accepting(c)
    PROVE  [Recovery!Next]_(Recovery!vars)
  <1>1. row'.verified = 0
    <2>1. row' = Asked(row, tx[c].now)
      BY DEF Accepting, Accepts
    <2> QED
      BY <2>1, AskedFields, StateKnown DEF Rotates
  <1>2. ~Stands'
    BY <1>1 DEF Stands
  <1>3. UNCHANGED <<user, sessions, known>>
    BY DEF Accepting, Accepts
  <1> QED
    BY <1>2, <1>3, RefusedStep

LEMMA WrongCodeStep ==
    ASSUME IInv, IInv', NEW c \in Clients, WrongCode(c)
    PROVE  [Recovery!Next]_(Recovery!vars)
  <1> DEFINE exhausted == row.attempts + 1 >= MaxCodeAttempts
  <1>1. TypeOK /\ WaitsInTime
    BY DEF IInv
  <1>2. UNCHANGED <<user, sessions, known, clock>>
    BY DEF WrongCode
  <1>3. CASE row'.tokenExpires = 0 \/ row'.attempts >= MaxCodeAttempts
    <2>1. ~Stands'
      BY <1>1, <1>2, <1>3 DEF Stands, TypeOK, Times
    <2> QED
      BY <1>2, <2>1, RefusedStep
  <1>4. CASE ~(row'.tokenExpires = 0 \/ row'.attempts >= MaxCodeAttempts)
    <2>1. /\ row'.token = row.token /\ row'.tokenExpires = row.tokenExpires
          /\ row'.attempts = row.attempts + 1
          /\ UNCHANGED <<row.verified, row.completed, row.sendId, row.bound>>
      BY <1>1, <1>4, WrongCodeFields
    <2>2. row.attempts \in Nat
      BY <1>1 DEF TypeOK, Challenge
    <2>3. Stands' <=> Stands
      BY <1>2, <1>4, <2>1, <2>2, LimitAssumption DEF Stands, Exists
    <2>4. Granted' <=> Granted
      BY <2>3, GrantKnown, PTL
    <2>5. Grant \in {row.token, NoToken} /\ Grant' \in {row'.token, NoToken}
      BY DEF Grant
    <2>6. Grant' = Grant
      BY <2>1, <2>4, <2>5 DEF Granted
    <2>7. Live' = Live
      BY <1>2 DEF Live, Accepted
    <2> QED
      BY <1>2, <2>6, <2>7, QuietStep
  <1> QED
    BY <1>3, <1>4

LEMMA AcceptCodeStep ==
    ASSUME IInv, IInv', NEW c \in Clients, AcceptCode(c)
    PROVE  [Recovery!Next]_(Recovery!vars)
  <1> DEFINE token == Derived(row.code, tx[c].now)
  <1>1. row.verified = 0 /\ row.code # 0 /\ row.code = row.sendId
    BY StateKnown DEF AcceptCode, Matches, IInv, ChallengeKept
  <1>2. Grant = NoToken
    BY <1>1, GrantKnown DEF Granted, Stands
  <1>3. known' = known \cup {token} /\ UNCHANGED <<user, sessions>>
    BY DEF AcceptCode
  <1>4. token # NoToken /\ token \notin known
    <2>1. token.code = row.code
      BY DEF Derived
    <2>2. NoToken.code = 0
      BY DEF NoToken
    <2>3. \A t \in known : t.code # row.sendId
      BY <1>1 DEF IInv, ChallengeKept
    <2> QED
      BY <1>1, <2>1, <2>2, <2>3
  <1>5. Grant' \in {token, NoToken}
    <2>1. row'.token = token
      BY AcceptCodeFields DEF IInv
    <2> QED
      BY <2>1 DEF Grant
  <1>6. Live' = Live
    BY <1>3 DEF Live, Accepted
  <1> HIDE DEF token
  <1>7. Recovery!Authorize
    BY <1>2, <1>3, <1>4, <1>5, <1>6 DEF Recovery!Authorize, Grant, Live
  <1> QED
    BY <1>7 DEF Recovery!Next

LEMMA CompleteResetStep ==
    ASSUME IInv, IInv', NEW c \in Clients, CompleteReset(c)
    PROVE  [Recovery!Next]_(Recovery!vars)
  <1>1. Grant # NoToken
    <2>1. row.bound /\ ~row.completed /\ ~(row.attempts >= MaxCodeAttempts)
          /\ row.verified # 0 /\ row.tokenExpires > clock
      BY CanCompleteKnown DEF CompleteReset, StillComplete, IInv, TypeOK
    <2>2. Exists
      <3>1. row.code # 0 /\ row.code \in {0, row.sendId}
        BY <2>1, LimitAssumption DEF IInv, ChallengeKept, TypeOK, Challenge
      <3> QED
        BY <3>1 DEF Exists
    <2>3. Stands
      BY <2>1, <2>2 DEF Stands
    <2> QED
      BY <2>3, GrantKnown DEF Granted
  <1>2. Grant' = NoToken
    <2>1. ~Stands'
      BY CompleteResetFields DEF Stands, IInv
    <2>2. ~Granted'
      BY <2>1, GrantKnown, PTL
    <2> QED
      BY <2>2 DEF Granted
  <1>3. user'.pw = user.pw + 1 /\ user'.ver = user.ver + 1
        /\ UNCHANGED <<sessions, known>> /\ user.ver \in Nat
    BY DEF CompleteReset, NextVersion, IInv, TypeOK, User
  <1>4. Live' = {}
    <2>1. \A s \in sessions : s.ver \in Nat /\ s.ver <= user.ver
      BY DEF IInv, SignedIn, Knows, TypeOK
    <2>2. \A s \in sessions : s.ver # user'.ver
      BY <1>3, <2>1
    <2> QED
      BY <1>3, <2>2 DEF Live, Accepted
  <1>5. Recovery!Reset
    BY <1>1, <1>2, <1>3, <1>4 DEF Recovery!Reset, Grant, Live
  <1> QED
    BY <1>5 DEF Recovery!Next

\* One more session of the account as it is, or of an older version.
LEMMA SessionStep ==
    ASSUME IInv, IInv', UNCHANGED <<user, row, known, clock>>,
           NEW s, sessions' = sessions \cup {s}, s.ver = user.ver => s.pw = user.pw
    PROVE  [Recovery!Next]_(Recovery!vars)
  <1>1. Grant' = Grant
    BY DEF Grant, Exists
  <1>2. CASE s.ver = user.ver
    <2>1. Live' = Live \cup {user.pw}
      BY <1>2 DEF Live, Accepted
    <2>2. Recovery!SignIn
      BY <1>1, <2>1 DEF Recovery!SignIn, Grant, Live
    <2> QED
      BY <2>2 DEF Recovery!Next
  <1>3. CASE s.ver # user.ver
    <2>1. Live' = Live
      BY <1>3 DEF Live, Accepted
    <2> QED
      BY <1>1, <2>1, QuietStep
  <1> QED
    BY <1>2, <1>3

LEMMA RegisterAgainStep ==
    ASSUME IInv, RefreshUnverified
    PROVE  [Recovery!Next]_(Recovery!vars)
  <1>1. sessions = {} /\ sessions' = {}
    BY DEF IInv, SignedIn, Knows, RefreshUnverified
  <1>2. Live = {} /\ Live' = {}
    BY <1>1 DEF Live, Accepted
  <1>3. Grant' = Grant /\ known' = known /\ user'.pw = user.pw + 1
    BY DEF Grant, Exists, RefreshUnverified
  <1>4. Recovery!RegisterAgain
    BY <1>2, <1>3 DEF Recovery!RegisterAgain, Grant, Live
  <1> QED
    BY <1>4 DEF Recovery!Next

LEMMA InitRecovery == Init => Recovery!Init
  <1> SUFFICES ASSUME Init PROVE Recovery!Init
    OBVIOUS
  <1>1. ~Exists /\ Accepted = {}
    BY DEF Init, NoRow, Exists, Accepted
  <1> QED
    BY <1>1 DEF Init, Recovery!Init

LEMMA NextRecovery == ASSUME IInv, IInv', [Next]_vars PROVE [Recovery!Next]_(Recovery!vars)
  <1>1. TypeOK
    BY DEF IInv
  <1>2. ASSUME UNCHANGED <<user, row, known, sessions>>, clock' \in {clock, clock + 1}
        PROVE  [Recovery!Next]_(Recovery!vars)
    BY <1>2, SameStep DEF SameGrant
  <1>3. ASSUME NEW c \in Clients, Quiet(c) PROVE [Recovery!Next]_(Recovery!vars)
    BY <1>2, <1>3 DEF Quiet, GoesOn, Others
  <1>4. ASSUME NEW c \in Clients, Accepting(c) \/ WrongCode(c) \/ AcceptCode(c) \/ CompleteReset(c)
        PROVE  [Recovery!Next]_(Recovery!vars)
    BY <1>4, AcceptsStep, WrongCodeStep, AcceptCodeStep, CompleteResetStep
  <1>5. ASSUME NEW c \in Clients, RepeatCode(c) PROVE [Recovery!Next]_(Recovery!vars)
    <2>1. row.verified # 0 /\ row.code # 0
      BY <1>5, StateKnown DEF RepeatCode, Matches
    <2>2. known' = known
      BY <1>5, <2>1 DEF RepeatCode, IInv, ChallengeKept
    <2> QED
      BY <1>2, <1>5, <2>2 DEF RepeatCode
  <1>6. ASSUME NEW c \in Clients, Login(c) PROVE [Recovery!Next]_(Recovery!vars)
    <2>1. UNCHANGED <<user, row, known, clock>>
      BY <1>6 DEF Login
    <2>2. CASE StillSame(tx[c])
      <3>1. sessions' = sessions \cup {Session(tx[c], user.ver)}
        BY <1>6, <2>2 DEF Login
      <3>2. Session(tx[c], user.ver).pw = user.pw
        BY <2>2 DEF Session, StillSame
      <3> QED
        BY <2>1, <3>1, <3>2, SessionStep
    <2>3. CASE ~StillSame(tx[c])
      BY <1>2, <1>6, <2>1, <2>3 DEF Login
    <2> QED
      BY <2>2, <2>3
  <1>7. ASSUME NEW c \in Clients, SignVerified(c) PROVE [Recovery!Next]_(Recovery!vars)
    <2>1. /\ UNCHANGED <<user, row, known, clock>>
          /\ sessions' = sessions \cup {Session(tx[c], tx[c].ver)}
      BY <1>7 DEF SignVerified
    <2>2. Knows(tx[c].pw, tx[c].ver)
      BY <1>7 DEF SignVerified, At, IInv, SignedIn
    <2>3. LET s == Session(tx[c], tx[c].ver) IN s.ver = user.ver => s.pw = user.pw
      BY <2>2 DEF Session, Knows
    <2> QED
      BY <2>1, <2>3, SessionStep
  <1>8. ASSUME NEW c \in Clients, VerifyEmail(c) PROVE [Recovery!Next]_(Recovery!vars)
    <2>1. UNCHANGED <<user.pw, user.ver, row, known, sessions, clock>>
      BY <1>8 DEF VerifyEmail
    <2> QED
      BY <2>1, SameStep DEF SameGrant
  <1>9. ASSUME NEW m \in mails, SmtpEnds(m, "sent") \/ SmtpEnds(m, "failed") \/ LoseResult(m)
        PROVE  [Recovery!Next]_(Recovery!vars)
    BY <1>2, <1>9 DEF SmtpEnds, LoseResult
  <1>10. ASSUME NEW m \in mails, RecordResult(m) PROVE [Recovery!Next]_(Recovery!vars)
    <2>1. SameGrant
      BY <1>1, <1>10, RecordResultFields DEF SameGrant
    <2>2. UNCHANGED <<user, known, sessions, clock>>
      BY <1>10 DEF RecordResult
    <2> QED
      BY <2>1, <2>2, SameStep
  <1>11. ASSUME RefreshUnverified PROVE [Recovery!Next]_(Recovery!vars)
    BY <1>11, RegisterAgainStep
  <1>12. ASSUME Tick \/ UNCHANGED vars PROVE [Recovery!Next]_(Recovery!vars)
    BY <1>2, <1>12 DEF Tick, vars
  <1> QED
    BY Steps, <1>1, <1>3, <1>4, <1>5, <1>6, <1>7, <1>8, <1>9, <1>10, <1>11, <1>12

\* Whatever runs side by side: at most one authorization stands, a new request
\* takes it away, it changes the password once, and that change ends every
\* session (docs/password-reset-contract.md, Flow and Sessions).
THEOREM ImplementsRecovery == Spec => KeepsRecovery
  <1>1. Spec => Recovery!Spec
    BY InitRecovery, NextRecovery, Invariance, PTL DEF Spec, Recovery!Spec
  <1> QED
    BY <1>1 DEF KeepsRecovery
=============================================================================
