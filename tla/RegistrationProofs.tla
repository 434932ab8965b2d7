--------------------------- MODULE RegistrationProofs ---------------------------
(* Registration keeps its promises for every number of clients, codes and wrong *)
(* answers: the inductive invariant of Registration and what follows from it.   *)
EXTENDS Registration, Collections, TLAPS

-----------------------------------------------------------------------------
(* The inductive invariant.                                                *)

Sending == {"smtp", "sent", "failed"}
Checking == {"usedUp", "wrong", "right"}
Registering == {"insert", "lookup", "refresh", "refreshing"}

\* The lock on the user's row admits one transaction.
Exclusive == \A c, d \in Clients : tx[c].pc \in Locking /\ tx[d].pc \in Locking => c = d

AccountKept ==
    /\ account.state = "none" => account = NoAccount
    /\ account.state # "open" => account.starters = 0

\* What a request knows of the account stays true: its details are a
\* registration's, and under the lock the account is neither missing nor open.
KnowsAccount(me) ==
    /\ me.pc \in Registering => me.details \in Details
    /\ me.pc \in Registering \cup {"reserve"} => me.code = 0
    /\ me.pc \notin {"idle", "insert"} => account.state # "none"
    /\ me.pc \in Locking => account.state = "pending"

\* What it knows of its code: the row that it reserves, sends or checks.
KnowsCode(me) ==
    /\ me.pc \in Sending \cup Checking => me.code \in Codes /\ code[me.code] # NoCode
    /\ me.pc = "reserving" /\ me.code # 0 =>
           code[me.code] # NoCode /\ me.attempt = code[me.code].attempt + 1
    /\ me.pc = "reserving" /\ me.code = 0 =>
           ActiveCodes(me.now) = {} /\ me.now <= clock /\ me.attempt = 1
    /\ me.pc \in {"wrong", "right"} => code[me.code].attempts < MaxAttempts

\* What it knows of its email: it is not overtaken yet, or an earlier one.
KnowsEmail(me) ==
    /\ me.pc \in Sending => me.attempt <= code[me.code].attempt
    /\ me.pc = "sent" /\ me.attempt = code[me.code].attempt => me.code \in accepted

RequestsKept == \A c \in Clients : KnowsAccount(tx[c]) /\ KnowsCode(tx[c]) /\ KnowsEmail(tx[c])

\* Each email of a code has its own number.
EmailsDiffer ==
    \A c, d \in Clients :
        tx[c].pc \in Sending /\ tx[d].pc \in Sending /\ tx[c].code = tx[d].code
            => c = d \/ tx[c].attempt # tx[d].attempt

\* One code is usable at a time, even while it is checked.
OneUsable == \A n, m \in Usable : n = m

IInv == /\ TypeOK /\ Exclusive /\ AccountKept /\ RequestsKept
        /\ EmailsDiffer /\ OneUsable /\ StatusOfLatestSend

-----------------------------------------------------------------------------
(* How requests move.                                                      *)

States == Locking \cup Sending \cup Registering \cup {"idle", "reserve", "verify", "complete"}

LEMMA StatesKnown ==
    Request = [pc : States, details : Details \cup {NoDetails}, now : 0..MaxTime,
               code : {0} \cup Codes, attempt : Nat]
  <1>1. States = Locking \cup {"idle", "insert", "lookup", "refresh", "reserve", "smtp", "sent",
                               "failed", "verify", "complete"}
    BY DEF States, Locking, Sending, Registering
  <1> QED
    BY <1>1 DEF Request

LEMMA TxFields ==
    ASSUME TypeOK, NEW c \in Clients, NEW me, tx' = [tx EXCEPT ![c] = me]
    PROVE  \A d \in Clients : tx'[d] = IF d = c THEN me ELSE tx[d]
  BY DEF TypeOK

LEMMA TxTyped ==
    ASSUME TypeOK, NEW c \in Clients, NEW me \in Request, tx' = [tx EXCEPT ![c] = me]
    PROVE  tx' \in [Clients -> Request]
  BY DEF TypeOK

\* A request that goes on to pc, with all it knew.
Going(me, pc) == [me EXCEPT !.pc = pc]

LEMMA GoingFields ==
    ASSUME NEW me \in Request, NEW pc \in States
    PROVE  /\ Going(me, pc) \in Request /\ Going(me, pc).pc = pc
           /\ Going(me, pc).details = me.details /\ Going(me, pc).now = me.now
           /\ Going(me, pc).code = me.code /\ Going(me, pc).attempt = me.attempt
  BY StatesKnown DEF Going

LEMMA IdleKnown ==
    Idle \in Request /\ Idle.pc = "idle" /\ Idle.code = 0 /\ Idle.details = NoDetails
  BY StatesKnown, LimitsAssumption DEF Idle, States

\* What a request knows, of all that changes around it.
Informed(me) == KnowsAccount(me) /\ KnowsCode(me) /\ KnowsEmail(me)

LEMMA IdleInformed == Informed(Idle)
  BY IdleKnown DEF Informed, KnowsAccount, KnowsCode, KnowsEmail, Locking, Registering, Sending,
                   Checking

\* A step that moves a request on and changes no row.
Quiet(c) ==
    \E me \in Request :
        /\ tx' = [tx EXCEPT ![c] = me] /\ UNCHANGED <<account, code, clock, accepted>>
        /\ Informed(me)
        /\ me.pc \in Locking => UserFree(c)
        /\ me.pc \in Sending => /\ tx[c].pc \in Sending /\ me.pc # "smtp"
                                /\ me.code = tx[c].code /\ me.attempt = tx[c].attempt
        /\ me.pc \in Checking => me.code \in ActiveCodes(clock)

LEMMA QuietIdle ==
    ASSUME NEW c \in Clients, Ends(c), UNCHANGED <<account, code, clock, accepted>>
    PROVE  Quiet(c)
  BY IdleKnown, IdleInformed DEF Quiet, Ends, Locking, Sending, Checking

\* Where nothing is known of a code and no lock is held.
LEMMA QuietGoing ==
    ASSUME NEW c \in Clients, NEW me \in Request, tx' = [tx EXCEPT ![c] = me],
           UNCHANGED <<account, code, clock, accepted>>,
           me.pc \in {"insert", "lookup", "refresh", "verify", "complete"}, KnowsAccount(me)
    PROVE  Quiet(c)
  BY DEF Quiet, Informed, KnowsCode, KnowsEmail, Locking, Sending, Checking

LEMMA QuietRegister ==
    ASSUME TypeOK, AccountKept, RequestsKept, NEW c \in Clients,
           BeginRegister(c) \/ RegisterDuplicate(c) \/ LookupWinner(c)
    PROVE  Quiet(c)
  <1>1. CASE BeginRegister(c)
    <2>1. PICK d \in Details : tx' = [tx EXCEPT ![c] = AfterLookup(d)]
      BY <1>1 DEF BeginRegister
    <2>2. UNCHANGED <<account, code, clock, accepted>>
      BY <1>1 DEF BeginRegister
    <2>3. CASE Open
      BY <2>1, <2>2, <2>3, QuietIdle DEF AfterLookup, Ends
    <2>4. CASE ~Open
      <3> DEFINE me == AfterLookup(d)
      <3>1. /\ me.pc = (IF account = NoAccount THEN "insert" ELSE "refresh")
            /\ me.details = d /\ me.code = 0 /\ me \in Request
        <4>1. PICK pc \in {"insert", "refresh"} :
                 /\ pc = (IF account = NoAccount THEN "insert" ELSE "refresh")
                 /\ me = [Idle EXCEPT !.pc = pc, !.details = d]
          BY <2>4 DEF AfterLookup
        <4>2. pc \in States
          BY DEF States, Registering
        <4>3. me = [pc |-> pc, details |-> d, now |-> 0, code |-> 0, attempt |-> 0]
          BY <4>1 DEF Idle
        <4> HIDE DEF me
        <4>4. me \in Request
          BY <4>2, <4>3, StatesKnown, LimitsAssumption
        <4>5. me.pc = pc /\ me.details = d /\ me.code = 0
          BY <4>3
        <4> QED
          BY <4>1, <4>4, <4>5
      <3> HIDE DEF me
      <3>2. KnowsAccount(me)
        BY <3>1 DEF KnowsAccount, AccountKept, Registering, Locking
      <3> QED
        BY <2>1, <2>2, <3>1, <3>2, QuietGoing DEF me
    <2> QED
      BY <2>3, <2>4
  <1>2. CASE RegisterDuplicate(c)
    <2> DEFINE me == Going(tx[c], "lookup")
    <2>1. tx[c] \in Request /\ KnowsAccount(tx[c]) /\ tx[c].pc = "insert"
      BY <1>2 DEF TypeOK, RequestsKept, RegisterDuplicate, At
    <2>2. /\ me \in Request /\ me.pc = "lookup"
          /\ me.details = tx[c].details /\ me.code = tx[c].code
      BY <2>1, GoingFields DEF States, Registering
    <2>3. account.state # "none"
      BY <1>2 DEF RegisterDuplicate, AccountKept
    <2>4. tx' = [tx EXCEPT ![c] = me] /\ UNCHANGED <<account, code, clock, accepted>>
      BY <1>2 DEF RegisterDuplicate, GoesTo, Going
    <2> HIDE DEF me
    <2>5. KnowsAccount(me)
      BY <2>1, <2>2, <2>3 DEF KnowsAccount, Registering, Locking
    <2> QED
      BY <2>2, <2>4, <2>5, QuietGoing
  <1>3. CASE LookupWinner(c) /\ ~Open
    <2> DEFINE me == Going(tx[c], "refresh")
    <2>1. tx[c] \in Request /\ KnowsAccount(tx[c]) /\ tx[c].pc = "lookup"
      BY <1>3 DEF TypeOK, RequestsKept, LookupWinner, At
    <2>2. /\ me \in Request /\ me.pc = "refresh"
          /\ me.details = tx[c].details /\ me.code = tx[c].code
      BY <2>1, GoingFields DEF States, Registering
    <2>3. tx' = [tx EXCEPT ![c] = me] /\ UNCHANGED <<account, code, clock, accepted>>
      BY <1>3 DEF LookupWinner, GoesTo, Going
    <2> HIDE DEF me
    <2>4. KnowsAccount(me)
      BY <2>1, <2>2 DEF KnowsAccount, Registering, Locking
    <2> QED
      BY <2>2, <2>3, <2>4, QuietGoing
  <1>4. CASE LookupWinner(c) /\ Open
    BY <1>4, QuietIdle DEF LookupWinner
  <1> QED
    BY <1>1, <1>2, <1>3, <1>4

LEMMA QuietBegin ==
    ASSUME TypeOK, AccountKept, NEW c \in Clients, BeginVerify(c) \/ BeginComplete(c)
    PROVE  Quiet(c)
  <1>1. PICK pc \in {"verify", "complete"} :
           At(c, "idle") /\ account # NoAccount /\ GoesTo(c, pc)
           /\ UNCHANGED <<account, code, clock, accepted>>
    BY DEF BeginVerify, BeginComplete
  <1> DEFINE me == Going(tx[c], pc)
  <1>2. me \in Request /\ me.pc = pc
    BY GoingFields DEF TypeOK, States
  <1>3. tx' = [tx EXCEPT ![c] = me]
    BY <1>1 DEF GoesTo, Going
  <1>4. account.state # "none"
    BY <1>1 DEF AccountKept
  <1> HIDE DEF me
  <1>5. KnowsAccount(me)
    BY <1>2, <1>4 DEF KnowsAccount, Registering, Locking
  <1> QED
    BY <1>1, <1>2, <1>3, <1>5, QuietGoing

\* The lock on the account is taken, and nothing is known of a code.
LEMMA QuietLock ==
    ASSUME TypeOK, RequestsKept, NEW c \in Clients, LockRefresh(c) \/ LockComplete(c)
    PROVE  Quiet(c)
  <1>1. UNCHANGED <<account, code, clock, accepted>> /\ UserFree(c)
    BY DEF LockRefresh, LockComplete
  <1>2. CASE Open
    BY <1>1, <1>2, QuietIdle DEF LockRefresh, LockComplete, StillUnverified
  <1>3. CASE ~Open
    <2>1. PICK pc \in {"refreshing", "opening"} :
             /\ GoesTo(c, pc)
             /\ tx[c].pc = IF pc = "refreshing" THEN "refresh" ELSE "complete"
      BY <1>3 DEF LockRefresh, LockComplete, StillUnverified, At
    <2> DEFINE me == Going(tx[c], pc)
    <2>2. /\ me \in Request /\ me.pc = pc
          /\ me.details = tx[c].details /\ me.code = tx[c].code
      BY GoingFields DEF TypeOK, States, Locking
    <2>3. tx' = [tx EXCEPT ![c] = me]
      BY <2>1 DEF GoesTo, Going
    <2>4. account.state = "pending" /\ KnowsAccount(tx[c])
      BY <1>3, <2>1 DEF TypeOK, Account, Open, RequestsKept, KnowsAccount
    <2> HIDE DEF me
    <2>5. KnowsAccount(me)
      BY <2>1, <2>2, <2>4 DEF KnowsAccount, Registering, Locking
    <2>6. KnowsCode(me) /\ KnowsEmail(me)
      BY <2>2 DEF KnowsCode, KnowsEmail, Sending, Checking
    <2> QED
      BY <1>1, <2>2, <2>3, <2>5, <2>6 DEF Quiet, Informed, Sending, Checking
  <1> QED
    BY <1>2, <1>3

LEMMA ActiveKnown ==
    ASSUME TypeOK, NEW now, ActiveCodes(now) # {}
    PROVE  LET n == CHOOSE n \in ActiveCodes(now) : TRUE IN
           /\ n \in ActiveCodes(now) /\ n \in Codes /\ n # 0 /\ code[n] # NoCode
           /\ code[n] \in Code
  BY DEF TypeOK, ActiveCodes, Active, Codes

LEMMA QuietReserve ==
    ASSUME TypeOK, RequestsKept, NEW c \in Clients, LockReserve(c)
    PROVE  Quiet(c)
  <1>1. UNCHANGED <<account, code, clock, accepted>> /\ UserFree(c) /\ tx[c].pc = "reserve"
    BY DEF LockReserve, At
  <1>2. tx[c] \in Request /\ tx[c].code = 0 /\ account.state # "none" /\ clock \in 0..MaxTime
    BY <1>1 DEF TypeOK, RequestsKept, KnowsAccount, Registering
  <1>3. CASE tx' = [tx EXCEPT ![c] = Idle]
    BY <1>1, <1>3, QuietIdle DEF Ends
  <1>4. ASSUME ~Open, NEW n \in {0} \cup Codes, NEW attempt \in Nat,
               tx' = [tx EXCEPT ![c] = [tx[c] EXCEPT !.pc = "reserving", !.now = clock,
                                                     !.code = n, !.attempt = attempt]],
               n = 0 => ActiveCodes(clock) = {} /\ attempt = 1,
               n # 0 => code[n] # NoCode /\ attempt = code[n].attempt + 1
        PROVE  Quiet(c)
    <2> DEFINE me == [tx[c] EXCEPT !.pc = "reserving", !.now = clock,
                                   !.code = n, !.attempt = attempt]
    <2>1. /\ me \in Request /\ me.pc = "reserving" /\ me.now = clock
          /\ me.code = n /\ me.attempt = attempt
      <3>1. "reserving" \in States
        BY DEF States, Locking
      <3> QED
        BY <1>2, <3>1, StatesKnown
    <2>2. tx' = [tx EXCEPT ![c] = me]
      BY <1>4
    <2> HIDE DEF me
    <2>3. account.state = "pending" /\ clock <= clock
      BY <1>2, <1>4 DEF TypeOK, Account, Open
    <2>4. KnowsAccount(me)
      BY <2>1, <2>3 DEF KnowsAccount, Registering
    <2>5. KnowsCode(me) /\ KnowsEmail(me)
      BY <1>4, <2>1, <2>3 DEF KnowsCode, KnowsEmail, Sending, Checking
    <2> QED
      BY <1>1, <2>1, <2>2, <2>4, <2>5 DEF Quiet, Informed, Sending, Checking
  <1>5. CASE ~Open /\ ActiveCodes(clock) = {}
    <2>1. tx' = [tx EXCEPT ![c] = [tx[c] EXCEPT !.pc = "reserving", !.now = clock, !.attempt = 1]]
      BY <1>5 DEF LockReserve
    <2>2. [tx[c] EXCEPT !.pc = "reserving", !.now = clock, !.attempt = 1]
            = [tx[c] EXCEPT !.pc = "reserving", !.now = clock, !.code = 0, !.attempt = 1]
      BY <1>2 DEF Request
    <2> QED
      BY <1>4, <1>5, <2>1, <2>2
  <1>6. CASE ~Open /\ ActiveCodes(clock) # {}
    <2> DEFINE n == CHOOSE n \in ActiveCodes(clock) : TRUE
    <2>1. n \in Codes /\ n # 0 /\ code[n] # NoCode /\ code[n].attempt + 1 \in Nat
      BY <1>6, ActiveKnown DEF Code
    <2>2. \/ tx' = [tx EXCEPT ![c] = Idle]
          \/ tx' = [tx EXCEPT ![c] = [tx[c] EXCEPT !.pc = "reserving", !.now = clock, !.code = n,
                                                   !.attempt = code[n].attempt + 1]]
      BY <1>6, Zenon DEF LockReserve
    <2> HIDE DEF n
    <2> QED
      BY <1>3, <1>4, <1>6, <2>1, <2>2
  <1>7. CASE Open
    BY <1>3, <1>7 DEF LockReserve
  <1> QED
    BY <1>5, <1>6, <1>7

LEMMA QuietVerify ==
    ASSUME TypeOK, RequestsKept, NEW c \in Clients, LockVerify(c)
    PROVE  Quiet(c)
  <1>1. UNCHANGED <<account, code, clock, accepted>> /\ UserFree(c) /\ tx[c].pc = "verify"
    BY DEF LockVerify, At
  <1>2. tx[c] \in Request /\ account.state # "none"
    BY <1>1 DEF TypeOK, RequestsKept, KnowsAccount
  <1>3. CASE Open \/ ActiveCodes(clock) = {}
    BY <1>1, <1>3, QuietIdle DEF LockVerify
  <1>4. CASE ~(Open \/ ActiveCodes(clock) = {})
    <2> DEFINE n == CHOOSE n \in ActiveCodes(clock) : TRUE
    <2>1. n \in ActiveCodes(clock) /\ n \in Codes /\ code[n] # NoCode /\ code[n] \in Code
      BY <1>4, ActiveKnown
    <2>2. PICK pc \in Checking :
             /\ tx' = [tx EXCEPT ![c] = [tx[c] EXCEPT !.pc = pc, !.code = n]]
             /\ pc # "usedUp" => ~(code[n].attempts >= MaxAttempts)
      BY <1>4 DEF LockVerify, UsedUp, Checking
    <2> HIDE DEF n
    <2> DEFINE me == [tx[c] EXCEPT !.pc = pc, !.code = n]
    <2>3. me \in Request /\ me.pc = pc /\ me.code = n
      <3>1. pc \in States
        BY DEF States, Locking, Checking
      <3> QED
        BY <1>2, <2>1, <3>1, StatesKnown
    <2>4. tx' = [tx EXCEPT ![c] = me]
      BY <2>2
    <2> HIDE DEF me
    <2>5. KnowsAccount(me)
      BY <1>2, <1>4, <2>3 DEF TypeOK, Account, Open, KnowsAccount, Registering, Checking
    <2>6. KnowsCode(me) /\ KnowsEmail(me)
      BY <2>1, <2>2, <2>3, LimitsAssumption DEF Code, KnowsCode, KnowsEmail, Sending, Checking
    <2> QED
      BY <1>1, <2>1, <2>3, <2>4, <2>5, <2>6 DEF Quiet, Informed, Sending, Checking
  <1> QED
    BY <1>3, <1>4

LEMMA QuietError ==
    ASSUME TypeOK, RequestsKept, NEW c \in Clients, MarkSentError(c)
    PROVE  Quiet(c)
  <1> DEFINE me == Going(tx[c], "failed")
  <1>1. tx[c] \in Request /\ tx[c].pc = "sent" /\ UNCHANGED <<account, code, clock, accepted>>
    BY DEF TypeOK, MarkSentError, At
  <1>2. /\ me \in Request /\ me.pc = "failed"
        /\ me.code = tx[c].code /\ me.attempt = tx[c].attempt
    BY <1>1, GoingFields DEF States, Sending
  <1>3. tx' = [tx EXCEPT ![c] = me]
    BY DEF MarkSentError, GoesTo, Going
  <1>4. KnowsAccount(tx[c]) /\ KnowsCode(tx[c]) /\ KnowsEmail(tx[c])
    BY DEF RequestsKept
  <1> HIDE DEF me
  <1>5. KnowsAccount(me)
    BY <1>1, <1>2, <1>4 DEF KnowsAccount, Registering, Locking
  <1>6. KnowsCode(me) /\ KnowsEmail(me)
    BY <1>1, <1>2, <1>4 DEF KnowsCode, KnowsEmail, Sending, Checking
  <1> QED
    BY <1>1, <1>2, <1>3, <1>5, <1>6 DEF Quiet, Informed, Sending, Locking, Checking

\* The steps that are left to look at, one by one.
LEMMA Steps ==
    ASSUME IInv, [Next]_vars
    PROVE  \/ \E c \in Clients :
                 \/ Quiet(c)
                 \/ Register(c) \/ Refresh(c) \/ CreateCode(c) \/ ReserveAgain(c) \/ SmtpEnds(c)
                 \/ MarkSent(c) \/ MarkFailed(c)
                 \/ RefuseAnswer(c) \/ AcceptAnswer(c) \/ CompleteVerification(c)
           \/ Tick
           \/ UNCHANGED vars
  <1>1. ASSUME NEW c \in Clients
        PROVE  (\/ BeginRegister(c) \/ RegisterDuplicate(c) \/ LookupWinner(c) \/ BeginVerify(c)
                \/ BeginComplete(c) \/ LockRefresh(c) \/ LockComplete(c) \/ LockReserve(c)
                \/ LockVerify(c) \/ MarkSentError(c)) => Quiet(c)
    BY QuietRegister, QuietBegin, QuietLock, QuietReserve, QuietVerify, QuietError DEF IInv
  <1>2. \A c \in Clients : Abort(c) => Quiet(c)
    BY QuietIdle DEF Abort
  <1> QED
    BY <1>1, <1>2 DEF Next

-----------------------------------------------------------------------------
(* What one client's step leaves of each part of the invariant.            *)

LEMMA ExclusiveStep ==
    ASSUME TypeOK, Exclusive, NEW c \in Clients, NEW me \in Request, tx' = [tx EXCEPT ![c] = me],
           me.pc \in Locking => UserFree(c) \/ tx[c].pc \in Locking
    PROVE  Exclusive'
  <1>1. \A d \in Clients : tx'[d] = IF d = c THEN me ELSE tx[d]
    BY TxFields
  <1> QED
    BY <1>1 DEF Exclusive, UserFree

LEMMA EmailsStep ==
    ASSUME TypeOK, EmailsDiffer, NEW c \in Clients, NEW me \in Request, tx' = [tx EXCEPT ![c] = me],
           me.pc \in Sending =>
               \/ /\ tx[c].pc \in Sending /\ me.code = tx[c].code
                  /\ me.attempt = tx[c].attempt
               \/ \A d \in Clients \ {c} : tx[d].pc \in Sending /\ tx[d].code = me.code
                                              => tx[d].attempt # me.attempt
    PROVE  EmailsDiffer'
  <1>1. \A d \in Clients : tx'[d] = IF d = c THEN me ELSE tx[d]
    BY DEF TypeOK
  <1> QED
    BY <1>1 DEF EmailsDiffer

\* No code becomes usable: what was active stays or expires, and what is
\* checked was active or checked.
LEMMA UsableStep ==
    ASSUME OneUsable, \A n \in Codes : Active(code'[n], clock') => Active(code[n], clock),
           \A d \in Clients : tx'[d].pc \in Checking =>
               \/ tx'[d].code \in ActiveCodes(clock)
               \/ tx[d].pc \in Checking /\ tx[d].code = tx'[d].code
    PROVE  OneUsable' /\ Usable' \subseteq Usable
  <1>1. Usable' = {n \in Codes : Active(code'[n], clock')}
                    \cup {tx'[d].code : d \in {d \in Clients : tx'[d].pc \in Checking}}
    BY DEF Usable, ActiveCodes, Active, Checking
  <1>2. Usable = {n \in Codes : Active(code[n], clock)}
                    \cup {tx[d].code : d \in {d \in Clients : tx[d].pc \in Checking}}
    BY DEF Usable, ActiveCodes, Checking
  <1>3. Usable' \subseteq Usable
    BY <1>1, <1>2 DEF ActiveCodes
  <1> QED
    BY <1>3 DEF OneUsable

\* While one request holds the lock, the others know what they knew.
LEMMA OthersKnow ==
    ASSUME TypeOK, TypeOK', Exclusive, RequestsKept, NEW c \in Clients, tx[c].pc \in Locking,
           NEW me, tx' = [tx EXCEPT ![c] = me], clock' = clock, account'.state # "none",
           \A m \in Codes : code[m] # NoCode =>
               code'[m] # NoCode /\ code[m].attempt <= code'[m].attempt,
           \A m \in accepted : code'[m].attempt = code[m].attempt => m \in accepted'
    PROVE  \A d \in Clients \ {c} : (KnowsAccount(tx[d]) /\ KnowsCode(tx[d]) /\ KnowsEmail(tx[d]))'
  <1> SUFFICES ASSUME NEW d \in Clients \ {c}
               PROVE  (KnowsAccount(tx[d]) /\ KnowsCode(tx[d]) /\ KnowsEmail(tx[d]))'
    OBVIOUS
  <1>1. tx'[d] = tx[d] /\ tx[d].pc \notin Locking
    BY TxFields DEF Exclusive
  <1>2. KnowsAccount(tx[d]) /\ KnowsCode(tx[d]) /\ KnowsEmail(tx[d])
    BY DEF RequestsKept
  <1>3. KnowsAccount(tx[d])'
    BY <1>1, <1>2 DEF KnowsAccount
  <1>4. KnowsCode(tx[d])'
    <2>1. tx[d].pc \notin {"reserving", "wrong", "right", "usedUp"}
      BY <1>1 DEF Locking
    <2> QED
      BY <1>1, <1>2, <2>1 DEF KnowsCode, Checking
  <1>5. KnowsEmail(tx[d])'
    <2>1. ASSUME tx[d].pc \in Sending
          PROVE  /\ tx[d].code \in Codes
                 /\ tx[d].attempt <= code[tx[d].code].attempt
                 /\ code[tx[d].code].attempt <= code'[tx[d].code].attempt
      BY <1>2, <2>1 DEF KnowsCode, KnowsEmail
    <2>2. ASSUME NEW m \in Codes
          PROVE  tx[d].attempt \in Nat /\ code[m].attempt \in Nat /\ code'[m].attempt \in Nat
      BY DEF TypeOK, Request, Code, NoCode
    <2>3. PICK m : m = tx[d].code
      OBVIOUS
    <2>4. tx[d].pc \in Sending => tx[d].attempt <= code'[m].attempt
      BY <2>1, <2>2, <2>3
    <2>5. tx[d].pc = "sent" /\ tx[d].attempt = code'[m].attempt => m \in accepted'
      <3>1. ASSUME tx[d].pc = "sent", tx[d].attempt = code'[m].attempt
            PROVE  m \in accepted'
        <4>1. m \in Codes /\ tx[d].attempt <= code[m].attempt /\ code[m].attempt <= code'[m].attempt
          BY <2>1, <2>3, <3>1 DEF Sending
        <4>2. tx[d].attempt = code[m].attempt /\ code'[m].attempt = code[m].attempt
          BY <2>2, <3>1, <4>1
        <4>3. m \in accepted
          BY <1>2, <2>3, <3>1, <4>2 DEF KnowsEmail
        <4> QED
          BY <4>2, <4>3
      <3> QED
        BY <3>1
    <2> QED
      BY <1>1, <2>3, <2>4, <2>5 DEF KnowsEmail
  <1> QED
    BY <1>3, <1>4, <1>5

LEMMA QuietStep ==
    ASSUME IInv, NEW c \in Clients, Quiet(c)
    PROVE  IInv' /\ Usable' \subseteq Usable
  <1>1. PICK me \in Request :
          /\ tx' = [tx EXCEPT ![c] = me] /\ UNCHANGED <<account, code, clock, accepted>>
          /\ Informed(me)
          /\ me.pc \in Locking => UserFree(c)
          /\ me.pc \in Sending => /\ tx[c].pc \in Sending /\ me.pc # "smtp"
                                  /\ me.code = tx[c].code /\ me.attempt = tx[c].attempt
          /\ me.pc \in Checking => me.code \in ActiveCodes(clock)
    BY DEF Quiet
  <1>2. TypeOK /\ \A d \in Clients : tx'[d] = IF d = c THEN me ELSE tx[d]
    BY <1>1, TxFields DEF IInv
  <1>3. TypeOK'
    BY <1>1, <1>2, TxTyped DEF TypeOK
  <1>4. Exclusive' /\ EmailsDiffer'
    BY <1>1, ExclusiveStep, EmailsStep DEF IInv
  <1>5. AccountKept'
    BY <1>1 DEF IInv, AccountKept
  <1>6. RequestsKept'
    <2>1. \A d \in Clients : KnowsAccount(tx'[d]) /\ KnowsCode(tx'[d]) /\ KnowsEmail(tx'[d])
      BY <1>1, <1>2 DEF IInv, RequestsKept, Informed
    <2>2. \A you : /\ KnowsAccount(you)' <=> KnowsAccount(you)
                   /\ KnowsCode(you)' <=> KnowsCode(you)
                   /\ KnowsEmail(you)' <=> KnowsEmail(you)
      BY <1>1 DEF KnowsAccount, KnowsCode, KnowsEmail, ActiveCodes, Active
    <2>3. ASSUME NEW d \in Clients
          PROVE  (KnowsAccount(tx[d]) /\ KnowsCode(tx[d]) /\ KnowsEmail(tx[d]))'
      <3>1. PICK you : you = tx'[d]
        OBVIOUS
      <3>2. KnowsAccount(you)' /\ KnowsCode(you)' /\ KnowsEmail(you)'
        BY <2>1, <2>2, <3>1
      <3> QED
        BY <3>1, <3>2 DEF KnowsAccount, KnowsCode, KnowsEmail, ActiveCodes, Active
    <2> QED
      BY <2>3 DEF RequestsKept
  <1>7. OneUsable' /\ Usable' \subseteq Usable
    BY <1>1, <1>2, UsableStep DEF IInv
  <1>8. StatusOfLatestSend'
    BY <1>1, <1>2 DEF IInv, StatusOfLatestSend, At, Latest, Sending
  <1> QED
    BY <1>3, <1>4, <1>5, <1>6, <1>7, <1>8 DEF IInv

-----------------------------------------------------------------------------
(* The other steps, one by one.                                            *)

LEMMA RowsTyped ==
    ASSUME TypeOK
    PROVE  /\ \A n \in Codes : /\ code[n].attempt \in Nat /\ code[n].expires \in Int
                               /\ code[n] # NoCode => code[n] \in Code /\ code[n].attempt # 0
           /\ \A c \in Clients : /\ tx[c] \in Request /\ tx[c].attempt \in Nat
                                 /\ tx[c].now \in 0..MaxTime
           /\ clock \in Nat /\ 0 \notin Codes
  BY LimitsAssumption DEF TypeOK, Code, NoCode, Request, Codes

\* The rows of codes are as they were.
LEMMA SameRows ==
    ASSUME NEW you, KnowsCode(you), KnowsEmail(you), NEW d \in Clients, tx'[d] = you,
           UNCHANGED <<code, clock, accepted>>
    PROVE  (KnowsCode(tx[d]) /\ KnowsEmail(tx[d]))'
  BY DEF KnowsCode, KnowsEmail, ActiveCodes, Active

\* A request writes the account, while no other holds the lock.
LEMMA AccountStep ==
    ASSUME IInv, NEW c \in Clients, NEW me \in Request, tx' = [tx EXCEPT ![c] = me],
           UNCHANGED <<code, clock, accepted>>,
           account' \in Account, AccountKept', account'.state # "none",
           \A d \in Clients \ {c} : tx[d].pc \notin Locking,
           me.code = 0, me.pc \in {"idle", "reserve"}
    PROVE  IInv' /\ Usable' \subseteq Usable
  <1>1. TypeOK /\ \A d \in Clients : tx'[d] = IF d = c THEN me ELSE tx[d]
    BY TxFields DEF IInv
  <1>2. TypeOK'
    BY <1>1, TxTyped DEF TypeOK
  <1>3. me.pc \notin Locking \cup Sending \cup Checking \cup Registering
    BY DEF Locking, Sending, Checking, Registering
  <1>4. Exclusive' /\ EmailsDiffer'
    BY <1>1, <1>3, ExclusiveStep, EmailsStep DEF IInv
  <1>5. RequestsKept'
    <2>1. ASSUME NEW d \in Clients
          PROVE  (KnowsAccount(tx[d]) /\ KnowsCode(tx[d]) /\ KnowsEmail(tx[d]))'
      <3>1. CASE d = c
        <4>1. KnowsCode(me) /\ KnowsEmail(me)
          BY <1>3 DEF KnowsCode, KnowsEmail, Locking, Sending
        <4>2. KnowsAccount(tx[d])'
          BY <1>1, <1>3, <3>1 DEF KnowsAccount
        <4> QED
          BY <1>1, <3>1, <4>1, <4>2, SameRows
      <3>2. CASE d # c
        <4>1. tx'[d] = tx[d] /\ tx[d].pc \notin Locking
          BY <1>1, <3>2
        <4>2. KnowsAccount(tx[d]) /\ KnowsCode(tx[d]) /\ KnowsEmail(tx[d])
          BY DEF IInv, RequestsKept
        <4>3. KnowsAccount(tx[d])'
          BY <4>1, <4>2 DEF KnowsAccount
        <4> QED
          BY <4>1, <4>2, <4>3, SameRows
      <3> QED
        BY <3>1, <3>2
    <2> QED
      BY <2>1 DEF RequestsKept
  <1>6. OneUsable' /\ Usable' \subseteq Usable
    BY <1>1, <1>3, UsableStep DEF IInv
  <1>7. StatusOfLatestSend'
    BY <1>1 DEF IInv, StatusOfLatestSend, At, Latest
  <1> QED
    BY <1>2, <1>4, <1>5, <1>6, <1>7 DEF IInv

LEMMA RegisterStep ==
    ASSUME IInv, NEW c \in Clients, Register(c)
    PROVE  IInv' /\ Usable' \subseteq Usable
  <1> DEFINE me == Going(tx[c], "reserve")
  <1>1. tx[c] \in Request /\ KnowsAccount(tx[c]) /\ tx[c].pc = "insert" /\ account = NoAccount
    BY DEF IInv, TypeOK, RequestsKept, Register, At
  <1>2. me \in Request /\ me.pc = "reserve" /\ me.code = 0
    BY <1>1, GoingFields DEF States, KnowsAccount, Registering
  <1>3. tx' = [tx EXCEPT ![c] = me] /\ UNCHANGED <<code, clock, accepted>>
    BY DEF Register, GoesTo, Going
  <1>4. account' = [state |-> "pending", details |-> tx[c].details, starters |-> 0]
    BY DEF Register, NoAccount
  <1> HIDE DEF me
  <1>5. account' \in Account /\ AccountKept' /\ account'.state # "none"
    BY <1>1, <1>4 DEF Account, AccountKept, Request
  <1>6. \A d \in Clients : tx[d].pc \notin Locking
    BY <1>1 DEF IInv, RequestsKept, KnowsAccount, NoAccount
  <1> QED
    BY <1>2, <1>3, <1>5, <1>6, AccountStep

LEMMA RefreshStep ==
    ASSUME IInv, NEW c \in Clients, Refresh(c)
    PROVE  IInv' /\ Usable' \subseteq Usable
  <1> DEFINE me == Going(tx[c], "reserve")
  <1>1. tx[c] \in Request /\ KnowsAccount(tx[c]) /\ tx[c].pc = "refreshing" /\ account \in Account
    BY DEF IInv, TypeOK, RequestsKept, Refresh, At
  <1>2. me \in Request /\ me.pc = "reserve" /\ me.code = 0
    BY <1>1, GoingFields DEF States, KnowsAccount, Registering
  <1>3. tx' = [tx EXCEPT ![c] = me] /\ UNCHANGED <<code, clock, accepted>>
    BY DEF Refresh, GoesTo, Going
  <1>4. account' = [account EXCEPT !.details = tx[c].details]
    BY DEF Refresh
  <1>5. tx[c].pc \in Locking /\ account.state = "pending"
    BY <1>1 DEF Locking, KnowsAccount
  <1> HIDE DEF me
  <1>6. account' \in Account /\ AccountKept' /\ account'.state # "none"
    BY <1>1, <1>4, <1>5 DEF Account, AccountKept, Request, IInv
  <1>7. \A d \in Clients \ {c} : tx[d].pc \notin Locking
    BY <1>5 DEF IInv, Exclusive
  <1> QED
    BY <1>2, <1>3, <1>6, <1>7, AccountStep

LEMMA OpenedKnown ==
    ASSUME account \in Account
    PROVE  /\ Opened \in Account /\ Opened.state = "open" /\ Opened.details = account.details
           /\ Opened.starters = account.starters + 1
  <1>1. account.starters \in Nat /\ account.details \in Details \cup {NoDetails}
    BY DEF Account
  <1>2. PICK k \in Nat : k = account.starters + 1
    BY <1>1
  <1>3. Opened = [account EXCEPT !.state = "open", !.starters = k]
    BY <1>2 DEF Opened
  <1>4. Opened = [state |-> "open", details |-> account.details, starters |-> k]
    BY <1>3 DEF Account
  <1> QED
    BY <1>1, <1>2, <1>4 DEF Account

LEMMA CompleteStep ==
    ASSUME IInv, NEW c \in Clients, CompleteVerification(c)
    PROVE  IInv' /\ Usable' \subseteq Usable
  <1>1. /\ tx[c].pc \in Locking /\ account \in Account
        /\ tx' = [tx EXCEPT ![c] = Idle] /\ account' = Opened
        /\ UNCHANGED <<code, clock, accepted>>
    BY DEF IInv, TypeOK, CompleteVerification, At, Ends, Locking
  <1>2. account' \in Account /\ AccountKept' /\ account'.state # "none"
    BY <1>1, OpenedKnown DEF AccountKept
  <1>3. \A d \in Clients \ {c} : tx[d].pc \notin Locking
    BY <1>1 DEF IInv, Exclusive
  <1> QED
    BY <1>1, <1>2, <1>3, IdleKnown, AccountStep

LEMMA CreateStep ==
    ASSUME IInv, NEW c \in Clients, CreateCode(c)
    PROVE  IInv'
  <1> DEFINE n == CHOOSE n \in Unused : \A m \in Unused : n <= m
             row == NewCode(tx[c].now)
             me == [tx[c] EXCEPT !.pc = "smtp", !.code = n]
  <1>1. n \in Codes /\ code[n] = NoCode
    <2>1. \A m \in Unused : m \in Nat
      BY DEF Unused, Codes
    <2>2. Unused # {}
      BY DEF CreateCode
    <2>3. \E k \in Unused : \A m \in Unused : k <= m
      BY <2>1, <2>2, NatMinimum
    <2>4. n \in Unused
      BY <2>3
    <2> QED
      BY <2>4 DEF Unused
  <1>2. /\ tx[c].pc = "reserving" /\ tx[c].code = 0
        /\ code' = [code EXCEPT ![n] = row] /\ tx' = [tx EXCEPT ![c] = me]
        /\ UNCHANGED <<account, clock, accepted>>
    BY DEF CreateCode, At
  <1>3. /\ TypeOK /\ Exclusive /\ RequestsKept /\ tx[c] \in Request /\ tx[c].now \in Nat
        /\ tx[c].now \in 0..MaxTime /\ tx[c].pc \in Locking
    BY <1>2, LimitsAssumption DEF IInv, TypeOK, Request, Locking
  <1>4. account.state = "pending" /\ ActiveCodes(tx[c].now) = {} /\ tx[c].now <= clock
        /\ tx[c].attempt = 1
    BY <1>2, <1>3 DEF RequestsKept, KnowsAccount, KnowsCode
  <1>5. row = [attempts |-> 0, expires |-> tx[c].now + CodeTTL, attempted |-> tx[c].now,
               status |-> "pending", attempt |-> 1]
    BY DEF NewCode
  <1> HIDE DEF n
  <1>6. me \in Request /\ me.pc = "smtp" /\ me.code = n /\ me.attempt = 1
    <2>1. "smtp" \in States
      BY DEF States, Sending
    <2> QED
      BY <1>1, <1>3, <1>4, <2>1, StatesKnown
  <1> HIDE DEF me, row
  <1>7. row \in Code /\ row # NoCode /\ row.attempt = 1 /\ row.status = "pending"
    <2>1. tx[c].now + CodeTTL \in Int
      BY <1>3, LimitsAssumption
    <2> QED
      BY <1>3, <1>5, <2>1, LimitsAssumption DEF Code, NoCode
  <1>8. TypeOK'
    <2>1. code' \in [Codes -> Code \cup {NoCode}]
      BY <1>1, <1>2, <1>3, <1>7 DEF TypeOK
    <2> QED
      BY <1>2, <1>3, <1>6, <2>1, TxTyped DEF TypeOK
  <1>9. /\ \A d \in Clients : tx'[d] = IF d = c THEN me ELSE tx[d]
        /\ \A m \in Codes : code'[m] = IF m = n THEN row ELSE code[m]
    BY <1>1, <1>2, <1>3 DEF TypeOK
  <1>10. Exclusive'
    BY <1>2, <1>3, <1>6, ExclusiveStep DEF Locking
  <1>11. AccountKept'
    BY <1>2 DEF IInv, AccountKept
  <1>12. RequestsKept'
    <2>1. \A m \in Codes : code[m] # NoCode =>
               code'[m] # NoCode /\ code[m].attempt <= code'[m].attempt
      BY <1>1, <1>3, <1>9, RowsTyped
    <2>2. \A m \in accepted : code'[m].attempt = code[m].attempt => m \in accepted'
      BY <1>2
    <2>3. \A d \in Clients \ {c} : (KnowsAccount(tx[d]) /\ KnowsCode(tx[d]) /\ KnowsEmail(tx[d]))'
      BY <1>2, <1>3, <1>4, <1>8, <2>1, <2>2, OthersKnow
    <2>4. tx'[c] = me
      BY <1>9
    <2>5. KnowsAccount(tx[c])'
      BY <1>2, <1>4, <1>6, <2>4 DEF KnowsAccount, Registering, Locking
    <2>6. code'[n] = row
      BY <1>1, <1>9
    <2>7. KnowsCode(tx[c])'
      BY <1>1, <1>6, <1>7, <2>4, <2>6 DEF KnowsCode, Sending, Checking
    <2>8. KnowsEmail(tx[c])'
      BY <1>6, <1>7, <2>4, <2>6 DEF KnowsEmail
    <2> QED
      BY <2>3, <2>5, <2>7, <2>8 DEF RequestsKept
  <1>13. EmailsDiffer'
    <2>1. \A d \in Clients : tx[d].pc \in Sending => tx[d].code # n
      BY <1>1, <1>3 DEF RequestsKept, KnowsCode
    <2> QED
      BY <1>2, <1>3, <1>6, <2>1, EmailsStep DEF IInv
  <1>14. OneUsable'
    <2>1. \A d \in Clients : tx'[d].pc \notin Checking
      BY <1>3, <1>6, <1>9 DEF Exclusive, Locking, Checking
    <2>2. ASSUME NEW m \in Codes \ {n}, Active(code'[m], clock')
          PROVE  FALSE
      <3>1. Active(code[m], clock)
        BY <1>2, <1>9, <2>2
      <3>2. Active(code[m], tx[c].now)
        BY <1>3, <1>4, <3>1, RowsTyped DEF Active
      <3> QED
        BY <1>4, <3>2 DEF ActiveCodes
    <2>3. Usable' \subseteq {n}
      BY <2>1, <2>2 DEF Usable, ActiveCodes, Checking
    <2> QED
      BY <2>3 DEF OneUsable
  <1>15. StatusOfLatestSend'
    <2>1. ASSUME NEW m \in Codes
          PROVE  /\ code'[m].status = "sent" => m \in accepted'
                 /\ \A d \in Clients : /\ tx'[d].pc = "smtp" /\ tx'[d].code = m
                                       /\ code'[m].attempt = tx'[d].attempt
                       => code'[m].status = "pending"
      <3>1. CASE m = n
        BY <1>7, <1>9, <3>1
      <3>2. CASE m # n
        BY <1>2, <1>6, <1>9, <3>2 DEF IInv, StatusOfLatestSend, At, Latest
      <3> QED
        BY <3>1, <3>2
    <2> QED
      BY <2>1 DEF StatusOfLatestSend, At, Latest
  <1> QED
    BY <1>8, <1>10, <1>11, <1>12, <1>13, <1>14, <1>15 DEF IInv

LEMMA ReserveStep ==
    ASSUME IInv, NEW c \in Clients, ReserveAgain(c)
    PROVE  IInv' /\ Usable' \subseteq Usable
  <1> DEFINE n == tx[c].code
             row == Reserved(code[n], tx[c].now, tx[c].attempt)
             me == Going(tx[c], "smtp")
  <1>1. /\ tx[c].pc = "reserving" /\ n # 0
        /\ code' = [code EXCEPT ![n] = row] /\ tx' = [tx EXCEPT ![c] = me]
        /\ accepted' = accepted \ {n} /\ UNCHANGED <<account, clock>>
    BY DEF ReserveAgain, At, GoesTo, Going
  <1>2. /\ TypeOK /\ Exclusive /\ RequestsKept /\ tx[c] \in Request /\ tx[c].pc \in Locking
        /\ tx[c].now \in Nat /\ tx[c].attempt \in Nat
    BY <1>1, LimitsAssumption DEF IInv, TypeOK, Request, Locking
  <1>3. /\ account.state = "pending" /\ code[n] # NoCode /\ n \in Codes
        /\ tx[c].attempt = code[n].attempt + 1
    BY <1>1, <1>2 DEF RequestsKept, KnowsAccount, KnowsCode, Request
  <1>4. me \in Request /\ me.pc = "smtp" /\ me.code = n /\ me.attempt = tx[c].attempt
    BY <1>2, GoingFields DEF States, Sending
  <1>5. code[n] \in Code /\ code[n].attempt \in Nat
    BY <1>2, <1>3, RowsTyped
  <1>6. /\ row \in Code /\ row # NoCode /\ row.attempt = code[n].attempt + 1
        /\ row.status = "pending" /\ row.expires = code[n].expires
    <2>1. PICK k \in Nat \ {0} : k = code[n].attempt + 1
      BY <1>5
    <2>2. row = [code[n] EXCEPT !.attempted = tx[c].now, !.status = "pending", !.attempt = k]
      BY <1>3, <2>1 DEF Reserved
    <2> HIDE DEF row
    <2>3. row \in Code /\ row.attempt = k /\ row.status = "pending"
          /\ row.expires = code[n].expires
      BY <1>2, <1>5, <2>2 DEF Code
    <2> QED
      BY <2>1, <2>3 DEF NoCode
  <1> HIDE DEF n, me, row
  <1>7. TypeOK'
    <2>1. code' \in [Codes -> Code \cup {NoCode}] /\ accepted' \subseteq Codes
      BY <1>1, <1>2, <1>3, <1>6 DEF TypeOK
    <2> QED
      BY <1>1, <1>2, <1>4, <2>1, TxTyped DEF TypeOK
  <1>8. /\ \A d \in Clients : tx'[d] = IF d = c THEN me ELSE tx[d]
        /\ \A m \in Codes : code'[m] = IF m = n THEN row ELSE code[m]
    BY <1>1, <1>2, <1>3 DEF TypeOK
  <1>9. Exclusive'
    BY <1>1, <1>2, <1>4, ExclusiveStep DEF Locking
  <1>10. AccountKept'
    BY <1>1 DEF IInv, AccountKept
  <1>11. RequestsKept'
    <2>1. \A m \in Codes : code[m] # NoCode =>
               code'[m] # NoCode /\ code[m].attempt <= code'[m].attempt
      BY <1>2, <1>5, <1>6, <1>8, RowsTyped
    <2>2. \A m \in accepted : code'[m].attempt = code[m].attempt => m \in accepted'
      BY <1>1, <1>2, <1>5, <1>6, <1>8 DEF TypeOK
    <2>3. \A d \in Clients \ {c} : (KnowsAccount(tx[d]) /\ KnowsCode(tx[d]) /\ KnowsEmail(tx[d]))'
      BY <1>1, <1>2, <1>3, <1>7, <2>1, <2>2, OthersKnow
    <2>4. tx'[c] = me /\ code'[n] = row
      BY <1>3, <1>8
    <2>5. KnowsAccount(tx[c])'
      BY <1>1, <1>3, <1>4, <2>4 DEF KnowsAccount, Registering, Locking
    <2>6. KnowsCode(tx[c])'
      BY <1>3, <1>4, <1>6, <2>4 DEF KnowsCode, Sending, Checking
    <2>7. KnowsEmail(tx[c])'
      BY <1>3, <1>4, <1>5, <1>6, <2>4 DEF KnowsEmail
    <2> QED
      BY <2>3, <2>5, <2>6, <2>7 DEF RequestsKept
  <1>12. EmailsDiffer'
    <2>1. ASSUME NEW d \in Clients, tx[d].pc \in Sending, tx[d].code = n
          PROVE  tx[d].attempt # me.attempt
      BY <1>2, <1>3, <1>4, <1>5, <2>1, RowsTyped DEF RequestsKept, KnowsEmail
    <2> QED
      BY <1>1, <1>2, <1>4, <2>1, EmailsStep DEF IInv
  <1>13. OneUsable' /\ Usable' \subseteq Usable
    <2>1. \A d \in Clients : tx'[d].pc \notin Checking
      BY <1>2, <1>4, <1>8 DEF Exclusive, Locking, Checking
    <2>2. \A m \in Codes : Active(code'[m], clock') => Active(code[m], clock)
      BY <1>1, <1>3, <1>6, <1>8 DEF Active
    <2> QED
      BY <2>1, <2>2, UsableStep DEF IInv
  <1>14. StatusOfLatestSend'
    <2>1. ASSUME NEW m \in Codes
          PROVE  /\ code'[m].status = "sent" => m \in accepted'
                 /\ \A d \in Clients : /\ tx'[d].pc = "smtp" /\ tx'[d].code = m
                                       /\ code'[m].attempt = tx'[d].attempt
                       => code'[m].status = "pending"
      <3>1. CASE m = n
        BY <1>6, <1>8, <3>1
      <3>2. CASE m # n
        BY <1>1, <1>4, <1>8, <3>2 DEF IInv, StatusOfLatestSend, At, Latest
      <3> QED
        BY <3>1, <3>2
    <2> QED
      BY <2>1 DEF StatusOfLatestSend, At, Latest
  <1> QED
    BY <1>7, <1>9, <1>10, <1>11, <1>12, <1>13, <1>14 DEF IInv

LEMMA SmtpStep ==
    ASSUME IInv, NEW c \in Clients, SmtpEnds(c)
    PROVE  IInv' /\ Usable' \subseteq Usable
  <1>1. PICK pc \in {"sent", "failed"} :
          /\ GoesTo(c, pc) /\ accepted \subseteq accepted'
          /\ accepted' \subseteq accepted \cup {tx[c].code}
          /\ pc = "sent" /\ Latest(c) => tx[c].code \in accepted'
    BY DEF SmtpEnds
  <1> DEFINE me == Going(tx[c], pc)
  <1>2. tx[c].pc = "smtp" /\ UNCHANGED <<account, code, clock>> /\ tx' = [tx EXCEPT ![c] = me]
    BY <1>1 DEF SmtpEnds, At, GoesTo, Going
  <1>3. TypeOK /\ tx[c] \in Request /\ KnowsAccount(tx[c]) /\ KnowsCode(tx[c]) /\ KnowsEmail(tx[c])
    BY DEF IInv, TypeOK, RequestsKept
  <1>4. /\ me \in Request /\ me.pc = pc
        /\ me.code = tx[c].code /\ me.attempt = tx[c].attempt
    BY <1>3, GoingFields DEF States, Sending
  <1> HIDE DEF me
  <1>5. \A d \in Clients : tx'[d] = IF d = c THEN me ELSE tx[d]
    BY <1>2, <1>3 DEF TypeOK
  <1>6. tx[c].code \in Codes /\ code[tx[c].code] # NoCode
    BY <1>2, <1>3 DEF KnowsCode, Sending
  <1>7. TypeOK'
    BY <1>1, <1>2, <1>3, <1>4, <1>6, TxTyped DEF TypeOK
  <1>8. Exclusive' /\ EmailsDiffer'
    BY <1>1, <1>2, <1>3, <1>4, ExclusiveStep, EmailsStep DEF IInv, Locking, Sending
  <1>9. AccountKept'
    BY <1>2 DEF IInv, AccountKept
  <1>10. RequestsKept'
    <2>1. KnowsAccount(me) /\ KnowsCode(me)
      BY <1>1, <1>2, <1>3, <1>4, <1>6
         DEF KnowsAccount, KnowsCode, Registering, Locking, Sending, Checking
    <2>2. ASSUME NEW you, KnowsAccount(you), KnowsCode(you), NEW d \in Clients, tx'[d] = you
          PROVE  (KnowsAccount(tx[d]) /\ KnowsCode(tx[d]))'
      BY <1>2, <2>2 DEF KnowsAccount, KnowsCode, ActiveCodes, Active
    <2>3. (KnowsAccount(tx[c]) /\ KnowsCode(tx[c]) /\ KnowsEmail(tx[c]))'
      <3>1. tx'[c] = me
        BY <1>5
      <3>2. KnowsEmail(tx[c])'
        BY <1>1, <1>2, <1>3, <1>4, <3>1 DEF KnowsEmail, Latest, Sending
      <3> QED
        BY <2>1, <2>2, <3>1, <3>2
    <2>4. ASSUME NEW d \in Clients \ {c}
          PROVE  (KnowsAccount(tx[d]) /\ KnowsCode(tx[d]) /\ KnowsEmail(tx[d]))'
      <3>1. tx'[d] = tx[d]
        BY <1>5
      <3>2. KnowsAccount(tx[d]) /\ KnowsCode(tx[d]) /\ KnowsEmail(tx[d])
        BY DEF IInv, RequestsKept
      <3>3. KnowsEmail(tx[d])'
        BY <1>1, <1>2, <3>1, <3>2 DEF KnowsEmail
      <3> QED
        BY <2>2, <3>1, <3>2, <3>3
    <2> QED
      BY <2>3, <2>4 DEF RequestsKept
  <1>11. OneUsable' /\ Usable' \subseteq Usable
    BY <1>1, <1>2, <1>4, <1>5, UsableStep DEF IInv, Checking
  <1>12. StatusOfLatestSend'
    BY <1>1, <1>2, <1>4, <1>5 DEF IInv, StatusOfLatestSend, At, Latest
  <1> QED
    BY <1>7, <1>8, <1>9, <1>10, <1>11, <1>12 DEF IInv

\* The outcome of a send, which counts if no later send has begun.
LEMMA SettleStep ==
    ASSUME IInv, NEW c \in Clients, MarkSent(c) \/ MarkFailed(c)
    PROVE  IInv' /\ Usable' \subseteq Usable
  <1>1. PICK status \in {"sent", "failed"} : tx[c].pc = status /\ Settle(c, status)
    BY DEF MarkSent, MarkFailed, At
  <1>2. UNCHANGED <<account, clock, accepted>> /\ tx' = [tx EXCEPT ![c] = Idle]
    BY <1>1 DEF Settle, Ends
  <1>3. TypeOK /\ tx[c] \in Request /\ KnowsCode(tx[c]) /\ KnowsEmail(tx[c])
    BY DEF IInv, TypeOK, RequestsKept
  <1>4. PICK n \in Codes : n = tx[c].code /\ code[n] # NoCode
    BY <1>1, <1>3 DEF KnowsCode, Sending
  <1>5. code[n] \in Code /\ code[n].attempt # 0
    BY <1>3, <1>4, RowsTyped
  <1>6. \A d \in Clients : tx'[d] = IF d = c THEN Idle ELSE tx[d]
    BY <1>2, <1>3 DEF TypeOK
  <1>7. PICK row \in Code :
          /\ code' = [code EXCEPT ![n] = row]
          /\ row.attempts = code[n].attempts /\ row.expires = code[n].expires
          /\ row.attempt = code[n].attempt /\ row # NoCode
          /\ row.status = IF code[n].attempt = tx[c].attempt THEN status ELSE code[n].status
    <2>1. CASE Latest(c)
      <3> DEFINE row == [code[n] EXCEPT !.status = status]
      <3>1. code' = [code EXCEPT ![n] = row]
        BY <1>1, <1>4, <2>1 DEF Settle, StillCurrent
      <3>2. /\ row \in Code /\ row.attempts = code[n].attempts /\ row.expires = code[n].expires
            /\ row.attempt = code[n].attempt /\ row.status = status
        BY <1>5 DEF Code
      <3> HIDE DEF row
      <3>3. row # NoCode
        BY <1>5, <3>2 DEF NoCode
      <3> QED
        BY <1>4, <2>1, <3>1, <3>2, <3>3 DEF Latest
    <2>2. CASE ~Latest(c)
      <3>1. code' = code
        BY <1>1, <2>2 DEF Settle, StillCurrent
      <3>2. code' = [code EXCEPT ![n] = code[n]]
        BY <1>3, <3>1 DEF TypeOK
      <3> QED
        BY <1>4, <1>5, <2>2, <3>2 DEF Latest
    <2> QED
      BY <2>1, <2>2
  <1>8. \A m \in Codes : code'[m] = IF m = n THEN row ELSE code[m]
    BY <1>3, <1>7 DEF TypeOK
  <1>9. TypeOK'
    <2>1. code' \in [Codes -> Code \cup {NoCode}]
      BY <1>3, <1>7 DEF TypeOK
    <2> QED
      BY <1>2, <1>3, <2>1, IdleKnown, TxTyped DEF TypeOK
  <1>10. Exclusive' /\ EmailsDiffer'
    BY <1>2, <1>3, IdleKnown, ExclusiveStep, EmailsStep DEF IInv, Locking, Sending
  <1>11. AccountKept'
    BY <1>2 DEF IInv, AccountKept
  <1>12. \A now : \A m \in Codes : Active(code'[m], now) <=> Active(code[m], now)
    BY <1>4, <1>7, <1>8 DEF Active
  <1>13. RequestsKept'
    <2>1. ASSUME NEW you, KnowsAccount(you), KnowsCode(you), KnowsEmail(you),
                 NEW d \in Clients, tx'[d] = you, you \in Request
          PROVE  (KnowsAccount(tx[d]) /\ KnowsCode(tx[d]) /\ KnowsEmail(tx[d]))'
      <3>1. KnowsAccount(tx[d])'
        BY <1>2, <2>1 DEF KnowsAccount
      <3>2. \A m \in Codes : /\ code'[m].attempt = code[m].attempt
                             /\ code'[m].attempts = code[m].attempts
                             /\ code[m] # NoCode => code'[m] # NoCode
        BY <1>4, <1>7, <1>8
      <3>3. you.code \in {0} \cup Codes
        BY <2>1 DEF Request
      <3>4. ActiveCodes(you.now) = {} => ActiveCodes(you.now)' = {}
        <4>1. ASSUME NEW now
              PROVE  {m \in Codes : Active(code'[m], now)} = {m \in Codes : Active(code[m], now)}
          BY <1>12
        <4> QED
          BY <4>1 DEF ActiveCodes, Active
      <3>5. KnowsCode(tx[d])'
        <4>1. you.pc \in Sending \cup Checking => you.code \in Codes /\ code'[you.code] # NoCode
          BY <2>1, <3>2 DEF KnowsCode
        <4>2. you.pc = "reserving" /\ you.code # 0 =>
                  code'[you.code] # NoCode /\ you.attempt = code'[you.code].attempt + 1
          BY <2>1, <3>2, <3>3 DEF KnowsCode
        <4>3. you.pc = "reserving" /\ you.code = 0 =>
                  ActiveCodes(you.now)' = {} /\ you.now <= clock' /\ you.attempt = 1
          BY <1>2, <2>1, <3>4 DEF KnowsCode
        <4>4. you.pc \in {"wrong", "right"} => code'[you.code].attempts < MaxAttempts
          BY <2>1, <3>2 DEF KnowsCode, Checking
        <4> QED
          BY <2>1, <4>1, <4>2, <4>3, <4>4 DEF KnowsCode, ActiveCodes, Active
      <3>6. KnowsEmail(tx[d])'
        BY <1>2, <2>1, <3>2 DEF KnowsEmail, KnowsCode, Sending
      <3> QED
        BY <3>1, <3>5, <3>6
    <2>2. ASSUME NEW d \in Clients
          PROVE  (KnowsAccount(tx[d]) /\ KnowsCode(tx[d]) /\ KnowsEmail(tx[d]))'
      <3>1. CASE d = c
        BY <1>6, <2>1, <3>1, IdleKnown, IdleInformed DEF Informed
      <3>2. CASE d # c
        <4>1. tx'[d] = tx[d] /\ tx[d] \in Request
          BY <1>3, <1>6, <3>2 DEF TypeOK
        <4>2. KnowsAccount(tx[d]) /\ KnowsCode(tx[d]) /\ KnowsEmail(tx[d])
          BY DEF IInv, RequestsKept
        <4> QED
          BY <2>1, <4>1, <4>2
      <3> QED
        BY <3>1, <3>2
    <2> QED
      BY <2>2 DEF RequestsKept
  <1>14. OneUsable' /\ Usable' \subseteq Usable
    BY <1>2, <1>6, <1>12, IdleKnown, UsableStep DEF IInv, Checking
  <1>15. StatusOfLatestSend'
    <2>1. ASSUME NEW m \in Codes
          PROVE  /\ code'[m].status = "sent" => m \in accepted'
                 /\ \A d \in Clients : /\ tx'[d].pc = "smtp" /\ tx'[d].code = m
                                       /\ code'[m].attempt = tx'[d].attempt
                       => code'[m].status = "pending"
      <3>1. CASE m # n \/ code[n].attempt # tx[c].attempt
        <4>1. code'[m].status = code[m].status /\ code'[m].attempt = code[m].attempt
          BY <1>7, <1>8, <3>1
        <4> QED
          BY <1>2, <1>6, <4>1, IdleKnown DEF IInv, StatusOfLatestSend, At, Latest
      <3>2. CASE m = n /\ code[n].attempt = tx[c].attempt
        <4>1. status = "sent" => n \in accepted
          BY <1>1, <1>3, <1>4, <3>2 DEF KnowsEmail
        <4>2. \A d \in Clients \ {c} :
                 ~(tx[d].pc = "smtp" /\ tx[d].code = n /\ tx[d].attempt = tx[c].attempt)
          BY <1>1, <1>4 DEF IInv, EmailsDiffer, Sending
        <4> QED
          BY <1>2, <1>6, <1>7, <1>8, <3>2, <4>1, <4>2, IdleKnown
      <3> QED
        BY <3>1, <3>2
    <2> QED
      BY <2>1 DEF StatusOfLatestSend, At, Latest
  <1> QED
    BY <1>9, <1>10, <1>11, <1>13, <1>14, <1>15 DEF IInv

\* An answer changes the row that it checks and ends, with the lock held.
LEMMA AnswerStep ==
    ASSUME IInv, NEW c \in Clients, tx[c].pc \in Checking,
           NEW row \in Code, row.attempt = code[tx[c].code].attempt,
           row.status = code[tx[c].code].status,
           row.expires >= clock => code[tx[c].code].expires >= clock,
           code' = [code EXCEPT ![tx[c].code] = row], Ends(c),
           UNCHANGED <<clock, accepted>>,
           account' \in Account, AccountKept', account'.state # "none"
    PROVE  IInv' /\ Usable' \subseteq Usable
  <1>1. /\ TypeOK /\ Exclusive /\ RequestsKept
        /\ tx[c].pc \in Locking /\ KnowsCode(tx[c]) /\ tx' = [tx EXCEPT ![c] = Idle]
    BY DEF IInv, RequestsKept, Ends, Checking, Locking
  <1>2. PICK n \in Codes : n = tx[c].code /\ code[n] # NoCode
    BY <1>1 DEF KnowsCode
  <1>3. code[n].attempt \in Nat /\ code[n].attempt # 0 /\ row # NoCode
    BY <1>1, <1>2, RowsTyped DEF NoCode
  <1>4. /\ \A d \in Clients : tx'[d] = IF d = c THEN Idle ELSE tx[d]
        /\ \A m \in Codes : code'[m] = IF m = n THEN row ELSE code[m]
    BY <1>1, <1>2 DEF TypeOK
  <1>5. TypeOK'
    <2>1. code' \in [Codes -> Code \cup {NoCode}]
      BY <1>1, <1>2 DEF TypeOK
    <2> QED
      BY <1>1, <2>1, IdleKnown, TxTyped DEF TypeOK
  <1>6. Exclusive' /\ EmailsDiffer'
    BY <1>1, IdleKnown, ExclusiveStep, EmailsStep DEF IInv, Locking, Sending
  <1>7. RequestsKept'
    <2>1. \A m \in Codes : code[m] # NoCode =>
               code'[m] # NoCode /\ code[m].attempt <= code'[m].attempt
      BY <1>1, <1>2, <1>3, <1>4, RowsTyped
    <2>2. \A d \in Clients \ {c} : (KnowsAccount(tx[d]) /\ KnowsCode(tx[d]) /\ KnowsEmail(tx[d]))'
      BY <1>1, <1>5, <2>1, OthersKnow
    <2>3. (KnowsAccount(tx[c]) /\ KnowsCode(tx[c]) /\ KnowsEmail(tx[c]))'
      <3>1. tx'[c] = Idle
        BY <1>4
      <3> QED
        BY <3>1, IdleKnown DEF KnowsAccount, KnowsCode, KnowsEmail, Locking, Registering, Sending,
                               Checking
    <2> QED
      BY <2>2, <2>3 DEF RequestsKept
  <1>8. OneUsable' /\ Usable' \subseteq Usable
    <2>1. \A m \in Codes : Active(code'[m], clock') => Active(code[m], clock)
      BY <1>2, <1>4 DEF Active
    <2>2. \A d \in Clients : tx'[d].pc \in Checking =>
              tx[d].pc \in Checking /\ tx[d].code = tx'[d].code
      BY <1>4, IdleKnown DEF Checking
    <2> QED
      BY <2>1, <2>2, UsableStep DEF IInv
  <1>9. StatusOfLatestSend'
    <2>1. \A m \in Codes : code'[m].status = code[m].status /\ code'[m].attempt = code[m].attempt
      BY <1>2, <1>4
    <2> QED
      BY <1>4, <2>1, IdleKnown DEF IInv, StatusOfLatestSend, At, Latest
  <1> QED
    BY <1>5, <1>6, <1>7, <1>8, <1>9 DEF IInv

LEMMA ExpireKnown ==
    ASSUME NEW row \in Code, clock \in Nat
    PROVE  /\ Expire(row) \in Code /\ Expire(row).attempts = row.attempts
           /\ Expire(row).attempt = row.attempt /\ Expire(row).status = row.status
           /\ ~(Expire(row).expires >= clock)
  <1>1. PICK past \in Int : past = clock - 1
    OBVIOUS
  <1>2. Expire(row) = [row EXCEPT !.expires = past]
    BY <1>1 DEF Expire
  <1> QED
    BY <1>1, <1>2 DEF Code

\* The row that a request checks, and what it may become.
LEMMA CheckedRow ==
    ASSUME IInv, NEW c \in Clients, tx[c].pc \in Checking
    PROVE  /\ tx[c].code \in Codes /\ code[tx[c].code] \in Code /\ clock \in Nat
           /\ code[tx[c].code].attempts \in Nat
           /\ tx[c].pc # "usedUp" => code[tx[c].code].attempts < MaxAttempts
           /\ account \in Account /\ account.state = "pending" /\ account.starters = 0
  <1>1. TypeOK /\ KnowsCode(tx[c]) /\ KnowsAccount(tx[c]) /\ AccountKept
    BY DEF IInv, RequestsKept
  <1>2. tx[c].code \in Codes /\ code[tx[c].code] \in Code /\ clock \in Nat
    BY <1>1, RowsTyped DEF KnowsCode
  <1>3. tx[c].pc # "usedUp" => code[tx[c].code].attempts < MaxAttempts
    BY <1>1 DEF KnowsCode, Checking
  <1>4. account \in Account /\ account.state = "pending" /\ account.starters = 0
    BY <1>1 DEF TypeOK, KnowsAccount, AccountKept, Checking, Locking
  <1>5. code[tx[c].code].attempts \in Nat
    BY <1>2, LimitsAssumption DEF Code
  <1> QED
    BY <1>2, <1>3, <1>4, <1>5

LEMMA WrongKnown ==
    ASSUME NEW row \in Code, row.attempts < MaxAttempts
    PROVE  LET next == [row EXCEPT !.attempts = row.attempts + 1] IN
           /\ next \in Code /\ next.attempts = row.attempts + 1
           /\ next.attempt = row.attempt /\ next.status = row.status
           /\ next.expires = row.expires
  <1>1. row.attempts \in 0..MaxAttempts /\ MaxAttempts \in Nat
    BY LimitsAssumption DEF Code
  <1>2. PICK k \in 0..MaxAttempts : k = row.attempts + 1
    BY <1>1
  <1>3. [row EXCEPT !.attempts = row.attempts + 1] = [row EXCEPT !.attempts = k]
    BY <1>2
  <1> QED
    BY <1>2, <1>3 DEF Code

LEMMA RefuseStep ==
    ASSUME IInv, NEW c \in Clients, RefuseAnswer(c)
    PROVE  IInv' /\ Usable' \subseteq Usable
  <1>1. tx[c].pc \in Checking /\ Ends(c) /\ UNCHANGED <<account, clock, accepted>>
    BY DEF RefuseAnswer, At, Checking
  <1>2. account' \in Account /\ AccountKept' /\ account'.state # "none"
    BY <1>1, CheckedRow DEF IInv, AccountKept
  <1> DEFINE was == code[tx[c].code]
  <1>3. CASE At(c, "usedUp")
    <2>1. code' = [code EXCEPT ![tx[c].code] = Expire(was)]
      BY <1>3 DEF RefuseAnswer, At
    <2>2. /\ Expire(was) \in Code /\ Expire(was).attempt = was.attempt
          /\ Expire(was).status = was.status /\ ~(Expire(was).expires >= clock)
      BY <1>1, CheckedRow, ExpireKnown
    <2> QED
      BY <1>1, <1>2, <2>1, <2>2, AnswerStep
  <1>4. CASE At(c, "wrong")
    <2> DEFINE row == [was EXCEPT !.attempts = was.attempts + 1]
    <2>1. code' = [code EXCEPT ![tx[c].code] = row]
      BY <1>4 DEF RefuseAnswer, At
    <2>2. /\ row \in Code /\ row.attempt = was.attempt
          /\ row.status = was.status /\ row.expires = was.expires
      BY <1>1, <1>4, CheckedRow, WrongKnown DEF At
    <2> HIDE DEF row
    <2> QED
      BY <1>1, <1>2, <2>1, <2>2, AnswerStep
  <1> QED
    BY <1>3, <1>4 DEF RefuseAnswer

LEMMA AcceptStep ==
    ASSUME IInv, NEW c \in Clients, AcceptAnswer(c)
    PROVE  IInv' /\ Usable' \subseteq Usable
  <1> DEFINE was == code[tx[c].code]
  <1>1. /\ tx[c].pc \in Checking /\ Ends(c) /\ UNCHANGED <<clock, accepted>>
        /\ code' = [code EXCEPT ![tx[c].code] = Expire(was)]
        /\ account' = IF Open THEN account ELSE Opened
    BY DEF AcceptAnswer, At, Checking
  <1>2. account' \in Account /\ AccountKept' /\ account'.state # "none"
    BY <1>1, CheckedRow, OpenedKnown DEF AccountKept, Open
  <1>3. /\ Expire(was) \in Code /\ Expire(was).attempt = was.attempt
        /\ Expire(was).status = was.status /\ ~(Expire(was).expires >= clock)
    BY <1>1, CheckedRow, ExpireKnown
  <1> QED
    BY <1>1, <1>2, <1>3, AnswerStep

LEMMA TickStep ==
    ASSUME IInv, Tick
    PROVE  IInv' /\ Usable' \subseteq Usable
  <1>1. clock < MaxTime /\ clock' = clock + 1 /\ UNCHANGED <<account, code, tx, accepted>>
    BY DEF Tick
  <1>2. TypeOK /\ clock \in Nat
    BY RowsTyped DEF IInv
  <1>3. TypeOK'
    BY <1>1, <1>2, LimitsAssumption DEF TypeOK
  <1>4. Exclusive' /\ AccountKept' /\ EmailsDiffer' /\ StatusOfLatestSend'
    BY <1>1 DEF IInv, Exclusive, AccountKept, EmailsDiffer, StatusOfLatestSend, At, Latest
  <1>5. RequestsKept'
    <2>1. ASSUME NEW d \in Clients
          PROVE  (KnowsAccount(tx[d]) /\ KnowsCode(tx[d]) /\ KnowsEmail(tx[d]))'
      <3>1. KnowsAccount(tx[d]) /\ KnowsCode(tx[d]) /\ KnowsEmail(tx[d])
        BY DEF IInv, RequestsKept
      <3>2. tx[d].now \in Nat
        BY <1>2, RowsTyped, LimitsAssumption
      <3>3. tx[d].now <= clock => tx[d].now <= clock'
        BY <1>1, <1>2, <3>2
      <3> QED
        BY <1>1, <3>1, <3>3 DEF KnowsAccount, KnowsCode, KnowsEmail, ActiveCodes, Active
    <2> QED
      BY <2>1 DEF RequestsKept
  <1>6. OneUsable' /\ Usable' \subseteq Usable
    <2>1. \A m \in Codes : Active(code'[m], clock') => Active(code[m], clock)
      BY <1>1, <1>2, RowsTyped DEF Active
    <2> QED
      BY <1>1, <2>1, UsableStep DEF IInv
  <1> QED
    BY <1>3, <1>4, <1>5, <1>6 DEF IInv

LEMMA StutterStep ==
    ASSUME IInv, UNCHANGED vars
    PROVE  IInv'
  <1>1. UNCHANGED <<account, code, tx, clock, accepted>>
    BY DEF vars
  <1>2. TypeOK' /\ Exclusive' /\ AccountKept' /\ EmailsDiffer' /\ StatusOfLatestSend'
    BY <1>1 DEF IInv, TypeOK, Exclusive, AccountKept, EmailsDiffer, StatusOfLatestSend, At, Latest
  <1>3. RequestsKept'
    BY <1>1 DEF IInv, RequestsKept, KnowsAccount, KnowsCode, KnowsEmail, ActiveCodes, Active
  <1>4. OneUsable'
    BY <1>1 DEF IInv, OneUsable, Usable, ActiveCodes, Active
  <1> QED
    BY <1>2, <1>3, <1>4 DEF IInv

-----------------------------------------------------------------------------
(* The invariant holds.                                                    *)

LEMMA InitInv == Init => IInv
  <1> SUFFICES ASSUME Init PROVE IInv
    OBVIOUS
  <1>1. /\ account = [state |-> "none", details |-> NoDetails, starters |-> 0]
        /\ code = [n \in Codes |-> NoCode] /\ tx = [c \in Clients |-> Idle]
        /\ clock = 0 /\ accepted = {} /\ account = NoAccount
    BY DEF Init, NoAccount
  <1>2. TypeOK
    BY <1>1, IdleKnown, LimitsAssumption DEF TypeOK, Account
  <1>3. \A c \in Clients : tx[c].pc = "idle" /\ Informed(tx[c])
    BY <1>1, IdleKnown, IdleInformed
  <1>4. Exclusive /\ AccountKept /\ RequestsKept /\ EmailsDiffer
    BY <1>1, <1>3 DEF Exclusive, AccountKept, RequestsKept, EmailsDiffer, Informed, Locking, Sending
  <1>5. Usable = {}
    BY <1>1, <1>3 DEF Usable, ActiveCodes, Active
  <1>6. OneUsable
    BY <1>5 DEF OneUsable
  <1>7. StatusOfLatestSend
    BY <1>1, <1>3 DEF StatusOfLatestSend, NoCode, At
  <1> QED
    BY <1>2, <1>4, <1>6, <1>7 DEF IInv

LEMMA Invariance == Spec => []IInv
  <1>1. IInv /\ [Next]_vars => IInv'
    <2> SUFFICES ASSUME IInv, [Next]_vars PROVE IInv'
      OBVIOUS
    <2>1. ASSUME NEW c \in Clients
          PROVE  /\ Quiet(c) \/ Register(c) \/ Refresh(c) \/ CreateCode(c) => IInv'
                 /\ ReserveAgain(c) \/ SmtpEnds(c) \/ MarkSent(c) \/ MarkFailed(c) => IInv'
                 /\ RefuseAnswer(c) \/ AcceptAnswer(c) \/ CompleteVerification(c) => IInv'
      BY QuietStep, RegisterStep, RefreshStep, CreateStep, ReserveStep, SmtpStep, SettleStep,
         RefuseStep, AcceptStep, CompleteStep
    <2> QED
      BY <2>1, Steps, TickStep, StutterStep
  <1> QED
    BY <1>1, InitInv, PTL DEF Spec

\* Every reachable state has its type.
THEOREM TypeCorrect == Spec => []TypeOK
  BY Invariance, PTL DEF IInv

\* A code's status is that of its latest email: sent only if the SMTP server
\* accepted it, pending while it is sent, whatever overtaken sends answer.
THEOREM LatestSendsStatus == Spec => []StatusOfLatestSend
  BY Invariance, PTL DEF IInv

-----------------------------------------------------------------------------
(* Registration opens the account as AccountOpening promises: every commit  *)
(* is one step of the promise, every other step is none.                    *)

Wrong == [n \in Codes |-> code[n].attempts]

LEMMA WrongKept ==
    ASSUME \A n \in Codes : code'[n].attempts = code[n].attempts
    PROVE  Wrong' = Wrong
  BY DEF Wrong

\* A step that changes neither the account nor what was counted leaves the
\* usable code as it is, or voids it.
LEMMA VoidOrNone ==
    ASSUME IInv, UNCHANGED account, Wrong' = Wrong, Usable' \subseteq Usable
    PROVE  [Opening!Next]_(Opening!vars)
  <1>1. Usable' = Usable \/ Usable' = {}
    BY DEF IInv, OneUsable
  <1>2. CASE Usable' = Usable
    BY <1>2 DEF Opening!vars, Opening!account, Wrong
  <1>3. CASE Usable' = {}
    BY <1>3 DEF Opening!Next, Opening!Void, Opening!account, Wrong
  <1> QED
    BY <1>1, <1>2, <1>3

\* Which code is usable does not depend on requests that check none.
LEMMA UsableKept ==
    ASSUME IInv, NEW c \in Clients, NEW me, tx' = [tx EXCEPT ![c] = me],
           UNCHANGED <<code, clock>>, tx[c].pc \notin Checking, me.pc \notin Checking
    PROVE  Usable' = Usable
  <1>1. \A d \in Clients : tx'[d] = IF d = c THEN me ELSE tx[d]
    BY TxFields DEF IInv
  <1>2. {tx'[d].code : d \in {d \in Clients : tx'[d].pc \in Checking}}
          = {tx[d].code : d \in {d \in Clients : tx[d].pc \in Checking}}
    BY <1>1
  <1> QED
    BY <1>2 DEF Usable, ActiveCodes, Active, Checking

LEMMA RegisterKeeps ==
    ASSUME IInv, NEW c \in Clients, Register(c)
    PROVE  Opening!Next
  <1>1. /\ tx[c].pc = "insert" /\ account = NoAccount /\ tx[c] \in Request
        /\ tx' = [tx EXCEPT ![c] = Going(tx[c], "reserve")] /\ UNCHANGED <<code, clock>>
    BY DEF IInv, TypeOK, Register, At, GoesTo, Going
  <1>2. Going(tx[c], "reserve").pc = "reserve"
    BY <1>1, GoingFields DEF States
  <1>3. UNCHANGED <<Usable, Wrong>>
    BY <1>1, <1>2, UsableKept DEF Checking, Wrong
  <1>4. tx[c].details \in Details
    BY <1>1 DEF IInv, RequestsKept, KnowsAccount, Registering
  <1>5. /\ account.state = "none" /\ account'.state = "pending"
        /\ account'.details = tx[c].details /\ account'.starters = account.starters
    BY <1>1 DEF Register, NoAccount
  <1>6. Opening!Register(tx[c].details)
    BY <1>3, <1>5 DEF Opening!Register, Wrong
  <1> QED
    BY <1>4, <1>6 DEF Opening!Next

LEMMA RefreshKeeps ==
    ASSUME IInv, NEW c \in Clients, Refresh(c)
    PROVE  Opening!Next
  <1>1. /\ tx[c].pc = "refreshing" /\ account \in Account /\ tx[c] \in Request
        /\ tx' = [tx EXCEPT ![c] = Going(tx[c], "reserve")] /\ UNCHANGED <<code, clock>>
    BY DEF IInv, TypeOK, Refresh, At, GoesTo, Going
  <1>2. Going(tx[c], "reserve").pc = "reserve"
    BY <1>1, GoingFields DEF States
  <1>3. UNCHANGED <<Usable, Wrong>>
    BY <1>1, <1>2, UsableKept DEF Checking, Wrong
  <1>4. tx[c].details \in Details /\ account.state = "pending"
    BY <1>1 DEF IInv, RequestsKept, KnowsAccount, Registering, Locking
  <1>5. /\ account'.state = account.state /\ account'.details = tx[c].details
        /\ account'.starters = account.starters
    BY <1>1 DEF Refresh, Account
  <1>6. Opening!Refresh(tx[c].details)
    BY <1>3, <1>4, <1>5 DEF Opening!Refresh, Wrong
  <1> QED
    BY <1>4, <1>6 DEF Opening!Next

LEMMA CreateKeeps ==
    ASSUME IInv, NEW c \in Clients, CreateCode(c)
    PROVE  [Opening!Next]_(Opening!vars)
  <1> DEFINE n == CHOOSE n \in Unused : \A m \in Unused : n <= m
             row == NewCode(tx[c].now)
             me == [tx[c] EXCEPT !.pc = "smtp", !.code = n]
  <1>1. n \in Codes /\ code[n] = NoCode
    <2>1. \A m \in Unused : m \in Nat
      BY DEF Unused, Codes
    <2>2. Unused # {}
      BY DEF CreateCode
    <2>3. \E k \in Unused : \A m \in Unused : k <= m
      BY <2>1, <2>2, NatMinimum
    <2>4. n \in Unused
      BY <2>3
    <2> QED
      BY <2>4 DEF Unused
  <1>2. /\ tx[c].pc = "reserving" /\ tx[c].code = 0
        /\ code' = [code EXCEPT ![n] = row] /\ tx' = [tx EXCEPT ![c] = me]
        /\ UNCHANGED <<account, clock>>
    BY DEF CreateCode, At
  <1>3. /\ TypeOK /\ tx[c] \in Request /\ tx[c].now \in Nat /\ clock \in Nat
        /\ account.state = "pending" /\ ActiveCodes(tx[c].now) = {} /\ tx[c].now <= clock
    BY <1>2, RowsTyped, LimitsAssumption DEF IInv, RequestsKept, KnowsAccount, KnowsCode, Locking
  <1>4. row.attempts = 0 /\ code[n].attempts = 0
    BY <1>1 DEF NewCode, NoCode
  <1>5. me.pc = "smtp"
    BY <1>3 DEF Request
  <1> HIDE DEF n, row, me
  <1>6. /\ \A d \in Clients : tx'[d] = IF d = c THEN me ELSE tx[d]
        /\ \A m \in Codes : code'[m] = IF m = n THEN row ELSE code[m]
    BY <1>1, <1>2, <1>3 DEF TypeOK
  <1>7. \A d \in Clients : tx[d].pc \notin Checking /\ tx'[d].pc \notin Checking
    BY <1>2, <1>5, <1>6 DEF IInv, Exclusive, Locking, Checking
  <1>8. \A m \in Codes : ~Active(code[m], clock)
    <2>1. \A m \in Codes : code[m].expires \in Int /\ ~Active(code[m], tx[c].now)
      BY <1>3, RowsTyped DEF ActiveCodes
    <2> QED
      BY <1>3, <2>1 DEF Active
  <1>9. Usable = {}
    BY <1>7, <1>8 DEF Usable, ActiveCodes, Checking
  <1>10. Usable' \subseteq {n}
    <2>1. \A m \in Codes : Active(code'[m], clock') => m = n
      BY <1>2, <1>6, <1>8
    <2> QED
      BY <1>7, <2>1 DEF Usable, ActiveCodes, Checking
  <1>11. Wrong' = Wrong /\ [Wrong EXCEPT ![n] = 0] = Wrong
    BY <1>1, <1>4, <1>6 DEF Wrong
  <1>12. CASE Usable' = {n}
    <2>1. Opening!Issue(n)
      BY <1>2, <1>3, <1>9, <1>11, <1>12 DEF Opening!Issue, Opening!account, Wrong
    <2> QED
      BY <1>1, <2>1 DEF Opening!Next, Opening!Issue
  <1>13. CASE Usable' = {}
    BY <1>2, <1>9, <1>11, <1>13 DEF Opening!vars, Opening!account, Wrong
  <1> QED
    BY <1>10, <1>12, <1>13

LEMMA RefuseKeeps ==
    ASSUME IInv, NEW c \in Clients, RefuseAnswer(c)
    PROVE  [Opening!Next]_(Opening!vars)
  <1>1. /\ tx[c].pc \in Checking /\ account' = account /\ Usable' \subseteq Usable
        /\ code \in [Codes -> Code \cup {NoCode}]
    BY RefuseStep DEF RefuseAnswer, At, Checking, IInv, TypeOK
  <1> DEFINE n == tx[c].code
  <1>2. CASE At(c, "usedUp")
    <2>1. code' = [code EXCEPT ![n] = Expire(code[n])]
      BY <1>2 DEF RefuseAnswer, At
    <2>2. n \in Codes /\ Expire(code[n]).attempts = code[n].attempts
      BY <1>1, CheckedRow, ExpireKnown
    <2>3. Wrong' = Wrong
      BY <1>1, <2>1, <2>2, WrongKept
    <2> QED
      BY <1>1, <2>3, VoidOrNone
  <1>3. CASE At(c, "wrong")
    <2> DEFINE row == [code[n] EXCEPT !.attempts = code[n].attempts + 1]
    <2>1. code' = [code EXCEPT ![n] = row]
      BY <1>3 DEF RefuseAnswer, At
    <2>2. n \in Codes /\ row.attempts = code[n].attempts + 1 /\ code[n].attempts < MaxAttempts
      BY <1>1, <1>3, CheckedRow, WrongKnown DEF At
    <2>3. n \in Usable
      BY <1>1 DEF Usable, Checking
    <2> HIDE DEF n, row
    <2>4. Wrong' = [Wrong EXCEPT ![n] = Wrong[n] + 1] /\ Wrong[n] = code[n].attempts
      BY <1>1, <2>1, <2>2 DEF Wrong
    <2>5. Usable' \in {Usable, {}}
      BY <1>1 DEF IInv, OneUsable
    <2>6. account.state = "pending"
      BY <1>1, CheckedRow
    <2>7. Opening!WrongAnswer(n)
      BY <1>1, <2>2, <2>3, <2>4, <2>5, <2>6 DEF Opening!WrongAnswer, Opening!account, Wrong
    <2> QED
      BY <2>2, <2>7 DEF Opening!Next, Opening!WrongAnswer
  <1> QED
    BY <1>2, <1>3 DEF RefuseAnswer

LEMMA AcceptKeeps ==
    ASSUME IInv, NEW c \in Clients, AcceptAnswer(c)
    PROVE  Opening!Next
  <1> DEFINE n == tx[c].code
             row == Expire(code[n])
  <1>1. /\ tx[c].pc = "right" /\ clock' = clock /\ TypeOK /\ tx' = [tx EXCEPT ![c] = Idle]
        /\ code' = [code EXCEPT ![n] = row] /\ Usable' \subseteq Usable
        /\ account' = IF Open THEN account ELSE Opened
    BY AcceptStep DEF AcceptAnswer, At, Ends, IInv
  <1>2. tx[c].pc \in Checking /\ tx[c].pc # "usedUp"
    BY <1>1 DEF Checking
  <1>3. /\ n \in Codes /\ code[n].attempts < MaxAttempts
        /\ account \in Account /\ account.state = "pending" /\ account.starters = 0
        /\ row.attempts = code[n].attempts /\ ~(row.expires >= clock)
    BY <1>2, CheckedRow, ExpireKnown
  <1>4. n \in Usable
    BY <1>2 DEF Usable, Checking
  <1> HIDE DEF n, row
  <1>5. /\ account' = Opened /\ account'.state = "open" /\ account'.starters = 1
        /\ account'.details = account.details
    BY <1>1, <1>3, OpenedKnown DEF Open
  <1>6. /\ \A d \in Clients : tx'[d] = IF d = c THEN Idle ELSE tx[d]
        /\ \A m \in Codes : code'[m] = IF m = n THEN row ELSE code[m]
    BY <1>1, <1>3 DEF TypeOK
  <1>7. Usable' = {}
    <2>1. \A d \in Clients : tx'[d].pc \notin Checking
      BY <1>2, <1>6, IdleKnown DEF IInv, Exclusive, Locking, Checking
    <2>2. ~Active(code'[n], clock')
      BY <1>1, <1>3, <1>6 DEF Active
    <2>3. n \notin Usable'
      BY <2>1, <2>2 DEF Usable, ActiveCodes, Checking
    <2> QED
      BY <1>1, <1>4, <2>3 DEF IInv, OneUsable
  <1>8. Wrong' = Wrong
    BY <1>3, <1>6, WrongKept
  <1>9. Wrong[n] < MaxAttempts
    BY <1>3 DEF Wrong
  <1>10. Opening!OpenByCode
    BY <1>3, <1>4, <1>5, <1>7, <1>8, <1>9 DEF Opening!OpenByCode, Opening!Open, Wrong
  <1> QED
    BY <1>10 DEF Opening!Next

LEMMA CompleteKeeps ==
    ASSUME IInv, NEW c \in Clients, CompleteVerification(c)
    PROVE  Opening!Next
  <1>1. /\ tx[c].pc = "opening" /\ account' = Opened /\ UNCHANGED <<code, clock>>
        /\ tx' = [tx EXCEPT ![c] = Idle]
        /\ account \in Account /\ AccountKept /\ KnowsAccount(tx[c])
    BY DEF CompleteVerification, At, Ends, IInv, TypeOK, RequestsKept
  <1>2. account.state = "pending" /\ account.starters = 0
    BY <1>1 DEF AccountKept, KnowsAccount, Locking
  <1>3. UNCHANGED <<Usable, Wrong>>
    BY <1>1, IdleKnown, UsableKept DEF Checking, Wrong
  <1>4. Opening!OpenByOperator
    BY <1>1, <1>2, <1>3, OpenedKnown DEF Opening!OpenByOperator, Opening!Open, Wrong
  <1> QED
    BY <1>4 DEF Opening!Next

\* The steps that neither count an answer nor write the account.
LEMMA QuietKeeps ==
    ASSUME IInv, NEW c \in Clients,
           Quiet(c) \/ ReserveAgain(c) \/ SmtpEnds(c) \/ MarkSent(c) \/ MarkFailed(c)
    PROVE  [Opening!Next]_(Opening!vars)
  <1>1. UNCHANGED account /\ Usable' \subseteq Usable
    BY QuietStep, ReserveStep, SmtpStep, SettleStep
       DEF Quiet, ReserveAgain, SmtpEnds, MarkSent, MarkFailed, Settle
  <1>2. code \in [Codes -> Code \cup {NoCode}]
    BY DEF IInv, TypeOK
  <1>3. CASE Quiet(c) \/ SmtpEnds(c)
    BY <1>1, <1>3, VoidOrNone DEF Quiet, SmtpEnds, Wrong
  <1>4. CASE ReserveAgain(c)
    <2> DEFINE n == tx[c].code
               row == Reserved(code[n], tx[c].now, tx[c].attempt)
    <2>1. code' = [code EXCEPT ![n] = row] /\ tx[c].pc = "reserving" /\ n # 0
      BY <1>4 DEF ReserveAgain, At
    <2>2. code[n] # NoCode /\ n \in Codes
      BY <2>1 DEF IInv, TypeOK, Request, RequestsKept, KnowsCode
    <2>3. code[n] \in Code
      BY <1>2, <2>2
    <2>4. row.attempts = code[n].attempts
      BY <2>3 DEF Reserved, Code
    <2> HIDE DEF row, n
    <2>5. Wrong' = Wrong
      BY <1>2, <2>1, <2>2, <2>4 DEF Wrong
    <2> QED
      BY <1>1, <2>5, VoidOrNone
  <1>5. CASE MarkSent(c) \/ MarkFailed(c)
    <2> DEFINE n == tx[c].code
    <2>1. tx[c].pc \in Sending /\ \E status : Settle(c, status)
      BY <1>5 DEF MarkSent, MarkFailed, At, Sending
    <2>2. code[n] # NoCode /\ n \in Codes
      BY <2>1 DEF IInv, RequestsKept, KnowsCode
    <2>3. code[n] \in Code
      BY <1>2, <2>2
    <2>4. PICK status : code' = IF StillCurrent(c)
                                THEN [code EXCEPT ![n] = [code[n] EXCEPT !.status = status]]
                                ELSE code
      BY <2>1 DEF Settle
    <2> DEFINE row == [code[n] EXCEPT !.status = status]
    <2>5. row.attempts = code[n].attempts
      BY <2>3 DEF Code
    <2>6. code' = [code EXCEPT ![n] = row] \/ code' = code
      BY <2>4
    <2> HIDE DEF row, n
    <2>7. Wrong' = Wrong
      BY <1>2, <2>2, <2>5, <2>6 DEF Wrong
    <2> QED
      BY <1>1, <2>7, VoidOrNone
  <1> QED
    BY <1>3, <1>4, <1>5

LEMMA TimeKeeps ==
    ASSUME IInv, Tick \/ UNCHANGED vars
    PROVE  [Opening!Next]_(Opening!vars)
  <1>1. UNCHANGED <<account, code>>
    BY DEF Tick, vars
  <1>2. CASE Tick
    BY <1>1, <1>2, TickStep, VoidOrNone DEF Wrong
  <1>3. CASE UNCHANGED vars
    <2>1. Usable' = Usable
      BY <1>3 DEF vars, Usable, ActiveCodes, Active
    <2> QED
      BY <1>1, <2>1, VoidOrNone DEF Wrong
  <1> QED
    BY <1>2, <1>3

LEMMA InitKeeps == Init => Opening!Init
  <1> SUFFICES ASSUME Init PROVE Opening!Init
    OBVIOUS
  <1>1. /\ account = NoAccount /\ code = [n \in Codes |-> NoCode]
        /\ tx = [c \in Clients |-> Idle]
    BY DEF Init
  <1>2. Usable = {}
    BY <1>1, IdleKnown DEF Usable, ActiveCodes, Active
  <1>3. Wrong = [n \in Codes |-> 0]
    BY <1>1 DEF Wrong, NoCode
  <1>4. account.state = "none" /\ account.details = NoDetails /\ account.starters = 0
    BY <1>1 DEF NoAccount
  <1> QED
    BY <1>2, <1>3, <1>4 DEF Opening!Init, Wrong

\* However registrations, confirmations and the operator overlap: the account is
\* opened once, by a usable code with answers left or by the operator, with its
\* starter data and the details of the last registration before, and one code is
\* usable at a time (docs/deployment.md:82-111).
THEOREM ImplementsOpening == Spec => KeepsAccount
  <1>1. IInv /\ [Next]_vars => [Opening!Next]_(Opening!vars)
    <2> SUFFICES ASSUME IInv, [Next]_vars PROVE [Opening!Next]_(Opening!vars)
      OBVIOUS
    <2>1. ASSUME NEW c \in Clients
          PROVE  /\ Quiet(c) \/ ReserveAgain(c) \/ SmtpEnds(c) \/ MarkSent(c) \/ MarkFailed(c)
                        => [Opening!Next]_(Opening!vars)
                 /\ Register(c) \/ Refresh(c) \/ CreateCode(c) => [Opening!Next]_(Opening!vars)
                 /\ RefuseAnswer(c) \/ AcceptAnswer(c) \/ CompleteVerification(c)
                        => [Opening!Next]_(Opening!vars)
      BY QuietKeeps, RegisterKeeps, RefreshKeeps, CreateKeeps, RefuseKeeps, AcceptKeeps,
         CompleteKeeps
    <2> QED
      BY <2>1, Steps, TimeKeeps
  <1>2. Spec => Opening!Spec
    BY <1>1, InitKeeps, Invariance, PTL DEF Spec, Opening!Spec
  <1> QED
    BY <1>2 DEF KeepsAccount

=============================================================================
