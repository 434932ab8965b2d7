------------------------- MODULE InviteDeliveryProofs -------------------------
(* Theorems about InviteDelivery, for every number of invitations, server    *)
(* instances and concurrent attempts, and every value of the limits.         *)
EXTENDS InviteDelivery, FiniteSetTheorems, TLAPS

-----------------------------------------------------------------------------
(* Type correctness.                                                       *)

LEMMA RowOperators ==
    ASSUME NEW r \in Row
    PROVE  /\ \A life \in Lives, id \in Nat : Scheduled(r, life, id) \in Row
           /\ \A life \in Lives, id \in Nat : WithLife(r, life, id) \in Row
           /\ \A life \in Lives : Ended(r, life) \in Row
           /\ \A next \in {"none", "later", "due"}, lease \in {"none", "running", "over"} :
                 /\ WithTimes(r, next, lease) \in Row
                 /\ \A status \in Statuses : WithStatus(r, status, next, lease) \in Row
           /\ Claimed(r) \in Row
           /\ Cleared(r) \in Row
  <1>1. ASSUME NEW life \in Lives, NEW id \in Nat PROVE Scheduled(r, life, id) \in Row
    BY DEF Row, Scheduled, Statuses
  <1>2. ASSUME NEW life \in Lives, NEW id \in Nat PROVE WithLife(r, life, id) \in Row
    BY DEF Row, WithLife
  <1>3. ASSUME NEW life \in Lives PROVE Ended(r, life) \in Row
    BY DEF Row, Ended, WithLife, WithTimes
  <1>4. ASSUME NEW next \in {"none", "later", "due"}, NEW lease \in {"none", "running", "over"}
        PROVE  /\ WithTimes(r, next, lease) \in Row
               /\ \A status \in Statuses : WithStatus(r, status, next, lease) \in Row
    BY DEF Row, WithTimes, WithStatus
  <1>5. Claimed(r) \in Row
    BY DEF Row, Claimed, Statuses
  <1>6. Cleared(r) \in Row
    BY <1>4 DEF Cleared
  <1> QED
    BY <1>1, <1>2, <1>3, <1>4, <1>5, <1>6

LEMMA ThreadOperators ==
    /\ \A place \in Places : AtPc(place) \in Thread
    /\ Idle \in Thread
    /\ \A t : AfterAttempt(t) \in Thread
    /\ \A i \in Invites : Starting(i) \in Thread
    /\ \A i \in Invites, id \in Nat : Holding(i, id) \in Thread
    /\ \A me \in Thread : \A place \in Places : MovedTo(me, place) \in Thread
    /\ \A me \in Thread, r \in Row : HasRead(me, r) \in Thread
  <1>1. \A place \in Places : AtPc(place) \in Thread
    BY DEF AtPc, Thread
  <1>2. Idle \in Thread /\ \A t : AfterAttempt(t) \in Thread
    BY <1>1 DEF Idle, AfterAttempt, Places
  <1>3. \A i \in Invites : Starting(i) \in Thread
    BY DEF Starting, Thread, Places
  <1>4. \A i \in Invites, id \in Nat : Holding(i, id) \in Thread
    BY DEF Holding, Thread, Places
  <1>5. \A me \in Thread : \A place \in Places : MovedTo(me, place) \in Thread
    BY DEF MovedTo, Thread
  <1>6. \A me \in Thread, r \in Row : HasRead(me, r) \in Thread
    BY DEF HasRead, Thread, Row, Places
  <1> QED
    BY <1>1, <1>2, <1>3, <1>4, <1>5, <1>6

Attempting == Places \ {"idle", "find", "loop"}

\* A worker that is in an attempt is at an invitation.
InAttempt == \A t \in Threads : thr[t].pc \in Attempting => thr[t].job \in Invites

Typed == TypeOK /\ InAttempt

LEMMA TypeInit == Init => Typed
  <1> SUFFICES ASSUME Init PROVE Typed
    OBVIOUS
  <1>1. AbsentRow \in Row /\ LegacyRow \in Row
    BY DEF AbsentRow, LegacyRow, Row, Lives, Statuses
  <1>2. row \in [Invites -> Row]
    BY <1>1 DEF Init
  <1>3. thr \in [Threads -> Thread]
    BY ThreadOperators DEF Init
  <1>4. InAttempt
    BY DEF Init, InAttempt, Attempting, Idle, AtPc
  <1> QED
    BY <1>2, <1>3, <1>4 DEF Init, Typed, TypeOK

\* What one worker does keeps the workers well-typed.
LEMMA ThreadWrite ==
    ASSUME Typed, NEW t \in Threads, NEW me \in Thread,
           me.pc \in Attempting => me.job \in Invites,
           thr' = [thr EXCEPT ![t] = me]
    PROVE  thr' \in [Threads -> Thread] /\ InAttempt'
  BY DEF Typed, TypeOK, InAttempt

\* So does ending an attempt, or starting one.
LEMMA PlaceOperators ==
    /\ \A t : AfterAttempt(t).pc \notin Attempting
    /\ Idle.pc \notin Attempting
    /\ \A place \in {"find", "loop"} : AtPc(place).pc \notin Attempting
    /\ \A i : Starting(i).job = i
    /\ \A i, id : Holding(i, id).job = i
    /\ \A me, place : MovedTo(me, place).job = me.job
    /\ \A me, r : HasRead(me, r).job = me.job
  BY DEF AfterAttempt, Idle, AtPc, Attempting, Starting, Holding, MovedTo, HasRead

LEMMA DeliverSoonTyped ==
    ASSUME Typed, NEW i \in Invites, DeliverSoon(i)
    PROVE  thr' \in [Threads -> Thread] /\ InAttempt'
  <1>1. CASE UNCHANGED thr
    BY <1>1 DEF Typed, TypeOK, InAttempt
  <1>2. ASSUME NEW c \in Callers, thr' = [thr EXCEPT ![c] = Starting(i)]
        PROVE  thr' \in [Threads -> Thread] /\ InAttempt'
    <2>1. c \in Threads
      BY DEF Threads
    <2>2. Starting(i) \in Thread /\ Starting(i).job \in Invites
      BY ThreadOperators, PlaceOperators
    <2> QED
      BY <1>2, <2>1, <2>2, ThreadWrite
  <1> QED
    BY <1>1, <1>2 DEF DeliverSoon

LEMMA FinishTyped ==
    ASSUME Typed, NEW t \in Threads, thr[t].pc \in Attempting,
           NEW status \in {"sent", "failed", "queued"}, NEW next \in {"none", "later"},
           Finish(t, status, next)
    PROVE  Typed'
  <1> DEFINE i == thr[t].job
  <1>1. i \in Invites /\ row[i] \in Row
    BY DEF Typed, TypeOK, InAttempt
  <1>2. WithStatus(row[i], status, next, "none") \in Row
    BY <1>1, RowOperators DEF Statuses
  <1>3. row' \in [Invites -> Row]
    BY <1>1, <1>2 DEF Finish, Typed, TypeOK
  <1>4. thr' \in [Threads -> Thread] /\ InAttempt'
    BY ThreadOperators, PlaceOperators, ThreadWrite DEF Finish
  <1> QED
    BY <1>3, <1>4 DEF Finish, Typed, TypeOK, budgets, history

LEMMA SmtpEndsTyped ==
    ASSUME Typed, NEW t \in Threads, NEW place \in {"accepted", "deferred", "refused"},
           NEW said \in SUBSET {"accepted", "refused"}, SmtpEnds(t, place, said)
    PROVE  Typed'
  <1>1. thr[t] \in Thread /\ thr[t].job \in Invites
    BY DEF Typed, TypeOK, InAttempt, SmtpEnds, Attempting, Places
  <1>2. MovedTo(thr[t], place) \in Thread /\ MovedTo(thr[t], place).job \in Invites
    BY <1>1, ThreadOperators, PlaceOperators DEF Places
  <1>3. thr' \in [Threads -> Thread] /\ InAttempt'
    BY <1>2, ThreadWrite DEF SmtpEnds
  <1>4. replies' \in [Invites -> SUBSET {"accepted", "refused"}]
    BY <1>1 DEF SmtpEnds, Typed, TypeOK
  <1> QED
    BY <1>3, <1>4 DEF SmtpEnds, Typed, TypeOK, budgets

LEMMA TypeStep == Typed /\ [Next]_vars => Typed'
  <1> SUFFICES ASSUME Typed, [Next]_vars PROVE Typed'
    OBVIOUS
  <1> USE DEF Typed, TypeOK
  <1>1. ASSUME NEW i \in Invites, CreateInvite(i) PROVE Typed'
    <2>1. row[i] \in Row /\ row[i].id \in Nat
      BY DEF Row
    <2>2. Scheduled(row[i], "active", row[i].id) \in Row
      BY <2>1, RowOperators DEF Lives
    <2> QED
      BY <1>1, <2>2, DeliverSoonTyped DEF CreateInvite, budgets, history
  <1>2. ASSUME NEW i \in Invites, Expedite(i) PROVE Typed'
    <2>1. row[i] \in Row /\ row[i].lease \in {"none", "running", "over"}
      BY DEF Row
    <2>2. WithTimes(row[i], "due", row[i].lease) \in Row
      BY <2>1, RowOperators
    <2> QED
      BY <1>2, <2>2, DeliverSoonTyped DEF Expedite, budgets, history
  <1>3. ASSUME NEW i \in Invites, Requeue(i) PROVE Typed'
    <2>1. row[i] \in Row /\ row[i].id + 1 \in Nat
      BY DEF Row
    <2>2. Scheduled(row[i], "active", row[i].id + 1) \in Row
      BY <2>1, RowOperators DEF Lives
    <2> QED
      BY <1>3, <2>1, <2>2, DeliverSoonTyped DEF Requeue, budgets
  <1>4. ASSUME NEW i \in Invites, Revoke(i) \/ Accept(i) PROVE Typed'
    <2>1. Ended(row[i], "revoked") \in Row /\ Ended(row[i], "accepted") \in Row
      BY RowOperators DEF Lives
    <2> QED
      BY <1>4, <2>1 DEF Revoke, Accept, budgets, history, InAttempt
  <1>5. CASE DeleteSpace
    <2>1. \A i \in Invites : row[i] \in Row /\ row[i].id \in Nat
      BY DEF Row
    <2>2. \A i \in Invites : WithLife(row[i], "gone", row[i].id) \in Row
      BY <2>1, RowOperators DEF Lives
    <2> QED
      BY <1>5, <2>2 DEF DeleteSpace, budgets, history, InAttempt
  <1>6. ASSUME NEW p \in Pollers, PollStep(p) PROVE Typed'
    <2>1. p \in Threads
      BY DEF Threads
    <2>2. ASSUME NEW me \in Thread, me.pc \in Attempting => me.job \in Invites,
                 thr' = [thr EXCEPT ![p] = me]
          PROVE  thr' \in [Threads -> Thread] /\ InAttempt'
      BY <2>1, <2>2, ThreadWrite
    <2>3. CASE PollClear(p)
      <3>1. row' \in [Invites -> Row]
        BY <2>3, RowOperators DEF PollClear
      <3>2. thr' \in [Threads -> Thread] /\ InAttempt'
        BY <2>2, <2>3, ThreadOperators, PlaceOperators DEF PollClear, Places
      <3> QED
        BY <2>3, <3>1, <3>2 DEF PollClear, budgets, history
    <2>4. CASE PollFind(p)
      <3>1. thr' \in [Threads -> Thread] /\ InAttempt'
        BY <2>2, <2>4, ThreadOperators, PlaceOperators DEF PollFind, Places
      <3>2. batch' \in [Pollers -> SUBSET Invites]
        BY <2>4 DEF PollFind, Due
      <3> QED
        BY <2>4, <3>1, <3>2 DEF PollFind, budgets, history
    <2>5. CASE PollNext(p)
      <3>1. PICK i \in batch[p] : /\ thr' = [thr EXCEPT ![p] = Starting(i)]
                                  /\ batch' = [batch EXCEPT ![p] = @ \ {i}]
        BY <2>5 DEF PollNext
      <3>2. i \in Invites
        BY <3>1
      <3>3. Starting(i) \in Thread /\ Starting(i).job = i
        BY <3>2, ThreadOperators, PlaceOperators
      <3>4. thr' \in [Threads -> Thread] /\ InAttempt'
        BY <2>2, <3>1, <3>2, <3>3
      <3> QED
        BY <2>5, <3>1, <3>4 DEF PollNext, budgets, history
    <2>6. CASE PollEnd(p)
      <3>1. thr' \in [Threads -> Thread] /\ InAttempt'
        BY <2>2, <2>6, ThreadOperators, PlaceOperators DEF PollEnd
      <3> QED
        BY <2>6, <3>1 DEF PollEnd, budgets, history
    <2> QED
      BY <1>6, <2>3, <2>4, <2>5, <2>6 DEF PollStep
  <1>7. ASSUME NEW t \in Threads, AttemptStep(t) PROVE Typed'
    <2> DEFINE i == thr[t].job
    <2>1. ASSUME thr[t].pc \in Attempting PROVE i \in Invites /\ row[i] \in Row /\ thr[t] \in Thread
      BY <2>1 DEF InAttempt
    <2>2. CASE Claim(t)
      <3>1. i \in Invites /\ row[i] \in Row /\ row[i].id + 1 \in Nat
        BY <2>1, <2>2 DEF Claim, Attempting, Places, Row
      <3>2. row' \in [Invites -> Row]
        BY <2>2, <3>1, RowOperators DEF Claim
      <3>3. Holding(i, row[i].id + 1) \in Thread /\ Holding(i, row[i].id + 1).job = i
        BY <3>1, ThreadOperators, PlaceOperators
      <3>4. thr' \in [Threads -> Thread] /\ InAttempt'
        BY <2>2, <3>1, <3>3, ThreadOperators, PlaceOperators, ThreadWrite DEF Claim
      <3> QED
        BY <2>2, <3>2, <3>4 DEF Claim, budgets, history
    <2>3. CASE ReadBack(t)
      <3>1. i \in Invites /\ row[i] \in Row /\ thr[t] \in Thread
        BY <2>1, <2>3 DEF ReadBack, Attempting, Places
      <3>2. HasRead(thr[t], row[i]) \in Thread /\ HasRead(thr[t], row[i]).job = i
        BY <3>1, ThreadOperators, PlaceOperators
      <3>3. thr' \in [Threads -> Thread] /\ InAttempt'
        BY <2>3, <3>1, <3>2, ThreadOperators, PlaceOperators, ThreadWrite DEF ReadBack
      <3> QED
        BY <2>3, <3>3 DEF ReadBack, budgets, history
    <2>4. CASE LoadSpace(t)
      <3>1. i \in Invites /\ thr[t] \in Thread
        BY <2>1, <2>4 DEF LoadSpace, Attempting, Places
      <3>2. MovedTo(thr[t], "smtp") \in Thread /\ MovedTo(thr[t], "smtp").job = i
        BY <3>1, ThreadOperators, PlaceOperators DEF Places
      <3>3. thr' \in [Threads -> Thread] /\ InAttempt'
        <4>1. CASE thr' = [thr EXCEPT ![t] = AfterAttempt(t)]
          <5>1. AfterAttempt(t) \in Thread /\ AfterAttempt(t).pc \notin Attempting
            BY ThreadOperators, PlaceOperators
          <5> QED
            BY <4>1, <5>1, ThreadWrite
        <4>2. CASE thr' = [thr EXCEPT ![t] = MovedTo(thr[t], "smtp")]
          BY <4>2, <3>1, <3>2, ThreadWrite
        <4> QED
          BY <2>4, <4>1, <4>2 DEF LoadSpace
      <3>4. tries' \in [Invites -> Nat]
        BY <2>4, <3>1 DEF LoadSpace
      <3> QED
        BY <2>4, <3>3, <3>4 DEF LoadSpace, budgets
    <2>5. CASE SmtpAccepts(t) \/ SmtpRefuses(t) \/ SmtpDefers(t)
      BY <2>5, SmtpEndsTyped DEF SmtpAccepts, SmtpRefuses, SmtpDefers
    <2>6. CASE FinishSent(t) \/ FinishFailed(t)
      BY <2>6, FinishTyped DEF FinishSent, FinishFailed, Attempting, Places
    <2>7. CASE FinishRetry(t)
      <3>1. RetryAt(thr[t].attempts) \in {"none", "later"}
        BY DEF RetryAt
      <3> QED
        BY <2>7, <3>1, FinishTyped DEF FinishRetry, Attempting, Places
    <2> QED
      BY <1>7, <2>2, <2>3, <2>4, <2>5, <2>6, <2>7 DEF AttemptStep
  <1>8. ASSUME NEW t \in Threads, Failure(t) PROVE Typed'
    <2>1. thr' \in [Threads -> Thread] /\ InAttempt'
      BY <1>8, ThreadOperators, PlaceOperators, ThreadWrite DEF Failure, AttemptError, Crash
    <2>2. batch' \in [Pollers -> SUBSET Invites]
      BY <1>8 DEF Failure, AttemptError, Crash
    <2> QED
      BY <1>8, <2>1, <2>2 DEF Failure, AttemptError, Crash, history
  <1>9. ASSUME NEW i \in Invites, Time(i) PROVE Typed'
    <2>1. row[i] \in Row /\ row[i].id \in Nat /\ row[i].lease \in {"none", "running", "over"}
      BY DEF Row
    <2>2. /\ WithTimes(row[i], "due", "over") \in Row
          /\ WithTimes(row[i], "due", row[i].lease) \in Row
          /\ WithLife(row[i], "expired", row[i].id) \in Row
      BY <2>1, RowOperators DEF Lives
    <2> QED
      BY <1>9, <2>2 DEF Time, LeaseRunsOut, RetryBecomesDue, Expire, budgets, history, InAttempt
  <1>10. CASE UNCHANGED vars
    BY <1>10 DEF vars, InAttempt
  <1> QED
    BY <1>1, <1>2, <1>3, <1>4, <1>5, <1>6, <1>7, <1>8, <1>9, <1>10 DEF Next, Request

\* Every reachable state is well-typed, whatever the interleaving.
THEOREM TypeCorrect == Spec => []TypeOK
  <1>1. Typed => TypeOK
    BY DEF Typed
  <1> QED
    BY <1>1, TypeInit, TypeStep, PTL DEF Spec

-----------------------------------------------------------------------------
(* The inductive invariant behind NoLostEmail, OutcomeHasCause and the      *)
(* promise.  Attempt ids order everything that happens to a row: a claim    *)
(* moves the id past the schedule's, so while a row is `sending` under the  *)
(* id a worker has read, that worker knows the row's attempt count and has  *)
(* heard what the SMTP server said about the current email.                 *)

RowInv(i) ==
    /\ row[i].life = "absent" => row[i].status = "not_sent" /\ replies[i] = {}
    /\ schedId[i] <= row[i].id
    /\ row[i].status = "sending" => schedId[i] < row[i].id /\ row[i].attempts > 0
    /\ row[i].life = "active" /\ row[i].status \in Pending =>
          row[i].nonce /\ row[i].next # "none"
    /\ row[i].life = "active" /\ row[i].status = "sending" => row[i].lease # "none"
    /\ row[i].status = "sent" => "accepted" \in replies[i]
    /\ row[i].status = "failed" =>
          "refused" \in replies[i] \/ row[i].attempts >= MaxAttempts
    /\ row[i].life \in {"accepted", "revoked"} => row[i].next = "none" /\ row[i].lease = "none"

HasClaimed == {"readBack", "loadSpace", "smtp", "accepted", "deferred", "refused", "giveUp"}

\* Worker t holds the row's current claim.
Holds(t) ==
    /\ thr[t].pc \in HasClaimed \ {"readBack"}
    /\ thr[t].id = row[thr[t].job].id
    /\ row[thr[t].job].status = "sending"

ThreadInv(t) ==
    /\ thr[t].pc \in HasClaimed =>
          row[thr[t].job].life # "absent" /\ row[thr[t].job].status # "not_sent"
    /\ thr[t].pc \in HasClaimed \ {"readBack"} => thr[t].id <= row[thr[t].job].id
    /\ thr[t].pc = "giveUp" => thr[t].attempts > MaxAttempts
    /\ Holds(t) =>
          /\ thr[t].attempts = row[thr[t].job].attempts
          /\ thr[t].pc = "accepted" => "accepted" \in replies[thr[t].job]
          /\ thr[t].pc = "refused" => "refused" \in replies[thr[t].job]

RowsInv == \A i \in Invites : RowInv(i)
ThreadsInv == \A t \in Threads : ThreadInv(t)
IInv == Typed /\ RowsInv /\ ThreadsInv

\* How a step may change a row without misleading a worker that has read it.
RowMoves(old, new) ==
    /\ old.life # "absent" => new.life # "absent"
    /\ old.status # "not_sent" => new.status # "not_sent"
    /\ old.id <= new.id
    /\ new.id = old.id /\ new.status = "sending" =>
          old.status = "sending" /\ new.attempts = old.attempts

RowsMove ==
    \A i \in Invites :
        /\ RowMoves(row[i], row'[i])
        /\ row'[i].id = row[i].id => replies[i] \subseteq replies'[i]

LEMMA OtherThread ==
    ASSUME IInv, Typed', RowsMove, NEW t \in Threads,
           thr'[t] = thr[t] \/ thr'[t].pc \notin HasClaimed
    PROVE  ThreadInv(t)'
  <1>1. CASE thr'[t].pc \notin HasClaimed
    BY <1>1 DEF ThreadInv, Holds, HasClaimed
  <1>2. CASE thr'[t] = thr[t] /\ thr[t].pc \in HasClaimed
    <2> DEFINE i == thr[t].job
    <2>1. i \in Invites /\ i = thr'[t].job
      BY <1>2 DEF IInv, Typed, InAttempt, Attempting, HasClaimed, Places
    <2>2. row[i] \in Row /\ row'[i] \in Row /\ thr[t] \in Thread
      BY <2>1 DEF IInv, Typed, TypeOK
    <2>3. row[i].id \in Nat /\ row'[i].id \in Nat /\ thr[t].id \in Nat
      BY <2>2 DEF Row, Thread
    <2>4. RowMoves(row[i], row'[i]) /\ (row'[i].id = row[i].id => replies[i] \subseteq replies'[i])
      BY <2>1 DEF RowsMove
    <2>5. ThreadInv(t)
      BY DEF IInv, ThreadsInv
    <2>6. thr[t].pc \in HasClaimed \ {"readBack"} => thr[t].id <= row'[i].id
      BY <2>3, <2>4, <2>5 DEF ThreadInv, RowMoves
    <2>7. Holds(t)' => Holds(t) /\ row'[i].id = row[i].id
      BY <1>2, <2>1, <2>3, <2>4, <2>5 DEF Holds, ThreadInv, RowMoves
    <2>8. Holds(t)' =>
            /\ thr'[t].attempts = row'[i].attempts
            /\ thr'[t].pc = "accepted" => "accepted" \in replies'[i]
            /\ thr'[t].pc = "refused" => "refused" \in replies'[i]
      BY <1>2, <2>4, <2>5, <2>7 DEF ThreadInv, RowMoves, Holds
    <2> QED
      BY <1>2, <2>1, <2>4, <2>5, <2>6, <2>8 DEF ThreadInv, RowMoves
  <1> QED
    BY <1>1, <1>2

LEMMA InvInit == Init => IInv
  <1> SUFFICES ASSUME Init PROVE IInv
    OBVIOUS
  <1>1. Typed
    BY TypeInit
  <1>2. ASSUME NEW i \in Invites PROVE RowInv(i)
    <2>1. row[i] = AbsentRow \/ row[i] = LegacyRow
      BY DEF Init
    <2> QED
      BY <2>1 DEF Init, RowInv, AbsentRow, LegacyRow, Pending
  <1>3. ASSUME NEW t \in Threads PROVE ThreadInv(t)
    BY DEF Init, ThreadInv, Holds, HasClaimed, Idle, AtPc
  <1> QED
    BY <1>1, <1>2, <1>3 DEF IInv, RowsInv, ThreadsInv

\* A row that does not change, or changes only with its history kept, is fine.
LEMMA OneRow ==
    ASSUME IInv, NEW i \in Invites, NEW r,
           row' = [row EXCEPT ![i] = r], RowMoves(row[i], r),
           r.id = row[i].id => replies[i] \subseteq replies'[i],
           \A j \in Invites \ {i} : replies'[j] = replies[j] /\ schedId'[j] = schedId[j],
           RowInv(i)'
    PROVE  RowsInv' /\ RowsMove
  <1>1. row'[i] = r /\ \A j \in Invites \ {i} : row'[j] = row[j]
    BY DEF IInv, Typed, TypeOK
  <1>2. \A j \in Invites \ {i} : RowInv(j)'
    BY <1>1 DEF IInv, RowsInv, RowInv
  <1>3. \A j \in Invites \ {i} : row[j].id \in Nat
    BY DEF IInv, Typed, TypeOK, Row
  <1>4. \A j \in Invites \ {i} : RowMoves(row[j], row'[j])
    BY <1>1, <1>3 DEF RowMoves
  <1> QED
    BY <1>1, <1>2, <1>4 DEF RowsInv, RowsMove

LEMMA SameRows ==
    ASSUME IInv, UNCHANGED row, UNCHANGED schedId,
           \A i \in Invites : replies[i] \subseteq replies'[i],
           \A i \in Invites : row[i].life = "absent" => replies'[i] = replies[i]
    PROVE  RowsInv' /\ RowsMove
  <1>1. ASSUME NEW i \in Invites PROVE RowInv(i)'
    BY DEF IInv, RowsInv, RowInv
  <1>2. \A i \in Invites : row[i].id \in Nat
    BY DEF IInv, Typed, TypeOK, Row
  <1>3. \A i \in Invites : RowMoves(row[i], row'[i])
    BY <1>2 DEF RowMoves
  <1> QED
    BY <1>1, <1>3 DEF RowsInv, RowsMove

LEMMA OutsideAttempt ==
    /\ \A t : AfterAttempt(t).pc \notin HasClaimed
    /\ Idle.pc \notin HasClaimed
    /\ \A i : Starting(i).pc \notin HasClaimed
    /\ \A place \in {"find", "loop"} : AtPc(place).pc \notin HasClaimed
  BY DEF AfterAttempt, Idle, AtPc, Starting, HasClaimed

LEMMA DeliverSoonThreads ==
    ASSUME Typed, NEW i \in Invites, DeliverSoon(i)
    PROVE  \A t \in Threads : thr'[t] = thr[t] \/ thr'[t].pc \notin HasClaimed
  BY OutsideAttempt DEF DeliverSoon, Typed, TypeOK

\* An owner's or recipient's request.
LEMMA RequestKeepsInv ==
    ASSUME IInv, Typed', NEW i \in Invites, Request(i)
    PROVE  RowsInv' /\ ThreadsInv'
  <1>0. /\ row[i] \in Row /\ row[i].id \in Nat /\ RowInv(i)
        /\ schedId[i] \in Nat
    BY DEF IInv, Typed, TypeOK, Row, RowsInv
  <1>1. CASE CreateInvite(i)
    <2> DEFINE r == Scheduled(row[i], "active", row[i].id)
    <2>1. row' = [row EXCEPT ![i] = r] /\ UNCHANGED <<replies, schedId>> /\ row[i].life = "absent"
      BY <1>1 DEF CreateInvite, history
    <2>2. RowMoves(row[i], r)
      BY <1>0, <2>1 DEF RowMoves, Scheduled
    <2>3. RowInv(i)'
      BY <1>0, <2>1 DEF RowInv, Scheduled, Pending, IInv, Typed, TypeOK
    <2>4. RowsInv' /\ RowsMove
      BY <2>1, <2>2, <2>3, OneRow
    <2> QED
      BY <1>1, <2>4, DeliverSoonThreads, OtherThread DEF CreateInvite, IInv, ThreadsInv
  <1>2. CASE Expedite(i)
    <2> DEFINE r == WithTimes(row[i], "due", row[i].lease)
    <2>1. row' = [row EXCEPT ![i] = r] /\ UNCHANGED <<replies, schedId>> /\ row[i].life = "active"
      BY <1>2 DEF Expedite, history, Active
    <2>2. RowMoves(row[i], r)
      BY <1>0 DEF RowMoves, WithTimes
    <2>3. RowInv(i)'
      BY <1>0, <2>1 DEF RowInv, WithTimes, Pending, IInv, Typed, TypeOK
    <2>4. RowsInv' /\ RowsMove
      BY <2>1, <2>2, <2>3, OneRow
    <2> QED
      BY <1>2, <2>4, DeliverSoonThreads, OtherThread DEF Expedite, IInv, ThreadsInv
  <1>3. CASE Requeue(i)
    <2> DEFINE r == Scheduled(row[i], "active", row[i].id + 1)
    <2>1. /\ row' = [row EXCEPT ![i] = r] /\ row[i].life = "active"
          /\ replies' = [replies EXCEPT ![i] = {}]
          /\ schedId' = [schedId EXCEPT ![i] = row[i].id + 1]
      BY <1>3 DEF Requeue, Active
    <2>2. RowMoves(row[i], r) /\ r.id # row[i].id
      BY <1>0 DEF RowMoves, Scheduled
    <2>3. RowInv(i)'
      BY <1>0, <2>1 DEF RowInv, Scheduled, Pending, IInv, Typed, TypeOK
    <2>4. \A j \in Invites \ {i} : replies'[j] = replies[j] /\ schedId'[j] = schedId[j]
      BY <2>1 DEF IInv, Typed, TypeOK
    <2>5. RowsInv' /\ RowsMove
      BY <2>1, <2>2, <2>3, <2>4, OneRow
    <2> QED
      BY <1>3, <2>5, DeliverSoonThreads, OtherThread DEF Requeue, IInv, ThreadsInv
  <1>4. ASSUME NEW life \in {"revoked", "accepted"}, row[i].life \in {"active", "expired"},
               row' = [row EXCEPT ![i] = Ended(row[i], life)],
               UNCHANGED <<thr, replies, schedId>>
        PROVE  RowsInv' /\ ThreadsInv'
    <2> DEFINE r == Ended(row[i], life)
    <2>1. RowMoves(row[i], r)
      BY <1>0 DEF RowMoves, Ended, WithLife, WithTimes
    <2>2. RowInv(i)'
      BY <1>0, <1>4 DEF RowInv, Ended, WithLife, WithTimes, Pending, IInv, Typed, TypeOK
    <2>3. RowsInv' /\ RowsMove
      BY <1>4, <2>1, <2>2, OneRow
    <2> QED
      BY <1>4, <2>3, OtherThread DEF ThreadsInv
  <1> QED
    BY <1>1, <1>2, <1>3, <1>4 DEF Request, Revoke, Accept, Active, history

\* A step of the periodic run.
LEMMA PollKeepsInv ==
    ASSUME IInv, Typed', NEW p \in Pollers, PollStep(p)
    PROVE  RowsInv' /\ ThreadsInv'
  <1>1. UNCHANGED <<replies, schedId>>
    BY DEF PollStep, PollClear, PollFind, PollNext, PollEnd, history
  <1>2. \A t \in Threads : thr'[t] = thr[t] \/ thr'[t].pc \notin HasClaimed
    BY OutsideAttempt DEF PollStep, PollClear, PollFind, PollNext, PollEnd, IInv, Typed, TypeOK
  <1>3. CASE UNCHANGED row
    BY <1>1, <1>2, <1>3, SameRows, OtherThread DEF ThreadsInv
  <1>4. CASE PollClear(p)
    <2>1. \A i \in Invites : row'[i] = Cleared(row[i])
      BY <1>4 DEF PollClear
    <2>2. ASSUME NEW i \in Invites PROVE RowInv(i)' /\ RowMoves(row[i], row'[i])
      <3>1. RowInv(i) /\ row[i].id \in Nat
        BY DEF IInv, RowsInv, Typed, TypeOK, Row
      <3>2. RowInv(i)'
        <4>1. CASE row'[i] = row[i]
          BY <1>1, <3>1, <4>1 DEF RowInv
        <4>2. CASE /\ row'[i] = WithTimes(row[i], "none", "none")
                   /\ row[i].life \in {"accepted", "revoked", "expired"}
          BY <1>1, <3>1, <4>2 DEF RowInv, WithTimes
        <4> QED
          BY <2>1, <4>1, <4>2 DEF Cleared
      <3>3. RowMoves(row[i], row'[i])
        <4>1. row'[i] = row[i] \/ row'[i] = WithTimes(row[i], "none", "none")
          BY <2>1 DEF Cleared
        <4> QED
          BY <3>1, <4>1 DEF RowMoves, WithTimes
      <3> QED
        BY <3>2, <3>3
    <2>3. RowsInv' /\ RowsMove
      BY <1>1, <2>2 DEF RowsInv, RowsMove
    <2> QED
      BY <1>2, <2>3, OtherThread DEF ThreadsInv
  <1> QED
    BY <1>3, <1>4 DEF PollStep, PollFind, PollNext, PollEnd

\* The acting worker and its row, for the steps of an attempt.
LEMMA Acting ==
    ASSUME IInv, NEW t \in Threads, thr[t].pc \in Attempting
    PROVE  LET i == thr[t].job IN
             /\ i \in Invites
             /\ row[i] \in Row /\ row[i].id \in Nat /\ row[i].attempts \in Nat
             /\ thr[t] \in Thread /\ thr[t].id \in Nat /\ thr[t].attempts \in Nat
             /\ schedId[i] \in Nat
             /\ RowInv(i) /\ ThreadInv(t)
  BY DEF IInv, Typed, TypeOK, InAttempt, RowsInv, ThreadsInv, Row, Thread

\* Only t's place in the attempt changes.
LEMMA OnlyThread ==
    ASSUME IInv, Typed', NEW t \in Threads, NEW me,
           UNCHANGED <<row, replies, schedId>>, thr' = [thr EXCEPT ![t] = me],
           ThreadInv(t)'
    PROVE  RowsInv' /\ ThreadsInv'
  <1>1. RowsInv' /\ RowsMove
    BY SameRows
  <1>2. \A u \in Threads \ {t} : thr'[u] = thr[u]
    BY DEF IInv, Typed, TypeOK
  <1> QED
    BY <1>1, <1>2, OtherThread DEF ThreadsInv

LEMMA EndedAttempt ==
    ASSUME IInv, Typed', NEW t \in Threads,
           UNCHANGED <<row, replies, schedId>>,
           thr' = [thr EXCEPT ![t] = AfterAttempt(t)] \/ thr' = [thr EXCEPT ![t] = Idle]
    PROVE  RowsInv' /\ ThreadsInv'
  <1>1. RowsInv' /\ RowsMove
    BY SameRows
  <1>2. \A u \in Threads : thr'[u] = thr[u] \/ thr'[u].pc \notin HasClaimed
    BY OutsideAttempt DEF IInv, Typed, TypeOK
  <1> QED
    BY <1>1, <1>2, OtherThread DEF ThreadsInv

LEMMA ClaimKeepsInv ==
    ASSUME IInv, Typed', NEW t \in Threads, Claim(t)
    PROVE  RowsInv' /\ ThreadsInv'
  <1>0. PICK i \in Invites : i = thr[t].job
    BY Acting DEF Claim, Attempting, Places
  <1>1. /\ row[i] \in Row /\ row[i].id \in Nat /\ row[i].attempts \in Nat
        /\ schedId[i] \in Nat /\ RowInv(i)
    BY <1>0, Acting DEF Claim, Attempting, Places
  <1>2. UNCHANGED <<replies, schedId>>
    BY DEF Claim, history
  <1>3. CASE Claimable(row[i])
    <2> DEFINE r == Claimed(row[i])
    <2>1. row' = [row EXCEPT ![i] = r] /\ thr' = [thr EXCEPT ![t] = Holding(i, row[i].id + 1)]
      BY <1>0, <1>3 DEF Claim
    <2>2. row'[i] = r /\ thr'[t] = Holding(i, row[i].id + 1)
      BY <1>1, <2>1 DEF IInv, Typed, TypeOK
    <2>3. RowMoves(row[i], r) /\ r.id # row[i].id
      <3>1. /\ r.life = row[i].life /\ r.status = "sending" /\ r.id = row[i].id + 1
        BY DEF Claimed
      <3> HIDE DEF r
      <3> QED
        BY <1>1, <3>1 DEF RowMoves
    <2>4. RowInv(i)'
      <3>1. /\ r.life = "active" /\ r.status = "sending" /\ r.nonce
            /\ r.attempts = row[i].attempts + 1 /\ r.id = row[i].id + 1
            /\ r.next = "later" /\ r.lease = "running"
        BY <1>3 DEF Claimed, Claimable
      <3>2. schedId[i] < row[i].id + 1 /\ row[i].attempts + 1 > 0
        BY <1>1 DEF RowInv
      <3> HIDE DEF r
      <3> QED
        BY <1>1, <1>2, <2>2, <3>1, <3>2 DEF RowInv
    <2>5. RowsInv' /\ RowsMove
      BY <1>1, <1>2, <2>1, <2>3, <2>4, OneRow
    <2>6. ThreadInv(t)'
      BY <1>3, <2>2 DEF ThreadInv, Holding, Holds, HasClaimed, Claimed, Claimable
    <2>7. \A u \in Threads \ {t} : thr'[u] = thr[u]
      BY <2>1 DEF IInv, Typed, TypeOK
    <2> QED
      BY <2>5, <2>6, <2>7, OtherThread DEF ThreadsInv
  <1>4. CASE ~Claimable(row[i])
    BY <1>0, <1>2, <1>4, EndedAttempt DEF Claim
  <1> QED
    BY <1>3, <1>4

LEMMA ReadBackKeepsInv ==
    ASSUME IInv, Typed', NEW t \in Threads, ReadBack(t)
    PROVE  RowsInv' /\ ThreadsInv'
  <1> DEFINE i == thr[t].job
             me == HasRead(thr[t], row[i])
  <1>1. /\ i \in Invites /\ row[i] \in Row /\ row[i].id \in Nat /\ row[i].attempts \in Nat
        /\ RowInv(i) /\ ThreadInv(t) /\ thr[t].pc = "readBack"
    BY Acting DEF ReadBack, Attempting, Places
  <1>2. UNCHANGED <<row, replies, schedId>>
    BY DEF ReadBack, history
  <1>3. CASE row[i].life \in {"active", "expired"}
    <2>1. thr' = [thr EXCEPT ![t] = me]
      BY <1>3 DEF ReadBack
    <2>2. thr'[t] = me
      BY <2>1 DEF IInv, Typed, TypeOK
    <2>3. /\ me.job = i /\ me.id = row[i].id /\ me.attempts = row[i].attempts
          /\ me.pc \in {"giveUp", "loadSpace"}
          /\ me.pc = "giveUp" => row[i].attempts > MaxAttempts
      BY DEF HasRead, Exhausted
    <2>4. row[i].status # "not_sent"
      BY <1>1 DEF ThreadInv, HasClaimed
    <2>5. ThreadInv(t)'
      BY <1>1, <1>2, <1>3, <2>2, <2>3, <2>4 DEF ThreadInv, Holds
    <2> QED
      BY <1>2, <2>1, <2>5, OnlyThread
  <1>4. CASE row[i].life \notin {"active", "expired"}
    BY <1>2, <1>4, EndedAttempt DEF ReadBack
  <1> QED
    BY <1>3, <1>4

LEMMA LoadSpaceKeepsInv ==
    ASSUME IInv, Typed', NEW t \in Threads, LoadSpace(t)
    PROVE  RowsInv' /\ ThreadsInv'
  <1> DEFINE i == thr[t].job
             me == MovedTo(thr[t], "smtp")
  <1>1. i \in Invites /\ ThreadInv(t) /\ thr[t].pc = "loadSpace"
    BY Acting DEF LoadSpace, Attempting, Places
  <1>2. UNCHANGED <<row, replies, schedId>>
    BY DEF LoadSpace
  <1>3. CASE row[i].life = "gone"
    BY <1>2, <1>3, EndedAttempt DEF LoadSpace
  <1>4. CASE row[i].life # "gone"
    <2>1. thr' = [thr EXCEPT ![t] = me]
      BY <1>4 DEF LoadSpace
    <2>2. thr'[t] = me
      BY <2>1 DEF IInv, Typed, TypeOK
    <2>3. /\ me.job = i /\ me.id = thr[t].id /\ me.attempts = thr[t].attempts
          /\ me.pc = "smtp"
      BY DEF MovedTo
    <2>4. ThreadInv(t)'
      BY <1>1, <1>2, <2>2, <2>3 DEF ThreadInv, Holds, HasClaimed
    <2> QED
      BY <1>2, <2>1, <2>4, OnlyThread
  <1> QED
    BY <1>3, <1>4

LEMMA SmtpKeepsInv ==
    ASSUME IInv, Typed', NEW t \in Threads,
           NEW place \in {"accepted", "deferred", "refused"}, NEW said, SmtpEnds(t, place, said),
           place = "accepted" => "accepted" \in said,
           place = "refused" => "refused" \in said
    PROVE  RowsInv' /\ ThreadsInv'
  <1>0. PICK i \in Invites : i = thr[t].job
    BY Acting DEF SmtpEnds, Attempting, Places
  <1>1. /\ row[i] \in Row /\ row[i].id \in Nat /\ schedId[i] \in Nat /\ thr[t].id \in Nat
        /\ RowInv(i) /\ ThreadInv(t) /\ thr[t].pc = "smtp"
    BY <1>0, Acting DEF SmtpEnds, Attempting, Places
  <1> DEFINE me == MovedTo(thr[t], place)
  <1>2. UNCHANGED <<row, schedId>> /\ thr' = [thr EXCEPT ![t] = me]
    BY DEF SmtpEnds
  <1>3. /\ \A j \in Invites \ {i} : replies'[j] = replies[j]
        /\ replies'[i] = IF thr[t].id > schedId[i] THEN replies[i] \cup said ELSE replies[i]
    BY <1>0 DEF SmtpEnds, IInv, Typed, TypeOK
  <1>4. RowsInv' /\ RowsMove
    <2>1. row[i].life # "absent"
      BY <1>0, <1>1 DEF ThreadInv, HasClaimed
    <2>2. \A j \in Invites : replies[j] \subseteq replies'[j]
      BY <1>3
    <2>3. \A j \in Invites : row[j].life = "absent" => replies'[j] = replies[j]
      BY <1>3, <2>1
    <2> QED
      BY <1>2, <2>2, <2>3, SameRows
  <1>5. ThreadInv(t)'
    <2>1. thr'[t] = me
      BY <1>2 DEF IInv, Typed, TypeOK
    <2>2. me.job = i /\ me.id = thr[t].id /\ me.attempts = thr[t].attempts /\ me.pc = place
      BY <1>0 DEF MovedTo
    <2>3. row[i].life # "absent" /\ row[i].status # "not_sent" /\ thr[t].id <= row[i].id
      BY <1>0, <1>1 DEF ThreadInv, HasClaimed
    <2>4. ASSUME thr[t].id = row[i].id, row[i].status = "sending"
          PROVE  /\ thr[t].attempts = row[i].attempts
                 /\ place = "accepted" => "accepted" \in replies'[i]
                 /\ place = "refused" => "refused" \in replies'[i]
      <3>1. thr[t].id > schedId[i]
        BY <1>1, <2>4 DEF RowInv
      <3>2. Holds(t)
        BY <1>0, <1>1, <2>4 DEF Holds, HasClaimed
      <3> QED
        BY <1>0, <1>1, <1>3, <3>1, <3>2 DEF ThreadInv
    <2> HIDE DEF me
    <2> QED
      BY <1>2, <2>1, <2>2, <2>3, <2>4 DEF ThreadInv, Holds
  <1>6. \A u \in Threads \ {t} : thr'[u] = thr[u]
    BY <1>2 DEF IInv, Typed, TypeOK
  <1> QED
    BY <1>4, <1>5, <1>6, OtherThread DEF ThreadsInv

\* A result of the row's current attempt has its cause, and a retry its time.
LEMMA FinishKeepsInv ==
    ASSUME IInv, Typed', NEW t \in Threads, thr[t].pc \in HasClaimed \ {"readBack"},
           NEW status \in {"sent", "failed", "queued"}, NEW next, Finish(t, status, next),
           status = "sent" => thr[t].pc = "accepted",
           status = "failed" => thr[t].pc = "refused" \/ thr[t].attempts >= MaxAttempts,
           status = "queued" => (thr[t].attempts > 0 => next # "none")
    PROVE  RowsInv' /\ ThreadsInv'
  <1>0. PICK i \in Invites : i = thr[t].job
    BY Acting DEF HasClaimed, Attempting, Places
  <1>1. /\ row[i] \in Row /\ row[i].id \in Nat /\ row[i].attempts \in Nat
        /\ schedId[i] \in Nat /\ RowInv(i) /\ ThreadInv(t)
    BY <1>0, Acting DEF HasClaimed, Attempting, Places
  <1>2. UNCHANGED <<replies, schedId>> /\ thr' = [thr EXCEPT ![t] = AfterAttempt(t)]
    BY DEF Finish, history
  <1>3. \A u \in Threads : thr'[u] = thr[u] \/ thr'[u].pc \notin HasClaimed
    BY <1>2, OutsideAttempt DEF IInv, Typed, TypeOK
  <1>4. CASE StillCurrent(row[i], thr[t])
    <2> DEFINE r == WithStatus(row[i], status, next, "none")
    <2>1. row' = [row EXCEPT ![i] = r]
      BY <1>0, <1>4 DEF Finish
    <2>2. row'[i] = r
      BY <2>1 DEF IInv, Typed, TypeOK
    <2>3. /\ r.life = row[i].life /\ r.status = status /\ r.attempts = row[i].attempts
          /\ r.id = row[i].id /\ r.nonce = row[i].nonce /\ r.next = next
      BY DEF WithStatus
    <2>4. row[i].life = "active" /\ row[i].status = "sending" /\ Holds(t)
      BY <1>0, <1>4 DEF StillCurrent, Holds
    <2>5. /\ row[i].nonce /\ row[i].attempts > 0
          /\ thr[t].attempts = row[i].attempts
          /\ thr[t].pc = "accepted" => "accepted" \in replies[i]
          /\ thr[t].pc = "refused" => "refused" \in replies[i]
      BY <1>0, <1>1, <2>4 DEF RowInv, ThreadInv, Pending
    <2>6. schedId[i] <= row[i].id
      BY <1>1 DEF RowInv
    <2> HIDE DEF r
    <2>7. RowMoves(row[i], r)
      BY <1>1, <2>3, <2>4 DEF RowMoves
    <2>8. RowInv(i)'
      BY <1>2, <2>2, <2>3, <2>4, <2>5, <2>6 DEF RowInv, Pending
    <2>9. RowsInv' /\ RowsMove
      BY <1>2, <2>1, <2>7, <2>8, OneRow
    <2> QED
      BY <1>3, <2>9, OtherThread DEF ThreadsInv
  <1>5. CASE ~StillCurrent(row[i], thr[t])
    BY <1>0, <1>2, <1>5, EndedAttempt DEF Finish
  <1> QED
    BY <1>4, <1>5

LEMMA AttemptKeepsInv ==
    ASSUME IInv, Typed', NEW t \in Threads, AttemptStep(t)
    PROVE  RowsInv' /\ ThreadsInv'
  <1>1. CASE SmtpAccepts(t) \/ SmtpRefuses(t) \/ SmtpDefers(t)
    BY <1>1, SmtpKeepsInv DEF SmtpAccepts, SmtpRefuses, SmtpDefers
  <1>2. CASE FinishSent(t)
    BY <1>2, FinishKeepsInv DEF FinishSent, HasClaimed
  <1>3. CASE FinishFailed(t)
    <2>1. thr[t].pc \in HasClaimed \ {"readBack"}
      BY <1>3 DEF FinishFailed, HasClaimed
    <2>2. thr[t].attempts \in Nat
      BY DEF IInv, Typed, TypeOK, Thread
    <2>3. thr[t].pc = "refused" \/ thr[t].attempts >= MaxAttempts
      BY <1>3, <2>2, LimitAssumption DEF FinishFailed, IInv, ThreadsInv, ThreadInv
    <2> QED
      BY <1>3, <2>1, <2>3, FinishKeepsInv DEF FinishFailed
  <1>4. CASE FinishRetry(t)
    <2>1. thr[t].attempts \in Nat
      BY DEF IInv, Typed, TypeOK, Thread
    <2>2. thr[t].attempts > 0 => RetryAt(thr[t].attempts) # "none"
      BY <1>4, <2>1, LimitAssumption DEF FinishRetry, RetryAt
    <2> QED
      BY <1>4, <2>2, FinishKeepsInv DEF FinishRetry, HasClaimed
  <1> QED
    BY <1>1, <1>2, <1>3, <1>4, ClaimKeepsInv, ReadBackKeepsInv, LoadSpaceKeepsInv
    DEF AttemptStep

LEMMA FailureKeepsInv ==
    ASSUME IInv, Typed', NEW t \in Threads, Failure(t)
    PROVE  RowsInv' /\ ThreadsInv'
  <1>1. UNCHANGED <<row, replies, schedId>>
    BY DEF Failure, AttemptError, Crash, history
  <1>2. thr' = [thr EXCEPT ![t] = AfterAttempt(t)] \/ thr' = [thr EXCEPT ![t] = Idle]
    BY DEF Failure, AttemptError, Crash
  <1> QED
    BY <1>1, <1>2, EndedAttempt

LEMMA TimeKeepsInv ==
    ASSUME IInv, Typed', NEW i \in Invites, Time(i)
    PROVE  RowsInv' /\ ThreadsInv'
  <1>1. /\ row[i] \in Row /\ row[i].id \in Nat /\ schedId[i] \in Nat /\ RowInv(i)
    BY DEF IInv, Typed, TypeOK, Row, RowsInv
  <1>2. UNCHANGED <<thr, replies, schedId>>
    BY DEF Time, LeaseRunsOut, RetryBecomesDue, Expire, history
  <1>3. ASSUME NEW r, row' = [row EXCEPT ![i] = r], RowMoves(row[i], r), RowInv(i)'
        PROVE  RowsInv' /\ ThreadsInv'
    <2>1. RowsInv' /\ RowsMove
      BY <1>2, <1>3, OneRow
    <2> QED
      BY <1>2, <2>1, OtherThread DEF ThreadsInv
  <1>4. CASE LeaseRunsOut(i)
    <2> DEFINE r == WithTimes(row[i], "due", "over")
    <2>1. row' = [row EXCEPT ![i] = r] /\ row[i].lease = "running"
      BY <1>4 DEF LeaseRunsOut
    <2>2. RowInv(i)'
      BY <1>1, <1>2, <2>1 DEF RowInv, WithTimes, IInv, Typed, TypeOK
    <2>3. RowMoves(row[i], r)
      BY <1>1 DEF RowMoves, WithTimes
    <2> QED
      BY <1>3, <2>1, <2>2, <2>3
  <1>5. CASE RetryBecomesDue(i)
    <2> DEFINE r == WithTimes(row[i], "due", row[i].lease)
    <2>1. row' = [row EXCEPT ![i] = r] /\ row[i].next = "later"
      BY <1>5 DEF RetryBecomesDue
    <2>2. RowInv(i)'
      BY <1>1, <1>2, <2>1 DEF RowInv, WithTimes, IInv, Typed, TypeOK
    <2>3. RowMoves(row[i], r)
      BY <1>1 DEF RowMoves, WithTimes
    <2> QED
      BY <1>3, <2>1, <2>2, <2>3
  <1>6. CASE Expire(i)
    <2> DEFINE r == WithLife(row[i], "expired", row[i].id)
    <2>1. row' = [row EXCEPT ![i] = r]
      BY <1>6 DEF Expire
    <2>2. RowInv(i)'
      BY <1>1, <1>2, <2>1 DEF RowInv, WithLife, IInv, Typed, TypeOK
    <2>3. RowMoves(row[i], r)
      BY <1>1 DEF RowMoves, WithLife
    <2> QED
      BY <1>3, <2>1, <2>2, <2>3
  <1> QED
    BY <1>4, <1>5, <1>6 DEF Time

LEMMA DeleteKeepsInv ==
    ASSUME IInv, Typed', DeleteSpace
    PROVE  RowsInv' /\ ThreadsInv'
  <1>1. UNCHANGED <<thr, replies, schedId>>
    BY DEF DeleteSpace, history
  <1>2. ASSUME NEW i \in Invites PROVE RowInv(i)' /\ RowMoves(row[i], row'[i])
    <2>1. row'[i] = WithLife(row[i], "gone", row[i].id)
      BY DEF DeleteSpace
    <2>2. RowInv(i) /\ row[i].id \in Nat
      BY DEF IInv, RowsInv, Typed, TypeOK, Row
    <2>3. RowInv(i)'
      BY <1>1, <2>1, <2>2 DEF RowInv, WithLife
    <2>4. RowMoves(row[i], row'[i])
      BY <2>1, <2>2 DEF RowMoves, WithLife
    <2> QED
      BY <2>3, <2>4
  <1>3. RowsInv' /\ RowsMove
    BY <1>1, <1>2 DEF RowsInv, RowsMove
  <1> QED
    BY <1>1, <1>3, OtherThread DEF ThreadsInv

LEMMA InvStep == IInv /\ [Next]_vars => IInv'
  <1> SUFFICES ASSUME IInv, [Next]_vars PROVE IInv'
    OBVIOUS
  <1>1. Typed'
    BY TypeStep DEF IInv
  <1>2. CASE UNCHANGED vars
    <2>1. RowsInv' /\ RowsMove
      BY <1>2, SameRows DEF vars
    <2> QED
      BY <1>1, <1>2, <2>1, OtherThread DEF vars, IInv, ThreadsInv
  <1>3. CASE Next
    <2>1. RowsInv' /\ ThreadsInv'
      BY <1>1, <1>3, RequestKeepsInv, DeleteKeepsInv, PollKeepsInv, AttemptKeepsInv,
         FailureKeepsInv, TimeKeepsInv
      DEF Next
    <2> QED
      BY <1>1, <2>1 DEF IInv
  <1> QED
    BY <1>2, <1>3

LEMMA InvAlways == Spec => []IInv
  BY InvInit, InvStep, PTL DEF Spec

\* A pending email of an active invitation always has its link, its schedule
\* and, while an attempt holds it, its lease.
THEOREM EmailNeverLost == Spec => []NoLostEmail
  <1>1. IInv => NoLostEmail
    BY DEF IInv, RowsInv, RowInv, NoLostEmail, Active
  <1> QED
    BY <1>1, InvAlways, PTL

\* `sent` and `failed` are never shown without their cause.
THEOREM OutcomesHaveCauses == Spec => []OutcomeHasCause
  <1>1. IInv => OutcomeHasCause
    BY DEF IInv, RowsInv, RowInv, OutcomeHasCause
  <1> QED
    BY <1>1, InvAlways, PTL

-----------------------------------------------------------------------------
(* An accepted or revoked invitation is never written again.               *)

EndedRowsKept ==
    \A i \in Invites :
        row[i].life \in {"accepted", "revoked"} => row'[i].life = "gone" \/ row'[i] = row[i]

LEMMA EndedStep == IInv /\ [Next]_vars => EndedRowsKept
  <1> SUFFICES ASSUME IInv, [Next]_vars, NEW i \in Invites,
                      row[i].life \in {"accepted", "revoked"}
               PROVE  row'[i].life = "gone" \/ row'[i] = row[i]
    BY DEF EndedRowsKept
  <1>1. row[i] \in Row /\ row[i].next = "none" /\ row[i].lease = "none"
    BY DEF IInv, Typed, TypeOK, RowsInv, RowInv
  <1>2. ASSUME NEW j \in Invites, NEW r, row' = [row EXCEPT ![j] = r], j # i
        PROVE  row'[i] = row[i]
    BY <1>2 DEF IInv, Typed, TypeOK
  <1>3. ASSUME NEW j \in Invites, Request(j) PROVE row'[i] = row[i]
    <2>1. row[j].life \in {"absent", "active", "expired"}
      BY <1>3 DEF Request, CreateInvite, Expedite, Requeue, Revoke, Accept, Active
    <2>2. j # i
      BY <2>1
    <2> QED
      BY <1>2, <1>3, <2>2 DEF Request, CreateInvite, Expedite, Requeue, Revoke, Accept
  <1>4. CASE DeleteSpace
    BY <1>4 DEF DeleteSpace, WithLife
  <1>5. ASSUME NEW p \in Pollers, PollStep(p) PROVE row'[i] = row[i]
    <2>1. CASE PollClear(p)
      <3>1. row'[i] = row[i] \/ row'[i] = WithTimes(row[i], "none", "none")
        BY <2>1 DEF PollClear, Cleared
      <3>2. WithTimes(row[i], "none", "none") = row[i]
        BY <1>1 DEF WithTimes, Row
      <3> QED
        BY <3>1, <3>2
    <2> QED
      BY <1>5, <2>1 DEF PollStep, PollFind, PollNext, PollEnd
  <1>6. ASSUME NEW t \in Threads, AttemptStep(t) PROVE row'[i] = row[i]
    <2>1. CASE Claim(t)
      <3>1. PICK j \in Invites : j = thr[t].job
        BY <2>1, Acting DEF Claim, Attempting, Places
      <3>2. CASE Claimable(row[j])
        BY <1>2, <2>1, <3>1, <3>2 DEF Claim, Claimable
      <3> QED
        BY <2>1, <3>1, <3>2 DEF Claim
    <2>2. ASSUME NEW status, NEW next, Finish(t, status, next), thr[t].pc \in Attempting
          PROVE  row'[i] = row[i]
      <3>1. PICK j \in Invites : j = thr[t].job
        BY <2>2, Acting
      <3>2. CASE StillCurrent(row[j], thr[t])
        BY <1>2, <2>2, <3>1, <3>2 DEF Finish, StillCurrent
      <3> QED
        BY <2>2, <3>1, <3>2 DEF Finish
    <2>3. CASE FinishSent(t) \/ FinishFailed(t) \/ FinishRetry(t)
      BY <2>2, <2>3 DEF FinishSent, FinishFailed, FinishRetry, Attempting, Places
    <2> QED
      BY <1>6, <2>1, <2>3
      DEF AttemptStep, ReadBack, LoadSpace, SmtpAccepts, SmtpRefuses, SmtpDefers, SmtpEnds
  <1>7. ASSUME NEW t \in Threads, Failure(t) PROVE row'[i] = row[i]
    BY <1>7 DEF Failure, AttemptError, Crash
  <1>8. ASSUME NEW j \in Invites, Time(j) PROVE row'[i] = row[i]
    <2>1. j # i
      BY <1>1, <1>8 DEF Time, LeaseRunsOut, RetryBecomesDue, Expire, Active
    <2> QED
      BY <1>2, <1>8, <2>1 DEF Time, LeaseRunsOut, RetryBecomesDue, Expire
  <1>9. CASE UNCHANGED vars
    BY <1>9 DEF vars
  <1> QED
    BY <1>3, <1>4, <1>5, <1>6, <1>7, <1>8, <1>9 DEF Next

\* No claim, late result, retry, resend or periodic run writes the row of an
\* accepted or revoked invitation.
THEOREM EndedRowsAreFinal == Spec => EndedRowsStay
  <1>1. IInv /\ [Next]_vars => [EndedRowsKept]_vars
    BY EndedStep
  <1>2. Spec => [][EndedRowsKept]_vars
    BY <1>1, InvAlways, PTL DEF Spec
  <1> QED
    BY <1>2 DEF EndedRowsStay, EndedRowsKept

-----------------------------------------------------------------------------
(* InviteDelivery implements EmailPromise.                                 *)

Mail == [i \in Invites |-> MailOf(row[i])]
Got  == [i \in Invites |-> "accepted" \in replies[i]]

LEMMA NoNews ==
    ASSUME \A i \in Invites : MailOf(row'[i]) = MailOf(row[i]), UNCHANGED replies
    PROVE  UNCHANGED Promise!vars
  BY DEF Promise!vars

\* MailOf depends on two columns only.
LEMMA MailCases ==
    ASSUME NEW r \in Row
    PROVE  /\ r.life = "absent" => MailOf(r) = "none"
           /\ r.life = "active" /\ r.status = "not_sent" => MailOf(r) = "none"
           /\ r.life = "active" /\ r.status \in Pending => MailOf(r) = "pending"
           /\ r.life = "active" /\ r.status = "sent" => MailOf(r) = "sent"
           /\ r.life = "active" /\ r.status = "failed" => MailOf(r) = "failed"
           /\ r.life \notin {"absent", "active"} => MailOf(r) = "ended"
  BY DEF MailOf, Pending

LEMMA SameMail ==
    ASSUME NEW r, NEW q, r.life = q.life, r.status = q.status
    PROVE  MailOf(r) = MailOf(q)
  BY DEF MailOf, Pending

LEMMA OneMail ==
    ASSUME Typed, NEW i \in Invites, NEW r, row' = [row EXCEPT ![i] = r]
    PROVE  /\ row'[i] = r
           /\ Mail' = [Mail EXCEPT ![i] = MailOf(r)]
  <1>1. row'[i] = r /\ \A j \in Invites \ {i} : row'[j] = row[j]
    BY DEF Typed, TypeOK
  <1>2. Mail' = [j \in Invites |-> MailOf(row'[j])]
    BY DEF Mail
  <1>3. \A j \in Invites : MailOf(row'[j]) = [Mail EXCEPT ![i] = MailOf(r)][j]
    BY <1>1 DEF Mail
  <1> QED
    BY <1>1, <1>2, <1>3 DEF Mail

LEMMA PromiseInit == Init => Promise!Init
  <1> SUFFICES ASSUME Init PROVE Promise!Init
    OBVIOUS
  <1>1. \A i \in Invites : MailOf(row[i]) = "none"
    <2>1. ASSUME NEW i \in Invites PROVE MailOf(row[i]) = "none"
      <3>1. row[i] \in Row
        BY TypeInit DEF Typed, TypeOK
      <3>2. row[i].life \in {"absent", "active"} /\ row[i].status = "not_sent"
        BY DEF Init, AbsentRow, LegacyRow
      <3> QED
        BY <3>1, <3>2, MailCases
    <2> QED
      BY <2>1
  <1>2. \A i \in Invites : ("accepted" \in replies[i]) = FALSE
    BY DEF Init
  <1> QED
    BY <1>1, <1>2 DEF Promise!Init

\* What each kind of step does to the promise.
LEMMA SchedulePromise ==
    ASSUME NEW i \in Invites, Mail[i] \in {"none", "sent", "failed"},
           Mail' = [Mail EXCEPT ![i] = "pending"],
           "accepted" \notin replies'[i],
           \A j \in Invites \ {i} : replies'[j] = replies[j]
    PROVE  Promise!Next
  <1>1. Got' = [Got EXCEPT ![i] = FALSE]
    <2>1. Got' = [j \in Invites |-> "accepted" \in replies'[j]]
      BY DEF Got
    <2>2. ASSUME NEW j \in Invites
          PROVE  ("accepted" \in replies'[j]) = [Got EXCEPT ![i] = FALSE][j]
      <3>1. Got[j] = ("accepted" \in replies[j])
        BY DEF Got
      <3>2. [Got EXCEPT ![i] = FALSE][j] = IF j = i THEN FALSE ELSE Got[j]
        BY DEF Got
      <3>3. CASE j = i
        <4>1. ("accepted" \in replies'[j]) = FALSE
          BY <3>3
        <4> QED
          BY <3>2, <3>3, <4>1
      <3>4. CASE j # i
        <4>1. replies'[j] = replies[j]
          BY <3>4
        <4> QED
          BY <3>1, <3>2, <3>4, <4>1
      <3> QED
        BY <3>3, <3>4
    <2> QED
      BY <2>1, <2>2 DEF Got
  <1> QED
    BY <1>1 DEF Promise!Next, Promise!Schedule, Mail, Got

LEMMA SettlePromise ==
    ASSUME NEW i \in Invites, Mail[i] = "pending", UNCHANGED replies,
           \/ "accepted" \in replies[i] /\ Mail' = [Mail EXCEPT ![i] = "sent"]
           \/ Mail' = [Mail EXCEPT ![i] = "failed"]
    PROVE  Promise!Next
  <1>1. UNCHANGED Got
    BY DEF Got
  <1>2. Got[i] = ("accepted" \in replies[i])
    BY DEF Got
  <1> QED
    BY <1>1, <1>2 DEF Promise!Next, Promise!Settle, Mail, Got

LEMMA ReachPromise ==
    ASSUME NEW i \in Invites, Mail[i] # "none", UNCHANGED Mail,
           "accepted" \in replies'[i],
           \A j \in Invites \ {i} : replies'[j] = replies[j]
    PROVE  Promise!Next
  <1>1. Got' = [Got EXCEPT ![i] = TRUE]
    <2>1. Got' = [j \in Invites |-> "accepted" \in replies'[j]]
      BY DEF Got
    <2>2. \A j \in Invites : ("accepted" \in replies'[j]) = [Got EXCEPT ![i] = TRUE][j]
      BY DEF Got
    <2> QED
      BY <2>1, <2>2 DEF Got
  <1> QED
    BY <1>1 DEF Promise!Next, Promise!Reach, Mail, Got

LEMMA EndPromise ==
    ASSUME NEW S \in SUBSET Invites, UNCHANGED replies,
           \A i \in Invites : MailOf(row'[i]) = IF i \in S THEN "ended" ELSE MailOf(row[i])
    PROVE  Promise!Next
  <1>1. UNCHANGED Got
    BY DEF Got
  <1>2. Mail' = [i \in Invites |-> IF i \in S THEN "ended" ELSE Mail[i]]
    BY DEF Mail
  <1> QED
    BY <1>1, <1>2 DEF Promise!Next, Promise!End, Mail, Got

LEMMA PromiseStep == IInv /\ IInv' /\ [Next]_vars => [Promise!Next]_(Promise!vars)
  <1> SUFFICES ASSUME IInv, IInv', [Next]_vars
               PROVE  Promise!Next \/ UNCHANGED Promise!vars
    BY DEF Promise!vars
  <1> USE DEF IInv
  <1>1. \A i \in Invites : row[i] \in Row /\ row'[i] \in Row
    BY DEF Typed, TypeOK
  <1>2. ASSUME NEW i \in Invites, CreateInvite(i) PROVE Promise!Next
    <2>1. row' = [row EXCEPT ![i] = Scheduled(row[i], "active", row[i].id)]
      BY <1>2 DEF CreateInvite
    <2>2. row'[i].life = "active" /\ row'[i].status = "queued"
      <3>1. row'[i] = Scheduled(row[i], "active", row[i].id)
        BY <2>1, OneMail
      <3> QED
        BY <3>1 DEF Scheduled
    <2>3. MailOf(row'[i]) = "pending"
      BY <1>1, <2>2, MailCases DEF Pending
    <2>4. Mail' = [Mail EXCEPT ![i] = "pending"]
      BY <2>1, <2>3, OneMail
    <2>5. Mail[i] = "none" /\ replies[i] = {}
      BY <1>1, <1>2, MailCases DEF CreateInvite, Mail, RowsInv, RowInv
    <2> QED
      BY <1>2, <2>4, <2>5, SchedulePromise DEF CreateInvite, history
  <1>3. ASSUME NEW i \in Invites, Requeue(i) PROVE Promise!Next
    <2>1. /\ row' = [row EXCEPT ![i] = Scheduled(row[i], "active", row[i].id + 1)]
          /\ replies' = [replies EXCEPT ![i] = {}]
          /\ row[i].life = "active" /\ EffectiveStatus(i) \notin {"queued", "sending"}
      BY <1>3 DEF Requeue, Active
    <2>2. row'[i].life = "active" /\ row'[i].status = "queued"
      <3>1. row'[i] = Scheduled(row[i], "active", row[i].id + 1)
        BY <2>1, OneMail
      <3> QED
        BY <3>1 DEF Scheduled
    <2>3. MailOf(row'[i]) = "pending"
      BY <1>1, <2>2, MailCases DEF Pending
    <2>4. Mail' = [Mail EXCEPT ![i] = "pending"]
      BY <2>1, <2>3, OneMail
    <2>5. row[i].status \in {"not_sent", "sent", "failed"}
      BY <1>1, <2>1 DEF EffectiveStatus, Row, Statuses
    <2>6. Mail[i] \in {"none", "sent", "failed"}
      BY <1>1, <2>1, <2>5, MailCases DEF Mail
    <2>7. "accepted" \notin replies'[i] /\ \A j \in Invites \ {i} : replies'[j] = replies[j]
      BY <2>1 DEF Typed, TypeOK
    <2> QED
      BY <2>4, <2>6, <2>7, SchedulePromise
  <1>4. ASSUME NEW i \in Invites, NEW r, row' = [row EXCEPT ![i] = r], UNCHANGED replies,
               r.life = row[i].life /\ r.status = row[i].status
        PROVE  UNCHANGED Promise!vars
    <2>1. \A j \in Invites : MailOf(row'[j]) = MailOf(row[j])
      BY <1>4, OneMail, SameMail DEF Typed, TypeOK
    <2> QED
      BY <1>4, <2>1, NoNews
  <1>5. ASSUME NEW i \in Invites, Expedite(i) PROVE UNCHANGED Promise!vars
    BY <1>4, <1>5 DEF Expedite, WithTimes, history
  <1>6. ASSUME NEW i \in Invites, NEW r, row' = [row EXCEPT ![i] = r], UNCHANGED replies,
               r.life \in {"revoked", "accepted", "expired"}
        PROVE  Promise!Next
    <2>1. row'[i] = r /\ \A j \in Invites \ {i} : row'[j] = row[j]
      BY <1>6 DEF Typed, TypeOK
    <2>2. MailOf(row'[i]) = "ended"
      BY <1>1, <1>6, <2>1, MailCases
    <2>3. \A j \in Invites : MailOf(row'[j]) = IF j \in {i} THEN "ended" ELSE MailOf(row[j])
      BY <2>1, <2>2
    <2>4. {i} \in SUBSET Invites
      OBVIOUS
    <2> QED
      BY <1>6, <2>3, <2>4, EndPromise
  <1>7. ASSUME NEW i \in Invites, Revoke(i) \/ Accept(i) \/ Expire(i) PROVE Promise!Next
    BY <1>6, <1>7 DEF Revoke, Accept, Expire, Ended, WithLife, WithTimes, history
  <1>8. CASE DeleteSpace
    <2>1. \A i \in Invites : row'[i].life = "gone"
      BY <1>8 DEF DeleteSpace, WithLife
    <2>2. \A i \in Invites : MailOf(row'[i]) = "ended"
      BY <1>1, <2>1, MailCases
    <2> QED
      BY <1>8, <2>2, EndPromise DEF DeleteSpace, history
  <1>9. ASSUME NEW p \in Pollers, PollStep(p) PROVE UNCHANGED Promise!vars
    <2>1. UNCHANGED replies
      BY <1>9 DEF PollStep, PollClear, PollFind, PollNext, PollEnd, history
    <2>2. \A i \in Invites : row'[i] = row[i] \/ row'[i] = WithTimes(row[i], "none", "none")
      BY <1>9 DEF PollStep, PollClear, PollFind, PollNext, PollEnd, Cleared
    <2>3. ASSUME NEW i \in Invites
          PROVE  row'[i].life = row[i].life /\ row'[i].status = row[i].status
      <3>1. CASE row'[i] = row[i]
        BY <3>1
      <3>2. CASE row'[i] = WithTimes(row[i], "none", "none")
        BY <3>2 DEF WithTimes
      <3> QED
        BY <2>2, <3>1, <3>2
    <2> QED
      BY <2>1, <2>3, SameMail, NoNews
  <1>10. ASSUME NEW t \in Threads, AttemptStep(t)
         PROVE  Promise!Next \/ UNCHANGED Promise!vars
    <2>1. CASE Claim(t)
      <3>1. PICK i \in Invites : i = thr[t].job
        BY <2>1, Acting DEF Claim, Attempting, Places
      <3>2. UNCHANGED replies
        BY <2>1 DEF Claim, history
      <3>3. CASE Claimable(row[i])
        <4>1. row' = [row EXCEPT ![i] = Claimed(row[i])]
          BY <2>1, <3>1, <3>3 DEF Claim
        <4>2. MailOf(row[i]) = "pending"
          BY <1>1, <3>3, MailCases DEF Claimable, Pending
        <4>3. row'[i].life = "active" /\ row'[i].status = "sending"
          <5>1. row'[i] = Claimed(row[i])
            BY <4>1, OneMail
          <5> QED
            BY <3>3, <5>1 DEF Claimed, Claimable
        <4>4. MailOf(row'[i]) = "pending"
          BY <1>1, <4>3, MailCases DEF Pending
        <4>5. \A j \in Invites \ {i} : row'[j] = row[j]
          BY <4>1 DEF Typed, TypeOK
        <4> QED
          BY <3>2, <4>2, <4>4, <4>5, NoNews
      <3>4. CASE ~Claimable(row[i])
        BY <2>1, <3>1, <3>2, <3>4, NoNews DEF Claim
      <3> QED
        BY <3>3, <3>4
    <2>2. CASE ReadBack(t) \/ LoadSpace(t)
      BY <2>2, NoNews DEF ReadBack, LoadSpace, history
    <2>3. ASSUME NEW place, NEW said, SmtpEnds(t, place, said)
          PROVE  Promise!Next \/ UNCHANGED Promise!vars
      <3>1. PICK i \in Invites : i = thr[t].job
        BY <2>3, Acting DEF SmtpEnds, Attempting, Places
      <3>2. /\ UNCHANGED row
            /\ \A j \in Invites \ {i} : replies'[j] = replies[j]
            /\ replies'[i] = replies[i] \/ replies'[i] = replies[i] \cup said
        BY <2>3, <3>1 DEF SmtpEnds, Typed, TypeOK
      <3>3. UNCHANGED Mail
        BY <3>2 DEF Mail
      <3>4. Mail[i] # "none"
        <4>1. thr[t].pc = "smtp" /\ ThreadInv(t)
          BY <2>3 DEF SmtpEnds, ThreadsInv
        <4>2. row[i].life # "absent" /\ row[i].status # "not_sent"
          BY <3>1, <4>1 DEF ThreadInv, HasClaimed
        <4> QED
          BY <4>2 DEF Mail, MailOf, Pending
      <3>5. CASE "accepted" \in replies'[i]
        BY <3>2, <3>3, <3>4, <3>5, ReachPromise
      <3>6. CASE "accepted" \notin replies'[i]
        <4>1. "accepted" \notin replies[i]
          BY <3>2, <3>6
        <4>2. UNCHANGED Got
          BY <3>2, <3>6, <4>1 DEF Got
        <4> QED
          BY <3>3, <4>2 DEF Promise!vars, Mail, Got
      <3> QED
        BY <3>5, <3>6
    <2>4. CASE SmtpAccepts(t) \/ SmtpRefuses(t) \/ SmtpDefers(t)
      BY <2>3, <2>4 DEF SmtpAccepts, SmtpRefuses, SmtpDefers
    <2>5. ASSUME NEW status \in {"sent", "failed", "queued"}, NEW next, Finish(t, status, next),
                 thr[t].pc \in HasClaimed \ {"readBack"},
                 status = "sent" => thr[t].pc = "accepted"
          PROVE  Promise!Next \/ UNCHANGED Promise!vars
      <3>1. PICK i \in Invites : i = thr[t].job
        BY <2>5, Acting DEF HasClaimed, Attempting, Places
      <3>2. UNCHANGED replies
        BY <2>5 DEF Finish, history
      <3>3. CASE ~StillCurrent(row[i], thr[t])
        BY <2>5, <3>1, <3>2, <3>3, NoNews DEF Finish
      <3>4. CASE StillCurrent(row[i], thr[t])
        <4>1. row' = [row EXCEPT ![i] = WithStatus(row[i], status, next, "none")]
          BY <2>5, <3>1, <3>4 DEF Finish
        <4>2. row'[i].life = "active" /\ row'[i].status = status
          <5>1. row'[i] = WithStatus(row[i], status, next, "none")
            BY <4>1, OneMail
          <5> QED
            BY <3>4, <5>1 DEF WithStatus, StillCurrent
        <4>3. MailOf(row[i]) = "pending"
          BY <1>1, <3>4, MailCases DEF StillCurrent, Pending
        <4>4. \A j \in Invites \ {i} : row'[j] = row[j]
          BY <4>1 DEF Typed, TypeOK
        <4>5. CASE status = "queued"
          <5>1. MailOf(row'[i]) = "pending"
            BY <1>1, <4>2, <4>5, MailCases DEF Pending
          <5> QED
            BY <3>2, <4>3, <4>4, <5>1, NoNews
        <4>6. CASE status \in {"sent", "failed"}
          <5>1. MailOf(row'[i]) = status
            BY <1>1, <4>2, <4>6, MailCases
          <5>2. Mail' = [Mail EXCEPT ![i] = status]
            BY <4>1, <5>1, OneMail
          <5>3. status = "sent" => "accepted" \in replies[i]
            BY <2>5, <3>1, <3>4 DEF ThreadsInv, ThreadInv, Holds, StillCurrent
          <5>4. Mail[i] = "pending"
            BY <4>3 DEF Mail
          <5> QED
            BY <3>2, <4>6, <5>2, <5>3, <5>4, SettlePromise
        <4> QED
          BY <4>5, <4>6
      <3> QED
        BY <3>3, <3>4
    <2>6. CASE FinishSent(t) \/ FinishFailed(t) \/ FinishRetry(t)
      BY <2>5, <2>6 DEF FinishSent, FinishFailed, FinishRetry, HasClaimed
    <2> QED
      BY <1>10, <2>1, <2>2, <2>4, <2>6 DEF AttemptStep
  <1>11. ASSUME NEW t \in Threads, Failure(t) PROVE UNCHANGED Promise!vars
    BY <1>11, NoNews DEF Failure, AttemptError, Crash, history
  <1>12. ASSUME NEW i \in Invites, LeaseRunsOut(i) \/ RetryBecomesDue(i)
         PROVE  UNCHANGED Promise!vars
    BY <1>4, <1>12 DEF LeaseRunsOut, RetryBecomesDue, WithTimes, history
  <1>13. CASE UNCHANGED vars
    BY <1>13, NoNews DEF vars
  <1> QED
    BY <1>2, <1>3, <1>5, <1>7, <1>8, <1>9, <1>10, <1>11, <1>12, <1>13
    DEF Next, Request, Time

\* Delivery keeps its promise: every behaviour of the rows and workers is a
\* behaviour of EmailPromise.
THEOREM DeliveryKeepsPromise == Spec => KeepsPromise
  <1>1. Spec => Promise!Init /\ [][Promise!Next]_(Promise!vars)
    BY PromiseInit, PromiseStep, InvAlways, PTL DEF Spec
  <1> QED
    BY <1>1 DEF KeepsPromise, Promise!Spec

-----------------------------------------------------------------------------
(* Attempt ids count attempts.  A claim takes the row's next id, so that    *)
(* the ids of a row's claims differ, and until the invitation ends the id   *)
(* is ahead of the schedule's by the number of attempts.  A worker whose    *)
(* own id is beyond the budget finds too many attempts when it reads the    *)
(* row back, whoever else has claimed it in the meantime.                   *)

CountInv(i) ==
    /\ row[i].life = "absent" => row[i].attempts = 0 /\ row[i].id = schedId[i]
    /\ row[i].life \in {"active", "expired"} => row[i].id = schedId[i] + row[i].attempts

OwnInv(t) ==
    thr[t].pc \in HasClaimed =>
        /\ thr[t].own <= row[thr[t].job].id
        /\ thr[t].pc = "loadSpace" => thr[t].own <= schedId[thr[t].job] + MaxAttempts

OwnIdsDiffer ==
    \A t, u \in Threads :
        /\ t # u /\ thr[t].job = thr[u].job
        /\ thr[t].pc \in HasClaimed /\ thr[u].pc \in HasClaimed
        => thr[t].own # thr[u].own

BudgetIds(i) == (schedId[i] + 1) .. (schedId[i] + MaxAttempts)

\* T are the ids of the claims that have started a conversation for the current
\* email: no worker that has still to start its own is among them.
Started(i, T) ==
    /\ Cardinality(T) = tries[i]
    /\ \A n \in T : n <= row[i].id
    /\ \A t \in Threads :
          thr[t].pc \in {"readBack", "loadSpace"} /\ thr[t].job = i => thr[t].own \notin T

BudgetInv ==
    /\ \A i \in Invites : CountInv(i)
    /\ \A t \in Threads : OwnInv(t)
    /\ OwnIdsDiffer
    /\ \A i \in Invites : \E T \in SUBSET BudgetIds(i) : Started(i, T)

\* Without stalls a claim is read back while it is still the row's.
KeptInv(t) ==
    /\ thr[t].pc = "readBack" /\ row[thr[t].job].life \in {"active", "expired"} =>
          row[thr[t].job].id = thr[t].own
    /\ thr[t].pc = "readBack" /\ row[thr[t].job].life = "active" =>
          row[thr[t].job].status = "sending" /\ row[thr[t].job].lease = "running"
    /\ thr[t].pc \in HasClaimed \ {"readBack"} => thr[t].id = thr[t].own

AllKept == \A t \in Threads : KeptInv(t)

-----------------------------------------------------------------------------
(* Steps that leave the budget alone: no claim, no conversation, no new     *)
(* email.                                                                   *)

\* The id of a row that is not ended moves on with its attempts only.
CountsOn(old, new) ==
    /\ old.id <= new.id
    /\ new.life = "absent" => old.life = "absent" /\ new.id = old.id /\ new.attempts = old.attempts
    /\ new.life \in {"active", "expired"} =>
          /\ old.life \in {"absent", "active", "expired"}
          /\ new.id + old.attempts = old.id + new.attempts

\* A worker takes up no claim, and is not nearer to its conversation.
CarriesOn(t) ==
    thr'[t].pc \in HasClaimed =>
        /\ thr[t].pc \in HasClaimed
        /\ thr'[t].job = thr[t].job
        /\ thr'[t].own = thr[t].own
        /\ thr'[t].id = thr[t].id
        /\ thr'[t].pc \in {"readBack", "loadSpace"} => thr'[t].pc = thr[t].pc
        /\ thr'[t].pc # "readBack" => thr[t].pc # "readBack"

LEMMA Numbers ==
    ASSUME Typed
    PROVE  /\ \A i \in Invites : /\ row[i] \in Row /\ row[i].id \in Nat /\ row[i].attempts \in Nat
                                 /\ schedId[i] \in Nat /\ tries[i] \in Nat
           /\ \A t \in Threads : /\ thr[t] \in Thread /\ thr[t].own \in Nat /\ thr[t].id \in Nat
                                 /\ thr[t].attempts \in Nat
                                 /\ thr[t].pc \in HasClaimed => thr[t].job \in Invites
  <1>1. \A i \in Invites : row[i] \in Row /\ schedId[i] \in Nat /\ tries[i] \in Nat
    BY DEF Typed, TypeOK
  <1>2. \A t \in Threads : thr[t] \in Thread
    BY DEF Typed, TypeOK
  <1>3. \A t \in Threads : thr[t].pc \in HasClaimed => thr[t].job \in Invites
    BY DEF Typed, InAttempt, HasClaimed, Attempting, Places
  <1> QED
    BY <1>1, <1>2, <1>3 DEF Row, Thread

LEMMA BudgetSize ==
    ASSUME Typed, NEW i \in Invites
    PROVE  IsFiniteSet(BudgetIds(i)) /\ Cardinality(BudgetIds(i)) = MaxAttempts
  <1>1. schedId[i] \in Nat /\ MaxAttempts \in Nat
    BY Numbers, LimitAssumption
  <1>2. schedId[i] + 1 \in Int /\ schedId[i] + MaxAttempts \in Int
    BY <1>1
  <1>3. /\ IsFiniteSet((schedId[i] + 1) .. (schedId[i] + MaxAttempts))
        /\ Cardinality((schedId[i] + 1) .. (schedId[i] + MaxAttempts)) =
              IF schedId[i] + 1 > schedId[i] + MaxAttempts
              THEN 0 ELSE (schedId[i] + MaxAttempts) - (schedId[i] + 1) + 1
    BY <1>2, FS_Interval
  <1> QED
    BY <1>1, <1>3 DEF BudgetIds

LEMMA CountsKept ==
    ASSUME Typed, Typed', NEW i \in Invites, CountInv(i), schedId'[i] = schedId[i],
           CountsOn(row[i], row'[i])
    PROVE  CountInv(i)'
  <1>1. /\ row[i].id \in Nat /\ row[i].attempts \in Nat /\ schedId[i] \in Nat
        /\ row'[i].id \in Nat /\ row'[i].attempts \in Nat
    BY DEF Typed, TypeOK, Row
  <1> QED
    BY <1>1 DEF CountInv, CountsOn

LEMMA QuietKeepsBudget ==
    ASSUME Typed, Typed', BudgetInv, UNCHANGED <<schedId, tries>>,
           \A i \in Invites : CountsOn(row[i], row'[i]),
           \A t \in Threads : CarriesOn(t)
    PROVE  BudgetInv'
  <1>1. \A i \in Invites : CountInv(i)'
    BY CountsKept DEF BudgetInv
  <1>2. ASSUME NEW t \in Threads PROVE OwnInv(t)'
    <2> SUFFICES ASSUME thr'[t].pc \in HasClaimed PROVE OwnInv(t)'
      BY DEF OwnInv
    <2>1. /\ thr[t].pc \in HasClaimed /\ thr'[t].job = thr[t].job /\ thr'[t].own = thr[t].own
          /\ thr'[t].pc = "loadSpace" => thr[t].pc = "loadSpace"
      BY DEF CarriesOn
    <2>2. PICK i \in Invites : i = thr[t].job
      BY <2>1, Numbers
    <2>3. row[i].id \in Nat /\ row'[i].id \in Nat /\ thr[t].own \in Nat /\ row[i].id <= row'[i].id
      BY Numbers DEF CountsOn, Typed, TypeOK, Row
    <2>4. thr[t].own <= row[i].id /\ (thr[t].pc = "loadSpace" => thr[t].own <= schedId[i] + MaxAttempts)
      BY <2>1, <2>2 DEF BudgetInv, OwnInv
    <2> QED
      BY <2>1, <2>2, <2>3, <2>4 DEF OwnInv
  <1>3. OwnIdsDiffer'
    BY DEF BudgetInv, OwnIdsDiffer, CarriesOn
  <1>4. ASSUME NEW i \in Invites
        PROVE  (\E T \in SUBSET BudgetIds(i) : Started(i, T))'
    <2>1. PICK T \in SUBSET BudgetIds(i) : Started(i, T)
      BY DEF BudgetInv
    <2>2. Cardinality(T) = tries'[i] /\ T \in SUBSET BudgetIds(i)'
      BY <2>1 DEF Started, BudgetIds
    <2>3. ASSUME NEW n \in T PROVE n <= row'[i].id
      <3>1. n \in Int /\ n <= row[i].id
        BY <2>1, Numbers DEF Started, BudgetIds
      <3>2. row[i].id \in Nat /\ row'[i].id \in Nat /\ row[i].id <= row'[i].id
        BY DEF CountsOn, Typed, TypeOK, Row
      <3> QED
        BY <3>1, <3>2
    <2>4. ASSUME NEW t \in Threads, thr'[t].pc \in {"readBack", "loadSpace"}, thr'[t].job = i
          PROVE  thr'[t].own \notin T
      <3>1. thr[t].pc \in {"readBack", "loadSpace"} /\ thr[t].job = i /\ thr'[t].own = thr[t].own
        BY <2>4 DEF CarriesOn, HasClaimed
      <3> QED
        BY <2>1, <3>1 DEF Started
    <2>5. Started(i, T)'
      BY <2>2, <2>3, <2>4 DEF Started
    <2> QED
      BY <2>2, <2>5
  <1> QED
    BY <1>1, <1>2, <1>3, <1>4 DEF BudgetInv

LEMMA OneCounts ==
    ASSUME Typed, NEW i \in Invites, NEW r, row' = [row EXCEPT ![i] = r], CountsOn(row[i], r)
    PROVE  \A j \in Invites : CountsOn(row[j], row'[j])
  <1>1. row'[i] = r /\ \A j \in Invites \ {i} : row'[j] = row[j]
    BY DEF Typed, TypeOK
  <1>2. \A j \in Invites : row[j].id \in Nat /\ row[j].attempts \in Nat
    BY Numbers
  <1> QED
    BY <1>1, <1>2 DEF CountsOn

LEMMA NoneCounts ==
    ASSUME Typed, UNCHANGED row
    PROVE  \A j \in Invites : CountsOn(row[j], row'[j])
  BY Numbers DEF CountsOn

LEMMA OneCarries ==
    ASSUME Typed, NEW t \in Threads, NEW me, thr' = [thr EXCEPT ![t] = me],
           \/ me.pc \notin HasClaimed
           \/ /\ thr[t].pc \in HasClaimed \ {"readBack"}
              /\ me.pc \notin {"readBack", "loadSpace"}
              /\ me.job = thr[t].job /\ me.own = thr[t].own /\ me.id = thr[t].id
    PROVE  \A u \in Threads : CarriesOn(u)
  <1>1. thr'[t] = me /\ \A u \in Threads \ {t} : thr'[u] = thr[u]
    BY DEF Typed, TypeOK
  <1> QED
    BY <1>1 DEF CarriesOn

LEMMA NoneCarries ==
    ASSUME UNCHANGED thr
    PROVE  \A u \in Threads : CarriesOn(u)
  BY DEF CarriesOn

LEMMA OutsideClaim ==
    /\ \A t : AfterAttempt(t).pc \notin HasClaimed
    /\ Idle.pc \notin HasClaimed
    /\ \A place \in {"find", "loop"} : AtPc(place).pc \notin HasClaimed
    /\ \A i : Starting(i).pc \notin HasClaimed
  BY DEF AfterAttempt, Idle, AtPc, Starting, HasClaimed

LEMMA DeliverSoonCarries ==
    ASSUME Typed, NEW i \in Invites, DeliverSoon(i)
    PROVE  \A u \in Threads : CarriesOn(u)
  BY OneCarries, NoneCarries, OutsideClaim DEF DeliverSoon, Threads

QuietRequest(i) == CreateInvite(i) \/ Expedite(i) \/ Revoke(i) \/ Accept(i)
QuietStep(t) ==
    \/ SmtpAccepts(t) \/ SmtpRefuses(t) \/ SmtpDefers(t)
    \/ FinishSent(t) \/ FinishFailed(t) \/ FinishRetry(t)
Quiet ==
    /\ UNCHANGED <<schedId, tries>>
    /\ \A i \in Invites : CountsOn(row[i], row'[i])
    /\ \A t \in Threads : CarriesOn(t)

LEMMA QuietRequests ==
    ASSUME Typed, BudgetInv, NEW i \in Invites, QuietRequest(i)
    PROVE  Quiet
  <1> USE Numbers DEF history
  <1>1. CASE CreateInvite(i)
    <2>1. CountsOn(row[i], Scheduled(row[i], "active", row[i].id))
      BY <1>1 DEF CreateInvite, BudgetInv, CountInv, CountsOn, Scheduled
    <2> QED
      BY <1>1, <2>1, OneCounts, DeliverSoonCarries DEF CreateInvite, Quiet
  <1>2. CASE Expedite(i)
    <2>1. CountsOn(row[i], WithTimes(row[i], "due", row[i].lease))
      BY <1>2 DEF Expedite, CountsOn, WithTimes, Active
    <2> QED
      BY <1>2, <2>1, OneCounts, DeliverSoonCarries DEF Expedite, Quiet
  <1>3. CASE Revoke(i)
    <2>1. CountsOn(row[i], Ended(row[i], "revoked"))
      BY DEF CountsOn, Ended, WithTimes, WithLife
    <2> QED
      BY <1>3, <2>1, OneCounts, NoneCarries DEF Revoke, Quiet
  <1>4. CASE Accept(i)
    <2>1. CountsOn(row[i], Ended(row[i], "accepted"))
      BY DEF CountsOn, Ended, WithTimes, WithLife
    <2> QED
      BY <1>4, <2>1, OneCounts, NoneCarries DEF Accept, Quiet
  <1> QED
    BY <1>1, <1>2, <1>3, <1>4 DEF QuietRequest

LEMMA QuietPolls ==
    ASSUME Typed, NEW p \in Pollers, PollStep(p)
    PROVE  Quiet
  <1>1. p \in Threads
    BY DEF Threads
  <1>2. \A u \in Threads : CarriesOn(u)
    BY <1>1, OneCarries, OutsideClaim DEF PollStep, PollClear, PollFind, PollNext, PollEnd
  <1>3. ASSUME NEW i \in Invites PROVE CountsOn(row[i], row'[i])
    <2>1. row'[i] = row[i] \/ row'[i] = Cleared(row[i])
      BY DEF PollStep, PollClear, PollFind, PollNext, PollEnd
    <2>2. CountsOn(row[i], Cleared(row[i]))
      BY Numbers DEF CountsOn, Cleared, WithTimes
    <2>3. CountsOn(row[i], row[i])
      BY Numbers DEF CountsOn
    <2> QED
      BY <2>1, <2>2, <2>3
  <1> QED
    BY <1>2, <1>3 DEF Quiet, PollStep, PollClear, PollFind, PollNext, PollEnd, history

LEMMA QuietAttempts ==
    ASSUME Typed, NEW t \in Threads, QuietStep(t)
    PROVE  Quiet
  <1>1. ASSUME NEW place \in {"accepted", "deferred", "refused"}, NEW said,
               SmtpEnds(t, place, said)
        PROVE  Quiet
    <2>1. \A u \in Threads : CarriesOn(u)
      BY <1>1, OneCarries DEF SmtpEnds, MovedTo, HasClaimed
    <2> QED
      BY <1>1, <2>1, NoneCounts DEF SmtpEnds, Quiet
  <1>2. ASSUME NEW status, NEW next, Finish(t, status, next), thr[t].pc \in HasClaimed
        PROVE  Quiet
    <2>1. \A u \in Threads : CarriesOn(u)
      BY <1>2, OneCarries, OutsideClaim DEF Finish
    <2>2. PICK i \in Invites : i = thr[t].job
      BY <1>2, Numbers
    <2>3. CountsOn(row[i], WithStatus(row[i], status, next, "none"))
      \/ ~StillCurrent(row[i], thr[t])
      BY Numbers DEF CountsOn, WithStatus, StillCurrent
    <2>4. \A j \in Invites : CountsOn(row[j], row'[j])
      BY <1>2, <2>2, <2>3, OneCounts, NoneCounts DEF Finish
    <2> QED
      BY <1>2, <2>1, <2>4 DEF Finish, Quiet, history
  <1> QED
    BY <1>1, <1>2
    DEF QuietStep, SmtpAccepts, SmtpRefuses, SmtpDefers, FinishSent, FinishFailed, FinishRetry,
        HasClaimed

LEMMA QuietOthers ==
    ASSUME Typed,
           \/ DeleteSpace
           \/ \E t \in Threads : Failure(t)
           \/ \E i \in Invites : Time(i)
           \/ UNCHANGED vars
    PROVE  Quiet
  <1> USE Numbers DEF history
  <1>1. CASE DeleteSpace
    <2>1. \A i \in Invites : CountsOn(row[i], WithLife(row[i], "gone", row[i].id))
      BY DEF CountsOn, WithLife
    <2> QED
      BY <1>1, <2>1, NoneCarries DEF DeleteSpace, Quiet
  <1>2. ASSUME NEW t \in Threads, Failure(t) PROVE Quiet
    BY <1>2, OneCarries, NoneCounts, OutsideClaim DEF Failure, AttemptError, Crash, Quiet
  <1>3. ASSUME NEW i \in Invites, Time(i) PROVE Quiet
    <2>1. /\ CountsOn(row[i], WithTimes(row[i], "due", "over"))
          /\ CountsOn(row[i], WithTimes(row[i], "due", row[i].lease))
          /\ CountsOn(row[i], WithLife(row[i], "expired", row[i].id)) \/ ~Active(i)
      BY DEF CountsOn, WithLife, WithTimes, Active
    <2> QED
      BY <1>3, <2>1, OneCounts, NoneCarries
      DEF Time, LeaseRunsOut, RetryBecomesDue, Expire, Quiet
  <1>4. CASE UNCHANGED vars
    BY <1>4, NoneCounts, NoneCarries DEF vars, Quiet
  <1> QED
    BY <1>1, <1>2, <1>3, <1>4

-----------------------------------------------------------------------------
(* The four steps that matter.                                             *)

LEMMA QuietBudget ==
    ASSUME Typed, Typed', BudgetInv, Quiet
    PROVE  BudgetInv'
  BY QuietKeepsBudget DEF Quiet

\* A new email starts with a full budget: the ids of the claims so far are not
\* ahead of its schedule's.
LEMMA RequeueBudget ==
    ASSUME Typed, Typed', BudgetInv, NEW i \in Invites, Requeue(i)
    PROVE  BudgetInv'
  <1> DEFINE new == Scheduled(row[i], "active", row[i].id + 1)
  <1>1. /\ row' = [row EXCEPT ![i] = new]
        /\ tries' = [tries EXCEPT ![i] = 0]
        /\ schedId' = [schedId EXCEPT ![i] = row[i].id + 1]
    BY DEF Requeue
  <1>2. \A j \in Invites \ {i} : row'[j] = row[j] /\ tries'[j] = tries[j] /\ schedId'[j] = schedId[j]
    BY <1>1 DEF Typed, TypeOK
  <1>3. row'[i] = new /\ tries'[i] = 0 /\ schedId'[i] = row[i].id + 1
    BY <1>1 DEF Typed, TypeOK
  <1>4. row'[i].id = row[i].id + 1 /\ row'[i].attempts = 0 /\ row'[i].life = "active"
    BY <1>3 DEF Scheduled
  <1>5. \A t \in Threads : CarriesOn(t)
    BY DeliverSoonCarries DEF Requeue
  <1>6. \A j \in Invites : row[j].id \in Nat /\ schedId[j] \in Nat /\ row[j].attempts \in Nat
    BY Numbers
  <1>7. ASSUME NEW j \in Invites PROVE CountInv(j)'
    BY <1>2, <1>3, <1>4, <1>6 DEF BudgetInv, CountInv
  <1>8. ASSUME NEW t \in Threads PROVE OwnInv(t)'
    <2> SUFFICES ASSUME thr'[t].pc \in HasClaimed PROVE OwnInv(t)'
      BY DEF OwnInv
    <2>1. /\ thr[t].pc \in HasClaimed /\ thr'[t].job = thr[t].job /\ thr'[t].own = thr[t].own
          /\ thr'[t].pc = "loadSpace" => thr[t].pc = "loadSpace"
      BY <1>5 DEF CarriesOn
    <2>2. PICK j \in Invites : j = thr[t].job
      BY <2>1, Numbers
    <2>3. thr[t].own \in Nat /\ thr[t].own <= row[j].id
          /\ (thr[t].pc = "loadSpace" => thr[t].own <= schedId[j] + MaxAttempts)
      BY <2>1, <2>2, Numbers DEF BudgetInv, OwnInv
    <2> QED
      BY <1>2, <1>3, <1>4, <1>6, <2>1, <2>2, <2>3, LimitAssumption DEF OwnInv
  <1>9. OwnIdsDiffer'
    BY <1>5 DEF BudgetInv, OwnIdsDiffer, CarriesOn
  <1>10. ASSUME NEW j \in Invites
         PROVE  (\E T \in SUBSET BudgetIds(j) : Started(j, T))'
    <2>1. CASE j = i
      <3>1. Cardinality({}) = tries'[j]
        BY <1>3, <2>1, FS_EmptySet
      <3>2. Started(j, {})' /\ {} \in SUBSET BudgetIds(j)'
        BY <3>1 DEF Started
      <3> QED
        BY <3>2
    <2>2. CASE j # i
      <3>1. PICK T \in SUBSET BudgetIds(j) : Started(j, T)
        BY DEF BudgetInv
      <3>2. row'[j] = row[j] /\ tries'[j] = tries[j] /\ schedId'[j] = schedId[j]
        BY <1>2, <2>2
      <3>3. Started(j, T)' /\ T \in SUBSET BudgetIds(j)'
        BY <1>5, <3>1, <3>2 DEF Started, BudgetIds, CarriesOn, HasClaimed
      <3> QED
        BY <3>3
    <2> QED
      BY <2>1, <2>2
  <1> QED
    BY <1>7, <1>8, <1>9, <1>10 DEF BudgetInv

\* A claim takes an id that nobody has had.
LEMMA ClaimBudget ==
    ASSUME Typed, Typed', BudgetInv, NEW t \in Threads, Claim(t)
    PROVE  BudgetInv'
  <1>1. PICK i \in Invites : i = thr[t].job
    BY DEF Typed, InAttempt, Claim, Attempting, Places
  <1>2. CASE ~Claimable(row[i])
    <2>1. Quiet
      BY <1>1, <1>2, OneCarries, NoneCounts, OutsideClaim DEF Claim, Quiet, history
    <2> QED
      BY <2>1, QuietBudget
  <1>3. CASE Claimable(row[i])
    <2>1. /\ row' = [row EXCEPT ![i] = Claimed(row[i])]
          /\ thr' = [thr EXCEPT ![t] = Holding(i, row[i].id + 1)]
          /\ UNCHANGED <<tries, schedId>>
      BY <1>1, <1>3 DEF Claim, history
    <2>2. row'[i] = Claimed(row[i]) /\ \A j \in Invites \ {i} : row'[j] = row[j]
      BY <2>1 DEF Typed, TypeOK
    <2>3. thr'[t] = Holding(i, row[i].id + 1) /\ \A u \in Threads \ {t} : thr'[u] = thr[u]
      BY <2>1 DEF Typed, TypeOK
    <2>4. thr'[t].pc = "readBack" /\ thr'[t].job = i /\ thr'[t].own = row[i].id + 1
      BY <2>3 DEF Holding
    <2>5. \A j \in Invites : row[j].id \in Nat /\ schedId[j] \in Nat /\ row[j].attempts \in Nat
      BY Numbers
    <2>6. row'[i].id = row[i].id + 1 /\ CountsOn(row[i], row'[i])
      BY <1>3, <2>2, <2>5 DEF Claimed, Claimable, CountsOn
    <2>7. \A j \in Invites : CountsOn(row[j], row'[j])
      BY <2>2, <2>5, <2>6 DEF CountsOn
    <2>8. ASSUME NEW j \in Invites PROVE CountInv(j)'
      BY <2>1, <2>7, CountsKept DEF BudgetInv
    <2>9. ASSUME NEW u \in Threads PROVE OwnInv(u)'
      <3>1. CASE u = t
        BY <2>4, <2>5, <2>6, <3>1 DEF OwnInv
      <3>2. CASE u # t /\ thr[u].pc \in HasClaimed
        <4>1. PICK j \in Invites : j = thr[u].job
          BY <3>2, Numbers
        <4>2. thr[u].own \in Nat /\ row[j].id <= row'[j].id /\ row'[j].id \in Nat
          BY <2>7, Numbers DEF CountsOn, Typed, TypeOK, Row
        <4> QED
          BY <2>1, <2>3, <2>5, <3>2, <4>1, <4>2 DEF BudgetInv, OwnInv
      <3>3. CASE u # t /\ thr[u].pc \notin HasClaimed
        BY <2>3, <3>3 DEF OwnInv
      <3> QED
        BY <3>1, <3>2, <3>3
    <2>10. ASSUME NEW u \in Threads \ {t}, thr[u].pc \in HasClaimed, thr[u].job = i
           PROVE  thr[u].own # row[i].id + 1
      <3>1. thr[u].own \in Nat /\ thr[u].own <= row[i].id
        BY <2>10, Numbers DEF BudgetInv, OwnInv
      <3> QED
        BY <2>5, <3>1
    <2>11. OwnIdsDiffer'
      BY <2>3, <2>4, <2>10 DEF BudgetInv, OwnIdsDiffer
    <2>12. ASSUME NEW j \in Invites
           PROVE  (\E T \in SUBSET BudgetIds(j) : Started(j, T))'
      <3>1. PICK T \in SUBSET BudgetIds(j) : Started(j, T)
        BY DEF BudgetInv
      <3>2. Cardinality(T) = tries'[j] /\ T \in SUBSET BudgetIds(j)'
        BY <2>1, <3>1 DEF Started, BudgetIds
      <3>3. ASSUME NEW n \in T PROVE n <= row'[j].id /\ (j = i => n # row[i].id + 1)
        <4>1. n \in Int /\ n <= row[j].id
          BY <2>5, <3>1 DEF Started, BudgetIds
        <4>2. row[j].id <= row'[j].id /\ row'[j].id \in Nat
          BY <2>7 DEF CountsOn, Typed, TypeOK, Row
        <4> QED
          BY <2>5, <4>1, <4>2
      <3>4. ASSUME NEW u \in Threads, thr'[u].pc \in {"readBack", "loadSpace"}, thr'[u].job = j
            PROVE  thr'[u].own \notin T
        BY <2>3, <2>4, <3>1, <3>3, <3>4 DEF Started
      <3>5. Started(j, T)'
        BY <3>2, <3>3, <3>4 DEF Started
      <3> QED
        BY <3>2, <3>5
    <2> QED
      BY <2>8, <2>9, <2>11, <2>12 DEF BudgetInv
  <1> QED
    BY <1>2, <1>3

\* A worker that reads no more attempts than allowed has an id within the
\* budget, even if it reads the attempts of a later claim.
LEMMA ReadBackBudget ==
    ASSUME Typed, Typed', BudgetInv, NEW t \in Threads, ReadBack(t)
    PROVE  BudgetInv'
  <1>1. thr[t].pc = "readBack" /\ thr[t].pc \in HasClaimed
    BY DEF ReadBack, HasClaimed
  <1>2. PICK i \in Invites : i = thr[t].job
    BY <1>1, Numbers
  <1>3. CASE row[i].life \notin {"active", "expired"}
    <2>1. Quiet
      BY <1>2, <1>3, OneCarries, NoneCounts, OutsideClaim DEF ReadBack, Quiet, history
    <2> QED
      BY <2>1, QuietBudget
  <1>4. CASE row[i].life \in {"active", "expired"}
    <2>1. thr' = [thr EXCEPT ![t] = HasRead(thr[t], row[i])]
          /\ UNCHANGED <<row, tries, schedId>>
      BY <1>2, <1>4 DEF ReadBack, history
    <2>2. thr'[t] = HasRead(thr[t], row[i]) /\ \A u \in Threads \ {t} : thr'[u] = thr[u]
      BY <2>1 DEF Typed, TypeOK
    <2>3. /\ thr'[t].job = i /\ thr'[t].own = thr[t].own
          /\ thr'[t].pc \in {"loadSpace", "giveUp"}
          /\ thr'[t].pc = "loadSpace" => ~(row[i].attempts > MaxAttempts)
      BY <1>2, <2>2 DEF HasRead, Exhausted
    <2>4. /\ row[i].id \in Nat /\ schedId[i] \in Nat /\ row[i].attempts \in Nat /\ thr[t].own \in Nat
          /\ row[i].id = schedId[i] + row[i].attempts
          /\ thr[t].own <= row[i].id
      BY <1>1, <1>2, <1>4, Numbers DEF BudgetInv, CountInv, OwnInv
    <2>5. thr'[t].pc = "loadSpace" => thr[t].own <= schedId[i] + MaxAttempts
      BY <2>3, <2>4, LimitAssumption
    <2>6. \A u \in Threads : OwnInv(u)'
      BY <2>1, <2>2, <2>3, <2>4, <2>5 DEF BudgetInv, OwnInv
    <2>7. \A j \in Invites : CountInv(j)'
      BY <2>1 DEF BudgetInv, CountInv
    <2>8. OwnIdsDiffer'
      BY <1>1, <1>2, <2>2, <2>3 DEF BudgetInv, OwnIdsDiffer
    <2>9. ASSUME NEW j \in Invites
          PROVE  (\E T \in SUBSET BudgetIds(j) : Started(j, T))'
      <3>1. PICK T \in SUBSET BudgetIds(j) : Started(j, T)
        BY DEF BudgetInv
      <3>2. Started(j, T)' /\ T \in SUBSET BudgetIds(j)'
        BY <1>1, <1>2, <2>1, <2>2, <2>3, <3>1 DEF Started, BudgetIds
      <3> QED
        BY <3>2
    <2> QED
      BY <2>6, <2>7, <2>8, <2>9 DEF BudgetInv
  <1> QED
    BY <1>3, <1>4

LEMMA LoadSpaceCarries ==
    ASSUME Typed, NEW t \in Threads, LoadSpace(t)
    PROVE  \A u \in Threads : CarriesOn(u)
  <1>1. thr[t].pc \in HasClaimed \ {"readBack"}
    BY DEF LoadSpace, HasClaimed
  <1>2. /\ MovedTo(thr[t], "smtp").pc \notin {"readBack", "loadSpace"}
        /\ MovedTo(thr[t], "smtp").job = thr[t].job
        /\ MovedTo(thr[t], "smtp").own = thr[t].own
        /\ MovedTo(thr[t], "smtp").id = thr[t].id
    BY DEF MovedTo
  <1> QED
    BY <1>1, <1>2, OneCarries, OutsideClaim DEF LoadSpace

\* A conversation for the current email uses up one id of its budget.
LEMMA LoadSpaceBudget ==
    ASSUME Typed, Typed', BudgetInv, NEW t \in Threads, LoadSpace(t)
    PROVE  BudgetInv'
  <1>1. thr[t].pc = "loadSpace" /\ thr[t].pc \in HasClaimed
    BY DEF LoadSpace, HasClaimed
  <1>2. PICK i \in Invites : i = thr[t].job
    BY <1>1, Numbers
  <1>3. \A u \in Threads : CarriesOn(u)
    BY LoadSpaceCarries
  <1>4. CASE row[i].life = "gone" \/ ~(thr[t].own > schedId[i])
    <2>1. UNCHANGED tries
      BY <1>2, <1>4 DEF LoadSpace, Typed, TypeOK
    <2>2. Quiet
      BY <1>3, <2>1, NoneCounts DEF LoadSpace, Quiet
    <2> QED
      BY <2>2, QuietBudget
  <1>5. CASE row[i].life # "gone" /\ thr[t].own > schedId[i]
    <2>1. /\ thr' = [thr EXCEPT ![t] = MovedTo(thr[t], "smtp")]
          /\ tries' = [tries EXCEPT ![i] = tries[i] + 1]
          /\ UNCHANGED <<row, schedId>>
      BY <1>2, <1>5 DEF LoadSpace
    <2>2. thr'[t].pc = "smtp" /\ \A u \in Threads \ {t} : thr'[u] = thr[u]
      BY <2>1 DEF MovedTo, Typed, TypeOK
    <2>3. tries'[i] = tries[i] + 1 /\ \A j \in Invites \ {i} : tries'[j] = tries[j]
      BY <2>1 DEF Typed, TypeOK
    <2>4. \A j \in Invites : CountInv(j)'
      BY <2>1 DEF BudgetInv, CountInv
    <2>5. \A u \in Threads : OwnInv(u)'
      BY <1>3, <2>1 DEF BudgetInv, OwnInv, CarriesOn
    <2>6. OwnIdsDiffer'
      BY <1>3 DEF BudgetInv, OwnIdsDiffer, CarriesOn
    <2>7. /\ thr[t].own \in Nat /\ schedId[i] \in Nat
          /\ thr[t].own <= row[i].id /\ thr[t].own <= schedId[i] + MaxAttempts
      BY <1>1, <1>2, Numbers DEF BudgetInv, OwnInv
    <2>8. thr[t].own \in BudgetIds(i)
      BY <1>5, <2>7, LimitAssumption DEF BudgetIds
    <2>9. ASSUME NEW j \in Invites
          PROVE  (\E T \in SUBSET BudgetIds(j) : Started(j, T))'
      <3>1. PICK T \in SUBSET BudgetIds(j) : Started(j, T)
        BY DEF BudgetInv
      <3>2. CASE j # i
        <4>1. Started(j, T)' /\ T \in SUBSET BudgetIds(j)'
          BY <1>2, <2>1, <2>2, <2>3, <3>1, <3>2 DEF Started, BudgetIds
        <4> QED
          BY <4>1
      <3>3. CASE j = i
        <4>1. PICK own \in Nat : own = thr[t].own
          BY <2>7
        <4> DEFINE U == T \cup {own}
        <4>2. own \notin T
          BY <1>1, <1>2, <3>1, <3>3, <4>1 DEF Started
        <4>3. IsFiniteSet(T)
          BY <3>1, BudgetSize, FS_Subset
        <4>4. Cardinality(U) = Cardinality(T) + 1
          BY <4>2, <4>3, FS_AddElement
        <4>5. Cardinality(U) = tries'[i]
          BY <2>3, <3>1, <3>3, <4>4 DEF Started
        <4>6. BudgetIds(j)' = BudgetIds(j) /\ U \in SUBSET BudgetIds(j)
          BY <2>1, <2>8, <3>1, <3>3, <4>1 DEF BudgetIds
        <4>7. \A n \in U : n <= row'[i].id
          BY <2>1, <2>7, <3>1, <3>3, <4>1 DEF Started
        <4>8. ASSUME NEW u \in Threads, thr'[u].pc \in {"readBack", "loadSpace"}, thr'[u].job = i
              PROVE  thr'[u].own \notin U
          <5>1. u # t /\ thr'[u] = thr[u]
            BY <2>2, <4>8
          <5>2. thr[u].own \notin T
            BY <3>1, <3>3, <4>8, <5>1 DEF Started
          <5>3. thr[u].own # own
            BY <1>1, <1>2, <4>1, <4>8, <5>1 DEF BudgetInv, OwnIdsDiffer, HasClaimed
          <5> QED
            BY <5>1, <5>2, <5>3
        <4>9. Started(j, U)'
          BY <3>3, <4>5, <4>7, <4>8 DEF Started
        <4> QED
          BY <4>6, <4>9
      <3> QED
        BY <3>2, <3>3
    <2> QED
      BY <2>4, <2>5, <2>6, <2>9 DEF BudgetInv
  <1> QED
    BY <1>4, <1>5

LEMMA BudgetInit == Init => BudgetInv
  <1> SUFFICES ASSUME Init PROVE BudgetInv
    OBVIOUS
  <1>1. \A i \in Invites : row[i] \in {AbsentRow, LegacyRow} /\ schedId[i] = 0 /\ tries[i] = 0
    BY DEF Init
  <1>2. ASSUME NEW i \in Invites PROVE CountInv(i)
    BY <1>1 DEF CountInv, AbsentRow, LegacyRow
  <1>3. \A t \in Threads : thr[t].pc \notin HasClaimed
    BY OutsideClaim DEF Init
  <1>4. ASSUME NEW i \in Invites PROVE \E T \in SUBSET BudgetIds(i) : Started(i, T)
    <2>1. Cardinality({}) = tries[i]
      BY <1>1, FS_EmptySet
    <2>2. Started(i, {})
      BY <1>3, <2>1 DEF Started, HasClaimed
    <2> QED
      BY <2>2
  <1> QED
    BY <1>2, <1>3, <1>4 DEF BudgetInv, OwnInv, OwnIdsDiffer

LEMMA BudgetStep == Typed /\ Typed' /\ BudgetInv /\ [Next]_vars => BudgetInv'
  <1> SUFFICES ASSUME Typed, Typed', BudgetInv, [Next]_vars PROVE BudgetInv'
    OBVIOUS
  <1>1. ASSUME NEW i \in Invites, Request(i) PROVE BudgetInv'
    BY <1>1, RequeueBudget, QuietRequests, QuietBudget DEF Request, QuietRequest
  <1>2. CASE DeleteSpace
    BY <1>2, QuietOthers, QuietBudget
  <1>3. ASSUME NEW p \in Pollers, PollStep(p) PROVE BudgetInv'
    BY <1>3, QuietPolls, QuietBudget
  <1>4. ASSUME NEW t \in Threads, AttemptStep(t) PROVE BudgetInv'
    BY <1>4, ClaimBudget, ReadBackBudget, LoadSpaceBudget, QuietAttempts, QuietBudget
    DEF AttemptStep, QuietStep
  <1>5. CASE (\E t \in Threads : Failure(t)) \/ (\E i \in Invites : Time(i)) \/ UNCHANGED vars
    BY <1>5, QuietOthers, QuietBudget
  <1> QED
    BY <1>1, <1>2, <1>3, <1>4, <1>5 DEF Next

LEMMA BudgetAlways == Spec => [](Typed /\ BudgetInv)
  BY TypeInit, TypeStep, BudgetInit, BudgetStep, PTL DEF Spec

\* The attempts that claimed an email start at most MaxAttempts conversations
\* for it, whichever of them crash, stall, lose their lease or read back the
\* claim of another.
THEOREM AttemptsWithinBudget == Spec => []AttemptBudget
  <1>1. ASSUME Typed, BudgetInv PROVE AttemptBudget
    <2>1. ASSUME NEW i \in Invites PROVE tries[i] <= MaxAttempts
      <3>1. PICK T \in SUBSET BudgetIds(i) : Cardinality(T) = tries[i]
        BY <1>1 DEF BudgetInv, Started
      <3>2. Cardinality(T) <= Cardinality(BudgetIds(i))
        BY <1>1, BudgetSize, FS_Subset
      <3> QED
        BY <1>1, <3>1, <3>2, BudgetSize
    <2> QED
      BY <2>1 DEF AttemptBudget
  <1> QED
    BY <1>1, BudgetAlways, PTL

-----------------------------------------------------------------------------
(* Without a stall between two statements, an attempt reads back its own    *)
(* claim: nobody else can claim the row or write a result under that id     *)
(* while its lease runs, and requests leave a running attempt alone.        *)

\* How a step may change a row between a claim and its reading back.
HeldOn(old, new) ==
    /\ new.life \in {"active", "expired"} =>
          old.life \in {"active", "expired"} /\ new.id = old.id
    /\ new.life = "active" =>
          old.life = "active" /\ new.status = old.status /\ new.lease = old.lease

ReadersKept ==
    \A t \in Threads :
        thr[t].pc = "readBack" => HeldOn(row[thr[t].job], row'[thr[t].job])

LEMMA CarriedKept ==
    ASSUME NEW t \in Threads, KeptInv(t), CarriesOn(t), ReadersKept
    PROVE  KeptInv(t)'
  BY DEF KeptInv, CarriesOn, ReadersKept, HeldOn, HasClaimed

\* What is known of the row of a worker that has just claimed it.
LEMMA Reader ==
    ASSUME IInv, AllKept, NEW t \in Threads, thr[t].pc = "readBack"
    PROVE  /\ thr[t].job \in Invites
           /\ row[thr[t].job].life # "absent"
           /\ Active(thr[t].job) =>
                 /\ row[thr[t].job].status = "sending" /\ row[thr[t].job].lease = "running"
                 /\ row[thr[t].job].id = thr[t].own
  <1>1. Typed /\ ThreadInv(t) /\ KeptInv(t)
    BY DEF IInv, ThreadsInv, AllKept
  <1> QED
    BY <1>1, Numbers DEF ThreadInv, KeptInv, HasClaimed, Active

LEMMA OneHeld ==
    ASSUME IInv, NEW i \in Invites, NEW r, row' = [row EXCEPT ![i] = r],
           \A t \in Threads : thr[t].pc = "readBack" /\ thr[t].job = i => HeldOn(row[i], r)
    PROVE  ReadersKept
  <1>1. row'[i] = r /\ \A j \in Invites \ {i} : row'[j] = row[j]
    BY DEF IInv, Typed, TypeOK
  <1>2. ASSUME NEW t \in Threads, thr[t].pc = "readBack"
        PROVE  thr[t].job \in Invites
    BY <1>2, Numbers DEF IInv, HasClaimed
  <1> QED
    BY <1>1, <1>2 DEF ReadersKept, HeldOn

LEMMA RequestKeepsReaders ==
    ASSUME IInv, AllKept, NEW i \in Invites, Request(i)
    PROVE  ReadersKept
  <1>1. ASSUME NEW t \in Threads, thr[t].pc = "readBack", thr[t].job = i
        PROVE  row[i].life # "absent" /\ (Active(i) => EffectiveStatus(i) = "sending")
    BY <1>1, Reader DEF EffectiveStatus
  <1>2. CASE CreateInvite(i) \/ Expedite(i) \/ Requeue(i)
    <2>1. \A t \in Threads : ~(thr[t].pc = "readBack" /\ thr[t].job = i)
      BY <1>1, <1>2 DEF CreateInvite, Expedite, Requeue
    <2>2. PICK r : row' = [row EXCEPT ![i] = r]
      BY <1>2 DEF CreateInvite, Expedite, Requeue
    <2> QED
      BY <2>1, <2>2, OneHeld
  <1>3. CASE Revoke(i)
    <2>1. HeldOn(row[i], Ended(row[i], "revoked"))
      BY DEF Ended, WithTimes, WithLife, HeldOn
    <2> QED
      BY <1>3, <2>1, OneHeld DEF Revoke
  <1>4. CASE Accept(i)
    <2>1. HeldOn(row[i], Ended(row[i], "accepted"))
      BY DEF Ended, WithTimes, WithLife, HeldOn
    <2> QED
      BY <1>4, <2>1, OneHeld DEF Accept
  <1> QED
    BY <1>2, <1>3, <1>4 DEF Request

LEMMA ClaimKeepsReaders ==
    ASSUME IInv, AllKept, NEW t \in Threads, Claim(t)
    PROVE  ReadersKept
  <1>1. PICK i \in Invites : i = thr[t].job
    BY DEF IInv, Typed, InAttempt, Claim, Attempting, Places
  <1>2. CASE Claimable(row[i])
    <2>1. row' = [row EXCEPT ![i] = Claimed(row[i])]
      BY <1>1, <1>2 DEF Claim
    <2>2. \A u \in Threads : ~(thr[u].pc = "readBack" /\ thr[u].job = i)
      BY <1>2, Reader DEF Claimable, Active
    <2> QED
      BY <2>1, <2>2, OneHeld
  <1>3. CASE ~Claimable(row[i])
    BY <1>1, <1>3 DEF Claim, ReadersKept, HeldOn
  <1> QED
    BY <1>2, <1>3

\* A result is written by the worker whose id the row has: it is not the one
\* that has still to read it.
LEMMA FinishKeepsReaders ==
    ASSUME IInv, BudgetInv, AllKept, NEW t \in Threads, NEW status, NEW next,
           thr[t].pc \in HasClaimed \ {"readBack"}, Finish(t, status, next)
    PROVE  ReadersKept
  <1>1. PICK i \in Invites : i = thr[t].job
    BY Numbers DEF IInv
  <1>2. CASE StillCurrent(row[i], thr[t])
    <2>1. row' = [row EXCEPT ![i] = WithStatus(row[i], status, next, "none")]
      BY <1>1, <1>2 DEF Finish
    <2>2. ASSUME NEW u \in Threads, thr[u].pc = "readBack", thr[u].job = i PROVE FALSE
      <3>1. row[i].id = thr[u].own
        BY <1>2, <2>2, Reader DEF StillCurrent, Active
      <3>2. row[i].id = thr[t].own
        BY <1>2 DEF StillCurrent, AllKept, KeptInv
      <3>3. u # t /\ thr[u].pc \in HasClaimed /\ thr[t].pc \in HasClaimed
        BY <2>2 DEF HasClaimed
      <3> QED
        BY <1>1, <2>2, <3>1, <3>2, <3>3 DEF BudgetInv, OwnIdsDiffer
    <2> QED
      BY <2>1, <2>2, OneHeld
  <1>3. CASE ~StillCurrent(row[i], thr[t])
    BY <1>1, <1>3 DEF Finish, ReadersKept, HeldOn
  <1> QED
    BY <1>2, <1>3

LEMMA TimeKeepsReaders ==
    ASSUME MaxStalls = 0, IInv, AllKept, NEW i \in Invites, Time(i)
    PROVE  ReadersKept
  <1>1. ASSUME NEW t \in Threads, thr[t].pc = "readBack", thr[t].job = i
        PROVE  /\ row[i].life # "absent"
               /\ Active(i) => /\ row[i].status = "sending" /\ row[i].lease = "running"
                               /\ BetweenStatements(i)
    BY <1>1, Reader DEF BetweenStatements
  <1>2. CASE LeaseRunsOut(i)
    <2>1. stalls \in Nat
      BY DEF IInv, Typed, TypeOK
    <2>2. ~BetweenStatements(i)
      BY <1>2, <2>1 DEF LeaseRunsOut
    <2>3. Active(i) \/ HeldOn(row[i], WithTimes(row[i], "due", "over"))
      BY DEF WithTimes, Active, HeldOn
    <2>4. row' = [row EXCEPT ![i] = WithTimes(row[i], "due", "over")]
      BY <1>2 DEF LeaseRunsOut
    <2>5. \A t \in Threads : thr[t].pc = "readBack" /\ thr[t].job = i =>
             HeldOn(row[i], WithTimes(row[i], "due", "over"))
      BY <1>1, <2>2, <2>3
    <2> QED
      BY <2>4, <2>5, OneHeld
  <1>3. CASE RetryBecomesDue(i)
    <2>1. Active(i) \/ HeldOn(row[i], WithTimes(row[i], "due", row[i].lease))
      BY DEF WithTimes, Active, HeldOn
    <2>2. row[i].status = "queued" /\ row' = [row EXCEPT ![i] = WithTimes(row[i], "due", row[i].lease)]
      BY <1>3 DEF RetryBecomesDue
    <2>3. \A t \in Threads : thr[t].pc = "readBack" /\ thr[t].job = i =>
             HeldOn(row[i], WithTimes(row[i], "due", row[i].lease))
      BY <1>1, <2>1, <2>2
    <2> QED
      BY <2>2, <2>3, OneHeld
  <1>4. CASE Expire(i)
    <2>1. Active(i) => HeldOn(row[i], WithLife(row[i], "expired", row[i].id))
      BY DEF WithLife, Active, HeldOn
    <2>2. Active(i) /\ row' = [row EXCEPT ![i] = WithLife(row[i], "expired", row[i].id)]
      BY <1>4 DEF Expire
    <2> QED
      BY <2>1, <2>2, OneHeld
  <1> QED
    BY <1>2, <1>3, <1>4 DEF Time

LEMMA KeptStep ==
    ASSUME MaxStalls = 0, IInv, BudgetInv, AllKept, [Next]_vars
    PROVE  AllKept'
  <1> USE DEF IInv
  <1>1. ASSUME ReadersKept, \A t \in Threads : CarriesOn(t) PROVE AllKept'
    BY <1>1, CarriedKept DEF AllKept
  <1>2. ASSUME UNCHANGED row PROVE ReadersKept
    BY <1>2 DEF ReadersKept, HeldOn
  <1>3. ASSUME NEW i \in Invites, Request(i) PROVE AllKept'
    <2>1. CASE Requeue(i)
      BY <1>1, <1>3, <2>1, RequestKeepsReaders, DeliverSoonCarries DEF Requeue
    <2>2. CASE QuietRequest(i)
      BY <1>1, <1>3, <2>2, RequestKeepsReaders, QuietRequests DEF Quiet
    <2> QED
      BY <1>3, <2>1, <2>2 DEF Request, QuietRequest
  <1>4. CASE DeleteSpace
    <2>1. \A i \in Invites : HeldOn(row[i], row'[i])
      BY <1>4 DEF DeleteSpace, WithLife, HeldOn
    <2>2. ReadersKept
      BY <2>1, Reader DEF ReadersKept
    <2> QED
      BY <1>1, <1>4, <2>2, QuietOthers DEF Quiet
  <1>5. ASSUME NEW p \in Pollers, PollStep(p) PROVE AllKept'
    <2>1. \A i \in Invites : row'[i] = row[i] \/ row'[i] = Cleared(row[i])
      BY <1>5 DEF PollStep, PollClear, PollFind, PollNext, PollEnd
    <2>2. \A i \in Invites : HeldOn(row[i], Cleared(row[i])) /\ HeldOn(row[i], row[i])
      BY DEF Cleared, WithTimes, HeldOn
    <2>3. ReadersKept
      BY <2>1, <2>2, Reader DEF ReadersKept
    <2> QED
      BY <1>1, <1>5, <2>3, QuietPolls DEF Quiet
  <1>6. ASSUME NEW t \in Threads, Claim(t) PROVE AllKept'
    <2>1. ReadersKept
      BY <1>6, ClaimKeepsReaders
    <2>2. PICK i \in Invites : i = thr[t].job
      BY <1>6 DEF Typed, InAttempt, Claim, Attempting, Places
    <2>3. \A u \in Threads \ {t} : CarriesOn(u)
      BY <1>6 DEF Claim, CarriesOn, Typed, TypeOK
    <2>4. KeptInv(t)'
      <3>1. CASE Claimable(row[i])
        <4>1. row'[i] = Claimed(row[i]) /\ thr'[t] = Holding(i, row[i].id + 1)
          BY <1>6, <2>2, <3>1 DEF Claim, Typed, TypeOK
        <4> QED
          BY <4>1 DEF KeptInv, Claimed, Holding
      <3>2. CASE ~Claimable(row[i])
        BY <1>6, <2>2, <3>2, OutsideClaim DEF Claim, KeptInv, HasClaimed, Typed, TypeOK
      <3> QED
        BY <3>1, <3>2
    <2> QED
      BY <2>1, <2>3, <2>4, CarriedKept DEF AllKept
  <1>7. ASSUME NEW t \in Threads, ReadBack(t) PROVE AllKept'
    <2>1. \A u \in Threads \ {t} : CarriesOn(u)
      BY <1>7 DEF ReadBack, CarriesOn, Typed, TypeOK
    <2>2. PICK i \in Invites : i = thr[t].job
      BY <1>7, Reader DEF ReadBack
    <2>3. KeptInv(t)'
      <3>1. CASE row[i].life \in {"active", "expired"}
        <4>1. thr'[t] = HasRead(thr[t], row[i])
          BY <1>7, <2>2, <3>1 DEF ReadBack, Typed, TypeOK
        <4>2. row[i].id = thr[t].own
          BY <1>7, <2>2, <3>1 DEF ReadBack, AllKept, KeptInv
        <4> QED
          BY <4>1, <4>2 DEF KeptInv, HasRead
      <3>2. CASE row[i].life \notin {"active", "expired"}
        BY <1>7, <2>2, <3>2, OutsideClaim DEF ReadBack, KeptInv, HasClaimed, Typed, TypeOK
      <3> QED
        BY <3>1, <3>2
    <2> QED
      BY <1>2, <1>7, <2>1, <2>3, CarriedKept DEF AllKept, ReadBack
  <1>8. ASSUME NEW t \in Threads, LoadSpace(t) PROVE AllKept'
    BY <1>1, <1>2, <1>8, LoadSpaceCarries DEF LoadSpace
  <1>9. ASSUME NEW t \in Threads, QuietStep(t) PROVE AllKept'
    <2>1. ReadersKept
      BY <1>2, <1>9, FinishKeepsReaders
      DEF QuietStep, SmtpAccepts, SmtpRefuses, SmtpDefers, SmtpEnds, FinishSent, FinishFailed,
          FinishRetry, HasClaimed
    <2> QED
      BY <1>1, <1>9, <2>1, QuietAttempts DEF Quiet
  <1>10. ASSUME NEW t \in Threads, Failure(t) PROVE AllKept'
    BY <1>1, <1>2, <1>10, QuietOthers DEF Failure, AttemptError, Crash, Quiet
  <1>11. ASSUME NEW i \in Invites, Time(i) PROVE AllKept'
    BY <1>1, <1>11, TimeKeepsReaders, QuietOthers DEF Quiet
  <1>12. CASE UNCHANGED vars
    BY <1>1, <1>2, <1>12, QuietOthers DEF Quiet, vars
  <1> QED
    BY <1>3, <1>4, <1>5, <1>6, <1>7, <1>8, <1>9, <1>10, <1>11, <1>12
    DEF Next, AttemptStep, QuietStep

OwnResults == \A t \in Threads : WritesResult(t) => row[thr[t].job].id = thr[t].own

\* Only Finish writes both a row and the worker that has heard of its email.
LEMMA ResultStep ==
    ASSUME IInv, AllKept, [Next]_vars
    PROVE  OwnResults
  <1> SUFFICES ASSUME NEW t \in Threads, WritesResult(t)
               PROVE  row[thr[t].job].id = thr[t].own
    BY DEF OwnResults
  <1> DEFINE i == thr[t].job
  <1>1. /\ thr[t].pc \in {"accepted", "deferred", "refused", "giveUp"}
        /\ thr'[t].pc # thr[t].pc /\ i \in Invites /\ row'[i] # row[i]
    BY DEF WritesResult
  <1>2. thr[t].id = thr[t].own
    BY <1>1 DEF AllKept, KeptInv, HasClaimed
  <1>3. ASSUME NEW u \in Threads, NEW me, thr' = [thr EXCEPT ![u] = me] PROVE u = t
    BY <1>1, <1>3 DEF IInv, Typed, TypeOK
  <1>4. ASSUME NEW j \in Invites, DeliverSoon(j) PROVE FALSE
    <2>1. PICK c \in Callers : thr[c] = Idle /\ thr' = [thr EXCEPT ![c] = Starting(j)]
      BY <1>1, <1>4 DEF DeliverSoon
    <2>2. c = t
      BY <1>3, <2>1 DEF Threads
    <2> QED
      BY <1>1, <2>1, <2>2 DEF Idle, AtPc
  <1>5. ASSUME NEW j \in Invites, Request(j) PROVE FALSE
    BY <1>1, <1>4, <1>5 DEF Request, CreateInvite, Expedite, Requeue, Revoke, Accept
  <1>6. ~DeleteSpace /\ ~UNCHANGED vars /\ \A j \in Invites : ~Time(j)
    BY <1>1 DEF DeleteSpace, vars, Time, LeaseRunsOut, RetryBecomesDue, Expire
  <1>7. ASSUME NEW p \in Pollers, PollStep(p) PROVE FALSE
    <2>1. PICK me : thr' = [thr EXCEPT ![p] = me]
      BY <1>7 DEF PollStep, PollClear, PollFind, PollNext, PollEnd
    <2>2. p = t
      BY <1>3, <2>1 DEF Threads
    <2> QED
      BY <1>1, <1>7, <2>2 DEF PollStep, PollClear, PollFind, PollNext, PollEnd
  <1>8. ASSUME NEW u \in Threads, Failure(u) PROVE FALSE
    BY <1>1, <1>8 DEF Failure, AttemptError, Crash
  <1>9. ASSUME NEW u \in Threads, AttemptStep(u) PROVE row[i].id = thr[t].own
    <2>1. PICK me : thr' = [thr EXCEPT ![u] = me]
      BY <1>9
      DEF AttemptStep, Claim, ReadBack, LoadSpace, SmtpAccepts, SmtpRefuses, SmtpDefers, SmtpEnds,
          FinishSent, FinishFailed, FinishRetry, Finish
    <2>2. u = t
      BY <1>3, <2>1
    <2>3. PICK status, next : Finish(t, status, next)
      BY <1>1, <1>9, <2>2
      DEF AttemptStep, Claim, ReadBack, LoadSpace, SmtpAccepts, SmtpRefuses, SmtpDefers, SmtpEnds,
          FinishSent, FinishFailed, FinishRetry
    <2>4. StillCurrent(row[i], thr[t])
      BY <1>1, <2>3 DEF Finish
    <2> QED
      BY <1>2, <2>4 DEF StillCurrent
  <1> QED
    BY <1>5, <1>6, <1>7, <1>8, <1>9 DEF Next

LEMMA KeptInit == Init => AllKept
  BY OutsideClaim DEF Init, AllKept, KeptInv, HasClaimed, Idle, AtPc

LEMMA KeptAlways ==
    ASSUME MaxStalls = 0
    PROVE  Spec => [](IInv /\ BudgetInv /\ AllKept)
  <1>1. IInv /\ BudgetInv /\ AllKept /\ [Next]_vars => AllKept'
    BY KeptStep
  <1>2. IInv => Typed
    BY DEF IInv
  <1> QED
    BY <1>1, <1>2, InvAlways, BudgetAlways, KeptInit, PTL DEF Spec

\* Unless a worker stalls past its lease between two statements, an attempt
\* writes its result only under the id of its own claim, whatever crashes,
\* lapsed leases of running conversations, and requests come between.
THEOREM ResultsByOwnAttempt ==
    ASSUME MaxStalls = 0
    PROVE  Spec => ResultOnlyByOwnAttempt
  <1>1. IInv /\ AllKept /\ [Next]_vars => [OwnResults]_vars
    BY ResultStep
  <1>2. Spec => [][OwnResults]_vars
    BY <1>1, KeptAlways, PTL DEF Spec
  <1> QED
    BY <1>2 DEF ResultOnlyByOwnAttempt, OwnResults

===============================================================================
