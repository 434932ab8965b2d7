------------------------- MODULE SpaceMembershipProofs -------------------------
(* Theorems about SpaceMembership, for every number of users, spaces,        *)
(* invitations and concurrent requests, and every value of the limits.       *)
EXTENDS SpaceMembership, Collections

-----------------------------------------------------------------------------
(* The inductive invariant.                                                *)

\* Requests that lock member rows in ascending order, and those that lock the
\* actor's own row.
Departures == {"leave", "remove", "delete"}
Writes == {"write", "sharedWrite"}
Invitings == {"invite", "resend", "revoke"}

\* The places of each operation, and its subjects.
PlaceOf(op, pc) ==
    /\ op \in Departures => pc \in {"readIds", "lockRows", "lockSpace", "recheck", "commit"}
    /\ op \in Writes => pc \in {"lockMember", "lockSpace", "commit"}
    /\ op = "invite" => pc \in {"lockMember", "lockSpace", "check", "commit"}
    /\ op = "resend" => pc \in {"lockMember", "lockSpace", "lockInvite", "check", "commit"}
    /\ op = "revoke" => pc \in {"lockMember", "lockInvite", "check", "commit"}
    /\ op = "join" => pc \in {"lockSpace", "lockInvite", "check", "commit"}

SubjectOf(op, x) ==
    /\ op \in {"resend", "revoke", "join"} => x \in Invites
    /\ op \in {"remove", "invite"} => x \in Users

\* A request is at a place its operation has.
Shaped(me) ==
    IF me.pc = "idle" THEN me = Idle
    ELSE /\ me.op \in Operations /\ me.user \in Users /\ me.space \in Spaces
         /\ SubjectOf(me.op, me.subject) /\ PlaceOf(me.op, me.pc)
         /\ me.op = "remove" => me.subject # me.user

RowsInv ==
    /\ IsFiniteSet(members)
    /\ \A m \in members : m.id < nextId /\ space[m.space] = "exists"
    /\ \A m, n \in members : m.id = n.id => m = n

InvitesInv ==
    \A i \in Invites :
        IF invite[i].state = "absent" THEN invite[i] = Invite(None, None, "absent")
        ELSE /\ invite[i].space \in Spaces /\ invite[i].to \in Users
             /\ space[invite[i].space] # "absent"
             /\ invite[i].state # "gone" => space[invite[i].space] = "exists"

LocksExclude ==
    \A c, d \in Clients : \A h \in tx[c].held, g \in tx[d].held :
        c # d /\ h.on = g.on => h.mode = "S" /\ g.mode = "S"

HoldsRow(me, m, mode) == Lock("member", m.id, mode) \in me.held
\* A space that was gone is gone for good.
HoldsSpace(me) ==
    Lock("space", me.space, SpaceMode(me.op)) \in me.held \/ space[me.space] = "gone"
HoldsInvite(me) == Lock("invite", me.subject, "X") \in me.held

\* The locks held at each place.
PastSpace(me) ==
    \/ me.pc \in {"recheck", "check", "commit"} /\ me.op # "revoke"
    \/ me.pc = "lockInvite" /\ me.op \in {"join", "resend"}

DepartureInv(me) ==
    /\ space[me.space] # "absent"
    /\ me.got \subseteq members /\ IsFiniteSet(me.got)
    /\ \A m \in me.got : HoldsRow(me, m, "X")
    /\ me.pc = "commit" =>
          /\ {m \in me.got : m.space = me.space} = MembersOf(me.space)
          /\ Actors(me) # {}

MemberInv(me) ==
    \E m \in RowOf(me.space, me.user) :
        HoldsRow(me, m, "S") /\ (me.op \in Invitings => m.role = "owner")

InviteInv(me) ==
    /\ invite[me.subject].state # "absent"
    /\ me.op = "join" => /\ invite[me.subject].space = me.space
                         /\ invite[me.subject].to = me.user
    /\ me.pc \in {"check", "commit"} => HoldsInvite(me)
    /\ me.pc = "commit" => /\ invite[me.subject].space = me.space
                           /\ invite[me.subject].state \in {"active", "expired"}

\* What the checks of a commit found.
CheckedInv(me) ==
    /\ me.op = "join" => RowOf(me.space, me.user) = {} /\ HasRoom(me.space)
    /\ me.op = "invite" => /\ NotInvited(me.space, me.subject)
                           /\ Cardinality(ActiveInvites(me.space)) < MaxPending

RequestInv(me) ==
    /\ me.op \in Departures => DepartureInv(me)
    /\ me.op \in Invitings \cup Writes /\ me.pc # "lockMember" => MemberInv(me)
    /\ me.op = "join" \/ (me.op \in {"resend", "revoke"} /\ me.pc \in {"check", "commit"}) => InviteInv(me)
    /\ PastSpace(me) => HoldsSpace(me)
    /\ me.pc = "commit" => CheckedInv(me)

\* Locks are taken in one order.
OrderInv(me) ==
    /\ me.pc \in {"readIds", "lockMember"} => me.held = {}
    /\ me.pc = "lockRows" => \A h \in me.held : h.on[1] = "member" /\ \A id \in me.todo : h.on[2] < id
    /\ me.pc = "lockSpace" => \A h \in me.held : h.on[1] = "member"
    /\ me.pc = "lockInvite" => \A h \in me.held : h.on[1] # "invite"

Typed == TypeOK /\ \A c \in Clients : Shaped(tx[c])

IInv ==
    /\ Typed
    /\ SpacesOwned /\ OneInvitePerAddress
    /\ RowsInv /\ InvitesInv /\ LocksExclude
    /\ \A c \in Clients : tx[c].pc # "idle" => RequestInv(tx[c]) /\ OrderInv(tx[c])

-----------------------------------------------------------------------------
(* Requests and locks are well-formed.                                     *)

LEMMA LockTyped ==
    /\ \A id \in Nat, mode \in {"S", "X"} : Lock("member", id, mode) \in Locks
    /\ \A s \in Spaces, mode \in {"S", "X"} : Lock("space", s, mode) \in Locks
    /\ \A i \in Invites, mode \in {"S", "X"} : Lock("invite", i, mode) \in Locks
  BY DEF Lock, Locks

LEMMA RequestOperators ==
    /\ Idle \in Transaction
    /\ \A op \in Operations, u \in Users, s \in Spaces, x \in Users \cup Invites \cup {None},
          pc \in Places, runs \in Nat : Begun(op, u, s, x, pc, runs) \in Transaction
    /\ \A me \in Transaction, pc \in Places, held \in SUBSET Locks : MovedTo(me, pc, held) \in Transaction
    /\ \A me \in Transaction, pc \in Places, todo \in SUBSET Nat, got \in SUBSET MemberRow,
          held \in SUBSET Locks : WithRows(me, pc, todo, got, held) \in Transaction
  <1>1. Idle \in Transaction
    BY DEF Idle, Transaction, Places
  <1>2. ASSUME NEW op \in Operations, NEW u \in Users, NEW s \in Spaces,
               NEW x \in Users \cup Invites \cup {None}, NEW pc \in Places, NEW runs \in Nat
        PROVE  Begun(op, u, s, x, pc, runs) \in Transaction
    BY DEF Begun, Transaction
  <1>3. ASSUME NEW me \in Transaction, NEW pc \in Places, NEW held \in SUBSET Locks
        PROVE  MovedTo(me, pc, held) \in Transaction
    BY DEF MovedTo, Transaction
  <1>4. ASSUME NEW me \in Transaction, NEW pc \in Places, NEW todo \in SUBSET Nat,
               NEW got \in SUBSET MemberRow, NEW held \in SUBSET Locks
        PROVE  WithRows(me, pc, todo, got, held) \in Transaction
    BY DEF WithRows, Transaction
  <1> QED
    BY <1>1, <1>2, <1>3, <1>4

LEMMA ShapedFields ==
    ASSUME NEW me \in Transaction, Shaped(me), me.pc # "idle"
    PROVE  /\ me.op \in Operations /\ me.user \in Users /\ me.space \in Spaces
           /\ SubjectOf(me.op, me.subject) /\ PlaceOf(me.op, me.pc)
           /\ me.op = "remove" => me.subject # me.user
           /\ me.runs \in Nat /\ me.got \subseteq MemberRow /\ me.held \subseteq Locks
           /\ me.todo \subseteq Nat
  BY DEF Shaped, Transaction

\* A request's invariants in the next state, for a request that is at c then.
LEMMA NextRequest ==
    ASSUME NEW c \in Clients, NEW me, tx'[c] = me, RequestInv(me)'
    PROVE  RequestInv(tx[c])'
  BY DEF RequestInv, DepartureInv, MemberInv, InviteInv, CheckedInv, PastSpace, HoldsRow, HoldsSpace,
         HoldsInvite, RowOf, MembersOf, ActiveInvites, HasRoom, NotInvited, Actors

LEMMA SameRequest ==
    ASSUME NEW me, UNCHANGED <<space, members, invite>>
    PROVE  RequestInv(me)' <=> RequestInv(me)
  BY DEF RequestInv, DepartureInv, MemberInv, InviteInv, CheckedInv, PastSpace, HoldsRow, HoldsSpace,
         HoldsInvite, RowOf, MembersOf, ActiveInvites, HasRoom, NotInvited, Actors

\* What other requests hold, me may not hold.
Excludes(c, me) ==
    \A d \in Clients \ {c} : \A h \in me.held, g \in tx[d].held :
        h.on = g.on => h.mode = "S" /\ g.mode = "S"

\* A step of one request that commits nothing.
LEMMA RequestStep ==
    ASSUME IInv, NEW c \in Clients, NEW me \in Transaction, Shaped(me),
           tx' = [tx EXCEPT ![c] = me], UNCHANGED <<space, members, invite, nextId>>,
           me.pc # "idle" => RequestInv(me) /\ OrderInv(me), Excludes(c, me)
    PROVE  IInv'
  <1> tx \in [Clients -> Transaction]
    BY DEF IInv, Typed, TypeOK
  <1>1. tx'[c] = me /\ \A d \in Clients : d # c => tx'[d] = tx[d]
    OBVIOUS
  <1>2. Typed'
    BY <1>1 DEF IInv, Typed, TypeOK
  <1>3. SpacesOwned' /\ OneInvitePerAddress' /\ RowsInv' /\ InvitesInv'
    <2>1. SpacesOwned'
      BY DEF IInv, SpacesOwned, MembersOf
    <2>2. OneInvitePerAddress'
      BY DEF IInv, OneInvitePerAddress, ActiveInvites
    <2>3. RowsInv'
      BY DEF IInv, RowsInv
    <2>4. InvitesInv'
      BY DEF IInv, InvitesInv
    <2> QED
      BY <2>1, <2>2, <2>3, <2>4
  <1>4. LocksExclude'
    <2> SUFFICES ASSUME NEW d \in Clients, NEW e \in Clients, NEW h \in tx'[d].held, NEW g \in tx'[e].held,
                        d # e, h.on = g.on
                 PROVE  h.mode = "S" /\ g.mode = "S"
      BY DEF LocksExclude
    <2> QED
      BY <1>1 DEF IInv, LocksExclude, Excludes
  <1>5. ASSUME NEW d \in Clients, tx'[d].pc # "idle"
        PROVE  RequestInv(tx[d])' /\ OrderInv(tx[d])'
    <2>1. RequestInv(tx'[d]) /\ OrderInv(tx'[d])
      BY <1>1, <1>5 DEF IInv
    <2>2. PICK you : you = tx'[d]
      OBVIOUS
    <2>3. RequestInv(you)'
      BY <2>1, <2>2, SameRequest
    <2>4. RequestInv(tx[d])'
      BY <2>2, <2>3, NextRequest
    <2>5. OrderInv(tx[d])'
      BY <2>1 DEF OrderInv
    <2> QED
      BY <2>4, <2>5
  <1> QED
    BY <1>2, <1>3, <1>4, <1>5 DEF IInv

-----------------------------------------------------------------------------
(* Steps that commit nothing.                                              *)

LEMMA OperationAt ==
    ASSUME NEW me \in Transaction, Shaped(me)
    PROVE  /\ me.pc \in {"readIds", "lockRows", "recheck"} => me.op \in Departures
           /\ me.pc = "lockMember" => me.op \in Invitings \cup Writes
           /\ me.pc = "lockSpace" => me.op # "revoke"
           /\ me.pc = "lockInvite" => me.op \in {"resend", "revoke", "join"}
           /\ me.pc = "check" => me.op \in Invitings \cup {"join"}
  <1>1. CASE me.pc = "idle"
    BY <1>1
  <1>2. CASE me.pc # "idle"
    BY <1>2 DEF Shaped, Operations, PlaceOf, Departures, Invitings, Writes
  <1> QED
    BY <1>1, <1>2

LEMMA EndsStep ==
    ASSUME IInv, NEW c \in Clients, Ends(c), UNCHANGED <<space, members, invite, nextId>>
    PROVE  IInv'
  <1>1. Shaped(Idle) /\ Idle.pc = "idle" /\ Idle.held = {}
    BY DEF Shaped, Idle
  <1> QED
    BY <1>1, RequestOperators, RequestStep DEF Ends, Excludes

\* How requests begin, and begin again.
MayBegin(op, u, s, x, pc) ==
    /\ op \in Operations /\ u \in Users /\ s \in Spaces /\ x \in Users \cup Invites \cup {None}
    /\ SubjectOf(op, x) /\ (op = "remove" => x # u)
    /\ \/ op \in Departures /\ pc = "readIds" /\ space[s] # "absent"
       \/ op \in Invitings \cup Writes /\ pc = "lockMember"
       \/ op = "join" /\ pc = "lockSpace" /\ invite[x].state # "absent"
             /\ invite[x].space = s /\ invite[x].to = u

LEMMA BegunStep ==
    ASSUME IInv, NEW c \in Clients, NEW op, NEW u, NEW s, NEW x, NEW pc, NEW runs \in Nat,
           MayBegin(op, u, s, x, pc),
           tx' = [tx EXCEPT ![c] = Begun(op, u, s, x, pc, runs)],
           UNCHANGED <<space, members, invite, nextId>>
    PROVE  IInv'
  <1> DEFINE me == Begun(op, u, s, x, pc, runs)
  <1> USE DEF MayBegin, Departures, Invitings, Writes
  <1>1. /\ me.op = op /\ me.user = u /\ me.space = s /\ me.subject = x /\ me.pc = pc
        /\ me.held = {} /\ me.got = {}
    BY DEF Begun
  <1>2. me \in Transaction
    <2>1. pc \in Places
      BY DEF Places
    <2> QED
      BY <2>1, RequestOperators
  <1>3. tx' = [tx EXCEPT ![c] = me]
    OBVIOUS
  <1> HIDE DEF me
  <1>4. Shaped(me)
    <2>1. PlaceOf(op, pc) /\ pc # "idle"
      BY DEF PlaceOf
    <2> QED
      BY <1>1, <2>1 DEF Shaped
  <1>5. RequestInv(me)
    <2>1. IsFiniteSet({})
      BY FS_EmptySet
    <2>2. op \in Departures => DepartureInv(me)
      BY <1>1, <2>1 DEF DepartureInv
    <2>3. op = "join" => InviteInv(me)
      BY <1>1 DEF InviteInv
    <2>4. ~PastSpace(me)
      BY <1>1 DEF PastSpace
    <2> QED
      BY <1>1, <2>2, <2>3, <2>4 DEF RequestInv
  <1>6. OrderInv(me)
    BY <1>1 DEF OrderInv
  <1>7. Excludes(c, me)
    BY <1>1 DEF Excludes
  <1> QED
    BY <1>2, <1>3, <1>4, <1>5, <1>6, <1>7, RequestStep

LEMMA BeginStep ==
    ASSUME IInv, NEW c \in Clients, NEW op, NEW u, NEW s, NEW x, NEW pc,
           MayBegin(op, u, s, x, pc), Begin(c, op, u, s, x, pc)
    PROVE  IInv'
  BY BegunStep DEF Begin

LEMMA BeginSomeStep ==
    ASSUME IInv, NEW c \in Clients, BeginSome(c) PROVE IInv'
  <1> USE DEF MayBegin, SubjectOf, Departures, Invitings, Writes, Operations
  <1>1. ASSUME NEW s \in Spaces, NEW u \in Users, RowOf(s, u) # {} PROVE space[s] # "absent"
    BY <1>1 DEF IInv, RowsInv, RowOf
  <1>2. ASSUME NEW u \in Users, NEW s \in Spaces, BeginLeave(c, u, s) PROVE IInv'
    <2>1. MayBegin("leave", u, s, None, "readIds")
      BY <1>1, <1>2 DEF BeginLeave
    <2> QED
      BY <1>2, <2>1, BeginStep DEF BeginLeave
  <1>3. ASSUME NEW u \in Users, NEW s \in Spaces, BeginDelete(c, u, s) PROVE IInv'
    <2>1. MayBegin("delete", u, s, None, "readIds")
      BY <1>1, <1>3 DEF BeginDelete
    <2> QED
      BY <1>3, <2>1, BeginStep DEF BeginDelete
  <1>4. ASSUME NEW u \in Users, NEW s \in Spaces, BeginWrite(c, u, s) PROVE IInv'
    <2>1. \A op \in {"write", "sharedWrite"} : MayBegin(op, u, s, None, "lockMember")
      OBVIOUS
    <2> QED
      BY <1>4, <2>1, BeginStep DEF BeginWrite
  <1>5. ASSUME NEW u \in Users, NEW s \in Spaces, NEW v \in Users, BeginRemove(c, u, s, v) PROVE IInv'
    <2>1. MayBegin("remove", u, s, v, "readIds")
      BY <1>1, <1>5 DEF BeginRemove
    <2> QED
      BY <1>5, <2>1, BeginStep DEF BeginRemove
  <1>6. ASSUME NEW u \in Users, NEW s \in Spaces, NEW v \in Users, BeginCreateInvite(c, u, s, v)
        PROVE  IInv'
    <2>1. MayBegin("invite", u, s, v, "lockMember")
      OBVIOUS
    <2> QED
      BY <1>6, <2>1, BeginStep DEF BeginCreateInvite
  <1>7. ASSUME NEW u \in Users, NEW s \in Spaces, NEW i \in Invites,
               BeginResend(c, u, s, i) \/ BeginRevoke(c, u, s, i)
        PROVE  IInv'
    <2>1. MayBegin("resend", u, s, i, "lockMember") /\ MayBegin("revoke", u, s, i, "lockMember")
      OBVIOUS
    <2> QED
      BY <1>7, <2>1, BeginStep DEF BeginResend, BeginRevoke
  <1>8. ASSUME NEW i \in Invites, BeginJoin(c, i) PROVE IInv'
    <2>1. invite[i].space \in Spaces /\ invite[i].to \in Users /\ invite[i].state # "absent"
      BY <1>8 DEF BeginJoin, Present, IInv, InvitesInv
    <2>2. MayBegin("join", invite[i].to, invite[i].space, i, "lockSpace")
      BY <2>1
    <2> HIDE DEF MayBegin
    <2> QED
      BY <1>8, <2>2, BeginStep DEF BeginJoin
  <1> QED
    BY <1>2, <1>3, <1>4, <1>5, <1>6, <1>7, <1>8 DEF BeginSome

\* What a lock that is free does not collide with.
LEMMA TakesStep ==
    ASSUME IInv, NEW c \in Clients, NEW lock \in Locks, NEW pc \in Places, tx[c].pc # "idle",
           Takes(c, lock, pc), UNCHANGED <<space, members, invite, nextId>>,
           pc # "idle", PlaceOf(tx[c].op, pc),
           RequestInv(MovedTo(tx[c], pc, tx[c].held \cup {lock})),
           OrderInv(MovedTo(tx[c], pc, tx[c].held \cup {lock}))
    PROVE  IInv'
  <1> DEFINE me == MovedTo(tx[c], pc, tx[c].held \cup {lock})
  <1>1. tx[c] \in Transaction /\ Shaped(tx[c])
    BY DEF IInv, Typed, TypeOK
  <1>2. /\ me.op = tx[c].op /\ me.user = tx[c].user /\ me.space = tx[c].space
        /\ me.subject = tx[c].subject /\ me.pc = pc /\ me.held = tx[c].held \cup {lock}
    BY DEF MovedTo
  <1>3. tx' = [tx EXCEPT ![c] = me]
    BY DEF Takes
  <1>4. me \in Transaction
    <2>1. tx[c].held \cup {lock} \in SUBSET Locks
      BY <1>1 DEF Transaction
    <2> QED
      BY <1>1, <2>1, RequestOperators
  <1>5. RequestInv(me) /\ OrderInv(me)
    OBVIOUS
  <1> HIDE DEF me
  <1>6. Shaped(me)
    BY <1>1, <1>2 DEF Shaped
  <1>7. Excludes(c, me)
    BY <1>2 DEF Takes, Free, Excludes, IInv, LocksExclude
  <1> QED
    BY <1>3, <1>4, <1>5, <1>6, <1>7, RequestStep

\* A request that is under way, and what is known of it.
LEMMA Working ==
    ASSUME IInv, NEW c \in Clients, tx[c].pc # "idle"
    PROVE  /\ tx[c] \in Transaction /\ Shaped(tx[c]) /\ RequestInv(tx[c]) /\ OrderInv(tx[c])
           /\ tx[c].op \in Operations /\ tx[c].user \in Users /\ tx[c].space \in Spaces
           /\ SubjectOf(tx[c].op, tx[c].subject) /\ PlaceOf(tx[c].op, tx[c].pc)
           /\ tx[c].op = "remove" => tx[c].subject # tx[c].user
           /\ tx[c].runs \in Nat /\ tx[c].got \subseteq MemberRow /\ tx[c].held \subseteq Locks
           /\ tx[c].todo \subseteq Nat
  <1>1. tx[c] \in Transaction /\ Shaped(tx[c]) /\ RequestInv(tx[c]) /\ OrderInv(tx[c])
    BY DEF IInv, Typed, TypeOK
  <1> QED
    BY <1>1, ShapedFields

LEMMA RowIds ==
    ASSUME IInv PROVE \A m \in members : m \in MemberRow /\ m.id \in Nat
  BY DEF IInv, Typed, TypeOK, MemberRow

\* Reading ids and locking rows: todo shrinks, got and held grow.
LEMMA RowsStep ==
    ASSUME IInv, NEW c \in Clients, tx[c].pc \in {"readIds", "lockRows"},
           NEW todo \in SUBSET Nat, NEW rows \in SUBSET members, NEW locks \in SUBSET Locks,
           UNCHANGED <<space, members, invite, nextId>>,
           tx' = [tx EXCEPT ![c] = WithRows(tx[c], AfterRows(todo), todo, rows, locks)],
           Excludes(c, WithRows(tx[c], AfterRows(todo), todo, rows, locks)),
           IsFiniteSet(rows), \A m \in rows : Lock("member", m.id, "X") \in locks,
           \A h \in locks : h.on[1] = "member" /\ \A id \in todo : h.on[2] < id
    PROVE  IInv'
  <1> DEFINE me == WithRows(tx[c], AfterRows(todo), todo, rows, locks)
  <1>1. tx' = [tx EXCEPT ![c] = me] /\ Excludes(c, me)
    OBVIOUS
  <1>2. /\ me.op = tx[c].op /\ me.user = tx[c].user /\ me.space = tx[c].space
        /\ me.subject = tx[c].subject /\ me.pc = AfterRows(todo) /\ me.todo = todo
        /\ me.got = rows /\ me.held = locks
    BY DEF WithRows
  <1>3. me.pc \in {"lockRows", "lockSpace"} /\ me.pc # "idle" /\ tx[c].pc # "idle"
    BY <1>2 DEF AfterRows
  <1>4. tx[c].op \in Departures
    BY OperationAt, Working, <1>3
  <1>5. me \in Transaction
    <2>1. rows \in SUBSET MemberRow
      BY RowIds
    <2>2. AfterRows(todo) \in Places
      BY DEF AfterRows, Places
    <2> QED
      BY <1>3, <2>1, <2>2, Working, RequestOperators
  <1> HIDE DEF me
  <1>6. Shaped(me)
    BY <1>2, <1>3, <1>4, Working DEF Shaped, PlaceOf, Departures, Writes
  <1>7. RequestInv(me)
    <2>1. space[me.space] # "absent"
      BY <1>2, <1>3, <1>4, Working DEF RequestInv, DepartureInv
    <2>2. DepartureInv(me)
      BY <1>2, <1>3, <2>1 DEF DepartureInv, HoldsRow
    <2> QED
      BY <1>2, <1>3, <1>4, <2>2 DEF RequestInv, Departures, Invitings, Writes, PastSpace
  <1>8. OrderInv(me)
    BY <1>2, <1>3 DEF OrderInv
  <1> QED
    BY <1>1, <1>5, <1>6, <1>7, <1>8, RequestStep

LEMMA ReadIdsStep == ASSUME IInv, NEW c \in Clients, ReadIds(c) PROVE IInv'
  <1> DEFINE ids == RowsToLock(tx[c].space, tx[c].user)
  <1>1. ids \in SUBSET Nat
    BY RowIds DEF RowsToLock
  <1>2. IsFiniteSet({})
    BY FS_EmptySet
  <1>3. Excludes(c, WithRows(tx[c], AfterRows(ids), ids, {}, {}))
    BY DEF Excludes, WithRows
  <1>4. /\ tx' = [tx EXCEPT ![c] = WithRows(tx[c], AfterRows(ids), ids, {}, {})]
        /\ UNCHANGED <<space, members, invite, nextId>> /\ tx[c].pc = "readIds"
    BY DEF ReadIds
  <1>5. PICK todo, none : todo = ids /\ none = {}
    OBVIOUS
  <1>6. /\ tx' = [tx EXCEPT ![c] = WithRows(tx[c], AfterRows(todo), todo, none, none)]
        /\ Excludes(c, WithRows(tx[c], AfterRows(todo), todo, none, none))
    BY <1>3, <1>4, <1>5
  <1>7. /\ todo \in SUBSET Nat /\ none \in SUBSET members /\ none \in SUBSET Locks
        /\ IsFiniteSet(none) /\ none = {} /\ tx[c].pc \in {"readIds", "lockRows"}
    BY <1>1, <1>2, <1>4, <1>5
  <1>8. /\ \A m \in none : Lock("member", m.id, "X") \in none
        /\ \A h \in none : h.on[1] = "member" /\ \A id \in todo : h.on[2] < id
    BY <1>7
  <1> HIDE DEF ids
  <1> QED
    BY <1>4, <1>6, <1>7, <1>8, RowsStep

LEMMA LockRowStep == ASSUME IInv, NEW c \in Clients, LockRow(c) PROVE IInv'
  <1> DEFINE lock(id) == Lock("member", id, "X")
             found(id) == {m \in members : m.id = id}
             left(id) == tx[c].todo \ {id}
             locks(id) == tx[c].held \cup {l \in {lock(id)} : found(id) # {}}
             me(id) == WithRows(tx[c], AfterRows(left(id)), left(id), tx[c].got \cup found(id), locks(id))
  <1>1. PICK id \in tx[c].todo :
           /\ NextToLock(c, id) /\ (found(id) # {} => Free(c, lock(id)))
           /\ tx' = [tx EXCEPT ![c] = me(id)]
    BY DEF LockRow
  <1>2. /\ tx[c].pc = "lockRows" /\ UNCHANGED <<space, members, invite, nextId>>
    BY DEF LockRow
  <1>3. /\ tx[c] \in Transaction /\ tx[c].todo \subseteq Nat /\ tx[c].held \subseteq Locks
        /\ tx[c].op \in Departures /\ DepartureInv(tx[c]) /\ OrderInv(tx[c])
    BY <1>2, Working, OperationAt DEF RequestInv
  <1>4. id \in Nat /\ lock(id) \in Locks /\ lock(id).on[1] = "member" /\ lock(id).on[2] = id
    BY <1>1, <1>3, LockTyped DEF Lock
  <1>5. tx[c].got \cup found(id) \in SUBSET members /\ IsFiniteSet(tx[c].got \cup found(id))
    <2>1. tx[c].got \in SUBSET members /\ IsFiniteSet(members)
      BY <1>3 DEF DepartureInv, IInv, RowsInv
    <2> QED
      BY <2>1, FS_Subset
  <1>6. left(id) \in SUBSET Nat /\ locks(id) \in SUBSET Locks
    BY <1>3, <1>4
  <1>7. \A m \in tx[c].got \cup found(id) : Lock("member", m.id, "X") \in locks(id)
    BY <1>2, <1>3 DEF DepartureInv, HoldsRow
  <1>8. \A h \in locks(id) : h.on[1] = "member" /\ \A other \in left(id) : h.on[2] < other
    <2>1. \A other \in left(id) : other \in Nat /\ id < other
      BY <1>1, <1>3, <1>4 DEF NextToLock
    <2>2. \A h \in tx[c].held : h.on[1] = "member" /\ \A other \in left(id) : h.on[2] < other
      BY <1>2, <1>3 DEF OrderInv
    <2> HIDE DEF lock, left
    <2> QED
      BY <1>4, <2>1, <2>2
  <1>9. Excludes(c, me(id))
    <2>1. me(id).held = locks(id)
      BY DEF WithRows
    <2>2. ASSUME NEW d \in Clients \ {c}, NEW h \in tx[c].held, NEW g \in tx[d].held, h.on = g.on
          PROVE  h.mode = "S" /\ g.mode = "S"
      BY <2>2 DEF IInv, LocksExclude
    <2>3. ASSUME found(id) # {}, NEW d \in Clients \ {c}, NEW g \in tx[d].held, lock(id).on = g.on
          PROVE  FALSE
      BY <1>1, <2>3 DEF Free, Lock
    <2> HIDE DEF me, lock, found
    <2> QED
      BY <2>1, <2>2, <2>3 DEF Excludes
  <1>10. tx' = [tx EXCEPT ![c] = me(id)]
    BY <1>1
  <1>11. tx[c].pc \in {"readIds", "lockRows"}
    BY <1>2
  <1> HIDE DEF left, locks, found
  <1> QED
    BY <1>2, <1>5, <1>6, <1>7, <1>8, <1>9, <1>10, <1>11, RowsStep

LEMMA LockMemberStep == ASSUME IInv, NEW c \in Clients, LockMember(c) PROVE IInv'
  <1> DEFINE next == IF tx[c].op = "revoke" THEN "lockInvite" ELSE "lockSpace"
  <1>1. tx[c].pc = "lockMember" /\ UNCHANGED <<space, members, invite, nextId>>
    BY DEF LockMember
  <1>2. /\ tx[c] \in Transaction /\ tx[c].op \in Invitings \cup Writes /\ tx[c].held = {}
        /\ tx[c].pc # "idle"
    BY <1>1, Working, OperationAt DEF OrderInv
  <1>3. CASE Ends(c)
    BY <1>1, <1>3, EndsStep
  <1>4. CASE \E m \in RowOf(tx[c].space, tx[c].user) :
               /\ tx[c].op \in NeedsOwner => m.role = "owner"
               /\ Takes(c, Lock("member", m.id, "S"), next)
    <2>1. PICK m \in RowOf(tx[c].space, tx[c].user) :
               /\ tx[c].op \in NeedsOwner => m.role = "owner"
               /\ Takes(c, Lock("member", m.id, "S"), next)
      BY <1>4
    <2>2. PICK lock : lock = Lock("member", m.id, "S")
      OBVIOUS
    <2>3. lock \in Locks /\ lock.on[1] = "member"
      BY <2>2, RowIds, LockTyped DEF RowOf, Lock
    <2>4. next \in Places /\ next # "idle" /\ PlaceOf(tx[c].op, next)
      BY <1>2 DEF Places, PlaceOf, Departures, Writes, Invitings
    <2> DEFINE me == MovedTo(tx[c], next, tx[c].held \cup {lock})
    <2>5. /\ me.op = tx[c].op /\ me.user = tx[c].user /\ me.space = tx[c].space
          /\ me.subject = tx[c].subject /\ me.pc = next /\ me.held = {lock}
      BY <1>2 DEF MovedTo
    <2> HIDE DEF me
    <2>6. RequestInv(me)
      <3>1. MemberInv(me)
        BY <2>1, <2>2, <2>5 DEF MemberInv, HoldsRow, NeedsOwner, Invitings
      <3> QED
        BY <1>2, <2>5, <3>1 DEF RequestInv, PastSpace, Departures, Writes, Invitings
    <2>7. OrderInv(me)
      BY <2>3, <2>5 DEF OrderInv
    <2>8. Takes(c, lock, next)
      BY <2>1, <2>2
    <2> HIDE DEF next
    <2> QED
      BY <1>1, <1>2, <2>3, <2>4, <2>6, <2>7, <2>8, TakesStep DEF me
  <1> QED
    BY <1>3, <1>4 DEF LockMember

\* Where lockSpace() leads, one value at a time.
LEMMA AfterSpaceValues ==
    ASSUME NEW op \in Operations
    PROVE  /\ op \in Departures => AfterSpace(op) = "recheck"
           /\ op \in {"join", "resend"} => AfterSpace(op) = "lockInvite"
           /\ op = "invite" => AfterSpace(op) = "check"
           /\ op \in {"write", "sharedWrite", "revoke"} => AfterSpace(op) = "commit"
  BY Zenon DEF AfterSpace, Departures

LEMMA LockSpaceStep == ASSUME IInv, NEW c \in Clients, LockSpace(c) PROVE IInv'
  <1> DEFINE lock == Lock("space", tx[c].space, SpaceMode(tx[c].op))
             next == AfterSpace(tx[c].op)
  <1>1. tx[c].pc = "lockSpace" /\ tx[c].pc # "idle" /\ UNCHANGED <<space, members, invite, nextId>>
    BY DEF LockSpace
  <1>2. /\ tx[c] \in Transaction /\ tx[c].op \in Operations /\ tx[c].op # "revoke"
        /\ RequestInv(tx[c]) /\ OrderInv(tx[c]) /\ Shaped(tx[c]) /\ tx[c].space \in Spaces
    BY <1>1, Working, OperationAt
  <1>3. /\ next \in Places /\ next # "idle" /\ PlaceOf(tx[c].op, next)
        /\ next \in {"recheck", "lockInvite", "check", "commit"}
        /\ next = "commit" => tx[c].op \in Writes
        /\ next = "check" => tx[c].op = "invite"
    BY <1>2, AfterSpaceValues DEF Places, PlaceOf, Operations, Departures, Writes, Invitings
  <1>4. lock \in Locks /\ lock.on[1] = "space"
    BY <1>2, LockTyped DEF SpaceMode, Lock
  <1>5. ASSUME NEW held \in SUBSET Locks, tx[c].held \subseteq held, held \subseteq tx[c].held \cup {lock},
               lock \in held \/ space[tx[c].space] = "gone"
        PROVE  RequestInv(MovedTo(tx[c], next, held)) /\ OrderInv(MovedTo(tx[c], next, held))
    <2> DEFINE me == MovedTo(tx[c], next, held)
    <2>1. /\ me.op = tx[c].op /\ me.user = tx[c].user /\ me.space = tx[c].space
          /\ me.subject = tx[c].subject /\ me.pc = next /\ me.held = held /\ me.got = tx[c].got
      BY DEF MovedTo
    <2>2. HoldsSpace(me)
      BY <1>5, <2>1 DEF HoldsSpace
    <2> HIDE DEF me, next
    <2>3. me.op \in Departures => DepartureInv(me)
      BY <1>1, <1>2, <1>3, <1>5, <2>1 DEF RequestInv, DepartureInv, HoldsRow, Departures, Writes, Invitings
    <2>4. me.op \in Invitings \cup Writes => MemberInv(me)
      BY <1>1, <1>2, <1>5, <2>1 DEF RequestInv, MemberInv, HoldsRow
    <2>5. me.op = "join" => InviteInv(me)
      BY <1>1, <1>2, <1>3, <2>1 DEF RequestInv, InviteInv, PlaceOf, Writes
    <2>6. RequestInv(me)
      <3>1. me.op \in {"resend", "revoke"} => me.pc \notin {"check", "commit"}
        BY <1>2, <1>3, <2>1 DEF Writes
      <3>2. me.pc = "commit" => CheckedInv(me)
        BY <1>3, <2>1 DEF CheckedInv, Writes
      <3> QED
        BY <2>2, <2>3, <2>4, <2>5, <3>1, <3>2 DEF RequestInv
    <2>7. OrderInv(me)
      BY <1>1, <1>2, <1>3, <1>4, <1>5, <2>1 DEF OrderInv
    <2> QED
      BY <2>6, <2>7 DEF me
  <1> HIDE DEF next, lock
  <1>6. CASE Takes(c, lock, next)
    <2>1. tx[c].held \cup {lock} \in SUBSET Locks
      BY <1>2, <1>4 DEF Transaction
    <2>2. RequestInv(MovedTo(tx[c], next, tx[c].held \cup {lock}))
          /\ OrderInv(MovedTo(tx[c], next, tx[c].held \cup {lock}))
      <3>1. PICK held : held = tx[c].held \cup {lock}
        OBVIOUS
      <3>2. RequestInv(MovedTo(tx[c], next, held)) /\ OrderInv(MovedTo(tx[c], next, held))
        BY <1>5, <2>1, <3>1
      <3> QED
        BY <3>1, <3>2
    <2> QED
      BY <1>1, <1>3, <1>4, <1>6, <2>2, TakesStep
  <1>7. CASE space[tx[c].space] # "exists" /\ tx' = [tx EXCEPT ![c] = MovedTo(tx[c], next, tx[c].held)]
    <2>1. space[tx[c].space] = "gone"
      <3>1. space[tx[c].space] # "absent"
        <4>1. CASE tx[c].op \in Departures
          BY <1>2, <4>1 DEF RequestInv, DepartureInv
        <4>2. CASE tx[c].op \in Invitings \cup Writes
          BY <1>1, <1>2, <4>2 DEF RequestInv, MemberInv, RowOf, IInv, RowsInv
        <4>3. CASE tx[c].op = "join"
          <5>1. tx[c].subject \in Invites
            BY <1>1, <4>3, Working DEF SubjectOf
          <5> QED
            BY <1>2, <4>3, <5>1 DEF RequestInv, InviteInv, IInv, InvitesInv
        <4> QED
          BY <1>2, <4>1, <4>2, <4>3 DEF Operations, Departures, Invitings, Writes
      <3> QED
        BY <1>2, <1>7, <3>1 DEF IInv, Typed, TypeOK
    <2> DEFINE me == MovedTo(tx[c], next, tx[c].held)
    <2>2. tx[c].held \in SUBSET Locks
      BY <1>2 DEF Transaction
    <2>3. RequestInv(me) /\ OrderInv(me) /\ me \in Transaction
      BY <1>2, <1>3, <1>5, <2>1, <2>2, RequestOperators
    <2>4. Excludes(c, me) /\ Shaped(me)
      <3>1. me.op = tx[c].op /\ me.user = tx[c].user /\ me.space = tx[c].space
            /\ me.subject = tx[c].subject /\ me.pc = next /\ me.held = tx[c].held
        BY DEF MovedTo
      <3> HIDE DEF me
      <3>2. Shaped(me)
        BY <1>1, <1>2, <1>3, <3>1 DEF Shaped
      <3>3. Excludes(c, me)
        BY <3>1 DEF Excludes, IInv, LocksExclude
      <3> QED
        BY <3>2, <3>3
    <2>5. tx' = [tx EXCEPT ![c] = me]
      BY <1>7
    <2> HIDE DEF me
    <2> QED
      BY <1>1, <2>3, <2>4, <2>5, RequestStep
  <1> QED
    BY <1>6, <1>7 DEF LockSpace, next, lock

LEMMA LockInviteStep == ASSUME IInv, NEW c \in Clients, LockInvite(c) PROVE IInv'
  <1>1. tx[c].pc = "lockInvite" /\ tx[c].pc # "idle" /\ UNCHANGED <<space, members, invite, nextId>>
    BY DEF LockInvite
  <1>2. /\ tx[c] \in Transaction /\ tx[c].op \in {"resend", "revoke", "join"}
        /\ RequestInv(tx[c]) /\ OrderInv(tx[c]) /\ Shaped(tx[c]) /\ tx[c].subject \in Invites
    BY <1>1, Working, OperationAt DEF SubjectOf
  <1>3. CASE Ends(c)
    BY <1>1, <1>3, EndsStep
  <1>4. CASE Present(tx[c].subject) /\ Takes(c, Lock("invite", tx[c].subject, "X"), "check")
    <2>1. PICK lock : lock = Lock("invite", tx[c].subject, "X")
      OBVIOUS
    <2>2. lock \in Locks
      BY <1>2, <2>1, LockTyped
    <2> DEFINE me == MovedTo(tx[c], "check", tx[c].held \cup {lock})
    <2>3. /\ me.op = tx[c].op /\ me.user = tx[c].user /\ me.space = tx[c].space
          /\ me.subject = tx[c].subject /\ me.pc = "check" /\ me.held = tx[c].held \cup {lock}
          /\ me.got = tx[c].got
      BY DEF MovedTo
    <2> HIDE DEF me
    <2>4. InviteInv(me)
      BY <1>2, <1>4, <2>1, <2>3 DEF InviteInv, HoldsInvite, Present, RequestInv
    <2>5. me.op \in {"resend", "revoke"} => MemberInv(me)
      BY <1>1, <1>2, <2>3 DEF RequestInv, MemberInv, HoldsRow, Invitings
    <2>6. PastSpace(me) => HoldsSpace(me)
      BY <1>1, <1>2, <2>3 DEF RequestInv, PastSpace, HoldsSpace
    <2>7. RequestInv(me)
      BY <1>2, <2>3, <2>4, <2>5, <2>6 DEF RequestInv, Departures, Writes, Invitings
    <2>8. OrderInv(me)
      BY <2>3 DEF OrderInv
    <2>9. "check" \in Places /\ PlaceOf(tx[c].op, "check")
      BY <1>2 DEF Places, PlaceOf, Departures, Writes
    <2>10. Takes(c, lock, "check")
      BY <1>4, <2>1
    <2> QED
      BY <1>1, <2>2, <2>7, <2>8, <2>9, <2>10, TakesStep DEF me
  <1> QED
    BY <1>3, <1>4 DEF LockInvite

LEMMA RecheckStep == ASSUME IInv, NEW c \in Clients, Recheck(c) PROVE IInv'
  <1>1. tx[c].pc = "recheck" /\ tx[c].pc # "idle" /\ UNCHANGED <<space, members, invite, nextId>>
    BY DEF Recheck
  <1>2. /\ tx[c] \in Transaction /\ tx[c].op \in Departures /\ Shaped(tx[c])
        /\ RequestInv(tx[c]) /\ DepartureInv(tx[c])
    BY <1>1, Working, OperationAt DEF RequestInv
  <1>3. CASE tx' = [tx EXCEPT ![c] = Idle]
    BY <1>1, <1>3, EndsStep DEF Ends
  <1>4. CASE tx' = [tx EXCEPT ![c] = Begun(tx[c].op, tx[c].user, tx[c].space, tx[c].subject,
                                           "readIds", tx[c].runs + 1)]
    <2>1. tx[c].runs + 1 \in Nat /\ tx[c].subject \in Users \cup Invites \cup {None}
      BY <1>2 DEF Transaction
    <2>2. MayBegin(tx[c].op, tx[c].user, tx[c].space, tx[c].subject, "readIds")
      BY <1>1, <1>2, <2>1, Working DEF MayBegin, DepartureInv
    <2> QED
      BY <1>1, <1>4, <2>1, <2>2, BegunStep
  <1>5. CASE /\ SetUnchanged(tx[c]) /\ Actors(tx[c]) # {}
             /\ tx' = [tx EXCEPT ![c] = MovedTo(tx[c], "commit", tx[c].held)]
    <2> DEFINE me == MovedTo(tx[c], "commit", tx[c].held)
    <2>1. /\ me.op = tx[c].op /\ me.user = tx[c].user /\ me.space = tx[c].space
          /\ me.subject = tx[c].subject /\ me.pc = "commit" /\ me.held = tx[c].held
          /\ me.got = tx[c].got
      BY DEF MovedTo
    <2>2. tx' = [tx EXCEPT ![c] = me]
      BY <1>5
    <2>3. me \in Transaction
      <3>1. tx[c].held \in SUBSET Locks /\ "commit" \in Places
        BY <1>2 DEF Transaction, Places
      <3> QED
        BY <1>2, <3>1, RequestOperators
    <2> HIDE DEF me
    <2>4. Shaped(me) /\ OrderInv(me) /\ Excludes(c, me)
      <3>1. Shaped(me)
        BY <1>1, <1>2, <2>1 DEF Shaped, PlaceOf, Departures, Writes
      <3>2. OrderInv(me)
        BY <2>1 DEF OrderInv
      <3>3. Excludes(c, me)
        BY <2>1 DEF Excludes, IInv, LocksExclude
      <3> QED
        BY <3>1, <3>2, <3>3
    <2>5. {m \in tx[c].got : m.space = tx[c].space} = MembersOf(tx[c].space)
      <3>1. tx[c].got \subseteq members
        BY <1>2 DEF DepartureInv
      <3>2. ASSUME NEW m \in MembersOf(tx[c].space) PROVE m \in tx[c].got
        <4>1. m.id \in RowsToLock(tx[c].space, tx[c].user)
          BY DEF MembersOf, RowsToLock
        <4>2. PICK r \in tx[c].got : r.id = m.id
          BY <1>5, <4>1 DEF SetUnchanged
        <4> QED
          BY <3>1, <4>2 DEF IInv, RowsInv, MembersOf
      <3> QED
        BY <3>1, <3>2 DEF MembersOf
    <2>6. DepartureInv(me)
      BY <1>1, <1>2, <1>5, <2>1, <2>5 DEF DepartureInv, HoldsRow, Actors
    <2>7. HoldsSpace(me)
      BY <1>1, <1>2, <2>1 DEF RequestInv, PastSpace, HoldsSpace, Departures
    <2>8. RequestInv(me)
      BY <1>2, <2>1, <2>6, <2>7 DEF RequestInv, CheckedInv, Departures, Writes, Invitings
    <2> QED
      BY <1>1, <2>2, <2>3, <2>4, <2>8, RequestStep
  <1> QED
    BY <1>3, <1>4, <1>5 DEF Recheck

\* What an accepted check says, one operation at a time.
LEMMA AcceptedValues ==
    ASSUME NEW me, Accepted(me)
    PROVE  /\ me.op = "join" => /\ RowOf(me.space, me.user) = {}
                                /\ invite[me.subject].state = "active" /\ HasRoom(me.space)
           /\ me.op = "invite" => /\ space[me.space] = "exists" /\ NotInvited(me.space, me.subject)
                                  /\ Cardinality(ActiveInvites(me.space)) < MaxPending
           /\ me.op = "resend" => /\ invite[me.subject].space = me.space
                                  /\ invite[me.subject].state = "active"
           /\ me.op = "revoke" => /\ invite[me.subject].space = me.space
                                  /\ invite[me.subject].state \in {"active", "expired"}
  <1>1. ASSUME me.op = "join"
        PROVE  /\ RowOf(me.space, me.user) = {}
               /\ invite[me.subject].state = "active" /\ HasRoom(me.space)
    BY <1>1, Zenon DEF Accepted
  <1>2. ASSUME me.op = "invite"
        PROVE  /\ space[me.space] = "exists" /\ NotInvited(me.space, me.subject)
               /\ Cardinality(ActiveInvites(me.space)) < MaxPending
    BY <1>2, Zenon DEF Accepted
  <1>3. ASSUME me.op = "resend"
        PROVE  invite[me.subject].space = me.space /\ invite[me.subject].state = "active"
    BY <1>3, Zenon DEF Accepted
  <1>4. ASSUME me.op = "revoke"
        PROVE  /\ invite[me.subject].space = me.space
               /\ invite[me.subject].state \in {"active", "expired"}
    BY <1>4, Zenon DEF Accepted
  <1> QED
    BY <1>1, <1>2, <1>3, <1>4

LEMMA CheckStep == ASSUME IInv, NEW c \in Clients, Check(c) PROVE IInv'
  <1>1. tx[c].pc = "check" /\ tx[c].pc # "idle" /\ UNCHANGED <<space, members, invite, nextId>>
    BY DEF Check
  <1>2. /\ tx[c] \in Transaction /\ tx[c].op \in Invitings \cup {"join"} /\ Shaped(tx[c])
        /\ RequestInv(tx[c])
    BY <1>1, Working, OperationAt
  <1>3. CASE Ends(c)
    BY <1>1, <1>3, EndsStep
  <1>4. CASE /\ Accepted(tx[c])
             /\ tx' = [tx EXCEPT ![c] = MovedTo(tx[c], "commit", tx[c].held)]
    <2> DEFINE me == MovedTo(tx[c], "commit", tx[c].held)
    <2>1. /\ me.op = tx[c].op /\ me.user = tx[c].user /\ me.space = tx[c].space
          /\ me.subject = tx[c].subject /\ me.pc = "commit" /\ me.held = tx[c].held
      BY DEF MovedTo
    <2>2. tx' = [tx EXCEPT ![c] = me]
      BY <1>4
    <2>3. me \in Transaction
      <3>1. tx[c].held \in SUBSET Locks /\ "commit" \in Places
        BY <1>2 DEF Transaction, Places
      <3> QED
        BY <1>2, <3>1, RequestOperators
    <2> HIDE DEF me
    <2>4. Shaped(me) /\ OrderInv(me) /\ Excludes(c, me)
      <3>1. Shaped(me)
        BY <1>1, <1>2, <2>1 DEF Shaped, PlaceOf, Departures, Writes, Invitings
      <3>2. OrderInv(me)
        BY <2>1 DEF OrderInv
      <3>3. Excludes(c, me)
        BY <2>1 DEF Excludes, IInv, LocksExclude
      <3> QED
        BY <3>1, <3>2, <3>3
    <2>5. me.op \in Invitings => MemberInv(me)
      BY <1>1, <1>2, <2>1 DEF RequestInv, MemberInv, HoldsRow
    <2>6. me.op \in {"join", "resend", "revoke"} => InviteInv(me)
      BY <1>1, <1>2, <1>4, <2>1, AcceptedValues DEF RequestInv, InviteInv, HoldsInvite
    <2>7. PastSpace(me) => HoldsSpace(me)
      BY <1>1, <2>1, <1>2 DEF RequestInv, PastSpace, HoldsSpace
    <2>8. CheckedInv(me)
      <3>1. me.op = "join" => RowOf(me.space, me.user) = {} /\ HasRoom(me.space)
        BY <1>4, <2>1, AcceptedValues
      <3>2. me.op = "invite" => /\ NotInvited(me.space, me.subject)
                                /\ Cardinality(ActiveInvites(me.space)) < MaxPending
        BY <1>4, <2>1, AcceptedValues
      <3> QED
        BY <3>1, <3>2 DEF CheckedInv
    <2>9. RequestInv(me)
      BY <1>2, <2>1, <2>5, <2>6, <2>7, <2>8 DEF RequestInv, Departures, Writes, Invitings
    <2> QED
      BY <1>1, <2>2, <2>3, <2>4, <2>9, RequestStep
  <1> QED
    BY <1>3, <1>4 DEF Check

-----------------------------------------------------------------------------
(* What the locks of a request keep, whatever another one commits.         *)

Kept(me) ==
    /\ \A m \in members : HoldsRow(me, m, "S") \/ HoldsRow(me, m, "X") => m \in members'
    /\ space[me.space] # "absent" => space'[me.space] # "absent"
    /\ space[me.space] = "gone" => space'[me.space] = "gone"
    /\ PastSpace(me) =>
          /\ \A m \in members' : m.space = me.space => m \in members
          /\ \A i \in Invites : invite'[i].space = me.space /\ invite'[i].state = "active" =>
                i \in ActiveInvites(me.space) /\ invite'[i].to = invite[i].to
    /\ \A i \in Invites : invite[i].state # "absent" =>
          /\ invite'[i].state # "absent"
          /\ invite'[i].space = invite[i].space /\ invite'[i].to = invite[i].to
    /\ me.pc = "commit" /\ me.op \in {"join", "resend", "revoke"} =>
          invite'[me.subject].state \in {"active", "expired"}

\* Invitations are finitely many: an active one is a row of a table.
LEMMA FinitelyMany ==
    ASSUME IInv
    PROVE  \A s : /\ IsFiniteSet(MembersOf(s)) /\ Cardinality(MembersOf(s)) \in Nat
                  /\ IsFiniteSet(ActiveInvites(s)) /\ Cardinality(ActiveInvites(s)) \in Nat
  <1> SUFFICES ASSUME NEW s
               PROVE  /\ IsFiniteSet(MembersOf(s)) /\ Cardinality(MembersOf(s)) \in Nat
                      /\ IsFiniteSet(ActiveInvites(s)) /\ Cardinality(ActiveInvites(s)) \in Nat
    OBVIOUS
  <1>1. MembersOf(s) \subseteq members /\ ActiveInvites(s) \subseteq Invites
    BY DEF MembersOf, ActiveInvites
  <1>2. IsFiniteSet(members) /\ IsFiniteSet(Invites)
    BY InviteAssumption DEF IInv, RowsInv
  <1>3. IsFiniteSet(MembersOf(s)) /\ IsFiniteSet(ActiveInvites(s))
    BY <1>1, <1>2, FS_Subset
  <1> QED
    BY <1>3, FS_CardinalityType

LEMMA KeptRequest ==
    ASSUME IInv, NEW me \in Transaction, Shaped(me), me.pc # "idle", RequestInv(me), Kept(me)
    PROVE  RequestInv(me)'
  <1>1. me.op \in Operations /\ me.user \in Users /\ me.space \in Spaces /\ SubjectOf(me.op, me.subject)
    BY ShapedFields
  <1>2. ASSUME me.op \in Departures PROVE DepartureInv(me)'
    <2>1. DepartureInv(me)
      BY <1>2 DEF RequestInv
    <2>2. space'[me.space] # "absent" /\ me.got \subseteq members' /\ IsFiniteSet(me.got)
      BY <2>1 DEF DepartureInv, Kept
    <2>3. \A m \in me.got : HoldsRow(me, m, "X")'
      BY <2>1 DEF DepartureInv, HoldsRow
    <2>4. ASSUME me.pc = "commit"
          PROVE  {m \in me.got : m.space = me.space} = MembersOf(me.space)' /\ Actors(me)' # {}
      <3>1. /\ {m \in me.got : m.space = me.space} = MembersOf(me.space)
            /\ Actors(me) # {} /\ Actors(me)' = Actors(me)
        BY <2>1, <2>4 DEF DepartureInv, Actors
      <3>2. PastSpace(me)
        BY <1>2, <2>4 DEF PastSpace, Departures
      <3>3. MembersOf(me.space)' \subseteq MembersOf(me.space)
        BY <3>2 DEF Kept, MembersOf
      <3>4. {m \in me.got : m.space = me.space} \subseteq MembersOf(me.space)'
        BY <2>2 DEF MembersOf
      <3> QED
        BY <3>1, <3>3, <3>4
    <2> QED
      BY <2>2, <2>3, <2>4 DEF DepartureInv
  <1>3. ASSUME me.op \in Invitings \cup Writes, me.pc # "lockMember" PROVE MemberInv(me)'
    <2>1. PICK m \in RowOf(me.space, me.user) :
             HoldsRow(me, m, "S") /\ (me.op \in Invitings => m.role = "owner")
      BY <1>3 DEF RequestInv, MemberInv
    <2>2. m \in RowOf(me.space, me.user)'
      BY <2>1 DEF RowOf, Kept
    <2> QED
      BY <2>1, <2>2 DEF MemberInv, HoldsRow
  <1>4. ASSUME me.op = "join" \/ (me.op \in {"resend", "revoke"} /\ me.pc \in {"check", "commit"})
        PROVE  InviteInv(me)'
    <2>1. me.subject \in Invites /\ InviteInv(me)
      BY <1>1, <1>4 DEF RequestInv, SubjectOf
    <2>2. /\ invite'[me.subject].state # "absent"
          /\ invite'[me.subject].space = invite[me.subject].space
          /\ invite'[me.subject].to = invite[me.subject].to
          /\ me.pc = "commit" => invite'[me.subject].state \in {"active", "expired"}
      BY <1>4, <2>1 DEF Kept, InviteInv
    <2> QED
      BY <2>1, <2>2 DEF InviteInv, HoldsInvite
  <1>5. ASSUME PastSpace(me)' PROVE HoldsSpace(me)'
    BY <1>5 DEF RequestInv, PastSpace, HoldsSpace, Kept
  <1>6. ASSUME me.pc = "commit" PROVE CheckedInv(me)'
    <2>1. ASSUME me.op = "join" PROVE RowOf(me.space, me.user)' = {} /\ HasRoom(me.space)'
      <3>1. PastSpace(me)
        BY <1>6, <2>1 DEF PastSpace
      <3>2. RowOf(me.space, me.user) = {} /\ HasRoom(me.space)
        BY <1>6, <2>1 DEF RequestInv, CheckedInv
      <3>3. MembersOf(me.space)' \subseteq MembersOf(me.space)
        BY <3>1 DEF Kept, MembersOf
      <3>4. RowOf(me.space, me.user)' = {}
        BY <3>2, <3>3 DEF RowOf, MembersOf
      <3>5. /\ Cardinality(MembersOf(me.space)') \in Nat /\ Cardinality(MembersOf(me.space)) \in Nat
            /\ Cardinality(MembersOf(me.space)') <= Cardinality(MembersOf(me.space))
        BY <3>3, FinitelyMany, FS_Subset, FS_CardinalityType
      <3>6. HasRoom(me.space)'
        BY <3>2, <3>5, LimitAssumption DEF HasRoom
      <3> QED
        BY <3>4, <3>6
    <2>2. ASSUME me.op = "invite"
          PROVE  /\ NotInvited(me.space, me.subject)'
                 /\ (Cardinality(ActiveInvites(me.space)) < MaxPending)'
      <3>1. PastSpace(me)
        BY <1>6, <2>2 DEF PastSpace
      <3>2. NotInvited(me.space, me.subject) /\ Cardinality(ActiveInvites(me.space)) < MaxPending
        BY <1>6, <2>2 DEF RequestInv, CheckedInv
      <3>3. \A i \in ActiveInvites(me.space)' :
                i \in ActiveInvites(me.space) /\ invite'[i].to = invite[i].to
        BY <3>1 DEF Kept, ActiveInvites
      <3>4. NotInvited(me.space, me.subject)'
        BY <3>2, <3>3 DEF NotInvited
      <3>5. ActiveInvites(me.space)' \subseteq ActiveInvites(me.space)
        BY <3>3
      <3>6. /\ Cardinality(ActiveInvites(me.space)') \in Nat /\ Cardinality(ActiveInvites(me.space)) \in Nat
            /\ Cardinality(ActiveInvites(me.space)') <= Cardinality(ActiveInvites(me.space))
        BY <3>5, FinitelyMany, FS_Subset, FS_CardinalityType
      <3> QED
        BY <3>2, <3>4, <3>6, LimitAssumption
    <2> QED
      BY <2>1, <2>2 DEF CheckedInv
  <1> QED
    BY <1>2, <1>3, <1>4, <1>5, <1>6 DEF RequestInv

\* The requests that a step commits nothing of.
OthersKept ==
    \A d \in Clients : \/ tx'[d] = Idle
                       \/ tx'[d] = tx[d] /\ (tx[d].pc # "idle" => Kept(tx[d]))

LEMMA CommitStep ==
    ASSUME IInv, TypeOK', SpacesOwned', OneInvitePerAddress', RowsInv', InvitesInv', OthersKept
    PROVE  IInv'
  <1>1. \A d \in Clients : tx'[d] \in Transaction /\ (tx'[d] = Idle \/ tx'[d] = tx[d])
    BY DEF TypeOK, OthersKept
  <1>2. Shaped(Idle) /\ Idle.held = {} /\ Idle.pc = "idle"
    BY DEF Idle, Shaped
  <1>3. Typed'
    BY <1>1, <1>2 DEF IInv, Typed
  <1>4. LocksExclude'
    <2> SUFFICES ASSUME NEW d \in Clients, NEW e \in Clients, NEW h \in tx'[d].held, NEW g \in tx'[e].held,
                        d # e, h.on = g.on
                 PROVE  h.mode = "S" /\ g.mode = "S"
      BY DEF LocksExclude
    <2> QED
      BY <1>1, <1>2 DEF IInv, LocksExclude
  <1>5. ASSUME NEW d \in Clients, tx'[d].pc # "idle"
        PROVE  RequestInv(tx[d])' /\ OrderInv(tx[d])'
    <2>1. tx'[d] = tx[d] /\ Kept(tx[d])
      BY <1>2, <1>5 DEF OthersKept
    <2>2. tx[d].pc # "idle" /\ tx[d] \in Transaction /\ Shaped(tx[d]) /\ RequestInv(tx[d]) /\ OrderInv(tx[d])
      BY <1>5, <2>1, Working
    <2>3. PICK you : you = tx[d]
      OBVIOUS
    <2>4. RequestInv(you)'
      BY <2>1, <2>2, <2>3, KeptRequest
    <2>5. RequestInv(tx[d])'
      BY <2>1, <2>3, <2>4, NextRequest
    <2>6. OrderInv(tx[d])'
      BY <2>1, <2>2 DEF OrderInv
    <2> QED
      BY <2>5, <2>6
  <1> QED
    BY <1>3, <1>4, <1>5 DEF IInv

-----------------------------------------------------------------------------
(* What two requests cannot both be at.                                    *)

\* The space of a request that has locked its first row is one that existed.
LEMMA SpaceKnown ==
    ASSUME IInv, NEW c \in Clients, tx[c].pc \notin {"idle", "lockMember"}
    PROVE  space[tx[c].space] # "absent"
  <1>1. tx[c].op \in Operations /\ RequestInv(tx[c]) /\ SubjectOf(tx[c].op, tx[c].subject)
    BY Working
  <1>2. CASE tx[c].op \in Departures
    BY <1>1, <1>2 DEF RequestInv, DepartureInv
  <1>3. CASE tx[c].op \in Invitings \cup Writes
    BY <1>1, <1>3 DEF RequestInv, MemberInv, RowOf, IInv, RowsInv
  <1>4. CASE tx[c].op = "join"
    BY <1>1, <1>4 DEF RequestInv, InviteInv, IInv, InvitesInv, SubjectOf
  <1> QED
    BY <1>1, <1>2, <1>3, <1>4 DEF Operations, Departures, Invitings, Writes

\* A request that commits, other than a departure with no row, has its space.
LEMMA CommitSpace ==
    ASSUME IInv, NEW c \in Clients, tx[c].pc = "commit"
    PROVE  space[tx[c].space] = "exists"
  <1>1. /\ tx[c].op \in Operations /\ RequestInv(tx[c]) /\ SubjectOf(tx[c].op, tx[c].subject)
        /\ tx[c].pc # "idle"
    BY Working
  <1>2. CASE tx[c].op \in Departures
    <2>1. MembersOf(tx[c].space) # {}
      BY <1>1, <1>2 DEF RequestInv, DepartureInv, Actors
    <2> QED
      BY <2>1 DEF MembersOf, IInv, RowsInv
  <1>3. CASE tx[c].op \in Invitings \cup Writes
    BY <1>1, <1>3 DEF RequestInv, MemberInv, RowOf, IInv, RowsInv
  <1>4. CASE tx[c].op = "join"
    <2>1. tx[c].subject \in Invites
      BY <1>1, <1>4 DEF SubjectOf
    <2>2. /\ invite[tx[c].subject].space = tx[c].space
          /\ invite[tx[c].subject].state \in {"active", "expired"}
      BY <1>1, <1>4 DEF RequestInv, InviteInv
    <2> QED
      BY <2>1, <2>2 DEF IInv, InvitesInv
  <1> QED
    BY <1>1, <1>2, <1>3, <1>4 DEF Operations, Departures, Invitings, Writes

LEMMA SpacesApart ==
    ASSUME IInv, NEW c \in Clients, NEW d \in Clients, c # d,
           tx[c].pc = "commit", tx[c].op \notin {"sharedWrite", "revoke"},
           tx[d].pc # "idle", PastSpace(tx[d])
    PROVE  tx[d].space # tx[c].space
  <1>1. space[tx[c].space] = "exists" /\ RequestInv(tx[c]) /\ RequestInv(tx[d])
    BY CommitSpace, Working
  <1>2. PastSpace(tx[c])
    BY DEF PastSpace
  <1>3. Lock("space", tx[c].space, "X") \in tx[c].held
    BY <1>1, <1>2 DEF RequestInv, HoldsSpace, SpaceMode
  <1>4. SUFFICES ASSUME tx[d].space = tx[c].space PROVE FALSE
    OBVIOUS
  <1>5. Lock("space", tx[c].space, SpaceMode(tx[d].op)) \in tx[d].held
    BY <1>1, <1>4 DEF RequestInv, HoldsSpace
  <1>6. /\ Lock("space", tx[c].space, "X").on = Lock("space", tx[c].space, SpaceMode(tx[d].op)).on
        /\ Lock("space", tx[c].space, "X").mode = "X"
    BY DEF Lock
  <1> QED
    BY <1>3, <1>5, <1>6 DEF IInv, LocksExclude

LEMMA RowsApart ==
    ASSUME IInv, NEW c \in Clients, NEW d \in Clients, c # d, NEW m, HoldsRow(tx[c], m, "X")
    PROVE  ~HoldsRow(tx[d], m, "S") /\ ~HoldsRow(tx[d], m, "X")
  <1>1. \A mode : Lock("member", m.id, mode).on = <<"member", m.id>> /\ Lock("member", m.id, mode).mode = mode
    BY DEF Lock
  <1> QED
    BY <1>1 DEF HoldsRow, IInv, LocksExclude

LEMMA InvitesApart ==
    ASSUME IInv, NEW c \in Clients, NEW d \in Clients, c # d, HoldsInvite(tx[c]), HoldsInvite(tx[d])
    PROVE  tx[c].subject # tx[d].subject
  <1>1. \A i : Lock("invite", i, "X").on = <<"invite", i>> /\ Lock("invite", i, "X").mode = "X"
    BY DEF Lock
  <1> QED
    BY <1>1 DEF HoldsInvite, IInv, LocksExclude

\* A request that commits, and those that it leaves running.
LEMMA Committer ==
    ASSUME IInv, NEW c \in Clients, tx[c].pc = "commit", Ends(c)
    PROVE  /\ tx' \in [Clients -> Transaction]
           /\ tx'[c] = Idle /\ \A d \in Clients \ {c} : tx'[d] = tx[d]
           /\ (\A d \in Clients \ {c} : tx[d].pc # "idle" => Kept(tx[d])) => OthersKept
  BY RequestOperators DEF IInv, Typed, TypeOK, Ends, OthersKept

-----------------------------------------------------------------------------
(* Steps that commit.                                                      *)

\* A departure that commits holds all rows of its space, and its space.
LEMMA Departing ==
    ASSUME IInv, NEW c \in Clients, tx[c].pc = "commit", tx[c].op \in Departures
    PROVE  /\ tx[c].space \in Spaces /\ space[tx[c].space] = "exists"
           /\ tx[c].got \subseteq members
           /\ {m \in tx[c].got : m.space = tx[c].space} = MembersOf(tx[c].space)
           /\ \A m \in MembersOf(tx[c].space) : HoldsRow(tx[c], m, "X")
           /\ Actors(tx[c]) = {m \in MembersOf(tx[c].space) : m.user = tx[c].user}
           /\ Others(tx[c]) = {m \in MembersOf(tx[c].space) : m.user # tx[c].user}
           /\ Targets(tx[c]) = {m \in MembersOf(tx[c].space) : m.user = tx[c].subject}
           /\ Actors(tx[c]) # {}
  <1>1. tx[c].space \in Spaces /\ DepartureInv(tx[c])
    BY Working DEF RequestInv
  <1>2. {m \in tx[c].got : m.space = tx[c].space} = MembersOf(tx[c].space) /\ tx[c].got \subseteq members
    BY <1>1 DEF DepartureInv
  <1>3. /\ Actors(tx[c]) = {m \in MembersOf(tx[c].space) : m.user = tx[c].user}
        /\ Others(tx[c]) = {m \in MembersOf(tx[c].space) : m.user # tx[c].user}
        /\ Targets(tx[c]) = {m \in MembersOf(tx[c].space) : m.user = tx[c].subject}
    BY <1>2 DEF Actors, Others, Targets
  <1>4. \A m \in MembersOf(tx[c].space) : HoldsRow(tx[c], m, "X")
    BY <1>1, <1>2 DEF DepartureInv
  <1>5. Actors(tx[c]) # {} /\ space[tx[c].space] = "exists"
    BY <1>1, CommitSpace DEF DepartureInv
  <1> QED
    BY <1>1, <1>2, <1>3, <1>4, <1>5

LEMMA WithoutRows ==
    ASSUME IInv, NEW rows, rows \subseteq members
    PROVE  Without(rows) = members \ rows
  BY DEF Without, IInv, RowsInv

\* Other requests keep what they know when c changes the rows of its space only,
\* keeps those that others lock, and adds none but for c's own sake.
LEMMA RowsKept ==
    ASSUME IInv, NEW c \in Clients, Ends(c), tx[c].pc = "commit", tx[c].op \in Departures \cup {"join"},
           UNCHANGED space,
           \A m \in members \cup members' :
               m.space # tx[c].space => (m \in members <=> m \in members'),
           \A m \in members : m \notin members' => HoldsRow(tx[c], m, "X"),
           invite' \in [Invites -> InviteRow],
           \A i \in Invites : invite[i].state # "absent" =>
               /\ invite'[i].state # "absent"
               /\ invite'[i].space = invite[i].space /\ invite'[i].to = invite[i].to,
           \A i \in Invites : invite'[i].state \in {"active", "expired"} => invite'[i] = invite[i],
           \A i \in Invites : invite'[i] # invite[i] => tx[c].subject = i /\ HoldsInvite(tx[c])
    PROVE  OthersKept
  <1> SUFFICES ASSUME NEW d \in Clients \ {c}, tx[d].pc # "idle" PROVE Kept(tx[d])
    BY Committer
  <1>1. /\ tx[d].space \in Spaces /\ RequestInv(tx[d]) /\ SubjectOf(tx[d].op, tx[d].subject)
        /\ tx[d].op \in Operations
    BY Working
  <1>2. ASSUME NEW m \in members, HoldsRow(tx[d], m, "S") \/ HoldsRow(tx[d], m, "X") PROVE m \in members'
    BY <1>2, RowsApart
  <1>3. ASSUME PastSpace(tx[d])
        PROVE  /\ \A m \in members' : m.space = tx[d].space => m \in members
               /\ \A i \in Invites : invite'[i].space = tx[d].space /\ invite'[i].state = "active" =>
                     i \in ActiveInvites(tx[d].space) /\ invite'[i].to = invite[i].to
    <2>1. tx[d].space # tx[c].space
      BY <1>3, SpacesApart DEF Departures
    <2>2. \A m \in members' : m.space = tx[d].space => m \in members
      BY <2>1
    <2>3. \A i \in Invites : invite'[i].space = tx[d].space /\ invite'[i].state = "active" =>
             i \in ActiveInvites(tx[d].space) /\ invite'[i].to = invite[i].to
      BY DEF ActiveInvites
    <2> QED
      BY <2>2, <2>3
  <1>4. ASSUME tx[d].pc = "commit", tx[d].op \in {"join", "resend", "revoke"}
        PROVE  invite'[tx[d].subject].state \in {"active", "expired"}
    <2>1. /\ tx[d].subject \in Invites /\ HoldsInvite(tx[d])
          /\ invite[tx[d].subject].state \in {"active", "expired"}
      BY <1>1, <1>4 DEF RequestInv, InviteInv, SubjectOf
    <2>2. invite'[tx[d].subject] = invite[tx[d].subject]
      BY <2>1, InvitesApart
    <2> QED
      BY <2>1, <2>2
  <1> QED
    BY <1>2, <1>3, <1>4 DEF Kept

\* A member leaves, or the owner removes another one: the owner stays.
LEMMA RemovalStep ==
    ASSUME IInv, NEW c \in Clients, Ends(c), tx[c].pc = "commit", tx[c].op \in Departures,
           NEW rows, rows \subseteq MembersOf(tx[c].space), members' = Without(rows),
           \A m \in rows : m.role # "owner", UNCHANGED <<space, invite, nextId>>
    PROVE  IInv'
  <1>1. rows \subseteq members /\ members' = members \ rows
    BY WithoutRows DEF MembersOf
  <1>2. TypeOK'
    BY <1>1, Committer DEF IInv, Typed, TypeOK
  <1>3. SpacesOwned'
    <2> SUFFICES ASSUME NEW s \in Spaces
                 PROVE  IF space[s] = "exists"
                        THEN /\ \E o \in MembersOf(s)' :
                                   \A m \in MembersOf(s)' : m.role = "owner" <=> m = o
                             /\ \A m, n \in MembersOf(s)' : m.user = n.user => m = n
                        ELSE /\ MembersOf(s)' = {}
                             /\ \A i \in Invites : invite[i].space = s => invite[i].state = "gone"
      BY DEF SpacesOwned
    <2>1. MembersOf(s)' = MembersOf(s) \ rows
      BY <1>1 DEF MembersOf
    <2>2. CASE space[s] = "exists"
      <3>1. PICK o \in MembersOf(s) : \A m \in MembersOf(s) : m.role = "owner" <=> m = o
        BY <2>2 DEF IInv, SpacesOwned
      <3>2. o \in MembersOf(s)'
        BY <2>1, <3>1
      <3> QED
        BY <2>1, <2>2, <3>1, <3>2 DEF IInv, SpacesOwned
    <2>3. CASE space[s] # "exists"
      BY <2>1, <2>3 DEF IInv, SpacesOwned
    <2> QED
      BY <2>2, <2>3
  <1>4. OneInvitePerAddress'
    BY DEF IInv, OneInvitePerAddress, ActiveInvites
  <1>5. RowsInv'
    <2>1. IsFiniteSet(members')
      BY <1>1, FS_Subset DEF IInv, RowsInv
    <2> QED
      BY <1>1, <2>1 DEF IInv, RowsInv
  <1>6. InvitesInv'
    BY DEF IInv, InvitesInv
  <1>7. OthersKept
    <2>1. \A m \in members \cup members' : m.space # tx[c].space => (m \in members <=> m \in members')
      BY <1>1 DEF MembersOf
    <2>2. \A m \in members : m \notin members' => HoldsRow(tx[c], m, "X")
      BY <1>1, Departing
    <2>3. invite' \in [Invites -> InviteRow] /\ UNCHANGED <<space, invite>>
      BY <1>2 DEF TypeOK
    <2> QED
      BY <2>1, <2>2, <2>3, RowsKept
  <1> QED
    BY <1>2, <1>3, <1>4, <1>5, <1>6, <1>7, CommitStep

LEMMA LeaveAsMemberStep == ASSUME IInv, NEW c \in Clients, LeaveAsMember(c) PROVE IInv'
  <1>1. /\ Ends(c) /\ tx[c].pc = "commit" /\ tx[c].op \in Departures
        /\ ~ActorOwns(tx[c]) /\ members' = Without(Actors(tx[c])) /\ UNCHANGED <<space, invite, nextId>>
    BY DEF LeaveAsMember, Committing, Departures
  <1>2. Actors(tx[c]) \subseteq MembersOf(tx[c].space)
    BY <1>1, Departing
  <1>3. \A m \in Actors(tx[c]) : m.role # "owner"
    BY <1>1 DEF ActorOwns
  <1> QED
    BY <1>1, <1>2, <1>3, RemovalStep

LEMMA RemoveMemberStep == ASSUME IInv, NEW c \in Clients, RemoveMember(c) PROVE IInv'
  <1>1. /\ Ends(c) /\ tx[c].pc = "commit" /\ tx[c].op \in Departures /\ tx[c].op = "remove"
        /\ ActorOwns(tx[c]) /\ members' = Without(Targets(tx[c])) /\ UNCHANGED <<space, invite, nextId>>
    BY DEF RemoveMember, Committing, Departures
  <1>2. Targets(tx[c]) \subseteq MembersOf(tx[c].space)
    BY <1>1, Departing
  <1>3. ASSUME NEW m \in Targets(tx[c]) PROVE m.role # "owner"
    <2>1. PICK a \in Actors(tx[c]) : a.role = "owner"
      BY <1>1 DEF ActorOwns
    <2>2. a \in MembersOf(tx[c].space) /\ m \in MembersOf(tx[c].space) /\ a.user = tx[c].user
          /\ m.user = tx[c].subject
      BY <1>1, <1>3, Departing
    <2>3. tx[c].subject # tx[c].user /\ tx[c].space \in Spaces /\ space[tx[c].space] = "exists"
      BY <1>1, Working, Departing
    <2> QED
      BY <2>1, <2>2, <2>3 DEF IInv, SpacesOwned
  <1> QED
    BY <1>1, <1>2, <1>3, RemovalStep

\* The successor is one of the others, and the first of them.
LEMMA SuccessorIsFirst ==
    ASSUME NEW rows, rows \subseteq MemberRow, rows # {}
    PROVE  Successor(rows) \in rows /\ \A r \in rows : Successor(rows).id <= r.id
  <1> DEFINE ids == {r.id : r \in rows}
  <1>1. ids \in SUBSET Nat /\ ids # {}
    BY DEF MemberRow
  <1>2. PICK id \in ids : \A other \in ids : id <= other
    BY <1>1, NatMinimum
  <1>3. PICK m \in rows : m.id = id
    BY <1>2
  <1>4. \A r \in rows : m.id <= r.id
    BY <1>2, <1>3
  <1> HIDE DEF ids
  <1> QED
    BY <1>3, <1>4, Zenon DEF Successor

LEMMA HandOverStep == ASSUME IInv, NEW c \in Clients, HandOver(c) PROVE IInv'
  <1> DEFINE me == tx[c]
             next == Successor(Others(me))
             heir == Promoted(next)
  <1>1. /\ Ends(c) /\ tx[c].pc = "commit" /\ tx[c].op \in Departures
        /\ ActorOwns(me) /\ Others(me) # {} /\ UNCHANGED <<space, invite, nextId>>
        /\ members' = {m \in Without(Actors(me)) : m.id # next.id}
                        \cup {Promoted(m) : m \in {r \in members : r.id = next.id}}
    BY DEF HandOver, Committing, Departures
  <1>2. /\ me.space \in Spaces /\ space[me.space] = "exists"
        /\ Actors(me) = {m \in MembersOf(me.space) : m.user = me.user}
        /\ Others(me) = {m \in MembersOf(me.space) : m.user # me.user}
        /\ \A m \in MembersOf(me.space) : HoldsRow(me, m, "X")
    BY <1>1, Departing
  <1>3. next \in Others(me)
    <2>1. Others(me) \subseteq MemberRow
      BY <1>2, RowIds DEF MembersOf
    <2> QED
      BY <1>1, <2>1, SuccessorIsFirst
  <1>4. next \in MembersOf(me.space) /\ next.user # me.user /\ next \in members /\ next \in MemberRow
    BY <1>2, <1>3, RowIds DEF MembersOf
  <1>5. /\ heir \in MemberRow /\ heir.id = next.id /\ heir.space = me.space
        /\ heir.user = next.user /\ heir.role = "owner"
    BY <1>4 DEF Promoted, Member, MemberRow, MembersOf, Roles
  <1>6. members' = (members \ (Actors(me) \cup {next})) \cup {heir}
    <2>1. Without(Actors(me)) = members \ Actors(me)
      BY <1>2, WithoutRows DEF MembersOf
    <2>2. {r \in members : r.id = next.id} = {next}
      BY <1>4 DEF IInv, RowsInv
    <2>3. {m \in Without(Actors(me)) : m.id # next.id} = members \ (Actors(me) \cup {next})
      BY <1>4, <2>1 DEF IInv, RowsInv
    <2> QED
      BY <1>1, <2>2, <2>3
  <1> HIDE DEF next, heir, me
  <1>7. TypeOK'
    <2>1. members' \subseteq MemberRow
      BY <1>5, <1>6, RowIds
    <2> QED
      BY <1>1, <2>1, Committer DEF IInv, Typed, TypeOK
  <1>8. SpacesOwned'
    <2> SUFFICES ASSUME NEW s \in Spaces
                 PROVE  IF space[s] = "exists"
                        THEN /\ \E o \in MembersOf(s)' :
                                   \A m \in MembersOf(s)' : m.role = "owner" <=> m = o
                             /\ \A m, n \in MembersOf(s)' : m.user = n.user => m = n
                        ELSE /\ MembersOf(s)' = {}
                             /\ \A i \in Invites : invite[i].space = s => invite[i].state = "gone"
      BY <1>1 DEF SpacesOwned
    <2>1. CASE s = me.space
      <3>1. MembersOf(s)' = (MembersOf(s) \ (Actors(me) \cup {next})) \cup {heir}
        BY <1>5, <1>6, <2>1 DEF MembersOf
      <3>2. PICK a \in Actors(me) : a.role = "owner"
        BY <1>1 DEF ActorOwns
      <3>3. \A m \in MembersOf(s) : m.role = "owner" => m = a
        BY <1>2, <2>1, <3>2 DEF IInv, SpacesOwned
      <3>4. \A m, n \in MembersOf(s) : m.user = n.user => m = n
        BY <1>2, <2>1 DEF IInv, SpacesOwned
      <3>5. \A m \in MembersOf(s)' : m.role = "owner" <=> m = heir
        BY <1>5, <3>1, <3>2, <3>3
      <3>6. \A m, n \in MembersOf(s)' : m.user = n.user => m = n
        BY <1>4, <1>5, <2>1, <3>1, <3>4
      <3> QED
        BY <1>2, <2>1, <3>1, <3>5, <3>6
    <2>2. CASE s # me.space
      <3>1. MembersOf(s)' = MembersOf(s)
        BY <1>2, <1>4, <1>5, <1>6, <2>2 DEF MembersOf
      <3> QED
        BY <3>1 DEF IInv, SpacesOwned
    <2> QED
      BY <2>1, <2>2
  <1>9. OneInvitePerAddress'
    BY <1>1 DEF IInv, OneInvitePerAddress, ActiveInvites
  <1>10. RowsInv'
    <2>1. IsFiniteSet(members \ (Actors(me) \cup {next}))
      BY FS_Subset DEF IInv, RowsInv
    <2>2. IsFiniteSet(members')
      BY <1>6, <2>1, FS_AddElement
    <2>3. \A m \in members' : m.id < nextId /\ space[m.space] = "exists"
      BY <1>2, <1>4, <1>5, <1>6 DEF IInv, RowsInv
    <2>4. \A m, n \in members' : m.id = n.id => m = n
      BY <1>4, <1>5, <1>6 DEF IInv, RowsInv
    <2> QED
      BY <1>1, <2>2, <2>3, <2>4 DEF RowsInv
  <1>11. InvitesInv'
    BY <1>1 DEF IInv, InvitesInv
  <1>12. OthersKept
    <2>1. \A m \in members \cup members' : m.space # me.space => (m \in members <=> m \in members')
      BY <1>2, <1>4, <1>5, <1>6 DEF MembersOf
    <2>2. \A m \in members : m \notin members' => HoldsRow(me, m, "X")
      BY <1>2, <1>4, <1>6 DEF MembersOf
    <2>3. invite' \in [Invites -> InviteRow] /\ UNCHANGED <<space, invite>>
      BY <1>1, <1>7 DEF TypeOK
    <2> QED
      BY <1>1, <2>1, <2>2, <2>3, RowsKept DEF me
  <1> QED
    BY <1>7, <1>8, <1>9, <1>10, <1>11, <1>12, CommitStep

LEMMA CommitJoinStep == ASSUME IInv, NEW c \in Clients, CommitJoin(c) PROVE IInv'
  <1> DEFINE me == tx[c]
             row == Member(nextId, me.space, me.user, "member")
             answered == Invite(me.space, me.user, "accepted")
  <1>1. /\ Ends(c) /\ tx[c].pc = "commit" /\ tx[c].op = "join" /\ UNCHANGED space
        /\ members' = members \cup {row} /\ nextId' = nextId + 1
        /\ invite' = [invite EXCEPT ![me.subject] = answered]
    BY DEF CommitJoin, Committing
  <1>2. /\ me.space \in Spaces /\ me.user \in Users /\ me.subject \in Invites
        /\ space[me.space] = "exists" /\ RowOf(me.space, me.user) = {}
        /\ invite[me.subject].space = me.space /\ invite[me.subject].to = me.user
        /\ invite[me.subject].state # "absent" /\ HoldsInvite(me)
    BY <1>1, Working, CommitSpace DEF RequestInv, CheckedInv, InviteInv, SubjectOf
  <1>3. nextId \in Nat \ {0} /\ invite \in [Invites -> InviteRow] /\ nextId \in Nat
    BY DEF IInv, Typed, TypeOK
  <1>4. /\ row \in MemberRow /\ row.id = nextId /\ row.space = me.space
        /\ row.user = me.user /\ row.role = "member"
    BY <1>2, <1>3 DEF Member, MemberRow, Roles
  <1>5. /\ answered \in InviteRow /\ answered.space = me.space /\ answered.to = me.user
        /\ answered.state = "accepted"
    BY <1>2 DEF Invite, InviteRow
  <1> HIDE DEF row, answered, me
  <1>6. /\ invite' \in [Invites -> InviteRow] /\ invite'[me.subject] = answered
        /\ \A i \in Invites : i # me.subject => invite'[i] = invite[i]
    BY <1>1, <1>2, <1>3, <1>5
  <1>7. TypeOK'
    <2>1. members' \subseteq MemberRow /\ nextId' \in Nat \ {0}
      BY <1>1, <1>3, <1>4, RowIds
    <2> QED
      BY <1>1, <1>6, <2>1, Committer DEF IInv, Typed, TypeOK
  <1>8. SpacesOwned'
    <2> SUFFICES ASSUME NEW s \in Spaces
                 PROVE  IF space[s] = "exists"
                        THEN /\ \E o \in MembersOf(s)' :
                                   \A m \in MembersOf(s)' : m.role = "owner" <=> m = o
                             /\ \A m, n \in MembersOf(s)' : m.user = n.user => m = n
                        ELSE /\ MembersOf(s)' = {}
                             /\ \A i \in Invites : invite'[i].space = s => invite'[i].state = "gone"
      BY <1>1 DEF SpacesOwned
    <2>1. CASE s = me.space
      <3>1. MembersOf(s)' = MembersOf(s) \cup {row}
        BY <1>1, <1>4, <2>1 DEF MembersOf
      <3>2. PICK o \in MembersOf(s) : \A m \in MembersOf(s) : m.role = "owner" <=> m = o
        BY <1>2, <2>1 DEF IInv, SpacesOwned
      <3>3. row \notin MembersOf(s)
        BY <1>3, <1>4 DEF MembersOf, IInv, RowsInv
      <3>4. \A m \in MembersOf(s) : m.user # me.user
        BY <1>2, <2>1 DEF RowOf, MembersOf
      <3>5. \A m \in MembersOf(s)' : m.role = "owner" <=> m = o
        BY <1>4, <3>1, <3>2, <3>3
      <3>6. \A m, n \in MembersOf(s)' : m.user = n.user => m = n
        BY <1>2, <1>4, <2>1, <3>1, <3>4 DEF IInv, SpacesOwned
      <3> QED
        BY <1>2, <2>1, <3>1, <3>2, <3>5, <3>6
    <2>2. CASE s # me.space
      <3>1. MembersOf(s)' = MembersOf(s)
        BY <1>1, <1>4, <2>2 DEF MembersOf
      <3>2. \A i \in Invites : invite'[i].space = s => invite'[i] = invite[i]
        BY <1>5, <1>6, <2>2
      <3> QED
        BY <3>1, <3>2 DEF IInv, SpacesOwned
    <2> QED
      BY <2>1, <2>2
  <1>9. OneInvitePerAddress'
    <2> SUFFICES ASSUME NEW s \in Spaces
                 PROVE  /\ \A i, j \in ActiveInvites(s)' : invite'[i].to = invite'[j].to => i = j
                        /\ Cardinality(ActiveInvites(s)') <= MaxPending
      BY DEF OneInvitePerAddress
    <2>1. /\ ActiveInvites(s)' \subseteq ActiveInvites(s)
          /\ \A i \in ActiveInvites(s)' : invite'[i] = invite[i]
      BY <1>5, <1>6 DEF ActiveInvites
    <2>2. /\ Cardinality(ActiveInvites(s)') \in Nat /\ Cardinality(ActiveInvites(s)) \in Nat
          /\ Cardinality(ActiveInvites(s)') <= Cardinality(ActiveInvites(s))
      BY <2>1, FinitelyMany, FS_Subset, FS_CardinalityType
    <2> QED
      BY <2>1, <2>2, LimitAssumption DEF IInv, OneInvitePerAddress
  <1>10. RowsInv'
    <2>1. IsFiniteSet(members')
      BY <1>1, FS_AddElement DEF IInv, RowsInv
    <2>2. \A m \in members : m.id \in Nat /\ m.id < nextId
      BY RowIds DEF IInv, RowsInv
    <2>3. \A m \in members' : m.id < nextId' /\ space'[m.space] = "exists"
      BY <1>1, <1>2, <1>3, <1>4, <2>2 DEF IInv, RowsInv
    <2>4. \A m, n \in members' : m.id = n.id => m = n
      BY <1>1, <1>3, <1>4, <2>2 DEF IInv, RowsInv
    <2> QED
      BY <2>1, <2>3, <2>4 DEF RowsInv
  <1>11. InvitesInv'
    BY <1>1, <1>2, <1>5, <1>6 DEF IInv, InvitesInv
  <1>12. OthersKept
    <2>1. \A m \in members \cup members' : m.space # me.space => (m \in members <=> m \in members')
      BY <1>1, <1>4
    <2>2. \A m \in members : m \notin members' => HoldsRow(me, m, "X")
      BY <1>1
    <2>3. /\ \A i \in Invites : invite[i].state # "absent" =>
               /\ invite'[i].state # "absent"
               /\ invite'[i].space = invite[i].space /\ invite'[i].to = invite[i].to
          /\ \A i \in Invites : invite'[i].state \in {"active", "expired"} => invite'[i] = invite[i]
          /\ \A i \in Invites : invite'[i] # invite[i] => me.subject = i /\ HoldsInvite(me)
      BY <1>2, <1>5, <1>6
    <2> QED
      BY <1>1, <1>6, <2>1, <2>2, <2>3, RowsKept DEF me
  <1> QED
    BY <1>7, <1>8, <1>9, <1>10, <1>11, <1>12, CommitStep

LEMMA RemoveOwnedStep == ASSUME IInv, NEW c \in Clients, RemoveOwned(c) PROVE IInv'
  <1> DEFINE me == tx[c]
  <1>1. /\ Ends(c) /\ tx[c].pc = "commit" /\ me.op \in Departures /\ UNCHANGED nextId
        /\ members' = members \ MembersOf(me.space)
        /\ space' = [space EXCEPT ![me.space] = "gone"]
        /\ invite' = [i \in Invites |-> IF invite[i].space = me.space
                                        THEN Invite(me.space, invite[i].to, "gone") ELSE invite[i]]
    BY DEF RemoveOwned, RemovesSpace, Departures
  <1>2. /\ me.space \in Spaces /\ space[me.space] = "exists"
        /\ \A m \in MembersOf(me.space) : HoldsRow(me, m, "X")
    BY <1>1, Departing
  <1> HIDE DEF me
  <1>3. space \in [Spaces -> {"absent", "exists", "gone"}] /\ invite \in [Invites -> InviteRow]
    BY DEF IInv, Typed, TypeOK
  <1>4. space'[me.space] = "gone" /\ \A s \in Spaces : s # me.space => space'[s] = space[s]
    BY <1>1, <1>2, <1>3
  <1>5. ASSUME NEW i \in Invites, invite[i].space = me.space
        PROVE  /\ invite'[i] \in InviteRow /\ invite'[i].space = me.space
               /\ invite'[i].to = invite[i].to /\ invite'[i].state = "gone"
    BY <1>1, <1>3, <1>5 DEF Invite, InviteRow
  <1>6. \A i \in Invites : invite[i].space # me.space => invite'[i] = invite[i]
    BY <1>1
  <1>7. TypeOK'
    <2>1. invite' \in [Invites -> InviteRow]
      <3>1. \A i \in Invites : invite'[i] \in InviteRow
        BY <1>3, <1>5, <1>6
      <3>2. invite' = [i \in Invites |-> invite'[i]]
        BY <1>1
      <3> QED
        BY <3>1, <3>2
    <2>2. space' \in [Spaces -> {"absent", "exists", "gone"}]
      BY <1>1, <1>3
    <2>3. members' \subseteq MemberRow
      BY <1>1, RowIds
    <2> QED
      BY <1>1, <2>1, <2>2, <2>3, Committer DEF IInv, Typed, TypeOK
  <1>8. SpacesOwned'
    <2> SUFFICES ASSUME NEW s \in Spaces
                 PROVE  IF space'[s] = "exists"
                        THEN /\ \E o \in MembersOf(s)' :
                                   \A m \in MembersOf(s)' : m.role = "owner" <=> m = o
                             /\ \A m, n \in MembersOf(s)' : m.user = n.user => m = n
                        ELSE /\ MembersOf(s)' = {}
                             /\ \A i \in Invites : invite'[i].space = s => invite'[i].state = "gone"
      BY DEF SpacesOwned
    <2>1. CASE s = me.space
      <3>1. MembersOf(s)' = {}
        BY <1>1, <2>1 DEF MembersOf
      <3>2. \A i \in Invites : invite'[i].space = s => invite'[i].state = "gone"
        BY <1>5, <1>6, <2>1
      <3> QED
        BY <1>4, <2>1, <3>1, <3>2
    <2>2. CASE s # me.space
      <3>1. MembersOf(s)' = MembersOf(s)
        BY <1>1, <2>2 DEF MembersOf
      <3>2. \A i \in Invites : invite'[i].space = s => invite'[i] = invite[i]
        BY <1>5, <1>6, <2>2
      <3> QED
        BY <1>4, <2>2, <3>1, <3>2 DEF IInv, SpacesOwned
    <2> QED
      BY <2>1, <2>2
  <1>9. OneInvitePerAddress'
    <2> SUFFICES ASSUME NEW s \in Spaces
                 PROVE  /\ \A i, j \in ActiveInvites(s)' : invite'[i].to = invite'[j].to => i = j
                        /\ Cardinality(ActiveInvites(s)') <= MaxPending
      BY DEF OneInvitePerAddress
    <2>1. /\ ActiveInvites(s)' \subseteq ActiveInvites(s)
          /\ \A i \in ActiveInvites(s)' : invite'[i] = invite[i]
      BY <1>5, <1>6 DEF ActiveInvites
    <2>2. /\ Cardinality(ActiveInvites(s)') \in Nat /\ Cardinality(ActiveInvites(s)) \in Nat
          /\ Cardinality(ActiveInvites(s)') <= Cardinality(ActiveInvites(s))
      BY <2>1, FinitelyMany, FS_Subset, FS_CardinalityType
    <2> QED
      BY <2>1, <2>2, LimitAssumption DEF IInv, OneInvitePerAddress
  <1>10. RowsInv'
    <2>1. IsFiniteSet(members')
      BY <1>1, FS_Subset DEF IInv, RowsInv
    <2>2. \A m \in members' : m.space # me.space /\ m.space \in Spaces
      BY <1>1, RowIds DEF MembersOf, MemberRow
    <2> QED
      BY <1>1, <1>4, <2>1, <2>2 DEF IInv, RowsInv
  <1>11. InvitesInv'
    <2> SUFFICES ASSUME NEW i \in Invites
                 PROVE  IF invite'[i].state = "absent" THEN invite'[i] = Invite(None, None, "absent")
                        ELSE /\ invite'[i].space \in Spaces /\ invite'[i].to \in Users
                             /\ space'[invite'[i].space] # "absent"
                             /\ invite'[i].state # "gone" => space'[invite'[i].space] = "exists"
      BY DEF InvitesInv
    <2>1. CASE invite[i].space = me.space
      <3>1. invite[i].state # "absent" /\ me.space # None
        BY <1>2, <2>1, NoneAssumption DEF IInv, InvitesInv, Invite
      <3> QED
        BY <1>2, <1>4, <1>5, <2>1, <3>1 DEF IInv, InvitesInv
    <2>2. CASE invite[i].space # me.space
      BY <1>4, <1>6, <2>2 DEF IInv, InvitesInv
    <2> QED
      BY <2>1, <2>2
  <1>12. OthersKept
    <2> SUFFICES ASSUME NEW d \in Clients \ {c}, tx[d].pc # "idle" PROVE Kept(tx[d])
      BY <1>1, Committer
    <2>1. /\ tx[d].space \in Spaces /\ RequestInv(tx[d]) /\ SubjectOf(tx[d].op, tx[d].subject)
          /\ tx[d].op \in Operations
      BY Working
    <2>2. ASSUME NEW m \in members, HoldsRow(tx[d], m, "S") \/ HoldsRow(tx[d], m, "X") PROVE m \in members'
      BY <1>1, <1>2, <2>2, RowsApart DEF me
    <2>3. /\ space[tx[d].space] # "absent" => space'[tx[d].space] # "absent"
          /\ space[tx[d].space] = "gone" => space'[tx[d].space] = "gone"
      BY <1>4, <2>1
    <2>4. /\ \A m \in members' : m \in members
          /\ \A i \in Invites : invite'[i].space = tx[d].space /\ invite'[i].state = "active" =>
                i \in ActiveInvites(tx[d].space) /\ invite'[i].to = invite[i].to
      BY <1>1, <1>5, <1>6 DEF ActiveInvites
    <2>5. \A i \in Invites : invite[i].state # "absent" =>
             /\ invite'[i].state # "absent"
             /\ invite'[i].space = invite[i].space /\ invite'[i].to = invite[i].to
      BY <1>5, <1>6
    <2>6. ASSUME tx[d].pc = "commit", tx[d].op \in {"join", "resend", "revoke"}
          PROVE  invite'[tx[d].subject].state \in {"active", "expired"}
      <3>1. /\ tx[d].subject \in Invites /\ invite[tx[d].subject].space = tx[d].space
            /\ invite[tx[d].subject].state \in {"active", "expired"}
        BY <2>1, <2>6 DEF RequestInv, InviteInv, SubjectOf
      <3>2. tx[d].space # me.space
        <4>1. CASE tx[d].op = "revoke"
          <5>1. PICK m \in RowOf(tx[d].space, tx[d].user) : HoldsRow(tx[d], m, "S")
            BY <2>1, <2>6, <4>1 DEF RequestInv, MemberInv, Invitings
          <5>2. ~HoldsRow(me, m, "X")
            BY <5>1, RowsApart DEF me
          <5> QED
            BY <1>2, <5>1, <5>2 DEF RowOf, MembersOf
        <4>2. CASE tx[d].op # "revoke"
          <5>1. PastSpace(tx[d])
            BY <2>6, <4>2 DEF PastSpace
          <5> QED
            BY <1>1, <2>6, <5>1, SpacesApart DEF me, Departures
        <4> QED
          BY <4>1, <4>2
      <3> QED
        BY <1>6, <3>1, <3>2
    <2> QED
      BY <2>2, <2>3, <2>4, <2>5, <2>6 DEF Kept
  <1> QED
    BY <1>7, <1>8, <1>9, <1>10, <1>11, <1>12, CommitStep

\* One invitation changes: another request's locks keep what it checked.
LEMMA InviteKept ==
    ASSUME IInv, NEW i \in Invites, NEW row \in InviteRow, invite' = [invite EXCEPT ![i] = row],
           UNCHANGED <<space, members, nextId>>, TypeOK', OthersKept,
           row.space \in Spaces, row.to \in Users, space[row.space] = "exists",
           row.state \in {"active", "expired", "revoked"},
           row.state = "active" =>
              /\ NotInvited(row.space, row.to) /\ Cardinality(ActiveInvites(row.space)) < MaxPending
              /\ invite[i].state = "absent"
    PROVE  IInv'
  <1>1. invite'[i] = row /\ \A j \in Invites : j # i => invite'[j] = invite[j]
    BY DEF IInv, Typed, TypeOK
  <1>2. SpacesOwned'
    <2> SUFFICES ASSUME NEW s \in Spaces
                 PROVE  IF space[s] = "exists"
                        THEN /\ \E o \in MembersOf(s) :
                                   \A m \in MembersOf(s) : m.role = "owner" <=> m = o
                             /\ \A m, n \in MembersOf(s) : m.user = n.user => m = n
                        ELSE /\ MembersOf(s) = {}
                             /\ \A j \in Invites : invite'[j].space = s => invite'[j].state = "gone"
      BY DEF SpacesOwned, MembersOf
    <2> QED
      BY <1>1 DEF IInv, SpacesOwned
  <1>3. OneInvitePerAddress'
    <2> SUFFICES ASSUME NEW s \in Spaces
                 PROVE  /\ \A j, k \in ActiveInvites(s)' : invite'[j].to = invite'[k].to => j = k
                        /\ Cardinality(ActiveInvites(s)') <= MaxPending
      BY DEF OneInvitePerAddress
    <2>1. CASE row.state = "active" /\ row.space = s
      <3>1. ActiveInvites(s)' = ActiveInvites(s) \cup {i} /\ i \notin ActiveInvites(s)
        BY <1>1, <2>1 DEF ActiveInvites
      <3>2. Cardinality(ActiveInvites(s)') = Cardinality(ActiveInvites(s)) + 1
        <4>1. IsFiniteSet(ActiveInvites(s))
          BY FinitelyMany
        <4>2. Cardinality(ActiveInvites(s) \cup {i}) = Cardinality(ActiveInvites(s)) + 1
          BY <3>1, <4>1, FS_AddElement
        <4> QED
          BY <3>1, <4>2
      <3>3. Cardinality(ActiveInvites(s)') <= MaxPending
        BY <2>1, <3>2, FinitelyMany, LimitAssumption
      <3>4. \A j \in ActiveInvites(s) : invite'[j] = invite[j] /\ invite[j].to # row.to
        BY <1>1, <2>1, <3>1 DEF NotInvited, ActiveInvites
      <3>5. \A j, k \in ActiveInvites(s) : invite[j].to = invite[k].to => j = k
        BY DEF IInv, OneInvitePerAddress
      <3>6. \A j, k \in ActiveInvites(s)' : invite'[j].to = invite'[k].to => j = k
        BY <1>1, <3>1, <3>4, <3>5
      <3> QED
        BY <3>3, <3>6
    <2>2. CASE ~(row.state = "active" /\ row.space = s)
      <3>1. /\ ActiveInvites(s)' \subseteq ActiveInvites(s)
            /\ \A j \in ActiveInvites(s)' : invite'[j] = invite[j]
        BY <1>1, <2>2 DEF ActiveInvites
      <3>2. /\ Cardinality(ActiveInvites(s)') \in Nat /\ Cardinality(ActiveInvites(s)) \in Nat
            /\ Cardinality(ActiveInvites(s)') <= Cardinality(ActiveInvites(s))
        BY <3>1, FinitelyMany, FS_Subset, FS_CardinalityType
      <3> QED
        BY <3>1, <3>2, LimitAssumption DEF IInv, OneInvitePerAddress
    <2> QED
      BY <2>1, <2>2
  <1>4. RowsInv'
    BY DEF IInv, RowsInv
  <1>5. InvitesInv'
    BY <1>1 DEF IInv, InvitesInv
  <1> QED
    BY <1>2, <1>3, <1>4, <1>5, CommitStep

\* What a change of one invitation owes the other requests.
LEMMA InviteChange ==
    ASSUME IInv, NEW d \in Clients, tx[d].pc # "idle", NEW i \in Invites, NEW row \in InviteRow,
           invite' = [invite EXCEPT ![i] = row], UNCHANGED <<space, members>>,
           invite[i].state # "absent" => row.space = invite[i].space /\ row.to = invite[i].to,
           row.state # "absent",
           row.state = "active" => ~(PastSpace(tx[d]) /\ tx[d].space = row.space),
           \/ row.state \in {"active", "expired"}
           \/ ~HoldsInvite(tx[d]) \/ tx[d].subject # i
    PROVE  Kept(tx[d])
  <1>1. invite'[i] = row /\ \A j \in Invites : j # i => invite'[j] = invite[j]
    BY DEF IInv, Typed, TypeOK
  <1>2. /\ RequestInv(tx[d]) /\ SubjectOf(tx[d].op, tx[d].subject)
    BY Working
  <1>3. \A m \in members : m \in members'
    OBVIOUS
  <1>4. ASSUME PastSpace(tx[d]), NEW j \in Invites, invite'[j].space = tx[d].space, invite'[j].state = "active"
        PROVE  j \in ActiveInvites(tx[d].space) /\ invite'[j].to = invite[j].to
    BY <1>1, <1>4 DEF ActiveInvites
  <1>5. \A j \in Invites : invite[j].state # "absent" =>
           /\ invite'[j].state # "absent"
           /\ invite'[j].space = invite[j].space /\ invite'[j].to = invite[j].to
    BY <1>1
  <1>6. ASSUME tx[d].pc = "commit", tx[d].op \in {"join", "resend", "revoke"}
        PROVE  invite'[tx[d].subject].state \in {"active", "expired"}
    <2>1. /\ tx[d].subject \in Invites /\ HoldsInvite(tx[d])
          /\ invite[tx[d].subject].state \in {"active", "expired"}
      BY <1>2, <1>6 DEF RequestInv, InviteInv, SubjectOf
    <2> QED
      BY <1>1, <2>1
  <1> QED
    BY <1>3, <1>4, <1>5, <1>6 DEF Kept

LEMMA CommitInviteStep == ASSUME IInv, NEW c \in Clients, CommitInvite(c) PROVE IInv'
  <1> DEFINE row == Invite(tx[c].space, tx[c].subject, "active")
  <1>1. /\ Ends(c) /\ tx[c].pc = "commit" /\ tx[c].op = "invite"
        /\ UNCHANGED <<space, members, nextId>>
    BY DEF CommitInvite, Committing
  <1>2. PICK i \in Invites : invite[i].state = "absent" /\ invite' = [invite EXCEPT ![i] = row]
    BY DEF CommitInvite
  <1>3. /\ tx[c].space \in Spaces /\ tx[c].subject \in Users /\ space[tx[c].space] = "exists"
        /\ NotInvited(tx[c].space, tx[c].subject)
        /\ Cardinality(ActiveInvites(tx[c].space)) < MaxPending
    BY <1>1, Working, CommitSpace DEF RequestInv, CheckedInv, SubjectOf
  <1>4. row \in InviteRow /\ row.space = tx[c].space /\ row.to = tx[c].subject /\ row.state = "active"
    BY <1>3 DEF Invite, InviteRow
  <1> HIDE DEF row
  <1>5. TypeOK'
    BY <1>1, <1>2, <1>4, Committer DEF IInv, Typed, TypeOK
  <1>6. OthersKept
    <2> SUFFICES ASSUME NEW d \in Clients \ {c}, tx[d].pc # "idle" PROVE Kept(tx[d])
      BY <1>1, Committer
    <2>1. PastSpace(tx[d]) => tx[d].space # row.space
      BY <1>1, <1>4, SpacesApart
    <2> QED
      BY <1>1, <1>2, <1>4, <2>1, InviteChange
  <1> QED
    BY <1>1, <1>2, <1>3, <1>4, <1>5, <1>6, InviteKept

LEMMA CommitRevokeStep == ASSUME IInv, NEW c \in Clients, CommitRevoke(c) PROVE IInv'
  <1> DEFINE row == Invite(tx[c].space, invite[tx[c].subject].to, "revoked")
  <1>1. /\ Ends(c) /\ tx[c].pc = "commit" /\ tx[c].op = "revoke"
        /\ UNCHANGED <<space, members, nextId>> /\ invite' = [invite EXCEPT ![tx[c].subject] = row]
    BY DEF CommitRevoke, Committing
  <1>2. /\ tx[c].subject \in Invites /\ HoldsInvite(tx[c]) /\ tx[c].space \in Spaces
        /\ invite[tx[c].subject].state \in {"active", "expired"}
        /\ invite[tx[c].subject].space = tx[c].space /\ space[tx[c].space] = "exists"
    BY <1>1, Working, CommitSpace DEF RequestInv, InviteInv, SubjectOf
  <1>3. invite[tx[c].subject].to \in Users
    BY <1>2 DEF IInv, InvitesInv
  <1>4. /\ row \in InviteRow /\ row.space = tx[c].space /\ row.to = invite[tx[c].subject].to
        /\ row.state = "revoked"
    BY <1>2, <1>3 DEF Invite, InviteRow
  <1> HIDE DEF row
  <1>5. TypeOK'
    BY <1>1, <1>4, Committer DEF IInv, Typed, TypeOK
  <1>6. OthersKept
    <2> SUFFICES ASSUME NEW d \in Clients \ {c}, tx[d].pc # "idle" PROVE Kept(tx[d])
      BY <1>1, Committer
    <2>1. ~HoldsInvite(tx[d]) \/ tx[d].subject # tx[c].subject
      BY <1>2, InvitesApart
    <2> QED
      BY <1>1, <1>2, <1>4, <2>1, InviteChange
  <1> QED
    BY <1>1, <1>2, <1>3, <1>4, <1>5, <1>6, InviteKept

LEMMA ExpireStep == ASSUME IInv, NEW i \in Invites, Expire(i) PROVE IInv'
  <1> DEFINE row == Invite(invite[i].space, invite[i].to, "expired")
  <1>1. invite' = [invite EXCEPT ![i] = row] /\ UNCHANGED <<space, members, nextId, tx>>
    BY DEF Expire
  <1>2. /\ invite[i].state = "active" /\ invite[i].space \in Spaces /\ invite[i].to \in Users
        /\ space[invite[i].space] = "exists"
    BY DEF Expire, IInv, InvitesInv
  <1>3. /\ row \in InviteRow /\ row.space = invite[i].space /\ row.to = invite[i].to
        /\ row.state = "expired"
    BY <1>2 DEF Invite, InviteRow
  <1> HIDE DEF row
  <1>4. TypeOK'
    BY <1>1, <1>3 DEF IInv, Typed, TypeOK
  <1>5. OthersKept
    <2> SUFFICES ASSUME NEW d \in Clients, tx[d].pc # "idle" PROVE Kept(tx[d])
      BY <1>1 DEF OthersKept
    <2> QED
      BY <1>1, <1>3, InviteChange
  <1> QED
    BY <1>1, <1>2, <1>3, <1>4, <1>5, InviteKept

LEMMA CreateSpaceStep == ASSUME IInv, NEW u \in Users, NEW s \in Spaces, CreateSpace(u, s) PROVE IInv'
  <1> DEFINE row == Member(nextId, s, u, "owner")
  <1>1. /\ space[s] = "absent" /\ space' = [space EXCEPT ![s] = "exists"] /\ UNCHANGED tx
        /\ members' = members \cup {row} /\ nextId' = nextId + 1
    BY DEF CreateSpace
  <1>21. PICK sent \in SUBSET {i \in Invites : invite[i].state = "absent"} :
           /\ Cardinality(sent) <= MaxPending
           /\ \E to \in [sent -> Users] :
                 /\ \A i, j \in sent : to[i] = to[j] => i = j
                 /\ invite' = [i \in Invites |-> IF i \in sent THEN Invite(s, to[i], "active")
                                                 ELSE invite[i]]
    BY DEF CreateSpace
  <1>2. PICK to \in [sent -> Users] :
           /\ \A i, j \in sent : to[i] = to[j] => i = j
           /\ invite' = [i \in Invites |-> IF i \in sent THEN Invite(s, to[i], "active") ELSE invite[i]]
    BY <1>21
  <1>3. /\ nextId \in Nat \ {0} /\ nextId \in Nat /\ invite \in [Invites -> InviteRow]
        /\ space \in [Spaces -> {"absent", "exists", "gone"}]
    BY DEF IInv, Typed, TypeOK
  <1>4. row \in MemberRow /\ row.id = nextId /\ row.space = s /\ row.user = u /\ row.role = "owner"
    BY <1>3 DEF Member, MemberRow, Roles
  <1> HIDE DEF row
  <1>5. ASSUME NEW i \in sent
        PROVE  /\ i \in Invites /\ invite[i].state = "absent" /\ invite'[i] \in InviteRow
               /\ invite'[i].space = s /\ invite'[i].to = to[i] /\ to[i] \in Users
               /\ invite'[i].state = "active"
    BY <1>2 DEF Invite, InviteRow
  <1>6. \A i \in Invites : i \notin sent => invite'[i] = invite[i]
    BY <1>2
  <1>7. space'[s] = "exists" /\ \A t \in Spaces : t # s => space'[t] = space[t]
    BY <1>1, <1>3
  <1>8. ASSUME NEW i \in Invites, i \notin sent PROVE invite[i].space # s
    BY <1>1, NoneAssumption DEF IInv, InvitesInv, Invite
  <1>9. \A m \in members : m.space # s /\ m.id \in Nat /\ m.id < nextId
    BY <1>1, RowIds DEF IInv, RowsInv
  <1>10. TypeOK'
    <2>1. invite' \in [Invites -> InviteRow]
      <3>1. \A i \in Invites : invite'[i] \in InviteRow
        BY <1>3, <1>5, <1>6
      <3>2. invite' = [i \in Invites |-> invite'[i]]
        BY <1>2
      <3> QED
        BY <3>1, <3>2
    <2>2. members' \subseteq MemberRow /\ nextId' \in Nat \ {0}
      BY <1>1, <1>3, <1>4, RowIds
    <2>3. space' \in [Spaces -> {"absent", "exists", "gone"}]
      BY <1>1, <1>3
    <2> QED
      BY <1>1, <2>1, <2>2, <2>3 DEF IInv, Typed, TypeOK
  <1>11. SpacesOwned'
    <2> SUFFICES ASSUME NEW t \in Spaces
                 PROVE  IF space'[t] = "exists"
                        THEN /\ \E o \in MembersOf(t)' :
                                   \A m \in MembersOf(t)' : m.role = "owner" <=> m = o
                             /\ \A m, n \in MembersOf(t)' : m.user = n.user => m = n
                        ELSE /\ MembersOf(t)' = {}
                             /\ \A i \in Invites : invite'[i].space = t => invite'[i].state = "gone"
      BY DEF SpacesOwned
    <2>1. CASE t = s
      <3>1. MembersOf(t)' = {row}
        BY <1>1, <1>4, <1>9, <2>1 DEF MembersOf
      <3> QED
        BY <1>4, <1>7, <2>1, <3>1
    <2>2. CASE t # s
      <3>1. MembersOf(t)' = MembersOf(t)
        BY <1>1, <1>4, <2>2 DEF MembersOf
      <3>2. \A i \in Invites : invite'[i].space = t => invite'[i] = invite[i]
        BY <1>5, <1>6, <2>2
      <3> QED
        BY <1>7, <2>2, <3>1, <3>2 DEF IInv, SpacesOwned
    <2> QED
      BY <2>1, <2>2
  <1>12. OneInvitePerAddress'
    <2> SUFFICES ASSUME NEW t \in Spaces
                 PROVE  /\ \A i, j \in ActiveInvites(t)' : invite'[i].to = invite'[j].to => i = j
                        /\ Cardinality(ActiveInvites(t)') <= MaxPending
      BY DEF OneInvitePerAddress
    <2>1. CASE t = s
      <3>1. ActiveInvites(t)' = sent
        BY <1>5, <1>6, <1>8, <2>1 DEF ActiveInvites
      <3> QED
        <4>1. Cardinality(ActiveInvites(t)') <= MaxPending
          BY <1>21, <3>1
        <4>2. \A i, j \in sent : invite'[i].to = invite'[j].to => i = j
          BY <1>2, <1>5
        <4> QED
          BY <3>1, <4>1, <4>2
    <2>2. CASE t # s
      <3>1. ActiveInvites(t)' = ActiveInvites(t)
        BY <1>5, <1>6, <2>2 DEF ActiveInvites
      <3>2. \A i \in ActiveInvites(t)' : invite'[i] = invite[i]
        BY <1>5, <1>6, <2>2 DEF ActiveInvites
      <3> QED
        BY <3>1, <3>2 DEF IInv, OneInvitePerAddress
    <2> QED
      BY <2>1, <2>2
  <1>13. RowsInv'
    <2>1. IsFiniteSet(members')
      BY <1>1, FS_AddElement DEF IInv, RowsInv
    <2>2. \A m \in members : m.space \in Spaces
      BY RowIds DEF MemberRow
    <2>3. \A m \in members' : m.id < nextId' /\ space'[m.space] = "exists"
      BY <1>1, <1>3, <1>4, <1>7, <1>9, <2>2 DEF IInv, RowsInv
    <2>4. \A m, n \in members' : m.id = n.id => m = n
      BY <1>1, <1>3, <1>4, <1>9 DEF IInv, RowsInv
    <2> QED
      BY <2>1, <2>3, <2>4 DEF RowsInv
  <1>14. InvitesInv'
    BY <1>5, <1>6, <1>7, <1>8 DEF IInv, InvitesInv
  <1>15. OthersKept
    <2> SUFFICES ASSUME NEW d \in Clients, tx[d].pc # "idle" PROVE Kept(tx[d])
      BY <1>1 DEF OthersKept
    <2>1. /\ tx[d].space \in Spaces /\ RequestInv(tx[d]) /\ SubjectOf(tx[d].op, tx[d].subject)
      BY Working
    <2>2. \A m \in members : m \in members'
      BY <1>1
    <2>3. /\ space[tx[d].space] # "absent" => space'[tx[d].space] # "absent"
          /\ space[tx[d].space] = "gone" => space'[tx[d].space] = "gone"
      BY <1>1, <1>7, <2>1
    <2>4. ASSUME PastSpace(tx[d])
          PROVE  /\ \A m \in members' : m.space = tx[d].space => m \in members
                 /\ \A i \in Invites : invite'[i].space = tx[d].space /\ invite'[i].state = "active" =>
                       i \in ActiveInvites(tx[d].space) /\ invite'[i].to = invite[i].to
      <3>1. tx[d].space # s
        BY <1>1, <2>4, SpaceKnown DEF PastSpace
      <3> QED
        BY <1>1, <1>4, <1>5, <1>6, <3>1 DEF ActiveInvites
    <2>5. \A i \in Invites : invite[i].state # "absent" => invite'[i] = invite[i]
      BY <1>5, <1>6
    <2>6. ASSUME tx[d].pc = "commit", tx[d].op \in {"join", "resend", "revoke"}
          PROVE  invite'[tx[d].subject].state \in {"active", "expired"}
      BY <2>1, <2>5, <2>6 DEF RequestInv, InviteInv, SubjectOf
    <2> QED
      BY <2>2, <2>3, <2>4, <2>5, <2>6 DEF Kept
  <1> QED
    BY <1>10, <1>11, <1>12, <1>13, <1>14, <1>15, CommitStep

-----------------------------------------------------------------------------
(* The invariant is inductive.                                             *)

LEMMA InitInv == Init => IInv
  <1> SUFFICES ASSUME Init PROVE IInv
    OBVIOUS
  <1>1. IsFiniteSet(members) /\ members = {}
    BY FS_EmptySet DEF Init
  <1>2. \A i \in Invites : invite[i] = Invite(None, None, "absent") /\ invite[i].state = "absent"
                           /\ invite[i].space \notin Spaces
    BY NoneAssumption DEF Init, Invite
  <1>3. \A c \in Clients : tx[c] = Idle /\ tx[c].pc = "idle" /\ tx[c].held = {}
    BY DEF Init, Idle
  <1>4. Typed
    <2>1. \A c \in Clients : Shaped(tx[c])
      BY <1>3 DEF Shaped
    <2>2. TypeOK
      <3>1. Invite(None, None, "absent") \in InviteRow
        BY DEF Invite, InviteRow
      <3> QED
        BY <3>1, RequestOperators DEF Init, TypeOK
    <2> QED
      BY <2>1, <2>2 DEF Typed
  <1>5. SpacesOwned
    BY <1>1, <1>2 DEF Init, SpacesOwned, MembersOf
  <1>6. OneInvitePerAddress
    <2>1. \A s \in Spaces : ActiveInvites(s) = {}
      BY <1>2 DEF ActiveInvites
    <2> QED
      BY <2>1, FS_EmptySet, LimitAssumption DEF OneInvitePerAddress
  <1>7. RowsInv /\ InvitesInv /\ LocksExclude
    BY <1>1, <1>2, <1>3 DEF RowsInv, InvitesInv, LocksExclude
  <1> QED
    BY <1>3, <1>4, <1>5, <1>6, <1>7 DEF IInv

LEMMA StutterInv == ASSUME IInv, UNCHANGED vars PROVE IInv'
  <1> USE DEF vars
  <1>1. \A d \in Clients : tx[d].pc # "idle" => Kept(tx[d])
    <2> SUFFICES ASSUME NEW d \in Clients, tx[d].pc # "idle" PROVE Kept(tx[d])
      OBVIOUS
    <2>1. RequestInv(tx[d]) /\ SubjectOf(tx[d].op, tx[d].subject)
      BY Working
    <2> QED
      BY <2>1 DEF Kept, ActiveInvites, RequestInv, InviteInv
  <1>2. OthersKept
    BY <1>1 DEF OthersKept
  <1>3. TypeOK'
    BY DEF IInv, Typed, TypeOK
  <1>4. SpacesOwned'
    BY DEF IInv, SpacesOwned, MembersOf
  <1>5. OneInvitePerAddress'
    BY DEF IInv, OneInvitePerAddress, ActiveInvites
  <1>6. RowsInv' /\ InvitesInv'
    BY DEF IInv, RowsInv, InvitesInv
  <1> QED
    BY <1>2, <1>3, <1>4, <1>5, <1>6, CommitStep

LEMMA NextInv == ASSUME IInv, [Next]_vars PROVE IInv'
  <1>1. ASSUME NEW c \in Clients, Locking(c) PROVE IInv'
    BY <1>1, LockRowStep, LockMemberStep, LockSpaceStep, LockInviteStep DEF Locking
  <1>2. ASSUME NEW c \in Clients, RefuseCommit(c) \/ CommitOther(c) \/ Abort(c) PROVE IInv'
    BY <1>2, EndsStep DEF RefuseCommit, CommitOther, Abort
  <1>3. ASSUME NEW c \in Clients, Commit(c) PROVE IInv'
    BY <1>2, <1>3, LeaveAsMemberStep, RemoveMemberStep, HandOverStep, RemoveOwnedStep,
       CommitInviteStep, CommitRevokeStep, CommitJoinStep DEF Commit
  <1>4. ASSUME NEW c \in Clients, Progress(c) PROVE IInv'
    BY <1>1, <1>3, <1>4, ReadIdsStep, RecheckStep, CheckStep DEF Progress
  <1> QED
    BY <1>2, <1>4, BeginSomeStep, CreateSpaceStep, ExpireStep, StutterInv DEF Next

LEMMA Invariance == Spec => []IInv
  <1> QED
    BY InitInv, NextInv, PTL DEF Spec

-----------------------------------------------------------------------------
(* Safety.                                                                 *)

\* Whatever requests overlap, rows, invitations and transactions keep their
\* types: no code path writes a row without a role, a user or a space.
THEOREM TypeCorrect == Spec => []TypeOK
  <1>1. IInv => TypeOK
    BY DEF IInv, Typed
  <1> QED
    BY <1>1, Invariance, PTL

\* A space that exists has exactly one owner and each person once; a deleted one
\* leaves no member and no invitation behind (space-members.service.ts,
\* removeOwned(): whoever joins at the same time).
THEOREM Owned == Spec => []SpacesOwned
  <1>1. IInv => SpacesOwned
    BY DEF IInv
  <1> QED
    BY <1>1, Invariance, PTL

\* No two active invitations of one address, and never more than the limit
\* (space-invites.service.ts create(), which checks both under the space's lock).
THEOREM InvitedOnce == Spec => []OneInvitePerAddress
  <1>1. IInv => OneInvitePerAddress
    BY DEF IInv
  <1> QED
    BY <1>1, Invariance, PTL

\* The checks of a transaction still hold when it commits.
LEMMA ChecksAtCommit ==
    ASSUME IInv, NEW c \in Clients, tx[c].pc = "commit"
    PROVE  LET me == tx[c]
               row == RowOf(me.space, me.user) IN
           /\ me.op \in {"leave", "remove", "delete"} =>
                 /\ {m \in me.got : m.space = me.space} = MembersOf(me.space)
                 /\ me.got \subseteq members
                 /\ Actors(me) # {}
           /\ me.op \in {"write", "sharedWrite"} => row # {}
           /\ me.op \in NeedsOwner =>
                 /\ \E m \in row : m.role = "owner"
                 /\ me.op \in {"resend", "revoke"} => invite[me.subject].state \in {"active", "expired"}
                 /\ me.op = "invite" => NotInvited(me.space, me.subject)
           /\ me.op = "join" =>
                 /\ space[me.space] = "exists" /\ row = {} /\ HasRoom(me.space)
                 /\ invite[me.subject].state \in {"active", "expired"}
  <1> DEFINE me == tx[c]
  <1>1. RequestInv(me) /\ space[me.space] = "exists" /\ CheckedInv(me)
    BY Working, CommitSpace DEF RequestInv
  <1>2. ASSUME me.op \in Departures
        PROVE  /\ {m \in me.got : m.space = me.space} = MembersOf(me.space)
               /\ me.got \subseteq members /\ Actors(me) # {}
    BY <1>2, Departing
  <1>3. ASSUME me.op \in Invitings \cup Writes
        PROVE  \E m \in RowOf(me.space, me.user) : me.op \in Invitings => m.role = "owner"
    BY <1>1, <1>3 DEF RequestInv, MemberInv
  <1>4. ASSUME me.op \in {"join", "resend", "revoke"} PROVE invite[me.subject].state \in {"active", "expired"}
    BY <1>1, <1>4 DEF RequestInv, InviteInv
  <1> QED
    BY <1>1, <1>2, <1>3, <1>4 DEF CheckedInv, Departures, Writes, Invitings, NeedsOwner

LEMMA ChecksHold == IInv => ChecksStillHold
  <1> SUFFICES ASSUME IInv, NEW c \in Clients, tx[c].pc = "commit"
               PROVE  LET me == tx[c]
                          row == RowOf(me.space, me.user) IN
                      CASE me.op \in {"leave", "remove", "delete"} ->
                             /\ {m \in me.got : m.space = me.space} = MembersOf(me.space)
                             /\ me.got \subseteq members
                             /\ Actors(me) # {}
                        [] me.op \in {"write", "sharedWrite"} -> row # {}
                        [] me.op \in NeedsOwner ->
                             /\ \E m \in row : m.role = "owner"
                             /\ me.op \in {"resend", "revoke"} =>
                                   invite[me.subject].state \in {"active", "expired"}
                             /\ me.op = "invite" => NotInvited(me.space, me.subject)
                        [] me.op = "join" ->
                             /\ space[me.space] = "exists" /\ row = {} /\ HasRoom(me.space)
                             /\ invite[me.subject].state \in {"active", "expired"}
    BY Zenon DEF ChecksStillHold
  <1>1. \/ tx[c].op \in {"leave", "remove", "delete"} \/ tx[c].op \in {"write", "sharedWrite"}
        \/ tx[c].op \in NeedsOwner \/ tx[c].op = "join"
    BY Working DEF Operations, NeedsOwner
  <1> QED
    BY <1>1, ChecksAtCommit, ZenonT(60)

\* What a transaction checked is still true when it commits: the locks it took
\* in between keep every other one from changing it.
THEOREM ChecksKept == Spec => []ChecksStillHold
  BY ChecksHold, Invariance, PTL

-----------------------------------------------------------------------------
(* Nobody waits in a circle.                                               *)

LEMMA WantsValues ==
    ASSUME NEW c
    PROVE  /\ tx[c].pc = "lockRows" =>
                 Wants(c) = {Lock("member", id, "X") :
                               id \in {m.id : m \in {r \in members : NextToLock(c, r.id)}}}
           /\ tx[c].pc = "lockMember" =>
                 Wants(c) = {Lock("member", m.id, "S") : m \in RowOf(tx[c].space, tx[c].user)}
           /\ tx[c].pc = "lockSpace" => Wants(c) = {Lock("space", tx[c].space, SpaceMode(tx[c].op))}
           /\ tx[c].pc = "lockInvite" => Wants(c) = {Lock("invite", tx[c].subject, "X")}
           /\ tx[c].pc \notin {"lockRows", "lockMember", "lockSpace", "lockInvite"} => Wants(c) = {}
  BY Zenon DEF Wants

\* Where a request is that holds a lock someone waits for.
LEMMA HoldersAreLater ==
    ASSUME IInv, NEW d \in Clients, NEW h \in tx[d].held
    PROVE  /\ tx[d].pc \notin {"idle", "readIds", "lockMember"}
           /\ h.on[1] # "member" => tx[d].pc \notin {"lockRows", "lockSpace"}
           /\ h.on[1] = "invite" => tx[d].pc # "lockInvite"
  <1>1. tx[d].pc # "idle"
    BY DEF IInv, Typed, Shaped, Idle
  <1>2. OrderInv(tx[d])
    BY <1>1 DEF IInv
  <1> QED
    BY <1>1, <1>2 DEF OrderInv

LEMMA NoCircle == IInv => NoCrosswiseWait
  <1> SUFFICES ASSUME IInv, NEW some \in (SUBSET Clients) \ {{}}
               PROVE  \E c \in some : \A d \in some \ {c} : ~WaitsFor(c, d)
    BY DEF NoCrosswiseWait
  <1>1. CASE \E c \in some : Wants(c) = {}
    BY <1>1 DEF WaitsFor
  <1>2. CASE /\ \A c \in some : Wants(c) # {}
             /\ \E c \in some : tx[c].pc = "lockInvite"
    <2>1. PICK c \in some : tx[c].pc = "lockInvite"
      BY <1>2
    <2>2. ASSUME NEW d \in some, WaitsFor(c, d) PROVE FALSE
      <3>1. PICK h \in tx[d].held : h.on = Lock("invite", tx[c].subject, "X").on
        BY <2>1, <2>2, WantsValues DEF WaitsFor
      <3>2. h.on[1] = "invite"
        BY <3>1 DEF Lock
      <3>3. Wants(d) = {}
        BY <3>2, HoldersAreLater, WantsValues
      <3> QED
        BY <1>2, <3>3
    <2> QED
      BY <2>1, <2>2
  <1>3. CASE /\ \A c \in some : Wants(c) # {} /\ tx[c].pc # "lockInvite"
             /\ \E c \in some : tx[c].pc = "lockSpace"
    <2>1. PICK c \in some : tx[c].pc = "lockSpace"
      BY <1>3
    <2>2. ASSUME NEW d \in some, WaitsFor(c, d) PROVE FALSE
      <3>1. PICK h \in tx[d].held : h.on = Lock("space", tx[c].space, SpaceMode(tx[c].op)).on
        BY <2>1, <2>2, WantsValues DEF WaitsFor
      <3>2. h.on[1] = "space"
        BY <3>1 DEF Lock
      <3>3. Wants(d) = {}
        BY <1>3, <3>2, HoldersAreLater, WantsValues
      <3> QED
        BY <1>3, <3>3
    <2> QED
      BY <2>1, <2>2
  <1>4. CASE /\ \A c \in some : Wants(c) # {} /\ tx[c].pc \notin {"lockInvite", "lockSpace"}
             /\ \A c \in some : tx[c].pc # "lockRows"
    <2>1. \A c \in some : tx[c].held = {}
      BY <1>4, HoldersAreLater, WantsValues
    <2> QED
      BY <2>1 DEF WaitsFor
  <1>5. CASE /\ \A c \in some : Wants(c) # {} /\ tx[c].pc \notin {"lockInvite", "lockSpace"}
             /\ \E c \in some : tx[c].pc = "lockRows"
    <2> DEFINE First(c, id) == NextToLock(c, id) /\ \E m \in members : m.id = id
               Firsts == {id \in Nat : \E c \in some : tx[c].pc = "lockRows" /\ First(c, id)}
    <2>1. ASSUME NEW c \in some, tx[c].pc = "lockRows"
          PROVE  \E id \in Nat : First(c, id) /\ Wants(c) = {Lock("member", id, "X")}
      <3>1. PICK m \in members : NextToLock(c, m.id)
        BY <1>5, <2>1, WantsValues
      <3>2. m.id \in Nat /\ tx[c].todo \subseteq Nat
        BY <2>1, RowIds, Working
      <3>3. \A r \in members : NextToLock(c, r.id) <=> r.id = m.id
        <4> SUFFICES ASSUME NEW r \in members, NextToLock(c, r.id) PROVE r.id = m.id
          BY <3>1
        <4> QED
          BY <3>1, <3>2, RowIds DEF NextToLock
      <3>4. Wants(c) = {Lock("member", m.id, "X")}
        <4>1. Wants(c) = {Lock("member", id, "X") :
                            id \in {r.id : r \in {r \in members : NextToLock(c, r.id)}}}
          BY <2>1, WantsValues
        <4>2. {r.id : r \in {r \in members : NextToLock(c, r.id)}} = {m.id}
          BY <3>3
        <4> QED
          BY <4>1, <4>2
      <3> QED
        BY <3>1, <3>2, <3>4
    <2>2. Firsts \in SUBSET Nat /\ Firsts # {} /\ nextId \in Nat /\ \A id \in Firsts : id <= nextId
      <3>1. Firsts # {}
        BY <1>5, <2>1
      <3>2. nextId \in Nat /\ \A m \in members : m.id \in Nat /\ m.id < nextId
        BY RowIds DEF IInv, Typed, TypeOK, RowsInv
      <3> QED
        BY <3>1, <3>2
    <2>3. PICK last \in Firsts : \A id \in Firsts : id <= last
      <3> HIDE DEF Firsts
      <3> QED
        BY <2>2, NatMaximum
    <2>4. PICK c \in some : tx[c].pc = "lockRows" /\ First(c, last)
      BY <2>3
    <2>5. Wants(c) = {Lock("member", last, "X")}
      <3>1. PICK id \in Nat : First(c, id) /\ Wants(c) = {Lock("member", id, "X")}
        BY <2>1, <2>4
      <3>2. id = last
        BY <2>3, <2>4, <3>1 DEF NextToLock
      <3> QED
        BY <3>1, <3>2
    <2>6. ASSUME NEW d \in some, WaitsFor(c, d) PROVE FALSE
      <3>1. PICK h \in tx[d].held : h.on = <<"member", last>>
        BY <2>5, <2>6 DEF WaitsFor, Lock
      <3>2. tx[d].pc = "lockRows" /\ OrderInv(tx[d]) /\ tx[d].todo \subseteq Nat
        BY <1>5, <3>1, HoldersAreLater, WantsValues, Working
      <3>3. PICK id \in Nat : First(d, id)
        BY <2>1, <3>2
      <3>4. id \in Firsts /\ last < id
        BY <3>1, <3>2, <3>3 DEF OrderInv, NextToLock
      <3> QED
        BY <2>3, <3>4
    <2> QED
      BY <2>4, <2>6
  <1>6. CASE \A c \in some : Wants(c) # {}
    <2>1. CASE \E c \in some : tx[c].pc = "lockInvite"
      BY <1>2, <1>6, <2>1
    <2>2. CASE (\A c \in some : tx[c].pc # "lockInvite") /\ \E c \in some : tx[c].pc = "lockSpace"
      BY <1>3, <1>6, <2>2
    <2>3. CASE \A c \in some : tx[c].pc \notin {"lockInvite", "lockSpace"}
      <3>1. CASE \A c \in some : tx[c].pc # "lockRows"
        BY <1>4, <1>6, <2>3, <3>1
      <3>2. CASE \E c \in some : tx[c].pc = "lockRows"
        BY <1>5, <1>6, <2>3, <3>2
      <3> QED
        BY <3>1, <3>2
    <2> QED
      BY <2>1, <2>2, <2>3
  <1> QED
    BY <1>1, <1>6

\* Requests never wait for each other in a circle: member rows in ascending
\* order, then the space, then an invitation (row-locks.ts:3-4).
THEOREM NobodyWaitsInACircle == Spec => []NoCrosswiseWait
  BY NoCircle, Invariance, PTL


-----------------------------------------------------------------------------
(* The rules' variables, as functions of the rows.                         *)

Person(m) == [space |-> m.space, user |-> m.user, since |-> m.id]
People == {Person(m) : m \in members}
Owners == [s \in Spaces |-> OwnerOf(s)]
Open == {i \in Invites : invite[i].state \in {"active", "expired"}}
OfferOf(i) == [id |-> i, space |-> invite[i].space, to |-> invite[i].to]
Offers == {OfferOf(i) : i \in Open}

LEMMA PersonFields ==
    \A m : Person(m).space = m.space /\ Person(m).user = m.user /\ Person(m).since = m.id
  BY DEF Person

\* The owner of a space that exists is its owner row's user.
LEMMA OwnerRow ==
    ASSUME IInv, NEW s \in Spaces, NEW o \in MembersOf(s), o.role = "owner"
    PROVE  OwnerOf(s) = o.user
  <1>1. space[s] = "exists"
    BY DEF IInv, RowsInv, MembersOf
  <1>2. \A m \in MembersOf(s) : m.role = "owner" => m = o
    BY <1>1 DEF IInv, SpacesOwned
  <1>3. (CHOOSE m \in MembersOf(s) : m.role = "owner") = o
    BY <1>2
  <1> QED
    BY <1>3 DEF OwnerOf

LEMMA OwnerKnown ==
    ASSUME IInv, NEW s \in Spaces, space[s] = "exists"
    PROVE  \E o \in MembersOf(s) : o.role = "owner" /\ OwnerOf(s) = o.user /\ o.user \in Users
                                   /\ \A m \in MembersOf(s) : m.role = "owner" => m = o
  <1>1. PICK o \in MembersOf(s) : \A m \in MembersOf(s) : m.role = "owner" <=> m = o
    BY DEF IInv, SpacesOwned
  <1>2. o.role = "owner" /\ o.user \in Users
    BY <1>1, RowIds DEF MembersOf, MemberRow
  <1> QED
    BY <1>1, <1>2, OwnerRow

LEMMA NobodyOwns ==
    ASSUME NEW s, MembersOf(s) = {}
    PROVE  OwnerOf(s) = None
  BY DEF OwnerOf

LEMMA SameOwner ==
    ASSUME NEW s, MembersOf(s)' = MembersOf(s)
    PROVE  OwnerOf(s)' = OwnerOf(s)
  BY DEF OwnerOf

\* The rules' people in a space are the rows of the space, as many.
LEMMA InSpace ==
    ASSUME IInv, NEW s
    PROVE  /\ Rules!In(s) = {Person(m) : m \in MembersOf(s)}
           /\ Cardinality(Rules!In(s)) = Cardinality(MembersOf(s))
  <1> DEFINE named == {Person(m) : m \in MembersOf(s)}
             name == [m \in MembersOf(s) |-> Person(m)]
  <1>1. Rules!In(s) = named
    BY DEF Rules!In, Person, MembersOf
  <1>2. name \in Bijection(MembersOf(s), named)
    <2>1. name \in [MembersOf(s) -> named]
      OBVIOUS
    <2>2. \A m, n \in MembersOf(s) : name[m] = name[n] => m = n
      BY PersonFields DEF MembersOf, IInv, RowsInv
    <2>3. \A p \in named : \E m \in MembersOf(s) : name[m] = p
      OBVIOUS
    <2> QED
      BY <2>1, <2>2, <2>3 DEF Bijection, Injection, Surjection, IsInjective
  <1>3. Cardinality(named) = Cardinality(MembersOf(s))
    <2>1. IsFiniteSet(MembersOf(s)) /\ ExistsBijection(MembersOf(s), named)
      BY <1>2, FinitelyMany DEF ExistsBijection
    <2> HIDE DEF named
    <2> QED
      BY <2>1, FS_Bijection
  <1> QED
    BY <1>1, <1>3

-----------------------------------------------------------------------------
(* The rules' steps, in the terms above.                                   *)

LEMMA RulesVars ==
    UNCHANGED <<People, Owners, Offers>> => UNCHANGED Rules!vars
  BY DEF Rules!vars, People, Person, Owners, Offers, OfferOf, Open

LEMMA OfferStep ==
    ASSUME NEW s \in Spaces, Owners[s] # None, NEW o, o.space = s, o \notin Offers,
           Offers' = Offers \cup {o}, UNCHANGED <<People, Owners>>
    PROVE  Rules!Next
  <1>1. Rules!Offer(s)
    BY DEF Rules!Offer, People, Person, Owners, Offers, OfferOf, Open
  <1> QED
    BY <1>1 DEF Rules!Next

LEMMA WithdrawStep ==
    ASSUME NEW o \in Offers, Offers' = Offers \ {o}, UNCHANGED <<People, Owners>>
    PROVE  Rules!Next
  <1>1. Rules!Withdraw(o)
    BY DEF Rules!Withdraw, People, Person, Owners, Offers, OfferOf, Open
  <1>2. o \in {[id |-> i, space |-> invite[i].space, to |-> invite[i].to] :
                  i \in {j \in Invites : invite[j].state \in {"active", "expired"}}}
    BY DEF Offers, OfferOf, Open
  <1> QED
    BY <1>1, <1>2 DEF Rules!Next

LEMMA NewcomerStep ==
    ASSUME NEW p, People' = People \cup {p}, \A q \in Rules!In(p.space) : q.since < p.since
    PROVE  Rules!Newcomer(p)
  BY DEF Rules!Newcomer, People, Person

\* The instance has the same notion of a set's size.
LEMMA SameSize == \A S : Rules!Cardinality(S) = Cardinality(S)
  BY DEF Rules!Cardinality, Cardinality

LEMMA TakeStep ==
    ASSUME NEW o \in Offers, Owners[o.space] # None, ~Rules!Belongs(o.to, o.space),
           Cardinality(Rules!In(o.space)) < MaxMembers,
           NEW p, p.space = o.space, p.user = o.to, People' = People \cup {p},
           \A q \in Rules!In(p.space) : q.since < p.since,
           Offers' = Offers \ {o}, UNCHANGED Owners
    PROVE  Rules!Next
  <1>1. Rules!Newcomer(p)
    BY NewcomerStep
  <1>2. p \in People'
    OBVIOUS
  <1>3. Rules!Take(o)
    <2>1. \E q \in {[space |-> m.space, user |-> m.user, since |-> m.id] : m \in members}' :
             q.space = o.space /\ q.user = o.to /\ Rules!Newcomer(q)
      BY <1>1, <1>2 DEF People, Person
    <2>2. /\ [s \in Spaces |-> OwnerOf(s)][o.space] # None
          /\ UNCHANGED [s \in Spaces |-> OwnerOf(s)]
      BY DEF Owners
    <2>3. Offers' = Offers \ {o}
      OBVIOUS
    <2> QED
      BY <2>1, <2>2, <2>3, SameSize DEF Rules!Take, Offers, OfferOf, Open
  <1>4. o \in {[id |-> i, space |-> invite[i].space, to |-> invite[i].to] :
                  i \in {j \in Invites : invite[j].state \in {"active", "expired"}}}
    BY DEF Offers, OfferOf, Open
  <1> QED
    BY <1>3, <1>4 DEF Rules!Next

LEMMA FoundStep ==
    ASSUME NEW s \in Spaces, Owners[s] = None, NEW p, p.space = s, People' = People \cup {p},
           \A q \in Rules!In(p.space) : q.since < p.since,
           Owners' = [Owners EXCEPT ![s] = p.user],
           Offers \subseteq Offers', \A o \in Offers' \ Offers : o.space = s
    PROVE  Rules!Next
  <1>1. Rules!Newcomer(p)
    BY NewcomerStep
  <1>2. p \in People'
    OBVIOUS
  <1>3. Rules!Found(s)
    BY <1>1, <1>2 DEF Rules!Found, People, Person, Owners, Offers, OfferOf, Open
  <1> QED
    BY <1>3 DEF Rules!Next

LEMMA DepartStep ==
    ASSUME NEW p \in People, People' = People \ {p}, Rules!In(p.space) \ {p} # {},
           Owners' = [Owners EXCEPT ![p.space] =
                        IF p.user = Owners[p.space] THEN Rules!Earliest(Rules!In(p.space) \ {p}).user
                        ELSE Owners[p.space]],
           UNCHANGED Offers
    PROVE  Rules!Next
  <1>1. Rules!Depart(p)
    BY DEF Rules!Depart, People, Person, Owners, Offers, OfferOf, Open
  <1>2. p \in {[space |-> m.space, user |-> m.user, since |-> m.id] : m \in members}
    BY DEF People, Person
  <1> QED
    BY <1>1, <1>2 DEF Rules!Next

LEMMA DissolveStep ==
    ASSUME NEW s \in Spaces, Owners[s] # None, \E p \in People : p.user = Owners[s] /\ p.space # s,
           People' = People \ Rules!In(s), Owners' = [Owners EXCEPT ![s] = None],
           Offers' = {o \in Offers : o.space # s}
    PROVE  Rules!Next
  <1>1. Rules!Dissolve(s)
    BY DEF Rules!Dissolve, People, Person, Owners, Offers, OfferOf, Open
  <1> QED
    BY <1>1 DEF Rules!Next

-----------------------------------------------------------------------------
(* Every step of a request is a step of the rules, or none.                *)

\* Steps that write no member row and no invitation.
LEMMA QuietStep ==
    ASSUME UNCHANGED <<members, invite>>
    PROVE  UNCHANGED Rules!vars
  BY DEF Rules!vars, OwnerOf, MembersOf

\* Rows that keep their members keep their owner and their people.
LEMMA SameRows ==
    ASSUME UNCHANGED members
    PROVE  UNCHANGED <<People, Owners>>
  BY DEF People, Person, Owners, OwnerOf, MembersOf

LEMMA SameOffers ==
    ASSUME UNCHANGED invite PROVE UNCHANGED Offers
  BY DEF Offers, OfferOf, Open

LEMMA OwnedSpace ==
    ASSUME IInv, NEW s \in Spaces, space[s] = "exists"
    PROVE  Owners[s] # None
  BY OwnerKnown, NoneAssumption DEF Owners

\* Offers after one invitation has changed.
LEMMA OffersChange ==
    ASSUME IInv, NEW i \in Invites, NEW row, invite' = [invite EXCEPT ![i] = row]
    PROVE  /\ row.state \in {"active", "expired"} =>
                 Offers' = {OfferOf(j) : j \in Open \ {i}}
                              \cup {[id |-> i, space |-> row.space, to |-> row.to]}
           /\ row.state \notin {"active", "expired"} =>
                 Offers' = {OfferOf(j) : j \in Open \ {i}}
  <1>1. invite'[i] = row /\ \A j \in Invites : j # i => invite'[j] = invite[j]
    BY DEF IInv, Typed, TypeOK
  <1>2. /\ row.state \in {"active", "expired"} => Open' = (Open \ {i}) \cup {i}
        /\ row.state \notin {"active", "expired"} => Open' = Open \ {i}
    BY <1>1 DEF Open
  <1>3. \A j \in Open \ {i} : OfferOf(j)' = OfferOf(j)
    BY <1>1 DEF Open, OfferOf
  <1>4. OfferOf(i)' = [id |-> i, space |-> row.space, to |-> row.to]
    BY <1>1 DEF OfferOf
  <1> QED
    BY <1>2, <1>3, <1>4 DEF Offers

LEMMA OfferIds ==
    ASSUME NEW i \in Invites, NEW X, X \subseteq Invites
    PROVE  {OfferOf(j) : j \in X \ {i}} = {OfferOf(j) : j \in X} \ {OfferOf(i)}
  <1>1. \A j : OfferOf(j).id = j
    BY DEF OfferOf
  <1> QED
    BY <1>1

LEMMA ExpireRules ==
    ASSUME IInv, NEW i \in Invites, Expire(i)
    PROVE  UNCHANGED Rules!vars
  <1> DEFINE row == Invite(invite[i].space, invite[i].to, "expired")
  <1>1. invite' = [invite EXCEPT ![i] = row] /\ UNCHANGED members /\ invite[i].state = "active"
    BY DEF Expire
  <1>2. row.space = invite[i].space /\ row.to = invite[i].to /\ row.state = "expired"
    BY DEF Invite
  <1> HIDE DEF row
  <1>3. i \in Open /\ [id |-> i, space |-> row.space, to |-> row.to] = OfferOf(i)
    BY <1>1, <1>2 DEF Open, OfferOf
  <1>4. Offers' = {OfferOf(j) : j \in Open \ {i}} \cup {OfferOf(i)}
    BY <1>1, <1>2, <1>3, OffersChange
  <1>5. Offers' = Offers
    BY <1>3, <1>4 DEF Offers
  <1> QED
    BY <1>1, <1>5, SameRows, RulesVars

LEMMA CommitInviteRules ==
    ASSUME IInv, NEW c \in Clients, CommitInvite(c)
    PROVE  Rules!Next
  <1> DEFINE row == Invite(tx[c].space, tx[c].subject, "active")
  <1>1. tx[c].pc = "commit" /\ UNCHANGED members
    BY DEF CommitInvite, Committing
  <1>2. PICK i \in Invites : invite[i].state = "absent" /\ invite' = [invite EXCEPT ![i] = row]
    BY DEF CommitInvite
  <1>3. tx[c].space \in Spaces /\ Owners[tx[c].space] # None
    BY <1>1, Working, CommitSpace, OwnedSpace
  <1>4. row.space = tx[c].space /\ row.to = tx[c].subject /\ row.state = "active"
    BY DEF Invite
  <1> HIDE DEF row
  <1>5. PICK o : o = [id |-> i, space |-> row.space, to |-> row.to]
    OBVIOUS
  <1>6. Open \ {i} = Open /\ o.space = tx[c].space
    BY <1>2, <1>4, <1>5 DEF Open
  <1>7. o \notin Offers
    <2>1. \A j \in Open : OfferOf(j).id = j /\ j # i
      BY <1>2 DEF Open, OfferOf
    <2> QED
      BY <1>5, <2>1 DEF Offers
  <1>8. Offers' = Offers \cup {o}
    BY <1>2, <1>4, <1>5, <1>6, OffersChange DEF Offers
  <1> QED
    BY <1>1, <1>3, <1>6, <1>7, <1>8, SameRows, OfferStep

LEMMA CommitRevokeRules ==
    ASSUME IInv, NEW c \in Clients, CommitRevoke(c)
    PROVE  Rules!Next
  <1> DEFINE i == tx[c].subject
             row == Invite(tx[c].space, invite[i].to, "revoked")
  <1>1. /\ tx[c].pc = "commit" /\ tx[c].op = "revoke" /\ UNCHANGED members
        /\ invite' = [invite EXCEPT ![i] = row]
    BY DEF CommitRevoke, Committing
  <1>2. i \in Invites /\ i \in Open
    BY <1>1, Working DEF RequestInv, InviteInv, SubjectOf, Open
  <1>3. row.state = "revoked"
    BY DEF Invite
  <1> HIDE DEF row, i
  <1>4. Offers' = {OfferOf(j) : j \in Open \ {i}}
    BY <1>1, <1>2, <1>3, OffersChange
  <1>5. Offers' = Offers \ {OfferOf(i)} /\ OfferOf(i) \in Offers
    BY <1>2, <1>4, OfferIds DEF Offers, Open
  <1> QED
    BY <1>1, <1>5, SameRows, WithdrawStep

LEMMA CommitJoinRules ==
    ASSUME IInv, NEW c \in Clients, CommitJoin(c)
    PROVE  Rules!Next
  <1> DEFINE me == tx[c]
             row == Member(nextId, me.space, me.user, "member")
             answered == Invite(me.space, me.user, "accepted")
             o == OfferOf(me.subject)
  <1>1. /\ tx[c].pc = "commit" /\ tx[c].op = "join"
        /\ members' = members \cup {row} /\ invite' = [invite EXCEPT ![me.subject] = answered]
    BY DEF CommitJoin, Committing
  <1>2. /\ me.space \in Spaces /\ me.user \in Users /\ me.subject \in Invites
        /\ space[me.space] = "exists" /\ RowOf(me.space, me.user) = {} /\ HasRoom(me.space)
        /\ invite[me.subject].space = me.space /\ invite[me.subject].to = me.user
        /\ me.subject \in Open
    BY <1>1, Working, CommitSpace DEF RequestInv, CheckedInv, InviteInv, SubjectOf, Open
  <1>3. /\ row.id = nextId /\ row.space = me.space /\ row.user = me.user /\ row.role = "member"
        /\ answered.state = "accepted" /\ o.space = me.space /\ o.to = me.user
    BY <1>2 DEF Member, Invite, OfferOf
  <1>4. o = OfferOf(me.subject)
    OBVIOUS
  <1> HIDE DEF row, answered, o, me
  <1>5. Offers' = Offers \ {o} /\ o \in Offers
    <2>1. Offers' = {OfferOf(j) : j \in Open \ {me.subject}}
      BY <1>1, <1>2, <1>3, OffersChange
    <2> QED
      BY <1>2, <1>4, <2>1, OfferIds DEF Offers, Open
  <1>6. People' = People \cup {Person(row)}
    BY <1>1 DEF People, Person
  <1>7. \A q \in Rules!In(me.space) : q.since < Person(row).since
    <2>1. \A m \in MembersOf(me.space) : Person(m).since < Person(row).since
      BY <1>3, PersonFields DEF MembersOf, IInv, RowsInv
    <2> QED
      BY <2>1, InSpace
  <1>8. ~Rules!Belongs(me.user, me.space)
    BY <1>2 DEF Rules!Belongs, RowOf
  <1>9. Cardinality(Rules!In(me.space)) < MaxMembers
    BY <1>2, InSpace DEF HasRoom
  <1>10. Owners' = Owners
    <2>1. ASSUME NEW s \in Spaces PROVE OwnerOf(s)' = OwnerOf(s)
      <3>1. CASE s = me.space
        <4>1. PICK old \in MembersOf(s) : old.role = "owner" /\ OwnerOf(s) = old.user
                                         /\ \A m \in MembersOf(s) : m.role = "owner" => m = old
          BY <1>2, <3>1, OwnerKnown
        <4>2. MembersOf(s)' = MembersOf(s) \cup {row}
          BY <1>1, <1>3, <3>1 DEF MembersOf
        <4>3. \A m \in MembersOf(s)' : m.role = "owner" <=> m = old
          BY <1>3, <4>1, <4>2
        <4>4. (CHOOSE m \in MembersOf(s)' : m.role = "owner") = old /\ old \in MembersOf(s)'
          BY <4>1, <4>2, <4>3
        <4> QED
          BY <4>1, <4>4 DEF OwnerOf
      <3>2. CASE s # me.space
        <4>1. MembersOf(s)' = MembersOf(s)
          BY <1>1, <1>3, <3>2 DEF MembersOf
        <4> QED
          BY <4>1, SameOwner
      <3> QED
        BY <3>1, <3>2
    <2> QED
      BY <2>1 DEF Owners
  <1>11. Owners[o.space] # None
    BY <1>2, <1>3, OwnedSpace
  <1>12. PICK p : p = Person(row)
    OBVIOUS
  <1>13. p.space = o.space /\ p.user = o.to /\ p.space = me.space
    BY <1>3, <1>12, PersonFields
  <1> QED
    BY <1>3, <1>5, <1>6, <1>7, <1>8, <1>9, <1>10, <1>11, <1>12, <1>13, TakeStep

\* A person's row goes, and the owner's stays.
LEMMA DepartRules ==
    ASSUME IInv, NEW c \in Clients, tx[c].pc = "commit", tx[c].op \in Departures,
           NEW m \in MembersOf(tx[c].space), m.role # "owner", members' = Without({m}), UNCHANGED invite
    PROVE  Rules!Next
  <1> DEFINE s == tx[c].space
  <1>1. s \in Spaces /\ space[s] = "exists"
    BY Departing
  <1>2. m \in MembersOf(s)
    OBVIOUS
  <1> HIDE DEF s
  <1>3. members' = members \ {m} /\ m \in members /\ m.space = s
    BY <1>2, WithoutRows DEF MembersOf
  <1>4. PICK o \in MembersOf(s) : /\ o.role = "owner" /\ OwnerOf(s) = o.user
                                  /\ \A r \in MembersOf(s) : r.role = "owner" => r = o
    BY <1>1, OwnerKnown
  <1>5. \A r, n \in MembersOf(s) : r.user = n.user => r = n
    BY <1>1 DEF IInv, SpacesOwned
  <1>6. m # o /\ m.user # o.user
    BY <1>2, <1>4, <1>5
  <1>7. People' = People \ {Person(m)} /\ Person(m) \in People
    <2>1. \A r, n \in members : Person(r) = Person(n) => r = n
      BY PersonFields DEF IInv, RowsInv
    <2> QED
      BY <1>3, <2>1 DEF People, Person
  <1>8. Rules!In(s) \ {Person(m)} # {}
    <2>1. Person(o) \in Rules!In(s) /\ Person(o) # Person(m)
      BY <1>4, <1>6, PersonFields, InSpace
    <2> QED
      BY <2>1
  <1>9. \A t \in Spaces : OwnerOf(t)' = OwnerOf(t)
    <2> SUFFICES ASSUME NEW t \in Spaces PROVE OwnerOf(t)' = OwnerOf(t)
      OBVIOUS
    <2>1. CASE t = s
      <3>1. MembersOf(t)' = MembersOf(t) \ {m}
        BY <1>3, <2>1 DEF MembersOf
      <3>2. \A r \in MembersOf(t)' : r.role = "owner" => r = o
        BY <1>4, <2>1, <3>1
      <3>3. o \in MembersOf(t)'
        BY <1>4, <1>6, <2>1, <3>1
      <3>4. (CHOOSE r \in MembersOf(t)' : r.role = "owner") = o
        BY <1>4, <3>2, <3>3
      <3> QED
        BY <1>4, <2>1, <3>3, <3>4 DEF OwnerOf
    <2>2. CASE t # s
      BY <1>3, <2>2, SameOwner DEF MembersOf
    <2> QED
      BY <2>1, <2>2
  <1>10. Owners' = Owners
    BY <1>9 DEF Owners
  <1>11. PICK p : p = Person(m)
    OBVIOUS
  <1>12. p.space = s /\ p.user = m.user /\ p \in People /\ People' = People \ {p}
         /\ Rules!In(p.space) \ {p} # {}
    BY <1>3, <1>7, <1>8, <1>11, PersonFields
  <1>13. Owners[s] = o.user
    BY <1>1, <1>4 DEF Owners
  <1>14. Owners' = [Owners EXCEPT ![p.space] =
                      IF p.user = Owners[p.space] THEN Rules!Earliest(Rules!In(p.space) \ {p}).user
                      ELSE Owners[p.space]]
    <2>1. p.user # Owners[p.space]
      BY <1>6, <1>12, <1>13
    <2>2. [Owners EXCEPT ![p.space] = Owners[p.space]] = Owners
      BY DEF Owners
    <2> QED
      BY <1>10, <2>1, <2>2
  <1>15. UNCHANGED Offers
    BY SameOffers
  <1> QED
    BY <1>12, <1>14, <1>15, DepartStep

LEMMA LeaveAsMemberRules ==
    ASSUME IInv, NEW c \in Clients, LeaveAsMember(c)
    PROVE  Rules!Next
  <1>1. /\ tx[c].pc = "commit" /\ tx[c].op \in Departures /\ ~ActorOwns(tx[c])
        /\ members' = Without(Actors(tx[c])) /\ UNCHANGED invite
    BY DEF LeaveAsMember, Committing, Departures
  <1>2. /\ tx[c].space \in Spaces /\ space[tx[c].space] = "exists" /\ Actors(tx[c]) # {}
        /\ Actors(tx[c]) = {m \in MembersOf(tx[c].space) : m.user = tx[c].user}
    BY <1>1, Departing
  <1>3. PICK m \in Actors(tx[c]) : m \in MembersOf(tx[c].space)
    BY <1>2
  <1>4. Actors(tx[c]) = {m}
    BY <1>2, <1>3 DEF IInv, SpacesOwned
  <1>5. m.role # "owner"
    BY <1>1 DEF ActorOwns
  <1> QED
    BY <1>1, <1>3, <1>4, <1>5, DepartRules

LEMMA RemoveMemberRules ==
    ASSUME IInv, NEW c \in Clients, RemoveMember(c)
    PROVE  Rules!Next \/ UNCHANGED Rules!vars
  <1>1. /\ tx[c].pc = "commit" /\ tx[c].op \in Departures /\ ActorOwns(tx[c])
        /\ members' = Without(Targets(tx[c])) /\ UNCHANGED invite
        /\ tx[c].subject # tx[c].user
    BY Working DEF RemoveMember, Committing, Departures
  <1>2. /\ tx[c].space \in Spaces /\ space[tx[c].space] = "exists"
        /\ Actors(tx[c]) = {m \in MembersOf(tx[c].space) : m.user = tx[c].user}
        /\ Targets(tx[c]) = {m \in MembersOf(tx[c].space) : m.user = tx[c].subject}
    BY <1>1, Departing
  <1>3. CASE Targets(tx[c]) = {}
    <2>1. members' = members
      BY <1>1, <1>3 DEF Without
    <2> QED
      BY <1>1, <2>1, QuietStep
  <1>4. CASE Targets(tx[c]) # {}
    <2>1. PICK m \in Targets(tx[c]) : m \in MembersOf(tx[c].space)
      BY <1>2, <1>4
    <2>2. Targets(tx[c]) = {m}
      BY <1>2, <2>1 DEF IInv, SpacesOwned
    <2>3. m.role # "owner"
      BY <1>1, <1>2, <2>1 DEF ActorOwns, IInv, SpacesOwned
    <2> QED
      BY <1>1, <2>1, <2>2, <2>3, DepartRules
  <1> QED
    BY <1>3, <1>4

LEMMA HandOverRules ==
    ASSUME IInv, NEW c \in Clients, HandOver(c)
    PROVE  Rules!Next
  <1> DEFINE me == tx[c]
             next == Successor(Others(me))
             heir == Promoted(next)
  <1>1. /\ tx[c].pc = "commit" /\ tx[c].op \in Departures
        /\ ActorOwns(me) /\ Others(me) # {} /\ UNCHANGED invite
        /\ members' = {m \in Without(Actors(me)) : m.id # next.id}
                        \cup {Promoted(m) : m \in {r \in members : r.id = next.id}}
    BY DEF HandOver, Committing, Departures
  <1>21. PICK s \in Spaces : s = me.space
    BY <1>1, Departing
  <1>2. /\ s \in Spaces /\ space[s] = "exists"
        /\ Actors(me) = {m \in MembersOf(s) : m.user = me.user}
        /\ Others(me) = {m \in MembersOf(s) : m.user # me.user}
    BY <1>1, <1>21, Departing
  <1>3. next \in Others(me) /\ \A r \in Others(me) : next.id <= r.id
    <2>1. Others(me) \subseteq MemberRow
      BY <1>2, RowIds DEF MembersOf
    <2> QED
      BY <1>1, <2>1, SuccessorIsFirst
  <1>4. PICK a \in Actors(me) : a.role = "owner"
    BY <1>1 DEF ActorOwns
  <1>5. /\ a \in MembersOf(s) /\ a.user = me.user /\ Actors(me) = {a} /\ a \in members
        /\ next \in MembersOf(s) /\ next.user # me.user /\ next \in members /\ next # a
    BY <1>2, <1>3, <1>4 DEF IInv, SpacesOwned, MembersOf
  <1>6. heir.id = next.id /\ heir.space = s /\ heir.user = next.user /\ heir.role = "owner"
    BY <1>5 DEF Promoted, Member, MembersOf
  <1>7. members' = (members \ {a, next}) \cup {heir}
    <2>1. Without(Actors(me)) = members \ {a}
      BY <1>5, WithoutRows
    <2>2. {r \in members : r.id = next.id} = {next}
      BY <1>5 DEF IInv, RowsInv
    <2>3. {m \in Without(Actors(me)) : m.id # next.id} = members \ {a, next}
      BY <1>5, <2>1 DEF IInv, RowsInv
    <2> QED
      BY <1>1, <2>2, <2>3
  <1> HIDE DEF next, heir, me
  <1>8. Person(heir) = Person(next) /\ Person(next).user = next.user
    BY <1>5, <1>6 DEF Person, MembersOf
  <1>9. \A r, n \in members : Person(r) = Person(n) => r = n
    BY PersonFields DEF IInv, RowsInv
  <1>10. People' = People \ {Person(a)} /\ Person(a) \in People
    <2>1. People' = {Person(m) : m \in (members \ {a, next}) \cup {heir}}
      BY <1>7 DEF People, Person
    <2>2. {Person(m) : m \in (members \ {a, next}) \cup {heir}} = {Person(m) : m \in members \ {a}}
      BY <1>5, <1>8
    <2>3. {Person(m) : m \in members \ {a}} = {Person(m) : m \in members} \ {Person(a)}
      BY <1>5, <1>9
    <2> QED
      BY <1>5, <2>1, <2>2, <2>3 DEF People
  <1>11. Rules!In(s) \ {Person(a)} = {Person(m) : m \in Others(me)}
    <2>1. Others(me) = MembersOf(s) \ {a}
      BY <1>2, <1>5
    <2>2. {Person(m) : m \in MembersOf(s) \ {a}} = {Person(m) : m \in MembersOf(s)} \ {Person(a)}
      BY <1>5, <1>9 DEF MembersOf
    <2> QED
      BY <2>1, <2>2, InSpace
  <1>12. Rules!Earliest(Rules!In(s) \ {Person(a)}) = Person(next)
    <2> DEFINE who == {Person(m) : m \in Others(me)}
    <2>1. Person(next) \in who
      BY <1>3
    <2>2. \A q \in who : Person(next).since <= q.since
      BY <1>3, PersonFields
    <2>3. ASSUME NEW q \in who, \A r \in who : q.since <= r.since
          PROVE  q = Person(next)
      <3>1. PICK m \in Others(me) : q = Person(m)
        OBVIOUS
      <3>2. m.id <= next.id /\ next.id <= m.id
        BY <1>3, <2>1, <2>3, <3>1, PersonFields
      <3>3. m.id = next.id /\ m \in members
        BY <1>2, <1>5, <3>1, <3>2, RowIds DEF MembersOf
      <3> QED
        BY <1>5, <3>1, <3>3 DEF IInv, RowsInv
    <2> HIDE DEF who
    <2>4. (CHOOSE p \in who : \A q \in who : p.since <= q.since) = Person(next)
      BY <2>1, <2>2, <2>3
    <2> QED
      BY <1>11, <2>4 DEF Rules!Earliest, who
  <1>13. OwnerOf(s) = a.user /\ Owners[s] = a.user
    BY <1>2, <1>4, <1>5, OwnerRow DEF Owners
  <1>14. OwnerOf(s)' = next.user
    <2>1. MembersOf(s)' = (MembersOf(s) \ {a, next}) \cup {heir}
      BY <1>6, <1>7 DEF MembersOf
    <2>2. \A m \in MembersOf(s) : m.role = "owner" => m = a
      BY <1>2, <1>4, <1>5 DEF IInv, SpacesOwned
    <2>3. (CHOOSE m \in MembersOf(s)' : m.role = "owner") = heir /\ heir \in MembersOf(s)'
      BY <1>6, <2>1, <2>2
    <2> QED
      BY <1>6, <2>3 DEF OwnerOf
  <1>15. \A t \in Spaces : t # s => OwnerOf(t)' = OwnerOf(t)
    <2> SUFFICES ASSUME NEW t \in Spaces, t # s PROVE OwnerOf(t)' = OwnerOf(t)
      OBVIOUS
    <2>1. MembersOf(t)' = MembersOf(t)
      BY <1>5, <1>6, <1>7 DEF MembersOf
    <2> QED
      BY <2>1, SameOwner
  <1>16. Owners' = [Owners EXCEPT ![s] = next.user]
    BY <1>2, <1>14, <1>15 DEF Owners
  <1>17. PICK p : p = Person(a)
    OBVIOUS
  <1>18. /\ p.space = s /\ p.user = a.user /\ p \in People /\ People' = People \ {p}
         /\ Rules!In(p.space) \ {p} # {}
    <2>1. p.space = s /\ p.user = a.user
      BY <1>5, <1>17, PersonFields DEF MembersOf
    <2>2. p \in People /\ People' = People \ {p}
      BY <1>10, <1>17
    <2>3. Rules!In(s) \ {p} # {}
      BY <1>3, <1>11, <1>17
    <2> QED
      BY <2>1, <2>2, <2>3
  <1>19. Owners' = [Owners EXCEPT ![p.space] =
                      IF p.user = Owners[p.space] THEN Rules!Earliest(Rules!In(p.space) \ {p}).user
                      ELSE Owners[p.space]]
    <2>1. p.user = Owners[p.space]
      BY <1>13, <1>18
    <2>2. Rules!Earliest(Rules!In(p.space) \ {p}).user = next.user
      BY <1>8, <1>12, <1>17, <1>18
    <2> QED
      BY <1>16, <1>18, <2>1, <2>2
  <1>20. UNCHANGED Offers
    BY <1>1, SameOffers
  <1> QED
    BY <1>18, <1>19, <1>20, DepartStep

LEMMA RemoveOwnedRules ==
    ASSUME IInv, NEW c \in Clients, RemoveOwned(c)
    PROVE  Rules!Next
  <1> DEFINE me == tx[c]
  <1>1. /\ tx[c].pc = "commit" /\ me.op \in Departures /\ ActorOwns(me) /\ KeepsAnother(me)
        /\ members' = members \ MembersOf(me.space)
        /\ invite' = [i \in Invites |-> IF invite[i].space = me.space
                                        THEN Invite(me.space, invite[i].to, "gone") ELSE invite[i]]
    BY DEF RemoveOwned, RemovesSpace, Departures
  <1>2. PICK s \in Spaces : s = me.space
    BY <1>1, Departing
  <1>3. /\ space[s] = "exists" /\ me.got \subseteq members
        /\ Actors(me) = {m \in MembersOf(s) : m.user = me.user}
    BY <1>1, <1>2, Departing
  <1> HIDE DEF me
  <1>4. PICK a \in Actors(me) : a.role = "owner"
    BY <1>1 DEF ActorOwns
  <1>5. a \in MembersOf(s) /\ a.user = me.user /\ a \in me.got /\ Owners[s] = me.user
    BY <1>3, <1>4, OwnerRow DEF Owners, Actors
  <1>6. PICK m \in me.got : m.user = me.user /\ m # a
    <2>1. SUFFICES ASSUME \A m \in me.got : m.user = me.user => m = a PROVE FALSE
      OBVIOUS
    <2>2. {m \in me.got : m.user = me.user} = {a}
      BY <1>5, <2>1
    <2>3. Cardinality({a}) = 1
      BY FS_Singleton
    <2>4. ActorSpaces(me) = 1
      BY <2>2, <2>3 DEF ActorSpaces
    <2> QED
      BY <1>1, <2>4 DEF KeepsAnother
  <1>7. m \in members /\ m.space # s
    BY <1>3, <1>5, <1>6 DEF IInv, SpacesOwned, MembersOf
  <1>8. \E p \in People : p.user = Owners[s] /\ p.space # s
    <2>1. Person(m) \in People /\ Person(m).user = me.user /\ Person(m).space = m.space
      BY <1>6, <1>7, PersonFields DEF People
    <2> QED
      BY <1>5, <1>7, <2>1
  <1>9. Owners[s] # None
    BY <1>3, OwnedSpace
  <1>10. People' = People \ Rules!In(s)
    <2>1. \A r, n \in members : Person(r) = Person(n) => r = n
      BY PersonFields DEF IInv, RowsInv
    <2>2. Rules!In(s) = {Person(r) : r \in MembersOf(s)}
      BY InSpace
    <2>3. People' = {Person(r) : r \in members \ MembersOf(s)}
      BY <1>1, <1>2 DEF People, Person
    <2>4. {Person(r) : r \in members \ MembersOf(s)}
             = {Person(r) : r \in members} \ {Person(r) : r \in MembersOf(s)}
      BY <2>1 DEF MembersOf
    <2> QED
      BY <2>2, <2>3, <2>4 DEF People
  <1>11. Owners' = [Owners EXCEPT ![s] = None]
    <2>1. OwnerOf(s)' = None
      <3>1. MembersOf(s)' = {}
        BY <1>1, <1>2 DEF MembersOf
      <3> QED
        BY <3>1 DEF OwnerOf
    <2>2. ASSUME NEW t \in Spaces, t # s PROVE OwnerOf(t)' = OwnerOf(t)
      <3>1. MembersOf(t)' = MembersOf(t)
        BY <1>1, <1>2, <2>2 DEF MembersOf
      <3> QED
        BY <3>1, SameOwner
    <2> QED
      BY <2>1, <2>2 DEF Owners
  <1>12. Offers' = {o \in Offers : o.space # s}
    <2>1. \A i \in Invites : invite[i].space = s => invite'[i].state = "gone"
      BY <1>1, <1>2 DEF Invite
    <2>2. \A i \in Invites : invite[i].space # s => invite'[i] = invite[i]
      BY <1>1, <1>2
    <2>3. Open' = {i \in Open : invite[i].space # s}
      BY <2>1, <2>2 DEF Open
    <2>4. \A i \in Open' : OfferOf(i)' = OfferOf(i)
      BY <2>2, <2>3 DEF OfferOf, Open
    <2>5. Offers' = {OfferOf(i) : i \in {j \in Open : invite[j].space # s}}
      BY <2>3, <2>4 DEF Offers
    <2>6. \A i \in Open : OfferOf(i).space = invite[i].space
      BY DEF OfferOf
    <2> QED
      BY <2>5, <2>6 DEF Offers
  <1> QED
    BY <1>8, <1>9, <1>10, <1>11, <1>12, DissolveStep

LEMMA CreateSpaceRules ==
    ASSUME IInv, NEW u \in Users, NEW s \in Spaces, CreateSpace(u, s)
    PROVE  Rules!Next
  <1> DEFINE row == Member(nextId, s, u, "owner")
  <1>1. space[s] = "absent" /\ members' = members \cup {row}
    BY DEF CreateSpace
  <1>2. PICK sent \in SUBSET {i \in Invites : invite[i].state = "absent"} :
           \E to \in [sent -> Users] :
              invite' = [i \in Invites |-> IF i \in sent THEN Invite(s, to[i], "active") ELSE invite[i]]
    BY DEF CreateSpace
  <1>3. PICK to \in [sent -> Users] :
           invite' = [i \in Invites |-> IF i \in sent THEN Invite(s, to[i], "active") ELSE invite[i]]
    BY <1>2
  <1>4. row.id = nextId /\ row.space = s /\ row.user = u /\ row.role = "owner"
    BY DEF Member
  <1> HIDE DEF row
  <1>5. MembersOf(s) = {} /\ Rules!In(s) = {}
    <2>1. MembersOf(s) = {}
      BY <1>1 DEF IInv, RowsInv, MembersOf
    <2> QED
      BY <2>1, InSpace
  <1>6. Owners[s] = None
    BY <1>5, NobodyOwns DEF Owners
  <1>7. PICK p : p = Person(row)
    OBVIOUS
  <1>8. p.space = s /\ p.user = u /\ People' = People \cup {p}
    <2>1. People' = People \cup {Person(row)}
      BY <1>1 DEF People, Person
    <2> QED
      BY <1>4, <1>7, <2>1, PersonFields
  <1>9. Owners' = [Owners EXCEPT ![s] = p.user]
    <2>1. OwnerOf(s)' = u
      <3>1. MembersOf(s)' = {row}
        BY <1>1, <1>4, <1>5 DEF MembersOf
      <3>2. (CHOOSE m \in MembersOf(s)' : m.role = "owner") = row /\ row \in MembersOf(s)'
        BY <1>4, <3>1
      <3> QED
        BY <1>4, <3>2 DEF OwnerOf
    <2>2. ASSUME NEW t \in Spaces, t # s PROVE OwnerOf(t)' = OwnerOf(t)
      <3>1. MembersOf(t)' = MembersOf(t)
        BY <1>1, <1>4, <2>2 DEF MembersOf
      <3> QED
        BY <3>1, SameOwner
    <2> QED
      BY <1>8, <2>1, <2>2 DEF Owners
  <1>10. Offers \subseteq Offers' /\ \A o \in Offers' \ Offers : o.space = s
    <2>1. \A i \in Invites : i \notin sent => invite'[i] = invite[i]
      BY <1>3
    <2>2. \A i \in sent : i \in Invites /\ invite[i].state = "absent" /\ invite'[i].space = s
      BY <1>3 DEF Invite
    <2>3. \A i \in Open : i \in Open' /\ OfferOf(i)' = OfferOf(i)
      BY <2>1, <2>2 DEF Open, OfferOf
    <2>4. Offers \subseteq Offers'
      BY <2>3 DEF Offers
    <2>5. ASSUME NEW o \in Offers', o \notin Offers PROVE o.space = s
      <3>1. PICK i \in Open' : o = OfferOf(i)'
        BY DEF Offers
      <3>2. i \in sent
        <4>1. SUFFICES ASSUME i \notin sent PROVE FALSE
          OBVIOUS
        <4>2. i \in Open /\ OfferOf(i)' = OfferOf(i)
          BY <2>1, <3>1, <4>1 DEF Open, OfferOf
        <4> QED
          BY <2>5, <3>1, <4>2 DEF Offers
      <3> QED
        BY <2>2, <3>1, <3>2 DEF OfferOf
    <2> QED
      BY <2>4, <2>5
  <1> QED
    BY <1>5, <1>6, <1>8, <1>9, <1>10, FoundStep

-----------------------------------------------------------------------------
(* The refinement.                                                         *)

LEMMA InitRules == Init => Rules!Init
  <1> SUFFICES ASSUME Init PROVE Rules!Init
    OBVIOUS
  <1>1. members = {} /\ \A i \in Invites : invite[i].state = "absent"
    BY DEF Init, Invite
  <1>2. \A s \in Spaces : OwnerOf(s) = None
    BY <1>1 DEF OwnerOf, MembersOf
  <1> QED
    BY <1>1, <1>2 DEF Rules!Init

LEMMA NextRules == ASSUME IInv, [Next]_vars PROVE [Rules!Next]_(Rules!vars)
  <1>1. CASE UNCHANGED <<members, invite>>
    BY <1>1, QuietStep
  <1>2. ASSUME NEW c \in Clients, BeginSome(c) \/ Locking(c) \/ ReadIds(c) \/ Recheck(c) \/ Check(c)
                                  \/ RefuseCommit(c) \/ CommitOther(c) \/ Abort(c)
        PROVE  UNCHANGED <<members, invite>>
    BY <1>2 DEF BeginSome, BeginLeave, BeginRemove, BeginDelete, BeginCreateInvite, BeginResend,
       BeginRevoke, BeginWrite, BeginJoin, Begin, Locking, LockRow, LockMember, LockSpace, LockInvite,
       ReadIds, Recheck, Check, RefuseCommit, CommitOther, Abort
  <1>3. ASSUME NEW c \in Clients, LeaveAsMember(c) \/ RemoveMember(c) \/ HandOver(c) \/ RemoveOwned(c)
                                  \/ CommitInvite(c) \/ CommitRevoke(c) \/ CommitJoin(c)
        PROVE  [Rules!Next]_(Rules!vars)
    BY <1>3, LeaveAsMemberRules, RemoveMemberRules, HandOverRules, RemoveOwnedRules,
       CommitInviteRules, CommitRevokeRules, CommitJoinRules
  <1>4. CASE \E c \in Clients : BeginSome(c) \/ Progress(c) \/ Abort(c)
    BY <1>1, <1>2, <1>3, <1>4 DEF Progress, Commit
  <1>5. CASE UNCHANGED vars
    BY <1>1, <1>5 DEF vars
  <1> QED
    BY <1>4, <1>5, CreateSpaceRules, ExpireRules DEF Next

\* Side by side, under row locks and READ COMMITTED, the requests do what they
\* would do one at a time: one owner at any time, replaced by the earliest
\* remaining person; an invitation admits one person once; a space is dissolved
\* only by an owner who belongs to another one (transactions-contract.md:789-799).
THEOREM ImplementsRules == Spec => KeepsRules
  <1>1. Spec => Rules!Spec
    BY InitRules, NextRules, Invariance, PTL DEF Spec, Rules!Spec
  <1> QED
    BY <1>1 DEF KeepsRules

===============================================================================
