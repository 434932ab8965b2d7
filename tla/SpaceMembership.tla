--------------------------- MODULE SpaceMembership ---------------------------
(***************************************************************************)
(* Who belongs to a space and who owns it                                  *)
(* (src/src/modules/space-access, spaces, space-members, space-invites).   *)
(*                                                                         *)
(* Every request is one READ COMMITTED transaction of                      *)
(* runWriteTransaction(): it takes row locks one statement at a time, waits*)
(* for conflicting ones, reads what is committed, and commits its writes in*)
(* one step that also frees its locks.  Requests run side by side, one per *)
(* client; a client's next request is a different user's or the same one's.*)
(***************************************************************************)
EXTENDS Naturals, FiniteSets

CONSTANTS
    Users, Spaces, Invites,
    None,               \* no user, space or invitation
    Clients,            \* bound: requests in flight at once
    PersonalSpaces,     \* spaces created as personal
    MaxMembers,         \* SPACE_LIMITS.MAX_MEMBERS_PER_SPACE
    MaxPending,         \* SPACE_LIMITS.MAX_PENDING_INVITES_PER_SPACE
    MaxRuns,            \* write-transaction.ts MAX_ATTEMPTS
    Requests            \* bound: the kinds of request the clients make

Operations == {"leave", "remove", "delete", "invite", "resend", "revoke",
               "write", "sharedWrite", "join"}

ASSUME NoneAssumption == None \notin Users \cup Spaces \cup Invites
ASSUME SpaceAssumption == PersonalSpaces \subseteq Spaces
ASSUME InviteAssumption == IsFiniteSet(Invites) \* the ids of a table
ASSUME LimitAssumption == /\ MaxMembers \in Nat \ {0}
                          /\ MaxPending \in Nat
                          /\ MaxRuns \in Nat \ {0}
ASSUME RequestAssumption == Requests \subseteq Operations

VARIABLES
    space,      \* space[s]: whether the row exists
    members,    \* the rows of space_members
    invite,     \* invite[i]: a row of space_invites
    nextId,     \* AUTO_INCREMENT of space_members
    tx          \* tx[c]: the transaction of a client

vars == <<space, members, invite, nextId, tx>>

-----------------------------------------------------------------------------
(* Rows.  Ids of a space's members follow created_at: they are assigned    *)
(* under the lock of the space.  "gone" rows were deleted.                 *)

Roles == {"owner", "member"}
MemberRow == [id : Nat \ {0}, space : Spaces, user : Users, role : Roles]
BugNoRole(id, s, u, role) == \* the role of an invitation is not set
    [id |-> id, space |-> s, user |-> u, role |-> IF role = "member" THEN "none" ELSE role]
Member(id, s, u, role) == [id |-> id, space |-> s, user |-> u, role |-> role]

InviteRow == [space : Spaces \cup {None}, to : Users \cup {None},
              state : {"absent", "active", "expired", "accepted", "revoked", "gone"}]
Invite(s, u, state) == [space |-> s, to |-> u, state |-> state]

MembersOf(s) == {m \in members : m.space = s}
RowOf(s, u) == {m \in members : m.space = s /\ m.user = u}
Present(i) == invite[i].state \notin {"absent", "gone"}
ActiveInvites(s) == {i \in Invites : invite[i].space = s /\ invite[i].state = "active"}

-----------------------------------------------------------------------------
(* Transactions.                                                           *)

Places == {"idle", "readIds", "lockRows", "lockMember", "lockSpace",
           "lockInvite", "recheck", "check", "commit"}

Locks == [on : ({"member"} \X Nat) \cup ({"space"} \X Spaces) \cup ({"invite"} \X Invites),
          mode : {"S", "X"}]

Transaction ==
    [op      : Operations \cup {"none"},
     user    : Users \cup {None},
     space   : Spaces \cup {None},
     subject : Users \cup Invites \cup {None},   \* target, address or invitation
     pc      : Places,
     todo    : SUBSET Nat,           \* member rows still to lock
     got     : SUBSET MemberRow,     \* member rows as read when locked
     held    : SUBSET Locks,
     runs    : Nat]                  \* runs ended by LockSetChanged

Idle == [op |-> "none", user |-> None, space |-> None, subject |-> None, pc |-> "idle",
         todo |-> {}, got |-> {}, held |-> {}, runs |-> 0]
Begun(op, u, s, x, pc, runs) ==
    [op |-> op, user |-> u, space |-> s, subject |-> x, pc |-> pc,
     todo |-> {}, got |-> {}, held |-> {}, runs |-> runs]
MovedTo(me, pc, held) ==
    [op |-> me.op, user |-> me.user, space |-> me.space, subject |-> me.subject, pc |-> pc,
     todo |-> me.todo, got |-> me.got, held |-> held, runs |-> me.runs]
WithRows(me, pc, todo, got, held) ==
    [op |-> me.op, user |-> me.user, space |-> me.space, subject |-> me.subject, pc |-> pc,
     todo |-> todo, got |-> got, held |-> held, runs |-> me.runs]

Lock(kind, row, mode) == [on |-> <<kind, row>>, mode |-> mode]

\* A shared lock conflicts with exclusive ones, an exclusive one with all.
Free(c, lock) ==
    \A d \in Clients \ {c} : \A h \in tx[d].held :
        h.on = lock.on => h.mode = "S" /\ lock.mode = "S"

Ends(c) == tx' = [tx EXCEPT ![c] = Idle]
Takes(c, lock, pc) ==
    Free(c, lock) /\ tx' = [tx EXCEPT ![c] = MovedTo(tx[c], pc, tx[c].held \cup {lock})]

-----------------------------------------------------------------------------
(* Requests begin.  Checks made before the transaction are guards: a       *)
(* request they refuse changes nothing.                                    *)

Begin(c, op, u, s, x, pc) ==
    /\ tx[c].pc = "idle" /\ op \in Requests
    /\ tx' = [tx EXCEPT ![c] = Begun(op, u, s, x, pc, 0)]
    /\ UNCHANGED <<space, members, invite, nextId>>

\* leaveOrRemove() and remove() assert the membership they find before they lock.
BeginLeave(c, u, s)     == RowOf(s, u) # {} /\ Begin(c, "leave", u, s, None, "readIds")
BeginRemove(c, u, s, v) == RowOf(s, u) # {} /\ v # u /\ Begin(c, "remove", u, s, v, "readIds")
BeginDelete(c, u, s) ==
    /\ \E m \in RowOf(s, u) : m.role = "owner"
    /\ Begin(c, "delete", u, s, None, "readIds")

BeginCreateInvite(c, u, s, v) == Begin(c, "invite", u, s, v, "lockMember")
BeginResend(c, u, s, i)       == Begin(c, "resend", u, s, i, "lockMember")
BeginRevoke(c, u, s, i)       == Begin(c, "revoke", u, s, i, "lockMember")

\* Category and limit writes lock the space exclusively; wallet and
\* transaction writes share it.
BeginWrite(c, u, s) ==
    \E op \in {"write", "sharedWrite"} : Begin(c, op, u, s, None, "lockMember")

\* Anyone may send a link or code; only the address's own account gets past
\* assertRecipient().
BeginJoin(c, i) ==
    /\ Present(i)
    /\ Begin(c, "join", invite[i].to, invite[i].space, i, "lockSpace")

-----------------------------------------------------------------------------
(* lockMembers(): read the ids, lock the rows in ascending order, lock the *)
(* space, read the ids again.                                              *)

RowsToLock(s, u) == {m.id : m \in {r \in members : r.space = s \/ r.user = u}}

AfterRows(todo) == IF todo = {} THEN "lockSpace" ELSE "lockRows"

ReadIds(c) ==
    /\ tx[c].pc = "readIds"
    /\ LET ids == RowsToLock(tx[c].space, tx[c].user) IN
          tx' = [tx EXCEPT ![c] = WithRows(tx[c], AfterRows(ids), ids, {}, {})]
    /\ UNCHANGED <<space, members, invite, nextId>>

BugOwnRowFirst(c, id) == \* the actor's own rows, then the others
    id \in tx[c].todo /\
    LET own == {m.id : m \in {r \in members : r.user = tx[c].user}} \cap tx[c].todo IN
       IF own # {} THEN id \in own ELSE TRUE
NextToLock(c, id) == id \in tx[c].todo /\ \A other \in tx[c].todo : id <= other

\* A row deleted meanwhile is neither locked nor returned.
LockRow(c) ==
    /\ tx[c].pc = "lockRows"
    /\ \E id \in tx[c].todo :
          LET rows == {m \in members : m.id = id}
              left == tx[c].todo \ {id}
              lock == Lock("member", id, "X") IN
             /\ NextToLock(c, id)
             /\ rows # {} => Free(c, lock)
             /\ tx' = [tx EXCEPT ![c] =
                         WithRows(tx[c], AfterRows(left), left, tx[c].got \cup rows,
                                  tx[c].held \cup {l \in {lock} : rows # {}})]
    /\ UNCHANGED <<space, members, invite, nextId>>

\* lockMembership(): the row is shared, its owner role checked by lockOwner().
NeedsOwner == {"invite", "resend", "revoke"}

LockMember(c) ==
    /\ tx[c].pc = "lockMember"
    /\ LET me == tx[c]
           rows == RowOf(me.space, me.user) IN
          IF rows = {} THEN Ends(c)
          ELSE \E m \in rows :
                 LET lock == Lock("member", m.id, "S") IN
                    IF me.op \in NeedsOwner /\ m.role # "owner"
                    THEN Free(c, lock) /\ Ends(c)
                    ELSE Takes(c, lock, IF me.op = "revoke" THEN "lockInvite" ELSE "lockSpace")
    /\ UNCHANGED <<space, members, invite, nextId>>

BugSharedInvite(op) == \* two invitations are checked side by side
    IF op \in {"sharedWrite", "invite"} THEN "S" ELSE "X"
SpaceMode(op) == IF op = "sharedWrite" THEN "S" ELSE "X"

AfterSpace(op) ==
    CASE op \in {"leave", "remove", "delete"} -> "recheck"
      [] op \in {"join", "resend"} -> "lockInvite"
      [] op = "invite" -> "check"
      [] OTHER -> "commit"

\* lockSpace(): a space deleted meanwhile is not locked; later reads find out.
LockSpace(c) ==
    /\ tx[c].pc = "lockSpace"
    /\ LET me == tx[c]
           lock == Lock("space", me.space, SpaceMode(me.op)) IN
          IF space[me.space] = "exists"
          THEN Takes(c, lock, AfterSpace(me.op))
          ELSE tx' = [tx EXCEPT ![c] = MovedTo(me, AfterSpace(me.op), me.held)]
    /\ UNCHANGED <<space, members, invite, nextId>>

LockInvite(c) ==
    /\ tx[c].pc = "lockInvite"
    /\ IF Present(tx[c].subject)
       THEN Takes(c, Lock("invite", tx[c].subject, "X"), "check")
       ELSE Ends(c)
    /\ UNCHANGED <<space, members, invite, nextId>>

BugNoRecheck(me) == TRUE
SetUnchanged(me) == {m.id : m \in me.got} = RowsToLock(me.space, me.user)

Actors(me) == {m \in me.got : m.space = me.space /\ m.user = me.user}

\* LockSetChanged rolls back and runs the unit again, MaxRuns times in all.
Recheck(c) ==
    /\ tx[c].pc = "recheck"
    /\ LET me == tx[c] IN
          tx' = [tx EXCEPT ![c] =
                   IF ~SetUnchanged(me)
                   THEN IF me.runs + 1 < MaxRuns
                        THEN Begun(me.op, me.user, me.space, me.subject, "readIds", me.runs + 1)
                        ELSE Idle
                   ELSE IF Actors(me) = {} THEN Idle
                   ELSE MovedTo(me, "commit", me.held)]
    /\ UNCHANGED <<space, members, invite, nextId>>

-----------------------------------------------------------------------------
(* Checks under the locks that invitation requests hold.                   *)

HasRoom(s) == Cardinality(MembersOf(s)) < MaxMembers

NotInvited(s, v) == \A i \in ActiveInvites(s) : invite[i].to # v

Accepted(me) ==
    CASE me.op = "join" ->
           /\ RowOf(me.space, me.user) = {}
           /\ invite[me.subject].state = "active"
           /\ HasRoom(me.space)
      [] me.op = "invite" ->
           /\ space[me.space] = "exists" /\ me.space \notin PersonalSpaces
           /\ NotInvited(me.space, me.subject)
           /\ Cardinality(ActiveInvites(me.space)) < MaxPending
      [] me.op = "resend" ->
           invite[me.subject].space = me.space /\ invite[me.subject].state = "active"
      [] me.op = "revoke" ->
           /\ invite[me.subject].space = me.space
           /\ invite[me.subject].state \in {"active", "expired"}
      [] OTHER -> TRUE

Check(c) ==
    /\ tx[c].pc = "check"
    /\ IF Accepted(tx[c])
       THEN tx' = [tx EXCEPT ![c] = MovedTo(tx[c], "commit", tx[c].held)]
       ELSE Ends(c)
    /\ UNCHANGED <<space, members, invite, nextId>>

-----------------------------------------------------------------------------
(* Commits.                                                                *)

Committing(c, op) == tx[c].pc = "commit" /\ tx[c].op = op /\ Ends(c)

ActorOwns(me) == \E m \in Actors(me) : m.role = "owner"
Others(me) == {m \in me.got : m.space = me.space /\ m.user # me.user}
Targets(me) == {m \in me.got : m.space = me.space /\ m.user = me.subject}
ActorSpaces(me) == Cardinality({m \in me.got : m.user = me.user})
Without(rows) == {m \in members : m.id \notin {r.id : r \in rows}}

BugLatest(rows) == CHOOSE m \in rows : \A r \in rows : r.id <= m.id
\* Earliest created_at, then lowest id.
Successor(rows) == CHOOSE m \in rows : \A r \in rows : m.id <= r.id

BugNotPromoted(m) == m
Promoted(m) == Member(m.id, m.space, m.user, "owner")

LeaveAsMember(c) ==
    /\ Committing(c, "leave") /\ ~ActorOwns(tx[c])
    /\ members' = Without(Actors(tx[c]))
    /\ UNCHANGED <<space, invite, nextId>>

RemoveMember(c) ==
    /\ Committing(c, "remove") /\ ActorOwns(tx[c])
    /\ members' = Without(Targets(tx[c]))
    /\ UNCHANGED <<space, invite, nextId>>

HandOver(c) ==
    /\ Committing(c, "leave") /\ ActorOwns(tx[c]) /\ Others(tx[c]) # {}
    /\ LET next == Successor(Others(tx[c])) IN
          members' = {m \in Without(Actors(tx[c])) : m.id # next.id}
                        \cup {Promoted(m) : m \in {r \in members : r.id = next.id}}
    /\ UNCHANGED <<space, invite, nextId>>

BugOffByOne(me) == ActorSpaces(me) >= 1
KeepsAnother(me) == ActorSpaces(me) > 1

\* Leaving as the last member deletes the space too.
RemovesSpace(me) ==
    ActorOwns(me) /\ (me.op = "delete" \/ (me.op = "leave" /\ Others(me) = {}))

\* removeOwned(): members, then the space, which cascades to invitations.
RemoveOwned(c) ==
    LET me == tx[c] IN
    /\ me.pc = "commit" /\ Ends(c)
    /\ RemovesSpace(me) /\ KeepsAnother(me)
    /\ members' = members \ MembersOf(me.space)
    /\ space' = [space EXCEPT ![me.space] = "gone"]
    /\ invite' = [i \in Invites |-> IF invite[i].space = me.space
                                    THEN Invite(me.space, invite[i].to, "gone") ELSE invite[i]]
    /\ UNCHANGED nextId

\* FORBIDDEN_SPACE, SPACE_LAST_REMAINING, or an email limit of the invitation
\* (the send log is not part of this model).
RefuseCommit(c) ==
    /\ tx[c].pc = "commit" /\ Ends(c)
    /\ \/ tx[c].op \in {"remove", "delete"} /\ ~ActorOwns(tx[c])
       \/ RemovesSpace(tx[c]) /\ ~KeepsAnother(tx[c])
       \/ tx[c].op = "invite"
    /\ UNCHANGED <<space, members, invite, nextId>>

CommitInvite(c) ==
    /\ Committing(c, "invite")
    /\ \E i \in Invites :
          /\ invite[i].state = "absent"
          /\ invite' = [invite EXCEPT ![i] = Invite(tx[c].space, tx[c].subject, "active")]
    /\ UNCHANGED <<space, members, nextId>>

CommitRevoke(c) ==
    /\ Committing(c, "revoke")
    /\ invite' = [invite EXCEPT ![tx[c].subject] =
                    Invite(tx[c].space, invite[tx[c].subject].to, "revoked")]
    /\ UNCHANGED <<space, members, nextId>>

CommitJoin(c) ==
    LET me == tx[c] IN
    /\ Committing(c, "join")
    /\ members' = members \cup {Member(nextId, me.space, me.user, "member")}
    /\ nextId' = nextId + 1
    /\ invite' = [invite EXCEPT ![me.subject] = Invite(me.space, me.user, "accepted")]
    /\ UNCHANGED space

\* Wallets, categories, limits, transactions, emails: not part of this model.
CommitOther(c) ==
    /\ tx[c].pc = "commit" /\ tx[c].op \in {"write", "sharedWrite", "resend"}
    /\ Ends(c)
    /\ UNCHANGED <<space, members, invite, nextId>>

-----------------------------------------------------------------------------
\* The process dies, the connection drops or MySQL chooses a deadlock victim
\* for the third time: the transaction rolls back.
Abort(c) ==
    /\ tx[c].pc # "idle" /\ Ends(c)
    /\ UNCHANGED <<space, members, invite, nextId>>

\* One transaction that writes new rows only, with invitations of distinct
\* addresses; a registration creates its first space the same way.
CreateSpace(u, s) ==
    /\ space[s] = "absent"
    /\ space' = [space EXCEPT ![s] = "exists"]
    /\ members' = members \cup {Member(nextId, s, u, "owner")}
    /\ nextId' = nextId + 1
    /\ \E sent \in SUBSET {i \in Invites : invite[i].state = "absent"} :
          /\ Cardinality(sent) <= MaxPending
          /\ s \in PersonalSpaces => sent = {}
          /\ \E to \in [sent -> Users] :
                /\ \A i, j \in sent : to[i] = to[j] => i = j
                /\ invite' = [i \in Invites |-> IF i \in sent THEN Invite(s, to[i], "active")
                                                ELSE invite[i]]
    /\ UNCHANGED tx

Expire(i) ==
    /\ invite[i].state = "active"
    /\ invite' = [invite EXCEPT ![i] = Invite(invite[i].space, invite[i].to, "expired")]
    /\ UNCHANGED <<space, members, nextId, tx>>

Init ==
    /\ space = [s \in Spaces |-> "absent"]
    /\ members = {}
    /\ invite = [i \in Invites |-> Invite(None, None, "absent")]
    /\ nextId = 1
    /\ tx = [c \in Clients |-> Idle]

BeginSome(c) ==
    \/ \E u \in Users, s \in Spaces :
          \/ BeginLeave(c, u, s) \/ BeginDelete(c, u, s) \/ BeginWrite(c, u, s)
          \/ \E v \in Users : BeginRemove(c, u, s, v) \/ BeginCreateInvite(c, u, s, v)
          \/ \E i \in Invites : BeginResend(c, u, s, i) \/ BeginRevoke(c, u, s, i)
    \/ \E i \in Invites : BeginJoin(c, i)

Locking(c) == LockRow(c) \/ LockMember(c) \/ LockSpace(c) \/ LockInvite(c)
Commit(c) ==
    \/ LeaveAsMember(c) \/ RemoveMember(c) \/ HandOver(c) \/ RemoveOwned(c)
    \/ RefuseCommit(c) \/ CommitInvite(c) \/ CommitRevoke(c) \/ CommitJoin(c)
    \/ CommitOther(c)
Progress(c) == ReadIds(c) \/ Locking(c) \/ Recheck(c) \/ Check(c) \/ Commit(c)

Next ==
    \/ \E c \in Clients : BeginSome(c) \/ Progress(c) \/ Abort(c)
    \/ \E u \in Users, s \in Spaces : CreateSpace(u, s)
    \/ \E i \in Invites : Expire(i)

Spec == Init /\ [][Next]_vars

\* A transaction runs on; InnoDB queues lock requests, so a waiting one is
\* granted eventually if the row is free again and again.
Fairness == \A c \in Clients : WF_vars(Progress(c)) /\ SF_vars(Locking(c))
FairSpec == Spec /\ Fairness

-----------------------------------------------------------------------------
(* Properties.                                                             *)

TypeOK ==
    /\ space \in [Spaces -> {"absent", "exists", "gone"}]
    /\ members \subseteq MemberRow
    /\ invite \in [Invites -> InviteRow]
    /\ nextId \in Nat \ {0}
    /\ tx \in [Clients -> Transaction]

\* A space that exists has exactly one owner and each person once; a deleted
\* one leaves no member and no invitation behind, whatever joined it meanwhile.
SpacesOwned ==
    \A s \in Spaces :
        IF space[s] = "exists"
        THEN /\ \E o \in MembersOf(s) :
                   \A m \in MembersOf(s) : m.role = "owner" <=> m = o
             /\ \A m, n \in MembersOf(s) : m.user = n.user => m = n
        ELSE /\ MembersOf(s) = {}
             /\ \A i \in Invites : invite[i].space = s => invite[i].state = "gone"

\* Requests that overlap never leave two active invitations of one address, and
\* never more than the limit (docs/invitations-contract.md:795-798).
OneInvitePerAddress ==
    \A s \in Spaces :
        /\ \A i, j \in ActiveInvites(s) : invite[i].to = invite[j].to => i = j
        /\ Cardinality(ActiveInvites(s)) <= MaxPending

\* What a transaction checked is still true when it commits: its locks keep
\* others from changing it (transactions-contract.md:775-799).  The clock alone
\* is not locked: an invitation may expire between its check and the commit.
ChecksStillHold ==
    \A c \in Clients :
        LET me == tx[c]
            row == RowOf(me.space, me.user) IN
        me.pc = "commit" =>
            CASE me.op \in {"leave", "remove", "delete"} ->
                   /\ {m \in me.got : m.space = me.space} = MembersOf(me.space)
                   /\ me.got \subseteq members \* the actor may have joined more spaces
                   /\ Actors(me) # {}
              [] me.op \in {"write", "sharedWrite"} -> row # {}
              [] me.op \in NeedsOwner ->
                   /\ \E m \in row : m.role = "owner"
                   /\ me.op \in {"resend", "revoke"} =>
                         invite[me.subject].state \in {"active", "expired"}
                   /\ me.op = "invite" => NotInvited(me.space, me.subject)
              [] me.op = "join" ->
                   /\ space[me.space] = "exists" /\ row = {} /\ HasRoom(me.space)
                   /\ invite[me.subject].state \in {"active", "expired"}

Wants(c) ==
    LET me == tx[c] IN
    CASE me.pc = "lockRows" ->
           {Lock("member", id, "X") : id \in {m.id : m \in {r \in members : NextToLock(c, r.id)}}}
      [] me.pc = "lockMember" -> {Lock("member", m.id, "S") : m \in RowOf(me.space, me.user)}
      [] me.pc = "lockSpace" -> {Lock("space", me.space, SpaceMode(me.op))}
      [] me.pc = "lockInvite" -> {Lock("invite", me.subject, "X")}
      [] OTHER -> {}

WaitsFor(c, d) ==
    \E l \in Wants(c) : \E h \in tx[d].held :
        h.on = l.on /\ (h.mode = "X" \/ l.mode = "X")

\* Requests never wait for each other in a circle: all lock member rows in
\* ascending order, then the space, then an invitation (row-locks.ts:3-4).
NoCrosswiseWait ==
    \A some \in (SUBSET Clients) \ {{}} :
        \E c \in some : \A d \in some \ {c} : ~WaitsFor(c, d)

\* Every request is answered, however often its lock set changes.
EveryRequestEnds == \A c \in Clients : tx[c].pc # "idle" ~> tx[c].pc = "idle"

\* Side by side, the requests do what they would do one at a time.
OwnerOf(s) ==
    IF \E m \in MembersOf(s) : m.role = "owner"
    THEN (CHOOSE m \in MembersOf(s) : m.role = "owner").user ELSE None

Rules == INSTANCE SpaceRules
            WITH people <- {[space |-> m.space, user |-> m.user, since |-> m.id] : m \in members},
                 owner <- [s \in Spaces |-> OwnerOf(s)],
                 offers <- {[id |-> i, space |-> invite[i].space, to |-> invite[i].to] :
                              i \in {j \in Invites : invite[j].state \in {"active", "expired"}}}

KeepsRules == Rules!Spec
=============================================================================
