------------------------------- MODULE SpaceBooks -------------------------------
(***************************************************************************)
(* The books of one space: wallets, categories, limits, transactions, and  *)
(* the keys that make a repeated write apply once (src/src/modules/        *)
(* transactions, wallets, categories, limits, idempotency).                *)
(*                                                                         *)
(* Every request is one READ COMMITTED transaction: it locks the space     *)
(* (shared, or exclusive for categories and limits), claims its key, then  *)
(* locks a transaction, wallets in ascending order and a category, checks  *)
(* under these locks, and commits in one step that also frees them.  Rows  *)
(* are the committed ones.  The member lock is SpaceMembership's.          *)
(***************************************************************************)
EXTENDS Integers, FiniteSets

CONSTANTS
    Clients,            \* bound: requests in flight at once
    Wallets,            \* bound: ids of wallets; numbers, for the order of locks
    Categories,         \* bound: ids of categories but the system one
    System,             \* the system category: initial balances
    TypeOf,             \* TypeOf[k]: the type of a category, which never changes
    Txns,               \* bound: ids of transactions
    Limits,             \* bound: ids of limits
    OpIds,              \* values of client_operation_id
    Keys,               \* idempotency keys, each with its user and operation
    None,               \* a field that a request or a row does not have
    KeyTTL,             \* IDEMPOTENCY_KEY_TTL_MS
    MaxClaims,          \* idempotency.service.ts MAX_CLAIM_ATTEMPTS
    MaxTime,            \* bound: the clock
    Requests            \* bound: the requests that clients make

Types == {"income", "expense"}
KeyedOperations == {"create", "edit", "remove"}
WalletOperations == {"addWallet", "deleteWallet"}
CategoryOperations == {"addCategory", "archive", "restore", "drop"}
LimitOperations == {"addLimit", "editLimit", "removeLimit"}

\* type in a request for a wallet: it has an initial balance.
Request == [op : KeyedOperations \cup WalletOperations \cup CategoryOperations \cup LimitOperations,
            key : Keys \cup {None}, opId : OpIds \cup {None},
            txn : Txns \cup {None}, version : Nat,
            wallet : Wallets \cup {None}, category : Categories \cup {System, None},
            type : Types \cup {None}, limit : Limits \cup {None}, cats : SUBSET (Categories \cup {System})]

ASSUME NoneAssumption == /\ None \notin Wallets \cup Categories \cup Txns \cup Limits \cup OpIds \cup Keys
                         /\ None \notin Types /\ None # System /\ System \notin Categories
ASSUME WalletAssumption == Wallets \subseteq Nat
ASSUME TxnAssumption == IsFiniteSet(Txns) \* the ids of a table
ASSUME TypeAssumption == TypeOf \in [Categories -> Types]
ASSUME BoundAssumption == /\ KeyTTL \in Nat \ {0} /\ MaxClaims \in Nat \ {0} /\ MaxTime \in Nat \ {0}
ASSUME RequestAssumption ==
    /\ Requests \subseteq Request
    /\ \A r, q \in Requests : r.key # None /\ r.key = q.key => r.op = q.op
    /\ \A r \in Requests :    \* the fields an operation has are validated
          /\ r.op \in {"create"} \cup WalletOperations => r.wallet \in Wallets
          /\ r.op = "create" => r.category # None /\ r.type # None
          /\ r.op \in {"edit", "remove"} => r.txn # None
          /\ r.op = "remove" => r.wallet = None
          /\ r.op \in CategoryOperations => r.category \in Categories
          /\ r.op \in LimitOperations => r.limit # None

VARIABLES
    wallet, category, limits,   \* rows, as in BookRules
    record,     \* record[t]: a row of transactions, or NoRecord
    operation,  \* operation[o]: a row of transaction_operations
    key,        \* key[k]: a row of idempotency_keys, or NoKey
    tx,         \* tx[c]: the request in progress
    reply,      \* reply[c]: the answer to the client's last request
    clock,
    used,       \* history: ids of transactions given out
    applied     \* history: how often a key's write applied, and the time of the last claim

rows == <<wallet, category, limits, record, operation>>
vars == <<rows, key, tx, reply, clock, used, applied>>

-----------------------------------------------------------------------------
(* Rows.                                                                   *)

Record == [wallet : Wallets, category : Categories \cup {System}, type : Types, version : Nat \ {0}]
NoRecord == [wallet |-> None, category |-> None, type |-> None, version |-> 0]

BugNoVersion(w, k, type) == [wallet |-> w, category |-> k, type |-> type, version |-> 0]
NewRecord(w, k, type) == [wallet |-> w, category |-> k, type |-> type, version |-> 1]

Operation == [txn : Txns \cup {None}, deleted : BOOLEAN]
NoOperation == [txn |-> None, deleted |-> FALSE]

Limit == [id : Limits, cats : SUBSET Categories]
LimitRow(l, cats) == [id |-> l, cats |-> cats]

Exists(t) == record[t] # NoRecord

\* getBalances(): every amount is 1.
Balance(rec, w) ==
    LET of(type) == Cardinality({t \in Txns : rec[t].wallet = w /\ rec[t].type = type}) IN
    of("income") - of("expense")
Value(type) == IF type = "income" THEN 1 ELSE -1

\* What a client is told: a create its balances, an edit those of its wallets ws.
Answer(r, before, rec, ws) ==
    [req |-> r, before |-> before, after |-> [w \in Wallets |-> IF w \in ws THEN Balance(rec, w) ELSE 0]]
NoAnswer == [req |-> None, before |-> 0, after |-> [w \in Wallets |-> 0]]

KeyRow(r, answer, expires) == [hash |-> r, body |-> answer, expires |-> expires]
NoKey == [hash |-> None, body |-> NoAnswer, expires |-> 0]
LapsedKey == KeyRow(None, NoAnswer, 1)   \* left by a request of long ago
HasKey(k) == key[k] # NoKey

Idle == [pc |-> "idle", req |-> None, now |-> 0, claims |-> 0, held |-> {}, was |-> NoRecord,
         before |-> 0, seen |-> FALSE]
Started(r) == [pc |-> IF r.key = None THEN "work" ELSE "claim", req |-> r, now |-> clock,
               claims |-> 1, held |-> {}, was |-> NoRecord, before |-> 0, seen |-> FALSE]

\* A request that goes on keeps what it was sent with.
GoesOn(me, pc, claims, held, was, before, seen) ==
    [pc |-> pc, req |-> me.req, now |-> me.now, claims |-> claims, held |-> held, was |-> was,
     before |-> before, seen |-> seen]
MovedTo(me, pc) == GoesOn(me, pc, me.claims, me.held, me.was, me.before, me.seen)

At(c, pc) == tx[c].pc = pc
Does(c, pc, ops) == At(c, pc) /\ tx[c].req.op \in ops
GoesTo(c, pc) == tx' = [tx EXCEPT ![c] = MovedTo(tx[c], pc)]
Ends(c) == tx' = [tx EXCEPT ![c] = Idle]
Busy(c) == tx[c].pc # "idle"

-----------------------------------------------------------------------------
(* Locks.  What a request holds follows from how far it is.                *)

Exclusive(r) == r.op \in CategoryOperations \cup LimitOperations

BugSharedSpace(r) == TRUE
SpaceFree(r) ==
    \A d \in Clients : Busy(d) => ~Exclusive(r) /\ ~Exclusive(tx[d].req)

Claimed(c) == tx[c].req.key # None /\ tx[c].pc \in {"work", "wallets", "write"}
KeyFree(c) == \A d \in Clients \ {c} : Busy(d) /\ tx[d].req.key = tx[c].req.key => ~Claimed(d)

BugUnlockedRead(c, t) == TRUE
RecordFree(c, t) ==
    \A d \in Clients \ {c} : ~(Busy(d) /\ tx[d].req.txn = t /\ tx[d].pc \in {"wallets", "write"})

BugSharedWallet(c, w) == TRUE
WalletFree(c, w) == \A d \in Clients \ {c} : w \notin tx[d].held

\* Creates and edits lock their new category, shared.
CategoryFree(c, k) ==
    \A d \in Clients \ {c} : ~(Does(d, "write", {"create", "edit"}) /\ tx[d].req.category = k)

-----------------------------------------------------------------------------
(* Begin, the end, and what all requests share.                            *)

\* Lock the membership, then the space; the clock is read for the key.
Begin(c) ==
    /\ ~Busy(c)
    /\ \E r \in Requests : SpaceFree(r) /\ tx' = [tx EXCEPT ![c] = Started(r)]
    /\ reply' = [reply EXCEPT ![c] = NoAnswer]
    /\ UNCHANGED <<rows, key, clock, used, applied>>

\* A check fails, an error is answered: nothing is stored, not even the key.
Refuse(c) ==
    /\ Ends(c)
    /\ UNCHANGED <<rows, key, reply, clock, used, applied>>

\* The result is stored under the key in the same transaction.
Commit(c, answer) ==
    LET k == tx[c].req.key IN
    /\ key' = IF k = None THEN key
              ELSE [key EXCEPT ![k] = KeyRow(tx[c].req, answer, tx[c].now + KeyTTL)]
    /\ applied' = IF k = None THEN applied
                  ELSE [applied EXCEPT ![k] = [times |-> applied[k].times + 1, at |-> tx[c].now]]
    /\ reply' = [reply EXCEPT ![c] = answer]
    /\ Ends(c)
    /\ UNCHANGED clock

-----------------------------------------------------------------------------
(* claim().  A row that another request inserted or revived, but has not   *)
(* committed, makes an insert and a revival wait.  Whether a refused insert*)
(* keeps a lock on the row it met is left open: the purger may delete it.  *)

ClaimNew(c) ==
    /\ At(c, "claim") /\ KeyFree(c) /\ ~HasKey(tx[c].req.key)
    /\ GoesTo(c, "work")
    /\ UNCHANGED <<rows, key, reply, clock, used, applied>>

ClaimDuplicate(c) ==
    /\ At(c, "claim") /\ KeyFree(c) /\ HasKey(tx[c].req.key)
    /\ GoesTo(c, "found")
    /\ UNCHANGED <<rows, key, reply, clock, used, applied>>

ClaimAgain(c) ==
    /\ LET me == tx[c] IN
          tx' = [tx EXCEPT ![c] =
                   IF me.claims < MaxClaims
                   THEN GoesOn(me, "claim", me.claims + 1, me.held, me.was, me.before, me.seen)
                   ELSE Idle]
    /\ UNCHANGED <<rows, key, reply, clock, used, applied>>

Expired(k, now) == key[k].expires <= now

ClaimMissing(c) == At(c, "found") /\ ~HasKey(tx[c].req.key) /\ ClaimAgain(c)

ClaimExpired(c) ==
    /\ At(c, "found") /\ HasKey(tx[c].req.key) /\ Expired(tx[c].req.key, tx[c].now)
    /\ GoesTo(c, "revive")
    /\ UNCHANGED <<rows, key, reply, clock, used, applied>>

\* Of two requests that revive one key the second finds it taken.
BugRevivesBlindly(k, now) == TRUE
StillExpired(k, now) == HasKey(k) /\ Expired(k, now)

Revive(c) ==
    /\ At(c, "revive") /\ KeyFree(c) /\ StillExpired(tx[c].req.key, tx[c].now)
    /\ GoesTo(c, "work")
    /\ UNCHANGED <<rows, key, reply, clock, used, applied>>

ReviveTaken(c) ==
    At(c, "revive") /\ KeyFree(c) /\ ~StillExpired(tx[c].req.key, tx[c].now) /\ ClaimAgain(c)

Stored(c) == At(c, "found") /\ HasKey(tx[c].req.key) /\ ~Expired(tx[c].req.key, tx[c].now)

KeyReused(c) == Stored(c) /\ key[tx[c].req.key].hash # tx[c].req /\ Refuse(c)

Repeat(c) ==
    /\ Stored(c) /\ key[tx[c].req.key].hash = tx[c].req
    /\ reply' = [reply EXCEPT ![c] = key[tx[c].req.key].body]
    /\ Ends(c)
    /\ UNCHANGED <<rows, key, clock, used, applied>>

\* The background job; it skips keys that a request holds.
Purge(k) ==
    /\ HasKey(k) /\ Expired(k, clock)
    /\ \A c \in Clients : ~(Busy(c) /\ tx[c].req.key = k /\ Claimed(c))
    /\ key' = [key EXCEPT ![k] = NoKey]
    /\ UNCHANGED <<rows, tx, reply, clock, used, applied>>

-----------------------------------------------------------------------------
(* Transactions: the operation id or the transaction row, then wallets.    *)

BugNoUniqueKey(o) == FALSE
Taken(o) == o # None /\ operation[o] # NoOperation

\* create(): assertOperationUnused().
OperationUnused(c) ==
    /\ Does(c, "work", {"create"})
    /\ IF Taken(tx[c].req.opId) THEN Ends(c) ELSE GoesTo(c, "wallets")
    /\ UNCHANGED <<rows, key, reply, clock, used, applied>>

\* update() and remove(): lockTransaction(), assertNotSystem(), assertVersion().
Editable(t, version) ==
    Exists(t) /\ record[t].category # System /\ record[t].version = version

LockRecord(c) ==
    LET me == tx[c]
        t == me.req.txn IN
    /\ Does(c, "work", {"edit", "remove"}) /\ RecordFree(c, t)
    /\ IF Editable(t, me.req.version)
       THEN tx' = [tx EXCEPT ![c] =
                     GoesOn(me, "wallets", me.claims, me.held, record[t], me.before, me.seen)]
       ELSE Ends(c)
    /\ UNCHANGED <<rows, key, reply, clock, used, applied>>

\* The wallets a request locks, in ascending order: of an edit the old one and
\* the new one.
WalletsOf(me) == {me.was.wallet, me.req.wallet} \ {None}
ToLock(c) == WalletsOf(tx[c]) \ tx[c].held

LockWallet(c) ==
    /\ At(c, "wallets")
    /\ \E w \in ToLock(c) :
          /\ \A other \in ToLock(c) : w <= other
          /\ WalletFree(c, w)
          /\ LET me == tx[c] IN
                tx' = [tx EXCEPT ![c] = GoesOn(me, "wallets", me.claims, me.held \cup {w},
                                               me.was, me.before, me.seen)]
    /\ UNCHANGED <<rows, key, reply, clock, used, applied>>

WalletsLocked(c, ops) == Does(c, "wallets", ops) /\ ToLock(c) = {}

WalletActive(w) == wallet[w] = "active"
CategoryUsable(k) == k \in Categories /\ category[k] = "active"
TypeFits(k, type) == TypeOf[k] = type

\* What an edit asks for that differs from the stored record, field by field.
Changes(asked, stored) == asked # None /\ asked # stored
Result(asked, stored) == IF Changes(asked, stored) THEN asked ELSE stored
Edited(r, old, version) ==
    [wallet |-> Result(r.wallet, old.wallet), category |-> Result(r.category, old.category),
     type |-> Result(r.type, old.type), version |-> version]

MayCreate(r) == WalletActive(r.wallet) /\ CategoryUsable(r.category) /\ TypeFits(r.category, r.type)
MayEdit(r, old) ==
    LET new == Edited(r, old, old.version) IN
    /\ new.wallet # old.wallet => WalletActive(new.wallet)
    /\ new.category # old.category => CategoryUsable(new.category)
    /\ new.category # old.category \/ new.type # old.type => TypeFits(new.category, new.type)

\* The previous balance is read under the wallet's lock.
CheckCreate(c) ==
    LET me == tx[c] IN
    /\ WalletsLocked(c, {"create"})
    /\ IF MayCreate(me.req)
       THEN tx' = [tx EXCEPT ![c] = GoesOn(me, "write", me.claims, me.held, me.was,
                                           Balance(record, me.req.wallet), me.seen)]
       ELSE Ends(c)
    /\ UNCHANGED <<rows, key, reply, clock, used, applied>>

CheckEdit(c) ==
    /\ WalletsLocked(c, {"edit"})
    /\ IF MayEdit(tx[c].req, tx[c].was) THEN GoesTo(c, "write") ELSE Ends(c)
    /\ UNCHANGED <<rows, key, reply, clock, used, applied>>

\* recordOperation(): the unique key settles what the first check did not see.
WriteCreate(c) ==
    LET r == tx[c].req IN
    /\ Does(c, "write", {"create"}) /\ ~Taken(r.opId)
    /\ \E t \in Txns \ used :
          /\ record' = [record EXCEPT ![t] = NewRecord(r.wallet, r.category, r.type)]
          /\ operation' = IF r.opId = None THEN operation
                          ELSE [operation EXCEPT ![r.opId] = [txn |-> t, deleted |-> FALSE]]
          /\ used' = used \cup {t}
    /\ Commit(c, Answer(r, tx[c].before, record', {r.wallet}))
    /\ UNCHANGED <<wallet, category, limits>>

DuplicateOperation(c) == Does(c, "write", {"create"}) /\ Taken(tx[c].req.opId) /\ Refuse(c)

\* An edit that changes nothing writes nothing and keeps the version.
WriteEdit(c) ==
    LET r == tx[c].req
        t == r.txn
        old == tx[c].was IN
    /\ Does(c, "write", {"edit"}) /\ Exists(t)
    /\ record' = IF Edited(r, old, old.version) = old THEN record
                 ELSE [record EXCEPT ![t] = Edited(r, old, record[t].version + 1)]
    /\ Commit(c, Answer(r, 0, record', WalletsOf(tx[c])))
    /\ UNCHANGED <<wallet, category, limits, operation, used>>

\* remove() deletes the row, and marks the operation that created it.
WriteRemove(c) ==
    LET t == tx[c].req.txn IN
    /\ WalletsLocked(c, {"remove"})
    /\ record' = [record EXCEPT ![t] = NoRecord]
    /\ operation' = [o \in OpIds |-> IF operation[o].txn = t
                                     THEN [txn |-> t, deleted |-> TRUE] ELSE operation[o]]
    /\ Commit(c, Answer(tx[c].req, 0, record', {}))
    /\ UNCHANGED <<wallet, category, limits, used>>

-----------------------------------------------------------------------------
(* Wallets.                                                                *)

\* With an initial balance the wallet and its transaction commit together.
AddWallet(c) ==
    LET r == tx[c].req IN
    /\ Does(c, "work", {"addWallet"}) /\ wallet[r.wallet] = "absent"
    /\ wallet' = [wallet EXCEPT ![r.wallet] = "active"]
    /\ IF r.type = None THEN UNCHANGED <<record, used>>
       ELSE \E t \in Txns \ used :
               /\ record' = [record EXCEPT ![t] = NewRecord(r.wallet, System, "income")]
               /\ used' = used \cup {t}
    /\ Commit(c, NoAnswer)
    /\ UNCHANGED <<category, limits, operation>>

StartDeleteWallet(c) ==
    /\ Does(c, "work", {"deleteWallet"}) /\ GoesTo(c, "wallets")
    /\ UNCHANGED <<rows, key, reply, clock, used, applied>>

DeleteWallet(c) ==
    LET w == tx[c].req.wallet IN
    /\ WalletsLocked(c, {"deleteWallet"}) /\ wallet[w] # "absent"
    /\ wallet' = [wallet EXCEPT ![w] = "deleted"]
    /\ Commit(c, NoAnswer)
    /\ UNCHANGED <<category, limits, record, operation, used>>

-----------------------------------------------------------------------------
(* Categories and limits: check, then write, the space locked exclusively. *)

InSpace(k) == k \in Categories /\ category[k] \in {"active", "archived"}
InUse(k) == \E t \in Txns : record[t].category = k

\* seen: is_active changes; for a deletion, the category has transactions.
CheckCategory(c) ==
    LET me == tx[c]
        k == me.req.category
        seen == \/ me.req.op = "archive" /\ category[k] = "active"
                \/ me.req.op = "restore" /\ category[k] = "archived"
                \/ me.req.op = "drop" /\ InUse(k) IN
    /\ Does(c, "work", {"archive", "restore", "drop"})
    /\ IF InSpace(k)
       THEN tx' = [tx EXCEPT ![c] =
                     GoesOn(me, "write", me.claims, me.held, me.was, me.before, seen)]
       ELSE Ends(c)
    /\ UNCHANGED <<rows, key, reply, clock, used, applied>>

AddCategory(c) ==
    LET k == tx[c].req.category IN
    /\ Does(c, "work", {"addCategory"}) /\ category[k] = "absent"
    /\ category' = [category EXCEPT ![k] = "active"]
    /\ Commit(c, NoAnswer)
    /\ UNCHANGED <<wallet, limits, record, operation, used>>

\* unlinkFromLimit(): the last category of a limit takes the limit with it.
Unlinked(k) == {LimitRow(l.id, l.cats \ {k}) : l \in {l \in limits : l.cats # {k}}}

\* A deletion with transactions, as counted, archives; the foreign key refuses
\* one that the count missed.
WriteCategory(c) ==
    LET r == tx[c].req
        k == r.category
        archives == IF r.op = "drop" THEN tx[c].seen ELSE r.op = "archive" /\ tx[c].seen
        unlinks == r.op = "drop" \/ archives IN
    /\ Does(c, "write", CategoryOperations) /\ CategoryFree(c, k)
    /\ r.op = "drop" /\ ~tx[c].seen => ~InUse(k)
    /\ category' = [category EXCEPT ![k] = IF r.op = "restore" THEN "active"
                                           ELSE IF archives THEN "archived"
                                           ELSE IF r.op = "drop" THEN "gone" ELSE category[k]]
    /\ limits' = IF unlinks THEN Unlinked(k) ELSE limits
    /\ Commit(c, NoAnswer)
    /\ UNCHANGED <<wallet, record, operation, used>>

LimitExists(l) == \E m \in limits : m.id = l
OtherLimits(r) == {m \in limits : r.op = "addLimit" \/ m.id # r.limit}

\* assertCategoriesOwnership(), assertNoOtherTotalLimit(), assertCategoriesAvailable().
LimitAllowed(r) ==
    /\ \A k \in r.cats : CategoryUsable(k)
    /\ IF r.cats = {} THEN \A m \in OtherLimits(r) : m.cats # {}
                      ELSE \A m \in OtherLimits(r) : m.cats \cap r.cats = {}

CheckLimit(c) ==
    LET r == tx[c].req IN
    /\ Does(c, "work", LimitOperations)
    /\ IF /\ r.op = "addLimit" <=> ~LimitExists(r.limit)
          /\ r.op = "removeLimit" \/ LimitAllowed(r)
       THEN GoesTo(c, "write") ELSE Ends(c)
    /\ UNCHANGED <<rows, key, reply, clock, used, applied>>

WriteLimit(c) ==
    LET r == tx[c].req IN
    /\ Does(c, "write", LimitOperations)
    /\ limits' = {m \in limits : m.id # r.limit} \cup
                 (IF r.op = "removeLimit" THEN {} ELSE {LimitRow(r.limit, r.cats)})
    /\ Commit(c, NoAnswer)
    /\ UNCHANGED <<wallet, category, record, operation, used>>

-----------------------------------------------------------------------------
\* The process dies, a lock wait times out, or a deadlock is resolved; then the
\* same request may begin again.
Abort(c) == Busy(c) /\ Refuse(c)

Tick ==
    /\ clock < MaxTime /\ clock' = clock + 1
    /\ UNCHANGED <<rows, key, tx, reply, used, applied>>

\* Rows that a request may add are there at first or not; a key may have lapsed.
Init ==
    /\ wallet \in [Wallets -> {"absent", "active"}]
    /\ \A w \in Wallets : wallet[w] = "absent" => \E r \in Requests : r.op = "addWallet" /\ r.wallet = w
    /\ category \in [Categories -> {"absent", "active"}]
    /\ \A k \in Categories : category[k] = "absent" =>
          \E r \in Requests : r.op = "addCategory" /\ r.category = k
    /\ limits = {}
    /\ record = [t \in Txns |-> NoRecord]
    /\ operation = [o \in OpIds |-> NoOperation]
    /\ key \in [Keys -> {NoKey, LapsedKey}]
    /\ tx = [c \in Clients |-> Idle]
    /\ reply = [c \in Clients |-> NoAnswer]
    /\ clock = 1 /\ used = {}
    /\ applied = [k \in Keys |-> [times |-> 0, at |-> 0]]

Next ==
    \/ \E c \in Clients :
          \/ Begin(c) \/ Abort(c)
          \/ ClaimNew(c) \/ ClaimDuplicate(c) \/ ClaimMissing(c) \/ ClaimExpired(c)
          \/ Revive(c) \/ ReviveTaken(c) \/ KeyReused(c) \/ Repeat(c)
          \/ OperationUnused(c) \/ LockRecord(c) \/ LockWallet(c) \/ CheckCreate(c) \/ CheckEdit(c)
          \/ WriteCreate(c) \/ DuplicateOperation(c) \/ WriteEdit(c) \/ WriteRemove(c)
          \/ AddWallet(c) \/ StartDeleteWallet(c) \/ DeleteWallet(c)
          \/ CheckCategory(c) \/ AddCategory(c) \/ WriteCategory(c)
          \/ CheckLimit(c) \/ WriteLimit(c)
    \/ \E k \in Keys : Purge(k)
    \/ Tick

Spec == Init /\ [][Next]_vars

-----------------------------------------------------------------------------
(* Properties.                                                             *)

Answers == [req : Requests \cup {None}, before : Int, after : [Wallets -> Int]]
KeyRows == [hash : Requests \cup {None}, body : Answers, expires : Nat]

Transaction ==
    [pc : {"idle", "claim", "found", "revive", "work", "wallets", "write"},
     req : Requests \cup {None}, now : 0..MaxTime, claims : 0..MaxClaims,
     held : SUBSET Wallets, was : Record \cup {NoRecord}, before : Int, seen : BOOLEAN]

TypeOK ==
    /\ wallet \in [Wallets -> {"absent", "active", "deleted"}]
    /\ category \in [Categories -> {"absent", "active", "archived", "gone"}]
    /\ limits \subseteq Limit
    /\ record \in [Txns -> Record \cup {NoRecord}]
    /\ operation \in [OpIds -> Operation]
    /\ key \in [Keys -> KeyRows]
    /\ tx \in [Clients -> Transaction]
    /\ reply \in [Clients -> Answers]
    /\ clock \in 1..MaxTime /\ used \subseteq Txns
    /\ applied \in [Keys -> [times : Nat, at : Nat]]

\* A write sent with an Idempotency-Key is applied at most once until the key
\* has expired: concurrent repeats, repeats after a crash and repeats that meet
\* the purger included (docs/transactions-contract.md:852-881).
OncePerKey ==
    [][\A k \in Keys : applied'[k].times > applied[k].times =>
           applied[k].times = 0 \/ clock >= applied[k].at + KeyTTL]_vars

\* Of two edits or deletions from the same version exactly one applies: a
\* change replaces the version that its client saw
\* (docs/transactions-contract.md:837-839).
OneChangePerVersion ==
    [][\A t \in Txns : Exists(t) /\ record'[t] # record[t] =>
           \E c \in Clients : /\ Busy(c) /\ ~Busy(c)'
                              /\ tx[c].req.txn = t /\ tx[c].req.version = record[t].version]_vars

\* The balance told after a create is the previous balance and the amount, a
\* repeat's too: nothing else changed the wallet in between
\* (docs/transactions-contract.md:771-773).
AnswersAddUp ==
    \A c \in Clients : LET r == reply[c].req IN
        r # None /\ r.op = "create" => reply[c].after[r.wallet] = reply[c].before + Value(r.type)

\* Side by side, the requests do what they would do one at a time.
Rules == INSTANCE BookRules

KeepsBooks == Rules!Spec
=============================================================================
