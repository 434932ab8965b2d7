---------------------------- MODULE SpaceBooksProofs ----------------------------
(* Theorems about SpaceBooks, for every set of requests, every number of     *)
(* clients, wallets, categories, transactions, limits and keys.              *)
EXTENDS SpaceBooks, FiniteSetTheorems, TLAPS

-----------------------------------------------------------------------------
(* The inductive invariant.  me and you are requests in progress.  Placed   *)
(* says which requests are where and what they hold there; StillSeen,       *)
(* StillAllowed and KeyHeld that what a request has read or checked is still*)
(* so; Apart that locks exclude each other; RecordInv, KeyInv and Honest    *)
(* what the committed rows keep.                                            *)

Locking == {"wallets", "write"}
Changing == {"edit", "remove"}
Revising == {"archive", "restore", "drop"}

Placed(me) ==
    /\ me.pc = "idle" => me = Idle
    /\ me.pc # "idle" => me.req \in Requests /\ me.now <= clock
    /\ me.pc \in {"claim", "found", "revive"} => me.req.key # None
    /\ me.pc \notin Locking => me.held = {}
    /\ me.pc = "wallets" => me.req.op \in KeyedOperations \cup {"deleteWallet"}
    /\ me.pc = "write" => me.req.op \in {"create", "edit"} \cup Revising \cup LimitOperations
    /\ me.pc \in Locking => me.held \subseteq WalletsOf(me)
    /\ me.pc = "write" /\ me.req.op \in KeyedOperations => WalletsOf(me) \subseteq me.held

\* It has locked the record it changes.
HoldsRecord(me) == me.pc \in Locking /\ me.req.op \in Changing

\* The record an edit or a deletion has locked is as it was read.
StillSeen(me) ==
    IF HoldsRecord(me)
    THEN me.was = record[me.req.txn] /\ Editable(me.req.txn, me.req.version)
    ELSE me.was = NoRecord

LimitChecked(r) ==
    /\ r.op = "addLimit" <=> ~LimitExists(r.limit)
    /\ r.op = "removeLimit" \/ LimitAllowed(r)

\* What a request has checked before its last step.
StillAllowed(me) ==
    me.pc = "write" =>
        /\ me.req.op = "create" => /\ MayCreate(me.req)
                                   /\ me.before = Balance(record, me.req.wallet)
        /\ me.req.op = "edit" => MayEdit(me.req, me.was)
        /\ me.req.op \in Revising => InSpace(me.req.category)
        /\ me.req.op \in LimitOperations => LimitChecked(me.req)

HoldsKey(me) == me.pc \in {"work", "wallets", "write"} /\ me.req.key # None

KeyHeld(me) ==
    HoldsKey(me) /\ applied[me.req.key].times > 0 =>
        clock >= applied[me.req.key].at + KeyTTL

Apart(me, you) ==
    /\ me.pc # "idle" /\ you.pc # "idle" => ~Exclusive(me.req) /\ ~Exclusive(you.req)
    /\ me.held \cap you.held = {}
    /\ HoldsKey(me) /\ HoldsKey(you) => me.req.key # you.req.key
    /\ HoldsRecord(me) /\ HoldsRecord(you) => me.req.txn # you.req.txn

RecordInv(t) ==
    Exists(t) => /\ t \in used
                 /\ record[t].category # System => TypeFits(record[t].category, record[t].type)

KeyInv(k) ==
    applied[k].times > 0 =>
        IF HasKey(k) THEN key[k].expires = applied[k].at + KeyTTL
                     ELSE clock >= applied[k].at + KeyTTL

\* An answer to a create tells the balance before and after it.
Honest(answer) ==
    answer.req # None /\ answer.req.op = "create" =>
        answer.after[answer.req.wallet] = answer.before + Value(answer.req.type)

RequestInv(me) == Placed(me) /\ StillSeen(me) /\ StillAllowed(me) /\ KeyHeld(me)
RequestsInv == \A c \in Clients : RequestInv(tx[c])
LocksInv == \A c, d \in Clients : c # d => Apart(tx[c], tx[d])
RecordsInv == \A t \in Txns : RecordInv(t)
KeysInv == \A k \in Keys : KeyInv(k) /\ Honest(key[k].body)
RepliesInv == \A c \in Clients : Honest(reply[c])

IInv == TypeOK /\ RequestsInv /\ LocksInv /\ RecordsInv /\ KeysInv /\ RepliesInv

-----------------------------------------------------------------------------
(* Requests in progress.                                                   *)

LEMMA RequestFields ==
    ASSUME NEW r \in Requests
    PROVE  /\ r.op \in KeyedOperations \cup WalletOperations \cup CategoryOperations
                       \cup LimitOperations
           /\ r.key \in Keys \cup {None} /\ r.opId \in OpIds \cup {None}
           /\ r.txn \in Txns \cup {None} /\ r.version \in Nat
           /\ r.wallet \in Wallets \cup {None} /\ r.category \in Categories \cup {System, None}
           /\ r.type \in Types \cup {None} /\ r.limit \in Limits \cup {None}
           /\ r.cats \subseteq Categories \cup {System}
  BY RequestAssumption DEF Request

\* The fields that a request has by its operation.
LEMMA RequestShape ==
    ASSUME NEW r \in Requests
    PROVE  /\ r.op \in {"create"} \cup WalletOperations => r.wallet \in Wallets
           /\ r.op = "create" => r.category \in Categories \cup {System} /\ r.type \in Types
           /\ r.op \in {"edit", "remove"} => r.txn \in Txns
           /\ r.op = "remove" => r.wallet = None
           /\ r.op \in CategoryOperations => r.category \in Categories
           /\ r.op \in LimitOperations => r.limit \in Limits
  BY RequestFields, RequestAssumption, NoneAssumption

LEMMA IdleTyped ==
    /\ Idle \in Transaction /\ Idle.pc = "idle" /\ Idle.held = {} /\ Idle.was = NoRecord
    /\ Idle.req = None
  BY BoundAssumption DEF Idle, Transaction

LEMMA TransactionFields ==
    ASSUME NEW me \in Transaction
    PROVE  /\ me.pc \in {"idle", "claim", "found", "revive", "work", "wallets", "write"}
           /\ me.req \in Requests \cup {None} /\ me.now \in 0..MaxTime
           /\ me.claims \in 0..MaxClaims /\ me.held \in SUBSET Wallets
           /\ me.was \in Record \cup {NoRecord} /\ me.before \in Int /\ me.seen \in BOOLEAN
  BY DEF Transaction

LEMMA GoesOnFields ==
    ASSUME NEW me, NEW pc, NEW claims, NEW held, NEW was, NEW before, NEW seen
    PROVE  LET new == GoesOn(me, pc, claims, held, was, before, seen) IN
           /\ new.pc = pc /\ new.req = me.req /\ new.now = me.now /\ new.claims = claims
           /\ new.held = held /\ new.was = was /\ new.before = before /\ new.seen = seen
  BY DEF GoesOn

LEMMA GoesOnTyped ==
    ASSUME NEW me \in Transaction, NEW pc \in {"claim", "found", "revive", "work", "wallets", "write"},
           NEW claims \in 0..MaxClaims, NEW held \in SUBSET Wallets,
           NEW was \in Record \cup {NoRecord}, NEW before \in Int, NEW seen \in BOOLEAN
    PROVE  GoesOn(me, pc, claims, held, was, before, seen) \in Transaction
  BY DEF GoesOn, Transaction

LEMMA MovedFields ==
    ASSUME NEW me \in Transaction, NEW pc \in {"claim", "found", "revive", "work", "wallets", "write"}
    PROVE  /\ MovedTo(me, pc) \in Transaction /\ MovedTo(me, pc).pc = pc
           /\ MovedTo(me, pc).req = me.req /\ MovedTo(me, pc).now = me.now
           /\ MovedTo(me, pc).held = me.held /\ MovedTo(me, pc).was = me.was
           /\ MovedTo(me, pc).before = me.before
  <1>1. MovedTo(me, pc) \in Transaction
    BY TransactionFields, GoesOnTyped DEF MovedTo
  <1> QED
    BY <1>1, GoesOnFields DEF MovedTo

\* A step that changes one request, and no row.
LEMMA TxFields ==
    ASSUME TypeOK, NEW c \in Clients, NEW me, tx' = [tx EXCEPT ![c] = me]
    PROVE  /\ tx \in [Clients -> Transaction]
           /\ \A d \in Clients : tx[d] \in Transaction /\ tx'[d] = IF d = c THEN me ELSE tx[d]
           /\ me \in Transaction => tx' \in [Clients -> Transaction]
  BY DEF TypeOK

LEMMA WalletsKnown ==
    ASSUME NEW me \in Transaction, me.req \in Requests
    PROVE  WalletsOf(me) \subseteq Wallets
  BY TransactionFields, RequestFields DEF WalletsOf, Record, NoRecord

-----------------------------------------------------------------------------
(* Quiet steps: a request goes on or ends, and no row changes.             *)

LEMMA SameRows ==
    ASSUME UNCHANGED <<rows, key, clock, used, applied>>
    PROVE  /\ \A me : RequestInv(me) => RequestInv(me)'
           /\ \A t \in Txns : RecordInv(t) => RecordInv(t)'
           /\ \A k \in Keys : KeyInv(k) => KeyInv(k)'
  <1>1. /\ UNCHANGED <<wallet, category, limits, record, operation>>
        /\ UNCHANGED <<key, clock, used, applied>>
    BY DEF rows
  <1>2. ASSUME NEW me, RequestInv(me) PROVE RequestInv(me)'
    BY <1>1, <1>2 DEF RequestInv, Placed, StillSeen, StillAllowed, KeyHeld, Editable, Exists, MayCreate,
          MayEdit, WalletActive, CategoryUsable, Balance, InSpace, LimitChecked, LimitExists,
          LimitAllowed, OtherLimits
  <1>3. \A t \in Txns : RecordInv(t) => RecordInv(t)'
    BY <1>1 DEF RecordInv, Exists
  <1>4. \A k \in Keys : KeyInv(k) => KeyInv(k)'
    BY <1>1 DEF KeyInv, HasKey
  <1> QED
    BY <1>2, <1>3, <1>4

LEMMA Symmetric == \A me, you : Apart(me, you) => Apart(you, me)
  BY DEF Apart

LEMMA LocksKept ==
    ASSUME TypeOK, LocksInv, NEW c \in Clients, NEW me, tx' = [tx EXCEPT ![c] = me],
           \A d \in Clients \ {c} : Apart(me, tx[d])
    PROVE  LocksInv'
  <1> SUFFICES ASSUME NEW d \in Clients, NEW e \in Clients, d # e
               PROVE  Apart(tx'[d], tx'[e])
    BY DEF LocksInv, Apart
  <1>1. tx'[d] = (IF d = c THEN me ELSE tx[d]) /\ tx'[e] = (IF e = c THEN me ELSE tx[e])
    BY TxFields
  <1> QED
    BY <1>1, Symmetric DEF LocksInv

\* What a step that changes no row has to show.
Quiet(c) ==
    \E me \in Transaction :
        /\ tx' = [tx EXCEPT ![c] = me]
        /\ UNCHANGED <<rows, key, clock, used, applied>>
        /\ RequestInv(me)
        /\ \A d \in Clients \ {c} : Apart(me, tx[d])
        /\ \/ reply' = reply
           \/ \E a \in Answers : reply' = [reply EXCEPT ![c] = a] /\ Honest(a)

LEMMA QuietStep ==
    ASSUME IInv, NEW c \in Clients, Quiet(c)
    PROVE  IInv'
  <1>1. PICK me \in Transaction :
           /\ tx' = [tx EXCEPT ![c] = me]
           /\ UNCHANGED <<rows, key, clock, used, applied>>
           /\ RequestInv(me)
           /\ \A d \in Clients \ {c} : Apart(me, tx[d])
           /\ \/ reply' = reply
              \/ \E a \in Answers : reply' = [reply EXCEPT ![c] = a] /\ Honest(a)
    BY DEF Quiet
  <1>2. TypeOK
    BY DEF IInv
  <1>3. reply' \in [Clients -> Answers] /\ \A d \in Clients : Honest(reply'[d])
    BY <1>1, <1>2 DEF IInv, RepliesInv, TypeOK
  <1>4. TypeOK'
    BY <1>1, <1>2, <1>3, TxFields DEF TypeOK, rows
  <1>5. RequestsInv'
    <2> SUFFICES ASSUME NEW d \in Clients PROVE RequestInv(tx[d])'
      BY DEF RequestsInv
    <2>1. tx'[d] = IF d = c THEN me ELSE tx[d]
      BY <1>1, <1>2, TxFields
    <2>2. PICK you : you = tx'[d]
      OBVIOUS
    <2>3. RequestInv(you)
      BY <1>1, <2>1, <2>2 DEF IInv, RequestsInv
    <2>4. RequestInv(you)'
      BY <1>1, <2>3, SameRows
    <2> QED
      BY <2>2, <2>4
  <1>6. LocksInv'
    BY <1>1, <1>2, LocksKept DEF IInv
  <1>7. RecordsInv'
    BY <1>1, SameRows DEF IInv, RecordsInv
  <1>8. KeysInv'
    BY <1>1, SameRows DEF IInv, KeysInv
  <1>9. RepliesInv'
    BY <1>3 DEF RepliesInv, Honest
  <1> QED
    BY <1>4, <1>5, <1>6, <1>7, <1>8, <1>9 DEF IInv

LEMMA IdleQuiet == RequestInv(Idle) /\ \A you : Apart(Idle, you)
  BY IdleTyped DEF RequestInv, Placed, StillSeen, StillAllowed, KeyHeld, Apart, HoldsKey, HoldsRecord,
                   Locking

LEMMA EndQuiet ==
    ASSUME NEW c \in Clients, Ends(c), UNCHANGED <<rows, key, reply, clock, used, applied>>
    PROVE  Quiet(c)
  BY IdleTyped, IdleQuiet DEF Ends, Quiet

LEMMA Busyness ==
    ASSUME IInv, NEW c \in Clients
    PROVE  /\ tx[c] \in Transaction /\ RequestInv(tx[c])
           /\ tx[c].pc # "idle" => tx[c].req \in Requests /\ tx[c].now <= clock
           /\ \A d \in Clients \ {c} : tx[d] \in Transaction /\ Apart(tx[c], tx[d])
           /\ clock \in 1..MaxTime
  BY DEF IInv, TypeOK, RequestsInv, RequestInv, Placed, LocksInv

\* A request goes on and takes no lock.
LEMMA OnQuiet ==
    ASSUME IInv, NEW c \in Clients, tx[c].pc # "idle", NEW new \in Transaction,
           tx' = [tx EXCEPT ![c] = new],
           UNCHANGED <<rows, key, reply, clock, used, applied>>,
           new.req = tx[c].req, new.held = tx[c].held, RequestInv(new),
           HoldsKey(new) => HoldsKey(tx[c]), HoldsRecord(new) => HoldsRecord(tx[c])
    PROVE  Quiet(c)
  <1>1. ASSUME NEW d \in Clients \ {c} PROVE Apart(new, tx[d])
    BY Busyness DEF Apart
  <1> QED
    BY <1>1 DEF Quiet

LEMMA KeyOf ==
    ASSUME IInv, NEW c \in Clients, tx[c].pc \in {"claim", "found", "revive"}
    PROVE  tx[c].req \in Requests /\ tx[c].req.key \in Keys
  BY Busyness, RequestFields DEF RequestInv, Placed

LEMMA BeginQuiet ==
    ASSUME IInv, NEW c \in Clients, Begin(c)
    PROVE  Quiet(c)
  <1>1. PICK r \in Requests : SpaceFree(r) /\ tx' = [tx EXCEPT ![c] = Started(r)]
    BY DEF Begin
  <1> DEFINE new == Started(r)
  <1>2. /\ new.pc = IF r.key = None THEN "work" ELSE "claim"
        /\ new.req = r /\ new.now = clock /\ new.claims = 1 /\ new.held = {}
        /\ new.was = NoRecord /\ new.before = 0 /\ new.seen = FALSE
    BY DEF Started
  <1>3. clock \in 1..MaxTime
    BY Busyness
  <1>4. new \in Transaction
    BY <1>3, BoundAssumption DEF Started, Transaction
  <1> HIDE DEF new
  <1>5. RequestInv(new)
    BY <1>2, <1>3, RequestFields DEF RequestInv, Placed, StillSeen, StillAllowed, KeyHeld, HoldsKey,
          HoldsRecord, Locking
  <1>6. ASSUME NEW d \in Clients \ {c} PROVE Apart(new, tx[d])
    BY <1>1, <1>2 DEF Apart, SpaceFree, Busy, HoldsKey, HoldsRecord, Locking
  <1>7. NoAnswer \in Answers /\ Honest(NoAnswer)
    BY DEF NoAnswer, Answers, Honest
  <1>8. UNCHANGED <<rows, key, clock, used, applied>> /\ reply' = [reply EXCEPT ![c] = NoAnswer]
    BY DEF Begin
  <1>9. tx' = [tx EXCEPT ![c] = new]
    BY <1>1 DEF new
  <1> QED
    BY <1>4, <1>5, <1>6, <1>7, <1>8, <1>9 DEF Quiet

\* A request that has its key, or needs none, starts its work.
LEMMA WorkQuiet ==
    ASSUME IInv, NEW c \in Clients, tx[c].pc \in {"claim", "revive"}, KeyFree(c), GoesTo(c, "work"),
           UNCHANGED <<rows, key, reply, clock, used, applied>>,
           applied[tx[c].req.key].times > 0 => clock >= applied[tx[c].req.key].at + KeyTTL
    PROVE  Quiet(c)
  <1> DEFINE new == MovedTo(tx[c], "work")
  <1>1. /\ new \in Transaction /\ new.pc = "work" /\ new.req = tx[c].req /\ new.now = tx[c].now
        /\ new.held = tx[c].held /\ new.was = tx[c].was
    BY Busyness, MovedFields
  <1>2. tx' = [tx EXCEPT ![c] = new]
    BY DEF GoesTo
  <1> HIDE DEF new
  <1>3. RequestInv(new)
    BY <1>1, Busyness DEF RequestInv, Placed, StillSeen, StillAllowed, KeyHeld, HoldsKey, HoldsRecord,
          Locking
  <1>4. ASSUME NEW d \in Clients \ {c} PROVE Apart(new, tx[d])
    <2>1. Apart(tx[c], tx[d])
      BY Busyness
    <2>2. ~(HoldsKey(tx[d]) /\ tx[d].req.key = new.req.key)
      BY <1>1 DEF KeyFree, Busy, Claimed, HoldsKey
    <2> QED
      BY <1>1, <2>1, <2>2 DEF Apart, HoldsRecord, Locking
  <1> QED
    BY <1>1, <1>2, <1>3, <1>4 DEF Quiet

LEMMA ClaimQuiet ==
    ASSUME IInv, NEW c \in Clients, ClaimNew(c) \/ Revive(c)
    PROVE  Quiet(c)
  <1>1. tx[c].pc \in {"claim", "revive"} /\ KeyFree(c) /\ GoesTo(c, "work")
        /\ UNCHANGED <<rows, key, reply, clock, used, applied>>
    BY DEF ClaimNew, Revive, At
  <1>2. tx[c].req.key \in Keys /\ KeyInv(tx[c].req.key) /\ tx[c].now <= clock
    BY <1>1, KeyOf, Busyness DEF IInv, KeysInv
  <1>3. ~HasKey(tx[c].req.key) \/ Expired(tx[c].req.key, tx[c].now)
    BY DEF ClaimNew, Revive, StillExpired
  <1>4. /\ key[tx[c].req.key].expires \in Nat /\ tx[c].now \in Nat /\ clock \in Nat
        /\ applied[tx[c].req.key].at \in Nat
    <2>1. key[tx[c].req.key] \in KeyRows /\ applied[tx[c].req.key] \in [times : Nat, at : Nat]
      BY <1>2 DEF IInv, TypeOK
    <2> QED
      BY <2>1, Busyness, TransactionFields DEF KeyRows
  <1>5. applied[tx[c].req.key].times > 0 => clock >= applied[tx[c].req.key].at + KeyTTL
    BY <1>2, <1>3, <1>4, BoundAssumption DEF KeyInv, Expired
  <1> QED
    BY <1>1, <1>5, WorkQuiet

\* From one place to another, with no lock taken and nothing to check.
LEMMA MoveQuiet ==
    ASSUME IInv, NEW c \in Clients, NEW pc \in {"found", "revive", "wallets"}, GoesTo(c, pc),
           pc = "wallets" => /\ tx[c].pc = "work"
                             /\ tx[c].req.op \in {"create", "deleteWallet"},
           pc # "wallets" => tx[c].pc \in {"claim", "found"},
           UNCHANGED <<rows, key, reply, clock, used, applied>>
    PROVE  Quiet(c)
  <1> DEFINE new == MovedTo(tx[c], pc)
  <1>1. /\ new \in Transaction /\ new.pc = pc /\ new.req = tx[c].req /\ new.now = tx[c].now
        /\ new.held = tx[c].held /\ new.was = tx[c].was
    BY Busyness, MovedFields
  <1>2. tx' = [tx EXCEPT ![c] = new]
    BY DEF GoesTo
  <1> HIDE DEF new
  <1>3. RequestInv(new)
    BY <1>1, Busyness DEF RequestInv, Placed, StillSeen, StillAllowed, KeyHeld, HoldsKey, HoldsRecord,
          Locking, Changing, KeyedOperations
  <1>4. (HoldsKey(new) => HoldsKey(tx[c])) /\ (HoldsRecord(new) => HoldsRecord(tx[c]))
    BY <1>1 DEF HoldsKey, HoldsRecord, Changing, Locking
  <1> QED
    BY <1>1, <1>2, <1>3, <1>4, OnQuiet

LEMMA AgainQuiet ==
    ASSUME IInv, NEW c \in Clients, tx[c].pc \in {"found", "revive"}, ClaimAgain(c)
    PROVE  Quiet(c)
  <1>1. UNCHANGED <<rows, key, reply, clock, used, applied>>
    BY DEF ClaimAgain
  <1>2. CASE tx[c].claims < MaxClaims
    <2> DEFINE me == tx[c]
               new == GoesOn(me, "claim", me.claims + 1, me.held, me.was, me.before, me.seen)
    <2>1. me \in Transaction /\ me.claims + 1 \in 0..MaxClaims
      BY <1>2, Busyness, TransactionFields, BoundAssumption
    <2>2. /\ new \in Transaction /\ new.pc = "claim" /\ new.req = tx[c].req /\ new.now = tx[c].now
          /\ new.held = tx[c].held /\ new.was = tx[c].was
      BY <2>1, TransactionFields, GoesOnTyped, GoesOnFields
    <2>3. tx' = [tx EXCEPT ![c] = new]
      BY <1>2 DEF ClaimAgain
    <2> HIDE DEF new, me
    <2>4. RequestInv(new)
      BY <2>2, Busyness DEF RequestInv, Placed, StillSeen, StillAllowed, KeyHeld, HoldsKey, HoldsRecord,
            Locking
    <2>5. (HoldsKey(new) => HoldsKey(tx[c])) /\ (HoldsRecord(new) => HoldsRecord(tx[c]))
      BY <2>2 DEF HoldsKey, HoldsRecord, Locking
    <2> QED
      BY <1>1, <2>2, <2>3, <2>4, <2>5, OnQuiet
  <1>3. CASE ~(tx[c].claims < MaxClaims)
    BY <1>1, <1>3, EndQuiet DEF ClaimAgain, Ends
  <1> QED
    BY <1>2, <1>3

LEMMA RepeatQuiet ==
    ASSUME IInv, NEW c \in Clients, Repeat(c)
    PROVE  Quiet(c)
  <1>1. tx[c].req.key \in Keys
    BY KeyOf DEF Repeat, Stored, At
  <1>2. key[tx[c].req.key].body \in Answers /\ Honest(key[tx[c].req.key].body)
    BY <1>1 DEF IInv, TypeOK, KeyRows, KeysInv
  <1> QED
    BY <1>2, IdleTyped, IdleQuiet DEF Quiet, Repeat, Ends

LEMMA KeysQuiet ==
    ASSUME IInv, NEW c \in Clients,
           \/ ClaimNew(c) \/ ClaimDuplicate(c) \/ ClaimMissing(c) \/ ClaimExpired(c)
           \/ Revive(c) \/ ReviveTaken(c) \/ KeyReused(c) \/ Repeat(c)
    PROVE  Quiet(c)
  <1>1. CASE ClaimNew(c) \/ Revive(c)
    BY <1>1, ClaimQuiet
  <1>2. CASE ClaimDuplicate(c) \/ ClaimExpired(c)
    BY <1>2, MoveQuiet DEF ClaimDuplicate, ClaimExpired, At
  <1>3. CASE ClaimMissing(c) \/ ReviveTaken(c)
    BY <1>3, AgainQuiet DEF ClaimMissing, ReviveTaken, At
  <1>4. CASE KeyReused(c)
    BY <1>4, EndQuiet DEF KeyReused, Refuse
  <1>5. CASE Repeat(c)
    BY <1>5, RepeatQuiet
  <1> QED
    BY <1>1, <1>2, <1>3, <1>4, <1>5

\* The records of a type in a wallet, which its balance counts.
Counted(rec, w, type) == {t \in Txns : rec[t].wallet = w /\ rec[t].type = type}

LEMMA BalanceKnown ==
    ASSUME NEW rec, NEW w
    PROVE  /\ \A type : /\ IsFiniteSet(Counted(rec, w, type))
                        /\ Cardinality(Counted(rec, w, type)) \in Nat
           /\ Balance(rec, w) = Cardinality(Counted(rec, w, "income"))
                               - Cardinality(Counted(rec, w, "expense"))
           /\ Balance(rec, w) \in Int
  <1>1. \A type : IsFiniteSet(Counted(rec, w, type))
    BY TxnAssumption, FS_Subset DEF Counted
  <1>2. \A type : Cardinality(Counted(rec, w, type)) \in Nat
    BY <1>1, FS_CardinalityType
  <1>3. Balance(rec, w) = Cardinality(Counted(rec, w, "income"))
                          - Cardinality(Counted(rec, w, "expense"))
    BY DEF Balance, Counted
  <1> QED
    BY <1>1, <1>2, <1>3

\* The record is locked for this request alone.
LEMMA LockRecordQuiet ==
    ASSUME IInv, NEW c \in Clients, LockRecord(c)
    PROVE  Quiet(c)
  <1> DEFINE me == tx[c]
             t == me.req.txn
             new == GoesOn(me, "wallets", me.claims, me.held, record[t], me.before, me.seen)
  <1>1. /\ me.pc = "work" /\ me.req.op \in {"edit", "remove"} /\ RecordFree(c, t)
        /\ UNCHANGED <<rows, key, reply, clock, used, applied>>
    BY DEF LockRecord, Does, At
  <1>2. me.req \in Requests /\ t \in Txns /\ me \in Transaction
    BY <1>1, Busyness, RequestShape
  <1>3. CASE Editable(t, me.req.version)
    <2>1. record[t] \in Record \cup {NoRecord}
      BY <1>2 DEF IInv, TypeOK
    <2>2. /\ new \in Transaction /\ new.pc = "wallets" /\ new.req = tx[c].req
          /\ new.now = tx[c].now /\ new.held = tx[c].held /\ new.was = record[t]
      BY <1>2, <2>1, TransactionFields, GoesOnTyped, GoesOnFields
    <2>3. tx' = [tx EXCEPT ![c] = new]
      BY <1>3 DEF LockRecord
    <2> HIDE DEF new
    <2>4. RequestInv(new)
      BY <1>1, <1>3, <2>2, Busyness DEF RequestInv, Placed, StillSeen, StillAllowed, KeyHeld, HoldsKey,
            HoldsRecord, Locking, Changing, KeyedOperations
    <2>5. ASSUME NEW d \in Clients \ {c} PROVE Apart(new, tx[d])
      <3>1. Apart(tx[c], tx[d])
        BY Busyness
      <3>2. ~(HoldsRecord(tx[d]) /\ tx[d].req.txn = new.req.txn)
        BY <1>1, <2>2 DEF RecordFree, Busy, HoldsRecord, Locking
      <3> QED
        BY <1>1, <2>2, <3>1, <3>2 DEF Apart, HoldsKey
    <2> QED
      BY <1>1, <2>2, <2>3, <2>4, <2>5 DEF Quiet
  <1>4. CASE ~Editable(t, me.req.version)
    BY <1>1, <1>4, EndQuiet DEF LockRecord
  <1> QED
    BY <1>3, <1>4

LEMMA LockWalletQuiet ==
    ASSUME IInv, NEW c \in Clients, LockWallet(c)
    PROVE  Quiet(c)
  <1> DEFINE me == tx[c]
  <1>1. PICK w \in ToLock(c) :
           /\ WalletFree(c, w)
           /\ tx' = [tx EXCEPT ![c] = GoesOn(me, "wallets", me.claims, me.held \cup {w},
                                             me.was, me.before, me.seen)]
    BY DEF LockWallet
  <1>2. me.pc = "wallets" /\ UNCHANGED <<rows, key, reply, clock, used, applied>>
    BY DEF LockWallet, At
  <1> DEFINE new == GoesOn(me, "wallets", me.claims, me.held \cup {w}, me.was, me.before, me.seen)
  <1>3. me.req \in Requests /\ me \in Transaction
    BY <1>2, Busyness
  <1>4. w \in WalletsOf(me) /\ w \in Wallets
    BY <1>3, WalletsKnown DEF ToLock
  <1>5. /\ new \in Transaction /\ new.pc = "wallets" /\ new.req = me.req
        /\ new.now = me.now /\ new.held = me.held \cup {w} /\ new.was = me.was
    BY <1>3, <1>4, TransactionFields, GoesOnTyped, GoesOnFields
  <1>6. tx' = [tx EXCEPT ![c] = new]
    BY <1>1
  <1> HIDE DEF new
  <1>7. WalletsOf(new) = WalletsOf(me)
    BY <1>5 DEF WalletsOf
  <1>8. RequestInv(new)
    BY <1>2, <1>4, <1>5, <1>7, Busyness DEF RequestInv, Placed, StillSeen, StillAllowed, KeyHeld,
          HoldsKey, HoldsRecord, Locking
  <1>9. ASSUME NEW d \in Clients \ {c} PROVE Apart(new, tx[d])
    <2>1. Apart(tx[c], tx[d]) /\ w \notin tx[d].held
      BY <1>1, Busyness DEF WalletFree
    <2> QED
      BY <1>2, <1>5, <2>1 DEF Apart, HoldsKey, HoldsRecord
  <1> QED
    BY <1>2, <1>5, <1>6, <1>8, <1>9 DEF Quiet

\* The checks of a create and of an edit, with their wallets locked.
LEMMA CheckWriteQuiet ==
    ASSUME IInv, NEW c \in Clients, CheckCreate(c) \/ CheckEdit(c)
    PROVE  Quiet(c)
  <1> DEFINE me == tx[c]
  <1>1. /\ me.pc = "wallets" /\ WalletsOf(me) \subseteq me.held
        /\ UNCHANGED <<rows, key, reply, clock, used, applied>>
    BY DEF CheckCreate, CheckEdit, WalletsLocked, Does, At, ToLock
  <1>2. me.req \in Requests /\ me \in Transaction
    BY <1>1, Busyness
  <1>3. CASE CheckCreate(c) /\ MayCreate(me.req)
    <2> DEFINE b == Balance(record, me.req.wallet)
               new == GoesOn(me, "write", me.claims, me.held, me.was, b, me.seen)
    <2>1. b \in Int
      BY BalanceKnown
    <2> HIDE DEF b
    <2>2. /\ new \in Transaction /\ new.pc = "write" /\ new.req = me.req
          /\ new.now = me.now /\ new.held = me.held /\ new.was = me.was /\ new.before = b
      BY <1>2, <2>1, TransactionFields, GoesOnTyped, GoesOnFields
    <2>3. tx' = [tx EXCEPT ![c] = new] /\ me.req.op = "create"
      BY <1>3 DEF CheckCreate, WalletsLocked, Does, b
    <2> HIDE DEF new
    <2>4. WalletsOf(new) = WalletsOf(me)
      BY <2>2 DEF WalletsOf
    <2>5. RequestInv(new)
      BY <1>1, <1>3, <2>2, <2>3, <2>4, Busyness DEF RequestInv, Placed, StillSeen, StillAllowed, KeyHeld,
            HoldsKey, HoldsRecord, Locking, Changing, Revising, LimitOperations, b
    <2> QED
      BY <1>1, <2>2, <2>3, <2>5, OnQuiet DEF HoldsKey, HoldsRecord, Locking
  <1>4. CASE CheckEdit(c) /\ MayEdit(me.req, me.was)
    <2> DEFINE new == MovedTo(me, "write")
    <2>1. /\ new \in Transaction /\ new.pc = "write" /\ new.req = me.req
          /\ new.now = me.now /\ new.held = me.held /\ new.was = me.was
      BY <1>2, MovedFields
    <2>2. tx' = [tx EXCEPT ![c] = new] /\ me.req.op = "edit"
      BY <1>4 DEF CheckEdit, WalletsLocked, Does, GoesTo
    <2> HIDE DEF new
    <2>3. WalletsOf(new) = WalletsOf(me)
      BY <2>1 DEF WalletsOf
    <2>4. RequestInv(new)
      BY <1>1, <1>4, <2>1, <2>2, <2>3, Busyness DEF RequestInv, Placed, StillSeen, StillAllowed, KeyHeld,
            HoldsKey, HoldsRecord, Locking, Changing, Revising, LimitOperations
    <2> QED
      BY <1>1, <2>1, <2>2, <2>4, OnQuiet DEF HoldsKey, HoldsRecord, Locking
  <1>5. CASE Ends(c)
    BY <1>1, <1>5, EndQuiet
  <1> QED
    BY <1>3, <1>4, <1>5 DEF CheckCreate, CheckEdit

\* The checks of a category and of a limit, with the space locked.
LEMMA CheckSettingQuiet ==
    ASSUME IInv, NEW c \in Clients, CheckCategory(c) \/ CheckLimit(c)
    PROVE  Quiet(c)
  <1> DEFINE me == tx[c]
  <1>1. /\ me.pc = "work" /\ me.req.op \in Revising \cup LimitOperations
        /\ UNCHANGED <<rows, key, reply, clock, used, applied>>
    BY DEF CheckCategory, CheckLimit, Does, At, Revising
  <1>2. me.req \in Requests /\ me \in Transaction
    BY <1>1, Busyness
  <1>3. ASSUME NEW new \in Transaction, tx' = [tx EXCEPT ![c] = new], new.pc = "write",
               new.req = me.req, new.now = me.now, new.held = me.held, new.was = me.was,
               StillAllowed(new)
        PROVE  Quiet(c)
    <2>1. RequestInv(new)
      BY <1>1, <1>3, Busyness DEF RequestInv, Placed, StillSeen, KeyHeld,
            HoldsKey, HoldsRecord, Locking, Changing, Revising, LimitOperations, KeyedOperations
    <2> QED
      BY <1>1, <1>3, <2>1, OnQuiet DEF HoldsKey, HoldsRecord, Changing, Revising, LimitOperations
  <1>4. CASE CheckCategory(c)
    <2>1. me.req.op \in Revising
      BY <1>4 DEF CheckCategory, Does, Revising
    <2>2. PICK seen \in BOOLEAN :
             IF InSpace(me.req.category)
             THEN tx' = [tx EXCEPT ![c] = GoesOn(me, "write", me.claims, me.held, me.was,
                                                 me.before, seen)]
             ELSE Ends(c)
      BY <1>4, Zenon DEF CheckCategory
    <2>3. CASE InSpace(me.req.category)
      <3> DEFINE new == GoesOn(me, "write", me.claims, me.held, me.was, me.before, seen)
      <3>1. /\ new \in Transaction /\ new.pc = "write" /\ new.req = me.req
            /\ new.now = me.now /\ new.held = me.held /\ new.was = me.was
        BY <1>2, TransactionFields, GoesOnTyped, GoesOnFields
      <3>2. tx' = [tx EXCEPT ![c] = new]
        BY <2>2, <2>3
      <3> HIDE DEF new
      <3>3. StillAllowed(new)
        BY <2>1, <2>3, <3>1 DEF StillAllowed, Revising, LimitOperations
      <3> QED
        BY <1>3, <3>1, <3>2, <3>3
    <2>4. CASE ~InSpace(me.req.category)
      BY <1>1, <2>2, <2>4, EndQuiet
    <2> QED
      BY <2>3, <2>4
  <1>5. CASE CheckLimit(c)
    <2>1. me.req.op \in LimitOperations
      BY <1>5 DEF CheckLimit, Does
    <2>2. CASE LimitChecked(me.req)
      <3> DEFINE new == MovedTo(me, "write")
      <3>1. /\ new \in Transaction /\ new.pc = "write" /\ new.req = me.req
            /\ new.now = me.now /\ new.held = me.held /\ new.was = me.was
        BY <1>2, MovedFields
      <3>2. tx' = [tx EXCEPT ![c] = new]
        BY <1>5, <2>2 DEF CheckLimit, LimitChecked, GoesTo
      <3> HIDE DEF new
      <3>3. StillAllowed(new)
        BY <2>1, <2>2, <3>1 DEF StillAllowed, Revising, LimitOperations
      <3> QED
        BY <1>3, <3>1, <3>2, <3>3
    <2>3. CASE ~LimitChecked(me.req)
      BY <1>1, <1>5, <2>3, EndQuiet DEF CheckLimit, LimitChecked
    <2> QED
      BY <2>2, <2>3
  <1> QED
    BY <1>4, <1>5

LEMMA OperationQuiet ==
    ASSUME IInv, NEW c \in Clients, OperationUnused(c) \/ StartDeleteWallet(c)
    PROVE  Quiet(c)
  <1>1. CASE Ends(c)
    BY <1>1, EndQuiet DEF OperationUnused, StartDeleteWallet
  <1>2. CASE GoesTo(c, "wallets")
    BY <1>2, MoveQuiet DEF OperationUnused, StartDeleteWallet, Does, At
  <1> QED
    BY <1>1, <1>2 DEF OperationUnused, StartDeleteWallet

-----------------------------------------------------------------------------
(* Commits: rows change, and the request ends.                             *)

\* What another request has checked is still so when the rows change: its
\* wallets, its record, and all of the space if it holds it exclusively.
LEMMA OthersKeep ==
    ASSUME NEW you \in Transaction, RequestInv(you), clock' = clock,
           you.pc # "idle" /\ Exclusive(you.req) => FALSE,
           category' = category,
           \A w \in you.held : wallet[w] = "active" =>
               wallet'[w] = "active" /\ Balance(record', w) = Balance(record, w),
           HoldsRecord(you) => record'[you.req.txn] = record[you.req.txn]
    PROVE  (Placed(you) /\ StillSeen(you) /\ StillAllowed(you))'
  <1>1. Placed(you)'
    BY DEF RequestInv, Placed
  <1>2. StillSeen(you)'
    BY DEF RequestInv, StillSeen, Editable, Exists
  <1>3. ASSUME you.pc = "write" PROVE StillAllowed(you)'
    <2>1. you.req.op \in {"create", "edit"}
      BY <1>3 DEF RequestInv, Placed, Exclusive, CategoryOperations, Revising
    <2>2. WalletsOf(you) \subseteq you.held /\ StillAllowed(you) /\ you.req \in Requests
      BY <1>3, <2>1 DEF RequestInv, Placed, KeyedOperations
    <2>3. CASE you.req.op = "create"
      <3>1. you.req.wallet \in Wallets
        BY <2>2, <2>3, RequestShape
      <3>2. you.req.wallet \in you.held
        BY <2>2, <3>1, NoneAssumption DEF WalletsOf
      <3>3. MayCreate(you.req) /\ you.before = Balance(record, you.req.wallet)
        BY <1>3, <2>2, <2>3 DEF StillAllowed
      <3>4. wallet[you.req.wallet] = "active"
        BY <3>3 DEF MayCreate, WalletActive
      <3>5. MayCreate(you.req)' /\ you.before = Balance(record', you.req.wallet)
        BY <3>2, <3>3, <3>4 DEF MayCreate, WalletActive, CategoryUsable
      <3> QED
        BY <2>3, <3>5 DEF StillAllowed, Revising, LimitOperations
    <2>4. CASE you.req.op = "edit"
      <3>1. MayEdit(you.req, you.was)
        BY <1>3, <2>2, <2>4 DEF StillAllowed
      <3>2. MayEdit(you.req, you.was)'
        <4> DEFINE new == Edited(you.req, you.was, you.was.version)
        <4>1. new.wallet # you.was.wallet => new.wallet \in you.held
          BY <2>2 DEF Edited, Result, Changes, WalletsOf
        <4>2. new.wallet # you.was.wallet => WalletActive(new.wallet)'
          BY <3>1, <4>1 DEF MayEdit, WalletActive
        <4> QED
          BY <3>1, <4>2 DEF MayEdit, CategoryUsable
      <3> QED
        BY <2>4, <3>2 DEF StillAllowed, Revising, LimitOperations
    <2> QED
      BY <2>1, <2>3, <2>4
  <1>4. StillAllowed(you)'
    BY <1>3 DEF StillAllowed
  <1> QED
    BY <1>1, <1>2, <1>4

LEMMA SameBalance ==
    ASSUME NEW w,
           \A t \in Txns : record'[t] = record[t] \/ (record[t].wallet # w /\ record'[t].wallet # w)
    PROVE  Balance(record', w) = Balance(record, w)
  <1>1. \A type : {t \in Txns : record'[t].wallet = w /\ record'[t].type = type}
                  = {t \in Txns : record[t].wallet = w /\ record[t].type = type}
    OBVIOUS
  <1> QED
    BY <1>1 DEF Balance

\* The keys after a commit, and what the others know of theirs.
LEMMA CommitKeeps ==
    ASSUME IInv, NEW c \in Clients, NEW answer \in Answers, Honest(answer), Commit(c, answer),
           tx[c].pc \in {"work", "wallets", "write"}
    PROVE  /\ tx' \in [Clients -> Transaction] /\ reply' \in [Clients -> Answers]
           /\ key' \in [Keys -> KeyRows] /\ applied' \in [Keys -> [times : Nat, at : Nat]]
           /\ clock' = clock
           /\ \A d \in Clients : tx'[d] = IF d = c THEN Idle ELSE tx[d]
           /\ \A d \in Clients \ {c} : KeyHeld(tx[d])'
           /\ KeysInv' /\ RepliesInv' /\ LocksInv'
  <1> DEFINE me == tx[c]
             k == me.req.key
  <1>1. TypeOK /\ KeysInv /\ RepliesInv /\ LocksInv
    BY DEF IInv
  <1>2. me.req \in Requests /\ k \in Keys \cup {None} /\ me.now \in Nat
    BY Busyness, RequestFields, TransactionFields
  <1>3. tx' = [tx EXCEPT ![c] = Idle] /\ clock' = clock /\ reply' = [reply EXCEPT ![c] = answer]
    BY DEF Commit, Ends
  <1>4. \A d \in Clients : tx'[d] = IF d = c THEN Idle ELSE tx[d]
    BY <1>1, <1>3, TxFields
  <1>5. tx' \in [Clients -> Transaction] /\ reply' \in [Clients -> Answers]
    BY <1>1, <1>3, TxFields, IdleTyped DEF TypeOK
  <1>6. RepliesInv'
    BY <1>1, <1>3, <1>5 DEF RepliesInv, Honest, TypeOK
  <1>7. LocksInv'
    BY <1>1, <1>3, LocksKept, IdleQuiet
  <1> DEFINE new == KeyRow(me.req, answer, me.now + KeyTTL)
  <1>8. /\ new \in KeyRows /\ new.body = answer /\ new.expires = me.now + KeyTTL /\ new # NoKey
    <2>1. me.now + KeyTTL \in Nat /\ me.now + KeyTTL # 0
      BY <1>2, BoundAssumption
    <2> QED
      BY <1>2, <2>1 DEF KeyRow, KeyRows, NoKey
  <1>9. CASE k = None
    <2>1. key' = key /\ applied' = applied
      BY <1>9 DEF Commit
    <2>2. \A d \in Clients \ {c} : KeyHeld(tx[d])'
      <3>1. \A d \in Clients : KeyHeld(tx[d])
        BY DEF IInv, RequestsInv, RequestInv
      <3> QED
        BY <1>3, <1>4, <2>1, <3>1 DEF KeyHeld, HoldsKey
    <2>3. KeysInv'
      BY <1>1, <1>3, <2>1 DEF KeysInv, KeyInv, HasKey, Honest
    <2> QED
      BY <1>1, <1>3, <1>4, <1>5, <1>6, <1>7, <2>1, <2>2, <2>3 DEF TypeOK
  <1>10. CASE k # None
    <2> HIDE DEF new
    <2>1. /\ k \in Keys
          /\ key' = [key EXCEPT ![k] = new]
          /\ applied' = [applied EXCEPT ![k] = [times |-> applied[k].times + 1, at |-> me.now]]
      BY <1>2, <1>10 DEF Commit, new
    <2>2. applied[k] \in [times : Nat, at : Nat]
      BY <1>1, <2>1 DEF TypeOK
    <2>3. key' \in [Keys -> KeyRows] /\ applied' \in [Keys -> [times : Nat, at : Nat]]
      BY <1>1, <1>2, <1>8, <2>1, <2>2 DEF TypeOK
    <2>4. \A j \in Keys \ {k} : key'[j] = key[j] /\ applied'[j] = applied[j]
      BY <1>1, <2>1 DEF TypeOK
    <2>5. key'[k] = new /\ applied'[k].at = me.now
      BY <1>1, <2>1 DEF TypeOK
    <2>6. ASSUME NEW d \in Clients \ {c} PROVE KeyHeld(tx[d])'
      <3>1. tx'[d] = tx[d] /\ KeyHeld(tx[d]) /\ Apart(tx[c], tx[d]) /\ HoldsKey(tx[c])
            /\ tx[d] \in Transaction
        BY <1>4, <1>10, Busyness DEF IInv, RequestsInv, RequestInv, HoldsKey
      <3>2. HoldsKey(tx[d]) => tx[d].req.key \in Keys \ {k}
        <4>1. HoldsKey(tx[d]) => tx[d].req \in Requests
          BY Busyness DEF HoldsKey
        <4> QED
          BY <3>1, <4>1, RequestFields DEF Apart, HoldsKey
      <3> QED
        BY <1>3, <2>4, <3>1, <3>2 DEF KeyHeld, HoldsKey
    <2>7. ASSUME NEW j \in Keys PROVE (KeyInv(j) /\ Honest(key[j].body))'
      <3>1. CASE j = k
        BY <1>8, <2>5, <3>1 DEF KeyInv, HasKey, Honest
      <3>2. CASE j # k
        BY <1>1, <1>3, <2>4, <3>2 DEF KeysInv, KeyInv, HasKey, Honest
      <3> QED
        BY <3>1, <3>2
    <2> QED
      BY <1>3, <1>4, <1>5, <1>6, <1>7, <2>3, <2>6, <2>7 DEF KeysInv
  <1> QED
    BY <1>9, <1>10

Kept(you) == Placed(you) /\ StillSeen(you) /\ StillAllowed(you)

LEMMA CommitStep ==
    ASSUME IInv, NEW c \in Clients, NEW answer \in Answers, Honest(answer), Commit(c, answer),
           tx[c].pc \in {"work", "wallets", "write"},
           wallet' \in [Wallets -> {"absent", "active", "deleted"}],
           category' \in [Categories -> {"absent", "active", "archived", "gone"}],
           limits' \subseteq Limit, record' \in [Txns -> Record \cup {NoRecord}],
           operation' \in [OpIds -> Operation], used' \subseteq Txns,
           \A t \in Txns : RecordInv(t)',
           \A d \in Clients \ {c} : \E you : you = tx[d] /\ Kept(you)'
    PROVE  IInv'
  <1>1. /\ tx' \in [Clients -> Transaction] /\ reply' \in [Clients -> Answers]
        /\ key' \in [Keys -> KeyRows] /\ applied' \in [Keys -> [times : Nat, at : Nat]]
        /\ clock' = clock
        /\ \A d \in Clients : tx'[d] = IF d = c THEN Idle ELSE tx[d]
        /\ \A d \in Clients \ {c} : KeyHeld(tx[d])'
        /\ KeysInv' /\ RepliesInv' /\ LocksInv'
    BY CommitKeeps
  <1>2. TypeOK'
    BY <1>1 DEF IInv, TypeOK
  <1>3. RequestsInv'
    <2> SUFFICES ASSUME NEW d \in Clients PROVE RequestInv(tx[d])'
      BY DEF RequestsInv
    <2>1. CASE d = c
      <3>1. tx'[d] = Idle /\ RequestInv(Idle)'
        BY <1>1, <2>1, IdleTyped DEF RequestInv, Placed, StillSeen, StillAllowed, KeyHeld, HoldsKey,
              HoldsRecord, Locking
      <3>2. PICK you : you = tx'[d]
        OBVIOUS
      <3>3. RequestInv(you)'
        BY <3>1, <3>2
      <3> QED
        BY <3>2, <3>3
    <2>2. CASE d # c
      <3>1. PICK you : you = tx[d] /\ Kept(you)'
        BY <2>2
      <3>2. you = tx'[d] /\ KeyHeld(tx[d])'
        BY <1>1, <2>2, <3>1
      <3>3. RequestInv(you)'
        BY <3>1, <3>2 DEF Kept, RequestInv
      <3> QED
        BY <3>2, <3>3
    <2> QED
      BY <2>1, <2>2
  <1>4. RecordsInv'
    BY DEF RecordsInv
  <1> QED
    BY <1>1, <1>2, <1>3, <1>4 DEF IInv

LEMMA NoAnswerHonest == NoAnswer \in Answers /\ Honest(NoAnswer)
  BY DEF NoAnswer, Answers, Honest

\* Categories and limits: the space is the request's alone.
LEMMA SettingStep ==
    ASSUME IInv, NEW c \in Clients, tx[c].pc \in {"work", "write"}, Exclusive(tx[c].req),
           Commit(c, NoAnswer),
           category' \in [Categories -> {"absent", "active", "archived", "gone"}],
           limits' \subseteq Limit, UNCHANGED <<wallet, record, operation, used>>
    PROVE  IInv'
  <1>1. ASSUME NEW d \in Clients \ {c} PROVE \E you : you = tx[d] /\ Kept(you)'
    <2>1. Apart(tx[c], tx[d]) /\ RequestInv(tx[d])
      BY Busyness DEF IInv, RequestsInv
    <2>2. tx[d] = Idle
      BY <2>1 DEF Apart, RequestInv, Placed
    <2>3. Kept(Idle)'
      BY IdleTyped DEF Kept, Placed, StillSeen, StillAllowed, HoldsRecord, Locking
    <2> QED
      BY <2>2, <2>3
  <1>2. \A t \in Txns : RecordInv(t)'
    BY DEF IInv, RecordsInv, RecordInv, Exists
  <1>3. TypeOK
    BY DEF IInv
  <1> QED
    BY <1>1, <1>2, <1>3, NoAnswerHonest, CommitStep DEF TypeOK

LEMMA LimitsTyped ==
    ASSUME IInv
    PROVE  limits \subseteq Limit /\ \A l \in limits : l.id \in Limits /\ l.cats \subseteq Categories
  BY DEF IInv, TypeOK, Limit

LEMMA SettingCommits ==
    ASSUME IInv, NEW c \in Clients, AddCategory(c) \/ WriteCategory(c) \/ WriteLimit(c)
    PROVE  IInv'
  <1>1. /\ tx[c].pc \in {"work", "write"} /\ Commit(c, NoAnswer)
        /\ UNCHANGED <<wallet, record, operation, used>>
    BY DEF AddCategory, WriteCategory, WriteLimit, Does, At
  <1>2. Exclusive(tx[c].req)
    BY DEF AddCategory, WriteCategory, WriteLimit, Does, Exclusive, CategoryOperations
  <1>3. category \in [Categories -> {"absent", "active", "archived", "gone"}] /\ limits \subseteq Limit
    BY DEF IInv, TypeOK
  <1>4. tx[c].req \in Requests
    BY <1>1, Busyness
  <1>5. CASE AddCategory(c)
    <2>1. limits' = limits /\ category' = [category EXCEPT ![tx[c].req.category] = "active"]
      BY <1>5 DEF AddCategory
    <2> QED
      BY <1>1, <1>2, <1>3, <2>1, SettingStep
  <1>6. CASE WriteCategory(c)
    <2> DEFINE k == tx[c].req.category
    <2>1. category' \in [Categories -> {"absent", "active", "archived", "gone"}]
      <3>1. tx[c].req.op \in CategoryOperations
        BY <1>6 DEF WriteCategory, Does
      <3>2. k \in Categories
        BY <1>4, <3>1, RequestShape
      <3>3. PICK new : /\ category' = [category EXCEPT ![k] = new]
                       /\ new \in {"active", "archived", "gone", category[k]}
        BY <1>6, Zenon DEF WriteCategory
      <3> QED
        BY <1>3, <3>2, <3>3
    <2>2. limits' \subseteq Limit
      <3>1. limits' = limits \/ limits' = Unlinked(k)
        BY <1>6, Zenon DEF WriteCategory
      <3>2. Unlinked(k) \subseteq Limit
        BY LimitsTyped DEF Unlinked, LimitRow, Limit
      <3> QED
        BY <1>3, <3>1, <3>2
    <2> QED
      BY <1>1, <1>2, <2>1, <2>2, SettingStep
  <1>7. CASE WriteLimit(c)
    <2> DEFINE r == tx[c].req
    <2>1. /\ r.op \in LimitOperations /\ category' = category
          /\ limits' = {m \in limits : m.id # r.limit} \cup
                       (IF r.op = "removeLimit" THEN {} ELSE {LimitRow(r.limit, r.cats)})
      BY <1>7 DEF WriteLimit, Does
    <2>2. r.limit \in Limits
      BY <1>4, <2>1, RequestShape
    <2>3. r.op # "removeLimit" => r.cats \subseteq Categories
      <3>1. tx[c].pc = "write" /\ StillAllowed(tx[c])
        BY <1>7, Busyness DEF WriteLimit, Does, At, RequestInv
      <3>2. LimitChecked(r)
        BY <2>1, <3>1 DEF StillAllowed
      <3> QED
        BY <3>2 DEF LimitChecked, LimitAllowed, CategoryUsable
    <2>4. limits' \subseteq Limit
      BY <1>3, <2>1, <2>2, <2>3 DEF LimitRow, Limit
    <2> QED
      BY <1>1, <1>2, <1>3, <2>1, <2>4, SettingStep
  <1> QED
    BY <1>5, <1>6, <1>7

\* A record that is written or deleted, with the wallets that this changes held.
Writes(c, t, new) ==
    /\ record' = [record EXCEPT ![t] = new]
    /\ new \in Record \cup {NoRecord}
    /\ new # NoRecord => t \in used'
    /\ new # NoRecord /\ new.category # System => TypeFits(new.category, new.type)
    /\ \A d \in Clients \ {c} : HoldsRecord(tx[d]) => tx[d].req.txn # t
    /\ \A d \in Clients \ {c} : \A w \in tx[d].held : wallet[w] = "active" =>
           wallet'[w] = "active" /\ record[t].wallet # w /\ new.wallet # w
    /\ wallet' \in [Wallets -> {"absent", "active", "deleted"}]
    /\ operation' \in [OpIds -> Operation] /\ used \subseteq used' /\ used' \subseteq Txns
    /\ UNCHANGED <<category, limits>>

LEMMA RecordStep ==
    ASSUME IInv, NEW c \in Clients, NEW answer \in Answers, Honest(answer), Commit(c, answer),
           tx[c].pc \in {"work", "wallets", "write"}, NEW t \in Txns, NEW new, Writes(c, t, new)
    PROVE  IInv'
  <1> USE DEF Writes
  <1>1. record \in [Txns -> Record \cup {NoRecord}] /\ TypeOK /\ clock' = clock
    BY DEF IInv, TypeOK, Commit
  <1>2. record' \in [Txns -> Record \cup {NoRecord}]
        /\ \A u \in Txns : record'[u] = IF u = t THEN new ELSE record[u]
    BY <1>1
  <1>3. ASSUME NEW u \in Txns PROVE RecordInv(u)'
    <2>1. CASE u = t
      BY <1>2, <2>1 DEF RecordInv, Exists
    <2>2. CASE u # t
      BY <1>2, <2>2 DEF IInv, RecordsInv, RecordInv, Exists
    <2> QED
      BY <2>1, <2>2
  <1>4. ASSUME NEW d \in Clients \ {c} PROVE \E you : you = tx[d] /\ Kept(you)'
    <2>1. PICK you : you = tx[d]
      OBVIOUS
    <2>2. you \in Transaction /\ RequestInv(you) /\ Apart(tx[c], you)
      BY <2>1, Busyness DEF IInv, RequestsInv
    <2>3. you.pc # "idle" /\ Exclusive(you.req) => FALSE
      BY <2>2 DEF Apart
    <2>4. \A w \in you.held : wallet[w] = "active" =>
              wallet'[w] = "active" /\ Balance(record', w) = Balance(record, w)
      <3> SUFFICES ASSUME NEW w \in you.held, wallet[w] = "active"
                   PROVE  wallet'[w] = "active" /\ Balance(record', w) = Balance(record, w)
        OBVIOUS
      <3>1. wallet'[w] = "active" /\ record[t].wallet # w /\ new.wallet # w
        BY <2>1
      <3>2. \A u \in Txns : record'[u] = record[u] \/ (record[u].wallet # w /\ record'[u].wallet # w)
        BY <1>2, <3>1
      <3> QED
        BY <3>1, <3>2, SameBalance
    <2>5. HoldsRecord(you) => record'[you.req.txn] = record[you.req.txn]
      <3>1. HoldsRecord(you) => you.req \in Requests /\ you.req.op \in {"edit", "remove"}
        BY <2>2 DEF HoldsRecord, RequestInv, Placed, Locking, Changing
      <3> QED
        BY <1>2, <2>1, <3>1, RequestShape
    <2>6. (Placed(you) /\ StillSeen(you) /\ StillAllowed(you))'
      BY <1>1, <2>2, <2>3, <2>4, <2>5, OthersKeep
    <2> QED
      BY <2>1, <2>6 DEF Kept
  <1> QED
    BY <1>1, <1>2, <1>3, <1>4, CommitStep DEF TypeOK

LEMMA AnswerFields ==
    ASSUME NEW r \in Requests, NEW before \in Int, NEW rec, NEW ws
    PROVE  LET answer == Answer(r, before, rec, ws) IN
           /\ answer \in Answers /\ answer.req = r /\ answer.before = before
           /\ \A w \in Wallets \cap ws : answer.after[w] = Balance(rec, w)
  <1>1. \A w : Balance(rec, w) \in Int
    BY BalanceKnown
  <1>2. [w \in Wallets |-> IF w \in ws THEN Balance(rec, w) ELSE 0] \in [Wallets -> Int]
    BY <1>1
  <1> QED
    BY <1>2 DEF Answer, Answers

\* A new record changes the balance of its wallet by its amount.
LEMMA AddedBalance ==
    ASSUME record \in [Txns -> Record \cup {NoRecord}], NEW t \in Txns, record[t] = NoRecord,
           NEW w \in Wallets, NEW type \in Types, NEW new,
           new.wallet = w, new.type = type, record' = [record EXCEPT ![t] = new]
    PROVE  Balance(record', w) = Balance(record, w) + Value(type)
  <1>1. record[t].wallet # w
    BY NoneAssumption DEF NoRecord
  <1>2. \A u \in Txns : record'[u] = IF u = t THEN new ELSE record[u]
    OBVIOUS
  <1>3. Counted(record', w, type) = Counted(record, w, type) \cup {t} /\ t \notin Counted(record, w, type)
    BY <1>1, <1>2 DEF Counted
  <1>4. \A other : other # type => Counted(record', w, other) = Counted(record, w, other)
    BY <1>1, <1>2 DEF Counted
  <1>5. IsFiniteSet(Counted(record, w, type))
    BY BalanceKnown
  <1>6. Cardinality(Counted(record', w, type)) = Cardinality(Counted(record, w, type)) + 1
    <2>1. PICK old : old = Counted(record, w, type)
      OBVIOUS
    <2>2. Cardinality(old \cup {t}) = Cardinality(old) + 1
      BY <1>3, <1>5, <2>1, FS_AddElement
    <2> QED
      BY <1>3, <2>1, <2>2
  <1>7. \A any : Cardinality(Counted(record, w, any)) \in Nat
    BY BalanceKnown
  <1>8. /\ Balance(record, w) = Cardinality(Counted(record, w, "income"))
                                - Cardinality(Counted(record, w, "expense"))
        /\ Balance(record', w) = Cardinality(Counted(record', w, "income"))
                                 - Cardinality(Counted(record', w, "expense"))
    BY BalanceKnown
  <1>9. CASE type = "income"
    <2>1. Cardinality(Counted(record', w, "expense")) = Cardinality(Counted(record, w, "expense"))
      BY <1>4, <1>9
    <2> QED
      BY <1>6, <1>7, <1>8, <1>9, <2>1 DEF Value
  <1>10. CASE type = "expense"
    <2>1. Cardinality(Counted(record', w, "income")) = Cardinality(Counted(record, w, "income"))
      BY <1>4, <1>10
    <2> QED
      BY <1>6, <1>7, <1>8, <1>10, <2>1 DEF Value
  <1> QED
    BY <1>9, <1>10 DEF Types

LEMMA NewRecordFields ==
    ASSUME NEW w \in Wallets, NEW k \in Categories \cup {System}, NEW type \in Types
    PROVE  /\ NewRecord(w, k, type) \in Record /\ NewRecord(w, k, type).wallet = w
           /\ NewRecord(w, k, type).category = k /\ NewRecord(w, k, type).type = type
           /\ NewRecord(w, k, type).version = 1
  BY DEF NewRecord, Record

\* An id that was never given out has no record, and nobody has locked one.
LEMMA Unused ==
    ASSUME IInv, NEW t \in Txns \ used
    PROVE  /\ record[t] = NoRecord
           /\ \A d \in Clients : HoldsRecord(tx[d]) => tx[d].req.txn # t
  <1>1. ~Exists(t)
    BY DEF IInv, RecordsInv, RecordInv
  <1> QED
    BY <1>1 DEF IInv, RequestsInv, RequestInv, StillSeen, Editable, Exists

LEMMA CreateCommit ==
    ASSUME IInv, NEW c \in Clients, WriteCreate(c)
    PROVE  IInv'
  <1> DEFINE r == tx[c].req
  <1>1. tx[c].pc = "write" /\ r.op = "create" /\ ~Taken(r.opId) /\ UNCHANGED <<wallet, category, limits>>
    BY DEF WriteCreate, Does, At
  <1>2. PICK t \in Txns \ used :
           /\ record' = [record EXCEPT ![t] = NewRecord(r.wallet, r.category, r.type)]
           /\ operation' = IF r.opId = None THEN operation
                           ELSE [operation EXCEPT ![r.opId] = [txn |-> t, deleted |-> FALSE]]
           /\ used' = used \cup {t}
    BY DEF WriteCreate
  <1>3. Commit(c, Answer(r, tx[c].before, record', {r.wallet}))
    BY DEF WriteCreate
  <1>4. /\ r \in Requests /\ r.wallet \in Wallets /\ r.category \in Categories \cup {System}
        /\ r.type \in Types /\ tx[c].before \in Int /\ r.opId \in OpIds \cup {None}
    BY <1>1, Busyness, RequestShape, RequestFields, TransactionFields
  <1>5. MayCreate(r) /\ tx[c].before = Balance(record, r.wallet)
        /\ r.wallet \in tx[c].held
    <2>1. RequestInv(tx[c])
      BY Busyness
    <2> QED
      BY <1>1, <1>4, <2>1, NoneAssumption DEF RequestInv, Placed, StillAllowed, WalletsOf, KeyedOperations
  <1> DEFINE new == NewRecord(r.wallet, r.category, r.type)
             answer == Answer(r, tx[c].before, record', {r.wallet})
  <1>6. /\ new \in Record /\ new.wallet = r.wallet /\ new.category = r.category /\ new.type = r.type
    BY <1>4, NewRecordFields
  <1>7. /\ record[t] = NoRecord
        /\ \A d \in Clients : HoldsRecord(tx[d]) => tx[d].req.txn # t
    BY Unused
  <1>8. TypeOK
    BY DEF IInv
  <1>9. answer \in Answers /\ Honest(answer)
    <2>1. Balance(record', r.wallet) = Balance(record, r.wallet) + Value(r.type)
      <3> HIDE DEF new
      <3>1. record' = [record EXCEPT ![t] = new]
        BY <1>2 DEF new
      <3> QED
        BY <1>4, <1>6, <1>7, <1>8, <3>1, AddedBalance DEF TypeOK
    <2>2. /\ answer \in Answers /\ answer.req = r /\ answer.before = tx[c].before
          /\ answer.after[r.wallet] = Balance(record', r.wallet)
      <3>1. PICK b \in Int : \E rec, ws :
                rec = record' /\ ws = {r.wallet} /\ b = tx[c].before
        BY <1>4
      <3> PICK rec, ws : rec = record' /\ ws = {r.wallet}
        BY <3>1
      <3>2. LET a == Answer(r, b, rec, ws) IN
            /\ a \in Answers /\ a.req = r /\ a.before = b
            /\ \A w \in Wallets \cap ws : a.after[w] = Balance(rec, w)
        BY <1>4, AnswerFields
      <3>3. r.wallet \in Wallets \cap ws
        BY <1>4, <3>1
      <3> QED
        BY <3>1, <3>2, <3>3
    <2> QED
      BY <1>5, <2>1, <2>2 DEF Honest
  <1>10. operation' \in [OpIds -> Operation]
    BY <1>2, <1>4, <1>8 DEF TypeOK, Operation
  <1>11. \A d \in Clients \ {c} : \A w \in tx[d].held : wallet[w] = "active" =>
            wallet'[w] = "active" /\ record[t].wallet # w /\ new.wallet # w
    <2> SUFFICES ASSUME NEW d \in Clients \ {c}, NEW w \in tx[d].held, wallet[w] = "active"
                 PROVE  wallet'[w] = "active" /\ record[t].wallet # w /\ new.wallet # w
      OBVIOUS
    <2>1. Apart(tx[c], tx[d]) /\ w \in Wallets
      BY Busyness, TransactionFields
    <2>2. w # r.wallet
      BY <1>5, <2>1 DEF Apart
    <2>3. record[t].wallet # w
      BY <1>7, <2>1, NoneAssumption DEF NoRecord
    <2> QED
      BY <1>1, <1>6, <2>2, <2>3
  <1>12. new.category # System => TypeFits(new.category, new.type)
    BY <1>5, <1>6 DEF MayCreate
  <1>13. /\ record' = [record EXCEPT ![t] = new]
         /\ t \in used' /\ used \subseteq used'
    BY <1>2
  <1>14. /\ used' \subseteq Txns /\ wallet' \in [Wallets -> {"absent", "active", "deleted"}]
         /\ UNCHANGED <<category, limits>>
    BY <1>1, <1>2, <1>8 DEF TypeOK
  <1>15. Commit(c, answer)
    BY <1>3
  <1> HIDE DEF new, answer
  <1>16. Writes(c, t, new)
    BY <1>6, <1>7, <1>10, <1>11, <1>12, <1>13, <1>14 DEF Writes
  <1> QED
    BY <1>1, <1>9, <1>15, <1>16, RecordStep

LEMMA AddWalletCommit ==
    ASSUME IInv, NEW c \in Clients, AddWallet(c)
    PROVE  IInv'
  <1> DEFINE r == tx[c].req
  <1>1. /\ tx[c].pc = "work" /\ r.op = "addWallet" /\ wallet[r.wallet] = "absent"
        /\ wallet' = [wallet EXCEPT ![r.wallet] = "active"]
        /\ Commit(c, NoAnswer) /\ UNCHANGED <<category, limits, operation>>
    BY DEF AddWallet, Does, At
  <1>2. r \in Requests /\ r.wallet \in Wallets /\ TypeOK
    BY <1>1, Busyness, RequestShape DEF WalletOperations, IInv
  <1>3. /\ wallet' \in [Wallets -> {"absent", "active", "deleted"}]
        /\ \A w \in Wallets : wallet[w] = "active" => wallet'[w] = "active" /\ w # r.wallet
    BY <1>1, <1>2 DEF TypeOK
  <1>4. CASE UNCHANGED <<record, used>>
    <2>1. ASSUME NEW d \in Clients \ {c} PROVE \E you : you = tx[d] /\ Kept(you)'
      <3>1. PICK you : you = tx[d]
        OBVIOUS
      <3>2. you \in Transaction /\ RequestInv(you) /\ Apart(tx[c], you) /\ you.held \subseteq Wallets
        BY <3>1, Busyness, TransactionFields DEF IInv, RequestsInv
      <3>3. you.pc # "idle" /\ Exclusive(you.req) => FALSE
        BY <1>1, <3>2 DEF Apart
      <3>4. (Placed(you) /\ StillSeen(you) /\ StillAllowed(you))'
        BY <1>1, <1>3, <1>4, <3>2, <3>3, OthersKeep DEF Commit
      <3> QED
        BY <3>1, <3>4 DEF Kept
    <2>2. \A t \in Txns : RecordInv(t)'
      BY <1>4 DEF IInv, RecordsInv, RecordInv, Exists
    <2> QED
      BY <1>1, <1>2, <1>3, <1>4, <2>1, <2>2, NoAnswerHonest, CommitStep DEF TypeOK
  <1>5. CASE \E t \in Txns \ used :
               /\ record' = [record EXCEPT ![t] = NewRecord(r.wallet, System, "income")]
               /\ used' = used \cup {t}
    <2>1. PICK t \in Txns \ used :
             /\ record' = [record EXCEPT ![t] = NewRecord(r.wallet, System, "income")]
             /\ used' = used \cup {t}
      BY <1>5
    <2> DEFINE new == NewRecord(r.wallet, System, "income")
    <2>2. new \in Record /\ new.wallet = r.wallet /\ new.category = System
      BY <1>2, NewRecordFields DEF Types
    <2>3. /\ record[t] = NoRecord
          /\ \A d \in Clients : HoldsRecord(tx[d]) => tx[d].req.txn # t
      BY Unused
    <2>4. \A d \in Clients \ {c} : \A w \in tx[d].held : wallet[w] = "active" =>
              wallet'[w] = "active" /\ record[t].wallet # w /\ new.wallet # w
      <3> SUFFICES ASSUME NEW d \in Clients \ {c}, NEW w \in tx[d].held, wallet[w] = "active"
                   PROVE  wallet'[w] = "active" /\ record[t].wallet # w /\ new.wallet # w
        OBVIOUS
      <3>1. w \in Wallets
        BY Busyness, TransactionFields
      <3> QED
        BY <1>3, <2>2, <2>3, <3>1, NoneAssumption DEF NoRecord
    <2>5. /\ record' = [record EXCEPT ![t] = new]
          /\ t \in used' /\ used \subseteq used' /\ used' \subseteq Txns
          /\ operation' \in [OpIds -> Operation]
      BY <1>1, <1>2, <2>1 DEF TypeOK
    <2> HIDE DEF new
    <2>6. Writes(c, t, new)
      BY <1>1, <1>3, <2>2, <2>3, <2>4, <2>5 DEF Writes
    <2> QED
      BY <1>1, <2>6, NoAnswerHonest, RecordStep
  <1> QED
    BY <1>4, <1>5 DEF AddWallet

LEMMA EditedTyped ==
    ASSUME NEW r \in Requests, NEW old \in Record, NEW version \in Nat \ {0}
    PROVE  /\ Edited(r, old, version) \in Record /\ Edited(r, old, version) # NoRecord
           /\ Edited(r, old, version).wallet \in {old.wallet, r.wallet} \ {None}
           /\ Edited(r, old, version).wallet = Result(r.wallet, old.wallet)
           /\ Edited(r, old, version).category = Result(r.category, old.category)
           /\ Edited(r, old, version).type = Result(r.type, old.type)
           /\ Edited(r, old, version).version = version
  <1>1. /\ r.wallet \in Wallets \cup {None} /\ r.category \in Categories \cup {System, None}
        /\ r.type \in Types \cup {None}
    BY RequestFields
  <1>2. old.wallet \in Wallets /\ old.category \in Categories \cup {System} /\ old.type \in Types
    BY DEF Record
  <1>3. /\ Result(r.wallet, old.wallet) \in Wallets
        /\ Result(r.wallet, old.wallet) \in {old.wallet, r.wallet} \ {None}
        /\ Result(r.category, old.category) \in Categories \cup {System}
        /\ Result(r.type, old.type) \in Types
    BY <1>1, <1>2, NoneAssumption DEF Result, Changes
  <1> QED
    BY <1>3 DEF Edited, Record, NoRecord

\* A request that changes a record holds it and its wallets.
LEMMA Changer ==
    ASSUME IInv, NEW c \in Clients, HoldsRecord(tx[c])
    PROVE  LET r == tx[c].req
               t == r.txn IN
           /\ r \in Requests /\ t \in Txns
           /\ record[t] \in Record /\ record[t] # NoRecord /\ record[t].version \in Nat \ {0}
           /\ tx[c].was = record[t] /\ record[t].version = r.version
           /\ record[t].category # System /\ t \in used
           /\ TypeFits(record[t].category, record[t].type)
           /\ \A d \in Clients \ {c} : HoldsRecord(tx[d]) => tx[d].req.txn # t
  <1> DEFINE r == tx[c].req
             t == r.txn
  <1>1. r \in Requests /\ t \in Txns
    BY Busyness, RequestShape DEF HoldsRecord, Locking, Changing
  <1>2. tx[c].was = record[t] /\ Editable(t, r.version)
    BY Busyness DEF RequestInv, StillSeen
  <1>3. record[t] \in Record /\ record[t] # NoRecord /\ RecordInv(t)
    BY <1>1, <1>2 DEF IInv, TypeOK, Editable, Exists, RecordsInv
  <1>4. record[t].version \in Nat \ {0}
    BY <1>3 DEF Record
  <1>5. \A d \in Clients \ {c} : HoldsRecord(tx[d]) => tx[d].req.txn # t
    BY Busyness DEF Apart
  <1> QED
    BY <1>1, <1>2, <1>3, <1>4, <1>5 DEF Editable, RecordInv, Exists

\* Nobody else holds a wallet of a request that has locked all its own.
LEMMA OwnWallets ==
    ASSUME IInv, NEW c \in Clients, WalletsOf(tx[c]) \subseteq tx[c].held,
           NEW d \in Clients \ {c}, NEW w \in tx[d].held
    PROVE  w \in Wallets /\ w \notin WalletsOf(tx[c])
  BY Busyness, TransactionFields DEF Apart

LEMMA RemoveCommit ==
    ASSUME IInv, NEW c \in Clients, WriteRemove(c)
    PROVE  IInv'
  <1> DEFINE r == tx[c].req
             t == r.txn
             answer == Answer(r, 0, record', {})
  <1>1. /\ tx[c].pc = "wallets" /\ r.op = "remove" /\ WalletsOf(tx[c]) \subseteq tx[c].held
        /\ record' = [record EXCEPT ![t] = NoRecord]
        /\ operation' = [o \in OpIds |-> IF operation[o].txn = t
                                         THEN [txn |-> t, deleted |-> TRUE] ELSE operation[o]]
        /\ Commit(c, answer) /\ UNCHANGED <<wallet, category, limits, used>>
    BY DEF WriteRemove, WalletsLocked, Does, At, ToLock
  <1>2. HoldsRecord(tx[c])
    BY <1>1 DEF HoldsRecord, Locking, Changing
  <1>3. /\ r \in Requests /\ t \in Txns /\ record[t] \in Record /\ tx[c].was = record[t]
        /\ \A d \in Clients \ {c} : HoldsRecord(tx[d]) => tx[d].req.txn # t
    BY <1>2, Changer
  <1>4. answer \in Answers /\ Honest(answer)
    <2>1. answer \in Answers /\ answer.req = r
      <3>1. PICK rec : rec = record'
        OBVIOUS
      <3>2. Answer(r, 0, rec, {}) \in Answers /\ Answer(r, 0, rec, {}).req = r
        BY <1>3, AnswerFields
      <3> QED
        BY <3>1, <3>2
    <2> QED
      BY <1>1, <2>1 DEF Honest
  <1>5. \A d \in Clients \ {c} : \A w \in tx[d].held : wallet[w] = "active" =>
            wallet'[w] = "active" /\ record[t].wallet # w /\ NoRecord.wallet # w
    <2> SUFFICES ASSUME NEW d \in Clients \ {c}, NEW w \in tx[d].held, wallet[w] = "active"
                 PROVE  wallet'[w] = "active" /\ record[t].wallet # w /\ NoRecord.wallet # w
      OBVIOUS
    <2>1. w \in Wallets /\ w \notin WalletsOf(tx[c])
      BY <1>1, OwnWallets
    <2>2. record[t].wallet # w
      BY <1>3, <2>1, NoneAssumption DEF WalletsOf
    <2>3. NoRecord.wallet # w
      BY <2>1, NoneAssumption DEF NoRecord
    <2> QED
      BY <1>1, <2>2, <2>3
  <1>6. TypeOK
    BY DEF IInv
  <1>7. operation' \in [OpIds -> Operation]
    BY <1>1, <1>3, <1>6 DEF TypeOK, Operation
  <1>8. Writes(c, t, NoRecord)
    BY <1>1, <1>3, <1>5, <1>6, <1>7 DEF Writes, TypeOK
  <1> HIDE DEF answer
  <1> QED
    BY <1>1, <1>3, <1>4, <1>8, RecordStep

LEMMA EditCommit ==
    ASSUME IInv, NEW c \in Clients, WriteEdit(c)
    PROVE  IInv'
  <1> DEFINE r == tx[c].req
             t == r.txn
             old == tx[c].was
             answer == Answer(r, 0, record', WalletsOf(tx[c]))
             new == IF Edited(r, old, old.version) = old THEN old
                    ELSE Edited(r, old, record[t].version + 1)
  <1>1. /\ tx[c].pc = "write" /\ r.op = "edit" /\ Commit(c, answer)
        /\ UNCHANGED <<wallet, category, limits, operation, used>>
    BY DEF WriteEdit, Does, At
  <1>2. HoldsRecord(tx[c])
    BY <1>1 DEF HoldsRecord, Locking, Changing
  <1>3. /\ r \in Requests /\ t \in Txns /\ record[t] \in Record /\ record[t] # NoRecord
        /\ old = record[t] /\ record[t].version \in Nat \ {0} /\ record[t].category # System
        /\ t \in used /\ TypeFits(record[t].category, record[t].type)
        /\ \A d \in Clients \ {c} : HoldsRecord(tx[d]) => tx[d].req.txn # t
    BY <1>2, Changer
  <1>4. WalletsOf(tx[c]) \subseteq tx[c].held /\ MayEdit(r, old)
    BY <1>1, Busyness DEF RequestInv, Placed, StillAllowed, KeyedOperations
  <1>5. TypeOK
    BY DEF IInv
  <1>6. record' = [record EXCEPT ![t] = new]
    <2>1. CASE Edited(r, old, old.version) = old
      BY <1>3, <1>5, <2>1 DEF WriteEdit, TypeOK
    <2>2. CASE Edited(r, old, old.version) # old
      BY <2>2 DEF WriteEdit
    <2> QED
      BY <2>1, <2>2
  <1>7. /\ new \in Record /\ new # NoRecord /\ new.wallet \in {old.wallet, r.wallet} \ {None}
        /\ new.category = Result(r.category, old.category) /\ new.type = Result(r.type, old.type)
    <2>1. \A version \in Nat \ {0} :
              /\ Edited(r, old, version) \in Record /\ Edited(r, old, version) # NoRecord
              /\ Edited(r, old, version).wallet \in {old.wallet, r.wallet} \ {None}
              /\ Edited(r, old, version).category = Result(r.category, old.category)
              /\ Edited(r, old, version).type = Result(r.type, old.type)
      <3>1. r \in Requests /\ old \in Record
        BY <1>3
      <3> QED
        BY <3>1, EditedTyped
    <2>2. old.version \in Nat \ {0} /\ record[t].version + 1 \in Nat \ {0}
      BY <1>3
    <2> QED
      BY <2>1, <2>2
  <1>8. TypeFits(new.category, new.type)
    <2> DEFINE e == Edited(r, old, old.version)
    <2>1. /\ e.category = Result(r.category, old.category) /\ e.type = Result(r.type, old.type)
      BY <1>3, EditedTyped
    <2>2. e.category # old.category \/ e.type # old.type => TypeFits(e.category, e.type)
      BY <1>4 DEF MayEdit
    <2> QED
      BY <1>3, <1>7, <2>1, <2>2
  <1>9. answer \in Answers /\ Honest(answer)
    <2>1. answer \in Answers /\ answer.req = r
      <3>1. PICK rec : rec = record'
        OBVIOUS
      <3>2. PICK ws : ws = WalletsOf(tx[c])
        OBVIOUS
      <3>3. Answer(r, 0, rec, ws) \in Answers /\ Answer(r, 0, rec, ws).req = r
        BY <1>3, AnswerFields
      <3> QED
        BY <3>1, <3>2, <3>3
    <2> QED
      BY <1>1, <2>1 DEF Honest
  <1> HIDE DEF answer, new
  <1>10. \A d \in Clients \ {c} : \A w \in tx[d].held : wallet[w] = "active" =>
            wallet'[w] = "active" /\ record[t].wallet # w /\ new.wallet # w
    <2> SUFFICES ASSUME NEW d \in Clients \ {c}, NEW w \in tx[d].held, wallet[w] = "active"
                 PROVE  wallet'[w] = "active" /\ record[t].wallet # w /\ new.wallet # w
      OBVIOUS
    <2>1. w \in Wallets /\ w \notin WalletsOf(tx[c])
      BY <1>4, OwnWallets
    <2>2. record[t].wallet # w
      BY <1>3, <2>1, NoneAssumption DEF WalletsOf
    <2>3. new.wallet # w
      BY <1>7, <2>1 DEF WalletsOf
    <2> QED
      BY <1>1, <2>2, <2>3
  <1>11. Writes(c, t, new)
    BY <1>1, <1>3, <1>5, <1>6, <1>7, <1>8, <1>10 DEF Writes, TypeOK
  <1> QED
    BY <1>1, <1>3, <1>9, <1>11, RecordStep

LEMMA DeleteWalletCommit ==
    ASSUME IInv, NEW c \in Clients, DeleteWallet(c)
    PROVE  IInv'
  <1> DEFINE r == tx[c].req
  <1>1. /\ tx[c].pc = "wallets" /\ r.op = "deleteWallet" /\ WalletsOf(tx[c]) \subseteq tx[c].held
        /\ wallet' = [wallet EXCEPT ![r.wallet] = "deleted"]
        /\ Commit(c, NoAnswer) /\ UNCHANGED <<category, limits, record, operation, used>>
    BY DEF DeleteWallet, WalletsLocked, Does, At, ToLock
  <1>2. r \in Requests /\ r.wallet \in Wallets /\ TypeOK
    BY <1>1, Busyness, RequestShape DEF WalletOperations, IInv
  <1>3. /\ wallet' \in [Wallets -> {"absent", "active", "deleted"}]
        /\ \A w \in Wallets \ {r.wallet} : wallet'[w] = wallet[w]
    BY <1>1, <1>2 DEF TypeOK
  <1>4. ASSUME NEW d \in Clients \ {c} PROVE \E you : you = tx[d] /\ Kept(you)'
    <2>1. PICK you : you = tx[d]
      OBVIOUS
    <2>2. you \in Transaction /\ RequestInv(you) /\ Apart(tx[c], you)
      BY <2>1, Busyness DEF IInv, RequestsInv
    <2>3. you.pc # "idle" /\ Exclusive(you.req) => FALSE
      BY <1>1, <2>2 DEF Apart
    <2>4. \A w \in you.held : w \in Wallets \ {r.wallet}
      <3>1. r.wallet \in WalletsOf(tx[c])
        BY <1>2, NoneAssumption DEF WalletsOf
      <3> QED
        BY <1>1, <2>1, <3>1, OwnWallets
    <2>5. \A w \in you.held : wallet[w] = "active" =>
              wallet'[w] = "active" /\ Balance(record', w) = Balance(record, w)
      BY <1>1, <1>3, <2>4
    <2>6. (Placed(you) /\ StillSeen(you) /\ StillAllowed(you))'
      BY <1>1, <2>2, <2>3, <2>5, OthersKeep DEF Commit
    <2> QED
      BY <2>1, <2>6 DEF Kept
  <1>5. \A t \in Txns : RecordInv(t)'
    BY <1>1 DEF IInv, RecordsInv, RecordInv, Exists
  <1> QED
    BY <1>1, <1>2, <1>3, <1>4, <1>5, NoAnswerHonest, CommitStep DEF TypeOK

-----------------------------------------------------------------------------
(* The purger, the clock, and the whole.                                   *)

\* Time takes nothing from a request.
LEMMA TimePasses ==
    ASSUME IInv, UNCHANGED <<rows, tx, applied>>, clock' \in Int, clock <= clock'
    PROVE  RequestsInv'
  <1> SUFFICES ASSUME NEW c \in Clients PROVE RequestInv(tx[c])'
    BY DEF RequestsInv
  <1>1. UNCHANGED <<wallet, category, limits, record, operation>>
    BY DEF rows
  <1>2. PICK me : me = tx[c]
    OBVIOUS
  <1>3. RequestInv(me) /\ me \in Transaction /\ me.now \in Int /\ clock \in Int
    BY <1>2, Busyness, TransactionFields DEF IInv, RequestsInv
  <1>4. Placed(me)'
    BY <1>3 DEF RequestInv, Placed
  <1>5. StillSeen(me)' /\ StillAllowed(me)'
    BY <1>1, <1>3 DEF RequestInv, StillSeen, StillAllowed, Editable, Exists, MayCreate,
          MayEdit, WalletActive, CategoryUsable, Balance, InSpace, LimitChecked, LimitExists,
          LimitAllowed, OtherLimits
  <1>6. KeyHeld(me)'
    <2> SUFFICES ASSUME HoldsKey(me), applied[me.req.key].times > 0
                 PROVE  clock' >= applied[me.req.key].at + KeyTTL
      BY DEF KeyHeld, HoldsKey
    <2>1. me.req \in Requests
      BY <1>3 DEF RequestInv, Placed, HoldsKey
    <2>2. me.req.key \in Keys
      BY <2>1, RequestFields DEF HoldsKey
    <2>3. applied[me.req.key].at \in Nat
      BY <2>2 DEF IInv, TypeOK
    <2>4. clock >= applied[me.req.key].at + KeyTTL
      BY <1>3 DEF RequestInv, KeyHeld
    <2> QED
      BY <1>3, <2>3, <2>4, BoundAssumption
  <1>7. RequestInv(me)' /\ me = tx'[c]
    BY <1>2, <1>4, <1>5, <1>6 DEF RequestInv
  <1> QED
    BY <1>7

LEMMA PurgeStep ==
    ASSUME IInv, NEW k \in Keys, Purge(k)
    PROVE  IInv'
  <1>1. /\ HasKey(k) /\ Expired(k, clock) /\ key' = [key EXCEPT ![k] = NoKey]
        /\ UNCHANGED <<rows, tx, reply, clock, used, applied>>
    BY DEF Purge
  <1>2. TypeOK /\ clock \in Int
    BY DEF IInv, TypeOK
  <1>3. NoKey \in KeyRows /\ Honest(NoKey.body)
    BY NoAnswerHonest DEF NoKey, KeyRows
  <1>4. TypeOK'
    BY <1>1, <1>2, <1>3 DEF TypeOK, rows
  <1>5. RequestsInv'
    BY <1>1, <1>2, TimePasses
  <1>6. LocksInv' /\ RepliesInv'
    BY <1>1 DEF IInv, LocksInv, Apart, RepliesInv, Honest
  <1>7. RecordsInv'
    BY <1>1 DEF IInv, RecordsInv, RecordInv, Exists, rows
  <1>8. ASSUME NEW j \in Keys PROVE (KeyInv(j) /\ Honest(key[j].body))'
    <2>1. CASE j = k
      <3>1. key'[j] = NoKey
        BY <1>1, <1>2, <2>1 DEF TypeOK
      <3>2. applied[k].times > 0 => clock >= applied[k].at + KeyTTL
        <4>1. key[k].expires \in Nat /\ applied[k].at \in Nat
          BY <1>2 DEF TypeOK, KeyRows
        <4> QED
          BY <1>1, <1>2, <4>1, BoundAssumption DEF IInv, KeysInv, KeyInv, Expired
      <3> QED
        BY <1>1, <1>3, <2>1, <3>1, <3>2 DEF KeyInv, HasKey, Honest
    <2>2. CASE j # k
      <3>1. key'[j] = key[j]
        BY <1>1, <1>2, <2>2 DEF TypeOK
      <3> QED
        BY <1>1, <3>1 DEF IInv, KeysInv, KeyInv, HasKey, Honest
    <2> QED
      BY <2>1, <2>2
  <1> QED
    BY <1>4, <1>5, <1>6, <1>7, <1>8 DEF IInv, KeysInv

LEMMA TickStep ==
    ASSUME IInv, Tick
    PROVE  IInv'
  <1>1. clock < MaxTime /\ clock' = clock + 1 /\ UNCHANGED <<rows, key, tx, reply, used, applied>>
    BY DEF Tick
  <1>2. TypeOK /\ clock \in 1..MaxTime
    BY DEF IInv, TypeOK
  <1>3. clock' \in 1..MaxTime /\ clock \in Int /\ clock' \in Int /\ clock <= clock'
    BY <1>1, <1>2, BoundAssumption
  <1>4. TypeOK'
    BY <1>1, <1>2, <1>3 DEF TypeOK, rows
  <1>5. RequestsInv'
    BY <1>1, <1>3, TimePasses
  <1>6. LocksInv' /\ RepliesInv'
    BY <1>1 DEF IInv, LocksInv, Apart, RepliesInv, Honest
  <1>7. RecordsInv'
    BY <1>1 DEF IInv, RecordsInv, RecordInv, Exists, rows
  <1>8. ASSUME NEW j \in Keys PROVE (KeyInv(j) /\ Honest(key[j].body))'
    <2>1. KeyInv(j) /\ Honest(key[j].body) /\ applied[j].at \in Nat
      BY <1>2 DEF IInv, KeysInv, TypeOK
    <2> QED
      BY <1>1, <1>3, <2>1, BoundAssumption DEF KeyInv, HasKey, Honest
  <1> QED
    BY <1>4, <1>5, <1>6, <1>7, <1>8 DEF IInv, KeysInv

LEMMA RefuseQuiet ==
    ASSUME NEW c \in Clients, Abort(c) \/ DuplicateOperation(c)
    PROVE  Quiet(c)
  BY EndQuiet DEF Abort, DuplicateOperation, Refuse

LEMMA ClientStep ==
    ASSUME IInv, NEW c \in Clients,
           \/ Begin(c) \/ Abort(c)
           \/ ClaimNew(c) \/ ClaimDuplicate(c) \/ ClaimMissing(c) \/ ClaimExpired(c)
           \/ Revive(c) \/ ReviveTaken(c) \/ KeyReused(c) \/ Repeat(c)
           \/ OperationUnused(c) \/ LockRecord(c) \/ LockWallet(c) \/ CheckCreate(c) \/ CheckEdit(c)
           \/ WriteCreate(c) \/ DuplicateOperation(c) \/ WriteEdit(c) \/ WriteRemove(c)
           \/ AddWallet(c) \/ StartDeleteWallet(c) \/ DeleteWallet(c)
           \/ CheckCategory(c) \/ AddCategory(c) \/ WriteCategory(c)
           \/ CheckLimit(c) \/ WriteLimit(c)
    PROVE  IInv'
  <1>1. CASE Begin(c)
    BY <1>1, BeginQuiet, QuietStep
  <1>2. CASE Abort(c) \/ DuplicateOperation(c)
    BY <1>2, RefuseQuiet, QuietStep
  <1>3. CASE \/ ClaimNew(c) \/ ClaimDuplicate(c) \/ ClaimMissing(c) \/ ClaimExpired(c)
             \/ Revive(c) \/ ReviveTaken(c) \/ KeyReused(c) \/ Repeat(c)
    BY <1>3, KeysQuiet, QuietStep
  <1>4. CASE OperationUnused(c) \/ StartDeleteWallet(c)
    BY <1>4, OperationQuiet, QuietStep
  <1>5. CASE LockRecord(c)
    BY <1>5, LockRecordQuiet, QuietStep
  <1>6. CASE LockWallet(c)
    BY <1>6, LockWalletQuiet, QuietStep
  <1>7. CASE CheckCreate(c) \/ CheckEdit(c)
    BY <1>7, CheckWriteQuiet, QuietStep
  <1>8. CASE CheckCategory(c) \/ CheckLimit(c)
    BY <1>8, CheckSettingQuiet, QuietStep
  <1>9. CASE WriteCreate(c)
    BY <1>9, CreateCommit
  <1>10. CASE WriteEdit(c)
    BY <1>10, EditCommit
  <1>11. CASE WriteRemove(c)
    BY <1>11, RemoveCommit
  <1>12. CASE AddWallet(c)
    BY <1>12, AddWalletCommit
  <1>13. CASE DeleteWallet(c)
    BY <1>13, DeleteWalletCommit
  <1>14. CASE AddCategory(c) \/ WriteCategory(c) \/ WriteLimit(c)
    BY <1>14, SettingCommits
  <1> QED
    BY <1>1, <1>2, <1>3, <1>4, <1>5, <1>6, <1>7, <1>8, <1>9, <1>10, <1>11, <1>12, <1>13, <1>14

LEMMA InvInit == Init => IInv
  <1> SUFFICES ASSUME Init PROVE IInv
    OBVIOUS
  <1>1. TypeOK
    <2>1. NoAnswer \in Answers /\ NoKey \in KeyRows /\ LapsedKey \in KeyRows
      BY NoAnswerHonest DEF NoKey, LapsedKey, KeyRow, KeyRows
    <2>2. NoOperation \in Operation
      BY DEF NoOperation, Operation
    <2>3. clock \in 1..MaxTime
      BY BoundAssumption DEF Init
    <2>4. /\ wallet \in [Wallets -> {"absent", "active", "deleted"}]
          /\ category \in [Categories -> {"absent", "active", "archived", "gone"}]
          /\ limits \subseteq Limit /\ record \in [Txns -> Record \cup {NoRecord}]
          /\ operation \in [OpIds -> Operation] /\ used \subseteq Txns
      BY <2>2 DEF Init
    <2>5. /\ key \in [Keys -> KeyRows] /\ tx \in [Clients -> Transaction]
          /\ reply \in [Clients -> Answers] /\ applied \in [Keys -> [times : Nat, at : Nat]]
      BY <2>1, IdleTyped DEF Init
    <2> QED
      BY <2>3, <2>4, <2>5 DEF TypeOK
  <1>2. RequestsInv
    <2> SUFFICES ASSUME NEW c \in Clients PROVE RequestInv(tx[c])
      BY DEF RequestsInv
    <2> QED
      BY IdleQuiet DEF Init
  <1>3. LocksInv
    BY IdleQuiet DEF Init, LocksInv
  <1>4. RecordsInv
    BY DEF Init, RecordsInv, RecordInv, Exists
  <1>5. KeysInv
    <2> SUFFICES ASSUME NEW k \in Keys PROVE KeyInv(k) /\ Honest(key[k].body)
      BY DEF KeysInv
    <2>1. key[k].body = NoAnswer /\ applied[k].times = 0
      BY DEF Init, NoKey, LapsedKey, KeyRow
    <2> QED
      BY <2>1, NoAnswerHonest DEF KeyInv
  <1>6. RepliesInv
    BY NoAnswerHonest DEF Init, RepliesInv
  <1> QED
    BY <1>1, <1>2, <1>3, <1>4, <1>5, <1>6 DEF IInv

LEMMA InvStep == IInv /\ [Next]_vars => IInv'
  <1> SUFFICES ASSUME IInv, [Next]_vars PROVE IInv'
    OBVIOUS
  <1>1. CASE UNCHANGED vars
    <2>1. UNCHANGED <<rows, key, clock, used, applied>> /\ UNCHANGED <<wallet, category, limits>>
          /\ UNCHANGED <<record, operation, tx, reply>>
      BY <1>1 DEF vars, rows
    <2>2. TypeOK' /\ LocksInv' /\ RepliesInv'
      BY <2>1 DEF IInv, TypeOK, LocksInv, Apart, RepliesInv, Honest
    <2>3. RequestsInv'
      <3>1. clock' \in Int /\ clock <= clock'
        BY <2>1 DEF IInv, TypeOK
      <3> QED
        BY <2>1, <3>1, TimePasses
    <2>4. RecordsInv' /\ KeysInv'
      BY <2>1, SameRows DEF IInv, RecordsInv, KeysInv
    <2> QED
      BY <2>2, <2>3, <2>4 DEF IInv
  <1>2. CASE Next
    <2>1. ASSUME NEW k \in Keys, Purge(k) PROVE IInv'
      BY <2>1, PurgeStep
    <2>2. CASE Tick
      BY <2>2, TickStep
    <2> QED
      BY <1>2, <2>1, <2>2, ClientStep DEF Next
  <1> QED
    BY <1>1, <1>2

LEMMA Invariance == Spec => []IInv
  BY InvInit, InvStep, PTL DEF Spec

\* Every reachable state of the books has its type.
THEOREM TypeCorrect == Spec => []TypeOK
  BY Invariance, PTL DEF IInv

\* A create's answer, the first or a repeat's, tells the balance before it and
\* the balance after it, which differ by its amount
\* (docs/transactions-contract.md:771-773).
THEOREM BalancesTold == Spec => []AnswersAddUp
  <1>1. IInv => AnswersAddUp
    BY DEF IInv, RepliesInv, Honest, AnswersAddUp
  <1> QED
    BY <1>1, Invariance, PTL

-----------------------------------------------------------------------------
(* What a step may do.                                                     *)

Writing(c) ==
    \/ WriteCreate(c) \/ WriteEdit(c) \/ WriteRemove(c) \/ AddWallet(c) \/ DeleteWallet(c)
    \/ AddCategory(c) \/ WriteCategory(c) \/ WriteLimit(c)

\* Only a request's last step changes rows or applies a key.
LEMMA StepKinds ==
    ASSUME [Next]_vars
    PROVE  UNCHANGED <<rows, applied>> \/ \E c \in Clients : Writing(c)
  <1>1. CASE UNCHANGED vars
    BY <1>1 DEF vars
  <1>2. ASSUME NEW c \in Clients, ~Writing(c),
               \/ Begin(c) \/ Abort(c)
               \/ ClaimNew(c) \/ ClaimDuplicate(c) \/ ClaimMissing(c) \/ ClaimExpired(c)
               \/ Revive(c) \/ ReviveTaken(c) \/ KeyReused(c) \/ Repeat(c)
               \/ OperationUnused(c) \/ LockRecord(c) \/ LockWallet(c) \/ CheckCreate(c) \/ CheckEdit(c)
               \/ DuplicateOperation(c) \/ StartDeleteWallet(c) \/ CheckCategory(c) \/ CheckLimit(c)
        PROVE  UNCHANGED <<rows, applied>>
    BY <1>2, Zenon DEF Begin, Abort, Refuse, ClaimNew, ClaimDuplicate, ClaimMissing, ClaimExpired, ClaimAgain,
          Revive, ReviveTaken, KeyReused, Repeat, OperationUnused, LockRecord, LockWallet, CheckCreate,
          CheckEdit, DuplicateOperation, StartDeleteWallet, CheckCategory, CheckLimit
  <1>3. ASSUME NEW k \in Keys, Purge(k) PROVE UNCHANGED <<rows, applied>>
    BY <1>3 DEF Purge
  <1>4. CASE Tick
    BY <1>4 DEF Tick
  <1> QED
    BY <1>1, <1>2, <1>3, <1>4 DEF Next, Writing

\* It commits with its key held, and ends.
LEMMA LastStep ==
    ASSUME NEW c \in Clients, Writing(c)
    PROVE  /\ tx[c].pc \in {"work", "wallets", "write"} /\ tx' = [tx EXCEPT ![c] = Idle]
           /\ applied' = IF tx[c].req.key = None THEN applied
                         ELSE [applied EXCEPT ![tx[c].req.key] =
                                   [times |-> applied[tx[c].req.key].times + 1, at |-> tx[c].now]]
  <1>1. \A answer : Commit(c, answer) =>
            /\ tx' = [tx EXCEPT ![c] = Idle]
            /\ applied' = IF tx[c].req.key = None THEN applied
                          ELSE [applied EXCEPT ![tx[c].req.key] =
                                    [times |-> applied[tx[c].req.key].times + 1, at |-> tx[c].now]]
    BY DEF Commit, Ends
  <1>2. \E answer : Commit(c, answer)
    BY Zenon DEF Writing, WriteCreate, WriteEdit, WriteRemove, AddWallet, DeleteWallet, AddCategory,
          WriteCategory, WriteLimit
  <1>3. tx[c].pc \in {"work", "wallets", "write"}
    BY DEF Writing, WriteCreate, WriteEdit, WriteRemove, AddWallet, DeleteWallet, AddCategory,
          WriteCategory, WriteLimit, WalletsLocked, Does, At
  <1> QED
    BY <1>1, <1>2, <1>3

\* A write sent with a key is applied once until the key has expired, however
\* often it is repeated, whatever the purger deletes and whoever dies halfway
\* (docs/transactions-contract.md:852-881).
THEOREM AppliedOnce == Spec => OncePerKey
  <1> DEFINE Once == \A k \in Keys : applied'[k].times > applied[k].times =>
                         applied[k].times = 0 \/ clock >= applied[k].at + KeyTTL
  <1>1. ASSUME IInv, [Next]_vars, NEW k \in Keys, applied'[k].times > applied[k].times
        PROVE  applied[k].times = 0 \/ clock >= applied[k].at + KeyTTL
    <2>1. applied \in [Keys -> [times : Nat, at : Nat]]
      BY <1>1 DEF IInv, TypeOK
    <2>2. applied' # applied
      BY <1>1, <2>1
    <2>3. PICK c \in Clients : Writing(c)
      BY <1>1, <2>2, StepKinds
    <2>4. PICK j : j = tx[c].req.key
      OBVIOUS
    <2>5. applied' = IF j = None THEN applied
                     ELSE [applied EXCEPT ![j] = [times |-> applied[j].times + 1, at |-> tx[c].now]]
      BY <2>3, <2>4, LastStep
    <2>6. j = k /\ j # None
      BY <1>1, <2>1, <2>2, <2>5
    <2>7. HoldsKey(tx[c]) /\ KeyHeld(tx[c])
      BY <1>1, <2>3, <2>4, <2>6, LastStep, Busyness DEF HoldsKey, RequestInv
    <2> QED
      BY <2>1, <2>4, <2>6, <2>7 DEF KeyHeld
  <1>2. IInv /\ [Next]_vars => [Once]_vars
    BY <1>1
  <1> QED
    BY <1>2, Invariance, PTL DEF Spec, OncePerKey

LEMMA ChangedRecord ==
    ASSUME IInv, NEW c \in Clients, Writing(c), NEW t \in Txns, Exists(t), record'[t] # record[t]
    PROVE  HoldsRecord(tx[c]) /\ tx[c].req.txn = t
  <1>1. record \in [Txns -> Record \cup {NoRecord}]
    BY DEF IInv, TypeOK
  <1>2. t \in used
    BY DEF IInv, RecordsInv, RecordInv
  <1>3. \A u, new : u # t /\ record' = [record EXCEPT ![u] = new] => record'[t] = record[t]
    BY <1>1
  <1>4. record' # record
    OBVIOUS
  <1>5. CASE WriteCreate(c)
    BY <1>2, <1>3, <1>5 DEF WriteCreate
  <1>6. CASE WriteEdit(c)
    <2>1. /\ tx[c].pc = "write" /\ tx[c].req.op = "edit"
          /\ \E new : record' = [record EXCEPT ![tx[c].req.txn] = new]
      BY <1>4, <1>6, Zenon DEF WriteEdit, Does, At
    <2> QED
      BY <1>3, <2>1 DEF HoldsRecord, Locking, Changing
  <1>7. CASE WriteRemove(c)
    <2>1. /\ tx[c].pc = "wallets" /\ tx[c].req.op = "remove"
          /\ record' = [record EXCEPT ![tx[c].req.txn] = NoRecord]
      BY <1>7, Zenon DEF WriteRemove, WalletsLocked, Does, At
    <2> QED
      BY <1>3, <2>1 DEF HoldsRecord, Locking, Changing
  <1>8. CASE AddWallet(c)
    BY <1>2, <1>3, <1>4, <1>8 DEF AddWallet
  <1>9. CASE DeleteWallet(c) \/ AddCategory(c) \/ WriteCategory(c) \/ WriteLimit(c)
    BY <1>4, <1>9 DEF DeleteWallet, AddCategory, WriteCategory, WriteLimit
  <1> QED
    BY <1>5, <1>6, <1>7, <1>8, <1>9 DEF Writing

\* Of two changes asked of one version of a transaction exactly one applies:
\* who changes a record names the version it replaces, and is done
\* (docs/transactions-contract.md:837-839).
THEOREM ChangedOnce == Spec => OneChangePerVersion
  <1> DEFINE Once == \A t \in Txns : Exists(t) /\ record'[t] # record[t] =>
                         \E c \in Clients : /\ Busy(c) /\ ~Busy(c)'
                                            /\ tx[c].req.txn = t /\ tx[c].req.version = record[t].version
  <1>1. ASSUME IInv, [Next]_vars, NEW t \in Txns, Exists(t), record'[t] # record[t]
        PROVE  \E c \in Clients : /\ Busy(c) /\ ~Busy(c)'
                                  /\ tx[c].req.txn = t /\ tx[c].req.version = record[t].version
    <2>1. PICK c \in Clients : Writing(c)
      BY <1>1, StepKinds DEF rows
    <2>2. HoldsRecord(tx[c]) /\ tx[c].req.txn = t
      BY <1>1, <2>1, ChangedRecord
    <2>3. tx[c].req.version = record[t].version
      BY <1>1, <2>2, Changer
    <2>4. tx'[c] = Idle /\ tx[c].pc \in {"work", "wallets", "write"}
      BY <1>1, <2>1, LastStep DEF IInv, TypeOK
    <2>5. Busy(c) /\ ~Busy(c)'
      BY <2>4, IdleTyped DEF Busy
    <2> QED
      BY <2>2, <2>3, <2>5
  <1>2. IInv /\ [Next]_vars => [Once]_vars
    BY <1>1
  <1> QED
    BY <1>2, Invariance, PTL DEF Spec, OneChangePerVersion

-----------------------------------------------------------------------------
(* BookRules is implemented: each commit is one of its steps or a stutter,  *)
(* for what a request has checked still holds when it writes.               *)

LEMMA MissingRecord ==
    ASSUME TypeOK, NEW t \in Txns
    PROVE  Rules!Missing(t) <=> record[t] = NoRecord
  <1>1. record[t] \in Record \cup {NoRecord}
    BY DEF TypeOK
  <1>2. record[t] \in Record => record[t].version # 0 /\ record[t] # NoRecord
    BY DEF Record, NoRecord
  <1> QED
    BY <1>1, <1>2 DEF Rules!Missing, NoRecord

LEMMA InitRules == Init => Rules!Init
  BY DEF Init, Rules!Init, Rules!Missing, NoRecord, NoOperation

LEMMA CreateRules ==
    ASSUME IInv, NEW c \in Clients, WriteCreate(c)
    PROVE  \E t \in Txns, o \in OpIds \cup {None} : Rules!Create(t, o)
  <1> DEFINE r == tx[c].req
  <1>1. /\ tx[c].pc = "write" /\ r.op = "create" /\ ~Taken(r.opId) /\ UNCHANGED <<wallet, category, limits>>
    BY DEF WriteCreate, Does, At
  <1>2. PICK t \in Txns \ used :
           /\ record' = [record EXCEPT ![t] = NewRecord(r.wallet, r.category, r.type)]
           /\ operation' = IF r.opId = None THEN operation
                           ELSE [operation EXCEPT ![r.opId] = [txn |-> t, deleted |-> FALSE]]
    BY DEF WriteCreate
  <1>3. /\ r \in Requests /\ r.wallet \in Wallets /\ r.category \in Categories \cup {System}
        /\ r.type \in Types /\ r.opId \in OpIds \cup {None}
    BY <1>1, Busyness, RequestShape, RequestFields
  <1>4. MayCreate(r)
    BY <1>1, Busyness DEF RequestInv, StillAllowed
  <1>5. PICK new \in Record :
           /\ new = NewRecord(r.wallet, r.category, r.type) /\ new.wallet = r.wallet
           /\ new.category = r.category /\ new.type = r.type /\ new.version = 1
    BY <1>3, NewRecordFields
  <1>6. TypeOK
    BY DEF IInv
  <1>7. record' = [record EXCEPT ![t] = new] /\ record'[t] = new
    BY <1>2, <1>5, <1>6 DEF TypeOK
  <1>8. Rules!Missing(t)
    BY <1>6, Unused, MissingRecord
  <1>9. r.opId # None => operation[r.opId].txn = None
    BY <1>1 DEF Taken, NoOperation
  <1>10. wallet[new.wallet] = "active" /\ Rules!MayHold(new)
    BY <1>4, <1>5 DEF MayCreate, WalletActive, CategoryUsable, TypeFits, Rules!MayHold
  <1>11. Rules!Create(t, r.opId)
    BY <1>1, <1>2, <1>5, <1>7, <1>8, <1>9, <1>10 DEF Rules!Create
  <1> QED
    BY <1>3, <1>11

\* An edit keeps the category and the type, or takes a category that it checked;
\* the type alone cannot change, for the stored one fits the category.
LEMMA EditRules ==
    ASSUME IInv, NEW c \in Clients, WriteEdit(c)
    PROVE  UNCHANGED Rules!books \/ \E t \in Txns : Rules!Edit(t)
  <1> DEFINE r == tx[c].req
             t == r.txn
             old == tx[c].was
  <1>1. /\ tx[c].pc = "write" /\ r.op = "edit"
        /\ UNCHANGED <<wallet, category, limits, operation>>
    BY DEF WriteEdit, Does, At
  <1>2. /\ r \in Requests /\ t \in Txns /\ record[t] \in Record /\ record[t] # NoRecord
        /\ old = record[t] /\ record[t].version \in Nat \ {0} /\ record[t].category # System
        /\ TypeFits(record[t].category, record[t].type)
    BY <1>1, Changer DEF HoldsRecord, Locking, Changing
  <1>3. MayEdit(r, old)
    BY <1>1, Busyness DEF RequestInv, StillAllowed
  <1>4. TypeOK
    BY DEF IInv
  <1>5. CASE Edited(r, old, old.version) = old
    BY <1>1, <1>5 DEF WriteEdit, Rules!books
  <1>6. CASE Edited(r, old, old.version) # old
    <2>1. record[t].version + 1 \in Nat \ {0} /\ old.version \in Nat \ {0}
      BY <1>2
    <2>2. PICK new \in Record :
             /\ new = Edited(r, old, record[t].version + 1)
             /\ new.wallet = Result(r.wallet, old.wallet)
             /\ new.category = Result(r.category, old.category)
             /\ new.type = Result(r.type, old.type) /\ new.version = record[t].version + 1
      <3>1. PICK e : e = Edited(r, old, record[t].version + 1)
        OBVIOUS
      <3>2. r \in Requests /\ old \in Record /\ record[t].version + 1 \in Nat \ {0}
        BY <1>2, <2>1
      <3>3. /\ e \in Record /\ e.wallet = Result(r.wallet, old.wallet)
            /\ e.category = Result(r.category, old.category)
            /\ e.type = Result(r.type, old.type) /\ e.version = record[t].version + 1
        BY <3>1, <3>2, EditedTyped
      <3> QED
        BY <3>1, <3>3
    <2>3. record' = [record EXCEPT ![t] = new] /\ record'[t] = new
      BY <1>2, <1>4, <1>6, <2>2 DEF WriteEdit, TypeOK
    <2>4. /\ new.wallet # old.wallet => WalletActive(new.wallet)
          /\ new.category # old.category => CategoryUsable(new.category)
          /\ new.category # old.category \/ new.type # old.type => TypeFits(new.category, new.type)
      <3> DEFINE e == Edited(r, old, old.version)
      <3>1. /\ e.wallet = Result(r.wallet, old.wallet)
            /\ e.category = Result(r.category, old.category) /\ e.type = Result(r.type, old.type)
        BY DEF Edited
      <3>2. /\ e.wallet # old.wallet => WalletActive(e.wallet)
            /\ e.category # old.category => CategoryUsable(e.category)
            /\ e.category # old.category \/ e.type # old.type => TypeFits(e.category, e.type)
        BY <1>3 DEF MayEdit
      <3> HIDE DEF e
      <3> QED
        BY <2>2, <3>1, <3>2
    <2>5. \/ new.category = old.category /\ new.type = old.type
          \/ new.category # old.category /\ Rules!MayHold(new)
      BY <1>2, <2>4 DEF CategoryUsable, TypeFits, Rules!MayHold
    <2>6. ~Rules!Missing(t)
      BY <1>2, <1>4, MissingRecord
    <2>7. Rules!Edit(t)
      BY <1>1, <1>2, <2>2, <2>3, <2>4, <2>5, <2>6 DEF WalletActive, Rules!Edit
    <2> QED
      BY <1>2, <2>7
  <1> QED
    BY <1>5, <1>6

LEMMA RemoveRules ==
    ASSUME IInv, NEW c \in Clients, WriteRemove(c)
    PROVE  \E t \in Txns : Rules!Remove(t)
  <1> DEFINE t == tx[c].req.txn
  <1>1. /\ tx[c].pc = "wallets" /\ tx[c].req.op = "remove"
        /\ record' = [record EXCEPT ![t] = NoRecord]
        /\ operation' = [o \in OpIds |-> IF operation[o].txn = t
                                         THEN [txn |-> t, deleted |-> TRUE] ELSE operation[o]]
        /\ UNCHANGED <<wallet, category, limits>>
    BY DEF WriteRemove, WalletsLocked, Does, At
  <1>2. t \in Txns /\ record[t] # NoRecord /\ record[t].category # System
    BY <1>1, Changer DEF HoldsRecord, Locking, Changing
  <1>3. TypeOK
    BY DEF IInv
  <1>4. ~Rules!Missing(t)
    BY <1>2, <1>3, MissingRecord
  <1>5. record'[t] = NoRecord /\ NoRecord.version = 0
    BY <1>1, <1>2, <1>3 DEF TypeOK, NoRecord
  <1> HIDE DEF t
  <1>6. Rules!Remove(t)
    BY <1>1, <1>2, <1>4, <1>5 DEF Rules!Remove
  <1> QED
    BY <1>2, <1>6

LEMMA WalletRules ==
    ASSUME IInv, NEW c \in Clients, AddWallet(c) \/ DeleteWallet(c)
    PROVE  \E w \in Wallets : Rules!AddWallet(w) \/ Rules!DeleteWallet(w)
  <1> DEFINE w == tx[c].req.wallet
  <1>1. tx[c].pc \in {"work", "wallets"} /\ tx[c].req.op \in WalletOperations
    BY DEF AddWallet, DeleteWallet, WalletsLocked, Does, At, WalletOperations
  <1>2. w \in Wallets
    BY <1>1, Busyness, RequestShape
  <1>3. CASE DeleteWallet(c)
    BY <1>2, <1>3 DEF DeleteWallet, Rules!DeleteWallet
  <1>4. CASE AddWallet(c)
    <2>1. /\ wallet[w] = "absent" /\ wallet' = [wallet EXCEPT ![w] = "active"]
          /\ UNCHANGED <<category, limits, operation>>
      BY <1>4 DEF AddWallet
    <2>2. CASE record' = record
      BY <1>2, <2>1, <2>2 DEF Rules!AddWallet
    <2>3. CASE \E t \in Txns \ used : record' = [record EXCEPT ![t] = NewRecord(w, System, "income")]
      <3>1. PICK t \in Txns \ used : record' = [record EXCEPT ![t] = NewRecord(w, System, "income")]
        BY <2>3
      <3>2. PICK new \in Record :
               /\ new = NewRecord(w, System, "income") /\ new.wallet = w /\ new.category = System
               /\ new.version = 1
        BY <1>2, NewRecordFields DEF Types
      <3>3. TypeOK
        BY DEF IInv
      <3>4. record' = [record EXCEPT ![t] = new] /\ record'[t] = new
        BY <3>1, <3>2, <3>3 DEF TypeOK
      <3>5. Rules!Missing(t)
        BY <3>3, Unused, MissingRecord
      <3> QED
        BY <1>2, <2>1, <3>2, <3>4, <3>5 DEF Rules!AddWallet
    <2> QED
      BY <1>4, <2>2, <2>3 DEF AddWallet
  <1> QED
    BY <1>3, <1>4

LEMMA CategoryTyped ==
    ASSUME TypeOK, NEW k \in Categories, NEW value
    PROVE  /\ value = category[k] => [category EXCEPT ![k] = value] = category
           /\ category[k] \in {"absent", "active", "archived", "gone"}
  BY DEF TypeOK

LEMMA UnlinkedRules ==
    ASSUME IInv, NEW k \in Categories
    PROVE  Unlinked(k) = Rules!Without(k)
  <1>1. ASSUME NEW l \in limits PROVE l = LimitRow(l.id, l.cats)
    BY DEF IInv, TypeOK, Limit, LimitRow
  <1>2. ASSUME NEW l \in limits, k \notin l.cats
        PROVE  LimitRow(l.id, l.cats \ {k}) = l /\ l.cats # {k}
    <2>1. l.cats \ {k} = l.cats
      BY <1>2
    <2> QED
      BY <1>1, <1>2, <2>1
  <1>3. ASSUME NEW x \in Unlinked(k) PROVE x \in Rules!Without(k)
    <2>1. PICK l \in limits : l.cats # {k} /\ x = LimitRow(l.id, l.cats \ {k})
      BY <1>3 DEF Unlinked
    <2>2. CASE k \in l.cats
      BY <2>1, <2>2 DEF LimitRow, Rules!Without
    <2>3. CASE k \notin l.cats
      BY <1>2, <2>1, <2>3 DEF Rules!Without
    <2> QED
      BY <2>2, <2>3
  <1>4. ASSUME NEW x \in Rules!Without(k) PROVE x \in Unlinked(k)
    <2>1. CASE x \in limits /\ k \notin x.cats
      BY <1>2, <2>1 DEF Unlinked
    <2>2. CASE \E l \in limits : l.cats # {k} /\ x = LimitRow(l.id, l.cats \ {k})
      BY <2>2 DEF Unlinked
    <2> QED
      BY <1>4, <2>1, <2>2 DEF Rules!Without, LimitRow
  <1> QED
    BY <1>3, <1>4

\* With the space locked exclusively nothing happens between check and write.
LEMMA CategoryRules ==
    ASSUME IInv, NEW c \in Clients, AddCategory(c) \/ WriteCategory(c)
    PROVE  \/ UNCHANGED Rules!books
           \/ \E k \in Categories : \/ Rules!AddCategory(k) \/ Rules!Restore(k)
                                    \/ Rules!Archive(k) \/ Rules!Drop(k)
  <1> DEFINE r == tx[c].req
             k == r.category
  <1>1. r.op \in CategoryOperations /\ tx[c].pc \in {"work", "write"}
    BY DEF AddCategory, WriteCategory, Does, At, CategoryOperations
  <1>2. k \in Categories /\ UNCHANGED <<wallet, record, operation>>
    BY <1>1, Busyness, RequestShape DEF AddCategory, WriteCategory
  <1>3. TypeOK
    BY DEF IInv
  <1>4. CASE AddCategory(c)
    BY <1>2, <1>4 DEF AddCategory, Rules!AddCategory
  <1>5. CASE WriteCategory(c)
    <2>1. tx[c].pc = "write"
      BY <1>5 DEF WriteCategory, Does, At
    <2>2. r.op \in Revising /\ InSpace(k)
      <3>1. Placed(tx[c]) /\ StillAllowed(tx[c])
        BY Busyness DEF RequestInv
      <3> QED
        BY <1>1, <2>1, <3>1 DEF Placed, StillAllowed, Revising, CategoryOperations, LimitOperations
    <2>3. PICK seen \in BOOLEAN : seen = tx[c].seen
      BY <2>1, Busyness, TransactionFields
    <2>4. category[k] \in {"active", "archived"}
      BY <2>2 DEF InSpace
    <2>5. CASE r.op = "restore"
      <3>1. category' = [category EXCEPT ![k] = "active"] /\ limits' = limits
        BY <1>5, <2>5 DEF WriteCategory
      <3>2. CASE category[k] = "archived"
        BY <1>2, <3>1, <3>2 DEF Rules!Restore
      <3>3. CASE category[k] = "active"
        BY <1>2, <1>3, <3>1, <3>3, CategoryTyped DEF Rules!books
      <3> QED
        BY <2>4, <3>2, <3>3
    <2>6. CASE r.op \in {"archive", "drop"} /\ seen
      <3>1. category' = [category EXCEPT ![k] = "archived"] /\ limits' = Unlinked(k)
        BY <1>5, <2>3, <2>6 DEF WriteCategory
      <3> QED
        BY <1>2, <2>4, <3>1, UnlinkedRules DEF Rules!Archive
    <2>7. CASE r.op = "archive" /\ ~seen
      <3>1. category' = [category EXCEPT ![k] = category[k]] /\ limits' = limits
        BY <1>5, <2>3, <2>7 DEF WriteCategory
      <3> QED
        BY <1>2, <1>3, <3>1, CategoryTyped DEF Rules!books
    <2>8. CASE r.op = "drop" /\ ~seen
      <3>1. category' = [category EXCEPT ![k] = "gone"] /\ limits' = Unlinked(k) /\ ~InUse(k)
        BY <1>5, <2>3, <2>8 DEF WriteCategory
      <3>2. Rules!Uses(k) = {}
        BY <3>1 DEF InUse, Rules!Uses
      <3> QED
        BY <1>2, <2>4, <3>1, <3>2, UnlinkedRules DEF Rules!Drop
    <2> QED
      BY <2>2, <2>5, <2>6, <2>7, <2>8 DEF Revising
  <1> QED
    BY <1>4, <1>5

LEMMA LimitRules ==
    ASSUME IInv, NEW c \in Clients, WriteLimit(c)
    PROVE  \E l \in Limits : \/ Rules!RemoveLimit(l)
                             \/ \E cats \in SUBSET Categories : Rules!SetLimit(l, cats)
  <1> DEFINE r == tx[c].req
  <1>1. /\ tx[c].pc = "write" /\ r.op \in LimitOperations
        /\ limits' = {m \in limits : m.id # r.limit} \cup
                     (IF r.op = "removeLimit" THEN {} ELSE {LimitRow(r.limit, r.cats)})
        /\ UNCHANGED <<wallet, category, record, operation>>
    BY DEF WriteLimit, Does, At
  <1>2. r.limit \in Limits
    BY <1>1, Busyness, RequestShape
  <1>3. LimitChecked(r)
    BY <1>1, Busyness DEF RequestInv, StillAllowed
  <1>4. CASE r.op = "removeLimit"
    BY <1>1, <1>2, <1>4 DEF Rules!RemoveLimit
  <1>5. CASE r.op # "removeLimit"
    <2>1. LimitAllowed(r) /\ r.cats \subseteq Categories
      BY <1>3, <1>5 DEF LimitChecked, LimitAllowed, CategoryUsable
    <2>2. {m \in limits : m.id # r.limit} \subseteq OtherLimits(r)
      BY DEF OtherLimits
    <2>3. \A m \in {m \in limits : m.id # r.limit} :
              IF r.cats = {} THEN m.cats # {} ELSE m.cats \cap r.cats = {}
      BY <2>1, <2>2 DEF LimitAllowed
    <2>4. \A k \in r.cats : category[k] = "active"
      BY <2>1 DEF LimitAllowed, CategoryUsable
    <2>5. Rules!SetLimit(r.limit, r.cats)
      BY <1>1, <1>5, <2>3, <2>4 DEF LimitRow, Rules!SetLimit
    <2> QED
      BY <1>2, <2>1, <2>5
  <1> QED
    BY <1>4, <1>5

LEMMA NextRules == IInv /\ [Next]_vars => [Rules!Next]_(Rules!books)
  <1> SUFFICES ASSUME IInv, [Next]_vars PROVE [Rules!Next]_(Rules!books)
    OBVIOUS
  <1>1. CASE UNCHANGED <<rows, applied>>
    BY <1>1 DEF rows, Rules!books
  <1>2. ASSUME NEW c \in Clients, Writing(c) PROVE [Rules!Next]_(Rules!books)
    <2>1. CASE WriteCreate(c)
      BY <2>1, CreateRules DEF Rules!Next
    <2>2. CASE WriteEdit(c)
      BY <2>2, EditRules DEF Rules!Next
    <2>3. CASE WriteRemove(c)
      BY <2>3, RemoveRules DEF Rules!Next
    <2>4. CASE AddWallet(c) \/ DeleteWallet(c)
      BY <2>4, WalletRules DEF Rules!Next
    <2>5. CASE AddCategory(c) \/ WriteCategory(c)
      BY <2>5, CategoryRules DEF Rules!Next
    <2>6. CASE WriteLimit(c)
      BY <2>6, LimitRules DEF Rules!Next
    <2> QED
      BY <1>2, <2>1, <2>2, <2>3, <2>4, <2>5, <2>6 DEF Writing
  <1> QED
    BY <1>1, <1>2, StepKinds

\* Side by side, each request does what it would do alone: it writes what it
\* checked, a wallet and a category that it names can be used when it writes,
\* a category that is used is not deleted, one that is archived is in no limit,
\* a named create happens once (docs/transactions-contract.md).
THEOREM ImplementsBooks == Spec => KeepsBooks
  <1>1. Spec => Rules!Spec
    BY InitRules, NextRules, Invariance, PTL DEF Spec, Rules!Spec
  <1> QED
    BY <1>1 DEF KeepsBooks

=============================================================================
