----------------------------- MODULE SpaceHistory -----------------------------
(***************************************************************************)
(* The committed book of a space and a member who reads it while others    *)
(* write.  A write is one committed transaction: SpaceBooks has its locks  *)
(* and checks.  A response that needs several queries reads them in one    *)
(* REPEATABLE READ transaction (src/src/shared/utils/read-snapshot.ts):    *)
(* its snapshot is the book at its first read.  A step of the reader is    *)
(* one call of the query service.  The reader stays a member, and the      *)
(* space stays (SpaceMembership has removals).                             *)
(***************************************************************************)
EXTENDS BookQueries

CONSTANTS
    TypeOf,             \* the type of a category, of its new transactions
    Books,              \* bound: the books to start from
    Drafts,             \* bound: what a transaction may become
    Caps,               \* bound: what a limit may become
    Renames,            \* bound: the names that wallets and categories may get
    Orders,             \* bound: the orders that categories may be put in
    Nows,               \* bound: values of the server's clock
    MaxEvents           \* bound: writes by other members and steps of the clock

VARIABLES
    book,       \* committed rows, as in BookQueries
    writes,     \* how many writes there were
    touched,    \* transactions written since the list of the screen began
    clock,
    request,    \* the reader's request in progress, or Idle
    answer      \* the response to the last request, or None

history == <<book, writes, touched, clock>>

\* A timestamp is what its column holds, and an initial balance an income.
Txn == [wallet : Wallets, category : Categories \cup {System}, type : Types,
        amount : Nat, timestamp : TimestampMin..StoredTimestampMax, description : STRING]
Cap == [amount : Nat, cats : SUBSET Categories]
Book == [txns : [Ids -> Txn \cup {None}], deleted : SUBSET SpaceWallets,
         archived : SUBSET Categories, limits : SUBSET Cap, dated : SUBSET Ids,
         names : [Wallets \cup Categories \cup {System} -> STRING], sort : [Categories -> Nat]]

ASSUME BookAssumption == Books \subseteq Book /\ Drafts \subseteq Txn /\ Caps \subseteq Cap
ASSUME OpeningAssumption ==
    \A b \in Books :
        /\ \A i \in Rows(b) : b.txns[i].category = System => b.txns[i].type = "income"
        /\ \A l \in b.limits : l.cats \cap b.archived = {}
ASSUME NameAssumption == Renames \subseteq [id : SpaceWallets \cup Categories, name : STRING]
ASSUME OrderAssumption == Orders \subseteq Seq(Categories) \ {<<>>}
ASSUME TypeAssumption == TypeOf \in [Categories -> Types]
ASSUME ClockAssumption == Nows \subseteq Nat /\ Nows # {}
ASSUME EventsAssumption == MaxEvents \in Nat
ASSUME NoneAssumption == None \notin Book /\ \A ids \in SUBSET Ids : None # ids

-----------------------------------------------------------------------------
(* Writes of the other members, each committed at once.                    *)

\* A search finds a transaction by the names of its wallet and category, too.
Changed(before, after) ==
    {i \in Ids :
        \/ before.txns[i] # after.txns[i]
        \/ /\ before.txns[i] # None
           /\ \E id \in {before.txns[i].wallet, before.txns[i].category} :
                  before.names[id] # after.names[id]}

Write(after) ==
    /\ after # book
    /\ book' = after
    /\ writes' = writes + 1
    /\ touched' = IF touched = None THEN None ELSE touched \cup Changed(book, after)
    /\ UNCHANGED <<clock, request, answer>>

WalletUsable(w) == w \in SpaceWallets \ book.deleted
CategoryUsable(k) == k \in Categories \ book.archived

AddTransaction(i, d) ==
    /\ i \notin Rows(book) \cup book.dated
    /\ WalletUsable(d.wallet) /\ CategoryUsable(d.category) /\ TypeOf[d.category] = d.type
    /\ d.timestamp <= clock + ClockSkew
    /\ Write([book EXCEPT !.txns[i] = d])

\* The rules are for what changes: a deleted wallet, an archived category and
\* an old timestamp may be kept.
EditTransaction(i, d) ==
    /\ getOneInSpace(book, i) # None
    /\ LET old == book.txns[i] IN
          /\ old.category # System
          /\ d.wallet # old.wallet => WalletUsable(d.wallet)
          /\ d.category # old.category => CategoryUsable(d.category)
          /\ <<d.category, d.type>> # <<old.category, old.type>> => TypeOf[d.category] = d.type
          /\ d.timestamp # old.timestamp => d.timestamp <= clock + ClockSkew
    /\ Write([book EXCEPT !.txns[i] = d])

RemoveTransaction(i) ==
    /\ getOneInSpace(book, i) # None
    /\ book.txns[i].category # System
    /\ Write([book EXCEPT !.txns[i] = None, !.dated = @ \cup {i}])

DeleteWallet(w) == Write([book EXCEPT !.deleted = @ \cup {w}])

\* A deleted wallet and an archived category can be renamed, too.
RenameWallet(w, name) == Write([book EXCEPT !.names[w] = name])
RenameCategory(k, name) == Write([book EXCEPT !.names[k] = name])

\* A category that is archived leaves its limit, which goes with its last one.
ArchiveCategory(k) ==
    Write([book EXCEPT
        !.archived = @ \cup {k},
        !.limits = {l \in @ : k \notin l.cats}
                       \cup {[l EXCEPT !.cats = @ \ {k}] : l \in {m \in @ : k \in m.cats /\ m.cats # {k}}}])

RestoreCategory(k) == Write([book EXCEPT !.archived = @ \ {k}])

\* Active categories of one type, in the order that they are to have; the
\* numbers of the two types do not meet.
Reorder(order) ==
    LET type == TypeOf[order[1]]
        placeOf(k) == (IF type = "income" THEN 100 ELSE 200)
                          + (CHOOSE n \in DOMAIN order : order[n] = k)
    IN  /\ Cardinality(Range(order)) = Len(order)
        /\ \A k \in Range(order) : CategoryUsable(k) /\ TypeOf[k] = type
        /\ Write([book EXCEPT !.sort = [k \in Categories |-> IF k \in Range(order) THEN placeOf(k) ELSE @[k]]])

\* A limit is of active categories that have none, or of the whole space.
LimitFits(l, others) ==
    /\ \A k \in l.cats : CategoryUsable(k)
    /\ \A m \in others : m.cats \cap l.cats = {} /\ (l.cats = {} => m.cats # {})

AddLimit(l) ==
    /\ LimitFits(l, book.limits)
    /\ Write([book EXCEPT !.limits = @ \cup {l}])

UpdateLimit(old, new) ==
    /\ LimitFits(new, book.limits \ {old})
    /\ Write([book EXCEPT !.limits = (@ \ {old}) \cup {new}])

RemoveLimit(l) == Write([book EXCEPT !.limits = @ \ {l}])

\* There is room for another event.
Moves == writes + Cardinality({now \in Nows : now < clock}) < MaxEvents

MemberWrites ==
    /\ Moves
    /\ \/ \E i \in Ids, d \in Drafts : AddTransaction(i, d) \/ EditTransaction(i, d)
       \/ \E i \in Ids : RemoveTransaction(i)
       \/ \E w \in SpaceWallets : DeleteWallet(w)
       \/ \E k \in Categories : ArchiveCategory(k) \/ RestoreCategory(k)
       \/ \E r \in Renames :
              \/ r.id \in SpaceWallets /\ RenameWallet(r.id, r.name)
              \/ r.id \in Categories /\ RenameCategory(r.id, r.name)
       \/ \E order \in Orders : Reorder(order)
       \/ \E l \in Caps : AddLimit(l) \/ \E old \in book.limits : UpdateLimit(old, l)
       \/ \E l \in book.limits : RemoveLimit(l)

Tick(now) ==
    /\ Moves
    /\ now > clock
    /\ clock' = now
    /\ UNCHANGED <<book, writes, touched, request, answer>>

-----------------------------------------------------------------------------
(* The reader's requests.                                                  *)

Idle == [kind |-> "idle"]

\* at: how many writes the snapshot has; got: what was read so far.
InProgress(kind, step, ask, snapshot, at, got) ==
    [kind |-> kind, step |-> step, ask |-> ask, snapshot |-> snapshot, at |-> at, got |-> got]

Request(kind, step, ask) == InProgress(kind, step, ask, None, writes, None)

InStep(kind, step) == request.kind = kind /\ request.step = step

\* What a statement of the transaction sees.
BugReadCommitted == book
Seen == IF request.snapshot = None THEN book ELSE request.snapshot

SeenAt == IF request.snapshot = None THEN writes ELSE request.at

\* The request goes on to another step with what it has read.
ReadAndGo(step, got) ==
    /\ request' = InProgress(request.kind, step, request.ask, Seen, SeenAt, got)
    /\ UNCHANGED <<book, writes, clock, answer>>

\* Without a read.
GoOn(step) ==
    /\ request' = InProgress(request.kind, step, request.ask,
                             request.snapshot, request.at, request.got)
    /\ UNCHANGED <<book, writes, touched, clock, answer>>

Respond(response) ==
    /\ request' = Idle
    /\ answer' = response
    /\ UNCHANGED <<book, writes, clock>>

Refusal == [kind |-> "refused"]
=============================================================================
