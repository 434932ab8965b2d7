------------------------------ MODULE BookQueries ------------------------------
(***************************************************************************)
(* What the queries of the history, the statistics and the overviews       *)
(* return (src/src/modules/transaction-queries/                            *)
(* transaction-queries.service.ts), each a function of the book it reads:  *)
(*   book.txns[i]    the transaction with id i, or None                    *)
(*   book.deleted    the wallets that were deleted: is_deleted = 1         *)
(*   book.archived   the archived categories: is_active = 0                *)
(*   book.limits     the limits: an amount and the categories they bind    *)
(*   book.names      the names of wallets and categories                   *)
(*   book.sort       the place of a category among the others              *)
(*   book.dated      the created ids whose operation row has a deleted_at  *)
(* Ids are UUIDs: their order has nothing to do with time.  Money is in    *)
(* cents; the forms it has in SQL and in responses are left out.           *)
(***************************************************************************)
EXTENDS Periods

CONSTANTS
    None,
    Ids,                \* bound: the ids transactions may get, numbers
    Wallets,            \* wallets of all spaces, numbers
    SpaceWallets,       \* those of the space that is read
    Categories,         \* categories of the space but the system one, numbers
    System,             \* the system category, of initial balances
    StoredTimestampMax  \* STORED_TIMESTAMP_MAX

ASSUME IdAssumption == /\ Ids \subseteq Nat /\ IsFiniteSet(Ids) /\ IsFiniteSet(Categories)
                       /\ Wallets \subseteq Nat /\ Categories \cup {System} \subseteq Nat
ASSUME StoredAssumption == StoredTimestampMax \in Int
ASSUME SpaceAssumption == SpaceWallets \subseteq Wallets /\ System \notin Categories

Types == {"income", "expense"}
Kinds == {"regular", "initial_balance"}

ASSUME FilterAssumption == Unset \notin Types \cup Kinds

KindOf(txn) == IF txn.category = System THEN "initial_balance" ELSE "regular"

\* A set in a total order.
Sorted(S, before(_, _)) ==
    [n \in 1..Cardinality(S) |-> CHOOSE s \in S : Cardinality({r \in S : before(r, s)}) = n - 1]

\* What of a sequence is in S, in its order.
Filtered(s, S) ==
    LET places == Sorted({n \in DOMAIN s : s[n] \in S}, LAMBDA m, n : m < n)
    IN  [n \in DOMAIN places |-> s[places[n]]]

Rows(book) == {i \in Ids : book.txns[i] # None}
Amount(book, i) == book.txns[i].amount
Sum(book, rows) == MapThenSumSet(LAMBDA i : Amount(book, i), rows)
OfType(book, rows, type) == {i \in rows : book.txns[i].type = type}
Regular(book, rows) == {i \in rows : book.txns[i].category # System}

-----------------------------------------------------------------------------
(* The history: one selection for the feed, its count and all its totals.  *)

clampToStored(t) == Min({Max({t, TimestampMin}), StoredTimestampMax})

\* Every wallet of the space, deleted ones too, or the one of the filter.
selectionWallets(q) ==
    IF q.walletId = Unset THEN SpaceWallets ELSE SpaceWallets \cap {q.walletId}

\* The text is found in a description, a category's or a wallet's name.
Matches(book, search, txn) ==
    {txn.description, book.names[txn.category], book.names[txn.wallet]} \cap search # {}

selectionScope(book, q, wallets) ==
    {i \in Rows(book) :
        LET txn == book.txns[i] IN
        /\ txn.wallet \in wallets
        /\ q.to >= TimestampMin /\ q.from <= StoredTimestampMax
        /\ txn.timestamp >= clampToStored(q.from) /\ txn.timestamp <= clampToStored(q.to)
        /\ q.transactionType # Unset => txn.type = q.transactionType
        /\ q.kind # Unset => KindOf(txn) = q.kind
        /\ q.categoryId # Unset => txn.category = q.categoryId
        /\ q.search # Unset => Matches(book, q.search, txn)}

PositionOf(book, i) == [timestamp |-> book.txns[i].timestamp, id |-> i]

\* The history order, newest first: a position comes before an older one.
NewerThan(p, r) ==
    \/ p.timestamp > r.timestamp
    \/ p.timestamp = r.timestamp /\ p.id > r.id

\* p is on a side of the position of a cursor.
BugTimeOnly(side, position, p) ==
    CASE side = "none" -> TRUE
      [] side = "after" -> position.timestamp > p.timestamp
      [] side = "before" -> p.timestamp > position.timestamp
Beside(side, position, p) ==
    CASE side = "none" -> TRUE
      [] side = "after" -> NewerThan(position, p)
      [] side = "before" -> NewerThan(p, position)

InHistoryOrder(book, rows) ==
    Sorted(rows, LAMBDA i, j : NewerThan(PositionOf(book, i), PositionOf(book, j)))

FirstOf(s, n) == SubSeq(s, 1, Min({n, Len(s)}))
LastOf(s, n) == SubSeq(s, Len(s) - Min({n, Len(s)}) + 1, Len(s))

\* The records next to a position on one side of it, one more than the limit
\* read in each wallet and then of all; without a position, the newest.
getFeedPage(book, q, limit, side, position) ==
    LET nearest(rows) ==
            IF side = "before" THEN LastOf(InHistoryOrder(book, rows), limit + 1)
            ELSE FirstOf(InHistoryOrder(book, rows), limit + 1)
        branch(w) ==
            {i \in selectionScope(book, q, {w}) : Beside(side, position, PositionOf(book, i))}
        rows == nearest(UNION {Range(nearest(branch(w))) : w \in selectionWallets(q)})
    IN  [items |-> IF side = "before" THEN LastOf(rows, limit) ELSE FirstOf(rows, limit),
         hasMore |-> Len(rows) > limit]

\* Initial balances count in `count` only.
getFeedSummary(book, q) ==
    LET rows == selectionScope(book, q, selectionWallets(q))
        regular == Regular(book, rows)
    IN  [count |-> Cardinality(rows),
         income |-> Sum(book, OfType(book, regular, "income")),
         expense |-> Sum(book, OfType(book, regular, "expense"))]

\* Income minus expense of the selection in each interval; a record counts in
\* the first interval it is within.
getFeedIntervalNets(book, q, intervals) ==
    LET within(r) ==
            {i \in DOMAIN intervals : /\ book.txns[r].timestamp >= clampToStored(intervals[i].from)
                                      /\ book.txns[r].timestamp <= clampToStored(intervals[i].to)}
        rows == {r \in Regular(book, selectionScope(book, q, selectionWallets(q))) : within(r) # {}}
        rowsOf(i) == {r \in rows : Min(within(r)) = i}
    IN  [i \in DOMAIN intervals |->
            Sum(book, OfType(book, rowsOf(i), "income")) - Sum(book, OfType(book, rowsOf(i), "expense"))]

findFeedPosition(book, q, i) ==
    IF i \in selectionScope(book, q, selectionWallets(q)) THEN PositionOf(book, i) ELSE None

countForAllWallets(book, q) == Cardinality(selectionScope(book, q, selectionWallets(q)))

\* A transaction of another space is not found rather than forbidden.
getOneInSpace(book, i) ==
    IF i \in Rows(book) /\ book.txns[i].wallet \in SpaceWallets THEN book.txns[i] ELSE None

\* The newest transaction of the space, in the history order.
getLatest(book) ==
    LET rows == {i \in Rows(book) : book.txns[i].wallet \in SpaceWallets}
    IN  IF rows = {} THEN None ELSE InHistoryOrder(book, rows)[1]

-----------------------------------------------------------------------------
(* Overviews.                                                              *)

getBalances(book, wallets) ==
    [w \in wallets |->
        LET rows == {i \in Rows(book) : book.txns[i].wallet = w}
        IN  Sum(book, OfType(book, rows, "income")) - Sum(book, rows \ OfType(book, rows, "income"))]

getPeriodTotals(book, wallets, from, to) ==
    [w \in wallets |->
        LET rows == {i \in Regular(book, Rows(book)) :
                        /\ book.txns[i].wallet = w
                        /\ book.txns[i].timestamp >= from /\ book.txns[i].timestamp <= to}
        IN  [income |-> Sum(book, OfType(book, rows, "income")),
             spend |-> Sum(book, OfType(book, rows, "expense"))]]

\* A category without expenses has no entry: its sum is 0.
getExpensesByCategory(book, from, to) ==
    [k \in Categories \cup {System} |->
        Sum(book, {i \in OfType(book, Rows(book), "expense") :
                      /\ book.txns[i].wallet \in SpaceWallets
                      /\ book.txns[i].category = k
                      /\ book.txns[i].timestamp >= from /\ book.txns[i].timestamp <= to})]

-----------------------------------------------------------------------------
(* Statistics: all wallets of the space, no initial balances.              *)

BugExclusiveEnd(book, from, to) ==
    {i \in Regular(book, Rows(book)) :
        /\ book.txns[i].wallet \in SpaceWallets
        /\ from # Unset => book.txns[i].timestamp >= from
        /\ book.txns[i].timestamp < to}
statisticsScope(book, from, to) ==
    {i \in Regular(book, Rows(book)) :
        /\ book.txns[i].wallet \in SpaceWallets
        /\ from # Unset => book.txns[i].timestamp >= from
        /\ book.txns[i].timestamp <= to}

statisticsTypeScope(book, type, from, to) == OfType(book, statisticsScope(book, from, to), type)

TotalsOf(book, rows) ==
    [income |-> Sum(book, OfType(book, rows, "income")),
     incomeCount |-> Cardinality(OfType(book, rows, "income")),
     expense |-> Sum(book, OfType(book, rows, "expense")),
     expenseCount |-> Cardinality(OfType(book, rows, "expense"))]

getStatisticsTotals(book, from, to) == TotalsOf(book, statisticsScope(book, from, to))

\* A record counts in the first interval that has not ended before it; the
\* last end only closes the list.
getStatisticsIntervalTotals(book, from, to, ends) ==
    LET open(t, i) == i = Len(ends) \/ t <= ends[i]
        firstOpen(t) == CHOOSE i \in DOMAIN ends : open(t, i) /\ \A j \in 1..(i - 1) : ~open(t, j)
        rows == statisticsScope(book, from, to)
        interval == [r \in rows |-> firstOpen(book.txns[r].timestamp)]
    IN  [i \in DOMAIN ends |-> TotalsOf(book, {r \in rows : interval[r] = i})]

GroupsBy(book, rows, field) ==
    {[id |-> g,
      amount |-> Sum(book, {i \in rows : book.txns[i][field] = g}),
      count |-> Cardinality({i \in rows : book.txns[i][field] = g})] :
        g \in {book.txns[i][field] : i \in rows}}

getStatisticsByCategory(book, type, from, to) ==
    {[id |-> g.id, amount |-> g.amount, count |-> g.count, isArchived |-> g.id \in book.archived] :
        g \in GroupsBy(book, statisticsTypeScope(book, type, from, to), "category")}

BugActiveOnly(book, type, from, to) ==
    {[id |-> g.id, amount |-> g.amount, count |-> g.count, isDeleted |-> FALSE] :
        g \in {g \in GroupsBy(book, statisticsTypeScope(book, type, from, to), "wallet") :
                 g.id \notin book.deleted}}
getStatisticsByWallet(book, type, from, to) ==
    {[id |-> g.id, amount |-> g.amount, count |-> g.count, isDeleted |-> g.id \in book.deleted] :
        g \in GroupsBy(book, statisticsTypeScope(book, type, from, to), "wallet")}

\* The latest timestamp up to `to`, in any period.
getLastStatisticsTimestamp(book, to) ==
    LET rows == statisticsScope(book, Unset, to)
    IN  IF rows = {} THEN None ELSE Max({book.txns[i].timestamp : i \in rows})
=============================================================================
