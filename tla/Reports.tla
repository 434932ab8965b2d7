-------------------------------- MODULE Reports --------------------------------
(***************************************************************************)
(* A member reads the history, the statistics and the overviews of a space *)
(* while other members write: one book, one reader with one request at a   *)
(* time.  A list and a cycle of statistics are not kept together: nothing  *)
(* of one goes into a request of the other.                                *)
(***************************************************************************)
EXTENDS TransactionFeed, Statistics, SpaceOverview

vars == <<history, request, answer, list, cycle>>

Init ==
    /\ book \in Books
    /\ writes = 0
    /\ touched = None
    /\ clock = Min(Nows)
    /\ request = Idle
    /\ answer = None
    /\ list = None
    /\ cycle = None

Next ==
    \/ (MemberWrites \/ \E now \in Nows : Tick(now)) /\ UNCHANGED <<list, cycle>>
    \/ FeedRequests /\ cycle' = None
    \/ FeedSteps /\ UNCHANGED cycle
    \/ StatisticsRequests /\ list' = None
    \/ StatisticsSteps /\ UNCHANGED list
    \/ OverviewRequests /\ list' = None /\ cycle' = None
    \/ OverviewSteps /\ UNCHANGED <<list, cycle>>

Spec == Init /\ [][Next]_vars

-----------------------------------------------------------------------------
(* Invariants.                                                             *)

List == [query : Queries, items : Seq(Position),
         older : Position \cup {None}, newer : Position \cup {None}]

\* The book is one, the list and the request are of the shapes above, and so is
\* what clients get: a field is null just when its description says so
\* (transaction-responses.ts, statistics-responses.ts; which buckets are null
\* depends on the zone, so ByLocalDate says that).
TypeOK ==
    /\ book \in Book
    /\ writes \in 0..MaxEvents
    /\ touched \in (SUBSET Ids) \cup {None}
    /\ clock \in Nows
    /\ list \in List \cup {None}
    /\ request # Idle => request.snapshot \in Book \cup {None} /\ request.at \in 0..writes
    /\ answer # None => IsHistoryAnswer(answer)
    /\ cycle # None => \A b \in Blocks : cycle.block[b] # None =>
           cycle.block[b].at \in 0..writes /\ IsBlock(b, cycle.block[b])

Regulars(items) == {n \in DOMAIN items : items[n].kind = "regular"}
NetOf(items, numbers) ==
    MapThenSumSet(LAMBDA n : IF items[n].type = "income" THEN items[n].amount
                             ELSE -items[n].amount, numbers)
OfItems(items, type) ==
    MapThenSumSet(LAMBDA n : items[n].amount, {n \in Regulars(items) : items[n].type = type})

\* A record that nobody wrote since the list began is in the list exactly once
\* if it lies between the list's cursors, whatever was written between the
\* pages: nothing stable is skipped or listed twice, and a missing cursor
\* means that there is no more (getFeedPage, the probe of the other side).  A
\* count that is asked for beside a whole list is the list's length, and the
\* latest record is the first of a list that has nothing newer to load.
ListComplete ==
    list # None =>
        LET items == list.items
            above(p) == list.newer # None /\ NewerThan(p, items[1])
            below(p) == list.older # None /\ NewerThan(items[Len(items)], p)
        IN  /\ \A i \in selectionScope(book, list.query, selectionWallets(list.query)) \ touched :
                   LET p == PositionOf(book, i) IN
                   Cardinality({n \in DOMAIN items : items[n].id = i})
                       = (IF above(p) \/ below(p) THEN 0 ELSE 1)
            /\ (/\ answer # None /\ answer.kind = "count" /\ answer.query = list.query
                /\ list.older = None /\ list.newer = None /\ touched = {}) =>
                   answer.count = Len(items)
            /\ (/\ answer # None /\ answer.kind = "latest" /\ answer.id # None
                /\ list.newer = None /\ touched = {}
                /\ findFeedPosition(book, list.query, answer.id) # None) =>
                   items[1].id = answer.id

\* "net is income minus expense of all the records of that day in the
\* selection": of a day that is wholly on the page, the records are its items.
DayNets ==
    (answer # None /\ answer.kind = "page") =>
        LET items == answer.items
            dateOf(n) == calendarDateAt(items[n].timestamp, answer.query.zone)
            onPage(date) == /\ answer.older # None => date > dateOf(Len(items))
                            /\ answer.newer # None => date < dateOf(1)
        IN  \A day \in Range(answer.days) :
                onPage(day.date) =>
                    day.net = NetOf(items, {n \in Regulars(items) : dateOf(n) = day.date})

\* The items, the cursors and the summary of a page describe one moment
\* (the snapshot of getFeed): the page is in the history's order, is as full as
\* the selection allows, has a cursor just when it is not the whole selection,
\* and has its sums when it is.
PageAddsUp ==
    (answer # None /\ answer.kind = "page") =>
        LET items == answer.items
            size == Len(items)
            whole == answer.older = None /\ answer.newer = None
        IN  /\ \A m, n \in DOMAIN items :
                   m < n => NewerThan(positionOf(items[m]), positionOf(items[n]))
            /\ items # <<>> => (whole <=> answer.summary.count = size)
            /\ answer.direction = None => size = Min({answer.limit, answer.summary.count})
            /\ answer.around # None => \E n \in DOMAIN items : items[n].id = answer.around
            /\ items # <<>> /\ whole =>
                   /\ answer.summary.income = OfItems(items, "income")
                   /\ answer.summary.expense = OfItems(items, "expense")

Have(block) == cycle # None /\ cycle.block[block] # None
Block(b) == cycle.block[b]
Alike(a, b) ==
    /\ Have(a) /\ Have(b)
    /\ Block(a).at = Block(b).at /\ Block(a).period = Block(b).period

\* The control sums of docs/statistics-contract.md: blocks of one cycle agree
\* when nothing was written between their reads, and each agrees with itself
\* whatever is written meanwhile.
BlocksAgree ==
    /\ Alike("summary", "trend") =>
           /\ Block("trend").totals.income = Block("summary").figures.income
           /\ Block("trend").totals.expense = Block("summary").figures.expense
    /\ Alike("summary", "breakdown") =>
           LET type == Block("breakdown").type IN
           Block("breakdown").total = Block("summary").figures[type]
    /\ Have("breakdown") =>
           /\ Block("breakdown").by_category.total = Block("breakdown").total.amount
           /\ Block("breakdown").by_wallet.total = Block("breakdown").total.amount

\* A current period has transactions just when the last transaction is of one
\* of its days.
LastDateAgrees ==
    Have("summary") /\ Block("summary").period.state = "current" =>
        (Block("summary").figures.transactions_count > 0
            <=> /\ Block("summary").lastDate # None
                /\ Block("summary").lastDate >= Block("summary").period.start_date)

Amounts(item) == IF item = None THEN 0 ELSE item.amount
Parts(breakdown) ==
    Range(breakdown.primary)
        \cup (IF breakdown.other = None THEN {} ELSE Range(breakdown.other.children))

\* The slices of a donut are its total, there is one more of them than
\* MAX_PRIMARY_GROUPS at most, and none is empty; "other" is smaller parts than
\* any slice of its own (foldGroups, buildWalletBreakdown).
SlicesAddUp ==
    Have("breakdown") =>
        \A b \in {Block("breakdown").by_category, Block("breakdown").by_wallet} :
            LET slices == Len(b.primary) + Cardinality({b.deleted, b.other} \ {None})
                primarySum == SumFunction([n \in DOMAIN b.primary |-> b.primary[n].amount])
            IN  /\ primarySum + Amounts(b.deleted) + Amounts(b.other) = b.total
                /\ slices <= MAX_PRIMARY_GROUPS + 1
                /\ b.total > 0 <=> slices > 0
                /\ b.total > 0 /\ Len(b.primary) > 1 =>
                       \A n \in DOMAIN b.primary :
                           b.primary[n].amount * 100 >= b.total * OTHER_THRESHOLD_PERCENT
                /\ b.other # None =>
                       \A n \in DOMAIN b.primary, c \in Range(b.other.children) :
                           c.amount <= b.primary[n].amount

Template(period, type, field, id) ==
    [from |-> period.from, to |-> period.actual_to, zone |-> period.time_zone,
     transactionType |-> type, kind |-> "regular", search |-> Unset,
     categoryId |-> IF field = "category" THEN id ELSE Unset,
     walletId |-> IF field = "wallet" THEN id ELSE Unset]

\* An item of a breakdown opens the history with one template, and the sum of
\* that history is the amount of the item (docs/statistics-contract.md, Opening
\* a breakdown item): as long as nothing was written, the feed takes the query
\* and its own reads give the same figure.
HistoryMatches ==
    Have("breakdown") /\ Block("breakdown").at = writes /\ Block("breakdown").period.actual_to # Unset =>
        LET b == Block("breakdown")
            opens(field, item) ==
                LET q == Template(b.period, b.type, field, item.id)
                    summary == getFeedSummary(book, q)
                IN  checkHistoryQuery(q) /\ summary[b.type] = item.amount
        IN  /\ \A item \in Parts(b.by_category) : opens("category", item)
            /\ \A item \in Parts(b.by_wallet) : opens("wallet", item)
            /\ getFeedSummary(book, Template(b.period, b.type, "all", Unset)).count = b.total.count

InDates(t, range, zone) ==
    calendarDateAt(t, zone) >= range.start_date /\ calendarDateAt(t, zone) <= range.end_date

\* Figures are by local date, through the changes of the zone: a day's net is
\* that of its records, the last transaction has the date that its period says,
\* the buckets of a trend follow each other without a gap from the first to the
\* last hour of the period, a record counts in the bucket that has its local
\* date, "null only for a future bucket" is so (statistics-responses.ts), the
\* previous period ends where the period begins, is cut within itself and at the
\* same hour of the day, and the month of the limits is the records' local month.
ByLocalDate ==
    /\ DayNets
    /\ LastDateAgrees
    /\ Have("trend") =>
           LET b == Block("trend")
               interval(i) == b.buckets[i].interval
           IN  /\ interval(1).from = b.period.from
               /\ interval(Len(b.buckets)).to = b.period.to
               /\ \A i \in 2..Len(b.buckets) :
                      /\ interval(i).from = interval(i - 1).to + 1
                      /\ interval(i).start_date = interval(i - 1).end_date + 1
               /\ \A i \in DOMAIN b.buckets :
                      /\ interval(i).state = "future" <=> b.buckets[i].income = None
                      /\ interval(i).state = "future" <=> b.buckets[i].expense = None
               /\ b.at = writes =>
                      \A i \in DOMAIN b.buckets :
                          b.buckets[i].income # None =>
                              LET inside == {r \in statisticsScope(book, Unset, b.period.as_of) :
                                                InDates(book.txns[r].timestamp, interval(i), b.period.time_zone)}
                              IN  /\ b.buckets[i].income = Sum(book, OfType(book, inside, "income"))
                                  /\ b.buckets[i].expense = Sum(book, OfType(book, inside, "expense"))
    /\ Have("summary") /\ Block("summary").previous # Unset =>
           LET period == Block("summary").period
               previous == Block("summary").previous
               hour(t) == LocalHour(period.time_zone, t) % 24
           IN  /\ previous.to = period.from - 1
               /\ previous.end_date = period.start_date - 1
               /\ previous.from <= previous.actual_to /\ previous.actual_to <= previous.to
               /\ period.state = "current" => hour(previous.actual_to) = hour(period.as_of)
    /\ (answer # None /\ answer.kind = "limits") =>
           \A i \in Rows(book) :
               LET t == book.txns[i].timestamp IN
               (answer.period.from <= t /\ t <= answer.period.to)
                   <=> InDates(t, answer.period, answer.period.time_zone)

InitialBalance(w) ==
    Sum(book, {i \in Rows(book) \ Regular(book, Rows(book)) : book.txns[i].wallet = w})

\* An overview shows one moment: a balance never has a transaction that the
\* totals of its period miss, so over all time it is the initial balance and
\* the totals; an archived category is in no limit; a create whose record is
\* gone says when it was deleted.
OverviewsAgree ==
    /\ (answer # None /\ answer.kind = "wallets"
            /\ answer.period.from <= TimestampMin /\ answer.period.to >= StoredTimestampMax) =>
           \A w \in DOMAIN answer.wallets :
               answer.wallets[w].balance =
                   InitialBalance(w) + answer.wallets[w].total_income - answer.wallets[w].total_spend
    /\ (answer # None /\ answer.kind = "categories") =>
           \A view \in Range(answer.archived) : view.limit = {}
    /\ (answer # None /\ answer.kind = "operation") =>
           (answer.status = "deleted" <=> answer.deleted_at)
=============================================================================
