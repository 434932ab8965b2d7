------------------------------ MODULE Statistics ------------------------------
(***************************************************************************)
(* The statistics screen: its blocks are read one by one, each in its own  *)
(* snapshot, and a client shows those of one query together                *)
(* (src/src/modules/statistics/statistics.service.ts and                   *)
(* statistics-breakdown.ts; docs/statistics-contract.md has the cycle).    *)
(***************************************************************************)
EXTENDS SpaceHistory, Money

CONSTANTS
    StatQueries,                \* bound: the queries a client sends
    MAX_PRIMARY_GROUPS,
    OTHER_THRESHOLD_PERCENT

VARIABLE cycle  \* the blocks a client has of one query, or None

statisticsVars == <<history, request, answer, cycle>>

Blocks == {"summary", "trend", "breakdown"}

\* dto/statistics-query.dto.ts; the type of a breakdown is in the request.
StatisticsQuery ==
    [period : PeriodTypes, zone : Zone, anchor_date : Int \cup {Unset},
     from_date : Int \cup {Unset}, to_date : Int \cup {Unset},
     as_of : TimestampMin..TimestampMax \cup {Unset}]

ASSUME StatQueryAssumption == /\ StatQueries \subseteq StatisticsQuery
                              /\ \A q \in StatQueries : IsFiniteSet(q.zone.changes)
ASSUME GroupAssumption == MAX_PRIMARY_GROUPS \in Nat \ {0} /\ OTHER_THRESHOLD_PERCENT \in 0..100
ASSUME ItemAssumption ==
    None \notin [amount : Nat, percent : Int, wallets_count : Nat]
                \cup [amount : Nat, percent : Int,
                      children : Seq([id : Nat, amount : Nat, percent : Int, is_archived : BOOLEAN])]

-----------------------------------------------------------------------------
(* The client asks for the blocks of a cycle one after another and can     *)
(* switch the breakdown: what a block has depends on the moments of its    *)
(* own reads only, so another order, or all at once, shows nothing else.   *)

NewCycle(q) == [query |-> q, block |-> [b \in Blocks |-> None]]

NextBlock(block, type) ==
    LET has(b) == cycle.block[b] # None IN
    CASE block = "summary" -> FALSE
      [] block = "trend" -> has("summary") /\ ~has("trend")
      [] block = "breakdown" -> has("trend") /\ (has(block) => cycle.block[block].type # type)

AskBlock(block, q, type) ==
    /\ request = Idle
    /\ request' = Request(block, "open", [query |-> q, type |-> type])
    /\ answer' = None
    /\ touched' = None
    /\ \/ block = "summary" /\ cycle' = NewCycle(q)
       \/ cycle # None /\ cycle.query = q /\ NextBlock(block, type) /\ UNCHANGED cycle
    /\ UNCHANGED <<book, writes, clock>>

RespondBlock(content) ==
    /\ Respond(None)
    /\ cycle' = [query |-> cycle.query, block |-> [cycle.block EXCEPT ![request.kind] = content]]

-----------------------------------------------------------------------------
(* openBlock.                                                              *)

OpenRefused ==
    /\ request.kind \in Blocks /\ request.step = "open"
    /\ periodErrors(request.ask.query, clock) # {}
    /\ Respond(Refusal)
    /\ UNCHANGED <<cycle, touched>>

\* Where a block begins to read; a period that has not begun is not read.
FirstRead(kind, period) ==
    CASE period.state = "future" /\ kind = "summary" -> "last"
      [] period.state # "future" /\ kind = "summary" -> "totals"
      [] kind = "trend" -> "sums"
      [] kind = "breakdown" -> "groups"

OpenBlock ==
    /\ request.kind \in Blocks /\ request.step = "open"
    /\ periodErrors(request.ask.query, clock) = {}
    /\ \E period \in {resolveStatisticsPeriod(request.ask.query, clock)} :
          request' = InProgress(
              request.kind, FirstRead(request.kind, period), request.ask,
              request.snapshot, request.at,
              CASE request.kind = "summary" ->
                      [period |-> period,
                       previous |-> resolvePreviousPeriod(period, clock),
                       totals |-> TotalsOf(book, {}),
                       previousTotals |-> Unset]
                [] request.kind = "trend" ->
                      [period |-> period,
                       intervals |-> resolveTrendIntervals(
                           period, trendGranularity(period), clock)]
                [] OTHER -> [period |-> period])
    /\ UNCHANGED <<book, writes, touched, clock, answer, cycle>>

-----------------------------------------------------------------------------
(* Summary.                                                                *)

ReadTotals ==
    /\ InStep("summary", "totals")
    /\ LET got == request.got
           totals == getStatisticsTotals(Seen, got.period.from, got.period.actual_to)
       IN  ReadAndGo(IF got.previous = Unset THEN "last" ELSE "previous", [got EXCEPT !.totals = totals])
    /\ UNCHANGED <<cycle, touched>>

ReadPrevious ==
    /\ InStep("summary", "previous")
    /\ LET got == request.got IN
          ReadAndGo("last", [got EXCEPT !.previousTotals =
              getStatisticsTotals(Seen, got.previous.from, got.previous.actual_to)])
    /\ UNCHANGED <<cycle, touched>>

figuresOf(totals) ==
    [income |-> [amount |-> totals.income, count |-> totals.incomeCount],
     expense |-> [amount |-> totals.expense, count |-> totals.expenseCount],
     net |-> totals.income - totals.expense,
     transactions_count |-> totals.incomeCount + totals.expenseCount]

\* The percentage is of the size of the previous figure; of zero there is none.
changeOf(current, previous) ==
    LET base == IF previous < 0 THEN -previous ELSE previous IN
    [delta |-> current - previous,
     percent |-> IF base = 0 THEN None ELSE roundPercentToTenth(current - previous, base)]

ReadLast ==
    /\ InStep("summary", "last")
    /\ LET got == request.got
           was == got.previousTotals
           last == getLastStatisticsTimestamp(Seen, got.period.as_of)
       IN  RespondBlock(
              [at |-> SeenAt, period |-> got.period, previous |-> got.previous,
               figures |-> figuresOf(got.totals),
               previousFigures |-> IF was = Unset THEN None ELSE figuresOf(was),
               change |-> IF was = Unset THEN None
                          ELSE [income |-> changeOf(got.totals.income, was.income),
                                expense |-> changeOf(got.totals.expense, was.expense),
                                net |-> changeOf(got.totals.income - got.totals.expense,
                                                 was.income - was.expense)],
               has_any |-> last # None,
               lastDate |-> IF last = None THEN None
                            ELSE calendarDateAt(last, got.period.time_zone)])
    /\ UNCHANGED touched

-----------------------------------------------------------------------------
(* Trend: one read, of the intervals that have begun.                      *)

addTotals(sums, amount, count) ==
    [amount |-> SumFunction([i \in DOMAIN sums |-> sums[i][amount]]),
     count |-> SumFunction([i \in DOMAIN sums |-> sums[i][count]])]

ReadTrend ==
    /\ InStep("trend", "sums")
    /\ LET period == request.got.period
           intervals == request.got.intervals
           started == Filtered(intervals, {i \in Range(intervals) : i.state # "future"})
           ends == [i \in DOMAIN started |-> started[i].to]
       IN  \E sums \in {IF period.actual_to = Unset THEN <<>>
                        ELSE getStatisticsIntervalTotals(Seen, period.from, period.actual_to, ends)} :
              RespondBlock(
                 [at |-> SeenAt,
                  period |-> period,
                  granularity |-> trendGranularity(period),
                  totals |-> [income |-> addTotals(sums, "income", "incomeCount"),
                              expense |-> addTotals(sums, "expense", "expenseCount")],
                  buckets |-> [i \in DOMAIN intervals |->
                                  [interval |-> intervals[i],
                                   income |-> IF i \in DOMAIN sums THEN sums[i].income ELSE None,
                                   expense |-> IF i \in DOMAIN sums THEN sums[i].expense ELSE None]]])
    /\ UNCHANGED touched

-----------------------------------------------------------------------------
(* Breakdown: by category and by wallet.                                   *)

sumOf(groups) == SumFunction([g \in groups |-> g.amount])

\* The largest groups that reach the threshold, one at least, and the rest.
foldGroups(groups, total, maxPrimary) ==
    LET sorted == Sorted({g \in groups : g.amount > 0},
                      LAMBDA g, h : g.amount > h.amount \/ (g.amount = h.amount /\ g.id < h.id))
        reaches(g) == g.amount * 100 >= total * OTHER_THRESHOLD_PERCENT
        large == Cardinality({n \in DOMAIN sorted : reaches(sorted[n])})
        count == Min({Max({large, 1}), maxPrimary, Len(sorted)})
    IN  [primary |-> FirstOf(sorted, count), folded |-> LastOf(sorted, Len(sorted) - count)]

\* An active wallet is shown like a category that is not archived.
toItem(g, total) ==
    [id |-> g.id, amount |-> g.amount, percent |-> roundPercentToTenth(g.amount, total),
     is_archived |-> g.isArchived]

\* One item for several groups, or None.
deletedWallets(groups, total) ==
    IF groups = {} THEN None
    ELSE [amount |-> sumOf(groups), percent |-> roundPercentToTenth(sumOf(groups), total),
          wallets_count |-> Cardinality(groups)]

otherOf(groups, total) ==
    IF groups = <<>> THEN None
    ELSE [amount |-> sumOf(Range(groups)), percent |-> roundPercentToTenth(sumOf(Range(groups)), total),
          children |-> [n \in DOMAIN groups |-> toItem(groups[n], total)]]

\* Deleted wallets are one group, which takes a place of the primary ones.
BugFullDonut(deleted) == MAX_PRIMARY_GROUPS
MaxPrimary(deleted) == IF deleted = {} THEN MAX_PRIMARY_GROUPS ELSE MAX_PRIMARY_GROUPS - 1

Breakdown(groups, deleted, total) ==
    LET fold == foldGroups(groups, total, MaxPrimary(deleted))
    IN  [total |-> total,
         source_count |-> Len(fold.primary) + Len(fold.folded) + Cardinality(deleted),
         primary |-> [n \in DOMAIN fold.primary |-> toItem(fold.primary[n], total)],
         deleted |-> deletedWallets(deleted, total),
         other |-> otherOf(fold.folded, total)]

buildCategoryBreakdown(categories) == Breakdown(categories, {}, sumOf(categories))

buildWalletBreakdown(wallets) ==
    Breakdown({[id |-> w.id, amount |-> w.amount, isArchived |-> FALSE] :
                  w \in {v \in wallets : ~v.isDeleted}},
              {w \in wallets : w.isDeleted /\ w.amount > 0},
              sumOf(wallets))

RespondBreakdown(categories, wallets) ==
    RespondBlock([at |-> SeenAt,
                  period |-> request.got.period,
                  type |-> request.ask.type,
                  total |-> [amount |-> sumOf(categories),
                             count |-> SumFunction([g \in categories |-> g.count])],
                  by_category |-> buildCategoryBreakdown(categories),
                  by_wallet |-> buildWalletBreakdown(wallets)])

ReadCategories ==
    /\ InStep("breakdown", "groups")
    /\ LET period == request.got.period IN
          \/ /\ period.actual_to # Unset
             /\ ReadAndGo("wallets",
                          [period |-> period,
                           categories |-> getStatisticsByCategory(Seen, request.ask.type,
                                                                  period.from, period.actual_to)])
             /\ UNCHANGED cycle
          \/ period.actual_to = Unset /\ RespondBreakdown({}, {})
    /\ UNCHANGED touched

ReadWallets ==
    /\ InStep("breakdown", "wallets")
    /\ LET period == request.got.period IN
          RespondBreakdown(request.got.categories,
                           getStatisticsByWallet(Seen, request.ask.type, period.from, period.actual_to))
    /\ UNCHANGED touched

-----------------------------------------------------------------------------
(* What clients get (dto/statistics-responses.ts).  A percentage is in      *)
(* tenths; keys, names, looks and the currency are left out.               *)

MoneyCount == [amount : Nat, count : Nat]
Percents == 0..1000
Change == [delta : Int, percent : Int \cup {None}]
Changes == [income : Change, expense : Change, net : Change]
Figures == [income : MoneyCount, expense : MoneyCount, net : Int, transactions_count : Nat]
Totals == [income : Nat, incomeCount : Nat, expense : Nat, expenseCount : Nat]

ASSUME NullAssumption == None \notin Int \cup Figures \cup Changes
ASSUME UnreadAssumption == Unset \notin PreviousPeriod \cup Totals

\* "null exactly when previous is null", "null exactly when
\* has_any_transactions is false".
IsSummary(b) ==
    /\ b.period \in StatisticsPeriod
    /\ b.previous \in PreviousPeriod \cup {Unset}
    /\ b.figures \in Figures
    /\ b.previousFigures \in Figures \cup {None}
    /\ b.change \in Changes \cup {None}
    /\ b.has_any \in BOOLEAN
    /\ b.lastDate \in Int \cup {None}
    /\ (b.previous = Unset) = (b.previousFigures = None)
    /\ (b.previous = Unset) = (b.change = None)
    /\ (b.has_any = FALSE) = (b.lastDate = None)

TrendBucket == [interval : TrendInterval, income : Nat \cup {None}, expense : Nat \cup {None}]

IsTrend(b) ==
    /\ b.period \in StatisticsPeriod
    /\ b.granularity \in TrendUnits
    /\ b.totals \in [income : MoneyCount, expense : MoneyCount]
    /\ b.buckets \in Seq(TrendBucket)

\* CategoryItem and WalletItem; the items that open a history.
Item(ids) == [id : ids, amount : Nat \ {0}, percent : Percents, is_archived : BOOLEAN]
DeletedWalletsItem == [amount : Nat \ {0}, percent : Percents, wallets_count : Nat \ {0}]
OtherItem(ids) == [amount : Nat \ {0}, percent : Percents, children : Seq(Item(ids))]

BreakdownOf(ids) ==
    [total : Nat, source_count : Nat, primary : Seq(Item(ids)),
     deleted : DeletedWalletsItem \cup {None}, other : OtherItem(ids) \cup {None}]

IsBreakdown(b) ==
    /\ b.period \in StatisticsPeriod
    /\ b.type \in Types
    /\ b.total \in MoneyCount
    /\ b.by_category \in BreakdownOf(Categories) /\ b.by_category.deleted = None
    /\ b.by_wallet \in BreakdownOf(SpaceWallets)

IsBlock(kind, b) ==
    CASE kind = "summary" -> IsSummary(b)
      [] kind = "trend" -> IsTrend(b)
      [] kind = "breakdown" -> IsBreakdown(b)

StatisticsSteps ==
    \/ OpenRefused \/ OpenBlock \/ ReadTotals \/ ReadPrevious \/ ReadLast
    \/ ReadTrend \/ ReadCategories \/ ReadWallets

StatisticsRequests ==
    \E q \in StatQueries :
        \/ AskBlock("summary", q, None)
        \/ AskBlock("trend", q, None)
        \/ \E type \in Types : AskBlock("breakdown", q, type)
=============================================================================
