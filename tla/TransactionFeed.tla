--------------------------- MODULE TransactionFeed ---------------------------
(***************************************************************************)
(* The history screen: pages of the feed, the record it is opened at, the  *)
(* count of a selection, the latest record, and what became of a create    *)
(* (getFeed, count, getLatest and getOperation of                          *)
(* src/src/modules/transactions/transactions.service.ts, and               *)
(* src/src/modules/transactions/feed-cursor.ts).  A query has a cursor or  *)
(* a record to open at, never both: getFeed refuses that before it reads.  *)
(*                                                                         *)
(* `list` is what a client keeps: the pages it has put together and the    *)
(* cursors at their ends.  A page that follows a cursor moves that cursor  *)
(* only (docs/transactions-contract.md).                                   *)
(***************************************************************************)
EXTENDS SpaceHistory

CONSTANTS
    Queries,    \* bound: the selections a client asks for, with a time zone
    Limits,     \* bound: the limits of a page
    Targets     \* bound: the records a list is opened at

VARIABLE list   \* the client's list, or None

FEED_MAX_LIMIT == 100

\* dto/transaction-feed-query.dto.ts; the limit, the cursor and the record to
\* open at are in the request.
FeedQuery ==
    [from : Int, to : Int, zone : Zone, search : (SUBSET STRING) \cup {Unset},
     transactionType : Types \cup {Unset}, kind : Kinds \cup {Unset},
     categoryId : Nat \cup {Unset}, walletId : Nat \cup {Unset}]

Position == [timestamp : Int, id : Ids]
CursorFields == [direction : {"older", "newer"}, position : Position, digest : FeedQuery]

ASSUME QueryAssumption == /\ Queries \subseteq FeedQuery /\ Limits \subseteq 1..FEED_MAX_LIMIT
                          /\ \A q \in Queries : IsFiniteSet(q.zone.changes)
ASSUME CursorAssumption == None \notin Position \cup CursorFields \cup {"older", "newer"}

feedVars == <<history, request, answer, list>>

Cursor(direction, position, digest) ==
    [direction |-> direction, position |-> position, digest |-> digest]

\* Everything of the query counts, the zone included.
selectionDigest(q) == q

-----------------------------------------------------------------------------
(* The client.                                                             *)

Ask(kind, query, limit, cursor, around) ==
    /\ request = Idle
    /\ request' = Request(kind, "check", [query |-> query, limit |-> limit, cursor |-> cursor, around |-> around])
    /\ answer' = None
    /\ UNCHANGED <<book, writes, clock>>

OpenList(q, limit, around) ==
    /\ Ask("feed", q, limit, None, around)
    /\ list' = None
    /\ touched' = None

\* A client may put a cursor into another query.
FollowCursor(q, limit, direction) ==
    /\ list # None /\ list[direction] # None
    /\ Ask("feed", q, limit, Cursor(direction, list[direction], selectionDigest(list.query)), None)
    /\ UNCHANGED <<list, touched>>

AskCount(q) ==
    /\ Ask("count", q, 0, None, None)
    /\ UNCHANGED <<list, touched>>

AskLatest ==
    /\ Ask("latest", None, 0, None, None)
    /\ UNCHANGED <<list, touched>>

AskOperation(i) ==
    /\ Ask("operation", None, 0, None, i)
    /\ list' = None
    /\ touched' = None

\* Beside a list, which it changes nothing of.
AskTransaction(i) ==
    /\ Ask("transaction", None, 0, None, i)
    /\ UNCHANGED <<list, touched>>

-----------------------------------------------------------------------------
(* The checks, before the snapshot.                                        *)

\* decodeFeedCursor: a cursor belongs to one query.
Accepts(cursor, q) == cursor # None => cursor.digest = selectionDigest(q)

\* An archived category is a valid filter; a deleted wallet is not.
checkHistoryQuery(q) ==
    /\ q.from <= q.to
    /\ q.categoryId # Unset => q.categoryId \in Categories
    /\ q.walletId # Unset => WalletUsable(q.walletId)

FeedRefused ==
    /\ InStep("feed", "check")
    /\ ~Accepts(request.ask.cursor, request.ask.query) \/ ~checkHistoryQuery(request.ask.query)
    /\ Respond(Refusal)
    /\ UNCHANGED <<list, touched>>

FeedAccepted ==
    /\ InStep("feed", "check")
    /\ Accepts(request.ask.cursor, request.ask.query) /\ checkHistoryQuery(request.ask.query)
    /\ GoOn(IF request.ask.around = None THEN "page" ELSE "target")
    /\ UNCHANGED list

-----------------------------------------------------------------------------
(* The reads of a page, in one snapshot.                                   *)

\* A deleted wallet is not shown; names and looks are left out.
toTransactionView(i) ==
    LET txn == Seen.txns[i] IN
    [id |-> i, kind |-> KindOf(txn), type |-> txn.type, amount |-> txn.amount,
     timestamp |-> txn.timestamp, description |-> txn.description,
     wallet |-> IF txn.wallet \in Seen.deleted THEN None ELSE txn.wallet,
     category |-> txn.category, is_archived |-> txn.category \in Seen.archived]

Views(ids) == [n \in DOMAIN ids |-> toTransactionView(ids[n])]

Window(items, hasOlder, hasNewer) == [items |-> items, hasOlder |-> hasOlder, hasNewer |-> hasNewer]

positionOf(item) == [timestamp |-> item.timestamp, id |-> item.id]

\* A new list watches what is written from its snapshot on.
Read(step, got) ==
    /\ ReadAndGo(step, got)
    /\ touched' = IF request.ask.cursor = None /\ request.snapshot = None THEN {} ELSE touched
    /\ UNCHANGED list

ZeroSummary == [count |-> 0, income |-> 0, expense |-> 0]

ReadPage ==
    /\ InStep("feed", "page")
    /\ LET cursor == request.ask.cursor
           side == CASE cursor = None -> "none"
                     [] cursor # None /\ cursor.direction = "newer" -> "before"
                     [] OTHER -> "after"
           page == getFeedPage(Seen, request.ask.query, request.ask.limit, side,
                               IF cursor = None THEN None ELSE cursor.position)
           items == Views(page.items)
       IN  CASE items = <<>> -> Read("summary", [window |-> Window(<<>>, FALSE, FALSE)])
             [] items # <<>> /\ cursor = None ->
                    Read("summary", [window |-> Window(items, page.hasMore, FALSE)])
             [] OTHER -> Read("edge", [items |-> items, hasMore |-> page.hasMore])

\* The direction that was not read is probed with a limit of 0.
ReadEdge ==
    /\ InStep("feed", "edge")
    /\ LET got == request.got
           newer == request.ask.cursor.direction = "newer"
           beyond(side, item) ==
               getFeedPage(Seen, request.ask.query, 0, side, positionOf(item)).hasMore
       IN  Read("summary",
                [window |-> IF newer
                            THEN Window(got.items, beyond("after", got.items[Len(got.items)]), got.hasMore)
                            ELSE Window(got.items, got.hasMore, beyond("before", got.items[1]))])

ReadTarget ==
    /\ InStep("feed", "target")
    /\ \/ /\ getOneInSpace(Seen, request.ask.around) # None
          /\ Read("position", [target |-> toTransactionView(request.ask.around)])
       \/ /\ getOneInSpace(Seen, request.ask.around) = None
          /\ Respond(Refusal)
          /\ UNCHANGED <<list, touched>>

ReadPosition ==
    /\ InStep("feed", "position")
    /\ LET position == findFeedPosition(Seen, request.ask.query, request.ask.around) IN
          \/ /\ position # None
             /\ Read("newer", [target |-> request.got.target, position |-> position])
          \/ /\ position = None
             /\ Respond(Refusal)
             /\ touched' = None
             /\ UNCHANGED list

ReadNewer ==
    /\ InStep("feed", "newer")
    /\ Read("older", [target |-> request.got.target, position |-> request.got.position,
                      newer |-> getFeedPage(Seen, request.ask.query, request.ask.limit - 1,
                                            "before", request.got.position)])

\* Up to limit - 1 neighbours, shared between the sides by what they have.
BugNoRestBeyond(page, count) == page.hasMore
GoesOn(page, count) == page.hasMore \/ Len(page.items) > count

ReadOlder ==
    /\ InStep("feed", "older")
    /\ LET side == request.ask.limit - 1
           newer == request.got.newer
           older == getFeedPage(Seen, request.ask.query, side, "after", request.got.position)
           newerCount == Min({Len(newer.items), Max({side \div 2, side - Len(older.items)})})
           olderCount == Min({Len(older.items), side - newerCount})
       IN  Read("summary",
                [window |-> Window(Views(LastOf(newer.items, newerCount)) \o <<request.got.target>>
                                       \o Views(FirstOf(older.items, olderCount)),
                                   GoesOn(older, olderCount), GoesOn(newer, newerCount))])

\* An empty first page is an empty selection: nothing more is read.
ReadSummary ==
    /\ InStep("feed", "summary")
    /\ request.ask.cursor # None \/ request.got.window.items # <<>>
    /\ Read("days", [window |-> request.got.window,
                     summary |-> getFeedSummary(Seen, request.ask.query)])

-----------------------------------------------------------------------------
(* The response and what the client makes of it.                           *)

\* The local days of the items in their order, each netted over the selection.
readFeedDayTotals(items) ==
    LET q == request.ask.query
        dateOf(n) == calendarDateAt(items[n].timestamp, q.zone)
        firstOf(date) == Min({n \in DOMAIN items : dateOf(n) = date})
        dates == Sorted({dateOf(n) : n \in DOMAIN items}, LAMBDA d, e : firstOf(d) < firstOf(e))
        nets == getFeedIntervalNets(Seen, q,
                    [n \in DOMAIN dates |-> [from |-> startOfDay(dates[n], q.zone, clock),
                                             to |-> endOfDay(dates[n], q.zone, clock)]])
    IN  [n \in DOMAIN dates |-> [date |-> dates[n], net |-> nets[n]]]

BugItemAsCursor(has, item) == IF has THEN item ELSE None
CursorAt(has, item) == IF has THEN positionOf(item) ELSE None

PageResponse(window, summary, days) ==
    LET items == window.items IN
    [kind |-> "page", query |-> request.ask.query, limit |-> request.ask.limit, around |-> request.ask.around,
     direction |-> IF request.ask.cursor = None THEN None ELSE request.ask.cursor.direction,
     items |-> items,
     older |-> CursorAt(window.hasOlder, items[Len(items)]),
     newer |-> CursorAt(window.hasNewer, items[1]),
     summary |-> summary, days |-> days]

\* The pages put together: only the end that was read gets a new cursor.
Joined(response) ==
    LET positions == [n \in DOMAIN response.items |-> positionOf(response.items[n])] IN
    CASE response.direction = None ->
            [query |-> response.query, items |-> positions,
             older |-> response.older, newer |-> response.newer]
      [] response.direction = "older" ->
            [query |-> list.query, items |-> list.items \o positions,
             older |-> response.older, newer |-> list.newer]
      [] response.direction = "newer" ->
            [query |-> list.query, items |-> positions \o list.items,
             older |-> list.older, newer |-> response.newer]

RespondPage(window, summary, days) ==
    LET response == PageResponse(window, summary, days) IN
    /\ Respond(response)
    /\ list' = Joined(response)
    /\ UNCHANGED touched

RespondEmpty ==
    /\ InStep("feed", "summary")
    /\ request.ask.cursor = None /\ request.got.window.items = <<>>
    /\ RespondPage(request.got.window, ZeroSummary, <<>>)

ReadDays ==
    /\ InStep("feed", "days")
    /\ RespondPage(request.got.window, request.got.summary,
                   readFeedDayTotals(request.got.window.items))

-----------------------------------------------------------------------------
(* The count of a selection, the latest record, what became of a create.   *)

CountChecked ==
    /\ InStep("count", "check")
    /\ \/ ~checkHistoryQuery(request.ask.query) /\ Respond(Refusal) /\ UNCHANGED touched
       \/ checkHistoryQuery(request.ask.query) /\ GoOn("count")
    /\ UNCHANGED list

ReadCount ==
    /\ InStep("count", "count")
    /\ Respond([kind |-> "count", query |-> request.ask.query,
                count |-> countForAllWallets(book, request.ask.query)])
    /\ UNCHANGED <<list, touched>>

ReadLatest ==
    /\ InStep("latest", "check")
    /\ Respond([kind |-> "latest", id |-> getLatest(book)])
    /\ UNCHANGED <<list, touched>>

\* The operation row of a create is never deleted; a delete of its record
\* dates it.
ReadOperation ==
    /\ InStep("operation", "check")
    /\ LET i == request.ask.around IN
          \/ /\ getOneInSpace(Seen, i) = None /\ i \notin Seen.dated
             /\ Respond(Refusal)
             /\ UNCHANGED touched
          \/ /\ getOneInSpace(Seen, i) # None \/ i \in Seen.dated
             /\ ReadAndGo("transaction", [dated |-> i \in Seen.dated])
             /\ UNCHANGED touched
    /\ UNCHANGED list

ReadItsTransaction ==
    /\ InStep("operation", "transaction")
    /\ LET transaction == getOneInSpace(Seen, request.ask.around) IN
          Respond([kind |-> "operation", id |-> request.ask.around,
                   status |-> IF transaction = None THEN "deleted" ELSE "applied",
                   deleted_at |-> transaction = None /\ request.got.dated,
                   transaction |-> IF transaction = None THEN None
                                   ELSE toTransactionView(request.ask.around)])
    /\ UNCHANGED <<list, touched>>

ReadTransaction ==
    /\ InStep("transaction", "check")
    /\ LET i == request.ask.around IN
          Respond(IF getOneInSpace(book, i) = None THEN Refusal
                  ELSE [kind |-> "transaction", view |-> toTransactionView(i)])
    /\ UNCHANGED <<list, touched>>

-----------------------------------------------------------------------------
(* What clients get (dto/transaction-responses.ts).                        *)

TransactionView ==
    [id : Ids, kind : Kinds, type : Types, amount : Nat, timestamp : Int, description : STRING,
     wallet : SpaceWallets \cup {None}, category : Categories \cup {System}, is_archived : BOOLEAN]

FeedSummary == [count : Nat, income : Nat, expense : Nat]
DayTotal == [date : Int, net : Int]
Cursors == Position \cup {None}

\* "null when there are none": an empty page has no cursors.
IsFeed(r) ==
    /\ r.items \in Seq(TransactionView)
    /\ r.older \in Cursors /\ r.newer \in Cursors
    /\ r.summary \in FeedSummary
    /\ r.days \in Seq(DayTotal)

IsOperation(r) ==
    /\ r.status \in {"applied", "deleted"}
    /\ r.deleted_at \in BOOLEAN
    /\ r.transaction \in TransactionView \cup {None}

IsHistoryAnswer(r) ==
    CASE r.kind = "page" -> IsFeed(r)
      [] r.kind = "operation" -> IsOperation(r)
      [] r.kind = "count" -> r.count \in Nat
      [] r.kind = "latest" -> r.id \in Ids \cup {None}
      [] r.kind = "transaction" -> r.view \in TransactionView
      [] OTHER -> TRUE

FeedSteps ==
    \/ FeedRefused \/ FeedAccepted \/ ReadPage \/ ReadEdge
    \/ ReadTarget \/ ReadPosition \/ ReadNewer \/ ReadOlder
    \/ ReadSummary \/ RespondEmpty \/ ReadDays
    \/ CountChecked \/ ReadCount \/ ReadLatest \/ ReadTransaction
    \/ ReadOperation \/ ReadItsTransaction

FeedRequests ==
    \/ \E q \in Queries, l \in Limits, i \in Targets \cup {None} : OpenList(q, l, i)
    \/ \E q \in Queries, l \in Limits, direction \in {"older", "newer"} : FollowCursor(q, l, direction)
    \/ \E q \in Queries : AskCount(q)
    \/ AskLatest
    \/ \E i \in Targets : AskOperation(i) \/ AskTransaction(i)
=============================================================================
