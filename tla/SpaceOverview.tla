----------------------------- MODULE SpaceOverview -----------------------------
(***************************************************************************)
(* The overviews of a space: its wallets with their balances               *)
(* (src/src/modules/wallets/wallets.service.ts), its limits with the       *)
(* spending of the month (src/src/modules/limits/limits.service.ts) and    *)
(* its categories with their use (src/src/modules/categories/              *)
(* categories.service.ts), each read in one snapshot.                      *)
(***************************************************************************)
EXTENDS SpaceHistory, Money

CONSTANTS
    OverviewPeriods,    \* bound: [from, to] of a wallets overview
    Zones               \* bound: time zones of a limits summary

ASSUME OverviewAssumption == OverviewPeriods \subseteq [from : Int, to : Int]

overviewVars == <<history, request, answer>>

OfTypeCategories(type) == {k \in Categories : TypeOf[k] = type}

AskOverview(kind, step, ask) ==
    /\ request = Idle
    /\ request' = Request(kind, step, ask)
    /\ answer' = None
    /\ touched' = None
    /\ UNCHANGED <<book, writes, clock>>

Reads(step, got) == ReadAndGo(step, got) /\ UNCHANGED touched
Shows(overview) == Respond(overview) /\ UNCHANGED touched

-----------------------------------------------------------------------------
(* Wallets: the active ones.                                               *)

ReadActiveWallets ==
    /\ InStep("wallets", "wallets")
    /\ Reads("periodTotals", [wallets |-> SpaceWallets \ Seen.deleted])

ReadPeriodTotals ==
    /\ InStep("wallets", "periodTotals")
    /\ Reads("balances",
             [wallets |-> request.got.wallets,
              periodTotals |-> getPeriodTotals(Seen, request.got.wallets,
                                               request.ask.from, request.ask.to)])

buildOverview(wallets, periodTotals, balances) ==
    LET balance == MapThenSumSet(LAMBDA w : balances[w], wallets)
        net == MapThenSumSet(LAMBDA w : periodTotals[w].income - periodTotals[w].spend, wallets)
    IN  [kind |-> "wallets", period |-> request.ask,
         wallets |-> [w \in wallets |-> [balance |-> balances[w],
                                         total_spend |-> periodTotals[w].spend,
                                         total_income |-> periodTotals[w].income]],
         total_balance |-> balance,
         delta_percent |-> roundPercentToTenth(net, balance - net)]

ReadBalances ==
    /\ InStep("wallets", "balances")
    /\ LET got == request.got IN
          Shows(buildOverview(got.wallets, got.periodTotals, getBalances(Seen, got.wallets)))

-----------------------------------------------------------------------------
(* Limits: the month of the server's clock in the client's zone.           *)

ReadLimits ==
    /\ InStep("limits", "limits")
    /\ Reads("spending", [limits |-> Seen.limits, period |-> monthPeriodAt(clock, request.ask.zone)])

buildLimitView(limit, spent) ==
    [limit |-> limit, spent |-> spent, in_percent |-> floorPercent(spent, limit.amount)]

\* The limit of the whole space counts every category, limited or not.
calculateSpending(limits, categoryTotals) ==
    LET spentIn(cats) == MapThenSumSet(LAMBDA k : categoryTotals[k], cats)
        total == {l \in limits : l.cats = {}}
        ofCategories == limits \ total
        categoryTotal == MapThenSumSet(LAMBDA l : l.amount, ofCategories)
    IN  [total |-> {buildLimitView(l, spentIn(DOMAIN categoryTotals)) : l \in total},
         categories |-> {buildLimitView(l, spentIn(l.cats)) : l \in ofCategories},
         over_allocation |-> {categoryTotal - l.amount : l \in {m \in total : categoryTotal > m.amount}}]

ReadSpending ==
    /\ InStep("limits", "spending")
    /\ LET period == request.got.period IN
          Shows([kind |-> "limits", period |-> period,
                 spending |-> calculateSpending(request.got.limits,
                                  getExpensesByCategory(Seen, period.from, period.to))])

-----------------------------------------------------------------------------
(* Categories, with their counts and limits.                               *)

ReadCategoryRows ==
    /\ InStep("categories", "categories")
    /\ Reads("counts",
             [archived |-> Seen.archived,
              rows |-> Sorted(Categories, LAMBDA k, l : \/ Seen.sort[k] < Seen.sort[l]
                                                        \/ Seen.sort[k] = Seen.sort[l] /\ k < l)])

ReadCounts ==
    /\ InStep("categories", "counts")
    /\ Reads("limits", [archived |-> request.got.archived, rows |-> request.got.rows,
                        counts |-> [k \in Categories |->
                            Cardinality({i \in Rows(Seen) : Seen.txns[i].category = k})]])

ReadLimitMembership ==
    /\ InStep("categories", "limits")
    /\ LET got == request.got
           view(k) == [id |-> k, transaction_count |-> got.counts[k],
                       limit |-> {l \in Seen.limits : k \in l.cats}]
           views(shown) == [n \in DOMAIN Filtered(got.rows, shown) |->
                               view(Filtered(got.rows, shown)[n])]
           active(type) == OfTypeCategories(type) \ got.archived
       IN  Shows([kind |-> "categories",
                  incomes |-> views(active("income")),
                  expenses |-> views(active("expense")),
                  archived |-> views(got.archived)])

OverviewSteps ==
    \/ ReadActiveWallets \/ ReadPeriodTotals \/ ReadBalances
    \/ ReadLimits \/ ReadSpending
    \/ ReadCategoryRows \/ ReadCounts \/ ReadLimitMembership

OverviewRequests ==
    \/ \E p \in OverviewPeriods : AskOverview("wallets", "wallets", p)
    \/ \E z \in Zones : AskOverview("limits", "limits", [zone |-> z])
    \/ AskOverview("categories", "categories", None)
=============================================================================
