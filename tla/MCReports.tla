------------------------------- MODULE MCReports -------------------------------
(* Instances of Reports for TLC: three wallets of the space, a deleted one    *)
(* and one of another space, two expense categories and an income one,        *)
(* autumn 2024.                                                               *)
EXTENDS Reports

CONSTANTS NoneValue, UnsetValue

D(month, day) == FirstOfMonth(12 + month - 1) + day - 1
At(month, day, hour) == 24 * D(month, day) + hour

\* Cairo: midnight of 26 April is skipped, the hour before 1 November comes
\* twice.  Havana: midnight of 3 November comes twice.
Cairo == [base |-> 2, changes |-> {[at |-> At(4, 26, -2), to |-> 3], [at |-> At(11, 1, -3), to |-> 2]}]
Havana == [base |-> -5, changes |-> {[at |-> At(3, 10, 5), to |-> -4], [at |-> At(11, 3, 5), to |-> -5]}]

FirstInstant == At(1, 1, 0)
LastInstant == At(12, 31, 23)
\* In Cairo: an hour before the clocks go back, and days after.
TwoClocks == {At(11, 1, -4), At(11, 4, 10)}
WinterClock == {At(11, 4, 10)}

EightIds == 1..8
FiveWallets == 1..5
SpaceOfFour == 1..4
ThreeCategories == 11..13
NamesOf == [n \in FiveWallets \cup 10..13 |-> IF n = 2 THEN "tea" ELSE "plain"]
CategoryTypes == [k \in ThreeCategories |-> IF k = 13 THEN "income" ELSE "expense"]

T(w, k, type, amount, t) ==
    [wallet |-> w, category |-> k, type |-> type, amount |-> amount, timestamp |-> t,
     description |-> "tea"]
Undescribed(txn) == [txn EXCEPT !.description = "none"]

\* The second 23:00 of 31 October, a tie just after midnight, a record of the
\* same week, one of a deleted wallet, an initial balance, and one of another
\* space.
Start ==
    [txns |-> <<T(1, 11, "expense", 70, At(11, 1, -3)),
                Undescribed(T(2, 12, "expense", 30, At(11, 1, -2))),
                T(1, 13, "income", 50, At(11, 1, -2)),
                T(3, 12, "expense", 10, At(10, 29, 8)),
                T(1, 10, "income", 40, At(5, 2, 8)),
                T(5, 11, "expense", 5, At(11, 1, -2)),
                T(4, 11, "expense", 15, At(10, 30, 8)),
                NoneValue>>,
     deleted |-> {4}, archived |-> {}, dated |-> {},
     names |-> NamesOf, sort |-> [k \in ThreeCategories |-> 0],
     limits |-> {[amount |-> 60, cats |-> {11}], [amount |-> 50, cats |-> {}]}]

OneBook == {Start}

\* One record, in the first of the two hours that begin with 3 November.
Midnight ==
    [Start EXCEPT !.txns = [i \in EightIds |-> IF i = 1 THEN T(1, 11, "expense", 70, At(11, 3, 4))
                                               ELSE NoneValue]]
MidnightBook == {Midnight}

NewDrafts == {T(2, 12, "expense", 20, At(11, 1, -2))}
NewCaps == {[amount |-> 30, cats |-> {12}]}
NewNames == {[id |-> 2, name |-> "plain"], [id |-> 12, name |-> "tea"]}
NewOrders == {<<12, 11>>}

Everything == [from |-> FirstInstant, to |-> LastInstant, zone |-> Cairo, transactionType |-> UnsetValue,
               kind |-> UnsetValue, categoryId |-> UnsetValue, walletId |-> UnsetValue, search |-> UnsetValue]

FeedQueries ==
    {[Everything EXCEPT !.search = {"tea"}],
     [Everything EXCEPT !.walletId = 2, !.kind = "regular", !.transactionType = "expense",
                        !.to = At(11, 1, -2)]}

InHavana == {[Everything EXCEPT !.zone = Havana]}

Period(type, asOf) == [period |-> type, zone |-> Cairo, anchor_date |-> UnsetValue,
                       from_date |-> UnsetValue, to_date |-> UnsetValue, as_of |-> asOf]

\* The current month, the week of the 25-hour day, current and past, a month to
\* come, the year, a stretch of days, and one that ends before it begins.
PeriodQueries ==
    {Period("month", UnsetValue), Period("week", At(11, 1, -3)),
     [Period("year", At(11, 4, 9)) EXCEPT !.anchor_date = D(6, 1)],
     [Period("week", At(11, 4, 9)) EXCEPT !.anchor_date = D(10, 30)],
     [Period("month", At(11, 4, 9)) EXCEPT !.anchor_date = D(12, 3)],
     [Period("custom", At(11, 4, 9)) EXCEPT !.from_date = D(10, 25), !.to_date = D(11, 10)],
     [Period("custom", At(11, 4, 9)) EXCEPT !.from_date = D(11, 2), !.to_date = D(11, 1)]}

AllTime == {[from |-> FirstInstant, to |-> LastInstant]}
CairoOnly == {Cairo}
HavanaOnly == {Havana}
=============================================================================
