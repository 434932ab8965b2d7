------------------------------- MODULE Calendar -------------------------------
(***************************************************************************)
(* Local days, weeks, months and years, and the instants they begin and    *)
(* end at in a time zone (src/src/modules/statistics/statistics-calendar.ts *)
(* and src/src/shared/utils/local-dates.ts).                                *)
(*                                                                         *)
(* An instant is a number of hours: an hour stands for the millisecond the *)
(* code counts in.  A date is a number of days, day 0 is Sunday, 1 January *)
(* 2023, and month 0 that January.  A zone is its offset from UTC before   *)
(* all its changes, and the changes: at an instant, to an offset.          *)
(***************************************************************************)
EXTENDS Integers, FiniteSetsExt, SequencesExt

Units == {"day", "week", "month", "year"}
Zone == [base : Int, changes : SUBSET [at : Int, to : Int]]

-----------------------------------------------------------------------------
(* What luxon does: the Gregorian calendar until 2099, and the zones.      *)

MonthBegins == <<0, 31, 59, 90, 120, 151, 181, 212, 243, 273, 304, 334>>

FirstOfMonth(m) ==
    LET year == m \div 12
        leapDays == (year + 2) \div 4
        leapDay == IF year % 4 = 1 /\ m % 12 >= 2 THEN 1 ELSE 0
    IN  365 * year + leapDays + MonthBegins[(m % 12) + 1] + leapDay

MonthOf(d) ==
    LET few == d \div 31
        many == d \div 28
    IN  CHOOSE m \in Min({few, many})..Max({few, many}) :
            FirstOfMonth(m) <= d /\ d < FirstOfMonth(m + 1)

StartOf(unit, d) ==
    CASE unit = "day" -> d
      [] unit = "week" -> d - ((d + 6) % 7)
      [] unit = "month" -> FirstOfMonth(MonthOf(d))
      [] unit = "year" -> FirstOfMonth(MonthOf(d) - (MonthOf(d) % 12))

\* A day of month that is missing there becomes the last one.
MonthsLater(d, n) ==
    LET day == d - FirstOfMonth(MonthOf(d))
        month == MonthOf(d) + n
    IN  FirstOfMonth(month) + Min({day, FirstOfMonth(month + 1) - FirstOfMonth(month) - 1})

Plus(d, unit, n) ==
    CASE unit = "day" -> d + n
      [] unit = "week" -> d + 7 * n
      [] unit = "month" -> MonthsLater(d, n)
      [] unit = "year" -> MonthsLater(d, 12 * n)

OffsetAt(zone, t) ==
    LET past == {c \in zone.changes : c.at <= t}
    IN  IF past = {} THEN zone.base
        ELSE (CHOOSE c \in past : \A b \in past : b.at <= c.at).to

LocalHour(zone, t) == t + OffsetAt(zone, t)

\* The instant of a local hour, by a first guess at the offset: an hour that
\* comes twice is the one with the guessed offset, an hour that is skipped
\* moves behind the gap.
FixOffset(local, guess, zone) ==
    LET first == OffsetAt(zone, local - guess)
        second == OffsetAt(zone, local - first)
    IN  CASE first = guess -> local - guess
          [] first # guess /\ first = second -> local - first
          [] OTHER -> local - Min({first, second})

-----------------------------------------------------------------------------
(* statistics-calendar.ts                                                  *)

calendarDateAt(t, zone) == LocalHour(zone, t) \div 24

\* fromObject guesses with the zone's offset of the moment it is called at.
startOfDay(d, zone, now) == FixOffset(24 * d, OffsetAt(zone, now), zone)

BugDayOf24Hours(d, zone, now) == startOfDay(d, zone, now) + 23
endOfDay(d, zone, now) == startOfDay(d + 1, zone, now) - 1

shift(d, unit, amount) == Plus(d, unit, amount)

\* Weeks run Monday to Sunday.
rangeOf(unit, d) == [start |-> StartOf(unit, d), end |-> Plus(StartOf(unit, d), unit, 1) - 1]

daysIn(range) == range.end - range.start + 1

\* Calendar units that cover the range, the first and the last clipped to it.
splitRange(range, unit) ==
    LET unitStart(n) == Plus(StartOf(unit, range.start), unit, n)
        count == CHOOSE n \in 1..daysIn(range) :
                     unitStart(n) > range.end /\ unitStart(n - 1) <= range.end
    IN  [n \in 1..count |-> [start |-> Max({range.start, unitStart(n - 1)}),
                             end |-> Min({unitStart(n) - 1, range.end})]]

\* The format of a key names its unit: one key for one day, week, month, year.
unitKey(d, unit) == <<unit, StartOf(unit, d)>>

\* The same wall-clock hour some units away; luxon guesses with the offset of
\* the instant it starts from.
shiftInstant(t, zone, unit, amount) ==
    FixOffset(24 * Plus(calendarDateAt(t, zone), unit, amount) + (LocalHour(zone, t) % 24),
              OffsetAt(zone, t), zone)

timeState(from, to, asOf) ==
    CASE asOf < from -> "future"
      [] asOf >= from /\ asOf > to -> "past"
      [] OTHER -> "current"

-----------------------------------------------------------------------------
(* local-dates.ts: the calendar month with `now` in it.  startOf and plus  *)
(* guess with the offset of the instant they start from.                   *)

monthPeriodAt(now, zone) ==
    LET first == StartOf("month", calendarDateAt(now, zone))
        from == FixOffset(24 * first, OffsetAt(zone, now), zone)
        next == shiftInstant(from, zone, "month", 1)
    IN  [time_zone |-> zone,
         start_date |-> first,
         end_date |-> calendarDateAt(next, zone) - 1,
         from |-> from,
         to |-> next - 1]
=============================================================================
