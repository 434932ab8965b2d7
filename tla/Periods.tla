-------------------------------- MODULE Periods --------------------------------
(***************************************************************************)
(* The period of a statistics query, the intervals of its trend and the    *)
(* period it is compared with (src/src/modules/statistics/                 *)
(* statistics-period.ts).                                                  *)
(***************************************************************************)
EXTENDS Calendar

CONSTANTS
    Unset,              \* a field that a query does not have
    TimestampMin,       \* TIMESTAMP_MIN and TIMESTAMP_MAX
    TimestampMax,
    ClockSkew           \* AS_OF_CLOCK_SKEW_MS

ASSUME InstantAssumption == {TimestampMin, TimestampMax} \subseteq Int /\ ClockSkew \in Nat
ASSUME UnsetAssumption == Unset \notin Int

MAX_CUSTOM_PERIOD_DAYS == 366
MAX_DAILY_CUSTOM_DAYS == 14
MAX_WEEKLY_CUSTOM_DAYS == 92

\* STANDARD_UNIT is the identity: the period "week" is one unit "week".
StandardPeriods == {"week", "month", "year"}
PeriodTypes == StandardPeriods \cup {"custom"}
TrendUnits == {"day", "week", "month"}
States == {"past", "current", "future"}
TREND_GRANULARITY == [week |-> "day", month |-> "week", year |-> "month"]

StatisticsPeriod ==
    [type : PeriodTypes, time_zone : Zone, start_date : Int, end_date : Int, from : Int, to : Int,
     as_of : Int, actual_to : Int \cup {Unset}, state : States]

TrendInterval ==
    [key : TrendUnits \X Int, start_date : Int, end_date : Int, from : Int, to : Int, state : States]

PreviousPeriod == [start_date : Int, end_date : Int, from : Int, to : Int, actual_to : Int]

\* now: the server's clock, at which the day bounds are computed.
boundsOf(range, zone, now) ==
    [start_date |-> range.start,
     end_date |-> range.end,
     from |-> startOfDay(range.start, zone, now),
     to |-> endOfDay(range.end, zone, now)]

rangeOfPeriod(period) == [start |-> period.start_date, end |-> period.end_date]

\* The fields of a query that do not go together.
checkPeriodFields(q) ==
    IF q.period = "custom"
    THEN {f \in {"anchor_date"} : q.anchor_date # Unset}
             \cup {f \in {"from_date", "to_date"} : q[f] = Unset}
    ELSE {f \in {"from_date", "to_date"} : q[f] # Unset}

asOfOf(q, now) == IF q.as_of = Unset THEN now ELSE q.as_of

requestedRange(q, now) ==
    IF q.period = "custom"
    THEN [start |-> q.from_date, end |-> q.to_date]
    ELSE rangeOf(q.period, IF q.anchor_date = Unset
                           THEN calendarDateAt(asOfOf(q, now), q.zone)
                           ELSE q.anchor_date)

\* The first error of a query, or {}.
periodErrors(q, now) ==
    LET fields == checkPeriodFields(q)
                      \cup {f \in {"as_of"} : asOfOf(q, now) > now + ClockSkew}
        range == requestedRange(q, now)
        bounds == boundsOf(range, q.zone, now)
    IN  CASE fields # {} -> fields
          [] fields = {} /\ q.period = "custom"
                /\ (range.start > range.end \/ daysIn(range) > MAX_CUSTOM_PERIOD_DAYS) -> {"to_date"}
          [] OTHER -> {f \in {IF q.period = "custom" THEN "to_date" ELSE "anchor_date"} :
                          bounds.from < TimestampMin \/ bounds.to > TimestampMax}

\* The period of a query without errors.
resolveStatisticsPeriod(q, now) ==
    LET bounds == boundsOf(requestedRange(q, now), q.zone, now)
        asOf == asOfOf(q, now)
        state == timeState(bounds.from, bounds.to, asOf)
    IN  [type |-> q.period,
         time_zone |-> q.zone,
         start_date |-> bounds.start_date,
         end_date |-> bounds.end_date,
         from |-> bounds.from,
         to |-> bounds.to,
         as_of |-> asOf,
         actual_to |-> CASE state = "future" -> Unset
                         [] state = "past" -> bounds.to
                         [] state = "current" -> asOf,
         state |-> state]

trendGranularity(period) ==
    LET days == daysIn(rangeOfPeriod(period))
    IN  CASE period.type # "custom" -> TREND_GRANULARITY[period.type]
          [] period.type = "custom" /\ days <= MAX_DAILY_CUSTOM_DAYS -> "day"
          [] period.type = "custom" /\ days > MAX_WEEKLY_CUSTOM_DAYS -> "month"
          [] OTHER -> "week"

\* The trend's intervals, first to last.
resolveTrendIntervals(period, granularity, now) ==
    LET interval(range) ==
            LET bounds == boundsOf(range, period.time_zone, now)
            IN  [key |-> unitKey(range.start, granularity),
                 start_date |-> bounds.start_date,
                 end_date |-> bounds.end_date,
                 from |-> bounds.from,
                 to |-> bounds.to,
                 state |-> timeState(bounds.from, bounds.to, period.as_of)]
        parts == splitRange(rangeOfPeriod(period), granularity)
    IN  [i \in DOMAIN parts |-> interval(parts[i])]

\* A finished period is compared with the whole previous one, a current one
\* with the part of it up to the same local moment; others are not compared.
resolvePreviousPeriod(period, now) ==
    IF period.type = "custom" \/ period.state = "future" THEN Unset
    ELSE LET bounds == boundsOf(rangeOf(period.type, shift(period.start_date, period.type, -1)),
                                period.time_zone, now)
             actualTo == IF period.state = "past" THEN bounds.to
                         ELSE shiftInstant(period.as_of, period.time_zone, period.type, -1)
         IN  [start_date |-> bounds.start_date,
              end_date |-> bounds.end_date,
              from |-> bounds.from,
              to |-> bounds.to,
              actual_to |-> Min({actualTo, bounds.to})]
=============================================================================
