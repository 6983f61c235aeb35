------------------------------ MODULE HisSpan ------------------------------
(***************************************************************************)
(* hisquery.py: a span of days, written or named, resolved to two instants *)
(* in a zone with daylight saving time, and the intervals of a rollup.     *)
(*                                                                         *)
(* A day is its ordinal (date.toordinal: day 1 is a Monday), an instant is *)
(* a number of hours since day 0, UTC. A written span is <<y>>, <<y, m>>   *)
(* or <<y, m, d>>; a range is a record of two ends.                        *)
(***************************************************************************)
EXTENDS Integers, Sequences, FiniteSets

CONSTANTS FirstYear, LastYear    \* the calendar that is computed

ASSUME CalendarAssumption == FirstYear \in Int /\ LastYear \in Int

VARIABLE input    \* a request: [of, text, now, zone]; it has one answer and no later state

Leap(y) == y % 4 = 0 /\ (y % 100 # 0 \/ y % 400 = 0)
DaysIn(y, m) == CASE m = 2 -> IF Leap(y) THEN 29 ELSE 28
                  [] m \in {4, 6, 9, 11} -> 30
                  [] OTHER -> 31
BeforeMonth == <<0, 31, 59, 90, 120, 151, 181, 212, 243, 273, 304, 334>>

\* The ordinal of a date.
Day(y, m, d) ==
  365 * (y - 1) + (y - 1) \div 4 - (y - 1) \div 100 + (y - 1) \div 400
  + BeforeMonth[m] + (IF m > 2 /\ Leap(y) THEN 1 ELSE 0) + d
\* Of a written span, whether there is such a day or month.
Exists(t) ==
  /\ Len(t) > 1 => t[2] \in 1..12
  /\ Len(t) > 2 => t[3] \in 1..DaysIn(t[1], t[2])

\* The dates of the ordinals of the years that are looked at: [y, m, d].
Calendar ==
  [o \in Day(FirstYear, 1, 1)..Day(LastYear, 12, 31) |->
     LET y == CHOOSE z \in FirstYear..LastYear : Day(z, 1, 1) <= o /\ o <= Day(z, 12, 31)
         m == CHOOSE k \in 1..12 : Day(y, k, 1) <= o /\ o < Day(y, k, 1) + DaysIn(y, k)
     IN [y |-> y, m |-> m, d |-> o - Day(y, m, 1) + 1]]
Date(o) == Calendar[o]
Weekday(o) == (o - 1) % 7

\* Mutant: the year is not carried.
AddMonthsSameYear(y, m, n) == Day(y, ((m - 1 + n) % 12) + 1, 1)
\* _add_months: the first day of the month n months after month m of year y.
AddMonths(y, m, n) == Day(y + (m - 1 + n) \div 12, ((m - 1 + n) % 12) + 1, 1)

Named == {"today", "yesterday", "thisWeek", "lastWeek", "pastWeek", "thisMonth", "lastMonth",
          "pastMonth", "thisQuarter", "lastQuarter", "thisYear", "lastYear", "pastYear"}

\* _date_span: the first and the last day.
WrittenSpan(t) ==
  CASE Len(t) = 3 -> <<Day(t[1], t[2], t[3]), Day(t[1], t[2], t[3])>>
    [] Len(t) = 2 -> <<Day(t[1], t[2], 1), AddMonths(t[1], t[2], 1) - 1>>
    [] Len(t) = 1 -> <<Day(t[1], 1, 1), Day(t[1], 12, 31)>>
NamedSpanOf(name, today, date) ==
  LET y == date.y
      m == date.m
      quarter == ((m - 1) \div 3) * 3 + 1
      monday == today - Weekday(today)
  IN CASE name = "today" -> <<today, today>>
       [] name = "yesterday" -> <<today - 1, today - 1>>
       [] name = "thisWeek" -> <<monday, monday + 6>>
       [] name = "lastWeek" -> <<monday - 7, monday - 1>>
       [] name = "pastWeek" -> <<today - 7, today>>
       [] name = "thisMonth" -> <<Day(y, m, 1), AddMonths(y, m, 1) - 1>>
       [] name = "lastMonth" -> <<AddMonths(y, m, -1), Day(y, m, 1) - 1>>
       [] name = "pastMonth" -> <<today - 30, today>>
       [] name = "thisQuarter" -> <<Day(y, quarter, 1), AddMonths(y, quarter, 3) - 1>>
       [] name = "lastQuarter" -> <<AddMonths(y, quarter, -3), Day(y, quarter, 1) - 1>>
       [] name = "thisYear" -> <<Day(y, 1, 1), Day(y, 12, 31)>>
       [] name = "lastYear" -> <<Day(y - 1, 1, 1), Day(y - 1, 12, 31)>>
       [] name = "pastYear" -> <<today - 365, today>>
NamedSpan(name, today) == NamedSpanOf(name, today, Date(today))
DateSpan(t, today) ==
  IF t.kind = "named" THEN NamedSpan(t.name, today) ELSE WrittenSpan(t.date)
\* What _date_span does not refuse, nor resolve_span of a range's ends.
EndsOf(t) == IF t.kind = "range" THEN {t.from, t.to} ELSE {t}
Sound(t) ==
  \A x \in EndsOf(t) :
    IF x.kind = "named" THEN x.name \in Named ELSE Exists(x.date)

\* A zone is its winter offset and the hours from which and until which one
\* hour is added to it.
Summer(zone, instant) == zone.from <= instant /\ instant < zone.until
Offset(zone, instant) == zone.winter + (IF Summer(zone, instant) THEN 1 ELSE 0)
LocalDay(zone, instant) == (instant + Offset(zone, instant)) \div 24

\* datetime(y, m, d, tzinfo=zone): the first hour that reads midnight; on a day
\* that has none, the hour before the change counts on.
Midnight(zone, day) ==
  LET winter == 24 * day - zone.winter
  IN IF Summer(zone, winter - 1) THEN winter - 1 ELSE winter

\* Mutant: a range ends with the first day of its last span.
FirstAndLastShort(t, today) ==
  LET Ends(end) == DateSpan(IF t.kind = "range" THEN t[end] ELSE t, today)
  IN IF t.kind = "range" THEN <<Ends("from")[1], Ends("to")[1]>> ELSE Ends("to")
FirstAndLast(t, today) ==
  LET Ends(end) == DateSpan(IF t.kind = "range" THEN t[end] ELSE t, today)
  IN <<Ends("from")[1], Ends("to")[2]>>

\* resolve_span: half-open, from midnight to midnight.
Refused == [ok |-> FALSE]
Instants(days, zone) ==
  IF days[2] < days[1] THEN Refused
  ELSE [ok |-> TRUE, start |-> Midnight(zone, days[1]), end |-> Midnight(zone, days[2] + 1)]
ResolveSpan(t, now, zone) ==
  IF Sound(t) THEN Instants(FirstAndLast(t, LocalDay(zone, now)), zone) ELSE Refused

\* parse_interval: a positive number of seconds, or of calendar months.
UnitSeconds == [s |-> 1, sec |-> 1, min |-> 60, h |-> 3600, hr |-> 3600, day |-> 86400, wk |-> 7 * 86400]
ParseInterval(n, unit) ==
  LET months == n * (IF unit = "yr" THEN 12 ELSE 1)
  IN CASE n <= 0 -> Refused
       [] n > 0 /\ unit \in DOMAIN UnitSeconds -> [ok |-> TRUE, seconds |-> n * UnitSeconds[unit]]
       [] n > 0 /\ unit \in {"mo", "yr"} ->
            IF months \in {1, 3, 12} THEN [ok |-> TRUE, months |-> months] ELSE Refused
       [] OTHER -> Refused
-----------------------------------------------------------------------------
(* What a span means, day by day.                                          *)

MonthOf(o) == 12 * Date(o).y + Date(o).m - 1
QuarterOf(o) == MonthOf(o) \div 3
WeekOf(o) == (o - 1) \div 7    \* weeks start on Mondays

InNamed(name, o, today) ==
  CASE name = "today" -> o = today
    [] name = "yesterday" -> o = today - 1
    [] name = "thisWeek" -> WeekOf(o) = WeekOf(today)
    [] name = "lastWeek" -> WeekOf(o) = WeekOf(today) - 1
    [] name = "pastWeek" -> today - o \in 0..6
    [] name = "thisMonth" -> MonthOf(o) = MonthOf(today)
    [] name = "lastMonth" -> MonthOf(o) = MonthOf(today) - 1
    [] name = "pastMonth" -> today - o \in 0..30
    [] name = "thisQuarter" -> QuarterOf(o) = QuarterOf(today)
    [] name = "lastQuarter" -> QuarterOf(o) = QuarterOf(today) - 1
    [] name = "thisYear" -> Date(o).y = Date(today).y
    [] name = "lastYear" -> Date(o).y = Date(today).y - 1
    [] name = "pastYear" -> today - o \in 0..365
    [] OTHER -> FALSE

InWritten(t, o) == \A i \in DOMAIN t : t[i] = <<Date(o).y, Date(o).m, Date(o).d>>[i]
In(t, o, today) == IF t.kind = "named" THEN InNamed(t.name, o, today) ELSE InWritten(t.date, o)

\* A range takes all the days from the first of one end to the last of the other.
InSpan(t, o, today) ==
  IF t.kind # "range" THEN In(t, o, today)
  ELSE /\ \E a \in DOMAIN Calendar : a <= o /\ In(t.from, a, today)
       /\ \E b \in DOMAIN Calendar : o <= b /\ In(t.to, b, today)

Around == {-49, -25, -2, -1, 0, 1, 2, 25}

SaysPastWeek(t) == \E x \in EndsOf(t) : x.kind = "named" /\ x.name = "pastWeek"

\* Of every span but pastWeek, every clock and zone: an instant is in the span that
\* is read if and only if the day the zone's clocks show then is one of the days the
\* span names, across month and year ends, leap days and the hours that are skipped
\* or repeated (his-query.mdx:197-215, test_hisquery.py:119-168); a span without a
\* day is refused. The instants are those Around the ends of the span, in hours.
ExactlyTheDays(t, now, zone) ==
  \A today \in {LocalDay(zone, now)}, span \in {ResolveSpan(t, now, zone)} :
     IF span.ok
     THEN \A h \in {e + k : e \in {span.start, span.end}, k \in Around} :
            (span.start <= h /\ h < span.end) <=> InSpan(t, LocalDay(zone, h), today)
     ELSE \A o \in DOMAIN Calendar : ~InSpan(t, o, today)
SpanExact == input.of = "span" /\ ~SaysPastWeek(input.text) => ExactlyTheDays(input.text, input.now, input.zone)

\* And of pastWeek, "the trailing 7 days ending today" (his-query.mdx:206): not so,
\* hisquery.py:843 goes back seven days and takes today too.
PastWeekTrails == input.of = "span" /\ SaysPastWeek(input.text) => ExactlyTheDays(input.text, input.now, input.zone)
=============================================================================
