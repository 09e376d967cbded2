---------------------------- MODULE Recurrence ----------------------------
(***************************************************************************)
(* Recurrence rules as pure functions on civil dates                       *)
(* (junban-domain/src/recurrence.rs): the next occurrence of a completed   *)
(* task, and the expansion of a recurring time block into a window.        *)
(*                                                                         *)
(* A civil date is its day number, 1 for Monday 0001-01-01.  LastDay is    *)
(* the last date the calendar library can represent; Beyond stands for the *)
(* error every function returns when it would have to go past it.          *)
(***************************************************************************)
EXTENDS Integers, SequencesExt

CONSTANTS
    None,
    LastDay,            \* the last date
    Civil,              \* the date library: the year, month and day of every date,
    Date(_, _, _),      \* the date of a year, month and day,
    DaysInMonth(_, _),  \* the length of a month of a year,
    IsLeap(_)           \* and the leap years

Beyond == LastDay + 1

----------------------------------------------------------------------------
(* The calendar.                                                           *)

Year(n) == Civil[n].year
Month(n) == Civil[n].month
Day(n) == Civil[n].day
OnWeekend(n) == n % 7 \in {6, 0}
IsDay(n, m, d) == Month(n) = m /\ Day(n) = d

\* The day "day" of a month, or the last day of a month that has no such day.
ClampMonthDay(y, m, day) ==
    LET clamped == IF day < DaysInMonth(y, m) THEN day ELSE DaysInMonth(y, m)
        date == Date(y, m, clamped)
    IN  IF date <= LastDay THEN date ELSE Beyond

AddDays(n, days) == IF n + days <= LastDay THEN n + days ELSE Beyond
AddWeeks(n, weeks) == AddDays(n, 7 * weeks)

----------------------------------------------------------------------------
(* One step of a rule.  A rule is [every |-> period, n |-> count]; the     *)
(* anchor is the day of the month a monthly series aims at, or 29 for a    *)
(* yearly series that belongs to a leap day.                               *)

NextWeekday(n) ==
    LET later == {k \in 1..3 : ~OnWeekend(n + k)}
    IN  AddDays(n, CHOOSE k \in later : \A j \in later : k <= j)

NextMonthly_BadDrifts(n, anchor) ==
    IF Month(n) = 12 THEN ClampMonthDay(Year(n) + 1, 1, Day(n))
                     ELSE ClampMonthDay(Year(n), Month(n) + 1, Day(n))
NextMonthly(n, anchor) ==
    IF Month(n) = 12 THEN ClampMonthDay(Year(n) + 1, 1, anchor)
                     ELSE ClampMonthDay(Year(n), Month(n) + 1, anchor)

YearlySeriesAnchor(n, anchor) ==
    IF IsDay(n, 2, 29) \/ (IsDay(n, 3, 1) /\ anchor = 29) THEN 29 ELSE None

\* The month and day a yearly series aims at, given one of its dates.
AimsAtLeapDay(n, anchor) == anchor = 29 /\ (IsDay(n, 2, 29) \/ IsDay(n, 3, 1))

InYear(y, n, leapDay) ==
    IF ~leapDay THEN ClampMonthDay(y, Month(n), Day(n))
    ELSE IF IsLeap(y) THEN ClampMonthDay(y, 2, 29) ELSE ClampMonthDay(y, 3, 1)

NextYearly(n, anchor) == InYear(Year(n) + 1, n, AimsAtLeapDay(n, anchor))

\* advance_date: the next date and the anchor that goes with it.
AdvanceDate(rule, n, anchor) ==
    CASE rule.every = "day"     -> [date |-> AddDays(n, rule.n), anchor |-> None]
      [] rule.every = "week"    -> [date |-> AddWeeks(n, rule.n), anchor |-> None]
      [] rule.every = "weekday" -> [date |-> NextWeekday(n), anchor |-> None]
      [] rule.every = "month"   ->
            LET a == IF anchor = None THEN Day(n) ELSE anchor
            IN  [date |-> NextMonthly(n, a), anchor |-> a]
      [] rule.every = "year"    ->
            LET a == YearlySeriesAnchor(n, anchor)
            IN  [date |-> NextYearly(n, a), anchor |-> a]

----------------------------------------------------------------------------
(* Tasks: completing an occurrence plans exactly one next one.             *)

\* resolve_recurrence_anchor: what a task that is given a rule starts with.
ResolveAnchor(rule, due, explicit) ==
    CASE rule.every \notin {"month", "year"} -> None
      [] explicit # None -> explicit
      [] OTHER -> IF due = None THEN None ELSE Day(due)

\* next_occurrence: the base is the due date, or the sampled day of completion
\* when there is none; only a task that was due keeps its time of day.
NextOccurrence(source, sampled) ==
    LET base == IF source.due = None THEN sampled ELSE source.due
        next == AdvanceDate(source.rule, base, source.anchor)
    IN  [due |-> next.date, anchor |-> next.anchor,
         time |-> IF source.due = None THEN None ELSE source.time]

----------------------------------------------------------------------------
(* Time blocks: all occurrences of a series inside an inclusive window.    *)

InitialSeriesAnchor(rule, start) ==
    CASE rule.every = "month" -> Day(start)
      [] rule.every = "year"  -> YearlySeriesAnchor(start, None)
      [] OTHER -> None

\* The least multiple of step that is at least n.
RoundUp(n, step) == step * ((n + step - 1) \div step)

FirstWeekday(start, from) ==
    LET cursor == IF OnWeekend(start) THEN NextWeekday(start) ELSE start
    IN  IF cursor >= from THEN cursor
        ELSE IF OnWeekend(from) THEN NextWeekday(from) ELSE from

FirstMonthly(start, from, anchor) ==
    LET here == ClampMonthDay(Year(from), Month(from), anchor)
        first == IF here >= from THEN here ELSE NextMonthly(from, anchor)
    IN  IF first < start THEN start ELSE first

FirstYearly(start, from, anchor) ==
    LET here == InYear(Year(from), start, AimsAtLeapDay(start, anchor))
    IN  IF here >= from /\ here >= start THEN here
        ELSE InYear(Year(from) + 1, start, AimsAtLeapDay(start, anchor))

\* fast_forward_to_range: the first occurrence that can lie in the window.
FastForward(rule, start, from) ==
    LET anchor == InitialSeriesAnchor(rule, start)
    IN  IF start >= from THEN [date |-> start, anchor |-> anchor]
        ELSE CASE rule.every = "day"  ->
                    [date |-> AddDays(start, RoundUp(from - start, rule.n)), anchor |-> anchor]
               [] rule.every = "week" ->
                    [date |-> AddDays(start, RoundUp(from - start, 7 * rule.n)),
                     anchor |-> anchor]
               [] rule.every = "weekday" ->
                    [date |-> FirstWeekday(start, from), anchor |-> anchor]
               [] rule.every = "month" ->
                    [date |-> FirstMonthly(start, from, anchor), anchor |-> anchor]
               [] rule.every = "year" ->
                    LET date == FirstYearly(start, from, anchor)
                    IN  [date |-> date, anchor |-> YearlySeriesAnchor(date, anchor)]

\* civil_occurrences_in_range: walks from the first occurrence until it leaves
\* the window.  The step out of the window is computed too, so a window that ends
\* less than a step before LastDay fails, as <<Beyond>>, although all its
\* occurrences are known.
Further(rule, walk, to) ==
    LET at == Last(walk)
    IN  IF at.date > to THEN walk ELSE Append(walk, AdvanceDate(rule, at.date, at.anchor))

InWindow(walk, from) ==
    IF Last(walk).date = Beyond THEN <<Beyond>>
    ELSE SelectSeq([k \in DOMAIN Front(walk) |-> walk[k].date], LAMBDA date : date >= from)

CivilOccurrences(rule, start, from, to) ==
    IF start > to THEN <<>>
    ELSE InWindow(FoldLeft(LAMBDA walk, step : Further(rule, walk, to),
                           <<FastForward(rule, start, from)>>,
                           [step \in 1..(to - from + 1) |-> step]), from)

=============================================================================
