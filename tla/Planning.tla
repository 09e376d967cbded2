----------------------------- MODULE Planning -----------------------------
(***************************************************************************)
(* The planning, review, statistics, nudge and motivation read models      *)
(* (junban-domain/src/planning.rs) as pure functions of one list of tasks. *)
(*                                                                         *)
(* "tasks" maps ids (numbers, compared as the uuids are) to rows; a title  *)
(* is its rank in the title order.  Civil dates are day numbers as in      *)
(* Recurrence, instants are ticks of a zone without offset changes.        *)
(***************************************************************************)
EXTENDS Recurrence, SequencesExt

CONSTANTS
    TicksPerHour,
    MaxNudgesPerRule, MaxNudgesCombined, StaleAfter,
    MaxStatsDays, MaxCalendarDays, MaxWeeklyStreak,
    MaxAccomplishments, MaxOverdue, MaxNeglected, MaxSuggestions

CivilHour(instant) == (instant \div TicksPerHour) % 24
CivilDate(instant) == instant \div (24 * TicksPerHour)
DayStart(date) == date * 24 * TicksPerHour

----------------------------------------------------------------------------
(* Orders.  A key is a tuple of numbers compared from the left; an absent  *)
(* value sorts behind every other.                                         *)

Absent == 1000000000
NullsLast(value) == IF value = None THEN Absent ELSE value
OrZero(value) == IF value = None THEN 0 ELSE value
MinOf(a, b) == IF a < b THEN a ELSE b

Precedes(a, b) == \E i \in DOMAIN a : a[i] < b[i] /\ \A j \in 1..(i - 1) : a[j] = b[j]
SortedBy(ids, Key(_)) ==
    LET Rank(x) == Cardinality({y \in ids : Precedes(Key(y), Key(x))})
    IN  [i \in 1..Cardinality(ids) |-> CHOOSE x \in ids : Rank(x) = i - 1]
Take(seq, n) == SubSeq(seq, 1, MinOf(n, Len(seq)))
Total(ids, Value(_)) == FoldSet(LAMBDA id, sum : sum + Value(id), 0, ids)

PriorityRank(row) == IF row.priority = None THEN 5 ELSE row.priority
StableKey(tasks, t) == <<tasks[t].title, t>>
OverdueKey(tasks, t) ==
    <<NullsLast(tasks[t].due), PriorityRank(tasks[t]), tasks[t].title, t>>
AccomplishmentKey(tasks, t) == <<PriorityRank(tasks[t]), NullsLast(tasks[t].completed), t>>
LatestFirstKey(tasks, t) == <<-tasks[t].completed, t>>

Pending(tasks) == {t \in DOMAIN tasks : tasks[t].status = "pending"}
DueBefore(tasks, day) == {t \in Pending(tasks) : tasks[t].due # None /\ tasks[t].due < day}
DueOn(tasks, day) == {t \in Pending(tasks) : tasks[t].due = day}
CompletedOn(tasks, day) ==
    {t \in DOMAIN tasks : /\ tasks[t].status = "completed" /\ tasks[t].completed # None
                          /\ CivilDate(tasks[t].completed) = day}
CancelledOn(tasks, day) ==
    {t \in DOMAIN tasks : /\ tasks[t].status = "cancelled" /\ tasks[t].cancelled # None
                          /\ CivilDate(tasks[t].cancelled) = day}
CreatedOn(tasks, day) == {t \in DOMAIN tasks : CivilDate(tasks[t].created) = day}
EstimateOf(tasks, ids) == Total(ids, LAMBDA t : OrZero(tasks[t].estimate))

\* Whole percent, rounded half up, 0 of nothing.
Percent(part, whole) == IF whole = 0 THEN 0 ELSE (part * 100 + whole \div 2) \div whole

----------------------------------------------------------------------------
(* The priority matrix. *)

Quadrant(row, today) ==
    LET important == row.priority \in {1, 2}
        urgent == row.due # None /\ row.due <= today
    IN  IF row.status # "pending" THEN None
        ELSE IF important THEN (IF urgent THEN "do_first" ELSE "schedule")
        ELSE (IF urgent THEN "delegate" ELSE "eliminate")

\* What dropping a task on a quadrant writes.
MatrixDrop(quadrant, today) ==
    [priority |-> IF quadrant \in {"do_first", "schedule"} THEN 1 ELSE 3,
     due |-> IF quadrant \in {"do_first", "delegate"} THEN today ELSE None]

MatrixGroups(tasks, today) ==
    [q \in {"do_first", "schedule", "delegate", "eliminate"} |->
        SortedBy({t \in Pending(tasks) : Quadrant(tasks[t], today) = q},
                 LAMBDA t : StableKey(tasks, t))]

----------------------------------------------------------------------------
(* Plan My Day and End of Day. *)

DailyPlan(tasks, today) ==
    [overdue |-> SortedBy(DueBefore(tasks, today), LAMBDA t : OverdueKey(tasks, t)),
     focus |-> SortedBy(DueOn(tasks, today), LAMBDA t : StableKey(tasks, t)),
     minutes |-> EstimateOf(tasks, DueOn(tasks, today))]

EndOfDay(tasks, today) ==
    LET wins == CompletedOn(tasks, today)
        carry == DueOn(tasks, today)
        next == IF today = LastDay THEN {} ELSE DueOn(tasks, today + 1)
    IN  [wins |-> SortedBy(wins, LAMBDA t : LatestFirstKey(tasks, t)),
         carry |-> SortedBy(carry, LAMBDA t : StableKey(tasks, t)),
         tomorrow |-> SortedBy(next, LAMBDA t : StableKey(tasks, t)),
         minutes |-> EstimateOf(tasks, next),
         rate |-> Percent(Cardinality(wins), Cardinality(wins) + Cardinality(carry))]

----------------------------------------------------------------------------
(* Streaks: consecutive days with a completion, ending today.  maxDays     *)
(* bounds the days before today, so the result is at most maxDays + 1.     *)

Streak(tasks, today, maxDays) ==
    CHOOSE n \in 0..(maxDays + 1) :
       /\ \A k \in 0..(n - 1) : CompletedOn(tasks, today - k) # {}
       /\ n > maxDays \/ CompletedOn(tasks, today - n) = {}

----------------------------------------------------------------------------
(* The weekly review of the last complete week. *)

WeekOffset(weekStart, day) == IF weekStart = "monday" THEN (day - 1) % 7 ELSE day % 7
PriorWeek(today, weekStart) ==
    LET start == today - WeekOffset(weekStart, today)
    IN  [start |-> start - 7, end |-> start - 1]

Buckets == <<"morning", "afternoon", "evening", "night">>
BucketOf_BadNoon(hour) ==
    CASE hour \in 5..11 -> "morning" [] hour \in 13..16 -> "afternoon"
      [] hour \in 17..20 -> "evening" [] hour \in 21..23 -> "night" [] OTHER -> None
BucketOf(hour) == CASE hour \in 5..11  -> "morning"
                    [] hour \in 12..16 -> "afternoon"
                    [] hour \in 17..20 -> "evening"
                    [] OTHER -> "night"
BucketCounts(tasks, done) ==
    [i \in DOMAIN Buckets |->
        Cardinality({t \in done : BucketOf(CivilHour(tasks[t].completed)) = Buckets[i]})]

\* max_by_key returns the last of several maxima: the later bucket wins a tie.
DominantBucket(counts) ==
    LET best == {i \in DOMAIN counts : counts[i] > 0 /\ \A j \in DOMAIN counts : counts[j] <= counts[i]}
    IN  IF best = {} THEN None
        ELSE Buckets[CHOOSE i \in best : \A j \in best : j <= i]

\* The first of the days with the most completions.
BusiestDay(tasks, week) ==
    LET Done(day) == Cardinality(CompletedOn(tasks, day))
        days == week.start..week.end
        best == {d \in days : Done(d) > 0 /\ \A e \in days : Done(e) <= Done(d)}
    IN  IF best = {} THEN None ELSE CHOOSE d \in best : \A e \in best : d <= e

\* Projects with overdue tasks, worst first, then pending ones without activity.
NeglectedProjects(tasks, projects, today, week) ==
    LET Own(p) == {t \in DOMAIN tasks : tasks[t].project = p}
        Late(p) == Cardinality(Own(p) \cap DueBefore(tasks, today))
        InWeek(instant) == instant # None /\ CivilDate(instant) \in week.start..week.end
        Active(p) == \E t \in Own(p) : InWeek(tasks[t].created) \/ InWeek(tasks[t].completed)
        listed == {p \in DOMAIN projects :
                     /\ ~projects[p].archived
                     /\ Late(p) > 0 \/ (~Active(p) /\ Own(p) \cap Pending(tasks) # {})}
        order == SortedBy(listed, LAMBDA p : <<-Late(p), p>>)
    IN  [i \in DOMAIN Take(order, MaxNeglected) |-> [project |-> order[i], overdue |-> Late(order[i])]]

Suggestions(late, neglected, created, completed, streak) ==
    LET If(condition, suggestion) == IF condition THEN <<suggestion>> ELSE <<>>
        all == If(late > 0, <<"tackle_overdue", late>>)
               \o If(neglected # <<>>,
                     <<"check_neglected", [i \in DOMAIN Take(neglected, 3) |-> neglected[i].project]>>)
               \o If(created > completed, <<"created_more_than_completed">>)
               \o If(streak > 0, <<"keep_streak", streak>>)
    IN  Take(all, MaxSuggestions)

WeeklyReview(tasks, projects, today, weekStart) ==
    LET week == PriorWeek(today, weekStart)
        days == week.start..week.end
        done == UNION {CompletedOn(tasks, d) : d \in days}
        created == UNION {CreatedOn(tasks, d) : d \in days}
        cancelled == UNION {CancelledOn(tasks, d) : d \in days}
        counts == BucketCounts(tasks, done)
        late == SortedBy(DueBefore(tasks, today), LAMBDA t : OverdueKey(tasks, t))
        neglected == NeglectedProjects(tasks, projects, today, week)
        streak == Streak(tasks, today, MaxWeeklyStreak)
    IN  [week |-> week,
         daily |-> [d \in days |-> [completed |-> Cardinality(CompletedOn(tasks, d)),
                                    created |-> Cardinality(CreatedOn(tasks, d))]],
         created |-> Cardinality(created), completed |-> Cardinality(done),
         cancelled |-> Cardinality(cancelled),
         rate |-> Percent(Cardinality(done), Cardinality(done) + Cardinality(cancelled)),
         busiest |-> BusiestDay(tasks, week),
         buckets |-> counts, dominant |-> DominantBucket(counts),
         accomplishments |-> Take(SortedBy(done, LAMBDA t : AccomplishmentKey(tasks, t)),
                                  MaxAccomplishments),
         overdue |-> Take(late, MaxOverdue),
         neglected |-> neglected, streak |-> streak,
         suggestions |-> Suggestions(Len(late), neglected, Cardinality(created),
                                     Cardinality(done), streak)]

----------------------------------------------------------------------------
(* Statistics. *)

ValidRange(from, to, maxDays) == from <= to /\ to - from + 1 <= maxDays

\* Completed tasks with a positive estimate and a positive actual time.
Samples(tasks) == {t \in DOMAIN tasks : /\ tasks[t].status = "completed"
                                        /\ OrZero(tasks[t].estimate) > 0
                                        /\ OrZero(tasks[t].actual) > 0}

\* 1 minus the mean relative error, in whole percent and never below 0.
EstimateAccuracy(tasks) ==
    LET samples == Samples(tasks)
        Product == FoldSet(LAMBDA t, p : p * tasks[t].estimate, 1, samples)
        Error(t) == LET d == tasks[t].actual - tasks[t].estimate
                    IN  (IF d < 0 THEN -d ELSE d) * (Product \div tasks[t].estimate)
        whole == Cardinality(samples) * Product
        good == whole - Total(samples, Error)
    IN  IF samples = {} THEN None ELSE IF good <= 0 THEN 0 ELSE Percent(good, whole)

RoundedAverage(total, count) == IF count = 0 THEN None ELSE (total + count \div 2) \div count

Stats(tasks, from, to, today) ==
    LET days == from..to
        samples == Samples(tasks)
        done == UNION {CompletedOn(tasks, d) : d \in days}
    IN  [days |-> [d \in days |-> [completions |-> Cardinality(CompletedOn(tasks, d)),
                                   creations |-> Cardinality(CreatedOn(tasks, d)),
                                   minutes |-> EstimateOf(tasks, CompletedOn(tasks, d))]],
         completions |-> Cardinality(done),
         creations |-> Cardinality(UNION {CreatedOn(tasks, d) : d \in days}),
         minutes |-> EstimateOf(tasks, done),
         streak |-> Streak(tasks, today, 65535),
         accuracy |-> EstimateAccuracy(tasks),
         estimated |-> RoundedAverage(EstimateOf(tasks, samples), Cardinality(samples)),
         actual |-> RoundedAverage(Total(samples, LAMBDA t : tasks[t].actual),
                                   Cardinality(samples))]

----------------------------------------------------------------------------
(* Smart nudges: five rules in a fixed order, each cut to its own limit    *)
(* and to what is left of the limit on all of them together.               *)

NudgeRules == <<"overdue", "approaching_deadline", "stale_task", "empty_today", "overloaded_day">>

NudgeHits(tasks, today, capacity, rule) ==
    LET late == DueBefore(tasks, today)
        soon == {t \in Pending(tasks) : /\ tasks[t].deadline # None
                                        /\ CivilDate(tasks[t].deadline) \in {today, today + 1}}
        stale == {t \in Pending(tasks) : /\ tasks[t].due = None
                                         /\ today - CivilDate(tasks[t].created) >= StaleAfter}
        load == late \cup DueOn(tasks, today)
    IN  CASE rule = "overdue" -> SortedBy(late, LAMBDA t : OverdueKey(tasks, t))
          [] rule = "approaching_deadline" ->
                SortedBy(soon, LAMBDA t : <<CivilDate(tasks[t].deadline), tasks[t].title, t>>)
          [] rule = "stale_task" -> SortedBy(stale, LAMBDA t : <<tasks[t].created, t>>)
          [] rule = "overloaded_day" ->
                IF EstimateOf(tasks, load) <= capacity THEN <<>>
                ELSE SortedBy(load, LAMBDA t : OverdueKey(tasks, t))
          [] OTHER -> <<>>

\* One rule of evaluate_nudges.  A rule reached with nothing left counts as cut,
\* whether or not it has hits; "empty today" names no task and is never cut.
ApplyRule_BadOwnLimitOnly(tasks, today, capacity, soFar, rule) ==
    LET hits == NudgeHits(tasks, today, capacity, rule)
    IN  IF hits = <<>> THEN soFar
        ELSE [rules |-> Append(soFar.rules, [rule |-> rule, ids |-> Take(hits, MaxNudgesPerRule),
                                             more |-> Len(hits) > MaxNudgesPerRule]),
              left |-> soFar.left - Len(Take(hits, MaxNudgesPerRule)),
              cut |-> soFar.cut \/ Len(hits) > MaxNudgesPerRule]
ApplyRule(tasks, today, capacity, soFar, rule) ==
    LET hits == NudgeHits(tasks, today, capacity, rule)
        limit == MinOf(MaxNudgesPerRule, soFar.left)
        fired == [rule |-> rule, ids |-> Take(hits, limit), more |-> Len(hits) > limit]
    IN  IF rule = "empty_today"
        THEN IF DueOn(tasks, today) = {}
             THEN [soFar EXCEPT !.rules = Append(@, [rule |-> rule, ids |-> <<>>, more |-> FALSE])]
             ELSE soFar
        ELSE IF soFar.left = 0 THEN [soFar EXCEPT !.cut = TRUE]
        ELSE IF hits = <<>> THEN soFar
        ELSE [rules |-> Append(soFar.rules, fired),
              left |-> soFar.left - Len(fired.ids),
              cut |-> soFar.cut \/ fired.more]

Nudges(tasks, today, capacity) ==
    LET result == FoldLeft(LAMBDA soFar, rule : ApplyRule(tasks, today, capacity, soFar, rule),
                           [rules |-> <<>>, left |-> MaxNudgesCombined, cut |-> FALSE], NudgeRules)
    IN  [rules |-> result.rules, more |-> result.cut]

----------------------------------------------------------------------------
(* Motivation. *)

EatTheFrog(tasks) ==
    LET dreaded == {t \in Pending(tasks) : OrZero(tasks[t].dread) > 0}
        order == SortedBy(dreaded, LAMBDA t : <<-tasks[t].dread, NullsLast(tasks[t].due),
                                                tasks[t].title, t>>)
    IN  Take(order, 1)

TaskJar(tasks, today) ==
    SortedBy(DueBefore(tasks, today) \cup DueOn(tasks, today),
             LAMBDA t : <<tasks[t].due, tasks[t].title, t>>)

DopamineMenu(tasks) ==
    LET easy == {t \in Pending(tasks) : \/ tasks[t].estimate # None /\ tasks[t].estimate <= 15
                                        \/ tasks[t].priority \in {3, 4}}
    IN  SortedBy(easy, LAMBDA t : <<NullsLast(tasks[t].estimate), tasks[t].title, t>>)

=============================================================================
