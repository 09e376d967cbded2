------------------------------- MODULE Reads -------------------------------
(***************************************************************************)
(* The read side of the service (junban-app/src/service.rs): task list     *)
(* pages, the calendar, the weekly review, the analyses of one task list   *)
(* and the expansion of recurring time blocks, while other clients write   *)
(* and the day changes.                                                    *)
(*                                                                         *)
(* The storage worker runs one command at a time, so a storage call sees   *)
(* one revision; a read that needs several of them does not, and the       *)
(* service pins them together by their revisions.  One reader asks one     *)
(* question at a time; it may follow a task list page by page, until it    *)
(* asks something else.                                                    *)
(***************************************************************************)
EXTENDS TaskLists

CONSTANTS
    Contents,    \* what the profile can hold: [tasks, projects, owners]
    Questions,   \* the questions the reader can ask
    Days,        \* the civil days the server can sample
    MaxCommits,  \* bound on the commits of other clients
    PageSize,    \* TASK_COLLECT_PAGE_SIZE
    MaxAnalysis, MaxCalendarTasks, MaxRangeItems, MaxRangeDays

VARIABLES
    db,       \* [revision, tasks, projects, owners]
    today,    \* the civil day the server's clock is in
    request,  \* [ask, date, attempt]: the question, the day sampled for it, the attempt
    parts,    \* what the storage calls of this attempt have returned so far
    answer,   \* [to, revision, value]: the question, the revision and the answer
    commits,  \* commits since the question was asked, counted up to two
    walk,     \* the reader's way through a task list: [ask, cursor, seen, over]
    steady    \* history: the tasks whose place in the walked list has not changed

vars == <<db, today, request, parts, answer, commits, walk, steady>>

Holding(content) == [revision |-> db.revision + 1, tasks |-> content.tasks,
                     projects |-> content.projects, owners |-> content.owners]
NoParts == [rows |-> <<>>, cursor |-> None, revision |-> None]
Refusal(reason) == [refused |-> reason]
IsRefusal(value) == DOMAIN value = {"refused"}
Conflict == Refusal("conflict")
TooLarge == Refusal("result_limit_exceeded")
Invalid == Refusal("validation")
Unavailable == Refusal("date_out_of_range")

----------------------------------------------------------------------------
(* The questions.                                                          *)

OneCall == {"daily", "end_of_day", "stats", "nudges", "frog", "jar", "menu"}

\* What the handler and the service check before they reach storage.
Accepted(ask) ==
    CASE ask.kind = "calendar" -> ValidRange(ask.from, ask.to, MaxCalendarDays)
      [] ask.kind = "stats"    -> ValidRange(ask.from, ask.to, MaxStatsDays)
      [] ask.kind = "blocks"   -> ValidRange(ask.from, ask.to, MaxRangeDays)
      [] ask.kind = "list"     -> /\ ask.query.limit # None => ask.query.limit \in 1..MaxPage
                                  /\ CursorFits(ask.query)
      [] OTHER -> TRUE

RowsOf(tasks, ids) == [i \in DOMAIN ids |-> [id |-> ids[i], row |-> tasks[ids[i]]]]

\* calendar_tasks: every task due in the window, of one project or of any.
CalendarQuery(ask) ==
    [view |-> None, sort |-> "due", cursor |-> None, limit |-> PageSize,
     filter |-> [NoFilter EXCEPT !.dueAfter = ask.from, !.dueBefore = ask.to,
                                 !.project = ask.project,
                                 !.statuses = {"pending", "completed", "cancelled"}]]

\* The analyses computed from one list of all tasks.
Analysis(ask, date, tasks) ==
    CASE ask.kind = "daily"      -> DailyPlan(tasks, date)
      [] ask.kind = "end_of_day" -> EndOfDay(tasks, date)
      [] ask.kind = "stats"      -> Stats(tasks, ask.from, ask.to, date)
      [] ask.kind = "nudges"     -> Nudges(tasks, date, ask.capacity)
      [] ask.kind = "frog"       -> [tasks |-> EatTheFrog(tasks)]
      [] ask.kind = "jar"        -> [tasks |-> TaskJar(tasks, date)]
      [] ask.kind = "menu"       -> [tasks |-> DopamineMenu(tasks)]

\* load_analysis_tasks reads one row more than it may return.
Oversized(tasks) == Cardinality(DOMAIN tasks) > MaxAnalysis

----------------------------------------------------------------------------
(* Time blocks and slots in a window of days.                              *)

\* The owners storage returns: those in the window, and earlier series.
RangeOwners(owners, from, to) ==
    {o \in DOMAIN owners : /\ owners[o].date <= to
                           /\ owners[o].date >= from \/ owners[o].rule # None}

Occurrences(owner, from, to) ==
    IF owner.rule = None THEN IF owner.date \in from..to THEN <<owner.date>> ELSE <<>>
    ELSE CivilOccurrences(owner.rule, owner.date, from, to)

\* One occurrence; any but the owner's own date is a virtual instance of it.
Instance(owners, o, date) ==
    [date |-> date, start |-> owners[o].start, id |-> o,
     parent |-> IF date = owners[o].date THEN None ELSE o]

InstanceKey(instance) == <<instance.date, instance.start, instance.id>>

\* The answer, or the error of the first series that cannot be walked to its end.
Arranged(owners, dates) ==
    LET all == UNION {{Instance(owners, o, dates[o][i]) : i \in DOMAIN dates[o]} : o \in DOMAIN dates}
    IN  IF \E o \in DOMAIN dates : dates[o] = <<Beyond>> THEN Unavailable
        ELSE IF Cardinality(all) > MaxRangeItems THEN TooLarge
        ELSE [table \in {"block", "slot"} |->
                SortedBy({i \in all : owners[i.id].table = table}, InstanceKey)]

ExpandRange(owners, from, to) ==
    IF Cardinality(RangeOwners(owners, from, to)) > MaxRangeItems THEN TooLarge
    ELSE Arranged(owners, [o \in RangeOwners(owners, from, to) |-> Occurrences(owners[o], from, to)])

----------------------------------------------------------------------------
(* Steps.                                                                  *)

Init == /\ \E c \in Contents : db = [revision |-> 0, tasks |-> c.tasks,
                                     projects |-> c.projects, owners |-> c.owners]
        /\ today \in Days
        /\ request = None /\ parts = NoParts /\ answer = None /\ commits = 0
        /\ walk = None /\ steady = {}

\* Where a task stands in the walked list, and whether it is in it at all.
InList(tasks, t, asOf) ==
    /\ t \in DOMAIN tasks
    /\ t \in Matching(tasks, walk.ask.query, asOf)
SamePlace(before, after, t) ==
    /\ t \in DOMAIN before /\ t \in DOMAIN after
    /\ SortValue(before[t], walk.ask.query.sort) = SortValue(after[t], walk.ask.query.sort)

\* Any mutation of another client.
Commit ==
    /\ db.revision < MaxCommits
    /\ \E content \in Contents : db' = Holding(content)
    /\ commits' = IF commits = 2 THEN 2 ELSE commits + 1
    /\ steady' = {t \in steady : /\ SamePlace(db.tasks, db'.tasks, t)
                                 /\ InList(db'.tasks, t, AsOf(walk.date))}
    /\ UNCHANGED <<today, request, parts, answer, walk>>

Midnight ==
    /\ today + 1 \in Days
    /\ today' = today + 1
    /\ UNCHANGED <<db, request, parts, answer, commits, walk, steady>>

\* A handler samples the clock for a question.
Begin(ask) ==
    /\ request' = [ask |-> ask, date |-> today, attempt |-> 1]
    /\ parts' = NoParts /\ answer' = None /\ commits' = 0
    /\ UNCHANGED <<db, today>>

Ask == /\ request = None
       /\ \E ask \in Questions : ask.kind # "list" /\ Begin(ask)
       /\ walk' = None /\ steady' = {}

\* The first page of a list, and the page behind the cursor of the last one.
OpenList ==
    /\ request = None
    /\ \E ask \in Questions :
          /\ ask.kind = "list" /\ Begin(ask)
          /\ walk' = [ask |-> ask, date |-> today, seen |-> <<>>, over |-> FALSE]
    /\ steady' = DOMAIN db.tasks \cap Matching(db.tasks, walk'.ask.query, AsOf(today))

NextPage ==
    /\ request = None /\ walk # None /\ ~walk.over
    /\ answer # None /\ answer.to.ask.kind = "list"
    /\ LET ask == [walk.ask EXCEPT !.query.cursor = answer.value.next]
       IN  Begin(ask)
    /\ walk' = [walk EXCEPT !.date = today]
    /\ steady' = {t \in steady : InList(db.tasks, t, AsOf(today))}

\* The answer leaves the service.
Reply(value) ==
    /\ answer' = [to |-> request, revision |-> db.revision, value |-> value]
    /\ request' = None /\ parts' = NoParts
    /\ UNCHANGED <<db, today, commits>>

\* A second attempt after a drift of revisions, and the refusal after another.
Drifted ==
    IF request.attempt = 1
    THEN /\ request' = [request EXCEPT !.attempt = 2]
         /\ parts' = NoParts
         /\ UNCHANGED <<db, today, answer, commits>>
    ELSE Reply(Conflict)

\* Parameters that do not pass are refused before anything is read.
Reject ==
    /\ request # None /\ ~Accepted(request.ask)
    /\ Reply(Invalid)
    /\ walk' = None /\ steady' = {}

Asking(kinds) == request # None /\ request.ask.kind \in kinds /\ Accepted(request.ask)

ReadPage ==
    /\ Asking({"list"})
    /\ LET page == ListTasks(db.tasks, request.ask.query, AsOf(request.date))
       IN  /\ Reply([rows |-> RowsOf(db.tasks, page.ids), next |-> page.next])
           /\ walk' = [walk EXCEPT !.seen = @ \o page.ids, !.over = page.next = None]
    /\ UNCHANGED steady

ReadAnalysis ==
    /\ Asking(OneCall)
    /\ Reply(IF Oversized(db.tasks) THEN TooLarge
             ELSE Analysis(request.ask, request.date, db.tasks))
    /\ UNCHANGED <<walk, steady>>

ReadBlocks ==
    /\ Asking({"blocks"})
    /\ Reply(ExpandRange(db.owners, request.ask.from, request.ask.to))
    /\ UNCHANGED <<walk, steady>>

\* collect_task_query_pages_once: page after page, all of one revision and no more
\* than the cap together; a next page behind a full cap is refused without reading it.
CollectPage ==
    /\ Asking({"calendar"})
    /\ LET query == [CalendarQuery(request.ask) EXCEPT !.cursor = parts.cursor]
           page == ListTasks(db.tasks, query, AsOf(request.date))
           rows == parts.rows \o RowsOf(db.tasks, page.ids)
       IN  IF parts.revision \notin {None, db.revision} THEN Drifted
           ELSE IF \/ Len(rows) > MaxCalendarTasks
                   \/ Len(rows) = MaxCalendarTasks /\ page.next # None
                THEN Reply(TooLarge)
           ELSE IF page.next = None THEN Reply([rows |-> rows])
           ELSE /\ parts' = [rows |-> rows, cursor |-> page.next, revision |-> db.revision]
                /\ UNCHANGED <<db, today, request, answer, commits>>
    /\ UNCHANGED <<walk, steady>>

\* weekly_review: the tasks, then the catalog.
ReadWeekTasks ==
    /\ Asking({"weekly"}) /\ parts.revision = None
    /\ IF Oversized(db.tasks) THEN Reply(TooLarge)
       ELSE /\ parts' = [rows |-> db.tasks, cursor |-> None, revision |-> db.revision]
            /\ UNCHANGED <<db, today, request, answer, commits>>
    /\ UNCHANGED <<walk, steady>>

ReadWeekCatalog_BadUnpinned ==
    /\ Asking({"weekly"}) /\ parts.revision # None
    /\ Reply(WeeklyReview(parts.rows, db.projects, request.date, request.ask.weekStart))
    /\ UNCHANGED <<walk, steady>>
ReadWeekCatalog ==
    /\ Asking({"weekly"}) /\ parts.revision # None
    /\ IF parts.revision # db.revision THEN Drifted
       ELSE Reply(WeeklyReview(parts.rows, db.projects, request.date, request.ask.weekStart))
    /\ UNCHANGED <<walk, steady>>

Next == \/ Commit \/ Midnight \/ Ask \/ OpenList \/ NextPage \/ Reject
        \/ ReadPage \/ ReadAnalysis \/ ReadBlocks
        \/ CollectPage \/ ReadWeekTasks \/ ReadWeekCatalog

Spec == Init /\ [][Next]_vars

----------------------------------------------------------------------------
(* Properties.                                                             *)

Answered(kind) == /\ answer # None /\ ~IsRefusal(answer.value)
                  /\ answer.to.ask.kind = kind
Fresh(kind) == Answered(kind) /\ answer.revision = db.revision
IdsOf(rows) == {rows[i].id : i \in DOMAIN rows}
Occurs(seq, e) == Cardinality({i \in DOMAIN seq : seq[i] = e})

\* The tables hold rows, a request is in its first or second attempt, collected
\* parts belong to a request that needs several storage calls and never exceed the
\* cap, and a walk has seen only tasks some content of the profile has.
TypeOK ==
    /\ db.revision \in 0..MaxCommits /\ today \in Days /\ commits \in 0..2
    /\ \E c \in Contents : db = [Holding(c) EXCEPT !.revision = db.revision]
    /\ request # None => request.attempt \in {1, 2} /\ request.date \in Days /\ answer = None
    /\ parts # NoParts => /\ Asking({"calendar", "weekly"})
                         /\ parts.revision \in 0..db.revision
    /\ Asking({"calendar"}) => Len(parts.rows) < MaxCalendarTasks
    /\ walk # None => Range(walk.seen) \cup steady \subseteq UNION {DOMAIN c.tasks : c \in Contents}

\* The answer a profile gives when it stands still.
Still(asked, profile) ==
    LET ask == asked.ask
        due == Matching(profile.tasks, CalendarQuery(ask), AsOf(asked.date))
        order == SortedBy(due, LAMBDA t : ListKey(profile.tasks, "due", t))
        page == ListTasks(profile.tasks, ask.query, AsOf(asked.date))
    IN  IF ~Accepted(ask) THEN Invalid
        ELSE CASE ask.kind = "calendar" ->
                    IF Cardinality(due) > MaxCalendarTasks THEN TooLarge
                    ELSE [rows |-> RowsOf(profile.tasks, order)]
               [] ask.kind = "blocks" -> ExpandRange(profile.owners, ask.from, ask.to)
               [] ask.kind = "list"   -> [rows |-> RowsOf(profile.tasks, page.ids),
                                          next |-> page.next]
               [] Oversized(profile.tasks) -> TooLarge
               [] ask.kind = "weekly" ->
                    WeeklyReview(profile.tasks, profile.projects, asked.date, ask.weekStart)
               [] OTHER -> Analysis(ask, asked.date, profile.tasks)

AtOnce(asked, profile) == [revision |-> profile.revision, value |-> Still(asked, profile)]
GivenUp == [revision |-> None, value |-> Conflict]

Snapshot == INSTANCE SnapshotReads WITH
    Conflict <- GivenUp, Whole <- AtOnce,
    request <- IF request = None THEN None ELSE [ask |-> request.ask, date |-> request.date],
    answer <- IF answer = None THEN None
              ELSE [revision |-> IF answer.value = Conflict THEN None ELSE answer.revision,
                    value |-> answer.value]

\* Every read, of one storage call or of several, answers with the profile of one
\* instant and with the revision of that instant, and a read is given up for
\* another client's writes only when two of them were committed while it ran.
ReadsAreAtomic == Snapshot!Spec

\* Following the cursors of a task list to the end visits every task that stayed in
\* the list and in its place exactly once, whatever else was written meanwhile.
WalkVisitsOnce ==
    walk # None => \A t \in steady : /\ Occurs(walk.seen, t) <= 1
                                     /\ walk.over => Occurs(walk.seen, t) = 1

\* The storage calls of one answer keep to the attempts and caps of the service, and
\* a walk through the pages of a list neither repeats nor misses.
WalkSound == TypeOK /\ WalkVisitsOnce

\* A limit is never exceeded and never hides a task without saying so: nudges, and
\* the lists that carry a cursor.
NothingCutSilently ==
    /\ Fresh("nudges") =>
         LET nudges == answer.value
             listed == UNION {Range(nudges.rules[i].ids) : i \in DOMAIN nudges.rules}
             Hits(rule) == Range(NudgeHits(db.tasks, answer.to.date, answer.to.ask.capacity, rule))
             cut == {rule \in Range(NudgeRules) :
                       \E h \in Hits(rule) : ~\E i \in DOMAIN nudges.rules :
                            nudges.rules[i].rule = rule /\ h \in Range(nudges.rules[i].ids)}
         IN  /\ cut # {} => nudges.more
             /\ FoldLeft(LAMBDA n, r : n + Len(r.ids), 0, nudges.rules) <= MaxNudgesCombined
             /\ \A i \in DOMAIN nudges.rules :
                  /\ Len(nudges.rules[i].ids) <= MaxNudgesPerRule
                  /\ nudges.rules[i].rule \in cut => nudges.rules[i].more
             /\ listed \subseteq Pending(db.tasks)
    /\ Fresh("list") =>
         LET query == answer.to.ask.query
             left == Matching(db.tasks, query, AsOf(answer.to.date))
                       \cap BehindCursor(db.tasks, query)
         IN  /\ Len(answer.value.rows) <= MaxPage
             /\ answer.value.next = None <=> left = IdsOf(answer.value.rows)

\* The summaries add up, split where their windows are split, and agree with the
\* task lists, which answer the same questions in SQL.
SummariesReconcile ==
    /\ Fresh("weekly") =>
         LET review == answer.value
             Sum(F(_)) == FoldSet(LAMBDA d, n : n + F(d), 0, DOMAIN review.daily)
         IN  /\ Sum(LAMBDA d : review.daily[d].completed) = review.completed
             /\ Sum(LAMBDA d : review.daily[d].created) = review.created
             /\ FoldLeft(LAMBDA n, count : n + count, 0, review.buckets) = review.completed
             /\ review.week.end < answer.to.date /\ answer.to.date <= review.week.end + 7
    /\ Fresh("stats") =>
         LET ask == answer.to.ask
             Part(from, to) == Stats(db.tasks, from, to, answer.to.date)
         IN  /\ \A day \in ask.from..(ask.to - 1) :
                  LET first == Part(ask.from, day)
                      second == Part(day + 1, ask.to)
                  IN  /\ first.completions + second.completions = answer.value.completions
                      /\ first.creations + second.creations = answer.value.creations
                      /\ first.minutes + second.minutes = answer.value.minutes
             /\ answer.value.streak > 0 <=> CompletedOn(db.tasks, answer.to.date) # {}
    /\ Fresh("daily") =>
         LET asOf == AsOf(answer.to.date)
             Listed(view, filter) == {t \in DOMAIN db.tasks : /\ InView(db.tasks[t], view, asOf)
                                                             /\ Matches(db.tasks[t], filter, asOf)}
             late == Range(answer.value.overdue)
             focus == Range(answer.value.focus)
             groups == MatrixGroups(db.tasks, asOf.date)
         IN  /\ late = Listed(None, [NoFilter EXCEPT !.overdue = TRUE])
             /\ late \cup focus = Listed("today", NoFilter)
             /\ late \cap focus = {}
             /\ Range(groups["do_first"]) \cup Range(groups["delegate"]) = late \cup focus
             /\ Pending(db.tasks) = UNION {Range(groups[q]) : q \in DOMAIN groups}
             /\ \A q \in DOMAIN groups, t \in Pending(db.tasks) :
                  LET drop == MatrixDrop(q, asOf.date)
                  IN  Quadrant([db.tasks[t] EXCEPT !.priority = drop.priority,
                                                   !.due = drop.due], asOf.date) = q

\* The dates of a series, said without stepping through it.
InSeries(rule, start, date) ==
    date >= start /\
    CASE rule.every = "day"     -> (date - start) % rule.n = 0
      [] rule.every = "week"    -> (date - start) % (7 * rule.n) = 0
      [] rule.every = "weekday" -> date = start \/ ~OnWeekend(date)
      [] rule.every = "month"   ->
            Day(date) = MinOf(Day(start), DaysInMonth(Year(date), Month(date)))
      [] rule.every = "year"    ->
            IF ~IsDay(start, 2, 29) THEN Month(date) = Month(start) /\ Day(date) = Day(start)
            ELSE IF IsLeap(Year(date)) THEN IsDay(date, 2, 29) ELSE IsDay(date, 3, 1)

\* The due dates of a task of the same rule that is completed again and again.
LeastStep(rule) == CASE rule.every = "week" -> 7 * rule.n [] rule.every = "month" -> 28
                     [] rule.every = "year" -> 365 [] OTHER -> rule.n
Steps(rule, start, until) == (until - start) \div LeastStep(rule) + 1
MaxChain == 50
Chain(rule, start, until) ==
    LET steps == 0..Steps(rule, start, until)
        Renewed(task) == LET next == NextOccurrence(task, task.due)
                         IN  IF task.due > until THEN task
                             ELSE [task EXCEPT !.due = next.due, !.anchor = next.anchor]
        Walk[n \in steps] ==
            IF n = 0 THEN [rule |-> rule, due |-> start, time |-> None,
                           anchor |-> ResolveAnchor(rule, start, None)]
            ELSE Renewed(Walk[n - 1])
    IN  {Walk[n].due : n \in steps}

\* A window shows exactly the dates of each series that lie in it, in order and
\* once, wherever the series began: the dates on which a task of the same rule
\* would come due, one completion after another, too (followed for MaxChain steps).
SeriesIsWindowed ==
    Fresh("blocks") =>
      LET window == answer.to.ask.from..answer.to.ask.to
          shown(table) == answer.value[table]
          Shown(table, o) == {shown(table)[i].date :
                                i \in {j \in DOMAIN shown(table) : shown(table)[j].id = o}}
      IN  /\ \A table \in DOMAIN answer.value : \A i, j \in DOMAIN shown(table) :
               i < j => Precedes(InstanceKey(shown(table)[i]), InstanceKey(shown(table)[j]))
          /\ \A o \in DOMAIN db.owners :
               LET owner == db.owners[o]
                   dates == Shown(owner.table, o)
               IN  IF owner.rule = None THEN dates = {owner.date} \cap window
                   ELSE /\ dates = {d \in window : InSeries(owner.rule, owner.date, d)}
                        /\ Steps(owner.rule, owner.date, answer.to.ask.to) \in 1..MaxChain =>
                             dates = window \cap Chain(owner.rule, owner.date, answer.to.ask.to)

=============================================================================
