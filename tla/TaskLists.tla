----------------------------- MODULE TaskLists -----------------------------
(***************************************************************************)
(* The task list query: view presets, filters, orders and keyset pages     *)
(* (junban-storage/src/query_ops.rs, junban-domain/src/query.rs,           *)
(* junban-server/src/cursor.rs), as functions of the tasks and of the      *)
(* civil day the server samples for the request.                           *)
(*                                                                         *)
(* Unset is an absent criterion; None is SQL's NULL, which project, section  *)
(* and parent can be asked for.                                            *)
(***************************************************************************)
EXTENDS Planning

CONSTANTS Unset, MaxPage, MaxTagsPerTask, RecentDays

----------------------------------------------------------------------------
(* Filters.                                                                *)

NoFilter == [statuses |-> {}, project |-> Unset, section |-> Unset, parent |-> Unset,
             priority |-> Unset, dueOn |-> Unset, dueAfter |-> Unset, dueBefore |-> Unset,
             someday |-> Unset, overdue |-> FALSE, tags |-> {}, search |-> Unset]

\* apply_filter_token: a clause of a saved filter.  Later clauses replace earlier
\* ones, statuses and tags add up; a bare week is a range and clears the day.
TooMany == [error |-> "too_many"]
ApplyToken(filter, token, today) ==
    CASE filter = TooMany -> TooMany
      [] token.clause = "overdue"  -> [filter EXCEPT !.overdue = TRUE]
      [] token.clause = "today"    -> [filter EXCEPT !.dueOn = today]
      [] token.clause = "tomorrow" -> [filter EXCEPT !.dueOn = today + 1]
      [] token.clause = "week"     ->
            [filter EXCEPT !.dueAfter = today, !.dueBefore = today + 6, !.dueOn = Unset]
      [] token.clause = "status"   -> [filter EXCEPT !.statuses = @ \cup {token.value}]
      [] token.clause = "tag"      ->
            IF token.value \notin filter.tags /\ Cardinality(filter.tags) >= MaxTagsPerTask
            THEN TooMany
            ELSE [filter EXCEPT !.tags = @ \cup {token.value}]
      [] OTHER -> [filter EXCEPT ![token.clause] = token.value]

ParseFilter(tokens, today) ==
    FoldLeft(LAMBDA filter, token : ApplyToken(filter, token, today), NoFilter, tokens)

\* TaskListAsOf: one local day, and the instants of the RecentDays days ending with it.
AsOf(today) == [date |-> today, from |-> DayStart(today - (RecentDays - 1)),
                until |-> DayStart(today + 1)]

InView(row, view, asOf) ==
    LET pending == row.status = "pending"
        recent == /\ row.status = "completed" /\ row.completed # None
                  /\ asOf.from <= row.completed /\ row.completed < asOf.until
    IN  CASE view = "inbox"     -> row.project = None /\ ~row.someday /\ (pending \/ recent)
          [] view = "today"     -> pending /\ row.due # None /\ row.due <= asOf.date
          [] view = "upcoming"  -> pending /\ row.due # None /\ row.due # asOf.date
          [] view = "someday"   -> pending /\ row.someday
          [] view = "completed" -> ~pending
          [] view = "cancelled" -> row.status = "cancelled"
          [] OTHER -> TRUE

Wants(criterion, value) == criterion = Unset \/ criterion = value

Matches(row, filter, asOf) ==
    /\ filter.statuses # {} => row.status \in filter.statuses
    /\ Wants(filter.project, row.project)
    /\ Wants(filter.section, row.section)
    /\ Wants(filter.parent, row.parent)
    /\ Wants(filter.priority, row.priority)
    /\ Wants(filter.dueOn, row.due)
    /\ filter.dueBefore # Unset => row.due # None /\ row.due <= filter.dueBefore
    /\ filter.dueAfter # Unset => row.due # None /\ row.due >= filter.dueAfter
    /\ Wants(filter.someday, row.someday)
    /\ filter.overdue => row.status = "pending" /\ row.due # None /\ row.due < asOf.date
    /\ filter.tags \subseteq row.tags
    /\ filter.search # Unset => filter.search = row.title

Matching(tasks, query, asOf) ==
    {t \in DOMAIN tasks : InView(tasks[t], query.view, asOf) /\ Matches(tasks[t], query.filter, asOf)}

----------------------------------------------------------------------------
(* Orders.  Every order ends with the id, ascending, so no two rows are    *)
(* equal.  Stored instants are compared as text: two ticks share a second, *)
(* and a text with a fraction sorts before the whole second it follows.    *)

TextRank(instant) == IF instant % 2 = 0 THEN instant + 1 ELSE instant - 1

SortValue(row, sort) ==
    CASE sort = "order"        -> row.order
      [] sort = "created"      -> TextRank(row.created)
      [] sort = "created_desc" -> -TextRank(row.created)
      [] sort = "updated_desc" -> -TextRank(row.updated)
      [] sort = "due"          -> NullsLast(row.due)
      [] sort = "due_desc"     -> -OrZero(row.due)
      [] sort = "priority"     -> IF row.priority = None THEN 99 ELSE row.priority
      [] sort = "title"        -> row.title

ListKey(tasks, sort, t) == <<SortValue(tasks[t], sort), t>>

\* The opaque cursor names the order it belongs to and the last row of its page.
CursorAt(tasks, sort, t) == [sort |-> sort, value |-> SortValue(tasks[t], sort), id |-> t]
CursorFits(query) == query.cursor # None => query.cursor.sort = query.sort

BehindCursor_BadValueOnly(tasks, query) ==
    IF query.cursor = None THEN DOMAIN tasks
    ELSE {t \in DOMAIN tasks : query.cursor.value < SortValue(tasks[t], query.sort)}
BehindCursor(tasks, query) ==
    IF query.cursor = None THEN DOMAIN tasks
    ELSE {t \in DOMAIN tasks : Precedes(<<query.cursor.value, query.cursor.id>>,
                                        ListKey(tasks, query.sort, t))}

PageLimit(query) == IF query.limit = None THEN MaxPage ELSE MinOf(query.limit, MaxPage)

\* list_tasks reads one row more than the page, to know whether there is a next one.
ListTasks(tasks, query, asOf) ==
    LET limit == PageLimit(query)
        ids == SortedBy(Matching(tasks, query, asOf) \cap BehindCursor(tasks, query),
                        LAMBDA t : ListKey(tasks, query.sort, t))
        page == Take(ids, limit)
    IN  [ids |-> page,
         next |-> IF Len(ids) > limit THEN CursorAt(tasks, query.sort, page[Len(page)])
                  ELSE None]

=============================================================================
