------------------------------ MODULE TaskQuery ------------------------------
(***************************************************************************)
(* A live task list of the browser: a paged query, the refreshes and pages   *)
(* it has asked for, the committed events of the stream and the answers of   *)
(* the browser's own mutations, which arrive in any order among each other.  *)
(*                                                                         *)
(* An event is published by its handler once the storage has answered, if    *)
(* the handler is still there, and the browser drops what is not newer than  *)
(* the last it has received: an event can be late, and it can stay away.     *)
(* LiveEvents has the stream itself; here any event may come next.           *)
(*                                                                         *)
(* The server is its tasks and its revision.  A task is at a place, which decides *)
(* the query it belongs to; None is the place of a task that is not there.    *)
(* What else a row holds is the revision that last changed it (since).  The  *)
(* list of a query is ordered by the task.                                   *)
(***************************************************************************)
EXTENDS Integers, FiniteSetsExt

CONSTANTS None,
          Tasks,      \* natural numbers, in the order of the list
          Queries,
          PageSize,
          MaxRevision   \* bound of the model

ASSUME TaskQueryAssumption ==
    /\ Tasks \subseteq Nat \ {0} /\ IsFiniteSet(Tasks)
    /\ PageSize \in Nat \ {0} /\ None \notin Queries \union Tasks

VARIABLES db,        \* row of each task
          revision,  \* of the newest event
          unheard,   \* committed events the stream has not delivered
          seen,      \* revision of the newest it has: lastRevision
          answers,   \* events whose own answer is still to arrive
          query,     \* of the view
          shown, applied, cursor,   \* rows, revision and next page of the list
          refresh,   \* the coalesced refresh
          page,      \* the further page in flight
          source, covered,   \* query and revision the list was last replaced for
          torn,      \* a page has been added to it that does not continue it
          awaited,   \* revisions a refresh has been asked for and has not brought
          missed     \* revisions the list was told of too late, or in vain

server == <<db, revision>>
arriving == <<unheard, seen, answers>>
list == <<shown, applied, cursor, source, covered, torn>>
news == <<awaited, missed>>
vars == <<server, arriving, query, list, refresh, page, news>>

Rest == [stage |-> "rest"]
Asked(q, after) == [stage |-> "asked", query |-> q, after |-> after]
Answered(request, snapshot) ==
    [stage |-> "answered", query |-> request.query, after |-> request.after,
     snapshot |-> snapshot]
\* inFlight and queued of the coalescer
Coalescer(request, queued) == [request |-> request, queued |-> queued]

-----------------------------------------------------------------------------
(* The server                                                              *)

Row(t) == [task |-> t, place |-> db[t].place, since |-> db[t].since]
Members(q, after) == {t \in Tasks : db[t].place = q /\ t > after}

\* listTasks: one page and, if there is more, the position behind it
Snapshot(q, after) ==
    LET taken == {t \in Members(q, after) :
                     Cardinality({u \in Members(q, after) : u < t}) < PageSize}
    IN  [revision |-> revision,
         rows     |-> {Row(t) : t \in taken},
         cursor   |-> IF taken = Members(q, after) THEN None ELSE Max(taken)]

Commit(rows, event) ==
    /\ revision < MaxRevision
    /\ revision' = revision + 1
    /\ db' = [t \in Tasks |-> IF t \in DOMAIN rows THEN rows[t] ELSE db[t]]
    /\ unheard' = unheard \union {event}
    /\ UNCHANGED <<seen, query, list, refresh, page, news>>

\* the commit is this browser's and its answer one more event, or another client's;
\* an answer that gets lost without the browser's notice is like the second
Answers(event) ==
    \/ UNCHANGED answers
    \/ answers = {} /\ answers' = {event}

Put(t, place) == [u \in {t} |-> [place |-> place, since |-> revision + 1]]
Event(kind, row) == [kind |-> kind, row |-> row, revision |-> revision + 1]

\* create, patch, move to a project, status: the event holds the row
PatchTask ==
    \E t \in Tasks, place \in Queries :
        LET event == Event("patch", [task |-> t, place |-> place, since |-> revision + 1])
        IN  Commit(Put(t, place), event) /\ Answers(event)

\* deletion, bulk, reorder, undo: resync.tasks
Resync ==
    \E t \in Tasks, place \in Queries \union {None} :
        LET event == Event("resync", None)
        IN  Commit(Put(t, place), event) /\ Answers(event)

\* an event about something else only moves the revision
Other == Commit(<<>>, Event("other", None)) /\ UNCHANGED answers

-----------------------------------------------------------------------------
(* The list                                                                *)

Ask_BadDropped(q) ==
    IF refresh.request = Rest
    THEN Coalescer(Asked(q, 0), FALSE)
    ELSE refresh

\* RefreshCoalescer.run: while one is in flight, another is only noted
Ask(q) ==
    IF refresh.request = Rest
    THEN Coalescer(Asked(q, 0), FALSE)
    ELSE [refresh EXCEPT !.queued = TRUE]

MembershipChanged(old, new) == old.place # new.place

Patched(row) == {r \in shown : r.task # row.task} \union {row}

\* applyTaskEventToList and applyEvent
ApplyEvent(event) ==
    LET known == event.kind = "patch" /\ \E r \in shown : r.task = event.row.task
        refreshes ==
            \/ event.kind = "resync"
            \/ event.kind = "patch" /\ ~known
            \/ known /\ \E r \in shown : r.task = event.row.task /\ MembershipChanged(r, event.row)
    IN  IF event.revision < applied
        THEN /\ missed' = missed \union {event.revision}
             /\ UNCHANGED <<list, refresh, awaited>>
        ELSE IF refreshes
        THEN /\ refresh' = Ask(query)
             /\ awaited' = awaited \union {event.revision}
             /\ UNCHANGED <<list, missed>>
        ELSE /\ shown' = IF known THEN Patched(event.row) ELSE shown
             /\ applied' = event.revision
             /\ UNCHANGED <<cursor, source, covered, torn, refresh, news>>

\* subscribeToEvents: an event overtaken by a later one is dropped as a duplicate, so
\* it stays unheard, like one whose publication has been abandoned; what a reconnected
\* stream catches up with comes from the log and needs no publication
Deliver ==
    \E event \in unheard :
        /\ event.revision > seen
        /\ seen' = event.revision
        /\ unheard' = unheard \ {event}
        /\ ApplyEvent(event)
        /\ UNCHANGED <<server, answers, query, page>>

OwnAnswer ==
    \E event \in answers :
        /\ answers' = answers \ {event}
        /\ ApplyEvent(event)
        /\ UNCHANGED <<server, unheard, seen, query, page>>

\* resyncAfterOutcomeUnknown: the answer has failed on its way
AnswerLost ==
    /\ answers # {} /\ answers' = {}
    /\ refresh' = Ask(query)
    /\ UNCHANGED <<server, unheard, seen, query, list, page, news>>

Upto(r) == {event \in unheard : event.revision <= r}

\* the stream has fallen behind the retained events: sync.resync_required, which
\* carries the revision that was the newest when the log was read
Overrun ==
    \E newest \in seen + 1..revision :
        /\ seen' = newest
        /\ unheard' = unheard \ Upto(newest)
        /\ refresh' = Ask(query)
        /\ awaited' = awaited \union {event.revision : event \in Upto(newest)}
        /\ UNCHANGED <<server, answers, query, list, page, missed>>

ReadRefresh ==
    /\ refresh.request.stage = "asked"
    /\ refresh' = [refresh EXCEPT !.request = Answered(@, Snapshot(@.query, 0))]
    /\ UNCHANGED <<server, arriving, query, list, page, news>>

\* the loop of the coalescer runs the closure it was started with again
Ended ==
    IF refresh.queued THEN Coalescer(Asked(refresh.request.query, 0), FALSE)
    ELSE Coalescer(Rest, FALSE)

\* no other refresh follows: what this one was asked for is not asked for again
InVain ==
    IF refresh.queued THEN UNCHANGED news
    ELSE missed' = missed \union awaited /\ awaited' = {}

Accepts_BadAnything(snapshot) == TRUE

\* nextStateFromRevisionSnapshot
Accepts(snapshot) == snapshot.revision >= applied

RefreshArrives ==
    /\ refresh.request.stage = "answered"
    /\ refresh' = Ended
    /\ LET snapshot == refresh.request.snapshot
       IN  IF Accepts(snapshot)
           THEN /\ shown' = snapshot.rows
                /\ applied' = snapshot.revision
                /\ cursor' = snapshot.cursor
                /\ source' = refresh.request.query /\ covered' = snapshot.revision
                /\ torn' = FALSE
                /\ awaited' = {r \in awaited : r > snapshot.revision}
                /\ missed' = {}
           ELSE InVain /\ UNCHANGED list
    /\ UNCHANGED <<server, arriving, query, page>>

RefreshFails ==
    /\ refresh.request # Rest
    /\ refresh' = Ended
    /\ InVain
    /\ UNCHANGED <<server, arriving, query, list, page>>

\* loadMore
AskPage ==
    /\ cursor # None /\ page = Rest
    /\ page' = Asked(query, cursor)
    /\ UNCHANGED <<server, arriving, query, list, refresh, news>>

ReadPage ==
    /\ page.stage = "asked"
    /\ page' = Answered(page, Snapshot(page.query, page.after))
    /\ UNCHANGED <<server, arriving, query, list, refresh, news>>

\* applyListSnapshot, append: only the revision is looked at
PageArrives ==
    /\ page.stage = "answered"
    /\ page' = Rest
    /\ LET snapshot == page.snapshot
           new == {r.task : r \in snapshot.rows}
       IN  IF snapshot.revision < applied
           THEN UNCHANGED list
           ELSE /\ applied' = snapshot.revision
                /\ shown' = {r \in shown : r.task \notin new} \union snapshot.rows
                /\ cursor' = snapshot.cursor
                /\ torn' = (torn \/ page.query # source \/ page.after # cursor)
                /\ UNCHANGED <<source, covered>>
    /\ UNCHANGED <<server, arriving, query, refresh, news>>

PageFails ==
    /\ page # Rest
    /\ page' = Rest
    /\ UNCHANGED <<server, arriving, query, list, refresh, news>>

\* the view shows another query: the list starts over and asks for a refresh
Switch ==
    /\ \E q \in Queries \ {query} :
          /\ query' = q /\ source' = q
          /\ refresh' = Ask(q)
    /\ shown' = {} /\ applied' = 0 /\ cursor' = None /\ covered' = -1 /\ torn' = FALSE
    /\ awaited' = 0..revision /\ missed' = {}
    /\ UNCHANGED <<server, arriving, page>>

-----------------------------------------------------------------------------
Init ==
    /\ \E q \in Queries : db = [t \in Tasks |-> [place |-> q, since |-> 0]]
    /\ revision = 0 /\ unheard = {} /\ seen = 0 /\ answers = {}
    /\ query \in Queries /\ source = query
    /\ shown = {} /\ applied = 0 /\ cursor = None /\ covered = -1 /\ torn = FALSE
    /\ awaited = {0} /\ missed = {}
    /\ refresh = Coalescer(Asked(query, 0), FALSE) /\ page = Rest

Next ==
    \/ PatchTask \/ Resync \/ Other
    \/ Deliver \/ OwnAnswer \/ AnswerLost \/ Overrun
    \/ ReadRefresh \/ RefreshArrives \/ RefreshFails
    \/ AskPage \/ ReadPage \/ PageArrives \/ PageFails
    \/ Switch

Spec == Init /\ [][Next]_vars

-----------------------------------------------------------------------------
TypeOK ==
    /\ \A event \in answers \union unheard : event.revision \in 1..revision
    /\ seen \in 0..revision /\ query \in Queries /\ source \in Queries
    /\ applied \in 0..revision /\ covered \in -1..applied
    /\ cursor \in Tasks \union {None} /\ refresh.queued \in BOOLEAN /\ torn \in BOOLEAN
    /\ awaited \subseteq 0..revision /\ missed \subseteq 0..revision

\* The rows of t are what the query the list was filled for returns of t, up to the
\* position of the next page.
Listed(t) ==
    {r \in shown : r.task = t}
        = IF t \in Members(source, 0) /\ (cursor # None => t <= cursor) THEN {Row(t)} ELSE {}

\* The change of t is newer than the list, and the stream has not told of it, or told
\* of it when the list's revision had passed it, or a refresh it was asked for is under
\* way, has failed or was refused as too old.
NewsMissing(t) ==
    /\ db[t].since > covered
    /\ \/ \E event \in unheard : event.revision = db[t].since
       \/ db[t].since \in missed
       \/ refresh.request # Rest /\ db[t].since \in awaited

\* In every state a list is right about each task, unless it lacks the news of that
\* very change of the task, for one of the causes NewsMissing names: no other change, no
\* refresh, page or answer puts it off (applyListSnapshot, applyTaskEventToList,
\* RefreshCoalescer, subscribeToEvents). What it is right about is the query whose
\* answer last replaced it, which the coalescer may have repeated for a view that has
\* changed since; and a page behind another position or of another query leaves a hole.
OffOnlyForCause ==
    TypeOK /\ (~torn => \A t \in Tasks : Listed(t) \/ NewsMissing(t))

\* As long as the query stays, no row on the screen is replaced by an older one.
RowsNeverGoBack ==
    [][query' = query =>
          \A old \in shown, new \in shown' : old.task = new.task => new.since >= old.since]_vars
=============================================================================
