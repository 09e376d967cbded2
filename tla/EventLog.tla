------------------------------ MODULE EventLog ------------------------------
(***************************************************************************)
(* The abstract durable event log every Junban client relies on: a global *)
(* revision that grows by one per committed mutation, and the retained    *)
(* window of the `events` table, from which only the oldest row is ever   *)
(* dropped.  Receipts implements it (crates/junban-storage/src/tx.rs);    *)
(* LiveEvents reads it through the catch-up query list_events             *)
(* (crates/junban-storage/src/detail_ops.rs).                             *)
(***************************************************************************)
EXTENDS Naturals, FiniteSets

CONSTANT PageMax        \* EVENT_CATCHUP_MAX_COUNT: events in a catch-up page

ASSUME PageMaxAssumption == PageMax \in Nat \ {0}

VARIABLES
    revision,           \* app_state.global_revision
    events              \* the revisions that still have a row in `events`

logVars == <<revision, events>>

LogInit ==
    /\ revision = 0
    /\ events = {}

IsOldest(r) == r \in events /\ \A s \in events : r <= s

\* One committed mutation: the next revision and its event row, atomically.
AppendEvent ==
    /\ revision' = revision + 1
    /\ events' = events \union {revision + 1}

\* Retention removes the oldest retained row and nothing else.
DropOldest ==
    /\ \E r \in events : IsOldest(r) /\ events' = events \ {r}
    /\ UNCHANGED revision

LogNext == AppendEvent \/ DropOldest

LogSpec == LogInit /\ [][LogNext]_logVars

-----------------------------------------------------------------------------
(***************************************************************************)
(* The catch-up query of a stream that has seen everything up to `since`. *)
(***************************************************************************)

\* list_events answers ResyncRequired: the window no longer reaches `since`.
ResyncRequired(since) ==
    /\ since < revision
    /\ \A r \in events : r > since + 1

After(since) == {r \in events : r > since}

\* The pages list_events may answer with: the retained revisions after `since`
\* in order, cut after PageMax rows or earlier by the byte budget, never empty
\* while there is something to send.
Pages(since) ==
    IF After(since) = {} THEN {{}}
    ELSE {p \in {{r \in After(since) : r <= last} : last \in After(since)} :
              Cardinality(p) <= PageMax}

-----------------------------------------------------------------------------
LogTypeOK ==
    /\ revision \in Nat
    /\ events \subseteq 1 .. revision

\* The retained window is a run of consecutive revisions ending at the newest.
Contiguous ==
    \A r \in events : \A s \in r .. revision : s \in events

\* A catch-up page never skips a revision: whatever the stream has seen,
\* either it is told to resync, or the page starts at the very next revision
\* and has no hole.  list_events compares only MIN(revision) with since + 1, so
\* this rests on the window having no gap anywhere (tx.rs prune_retained_events).
CatchUpGapFree ==
    \A since \in 0 .. revision :
        ResyncRequired(since) \/
        \A page \in Pages(since) :
            \A r \in page : \A s \in since + 1 .. r : s \in page
=============================================================================
