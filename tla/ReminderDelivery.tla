-------------------------- MODULE ReminderDelivery --------------------------
(***************************************************************************)
(* Reminder occurrences, the delivery lease, claims and their settlement: *)
(* crates/junban-storage/src/reminder_ops.rs.                             *)
(*                                                                         *)
(* A task's schedule intent is task.remindAt.  Every change to a task     *)
(* reconciles its occurrence rows, one per instant the task was ever      *)
(* scheduled for.  Browsers compete for one lease; its owner claims due   *)
(* rows, shows them, and settles each claim.  A browser may answer late,  *)
(* twice or never, so a claim once granted can be settled at any later    *)
(* time.  Requests are stamped before they queue for the storage thread:  *)
(* `now` may lag behind the clock.                                        *)
(*                                                                         *)
(* Instants, deadlines and fence terms are natural numbers; 0 is NULL.    *)
(***************************************************************************)
EXTENDS Naturals, FiniteSets

CONSTANTS
    Tasks,
    Instants,       \* the reminder instants users choose
    Durations,      \* lease_secs and claim_secs
    BackoffStart,   \* REMINDER_FAILURE_BACKOFF_START_SECS
    BackoffMax,     \* REMINDER_FAILURE_BACKOFF_MAX_SECS
    MaxSkew,        \* bound of the model: how stale `now` may be
    MaxClock,       \* bound of the model: the clock stops here
    MaxTerm,        \* bound of the model: leases acquired
    MaxChanges      \* bound of the model: user mutations

ASSUME ReminderAssumption ==
    /\ Instants \subseteq Nat \ {0}
    /\ Durations \subseteq Nat \ {0}
    /\ BackoffStart \in Nat
    /\ BackoffMax \in Nat
    /\ MaxSkew \in Nat

\* The shifts of reminder_failure_backoff stay numbers.
ASSUME ShiftAssumption == \A shift \in 0 .. 16 : 2 ^ shift \in Nat

VARIABLES
    clock,
    task,           \* status and remind_at of each task
    rows,           \* reminder_occurrences
    lease,          \* reminder_delivery_lease
    saved,          \* undo material of the last mutation of each task
    grants,         \* history: every claim granted
    accepted,       \* history: every settlement accepted, with its `now`
    forgotten,      \* history: occurrences whose audit row was compacted
    changes         \* number of user mutations

vars == <<clock, task, rows, lease, saved, grants, accepted, forgotten, changes>>

Occurrences == Tasks \X Instants

TaskStates == [status : {"pending", "closed", "deleted"},
               remindAt : Instants \union {0}]

Row(state) == [state |-> state, term |-> 0, until |-> 0, attempts |-> 0,
               retryAt |-> 0, result |-> "none"]
NoRow == Row("absent")
RowStates == {"absent", "pending", "claimed", "delivered", "failed", "cancelled"}
Results == {"none", "owner_lost", "delivered", "failed"}
Rows == [state : RowStates, term : Nat, until : Nat, attempts : Nat,
         retryAt : Nat, result : Results]

\* The columns a row may have in each state.
WellFormed(row) ==
    /\ row.state = "claimed" <=> row.until # 0
    /\ row.state \in {"claimed", "delivered", "failed"} <=> row.term # 0
    /\ row.term # 0 => row.attempts # 0
    /\ row.retryAt # 0 => row.state = "pending" /\ row.result = "owner_lost"
    /\ row.state = "absent" => row = NoRow

Snapshots == [task : TaskStates, rows : [Instants -> Rows]]
NoUndo == [undoable |-> FALSE]
UndoMaterial == [undoable : {TRUE}, before : Snapshots, after : [Instants -> Rows]]

Grants == [occ : Occurrences, term : Nat, attempt : Nat, from : Nat, until : Nat]

TypeOK ==
    /\ clock \in Nat
    /\ task \in [Tasks -> TaskStates]
    /\ rows \in [Occurrences -> Rows]
    /\ \A o \in Occurrences : WellFormed(rows[o])
    /\ lease \in [term : Nat, until : Nat]
    /\ saved \in [Tasks -> UndoMaterial \union {NoUndo}]
    /\ grants \subseteq Grants
    /\ accepted \subseteq [grant : Grants, result : Results, at : Nat]
    /\ forgotten \subseteq Occurrences
    /\ changes \in Nat

Init ==
    /\ clock = 1
    /\ task = [k \in Tasks |-> [status |-> "pending", remindAt |-> 0]]
    /\ rows = [o \in Occurrences |-> NoRow]
    /\ lease = [term |-> 0, until |-> 0]
    /\ saved = [k \in Tasks |-> NoUndo]
    /\ grants = {}
    /\ accepted = {}
    /\ forgotten = {}
    /\ changes = 0

Tick ==
    /\ clock < MaxClock
    /\ clock' = clock + 1
    /\ UNCHANGED <<task, rows, lease, saved, grants, accepted, forgotten, changes>>

Stamps == {n \in 1 .. clock : clock <= n + MaxSkew}

-----------------------------------------------------------------------------
(***************************************************************************)
(* Schedule mutations.                                                    *)
(***************************************************************************)

\* The instant a task wants to be reminded at, 0 for none.
Intent(t) == IF t.status = "pending" THEN t.remindAt ELSE 0

CancelledRow(row) ==
    [row EXCEPT !.state = "cancelled", !.term = 0, !.until = 0, !.retryAt = 0]

\* ensure_pending_occurrence: claimed, delivered and failed rows are left alone.
EnsuredRow(row) ==
    IF row.state \in {"absent", "cancelled"}
    THEN [Row("pending") EXCEPT !.attempts = row.attempts]
    ELSE row

\* sync_task_reminder_intent for task k in state t.
Synced_BadOthersKept(k, t, rs) ==
    [o \in Occurrences |->
        IF o[1] = k /\ o[2] = Intent(t) THEN EnsuredRow(rs[o]) ELSE rs[o]]
Synced(k, t, rs) ==
    [o \in Occurrences |->
        IF o[1] # k THEN rs[o]
        ELSE IF o[2] = Intent(t) THEN EnsuredRow(rs[o])
        ELSE IF rs[o].state = "pending" THEN CancelledRow(rs[o])
        ELSE rs[o]]

\* compact_terminal_reminder_audit drops the oldest audit rows beyond its age,
\* count and byte budgets; here it may drop any of them.
Audit(tasks, rs) ==
    {o \in Occurrences : /\ rs[o].state \in {"delivered", "failed", "cancelled"}
                         /\ o[2] # tasks[o[1]].remindAt}
Dropped(rs, gone) == [o \in Occurrences |-> IF o \in gone THEN NoRow ELSE rs[o]]

Own(k, rs) == [i \in Instants |-> rs[<<k, i>>]]
WithOwn(k, own, rs) ==
    [o \in Occurrences |-> IF o[1] = k THEN own[o[2]] ELSE rs[o]]

\* A mutation that turns task k into t and the rows into effect[...]: the audit
\* is compacted before and after, and the snapshots taken there are stored as
\* undo material.
Change(k, t, effect) ==
    /\ changes < MaxChanges
    /\ changes' = changes + 1
    /\ task' = [task EXCEPT ![k] = t]
    /\ \E early \in SUBSET Audit(task, rows) :
         LET before == Dropped(rows, early)
             done == IF effect = "sync" THEN Synced(k, t, before)
                     ELSE IF effect = "keep" THEN before
                     ELSE WithOwn(k, [i \in Instants |-> NoRow], before)
         IN \E late \in SUBSET Audit(task', done) :
              /\ rows' = Dropped(done, late)
              /\ saved' = [saved EXCEPT ![k] =
                     [undoable |-> TRUE,
                      before |-> [task |-> task[k], rows |-> Own(k, before)],
                      after |-> Own(k, rows')]]
              /\ forgotten' = forgotten \union early \union late
    /\ UNCHANGED <<clock, lease, grants, accepted>>

\* patch_task, reschedule_reminder and dismiss_reminder (i = 0).
Schedule(k, i) ==
    /\ task[k].status # "deleted"
    /\ Change(k, [task[k] EXCEPT !.remindAt = i], "sync")

\* complete_task or cancel_task, and reopen_task.
Close(k) ==
    /\ task[k].status = "pending"
    /\ Change(k, [task[k] EXCEPT !.status = "closed"], "sync")

Reopen(k) ==
    /\ task[k].status = "closed"
    /\ Change(k, [task[k] EXCEPT !.status = "pending"], "sync")

\* uncomplete_task once the undo material of the completion has expired: the
\* rows are not reconciled.
UncompleteSourceOnly(k) ==
    /\ task[k].status = "closed"
    /\ Change(k, [task[k] EXCEPT !.status = "pending"], "keep")

\* delete_task; the rows go with the task.
Delete(k) ==
    /\ task[k].status # "deleted"
    /\ Change(k, [task[k] EXCEPT !.status = "deleted"], "delete")

\* Undo of the last mutation of task k: refused unless every row of its
\* post-image is still exactly the same; then all rows of the task are replaced.
PostImageHolds_BadTaskOnly(k) == saved[k].undoable
PostImageHolds(k) ==
    /\ saved[k].undoable
    /\ \A i \in Instants :
         saved[k].after[i] # NoRow => rows[<<k, i>>] = saved[k].after[i]

UndoChange(k) ==
    /\ changes < MaxChanges
    /\ changes' = changes + 1
    /\ PostImageHolds(k)
    /\ task' = [task EXCEPT ![k] = saved[k].before.task]
    /\ LET restored == WithOwn(k, saved[k].before.rows, rows)
       IN \E gone \in SUBSET Audit(task', restored) :
            /\ rows' = Dropped(restored, gone)
            /\ forgotten' = forgotten \union gone
            /\ saved' = [saved EXCEPT ![k] =
                   [undoable |-> TRUE,
                    before |-> [task |-> task[k], rows |-> saved[k].after],
                    after |-> Own(k, rows')]]
    /\ UNCHANGED <<clock, lease, grants, accepted>>

-----------------------------------------------------------------------------
(***************************************************************************)
(* The delivery lease.                                                    *)
(***************************************************************************)

Acquire(now, secs) ==
    /\ lease.until <= now
    /\ lease.term < MaxTerm
    /\ lease' = [term |-> lease.term + 1, until |-> now + secs]
    /\ UNCHANGED <<clock, task, rows, saved, grants, accepted, forgotten, changes>>

\* require_unexpired_owner, for a request of the current term.
UnexpiredOwner(now) == lease.until > now

Renew(now, secs) ==
    /\ UnexpiredOwner(now)
    /\ lease' = [lease EXCEPT !.until = now + secs]
    /\ UNCHANGED <<clock, task, rows, saved, grants, accepted, forgotten, changes>>

Release(now) ==
    /\ lease.term # 0
    /\ lease' = [lease EXCEPT !.until = now]
    /\ UNCHANGED <<clock, task, rows, saved, grants, accepted, forgotten, changes>>

-----------------------------------------------------------------------------
(***************************************************************************)
(* Claims and their settlement.                                           *)
(***************************************************************************)

Claimable(o, now) ==
    /\ rows[o].state = "pending"
    /\ o[2] <= now
    /\ rows[o].retryAt <= now

ClaimedRow(row, now, secs) ==
    [state |-> "claimed", term |-> lease.term, until |-> now + secs,
     attempts |-> row.attempts + 1, retryAt |-> 0, result |-> "none"]

\* claim_due_reminders: the earliest claimable rows, as many as the limit allows
\* (the owner's own unexpired claims are answered again, unchanged).
Claim(now, secs, batch) ==
    /\ UnexpiredOwner(now)
    /\ batch # {}
    /\ \A o \in batch : Claimable(o, now)
    /\ \A o \in batch, p \in Occurrences :
         Claimable(p, now) /\ p[2] < o[2] => p \in batch
    /\ rows' = [o \in Occurrences |->
                  IF o \in batch THEN ClaimedRow(rows[o], now, secs) ELSE rows[o]]
    /\ grants' = grants \union
                 {[occ |-> o, term |-> lease.term, attempt |-> rows[o].attempts + 1,
                   from |-> now, until |-> now + secs] : o \in batch}
    /\ UNCHANGED <<clock, task, lease, saved, accepted, forgotten, changes>>

\* settle_claimed accepts an answer to the claim the row is under.
Answers_BadAnyAttempt(row, g) == row.state = "claimed" /\ row.term = g.term
Answers(row, g) ==
    /\ row.state = "claimed"
    /\ row.term = g.term
    /\ row.attempts = g.attempt

\* settle_reminder_delivered and settle_reminder_failed, at any time after the
\* claim.  A repeated answer is acknowledged or refused without effect.
Settle(g, result, now) ==
    LET row == rows[g.occ]
    IN /\ Answers(row, g)
       /\ lease.term = g.term
       /\ UnexpiredOwner(now)
       /\ row.until > now
       /\ LET settled == [rows EXCEPT ![g.occ] =
                            [row EXCEPT !.state = result, !.result = result,
                                        !.until = 0, !.retryAt = 0]]
          IN \E gone \in SUBSET Audit(task, settled) :
               /\ rows' = Dropped(settled, gone)
               /\ forgotten' = forgotten \union gone
       /\ accepted' = accepted \union {[grant |-> g, result |-> result, at |-> now]}
       /\ UNCHANGED <<clock, task, lease, saved, grants, changes>>

\* mark_owner_lost_reminders: the earliest expired claims, as many as the limit
\* allows, become pending again.
Abandoned_BadUnexpiredToo(o, now) == rows[o].state = "claimed"
Abandoned(o, now) == rows[o].state = "claimed" /\ rows[o].until <= now

\* reminder_failure_backoff: doubled with every attempt, up to a ceiling.
Least(m, n) == IF m <= n THEN m ELSE n
Backoff(attempt) == Least(BackoffStart * 2 ^ Least(attempt - 1, 16), BackoffMax)

LostRow(row, now) ==
    [row EXCEPT !.state = "pending", !.term = 0, !.until = 0,
                !.retryAt = now + Backoff(row.attempts), !.result = "owner_lost"]

MarkOwnerLost(now, batch) ==
    /\ UnexpiredOwner(now)
    /\ batch # {}
    /\ \A o \in batch : Abandoned(o, now)
    /\ \A o \in batch, p \in Occurrences :
         Abandoned(p, now) /\ rows[p].until < rows[o].until => p \in batch
    /\ rows' = [o \in Occurrences |->
                  IF o \in batch THEN LostRow(rows[o], now) ELSE rows[o]]
    /\ UNCHANGED <<clock, task, lease, saved, grants, accepted, forgotten, changes>>

-----------------------------------------------------------------------------
ChangeSchedule ==
    \E k \in Tasks :
        \/ \E i \in Instants \union {0} : Schedule(k, i)
        \/ Close(k) \/ Reopen(k) \/ UncompleteSourceOnly(k)
        \/ Delete(k) \/ UndoChange(k)

ControlDelivery ==
    \E now \in Stamps :
        \/ \E secs \in Durations :
             \/ Acquire(now, secs) \/ Renew(now, secs)
             \/ \E batch \in SUBSET Occurrences : Claim(now, secs, batch)
        \/ Release(now)
        \/ \E g \in grants, result \in {"delivered", "failed"} :
             Settle(g, result, now)
        \/ \E batch \in SUBSET Occurrences : MarkOwnerLost(now, batch)

Next == Tick \/ ChangeSchedule \/ ControlDelivery

Spec == Init /\ [][Next]_vars

-----------------------------------------------------------------------------
(***************************************************************************)
(* Properties.                                                            *)
(***************************************************************************)

\* A row that waits for delivery is the current intent of its task, or a claim
\* on it was lost.  reminder_ops.rs sync_task_reminder_intent.
IntentOrLost ==
    \A o \in Occurrences :
        rows[o].state = "pending" =>
            \/ o[2] = Intent(task[o[1]])
            \/ rows[o].result = "owner_lost"

\* The columns of a row agree with its state, and what waits is wanted or was lost:
\* the checks of the table and sync_task_reminder_intent together.
ScheduleSound == TypeOK /\ IntentOrLost

\* Once delivered or failed, an occurrence stays so until its audit row is
\* compacted or its task deleted: no late answer, sweep, reschedule, reopening
\* or undo brings it back.
TerminalIsFinal ==
    [][\A o \in Occurrences :
          rows[o].state \in {"delivered", "failed"} =>
              rows'[o] \in {rows[o], NoRow} \/ o \in forgotten']_vars

\* When the claim window of grant g closed: its deadline, or its settlement.
Closed(g, t) ==
    \/ g.until <= t
    \/ \E a \in accepted : a.grant = g /\ a.at <= t

\* Two claims of one occurrence never overlap, whichever terms, sweeps, revived
\* rows and undos lie in between, up to the staleness of the stamps.
ClaimsDontOverlap ==
    \A g, h \in grants :
        g.occ = h.occ /\ g # h /\ g.occ \notin forgotten =>
            \/ Closed(g, h.from + MaxSkew)
            \/ Closed(h, g.from + MaxSkew)

\* An answer counts only for the claim it answers: inside that claim's window,
\* and only one per claim.  reminder_ops.rs settle_claimed.
LateAnswersAreRefused ==
    \A a \in accepted :
        a.grant.occ \notin forgotten =>
            /\ a.at < a.grant.until
            /\ \A b \in accepted : b.grant.occ = a.grant.occ => a = b

\* The documented schedule invariant (reminder_ops.rs:432): terminal tasks have
\* no pending delivery, pending tasks only one for the active remind_at.
OnePendingIntent ==
    \A o \in Occurrences :
        rows[o].state = "pending" => o[2] = Intent(task[o[1]])
=============================================================================
