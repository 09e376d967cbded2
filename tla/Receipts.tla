------------------------------ MODULE Receipts ------------------------------
(***************************************************************************)
(* The mutation transaction of crates/junban-storage/src/tx.rs: operation *)
(* receipts with a 30-day life, replay of a retried operation, the global *)
(* revision, the retained event window, and conflict-safe undo.           *)
(*                                                                         *)
(* A client submits an operation under an operation id of its choosing.   *)
(* The service stamps it with the wall clock when the request arrives and *)
(* sends it to the single storage thread, which takes requests one at a   *)
(* time but not in the order of their stamps.  The thread runs `mutate`:  *)
(* a cleanup transaction, the mutation transaction, then pruning.  The    *)
(* process may stop between any two of them.                              *)
(*                                                                         *)
(* A resource is abstracted to a value, 0 when there is no such row, and  *)
(* the revision its row carries; the effect of a mutation is "one resource*)
(* gets a value", 0 for a deletion.  A task carries its revision in its   *)
(* row, so a post-image pins it exactly, or pins its absence.  Most undos *)
(* stamp what they restore with their own revision, but the undo of a     *)
(* deletion puts the row back as it was, its old revision included.  A    *)
(* `blocks` link is only present (1) or absent (0); other resources       *)
(* (catalog, time blocks) store no inverse.  Time is counted in half      *)
(* seconds, because stored timestamps are compared as text.               *)
(***************************************************************************)
EXTENDS EventLog, Sequences, FiniteSetsExt, Functions

CONSTANTS
    Ops,            \* operation ids
    NoOp,           \* undone_by_operation_id IS NULL
    Tasks,          \* resources whose post-image includes their revision
    Links,          \* blocks relations, present or absent
    Others,         \* resources whose mutations store no inverse
    Offered,        \* bound of the model: the requests clients make
    Vals,           \* contents, 0 and 1 among them
    Sizes,          \* serialized event sizes
    TTL,            \* RECEIPT_TTL_DAYS, in half seconds
    RetainCount,    \* EVENT_RETAIN_MAX_COUNT
    RetainBytes,    \* EVENT_RETAIN_MAX_BYTES
    MaxClock,       \* bound of the model: the clock stops here
    MaxRevision,    \* bound of the model: no commit past this revision
    MaxInbox        \* bound of the model: requests in flight

VARIABLES
    clock,          \* wall clock, in half seconds
    inbox,          \* stamped requests the storage thread has not taken yet
    stage,          \* where the storage thread is in `mutate`
    current,        \* the request it is executing
    store,          \* the resource tables: value and revision of each row
    receipts,       \* operation_receipts
    undos,          \* operation_undo
    activity,       \* the activity log, row r written at revision r; the fields
                    \* `clock`, `undoes` and `val` are history, kept for the properties
    reply           \* the last successful answer

vars == <<revision, events, clock, inbox, stage, current, store, receipts,
          undos, activity, reply>>

Resources == Tasks \union Links \union Others

Write(k, v) == [kind |-> "write", task |-> k, val |-> v]
Undo(source) == [kind |-> "undo", source |-> source]

Writes == {Write(k, v) : k \in Tasks \union Others, v \in Vals}
          \union {Write(k, v) : k \in Links, v \in {0, 1}}
Requests == Writes \union {Undo(s) : s \in Ops}

ASSUME ReceiptsAssumption ==
    /\ NoOp \notin Ops
    /\ {0, 1} \subseteq Vals
    /\ Links \intersect (Tasks \union Others) = {}
    /\ Offered \subseteq Requests
    /\ Sizes \subseteq Nat
    /\ TTL \in Nat
    /\ RetainCount \in Nat
    /\ RetainBytes \in Nat

Commands == [op : Ops, req : Requests, at : Nat]
NoCommand == [op |-> NoOp]
NoReply == [op |-> NoOp]

States == [val : Vals, rev : Nat]
ReceiptRows == [req : Requests, rev : Nat, expires : Nat]
UndoRows == [rev : Nat, task : Resources, before : States, asItWas : BOOLEAN,
             after : States, pins : {"row", "value", "nothing"},
             undoneBy : Ops \union {NoOp}]
ActivityRows == [op : Ops, req : Requests, at : Nat, clock : Nat,
                 task : Resources, val : Vals, undoes : Nat, size : Sizes]

\* A resource without a row has no revision either.
Absent == [val |-> 0, rev |-> 0]
Present(k) == store[k].val # 0
Replies == [op : Ops, req : Requests, at : Nat, rev : Nat, fresh : BOOLEAN]

TypeOK ==
    /\ LogTypeOK
    /\ clock \in Nat
    /\ inbox \subseteq Commands
    /\ stage \in {"idle", "cleaned", "committed"}
    /\ current \in Commands \union {NoCommand}
    /\ stage # "idle" => current \in Commands
    /\ store \in [Resources -> States]
    /\ DOMAIN receipts \subseteq Ops
    /\ receipts \in [DOMAIN receipts -> ReceiptRows]
    /\ DOMAIN undos \subseteq Ops
    /\ undos \in [DOMAIN undos -> UndoRows]
    /\ activity \in Seq(ActivityRows)
    /\ reply \in Replies \union {NoReply}

Init ==
    /\ LogInit
    /\ clock = 0
    /\ inbox = {}
    /\ stage = "idle"
    /\ current = NoCommand
    /\ store = [k \in Resources |-> Absent]
    /\ receipts = << >>
    /\ undos = << >>
    /\ activity = << >>
    /\ reply = NoReply

-----------------------------------------------------------------------------
(***************************************************************************)
(* Clients and the clock.                                                 *)
(***************************************************************************)

Tick ==
    /\ clock < MaxClock
    /\ clock' = clock + 1
    /\ UNCHANGED <<revision, events, inbox, stage, current, store, receipts,
                   undos, activity, reply>>

\* A first attempt or a retry: the service reads the clock before it queues the
\* command, so commands of different requests overtake each other.
Submit(op, req) ==
    /\ Cardinality(inbox) < MaxInbox
    /\ inbox' = inbox \union {[op |-> op, req |-> req, at |-> clock]}
    /\ UNCHANGED <<revision, events, clock, stage, current, store, receipts,
                   undos, activity, reply>>

-----------------------------------------------------------------------------
(***************************************************************************)
(* Expiry.  Timestamps are stored and compared as RFC 3339 text with a    *)
(* fraction only when it is not zero: "...:07Z" sorts after "...:07.5Z".  *)
(***************************************************************************)

TextKey(t) == IF t % 2 = 0 THEN t + 1 ELSE t - 1
TextLeq(s, t) == TextKey(s) <= TextKey(t)

ExpiresAt_BadSubtracted(now) == now - TTL - 1
ExpiresAt_BadNoTtl(now) == now
ExpiresAt(now) == now + TTL

Expired(op, now) == TextLeq(receipts[op].expires, now)

ExpiredReceipts(now) == {op \in DOMAIN receipts : Expired(op, now)}

\* An undo row goes with the receipt of its source or of the operation that
\* undid it.
ExpiredUndos_BadSourceOnly(now) ==
    {op \in DOMAIN undos : op \in ExpiredReceipts(now)}
ExpiredUndos(now) ==
    {op \in DOMAIN undos :
        \/ op \in ExpiredReceipts(now)
        \/ undos[op].undoneBy \in ExpiredReceipts(now)}

Without(f, S) == Restrict(f, DOMAIN f \ S)
With(f, x, y) == [z \in DOMAIN f \union {x} |-> IF z = x THEN y ELSE f[z]]

\* The storage thread takes a request and commits the cleanup transaction.
Clean(cmd) ==
    /\ stage = "idle"
    /\ inbox' = inbox \ {cmd}
    /\ stage' = "cleaned"
    /\ current' = cmd
    /\ reply' = NoReply
    /\ receipts' = Without(receipts, ExpiredReceipts(cmd.at))
    /\ undos' = Without(undos, ExpiredUndos(cmd.at))
    /\ UNCHANGED <<revision, events, clock, store, activity, reply>>

-----------------------------------------------------------------------------
(***************************************************************************)
(* The mutation transaction.                                              *)
(***************************************************************************)

Finish ==
    /\ stage' = "idle"
    /\ current' = NoCommand

Recorded(op) == op \in DOMAIN receipts

SameRequest_BadIgnored(op, req) == TRUE
SameRequest(op, req) == receipts[op].req = req

\* A retry of a recorded operation: its stored response, and nothing written.
Replay ==
    /\ stage = "cleaned"
    /\ Recorded(current.op)
    /\ SameRequest(current.op, current.req)
    /\ reply' = [op |-> current.op, req |-> current.req, at |-> current.at,
                 rev |-> receipts[current.op].rev, fresh |-> FALSE]
    /\ Finish
    /\ UNCHANGED <<revision, events, clock, inbox, store, receipts, undos,
                   activity>>

\* The same operation id with another request: IdempotencyMismatch.
Mismatch ==
    /\ stage = "cleaned"
    /\ Recorded(current.op)
    /\ ~SameRequest(current.op, current.req)
    /\ Finish
    /\ UNCHANGED <<revision, events, clock, inbox, store, receipts, undos,
                   activity, reply>>

\* A request without a receipt: its effect is applied.
Unrecorded == stage = "cleaned" /\ ~Recorded(current.op)

\* The effect fails (validation, NotFound, Conflict, OperationTooLarge, a
\* storage error): the transaction rolls back.
Refuse ==
    /\ Unrecorded
    /\ Finish
    /\ UNCHANGED <<revision, events, clock, inbox, store, receipts, undos,
                   activity, reply>>

\* A row written by the running transaction carries its revision.
Stamped(v) == IF v = 0 THEN Absent ELSE [val |-> v, rev |-> revision + 1]

\* What every committed mutation writes: the next revision with its event and
\* activity row, a receipt, and the effect: the row of k becomes `state`.
Commit(k, state, undoes) ==
    /\ revision < MaxRevision
    /\ AppendEvent
    /\ store' = [store EXCEPT ![k] = state]
    /\ receipts' = With(receipts, current.op,
                        [req |-> current.req, rev |-> revision + 1,
                         expires |-> ExpiresAt(current.at)])
    /\ \E size \in Sizes :
          activity' = Append(activity,
                        [op |-> current.op, req |-> current.req,
                         at |-> current.at, clock |-> clock, task |-> k,
                         val |-> state.val, undoes |-> undoes, size |-> size])
    /\ stage' = "committed"
    /\ UNCHANGED <<clock, inbox, current, reply>>

\* The stored inverse of a mutation that turns the row of k into `state`: what
\* to restore, whether as it was or under the revision of the undo, and how much
\* of the post-image the undo insists on.
InverseOf(k, state, asItWas, pins) ==
    [rev |-> revision + 1, task |-> k,
     before |-> IF k \in Links THEN Stamped(1 - state.val) ELSE store[k],
     asItWas |-> asItWas, after |-> state, pins |-> pins, undoneBy |-> NoOp]

\* Adding a present link or removing an absent one is refused, and so is a write
\* to a task that is gone.  The storage names new rows itself, so an id whose row
\* was deleted is never created again.
Writable(k, v) ==
    IF k \in Links THEN store[k].val # v
    ELSE \/ Present(k)
         \/ v # 0 /\ \A i \in DOMAIN activity : activity[i].task # k

\* A first-hand mutation; mutations of Others store no inverse.  That of a
\* deleted task is its closure, whose rows come back as they were.
ApplyWrite ==
    /\ Unrecorded
    /\ current.req.kind = "write"
    /\ LET k == current.req.task
           v == current.req.val
       IN /\ Writable(k, v)
          /\ Commit(k, Stamped(v), 0)
          /\ undos' =
               IF k \in Others THEN undos
               ELSE With(undos, current.op,
                         InverseOf(k, Stamped(v), k \in Tasks /\ v = 0,
                                   IF k \in Links THEN "value" ELSE "row"))

\* validate_inverse_post_image.  An undo captures the tasks it touched but not
\* the link it restored, so undoing that undo does not look at the link.
PostImageHolds_BadValueOnly(row) ==
    row.pins # "nothing" => store[row.task].val = row.after.val
PostImageHolds(row) ==
    \/ row.pins = "row" /\ store[row.task] = row.after
    \/ row.pins = "value" /\ store[row.task].val = row.after.val
    \/ row.pins = "nothing"

\* What an inverse puts into the table: RestoreClosure inserts the row it kept,
\* the others write theirs under the revision of the undo.
Restored(row) == IF row.asItWas THEN row.before ELSE Stamped(row.before.val)

MarkUndone_BadForgotten(rows, source, op) == rows
MarkUndone(rows, source, op) == [rows EXCEPT ![source].undoneBy = op]

\* Undo restores the state before the source, as a mutation of its own that can
\* be undone in turn (redo).
ApplyUndo ==
    /\ Unrecorded
    /\ current.req.kind = "undo"
    /\ current.req.source \in DOMAIN undos
    /\ LET source == current.req.source
           row == undos[source]
           pins == IF row.task \in Links THEN "nothing" ELSE "row"
       IN /\ row.undoneBy = NoOp
          /\ PostImageHolds(row)
          /\ Commit(row.task, Restored(row), row.rev)
          /\ undos' = With(MarkUndone(undos, source, current.op), current.op,
                           InverseOf(row.task, Restored(row), FALSE, pins))

-----------------------------------------------------------------------------
(***************************************************************************)
(* After the commit: retention, the answer, and stopping anywhere.        *)
(***************************************************************************)

OverBudget ==
    \/ Cardinality(events) > RetainCount
    \/ MapThenSumSet(LAMBDA r : activity[r].size, events) > RetainBytes

Victim_BadNewest(r) == r \in events /\ \A s \in events : s <= r
Victim(r) == IsOldest(r)

\* One round of prune_retained_events.
Prune ==
    /\ stage = "committed"
    /\ OverBudget
    /\ \E r \in events : Victim(r) /\ events' = events \ {r}
    /\ UNCHANGED <<revision, clock, inbox, stage, current, store, receipts,
                   undos, activity, reply>>

\* Pruning ended, or failed, which does not matter to the mutation.
Answer ==
    /\ stage = "committed"
    /\ reply' = [op |-> current.op, req |-> current.req, at |-> current.at,
                 rev |-> receipts[current.op].rev, fresh |-> TRUE]
    /\ Finish
    /\ UNCHANGED <<revision, events, clock, inbox, store, receipts, undos,
                   activity>>

\* The process stops and restarts; committed transactions survive.
Crash ==
    /\ inbox' = {}
    /\ Finish
    /\ UNCHANGED <<revision, events, clock, store, receipts, undos, activity,
                   reply>>

Next ==
    \/ Tick
    \/ \E op \in Ops, req \in Offered : Submit(op, req)
    \/ \E cmd \in inbox : Clean(cmd)
    \/ Replay
    \/ Mismatch
    \/ Refuse
    \/ ApplyWrite
    \/ ApplyUndo
    \/ Prune
    \/ Answer
    \/ Crash

Spec == Init /\ [][Next]_vars

-----------------------------------------------------------------------------
(***************************************************************************)
(* Properties.                                                            *)
(***************************************************************************)

\* An operation takes effect a second time only after its receipt ran out (less
\* than a second early, because stored timestamps compare as text): retries,
\* duplicates overtaking each other and a crash between commit and answer never
\* apply it twice.  tx.rs mutate, read_receipt, cleanup_expired_receipts.
AtMostOncePerReceiptLife ==
    \A i, j \in DOMAIN activity :
        /\ i < j
        /\ activity[i].op = activity[j].op
        => activity[i].at + TTL <= activity[j].clock + 1

\* A successful answer names a revision at which exactly this operation, with
\* exactly this request, was committed: a reused operation id never gets the
\* response of another request.  tx.rs read_receipt.
AnswerNamesItsEffect ==
    reply # NoReply =>
        /\ reply.rev \in DOMAIN activity
        /\ activity[reply.rev].op = reply.op
        /\ activity[reply.rev].req = reply.req

\* No committed mutation is undone twice, whatever is retried, redone or
\* expires in between: `undoes` names the undone revision.  undo_ops.rs undo,
\* tx.rs mark_undone.
UndoneAtMostOnce ==
    \A i, j \in DOMAIN activity :
        activity[i].undoes = activity[j].undoes /\ activity[i].undoes # 0 => i = j

\* Commit j takes the deletion i back: the row is in the table again as it was
\* before i.
TakesBack(j, i) == activity[i].val = 0 /\ activity[j].undoes = i

\* An undo on a task commits only if nobody's work on it since the undone
\* mutation is lost: whatever was committed on that task in between are deletions
\* and the undos that took them back.  A pair of writes that puts the old value
\* back is not enough, a deletion that is undone is.  undo_ops.rs
\* validate_inverse_post_image, restore_closure.
UndoOverwritesNobody ==
    \A j \in DOMAIN activity :
        activity[j].undoes # 0 /\ activity[j].task \in Tasks =>
            LET between == {i \in activity[j].undoes + 1 .. j - 1 :
                                activity[i].task = activity[j].task}
            IN \A i \in between : \E h \in between : TakesBack(i, h) \/ TakesBack(h, i)

\* Every undo row belongs to a live receipt, and the operation that undid it
\* has one too; otherwise the foreign keys of operation_undo would make the
\* next cleanup, and with it every later mutation, fail.  tx.rs
\* cleanup_expired_receipts.
UndoRowsFollowReceipts ==
    \A op \in DOMAIN undos :
        /\ op \in DOMAIN receipts
        /\ undos[op].undoneBy \in DOMAIN receipts \union {NoOp}

\* The mutation transaction implements the abstract event log.
ImplementsEventLog == LogSpec
=============================================================================
