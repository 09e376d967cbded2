----------------------------- MODULE TimeBlocks -----------------------------
(***************************************************************************)
(* Time blocks and time slots of junban-storage (timeblock_ops.rs) with    *)
(* the domain rules they call (junban-domain/src/timeblock.rs): calendar   *)
(* blocks that may link a task and a slot, slots with an ordered list of   *)
(* tasks, and the replanning of past blocks from a previewed list.  The    *)
(* links of a task are taken off before its row is deleted and put back    *)
(* when the deletion is undone: Catalog composes these operators with the  *)
(* operations on tasks and on the catalog.                                 *)
(*                                                                         *)
(* One action is one committed transaction; a refused one rolls back and   *)
(* is the action being disabled.  A row is a record of the fields a rule   *)
(* here reads and of the revision that last wrote it; a slot's own range   *)
(* is validated like a block's and read by no rule, and is left out.       *)
(***************************************************************************)
EXTENDS Integers, FiniteSets, SequencesExt

CONSTANTS
    Blocks, Slots, Tasks, Projects,
    Days,          \* civil dates
    Hours,         \* times of day
    Lookback,      \* REPLAN_LOOKBACK_DAYS
    MaxMembership, \* MAX_SLOT_MEMBERSHIP
    MaxBulk,       \* MAX_BULK_IDS
    MaxOps,        \* bound: committed operations of a behaviour
    BlockPatches, SlotPatches, \* the patches requests carry: partial records
    None

VARIABLES
    task, project, \* rows of tasks and projects (see Catalog)
    slot, block,   \* rows of time_slots (with time_slot_tasks), time_blocks
    revision,      \* global_revision
    today,         \* the civil date the service samples
    preview,       \* the replan preview a client holds, or None
    event          \* (history) what the last mutation published

planning == <<task, project, slot, block, revision, today, preview, event>>

ProjectRow == Projects \cup {None}

SlotRow == [project : Projects \cup {None}, tasks : Seq(Tasks), revision : 0..MaxOps]

BlockRow == [task : Tasks \cup {None}, slot : Slots \cup {None}, date : Days,
             start : Hours, end : Hours, locked : BOOLEAN, revision : 0..MaxOps]

\* A patch sets fields of its row, each to a value that the field can hold.
IsPatch(patch, fields) == \A f \in DOMAIN patch : f \in DOMAIN fields /\ patch[f] \in fields[f]

ASSUME BlockPatchesAssumption ==
    \A patch \in BlockPatches :
        IsPatch(patch, [task |-> Tasks \cup {None}, slot |-> Slots \cup {None}, date |-> Days,
                        start |-> Hours, end |-> Hours, locked |-> BOOLEAN])
ASSUME SlotPatchesAssumption ==
    \A patch \in SlotPatches : IsPatch(patch, [project |-> Projects \cup {None}])
ASSUME MembershipAssumption == MaxMembership \in Nat
ASSUME CalendarAssumption ==
    /\ Days \subseteq Int /\ Lookback \in Nat
    /\ Hours \subseteq Int /\ {1, 2} \subseteq Hours  \* a new block is from 1 to 2
ASSUME IdsAssumption == Blocks \subseteq Int  \* in the order of their ids

----------------------------------------------------------------------------
(* Domain rules. *)

Now == revision + 1
Update(f, g) == [x \in DOMAIN f \cup DOMAIN g |-> IF x \in DOMAIN g THEN g[x] ELSE f[x]]
Only(x, value) == [y \in {x} |-> value]
Put(f, x, value) == Update(f, Only(x, value))
Patched(row, patch) == Update(row, patch)
Without(f, S) == [x \in DOMAIN f \ S |-> f[x]]

ValidRange(range) == range.end > range.start

Unique(ids) == \A i, j \in DOMAIN ids : ids[i] = ids[j] => i = j
ValidMembership(ids) == Len(ids) <= MaxMembership /\ Unique(ids)

Appended(ids, t) == IF Contains(ids, t) THEN ids ELSE Append(ids, t)

\* The entries that belong to S, in their order.
Selected(seq, S) ==
    LET f[n \in 0..Len(seq)] ==
            IF n = 0 THEN <<>>
            ELSE IF seq[n] \in S THEN Append(f[n - 1], seq[n]) ELSE f[n - 1]
    IN  f[Len(seq)]

IsPermutation(ids, of) == Len(ids) = Len(of) /\ ToSet(ids) = ToSet(of) /\ Unique(ids)

ReplanWindow(day) == (day - Lookback)..(day - 1)

----------------------------------------------------------------------------
(* Rows. *)

BlockRefsOk(row) ==
    /\ row.task # None => row.task \in DOMAIN task
    /\ row.slot # None => row.slot \in DOMAIN slot

ProjectOk(p) == p # None => p \in DOMAIN project

\* What a mutation publishes: the ids it touched and what clients reload.
Event(affected, resync) == [affected |-> affected, resync |-> resync]
TaskIds(S)    == {<<"task", t>> : t \in S}
SlotIds(S)    == {<<"slot", k>> : k \in S}
BlockIds(S)   == {<<"block", b>> : b \in S}

Commit(affected, resync) ==
    /\ revision < MaxOps
    /\ revision' = Now
    /\ event' = Event(affected, resync)
    /\ UNCHANGED <<today, preview>>

WriteBlocks(rows) ==
    /\ block' = Update(block, [b \in DOMAIN rows |-> [rows[b] EXCEPT !.revision = Now]])
    /\ Commit(BlockIds(DOMAIN rows), {})
    /\ UNCHANGED <<task, project, slot>>

WriteSlot(k, row) ==
    /\ slot' = Put(slot, k, [row EXCEPT !.revision = Now])
    /\ Commit(SlotIds({k}), {})
    /\ UNCHANGED <<task, project, block>>

----------------------------------------------------------------------------
(* Blocks. *)

CreateTimeBlock(b, row) ==
    /\ b \notin DOMAIN block
    /\ ValidRange(row) /\ BlockRefsOk(row)
    /\ WriteBlocks(Only(b, row))

PatchTimeBlock(b, patch) ==
    /\ b \in DOMAIN block
    /\ ValidRange(Patched(block[b], patch)) /\ BlockRefsOk(Patched(block[b], patch))
    /\ WriteBlocks(Only(b, Patched(block[b], patch)))

SetTimeBlockRange(b, patch) ==
    /\ b \in DOMAIN block
    /\ DOMAIN patch \subseteq {"date", "start", "end"}
    /\ ValidRange(Patched(block[b], patch))
    /\ WriteBlocks(Only(b, Patched(block[b], patch)))

DeleteTimeBlock(b) ==
    /\ b \in DOMAIN block
    /\ block' = Without(block, {b})
    /\ Commit(BlockIds({b}), {})
    /\ UNCHANGED <<task, project, slot>>

----------------------------------------------------------------------------
(* Slots and their ordered membership. *)

CreateTimeSlot(k, p) ==
    /\ k \notin DOMAIN slot
    /\ ProjectOk(p)
    /\ WriteSlot(k, [project |-> p, tasks |-> <<>>, revision |-> Now])

PatchTimeSlot(k, patch) ==
    /\ k \in DOMAIN slot
    /\ ProjectOk(Patched(slot[k], patch).project)
    /\ WriteSlot(k, Patched(slot[k], patch))

\* The blocks of the slot are unlinked and stamped; its membership goes with it.
DeleteTimeSlot_BadSilent(k) ==
    /\ k \in DOMAIN slot
    /\ slot' = Without(slot, {k})
    /\ block' = [b \in DOMAIN block |->
                    IF block[b].slot = k THEN [block[b] EXCEPT !.slot = None]
                                         ELSE block[b]]
    /\ Commit(SlotIds({k}), {})
    /\ UNCHANGED <<task, project>>
DeleteTimeSlot(k) ==
    LET linked == {b \in DOMAIN block : block[b].slot = k}
    IN  /\ k \in DOMAIN slot
        /\ Cardinality(linked) <= MaxBulk
        /\ slot' = Without(slot, {k})
        /\ block' = [b \in DOMAIN block |->
                        IF b \in linked
                        THEN [block[b] EXCEPT !.slot = None, !.revision = Now]
                        ELSE block[b]]
        /\ Commit(SlotIds({k}) \cup BlockIds(linked), {})
        /\ UNCHANGED <<task, project>>

AppendSlotTask(k, t) ==
    /\ k \in DOMAIN slot /\ t \in DOMAIN task
    /\ Len(Appended(slot[k].tasks, t)) <= MaxMembership
    /\ WriteSlot(k, [slot[k] EXCEPT !.tasks = Appended(@, t)])

RemoveSlotTask(k, t) ==
    /\ k \in DOMAIN slot
    /\ WriteSlot(k, [slot[k] EXCEPT !.tasks = Selected(@, Tasks \ {t})])

ReorderSlotTasks(k, ids) ==
    /\ k \in DOMAIN slot
    /\ IsPermutation(ids, slot[k].tasks)
    /\ WriteSlot(k, [slot[k] EXCEPT !.tasks = ids])

----------------------------------------------------------------------------
(* Replanning: a client previews the past unlocked blocks, then asks for   *)
(* exactly those to be moved or deleted.  Only the same day and the same   *)
(* list are accepted.                                                      *)

\* Earlier date, then earlier start, then smaller id.
Before(b, c) ==
    \/ block[b].date < block[c].date
    \/ block[b].date = block[c].date /\ block[b].start < block[c].start
    \/ block[b].date = block[c].date /\ block[b].start = block[c].start /\ b < c

Eligible(day) ==
    {b \in DOMAIN block : ~block[b].locked /\ block[b].date \in ReplanWindow(day)}
Rank(b, S) == Cardinality({c \in S : Before(c, b)}) + 1
InOrder(S) == [n \in 1..Cardinality(S) |-> CHOOSE b \in S : Rank(b, S) = n]
EligibleIds(day) == InOrder(Eligible(day))

PreviewReplan ==
    /\ Len(EligibleIds(today)) <= MaxBulk
    /\ preview' = [asOf |-> today, ids |-> EligibleIds(today)]
    /\ UNCHANGED <<task, project, slot, block, revision, today, event>>

ReplanAccepts_BadStaleDay(p) == ToSet(p.ids) \subseteq DOMAIN block
ReplanAccepts(p) ==
    /\ Len(p.ids) <= MaxBulk
    /\ p.asOf = today
    /\ p.ids = EligibleIds(today)

ReplanDelete ==
    /\ preview # None /\ ReplanAccepts(preview)
    /\ block' = Without(block, Eligible(today))
    /\ Commit(BlockIds(Eligible(today)), {})
    /\ UNCHANGED <<task, project, slot>>

ReplanMove(target) ==
    /\ preview # None /\ ReplanAccepts(preview)
    /\ target \in Days \cap {today, today + 1}
    /\ WriteBlocks([b \in Eligible(today) |-> [block[b] EXCEPT !.date = target]])

NextDay ==
    /\ today + 1 \in Days
    /\ today' = today + 1
    /\ UNCHANGED <<task, project, slot, block, revision, preview, event>>

----------------------------------------------------------------------------
(* The planning links of tasks that are deleted and restored. *)

\* Where each task of T stands in each slot, and the blocks that link one.
Placed(ids) == [i \in DOMAIN ids |-> [position |-> i, task |-> ids[i]]]
Memberships(T) ==
    [k \in {k \in DOMAIN slot : ToSet(slot[k].tasks) \cap T # {}} |->
        Selected(Placed(slot[k].tasks), [position : Nat, task : T])]
BlockLinks(T) ==
    [b \in {b \in DOMAIN block : block[b].task \in T} |-> block[b].task]
PlanningLinks(T) == [memberships |-> Memberships(T), blocks |-> BlockLinks(T)]
NoLinks == [memberships |-> <<>>, blocks |-> <<>>]

Detached(T) ==
    [slots |-> [k \in DOMAIN Memberships(T) |->
                  [slot[k] EXCEPT !.tasks = Selected(@, Tasks \ T),
                                  !.revision = Now]],
     blocks |-> [b \in DOMAIN BlockLinks(T) |->
                  [block[b] EXCEPT !.task = None, !.revision = Now]]]

\* Each task goes back to the position it was taken from, lowest first.
Reinsert_BadAtEnd(ids, ms) == ids \o [i \in DOMAIN ms |-> ms[i].task]
Reinsert(ids, ms) ==
    LET f[n \in 0..Len(ms)] ==
            IF n = 0 THEN ids ELSE InsertAt(f[n - 1], ms[n].position, ms[n].task)
    IN  f[Len(ms)]

LinksRestorable(links) ==
    /\ \A b \in DOMAIN links.blocks : b \in DOMAIN block /\ block[b].task = None
    /\ \A k \in DOMAIN links.memberships :
        LET ms == links.memberships[k]
        IN  /\ k \in DOMAIN slot
            /\ \A i \in DOMAIN ms :
                  /\ ~Contains(slot[k].tasks, ms[i].task)
                  /\ ms[i].position <= Len(slot[k].tasks) + i
            /\ ValidMembership(Reinsert(slot[k].tasks, ms))

Reattached(links) ==
    [slots |-> [k \in DOMAIN links.memberships |->
                  [slot[k] EXCEPT !.tasks = Reinsert(@, links.memberships[k]),
                                  !.revision = Now]],
     blocks |-> [b \in DOMAIN links.blocks |->
                  [block[b] EXCEPT !.task = links.blocks[b], !.revision = Now]]]

----------------------------------------------------------------------------

NewBlock == [task |-> None, slot |-> None, date |-> today, start |-> 1, end |-> 2,
             locked |-> FALSE, revision |-> Now]

TimeBlockNext ==
    \/ \E b \in Blocks :
        \/ \E t \in DOMAIN task \cup {None}, k \in DOMAIN slot \cup {None} :
              CreateTimeBlock(b, [NewBlock EXCEPT !.task = t, !.slot = k])
        \/ \E patch \in BlockPatches : PatchTimeBlock(b, patch) \/ SetTimeBlockRange(b, patch)
        \/ DeleteTimeBlock(b)
    \/ \E k \in Slots :
        \/ \E p \in DOMAIN project \cup {None} : CreateTimeSlot(k, p)
        \/ \E patch \in SlotPatches : PatchTimeSlot(k, patch)
        \/ DeleteTimeSlot(k)
        \/ \E t \in Tasks : AppendSlotTask(k, t) \/ RemoveSlotTask(k, t)
        \/ \E ids \in SetToSeqs(ToSet(IF k \in DOMAIN slot THEN slot[k].tasks ELSE <<>>)) :
              ReorderSlotTasks(k, ids)
    \/ PreviewReplan
    \/ ReplanDelete
    \/ \E target \in {today, today + 1} : ReplanMove(target)
    \/ NextDay
=============================================================================
