----------------------------- MODULE TaskGraph -----------------------------
(***************************************************************************)
(* The task graph of junban-storage and the undo of its operations: task   *)
(* rows with their parent and their recurrence lineage, comments, "blocks" *)
(* relations, and for every retained operation the inverse and the         *)
(* post-image that operation_undo keeps (task_ops.rs, detail_ops.rs,       *)
(* undo_ops.rs).  One action is one committed transaction; a refused one   *)
(* rolls back and is the action being disabled.  Receipts, replay and      *)
(* crashes are in Receipts, reminders in ReminderDelivery.                 *)
(*                                                                         *)
(* A row's content is the number of the operation that last wrote the      *)
(* fields no rule here reads (title, order, tags, ...), so that two rows   *)
(* are equal exactly when the program's full comparison finds them equal.  *)
(***************************************************************************)
EXTENDS Integers, FiniteSets, Functions, FiniteSetsExt

CONSTANTS MaxTasks, Seeded, Comments, MaxOps

ASSUME BoundsAssumption ==
    /\ MaxTasks \in Nat /\ MaxOps \in Nat
    /\ Seeded \in 0..MaxTasks

Tasks == 1..MaxTasks
None  == 0
Ops   == 0..MaxOps

Status == {"pending", "completed", "cancelled"}

TaskRow == [parent : Tasks \cup {None}, status : Status,
            source : Tasks \cup {None}, doneBy : Ops,
            rule : BOOLEAN, content : Ops, revision : Ops]

CommentRow == [task : Tasks, content : Ops, updatedAt : Ops]

VARIABLES
    task,        \* the rows of tasks, a function on the existing ids
    comment,     \* the rows of comments
    blocks,      \* task_relations of kind 'blocks': pairs <<from, to>>
    undo,        \* operation_undo: retained operation -> its undo material
    revision,    \* global_revision; operations are named by their revision
    lastId,      \* task ids are UUIDv7: a new one is above every earlier one
    usedComments,\* comment ids ever used
    before       \* (history) what the last operation started from

vars == <<task, comment, blocks, undo, revision, lastId, usedComments, before>>

----------------------------------------------------------------------------
(* Rows and references. *)

Update(f, g) == [x \in DOMAIN f \cup DOMAIN g |-> IF x \in DOMAIN g THEN g[x] ELSE f[x]]
Only(x, value) == [y \in {x} |-> value]
Without(f, S) == Restrict(f, DOMAIN f \ S)

Parent(f, t) == f[t].parent

\* A set that contains every parent of its members.
ParentClosed(f, S) == \A t \in S : Parent(f, t) \in S \cup {None}

\* The tasks below t, t included.
Descends(f, t, root) ==
    \A S \in SUBSET DOMAIN f : (t \in S /\ ParentClosed(f, S)) => root \in S
Descendants(f, root) == {t \in DOMAIN f : Descends(f, t, root)}

\* The parent exists and is not the task or one of its descendants.
RefsOk(f, t, parent) ==
    parent # None => /\ parent \in DOMAIN f \ {t}
                     /\ t \in DOMAIN f => ~Descends(f, parent, t)

\* The foreign key of the lineage and its unique index.
LineageOk(f) ==
    /\ \A t \in DOMAIN f : f[t].source \in DOMAIN f \cup {None}
    /\ \A t, u \in DOMAIN f : f[t].source = f[u].source => t = u \/ f[t].source = None

\* Deleting rows: ON DELETE SET NULL for parents and lineage ...
DeleteRows(f, D) ==
    [t \in DOMAIN f \ D |->
        [f[t] EXCEPT !.parent = IF @ \in D THEN None ELSE @,
                     !.source = IF @ \in D THEN None ELSE @]]

\* ... and ON DELETE CASCADE for comments and relations.
CommentsOf(D) == {c \in DOMAIN comment : comment[c].task \in D}
RelationsOf(D) == {r \in blocks : r[1] \in D \/ r[2] \in D}

\* "to" already reaches "from" along the relations.
CreatesCycle(from, to) ==
    \A S \in SUBSET DOMAIN task :
        (to \in S /\ \A r \in blocks : r[1] \in S => r[2] \in S) => from \in S

----------------------------------------------------------------------------
(* Undo material. *)

NoPost == [tasks |-> <<>>, absent |-> {}, comments |-> <<>>,
           absentComments |-> {}, present |-> {}, missing |-> {}]

PostTasks(rows) == [NoPost EXCEPT !.tasks = rows]

DeleteTasks(ids) == [kind |-> "delete_tasks", ids |-> ids]
RestoreTasks(rows) == [kind |-> "restore_tasks", tasks |-> rows]
RestoreClosure_BadNoComments(D) ==
    [kind |-> "restore_closure", tasks |-> Restrict(task, D),
     comments |-> <<>>, relations |-> RelationsOf(D)]
RestoreClosure(D) ==
    [kind |-> "restore_closure", tasks |-> Restrict(task, D),
     comments |-> Restrict(comment, CommentsOf(D)), relations |-> RelationsOf(D)]
ReverseCompletion(rows, generated) ==
    [kind |-> "reverse_completion", tasks |-> rows, generated |-> generated]
RestoreComment(c, rows) == [kind |-> "restore_comment", id |-> c, before |-> rows]
RestoreRelation(r, present) ==
    [kind |-> "restore_relation", relation |-> r, present |-> present]

\* What a user can tell apart: rows without their revision and lineage.
Content(f, cs, rs) ==
    [tasks |-> [t \in DOMAIN f |-> [f[t] EXCEPT !.revision = 0, !.source = None]],
     comments |-> [c \in DOMAIN cs |-> [cs[c] EXCEPT !.updatedAt = 0]],
     blocks |-> rs]

Now == revision + 1

\* A transaction commits: the next revision, the new rows, the undo row.
Commit(f, cs, rs, inverse, post, undone) ==
    /\ revision < MaxOps
    /\ LineageOk(f)
    /\ revision' = Now
    /\ task' = f
    /\ comment' = cs
    /\ blocks' = rs
    /\ undo' = Update([o \in DOMAIN undo |->
                          IF o = undone THEN [undo[o] EXCEPT !.undoneBy = Now] ELSE undo[o]],
                      Only(Now, [inverse |-> inverse, post |-> post,
                                 undoneBy |-> None, undoes |-> undone]))
    /\ before' = Content(task, comment, blocks)

Stamp(row) == [row EXCEPT !.revision = Now]
Edited(row) == [row EXCEPT !.revision = Now, !.content = Now]
MovedTo(row, parent) == [Edited(row) EXCEPT !.parent = parent]

\* An operation that rewrites existing task rows and restores them on undo.
Rewrite(rows) ==
    /\ Commit(Update(task, rows), comment, blocks,
              RestoreTasks(Restrict(task, DOMAIN rows)), PostTasks(rows), None)
    /\ UNCHANGED <<lastId, usedComments>>

----------------------------------------------------------------------------
(* Task operations. *)

CreateTask(parent, rule) ==
    LET t == lastId + 1
        row == [parent |-> parent, status |-> "pending", source |-> None,
                doneBy |-> None, rule |-> rule, content |-> Now, revision |-> Now]
    IN  /\ t \in Tasks
        /\ RefsOk(task, t, parent)
        /\ Commit(Update(task, Only(t, row)), comment, blocks,
                  DeleteTasks({t}), PostTasks(Only(t, row)), None)
        /\ lastId' = t
        /\ UNCHANGED usedComments

\* patch_task, and move_task with the order kept.
PatchTask(t, parent) ==
    /\ RefsOk(task, t, parent)
    /\ Rewrite(Only(t, MovedTo(task[t], parent)))

\* bulk move: every task to one parent, each checked before it is written.
BulkMove(R, parent) ==
    /\ \A t \in R : RefsOk(task, t, parent)
    /\ Rewrite([t \in R |-> MovedTo(task[t], parent)])

\* move_task with an order anchor renumbers the siblings it joins.
MoveAnchored(t, parent) ==
    LET siblings == {u \in DOMAIN task : task[u].parent = parent} \cup {t}
    IN  /\ RefsOk(task, t, parent)
        /\ Rewrite([u \in siblings |-> MovedTo(task[u], parent)])

\* reorder_tasks renumbers one complete sibling scope.
ReorderTasks(parent) ==
    LET siblings == {u \in DOMAIN task : task[u].parent = parent}
    IN  /\ siblings # {}
        /\ Rewrite([u \in siblings |-> Edited(task[u])])

\* complete_task and bulk complete: the roots and their pending descendants;
\* each recurring one gets its next occurrence, a new root task.
CompleteTasks(R) ==
    LET targets == {t \in UNION {Descendants(task, r) : r \in R} :
                       task[t].status = "pending"}
        recurring == {t \in targets : task[t].rule}
        done == [t \in targets |->
                    [Stamp(task[t]) EXCEPT !.status = "completed", !.doneBy = Now]]
    IN  /\ \A r \in R : task[r].status = "pending"
        /\ lastId + Cardinality(recurring) \in Tasks
        /\ \E kid \in Bijection(recurring, lastId + 1 .. lastId + Cardinality(recurring)) :
             LET born == [k \in Range(kid) |->
                    LET s == CHOOSE s \in recurring : kid[s] = k
                    IN  [parent |-> None, status |-> "pending", source |-> s,
                         doneBy |-> None, rule |-> TRUE, content |-> Now,
                         revision |-> Now]]
             IN  Commit(Update(Update(task, done), born), comment, blocks,
                        ReverseCompletion(Restrict(task, targets), Range(kid)),
                        PostTasks(Update(done, born)), None)
        /\ lastId' = lastId + Cardinality(recurring)
        /\ UNCHANGED usedComments

\* cancel_task and reopen_task.
ChangeStatus(t, from, to) ==
    /\ task[t].status \in from
    /\ Rewrite(Only(t, [Stamp(task[t]) EXCEPT !.status = to, !.doneBy = None]))

CancelTask(t) == ChangeStatus(t, {"pending"}, "cancelled")
ReopenTask(t) == ChangeStatus(t, {"completed", "cancelled"}, "pending")

\* delete_task and bulk delete: the roots with everything below them.
DeleteTask(R) ==
    LET D == UNION {Descendants(task, r) : r \in R}
    IN  /\ Commit(DeleteRows(task, D), Without(comment, CommentsOf(D)),
                  blocks \ RelationsOf(D), RestoreClosure(D),
                  [NoPost EXCEPT !.absent = D], None)
        /\ UNCHANGED <<lastId, usedComments>>

----------------------------------------------------------------------------
(* Reversing a completion: by undo, or by uncompleting its tasks. *)

\* Nothing refers to a generated occurrence.
Unreferenced_BadRowsOnly(ids) ==
    \A t \in DOMAIN task : task[t].parent \notin ids /\ task[t].source \notin ids
Unreferenced(ids) ==
    /\ \A t \in DOMAIN task : task[t].parent \notin ids /\ task[t].source \notin ids
    /\ CommentsOf(ids) = {} /\ RelationsOf(ids) = {}

\* validate_inverse_post_image: nothing the operation wrote has changed since.
PostImageHolds(o) ==
    LET post == undo[o].post
    IN  /\ post.absent \cap DOMAIN task = {}
        /\ \A t \in DOMAIN post.tasks : t \in DOMAIN task /\ task[t] = post.tasks[t]
        /\ post.absentComments \cap DOMAIN comment = {}
        /\ \A c \in DOMAIN post.comments :
               c \in DOMAIN comment /\ comment[c] = post.comments[c]
        /\ post.present \subseteq blocks
        /\ post.missing \cap blocks = {}
        /\ undo[o].inverse.kind = "reverse_completion"
               => Unreferenced(undo[o].inverse.generated)

Generated(D) == UNION {undo[d].inverse.generated : d \in D}
Sources(D)   == UNION {DOMAIN undo[d].inverse.tasks : d \in D}

\* The rows once the completions in D are reversed.
Reversed(D) ==
    Update(DeleteRows(task, Generated(D)),
           [t \in Sources(D) |->
               Stamp(undo[CHOOSE d \in D : t \in DOMAIN undo[d].inverse.tasks].inverse.tasks[t])])

CompletedImages(D) ==
    [t \in UNION {DOMAIN undo[d].post.tasks : d \in D} |->
        undo[CHOOSE d \in D : t \in DOMAIN undo[d].post.tasks].post.tasks[t]]

\* The parents the completed rows go back under.
ParentsFit(f, D) == \A t \in Sources(D) : RefsOk(f, t, f[t].parent)

CommitReversal(f, D, inverse, post, undone) ==
    /\ \A d \in D : PostImageHolds(d)
    /\ ParentsFit(f, D)
    /\ Commit(f, Without(comment, CommentsOf(Generated(D))),
              blocks \ RelationsOf(Generated(D)), inverse, post, undone)
    /\ UNCHANGED <<lastId, usedComments>>

\* The source alone is reopened; occurrences and other sources stay.
Uncompleted(t) == [Stamp(task[t]) EXCEPT !.status = "pending", !.doneBy = None]

\* uncomplete_task: exact while the completion's undo material is retained.
UncompleteTask(t) ==
    LET d == task[t].doneBy
        f == Reversed({d})
    IN  /\ task[t].status = "completed"
        /\ IF d \in DOMAIN undo
           THEN CommitReversal(f, {d}, RestoreTasks(undo[d].post.tasks),
                    [PostTasks(Restrict(f, Sources({d}))) EXCEPT !.absent = Generated({d})],
                    None)
           ELSE Rewrite(Only(t, Uncompleted(t)))

\* Bulk uncomplete: each retained completion once; of the tasks whose
\* completion has expired, the first one per completion.
BulkUncomplete(R) ==
    LET done  == {task[t].doneBy : t \in R} \ {None}
        exact == done \cap DOMAIN undo
    IN  /\ \A t \in R : task[t].status = "completed"
        /\ \E first \in [done \ exact -> R] :
             /\ \A d \in done \ exact : task[first[d]].doneBy = d
             /\ LET alone == Range(first) \cup {t \in R : task[t].doneBy = None}
                    after == [t \in alone |-> Uncompleted(t)]
                IN  CommitReversal(Update(Reversed(exact), after), exact,
                        RestoreTasks(Update(CompletedImages(exact), Restrict(task, alone))),
                        [PostTasks(after) EXCEPT !.absent = Generated(exact)], None)

----------------------------------------------------------------------------
(* Comments and relations. *)

CreateComment(c, t) ==
    LET row == [task |-> t, content |-> Now, updatedAt |-> Now]
    IN  /\ c \notin usedComments
        /\ Commit(task, Update(comment, Only(c, row)), blocks, RestoreComment(c, <<>>),
                  [NoPost EXCEPT !.comments = Only(c, row)], None)
        /\ usedComments' = usedComments \cup {c}
        /\ UNCHANGED lastId

PatchComment(c) ==
    LET row == [comment[c] EXCEPT !.content = Now, !.updatedAt = Now]
    IN  /\ Commit(task, Update(comment, Only(c, row)), blocks,
                  RestoreComment(c, Only(c, comment[c])),
                  [NoPost EXCEPT !.comments = Only(c, row)], None)
        /\ UNCHANGED <<lastId, usedComments>>

DeleteComment(c) ==
    /\ Commit(task, Without(comment, {c}), blocks, RestoreComment(c, Only(c, comment[c])),
              [NoPost EXCEPT !.absentComments = {c}], None)
    /\ UNCHANGED <<lastId, usedComments>>

AddRelation(from, to) ==
    /\ from # to
    /\ <<from, to>> \notin blocks
    /\ ~CreatesCycle(from, to)
    /\ Commit(task, comment, blocks \cup {<<from, to>>},
              RestoreRelation(<<from, to>>, FALSE),
              [NoPost EXCEPT !.present = {<<from, to>>}], None)
    /\ UNCHANGED <<lastId, usedComments>>

RemoveRelation(r) ==
    /\ Commit(task, comment, blocks \ {r}, RestoreRelation(r, TRUE),
              [NoPost EXCEPT !.missing = {r}], None)
    /\ UNCHANGED <<lastId, usedComments>>

----------------------------------------------------------------------------
(* Undo, and redo as the undo of an undo. *)

Undoable(o) == undo[o].undoneBy = None /\ PostImageHolds(o)

\* capture_redo_post, and the post-image kept when no task was affected.
Capture(o, f, cs, T, C) ==
    IF T = {} /\ undo[o].post.tasks # <<>>
    THEN undo[o].post
    ELSE [NoPost EXCEPT !.tasks = Restrict(f, T \cap DOMAIN f), !.absent = T \ DOMAIN f,
                        !.comments = Restrict(cs, C \cap DOMAIN cs),
                        !.absentComments = C \ DOMAIN cs]

CommitUndo(o, f, cs, rs, redo, T, C) ==
    /\ Undoable(o)
    /\ Commit(f, cs, rs, redo, Capture(o, f, cs, T, C), o)
    /\ UNCHANGED <<lastId, usedComments>>

\* Undo of a create, redo of a delete.
UndoByDeleting(o) ==
    LET D == undo[o].inverse.ids \cap DOMAIN task
    IN  /\ undo[o].inverse.kind = "delete_tasks"
        /\ CommitUndo(o, DeleteRows(task, D), Without(comment, CommentsOf(D)),
                      blocks \ RelationsOf(D), RestoreTasks(undo[o].post.tasks), D, {})

\* Rows go back with the revision they had, parents before children and in any
\* order otherwise; a row whose lineage is not there yet breaks its foreign key.
Depth(f, t) == Cardinality({u \in DOMAIN f : Descends(f, t, u)})

Insertable_BadParentsFirst(f) ==
    \A t \in DOMAIN f : f[t].parent \in DOMAIN task \cup {None}
Insertable(f) ==
    \A t \in DOMAIN f :
        /\ f[t].parent \in DOMAIN f \cup DOMAIN task \cup {None}
        /\ f[t].source \in DOMAIN f => Depth(f, f[t].source) <= Depth(f, t)

Reinserted(closure) == Update(task, closure)

ClosureFits(inv) ==
    /\ Insertable(inv.tasks)
    /\ DOMAIN inv.comments \cap DOMAIN comment = {}
    /\ \A r \in inv.relations : {r[1], r[2]} \subseteq DOMAIN Reinserted(inv.tasks)

UndoDeletion(o) ==
    LET inv == undo[o].inverse
        f   == Reinserted(inv.tasks)
    IN  /\ inv.kind = "restore_closure"
        /\ ClosureFits(inv)
        /\ CommitUndo(o, f, Update(comment, inv.comments), blocks \cup inv.relations,
                      DeleteTasks(DOMAIN inv.tasks), DOMAIN inv.tasks, {})

UndoCompletion(o) ==
    LET inv == undo[o].inverse
        f   == Reversed({o})
    IN  /\ inv.kind = "reverse_completion"
        /\ undo[o].undoneBy = None
        /\ CommitReversal(f, {o}, RestoreTasks(undo[o].post.tasks),
                          Capture(o, f, comment, DOMAIN inv.tasks \cup inv.generated, {}), o)

\* Each row is checked and written in turn, in the order of the ids.
RestoredUpTo(rows, t) ==
    Update(task, [u \in {u \in DOMAIN rows : u <= t} |-> Stamp(rows[u])])

RestoreAllowed_BadUnchecked(rows, t) == rows[t].source \in DOMAIN task \cup {None}
RestoreAllowed(rows, t) ==
    LET f == RestoredUpTo(rows, t)
    IN  /\ rows[t].source \in DOMAIN f \cup {None}
        /\ RefsOk(RestoredUpTo(rows, t - 1), t, rows[t].parent)

RowsFit(rows) == \A t \in DOMAIN rows : RestoreAllowed(rows, t)

UndoRewrite(o) ==
    LET rows == undo[o].inverse.tasks
        post == undo[o].post
    IN  /\ undo[o].inverse.kind = "restore_tasks"
        /\ RowsFit(rows)
        /\ CommitUndo(o, RestoredUpTo(rows, MaxTasks), comment, blocks,
                      IF post.tasks = <<>> /\ post.absent # {}
                      THEN DeleteTasks(post.absent)
                      ELSE RestoreTasks(post.tasks),
                      DOMAIN rows, {})

CommentFits(inv) ==
    IF inv.before = <<>> THEN inv.id \in DOMAIN comment
    ELSE inv.before[inv.id].task \in DOMAIN task

UndoComment(o) ==
    LET inv  == undo[o].inverse
        c    == inv.id
        post == undo[o].post
        redo == RestoreComment(c, IF c \in DOMAIN post.comments
                                  THEN Only(c, post.comments[c]) ELSE inv.before)
    IN  /\ inv.kind = "restore_comment"
        /\ CommentFits(inv)
        /\ IF inv.before = <<>>
           THEN CommitUndo(o, task, Without(comment, {c}), blocks, redo,
                           {comment[c].task}, {c})
           ELSE CommitUndo(o, task,
                    Update(comment, Only(c, [inv.before[c] EXCEPT !.updatedAt = Now])),
                    blocks, redo, {inv.before[c].task}, {c})

RelationFits(inv) ==
    inv.present => {inv.relation[1], inv.relation[2]} \subseteq DOMAIN task

UndoRelation(o) ==
    LET inv == undo[o].inverse
        r   == inv.relation
    IN  /\ inv.kind = "restore_relation"
        /\ RelationFits(inv)
        /\ CommitUndo(o, task, comment,
                      IF inv.present THEN blocks \cup {r} ELSE blocks \ {r},
                      RestoreRelation(r, ~inv.present), {r[1], r[2]}, {})

Undo(o) ==
    \/ UndoByDeleting(o)
    \/ UndoDeletion(o)
    \/ UndoCompletion(o)
    \/ UndoRewrite(o)
    \/ UndoComment(o)
    \/ UndoRelation(o)

\* The undo of o is accepted: nothing it would reverse has changed, the checks of
\* its kind pass, and so does the index of the lineage on the rows it makes.
UndoAccepted(o) ==
    LET inv == undo[o].inverse
    IN  /\ Undoable(o)
        /\ \/ /\ inv.kind = "delete_tasks"
              /\ LineageOk(DeleteRows(task, inv.ids \cap DOMAIN task))
           \/ /\ inv.kind = "restore_closure"
              /\ ClosureFits(inv) /\ LineageOk(Reinserted(inv.tasks))
           \/ /\ inv.kind = "reverse_completion"
              /\ ParentsFit(Reversed({o}), {o}) /\ LineageOk(Reversed({o}))
           \/ /\ inv.kind = "restore_tasks"
              /\ RowsFit(inv.tasks) /\ LineageOk(RestoredUpTo(inv.tasks, MaxTasks))
           \/ inv.kind = "restore_comment" /\ CommentFits(inv) /\ LineageOk(task)
           \/ inv.kind = "restore_relation" /\ RelationFits(inv) /\ LineageOk(task)

\* Receipts expire after a fixed time, the oldest first, with their undo rows;
\* modelled while MaxOps leaves room for an operation that could notice.
Expire ==
    /\ DOMAIN undo # {} /\ revision < MaxOps
    /\ undo' = Without(undo, {Min(DOMAIN undo)})
    /\ UNCHANGED <<task, comment, blocks, revision, lastId, usedComments, before>>

----------------------------------------------------------------------------
\* A profile with pending tasks, the first of them perhaps recurring, in any
\* hierarchy; their own undo material has expired.
Init ==
    /\ task \in [1..Seeded -> {row \in TaskRow :
                     /\ row.status = "pending" /\ row.source = None
                     /\ row.doneBy = 0 /\ row.content = 0 /\ row.revision = 0
                     /\ row.parent \in 0..Seeded}]
    /\ \A t \in 1..Seeded : task[t].rule => t = 1
    /\ \A t \in 1..Seeded : RefsOk(task, t, task[t].parent)
    /\ comment = <<>>
    /\ blocks = {}
    /\ undo = <<>>
    /\ revision = 0
    /\ lastId = Seeded
    /\ usedComments = {}
    /\ before = Content(task, comment, blocks)

Roots == (SUBSET DOMAIN task) \ {{}}

Next ==
    \/ \E p \in DOMAIN task \cup {None}, rule \in BOOLEAN : CreateTask(p, rule)
    \/ \E t \in DOMAIN task, p \in DOMAIN task \cup {None} : PatchTask(t, p)
    \/ \E R \in Roots, p \in DOMAIN task \cup {None} : BulkMove(R, p)
    \/ \E t \in DOMAIN task, p \in DOMAIN task \cup {None} : MoveAnchored(t, p)
    \/ \E p \in DOMAIN task \cup {None} : ReorderTasks(p)
    \/ \E R \in Roots : CompleteTasks(R)
    \/ \E t \in DOMAIN task : CancelTask(t)
    \/ \E t \in DOMAIN task : ReopenTask(t)
    \/ \E R \in Roots : DeleteTask(R)
    \/ \E t \in DOMAIN task : UncompleteTask(t)
    \/ \E R \in Roots : BulkUncomplete(R)
    \/ \E c \in Comments, t \in DOMAIN task : CreateComment(c, t)
    \/ \E c \in DOMAIN comment : PatchComment(c)
    \/ \E c \in DOMAIN comment : DeleteComment(c)
    \/ \E from, to \in DOMAIN task : AddRelation(from, to)
    \/ \E r \in blocks : RemoveRelation(r)
    \/ \E o \in DOMAIN undo : Undo(o)
    \/ Expire

Spec == Init /\ [][Next]_vars

----------------------------------------------------------------------------
(* Properties. *)

\* The tables are well typed and every reference is to an existing task: the
\* schema's foreign keys, through every cascade of a deletion and every undo.
TypeOK ==
    /\ DOMAIN task \subseteq Tasks /\ \A t \in DOMAIN task : task[t] \in TaskRow
    /\ DOMAIN comment \subseteq Comments
    /\ \A c \in DOMAIN comment : comment[c] \in CommentRow
    /\ \A c \in DOMAIN comment : comment[c].task \in DOMAIN task
    /\ \A r \in blocks : {r[1], r[2]} \subseteq DOMAIN task
    /\ LineageOk(task)
    /\ revision \in Ops /\ lastId \in 0..MaxTasks /\ usedComments \subseteq Comments
    /\ DOMAIN undo \subseteq 1..revision
    /\ \A o \in DOMAIN undo : undo[o].undoneBy \in Ops /\ undo[o].undoes \in Ops

\* Parents exist and the hierarchy has no cycle, whatever is moved, deleted,
\* restored, or restored after its neighbours moved.
HierarchyIsForest ==
    /\ \A t \in DOMAIN task : task[t].parent \in DOMAIN task \cup {None}
    /\ \A S \in (SUBSET DOMAIN task) \ {{}} : \E t \in S : task[t].parent \notin S

\* The tables are well typed, references included, and the hierarchy is a forest:
\* what the foreign keys of migration.rs and validate_task_refs keep up together.
GraphSound == TypeOK /\ HierarchyIsForest

UndoesLatest(o) ==
    /\ o = revision /\ revision' = revision + 1
    /\ o \in DOMAIN undo' /\ undo'[o].undoneBy = revision'

\* Undoing the latest operation gives back every row, comment and relation.
UndoRestores ==
    [][\A o \in DOMAIN undo :
          UndoesLatest(o) /\ undo[o].undoes = None
              => Content(task', comment', blocks') = before]_vars

OwnLineage(o) ==
    /\ undo[o].inverse.kind = "restore_closure"
    /\ \E t \in DOMAIN undo[o].inverse.tasks :
           undo[o].inverse.tasks[t].source \in DOMAIN undo[o].inverse.tasks

\* The latest operation can always be undone, unless it deleted an occurrence
\* together with its source: what undo_ops.rs checks before it applies an inverse,
\* row by row in the order of their ids, never stands in the way of a plain undo.
LatestIsUndoable ==
    \A o \in DOMAIN undo :
        (o = revision /\ revision < MaxOps /\ ~OwnLineage(o) /\ undo[o].undoes = None)
            => UndoAccepted(o)

ReversesNow(d) ==
    /\ undo[d].inverse.kind = "reverse_completion"
    /\ \A t \in DOMAIN undo[d].inverse.tasks :
           /\ t \in DOMAIN task /\ task[t].status = "completed"
           /\ t \in DOMAIN task' /\ task'[t].status = "pending"

\* Reversing a completion removes an occurrence only as it was generated:
\* nothing was written to it, put under it or related to it since.
ReversalSparesNewWork ==
    [][\A d \in DOMAIN undo :
          ReversesNow(d) =>
              \A t \in undo[d].inverse.generated \cap (DOMAIN task \ DOMAIN task') :
                  /\ task[t].revision = d
                  /\ \A u \in DOMAIN task : t \notin {task[u].parent, task[u].source}
                  /\ \A c \in DOMAIN comment : comment[c].task # t
                  /\ \A r \in blocks : t \notin {r[1], r[2]}]_vars

\* No task blocks itself through others: add_relation refuses an edge that
\* would close a cycle, but the undo of remove_relation inserts without asking.
BlocksAcyclic ==
    \A S \in (SUBSET DOMAIN task) \ {{}} : \E t \in S : \A u \in S : <<t, u>> \notin blocks

\* Undoing the undo of an operation, at once, gives back what that undo took
\* away: the inverse redo_inverse_for stores for an undo is the whole of it.
RedoRestores ==
    [][\A o \in DOMAIN undo :
          UndoesLatest(o) /\ undo[o].undoes # None
              => Content(task', comment', blocks') = before]_vars

\* A bulk uncomplete that succeeds reopens every task it was asked for, also
\* those completed by one operation whose undo row is gone.
BulkReopensAll ==
    [][\A R \in Roots :
          BulkUncomplete(R) => \A t \in R : task'[t].status # "completed"]_vars
=============================================================================
