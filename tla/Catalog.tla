------------------------------ MODULE Catalog ------------------------------
(***************************************************************************)
(* Projects, sections, tags, templates and saved filters                   *)
(* (junban-storage/src/catalog_ops.rs) composed with the planning rows of  *)
(* TimeBlocks and with the task operations that reference both: a task is  *)
(* created from a template, moved, deleted with the tasks below it and     *)
(* with their planning links, and brought back by undo (task_ops.rs,       *)
(* undo_ops.rs).  Which occurrence a completion generates, comments and    *)
(* relations of tasks are in TaskGraph, receipts in Receipts.              *)
(***************************************************************************)
EXTENDS TimeBlocks, FiniteSetsExt

CONSTANTS
    Sections, Tags, Templates, Filters, Names, TaskPatches,
    Seeds  \* the stored profiles a behaviour starts from, their undo expired

ASSUME MaxOpsAssumption == MaxOps \in Nat
ASSUME NoneAssumption == None \notin Projects /\ None \notin Tasks \cup Nat
ASSUME TaskIdsAssumption == Tasks \subseteq Int  \* in the order of their ids

VARIABLES
    section,  \* section -> its project
    tag,      \* tag -> its normalized name
    template, \* template -> its project and tags
    filter,   \* saved filter -> its name
    undo,     \* operation_undo: operation (by revision) -> undo material
    before    \* (history) the contents the last operation started from

catalogRows == <<section, tag, template, filter>>
vars == <<task, project, slot, block, revision, today, preview, event,
          section, tag, template, filter, undo, before>>

TaskRow == [project : Projects \cup {None}, section : Sections \cup {None},
            tags : SUBSET Tags, parent : Tasks \cup {None},
            source : Tasks \cup {None}, \* recurrence_source_id
            revision : 0..MaxOps]
SectionRow == Projects
TagRow == Names
FilterRow == Names
TemplateRow == [project : Projects \cup {None}, tags : SUBSET Tags]

ASSUME TaskPatchesAssumption ==
    \A patch \in TaskPatches :
        IsPatch(patch, [project |-> Projects \cup {None}, section |-> Sections \cup {None},
                        tags |-> SUBSET Tags, parent |-> Tasks \cup {None}])

\* What a user sees of the rows that undo restores: no revisions, no lineage.
Contents ==
    [task  |-> [t \in DOMAIN task |-> [task[t] EXCEPT !.revision = 0, !.source = None]],
     slot  |-> [k \in DOMAIN slot |-> [slot[k] EXCEPT !.revision = 0]],
     block |-> [b \in DOMAIN block |-> [block[b] EXCEPT !.revision = 0]]]

----------------------------------------------------------------------------
(* Reference rules. *)

SectionInProject(row) ==
    row.section # None => /\ row.section \in DOMAIN section
                          /\ section[row.section] = row.project

\* The tasks below "root", the root included: those whose parents lead to it.
Below(rows, root) ==
    DOMAIN rows \ UNION {S \in SUBSET (DOMAIN rows \ {root}) :
                           \A t \in S : rows[t].parent \in S \cup {None}}

ParentOk(rows, t, parent) ==
    parent # None => parent \in DOMAIN rows \ ({t} \cup Below(rows, t))

\* validate_task_refs of the row of t, when the tasks are "rows".
TaskRefsOk(rows, t, row) ==
    /\ ProjectOk(row.project)
    /\ SectionInProject(row)
    /\ row.tags \subseteq DOMAIN tag
    /\ ParentOk(rows, t, row.parent)

\* Following the parents from "parent" never comes back to p.
NoProjectCycle_BadSelfOnly(p, parent) == parent # p
NoProjectCycle(p, parent) ==
    /\ parent # p
    /\ \E S \in SUBSET DOMAIN project :
          /\ parent \in S \cup {None} /\ p \notin S
          /\ \A q \in S : project[q] \in S \cup {None}

\* A mutation of the catalog alone.
CatalogEvent(affected) ==
    /\ Commit(affected, {"catalog"})
    /\ UNCHANGED <<task, slot, block>>

Stamped_BadAhead(rows) == [x \in DOMAIN rows |-> [rows[x] EXCEPT !.revision = Now + 1]]
Stamped(rows) == [x \in DOMAIN rows |-> [rows[x] EXCEPT !.revision = Now]]

----------------------------------------------------------------------------
(* Projects. *)

CreateProject(p, parent) ==
    /\ p \notin DOMAIN project
    /\ ProjectOk(parent) /\ NoProjectCycle(p, parent)
    /\ project' = Put(project, p, parent)
    /\ CatalogEvent({<<"project", p>>})
    /\ UNCHANGED catalogRows

PatchProject(p, parent) ==
    /\ p \in DOMAIN project
    /\ NoProjectCycle(p, parent) /\ ProjectOk(parent)
    /\ project' = Put(project, p, parent)
    /\ CatalogEvent({<<"project", p>>})
    /\ UNCHANGED catalogRows

\* Its tasks leave it, its slots too, its children move up, its sections go.
DeleteProject(p) ==
    LET tasks == {t \in DOMAIN task : task[t].project = p}
        slots == {k \in DOMAIN slot : slot[k].project = p}
        gone  == {s \in DOMAIN section : section[s] = p}
    IN  /\ p \in DOMAIN project
        /\ Cardinality(tasks) <= MaxBulk /\ Cardinality(slots) <= MaxBulk
        /\ task' = Update(task, Stamped([t \in tasks |->
                      [task[t] EXCEPT !.project = None, !.section = None]]))
        /\ slot' = Update(slot, Stamped([k \in slots |-> [slot[k] EXCEPT !.project = None]]))
        /\ project' = [q \in DOMAIN project \ {p} |->
                          IF project[q] = p THEN project[p] ELSE project[q]]
        /\ section' = Without(section, gone)
        /\ template' = [m \in DOMAIN template |->
                          [template[m] EXCEPT !.project = IF @ = p THEN None ELSE @]]
        /\ Commit({<<"project", p>>} \cup {<<"section", s>> : s \in gone}
                    \cup TaskIds(tasks) \cup SlotIds(slots), {"tasks", "catalog"})
        /\ UNCHANGED <<block, tag, filter>>

----------------------------------------------------------------------------
(* Sections and tags. *)

CreateSection(s, p) ==
    /\ s \notin DOMAIN section
    /\ p \in DOMAIN project
    /\ section' = Put(section, s, p)
    /\ CatalogEvent({<<"section", s>>, <<"project", p>>})
    /\ UNCHANGED <<project, tag, template, filter>>

\* Name, collapsed state and order only: a section never changes its project.
PatchSection(s) ==
    /\ s \in DOMAIN section
    /\ CatalogEvent({<<"section", s>>})
    /\ UNCHANGED <<project, section, tag, template, filter>>

DeleteSection(s) ==
    LET tasks == {t \in DOMAIN task : task[t].section = s}
    IN  /\ s \in DOMAIN section
        /\ Cardinality(tasks) <= MaxBulk
        /\ task' = Update(task, Stamped([t \in tasks |-> [task[t] EXCEPT !.section = None]]))
        /\ section' = Without(section, {s})
        /\ Commit({<<"section", s>>, <<"project", section[s]>>} \cup TaskIds(tasks),
                  {"tasks", "catalog"})
        /\ UNCHANGED <<project, slot, block, tag, template, filter>>

NameFree(g, n) == \A h \in DOMAIN tag \ {g} : tag[h] # n

CreateTag(g, n) ==
    /\ g \notin DOMAIN tag
    /\ NameFree(g, n)
    /\ tag' = Put(tag, g, n)
    /\ CatalogEvent({<<"tag", g>>})
    /\ UNCHANGED <<project, section, template, filter>>

PatchTag(g, n) ==
    /\ g \in DOMAIN tag
    /\ NameFree(g, n)
    /\ tag' = Put(tag, g, n)
    /\ CatalogEvent({<<"tag", g>>})
    /\ UNCHANGED <<project, section, template, filter>>

DeleteTag(g) ==
    LET tasks == {t \in DOMAIN task : g \in task[t].tags}
    IN  /\ g \in DOMAIN tag
        /\ Cardinality(tasks) <= MaxBulk
        /\ task' = Update(task, Stamped([t \in tasks |-> [task[t] EXCEPT !.tags = @ \ {g}]]))
        /\ tag' = Without(tag, {g})
        /\ template' = [m \in DOMAIN template |-> [template[m] EXCEPT !.tags = @ \ {g}]]
        /\ Commit({<<"tag", g>>} \cup TaskIds(tasks), {"tasks", "catalog"})
        /\ UNCHANGED <<project, slot, block, section, filter>>

----------------------------------------------------------------------------
(* Templates and saved filters. *)

WriteTemplate(m, row) ==
    /\ ProjectOk(row.project) /\ row.tags \subseteq DOMAIN tag
    /\ template' = Put(template, m, row)
    /\ CatalogEvent({<<"template", m>>})
    /\ UNCHANGED <<project, section, tag, filter>>

CreateTemplate(m, row) == m \notin DOMAIN template /\ WriteTemplate(m, row)
PatchTemplate(m, patch) == m \in DOMAIN template /\ WriteTemplate(m, Patched(template[m], patch))

DeleteTemplate(m) ==
    /\ m \in DOMAIN template
    /\ template' = Without(template, {m})
    /\ CatalogEvent({<<"template", m>>})
    /\ UNCHANGED <<project, section, tag, filter>>

WriteFilter(rows, f) ==
    /\ filter' = rows
    /\ CatalogEvent({<<"filter", f>>})
    /\ UNCHANGED <<project, section, tag, template>>

CreateSavedFilter(f, n) == f \notin DOMAIN filter /\ WriteFilter(Put(filter, f, n), f)
PatchSavedFilter(f, n) == f \in DOMAIN filter /\ WriteFilter(Put(filter, f, n), f)
DeleteSavedFilter(f) == f \in DOMAIN filter /\ WriteFilter(Without(filter, {f}), f)

----------------------------------------------------------------------------
(* Tasks and their undo. *)

NoPost == [tasks |-> <<>>, absent |-> {}, slots |-> <<>>, blocks |-> <<>>]

DeleteTasks(T) == [kind |-> "delete_tasks", ids |-> T, rows |-> <<>>, links |-> NoLinks]
RestoreTasks(rows, links) ==
    [kind |-> "restore_tasks", ids |-> DOMAIN rows, rows |-> rows, links |-> links]
RestoreClosure(T) ==
    [kind |-> "restore_closure", ids |-> T, rows |-> [t \in T |-> task[t]],
     links |-> PlanningLinks(T)]

SlotState(row) == [revision |-> row.revision, tasks |-> row.tasks]
BlockState(row) == [revision |-> row.revision, task |-> row.task]

PostOf(rows, absent, planned) ==
    [tasks |-> rows, absent |-> absent,
     slots |-> [k \in DOMAIN planned.slots |-> SlotState(planned.slots[k])],
     blocks |-> [b \in DOMAIN planned.blocks |-> BlockState(planned.blocks[b])]]

\* ON DELETE SET NULL: the rows that stay lose their references to those that go.
Cleared(row, T) == [row EXCEPT !.parent = IF @ \in T THEN None ELSE @,
                               !.source = IF @ \in T THEN None ELSE @]
DeleteRows(rows, T) == [t \in DOMAIN rows \ T |-> Cleared(rows[t], T)]

NoPlanned == [slots |-> <<>>, blocks |-> <<>>]

\* A mutation of tasks and of the planning rows that link them.
CommitTasks(rows, planned, affected, resync) ==
    /\ Commit(TaskIds(affected) \cup SlotIds(DOMAIN planned.slots)
                \cup BlockIds(DOMAIN planned.blocks), resync)
    /\ task' = rows
    /\ slot' = Update(slot, planned.slots)
    /\ block' = Update(block, planned.blocks)
    /\ UNCHANGED <<project, section, tag, template, filter>>

Retain(inverse, post, undone) ==
    undo' = Put([o \in DOMAIN undo |-> IF o = undone THEN [undo[o] EXCEPT !.undone = TRUE]
                                                     ELSE undo[o]],
                Now, [inverse |-> inverse, post |-> post, undone |-> FALSE])

ApplyTemplate(m, t) ==
    LET row == [project |-> template[m].project, section |-> None,
                tags |-> template[m].tags, parent |-> None, source |-> None,
                revision |-> Now]
    IN  /\ m \in DOMAIN template /\ t \notin DOMAIN task
        /\ \A o \in DOMAIN undo : t \notin undo[o].inverse.ids
        /\ TaskRefsOk(task, t, row)
        /\ CommitTasks(Put(task, t, row), NoPlanned, {t}, {})
        /\ Retain(DeleteTasks({t}), PostOf(Only(t, row), {}, NoPlanned), None)

PatchTask(t, patch) ==
    LET row == [Patched(task[t], patch) EXCEPT !.revision = Now]
    IN  /\ t \in DOMAIN task
        /\ TaskRefsOk(task, t, row)
        /\ CommitTasks(Put(task, t, row), NoPlanned, {t}, {})
        /\ Retain(RestoreTasks(Only(t, task[t]), NoLinks),
                  PostOf(Only(t, row), {}, NoPlanned), None)

\* The task with everything below it.
DeleteTask_BadNamesRoot(t) ==
    LET T == Below(task, t)
    IN  /\ t \in DOMAIN task
        /\ CommitTasks(DeleteRows(task, T), Detached(T), {t}, {"tasks"})
        /\ Retain(RestoreClosure(T), PostOf(<<>>, T, Detached(T)), None)
DeleteTask(t) ==
    LET T == Below(task, t)
    IN  /\ t \in DOMAIN task
        /\ CommitTasks(DeleteRows(task, T), Detached(T), T, {"tasks"})
        /\ Retain(RestoreClosure(T), PostOf(<<>>, T, Detached(T)), None)

PostImageHolds_BadIgnoresPlanning(post) ==
    /\ post.absent \cap DOMAIN task = {}
    /\ \A t \in DOMAIN post.tasks : t \in DOMAIN task /\ task[t] = post.tasks[t]
PostImageHolds(post) ==
    /\ post.absent \cap DOMAIN task = {}
    /\ \A t \in DOMAIN post.tasks : t \in DOMAIN task /\ task[t] = post.tasks[t]
    /\ \A k \in DOMAIN post.slots : k \in DOMAIN slot /\ SlotState(slot[k]) = post.slots[k]
    /\ \A b \in DOMAIN post.blocks : b \in DOMAIN block /\ BlockState(block[b]) = post.blocks[b]

\* Undoing a creation, or redoing a deletion: the links go to the redo.
UndoByDeleting(o) ==
    LET T == undo[o].inverse.ids \cap DOMAIN task
    IN  /\ CommitTasks(DeleteRows(task, T), Detached(T), T, {"tasks"})
        /\ Retain(RestoreTasks(undo[o].post.tasks, PlanningLinks(T)),
                  PostOf(<<>>, T, Detached(T)), o)

\* Undoing a deletion: the rows come back as they were, with their links, parents
\* before children; an occurrence needs its source to be there already.
Depth(rows, t) == Cardinality({u \in DOMAIN rows : t \in Below(rows, u)})
Insertable(rows) ==
    \A t \in DOMAIN rows :
        /\ TaskRefsOk(Update(task, rows), t, rows[t])
        /\ rows[t].source \in DOMAIN task \cup DOMAIN rows \cup {None}
        /\ rows[t].source \in DOMAIN rows => Depth(rows, rows[t].source) <= Depth(rows, t)
UndoDeletion(o) ==
    LET i == undo[o].inverse
    IN  /\ i.ids \cap DOMAIN task = {}
        /\ Insertable(i.rows)
        /\ LinksRestorable(i.links)
        /\ CommitTasks(Update(task, i.rows), Reattached(i.links), i.ids, {"tasks"})
        /\ Retain(DeleteTasks(i.ids), PostOf(i.rows, {}, Reattached(i.links)), o)

\* Undoing an edit, or redoing a creation: stamped rows, and their links.  Each row
\* is checked and written in turn, in the order of the ids.
RestoredBefore(rows, t) ==
    Update(task, [u \in {u \in DOMAIN rows : u < t} |-> rows[u]])
RestoreRefs_BadUnchecked(rows) == TRUE
RestoreRefs(rows) ==
    \A t \in DOMAIN rows :
        LET f == RestoredBefore(rows, t)
        IN  TaskRefsOk(f, t, rows[t]) /\ rows[t].source \in DOMAIN f \cup {None}
UndoRewrite(o) ==
    LET i == undo[o].inverse
        post == undo[o].post
        rows == Stamped(i.rows)
    IN  /\ RestoreRefs(i.rows)
        /\ LinksRestorable(i.links)
        /\ CommitTasks(Update(task, rows), Reattached(i.links), i.ids,
                       IF Cardinality(i.ids) <= 1 /\ i.links = NoLinks THEN {} ELSE {"tasks"})
        /\ Retain(IF post.tasks = <<>> THEN DeleteTasks(post.absent)
                                       ELSE RestoreTasks(post.tasks, NoLinks),
                  PostOf(rows, {}, Reattached(i.links)), o)

Undo(o) ==
    /\ o \in DOMAIN undo /\ ~undo[o].undone
    /\ PostImageHolds(undo[o].post)
    /\ \/ undo[o].inverse.kind = "delete_tasks" /\ UndoByDeleting(o)
       \/ undo[o].inverse.kind = "restore_closure" /\ UndoDeletion(o)
       \/ undo[o].inverse.kind = "restore_tasks" /\ UndoRewrite(o)

----------------------------------------------------------------------------

ProjectNext ==
    \E p \in Projects :
        \/ \E parent \in DOMAIN project \cup {None} :
              CreateProject(p, parent) \/ PatchProject(p, parent)
        \/ DeleteProject(p)

LabelNext ==
    \/ \E s \in Sections : \/ \E p \in Projects : CreateSection(s, p)
                           \/ PatchSection(s) \/ DeleteSection(s)
    \/ \E g \in Tags : \/ \E n \in Names : CreateTag(g, n) \/ PatchTag(g, n)
                       \/ DeleteTag(g)

TemplateNext ==
    \/ \E m \in Templates :
        \/ \E p \in DOMAIN project \cup {None} :
              \/ CreateTemplate(m, [project |-> p, tags |-> {}])
              \/ PatchTemplate(m, [project |-> p])
        \/ \E G \in SUBSET DOMAIN tag : PatchTemplate(m, [tags |-> G])
        \/ DeleteTemplate(m)
    \/ \E f \in Filters : \/ \E n \in Names : CreateSavedFilter(f, n) \/ PatchSavedFilter(f, n)
                          \/ DeleteSavedFilter(f)

TaskNext ==
    \/ \E t \in Tasks : \/ \E m \in DOMAIN template : ApplyTemplate(m, t)
                        \/ \E patch \in TaskPatches : PatchTask(t, patch)
                        \/ DeleteTask(t)
    \/ \E o \in DOMAIN undo : Undo(o)

Next ==
    /\ \/ TimeBlockNext /\ UNCHANGED <<section, tag, template, filter, undo>>
       \/ (ProjectNext \/ LabelNext \/ TemplateNext) /\ UNCHANGED undo
       \/ TaskNext
    /\ before' = IF revision' = revision THEN before ELSE Contents

Init ==
    /\ \E seed \in Seeds :
        /\ task = seed.task /\ project = seed.project /\ section = seed.section
        /\ tag = seed.tag /\ template = seed.template
        /\ slot = seed.slot /\ block = seed.block /\ today = seed.today
    /\ filter = <<>> /\ undo = <<>> /\ preview = None
    /\ revision = 0
    /\ event = Event({}, {})
    /\ before = Contents

Spec == Init /\ [][Next]_vars

----------------------------------------------------------------------------
(* Properties. *)

IsRows(f, Ids, Row) == DOMAIN f \subseteq Ids /\ \A x \in DOMAIN f : f[x] \in Row

TypedRows(tasks, projects, sections, tags, templates, slots, blocks) ==
    /\ IsRows(tasks, Tasks, TaskRow)
    /\ IsRows(projects, Projects, ProjectRow)
    /\ IsRows(sections, Sections, SectionRow)
    /\ IsRows(tags, Tags, TagRow)
    /\ IsRows(templates, Templates, TemplateRow)
    /\ IsRows(slots, Slots, SlotRow)
    /\ \A k \in DOMAIN slots : ValidMembership(slots[k].tasks)
    /\ IsRows(blocks, Blocks, BlockRow)
    /\ \A b \in DOMAIN blocks : ValidRange(blocks[b])
TypeOK ==
    /\ TypedRows(task, project, section, tag, template, slot, block)
    /\ IsRows(filter, Filters, FilterRow)
    /\ revision \in 0..MaxOps /\ today \in Days
    /\ DOMAIN undo \subseteq 1..MaxOps

(* No reference dangles, whatever is deleted, restored or redone in         *)
(* between: tasks name existing projects, tags, parents and sources, and a  *)
(* section of their own project; slots, blocks, sections, templates and projects name        *)
(* existing rows.  The foreign keys alone would leave a section of a        *)
(* deleted project.                                                         *)
TaskReferences(tasks, projects, sections, tags) ==
    \A t \in DOMAIN tasks :
        /\ tasks[t].project \in DOMAIN projects \cup {None}
        /\ tasks[t].tags \subseteq DOMAIN tags
        /\ {tasks[t].parent, tasks[t].source} \subseteq DOMAIN tasks \cup {None}
        /\ tasks[t].section # None =>
              tasks[t].section \in DOMAIN sections /\ sections[tasks[t].section] = tasks[t].project
CatalogReferences(projects, sections, tags, templates, slots) ==
    /\ \A p \in DOMAIN projects : projects[p] \in DOMAIN projects \cup {None}
    /\ \A s \in DOMAIN sections : sections[s] \in DOMAIN projects
    /\ \A m \in DOMAIN templates : /\ templates[m].project \in DOMAIN projects \cup {None}
                                  /\ templates[m].tags \subseteq DOMAIN tags
    /\ \A k \in DOMAIN slots : slots[k].project \in DOMAIN projects \cup {None}
BlockReferences(blocks, tasks, slots) ==
    \A b \in DOMAIN blocks : /\ blocks[b].task \in DOMAIN tasks \cup {None}
                            /\ blocks[b].slot \in DOMAIN slots \cup {None}
MembershipReferences(slots, tasks) ==
    \A k \in DOMAIN slots : ToSet(slots[k].tasks) \subseteq DOMAIN tasks
ReferencesHold ==
    /\ TaskReferences(task, project, section, tag)
    /\ CatalogReferences(project, section, tag, template, slot)
    /\ BlockReferences(block, task, slot)
    /\ MembershipReferences(slot, task)

(* Rows are well typed and refer to rows: what the schema and validate_*_refs *)
(* keep up together across deletions and restorations.                       *)
WorkspaceSound == TypeOK /\ ReferencesHold

(* The projects stay a forest through creations, moves and deletions that   *)
(* hand the children to the parent: from every project the parents lead to  *)
(* a root (validate_project_parent_chain).                                  *)
Forest(parents) ==
    \A S \in SUBSET DOMAIN parents : S # {} => \E p \in S : parents[p] \notin S
ProjectsAreForest == Forest(project)

(* A behaviour starts from a profile such as its operations leave behind.   *)
ASSUME SeedsAssumption ==
    \A seed \in Seeds :
        /\ TypedRows(seed.task, seed.project, seed.section, seed.tag, seed.template,
                     seed.slot, seed.block)
        /\ TaskReferences(seed.task, seed.project, seed.section, seed.tag)
        /\ CatalogReferences(seed.project, seed.section, seed.tag, seed.template, seed.slot)
        /\ BlockReferences(seed.block, seed.task, seed.slot)
        /\ MembershipReferences(seed.slot, seed.task)
        /\ Forest(seed.project)
        /\ IsFiniteSet(DOMAIN seed.block)
        /\ seed.today \in Days

Changed(f, g) == {x \in DOMAIN f \cup DOMAIN g :
                    ~(x \in DOMAIN f /\ x \in DOMAIN g /\ f[x] = g[x])}

\* All that happened to t: a reference of it to a task that is gone was cleared.
OnlyCleared(t) ==
    /\ {t} \cap DOMAIN task \cap DOMAIN task' # {}
    /\ task'[t] = Cleared(task[t], DOMAIN task \ DOMAIN task')

(* What a mutation changes, its event announces: every task, slot and block *)
(* it wrote or deleted is named among the affected ids.  A row that is not  *)
(* named has lost a reference to a task that is named as deleted, and then  *)
(* the event has the clients reload their tasks.  Other changed rows are    *)
(* covered by the catalog resync it asks for.                               *)
(* A deletion that reaches further than its own row is where this breaks.   *)
EventCoversChanges ==
    [][revision' # revision =>
        /\ \A t \in Changed(task, task') :
              \/ <<"task", t>> \in event'.affected
              \/ OnlyCleared(t) /\ "tasks" \in event'.resync
        /\ SlotIds(Changed(slot, slot')) \subseteq event'.affected
        /\ BlockIds(Changed(block, block')) \subseteq event'.affected
        /\ (project' # project \/ section' # section \/ tag' # tag
                \/ template' # template \/ filter' # filter) =>
              "catalog" \in event'.resync]_vars

(* A surviving task, slot or block that a mutation changes carries that     *)
(* mutation's revision: undo compares revisions to see later work.  Only    *)
(* losing a reference to a task that is gone leaves the revision as it was. *)
ChangesAreStamped ==
    [][revision' # revision =>
        /\ \A t \in DOMAIN task \cap DOMAIN task' :
              task'[t] # task[t] => task'[t].revision = revision' \/ OnlyCleared(t)
        /\ \A k \in DOMAIN slot \cap DOMAIN slot' :
              slot'[k] # slot[k] => slot'[k].revision = revision'
        /\ \A b \in DOMAIN block \cap DOMAIN block' :
              block'[b] # block[b] => block'[b].revision = revision']_vars

Undone(o) == o \in DOMAIN undo /\ ~undo[o].undone /\ undo'[o].undone

(* Undoing the latest operation gives back what it changed: the tasks'      *)
(* fields and parents, their exact place in every slot and their blocks,    *)
(* also when the operation undone is itself an undo.  One thing is lost: a  *)
(* task moved below one whose creation (or return) is then undone stays     *)
(* without a parent when that undo is undone.                               *)
CutOff(rows, T) == [t \in DOMAIN rows |->
                      IF t \in DOMAIN task THEN Cleared(rows[t], T) ELSE rows[t]]
GivenBack(o) ==
    IF undo[o].inverse.kind = "restore_closure" THEN before
    ELSE [before EXCEPT !.task = CutOff(@, undo[o].post.absent)]
UndoGivesBack ==
    [][\A o \in DOMAIN undo : Undone(o) /\ o = revision => Contents' = GivenBack(o)]_vars

(* An undo that restores rows never writes over later work: each task, slot *)
(* or block it rewrites was last written by the operation it undoes.  Only  *)
(* undoing a creation may take a task out of a slot filled since.           *)
RestoringSparesLaterWork ==
    [][\A o \in DOMAIN undo :
        Undone(o) /\ undo[o].inverse.kind # "delete_tasks" =>
            /\ \A t \in DOMAIN task : task'[t] # task[t] => task[t].revision = o
            /\ \A k \in DOMAIN slot : slot'[k] # slot[k] => slot[k].revision = o
            /\ \A b \in DOMAIN block : block'[b] # block[b] => block[b].revision = o]_vars

(* Replanning touches nothing the client did not see: the blocks it moves   *)
(* or deletes are those of the preview, none of them locked, all from the   *)
(* days before the date of the preview, which is still today.               *)
ReplanIsWhatWasPreviewed ==
    [][(ReplanDelete \/ \E target \in {today, today + 1} : ReplanMove(target)) =>
        /\ Changed(block, block') = ToSet(preview.ids)
        /\ preview.asOf = today
        /\ \A b \in ToSet(preview.ids) :
              ~block[b].locked /\ block[b].date < today /\ block[b].date >= today - Lookback]_vars
=============================================================================
