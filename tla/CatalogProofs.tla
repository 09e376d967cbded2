---------------------------- MODULE CatalogProofs ----------------------------
(***************************************************************************)
(* Proofs about Catalog (with TimeBlocks), for any number of rows, patches *)
(* and operations.                                                         *)
(***************************************************************************)
EXTENDS Catalog, TLAPS, WellFoundedInduction, FiniteSetTheorems

\* What the profile that a behaviour starts from brings along.
LEMMA InitSound ==
    Init => /\ TypedRows(task, project, section, tag, template, slot, block)
            /\ TaskReferences(task, project, section, tag)
            /\ CatalogReferences(project, section, tag, template, slot)
            /\ BlockReferences(block, task, slot)
            /\ MembershipReferences(slot, task)
            /\ Forest(project) /\ today \in Days
  BY SeedsAssumption DEF Init

-----------------------------------------------------------------------------
(***************************************************************************)
(* Projects.                                                               *)
(***************************************************************************)

\* The projects are a forest whose parents exist.
ProjectTree ==
    /\ DOMAIN project \subseteq Projects
    /\ \A p \in DOMAIN project : project[p] \in DOMAIN project \union {None}
    /\ Forest(project)

LEMMA CreateKeepsTree ==
    ASSUME ProjectTree, NEW p \in Projects, NEW parent, CreateProject(p, parent)
    PROVE  ProjectTree'
  <1>1. /\ p \notin DOMAIN project /\ parent # p
        /\ parent \in DOMAIN project \union {None}
        /\ DOMAIN project' = DOMAIN project \union {p}
        /\ project'[p] = parent
        /\ \A q \in DOMAIN project : project'[q] = project[q]
    BY DEF CreateProject, ProjectOk, NoProjectCycle, Put, Update, Only
  <1>2. ASSUME NEW S \in SUBSET DOMAIN project', S # {}
        PROVE  \E q \in S : project'[q] \notin S
    <2>1. CASE S = {p}
      BY <1>1, <2>1
    <2>2. CASE S # {p}
      <3>1. S \ {p} # {} /\ S \ {p} \subseteq DOMAIN project
        BY <1>1, <1>2, <2>2
      <3>2. PICK q \in S \ {p} : project[q] \notin S \ {p}
        BY <3>1 DEF ProjectTree, Forest
      <3>3. project[q] # p
        BY <1>1, <3>1, <3>2, NoneAssumption DEF ProjectTree
      <3>. QED
        BY <1>1, <3>1, <3>2, <3>3
    <2>. QED
      BY <2>1, <2>2
  <1>. QED
    BY <1>1, <1>2 DEF ProjectTree, Forest

\* The chain from the new parent, which the check has followed, avoids p.
LEMMA PatchKeepsTree ==
    ASSUME ProjectTree, NEW p \in Projects, NEW parent, PatchProject(p, parent)
    PROVE  ProjectTree'
  <1>1. /\ p \in DOMAIN project /\ parent # p
        /\ parent \in DOMAIN project \union {None}
        /\ DOMAIN project' = DOMAIN project
        /\ project'[p] = parent
        /\ \A q \in DOMAIN project : q # p => project'[q] = project[q]
    BY DEF PatchProject, ProjectOk, NoProjectCycle, Put, Update, Only
  <1>2. PICK chain \in SUBSET DOMAIN project :
            /\ parent \in chain \union {None} /\ p \notin chain
            /\ \A q \in chain : project[q] \in chain \union {None}
    BY DEF PatchProject, NoProjectCycle
  <1>3. None \notin DOMAIN project
    BY NoneAssumption DEF ProjectTree
  <1>4. ASSUME NEW S \in SUBSET DOMAIN project', S # {}
        PROVE  \E q \in S : project'[q] \notin S
    <2>1. CASE p \notin S
      BY <1>1, <1>4, <2>1 DEF ProjectTree, Forest
    <2>2. CASE p \in S /\ S \intersect chain = {}
      BY <1>1, <1>2, <1>3, <2>2
    <2>3. CASE S \intersect chain # {}
      <3>1. PICK q \in S \intersect chain : project[q] \notin S \intersect chain
        BY <1>1, <2>3 DEF ProjectTree, Forest
      <3>2. project[q] \notin S /\ project'[q] = project[q]
        BY <1>1, <1>2, <1>3, <3>1
      <3>. QED
        BY <3>2
    <2>. QED
      BY <2>1, <2>2, <2>3
  <1>. QED
    BY <1>1, <1>4 DEF ProjectTree, Forest

\* The children of p go to its parent, so a path through p loses only p.
LEMMA DeleteKeepsTree ==
    ASSUME ProjectTree, NEW p \in Projects, DeleteProject(p)
    PROVE  ProjectTree'
  <1>1. /\ p \in DOMAIN project
        /\ DOMAIN project' = DOMAIN project \ {p}
        /\ \A q \in DOMAIN project \ {p} :
              project'[q] = IF project[q] = p THEN project[p] ELSE project[q]
    BY DEF DeleteProject
  <1>2. project[p] # p
    BY <1>1 DEF ProjectTree, Forest
  <1>3. ASSUME NEW S \in SUBSET DOMAIN project', S # {}
        PROVE  \E q \in S : project'[q] \notin S
    <2>1. PICK q \in S : project[q] \notin S
      BY <1>1, <1>3 DEF ProjectTree, Forest
    <2>2. CASE project[q] # p
      BY <1>1, <2>1, <2>2
    <2>3. CASE project[q] = p
      <3>1. PICK r \in S \union {p} : project[r] \notin S \union {p}
        BY <1>1 DEF ProjectTree, Forest
      <3>2. CASE r = p
        BY <1>1, <2>3, <3>1, <3>2
      <3>3. CASE r # p
        BY <1>1, <3>1, <3>3
      <3>. QED
        BY <3>2, <3>3
    <2>. QED
      BY <2>2, <2>3
  <1>. QED
    BY <1>1, <1>2, <1>3 DEF ProjectTree, Forest

LEMMA TreeStep == ProjectTree /\ [Next]_vars => ProjectTree'
  <1> SUFFICES ASSUME ProjectTree, [Next]_vars PROVE ProjectTree'
    OBVIOUS
  <1>1. CASE ProjectNext
    BY <1>1, CreateKeepsTree, PatchKeepsTree, DeleteKeepsTree DEF ProjectNext
  <1>2. CASE UNCHANGED project
    BY <1>2 DEF ProjectTree, Forest
  <1>3. TimeBlockNext => UNCHANGED project
    BY DEF TimeBlockNext, CreateTimeBlock, PatchTimeBlock, SetTimeBlockRange, DeleteTimeBlock,
           CreateTimeSlot, PatchTimeSlot, DeleteTimeSlot, AppendSlotTask, RemoveSlotTask,
           ReorderSlotTasks, PreviewReplan, ReplanDelete, ReplanMove, NextDay, WriteBlocks,
           WriteSlot
  <1>4. LabelNext => UNCHANGED project
    BY DEF LabelNext, CreateSection, PatchSection, DeleteSection, CreateTag, PatchTag, DeleteTag
  <1>5. TemplateNext => UNCHANGED project
    BY DEF TemplateNext, CreateTemplate, PatchTemplate, DeleteTemplate, WriteTemplate,
           CreateSavedFilter, PatchSavedFilter, DeleteSavedFilter, WriteFilter
  <1>6. TaskNext => UNCHANGED project
    BY DEF TaskNext, ApplyTemplate, PatchTask, DeleteTask, Undo, UndoByDeleting, UndoDeletion,
           UndoRewrite, CommitTasks
  <1>. QED
    BY <1>1, <1>2, <1>3, <1>4, <1>5, <1>6 DEF Next, vars

\* From every project the parents lead to a root, whatever is moved or deleted.
THEOREM ProjectsStayForest == Spec => []ProjectsAreForest
  <1>1. Init => ProjectTree
    BY InitSound DEF ProjectTree, TypedRows, IsRows, CatalogReferences
  <1>2. ProjectTree => ProjectsAreForest
    BY DEF ProjectTree, ProjectsAreForest
  <1>. QED
    BY <1>1, <1>2, TreeStep, PTL DEF Spec

-----------------------------------------------------------------------------
(***************************************************************************)
(* Undo entries.                                                           *)
(***************************************************************************)

HasFields(rows, fields) == \A x \in DOMAIN rows : fields \subseteq DOMAIN rows[x]
TaskFields == {"project", "section", "tags", "parent", "source", "revision"}
SlotFields == {"project", "tasks", "revision"}
BlockFields == {"task", "slot", "date", "start", "end", "locked", "revision"}

\* What an undo entry would do: it writes the tasks it names, it puts no block
\* on any other, and its links are those of the planning rows it is checked by.
InverseSound(i, post) ==
    /\ i.ids # {}
    /\ i.kind \in {"restore_closure", "restore_tasks"} => DOMAIN i.rows = i.ids
    /\ HasFields(i.rows, TaskFields)
    /\ \A b \in DOMAIN i.links.blocks : i.links.blocks[b] \in i.ids
    /\ i.kind # "delete_tasks" =>
          /\ DOMAIN i.links.memberships \subseteq DOMAIN post.slots
          /\ DOMAIN i.links.blocks \subseteq DOMAIN post.blocks

\* What an operation left behind, to be found again by its undo.
PostSound(i, post, o) ==
    /\ HasFields(post.tasks, TaskFields)
    /\ i.kind = "delete_tasks" => DOMAIN post.tasks = i.ids
    /\ i.kind = "restore_tasks" =>
          IF post.tasks = <<>> THEN post.absent = i.ids
          ELSE /\ i.links = NoLinks
               /\ DOMAIN post.tasks = i.ids
               /\ \A t \in DOMAIN post.tasks : post.tasks[t].revision = o
    /\ \A k \in DOMAIN post.slots : post.slots[k].revision = o
    /\ \A b \in DOMAIN post.blocks : post.blocks[b].revision = o

UndoSound ==
    /\ revision \in Nat
    /\ \A o \in DOMAIN undo :
          /\ o \in 1..revision
          /\ InverseSound(undo[o].inverse, undo[o].post)
          /\ PostSound(undo[o].inverse, undo[o].post, o)

\* Every row has the fields its table has, whatever wrote it.
Fielded ==
    /\ HasFields(task, TaskFields)
    /\ HasFields(slot, SlotFields)
    /\ HasFields(block, BlockFields)
    /\ HasFields(template, {"project", "tags"})

LEMMA FieldedTasks ==
    ASSUME Fielded, NEW rows, NEW planned, NEW affected, NEW resync,
           CommitTasks(rows, planned, affected, resync),
           HasFields(rows, TaskFields), HasFields(planned.slots, SlotFields),
           HasFields(planned.blocks, BlockFields)
    PROVE  Fielded'
  BY DEF Fielded, HasFields, CommitTasks, Update

LEMMA DetachedFields ==
    ASSUME Fielded, NEW T
    PROVE  /\ HasFields(Detached(T).slots, SlotFields)
           /\ HasFields(Detached(T).blocks, BlockFields)
  BY DEF Fielded, HasFields, Detached, Memberships, BlockLinks

LEMMA ReattachedFields ==
    ASSUME Fielded, NEW links, LinksRestorable(links)
    PROVE  /\ HasFields(Reattached(links).slots, SlotFields)
           /\ HasFields(Reattached(links).blocks, BlockFields)
  BY DEF Fielded, HasFields, Reattached, LinksRestorable

LEMMA WritesFielded ==
    ASSUME Fielded
    PROVE  /\ \A rows : HasFields(rows, TaskFields) => HasFields(Update(task, rows), TaskFields)
           /\ \A T : HasFields(DeleteRows(task, T), TaskFields)
           /\ \A t, row : TaskFields \subseteq DOMAIN row =>
                             HasFields(Put(task, t, row), TaskFields)
           /\ HasFields(NoPlanned.slots, SlotFields)
           /\ HasFields(NoPlanned.blocks, BlockFields)
  BY DEF Fielded, HasFields, Update, DeleteRows, Cleared, Put, Only, NoPlanned

LEMMA TaskFielded ==
    ASSUME Fielded, UndoSound, TaskNext
    PROVE  Fielded'
  <1>1. ASSUME NEW t \in Tasks, NEW m \in DOMAIN template, ApplyTemplate(m, t) PROVE Fielded'
    <2>1. PICK row : /\ TaskFields \subseteq DOMAIN row
                     /\ CommitTasks(Put(task, t, row), NoPlanned, {t}, {})
      BY <1>1 DEF ApplyTemplate, TaskFields
    <2>. QED
      BY <2>1, WritesFielded, FieldedTasks
  <1>2. ASSUME NEW t \in Tasks, NEW patch \in TaskPatches, PatchTask(t, patch) PROVE Fielded'
    <2>1. PICK row : /\ TaskFields \subseteq DOMAIN row
                     /\ CommitTasks(Put(task, t, row), NoPlanned, {t}, {})
      BY <1>2 DEF PatchTask, Patched, Update, Fielded, HasFields
    <2>. QED
      BY <2>1, WritesFielded, FieldedTasks
  <1>3. ASSUME NEW t \in Tasks, DeleteTask(t) PROVE Fielded'
    BY <1>3, WritesFielded, DetachedFields, FieldedTasks DEF DeleteTask
  <1>4. ASSUME NEW o \in DOMAIN undo, Undo(o) PROVE Fielded'
    <2>1. HasFields(undo[o].inverse.rows, TaskFields)
      BY DEF UndoSound, InverseSound
    <2>2. HasFields(Stamped(undo[o].inverse.rows), TaskFields)
      BY <2>1 DEF Stamped, HasFields
    <2>3. CASE UndoByDeleting(o)
      BY <2>3, WritesFielded, DetachedFields, FieldedTasks DEF UndoByDeleting
    <2>4. CASE UndoDeletion(o)
      BY <2>1, <2>4, WritesFielded, ReattachedFields, FieldedTasks DEF UndoDeletion
    <2>5. CASE UndoRewrite(o)
      BY <2>2, <2>5, WritesFielded, ReattachedFields, FieldedTasks DEF UndoRewrite
    <2>. QED
      BY <1>4, <2>3, <2>4, <2>5 DEF Undo
  <1>. QED
    BY <1>1, <1>2, <1>3, <1>4 DEF TaskNext

LEMMA BlockWriteFielded ==
    ASSUME Fielded, NEW rows, WriteBlocks(rows), HasFields(rows, BlockFields), UNCHANGED template
    PROVE  Fielded'
  BY DEF Fielded, HasFields, WriteBlocks, Update

LEMMA SlotWriteFielded ==
    ASSUME Fielded, NEW k, NEW row, WriteSlot(k, row), SlotFields \subseteq DOMAIN row,
           UNCHANGED template
    PROVE  Fielded'
  BY DEF Fielded, HasFields, WriteSlot, Put, Update, Only

LEMMA TimeBlockFielded ==
    ASSUME Fielded, TimeBlockNext, UNCHANGED template
    PROVE  Fielded'
  <1>1. ASSUME NEW b \in Blocks, NEW t, NEW k,
               CreateTimeBlock(b, [NewBlock EXCEPT !.task = t, !.slot = k])
        PROVE  Fielded'
    <2>1. HasFields(Only(b, [NewBlock EXCEPT !.task = t, !.slot = k]), BlockFields)
      BY DEF HasFields, Only, NewBlock, BlockFields
    <2>. QED
      BY <1>1, <2>1, BlockWriteFielded DEF CreateTimeBlock
  <1>2. ASSUME NEW b \in Blocks, NEW patch, PatchTimeBlock(b, patch) \/ SetTimeBlockRange(b, patch)
        PROVE  Fielded'
    <2>1. HasFields(Only(b, Patched(block[b], patch)), BlockFields)
      BY <1>2 DEF HasFields, Only, Patched, Update, Fielded, PatchTimeBlock, SetTimeBlockRange
    <2>. QED
      BY <1>2, <2>1, BlockWriteFielded DEF PatchTimeBlock, SetTimeBlockRange
  <1>3. ASSUME NEW target, ReplanMove(target) PROVE Fielded'
    <2>1. HasFields([b \in Eligible(today) |-> [block[b] EXCEPT !.date = target]], BlockFields)
      BY DEF HasFields, Eligible, Fielded
    <2>. QED
      BY <1>3, <2>1, BlockWriteFielded DEF ReplanMove
  <1>4. ASSUME NEW b, DeleteTimeBlock(b) PROVE Fielded'
    BY <1>4 DEF DeleteTimeBlock, Fielded, HasFields, Without
  <1>5. ASSUME ReplanDelete PROVE Fielded'
    BY <1>5 DEF ReplanDelete, Fielded, HasFields, Without
  <1>6. ASSUME NEW k, DeleteTimeSlot(k) PROVE Fielded'
    BY <1>6 DEF DeleteTimeSlot, Fielded, HasFields, Without
  <1>7. ASSUME NEW k \in Slots,
               \/ \E p : CreateTimeSlot(k, p)
               \/ \E patch : PatchTimeSlot(k, patch)
               \/ \E t : AppendSlotTask(k, t) \/ RemoveSlotTask(k, t)
               \/ \E ids : ReorderSlotTasks(k, ids)
        PROVE  Fielded'
    <2>1. PICK row : SlotFields \subseteq DOMAIN row /\ WriteSlot(k, row)
      BY <1>7 DEF CreateTimeSlot, PatchTimeSlot, AppendSlotTask, RemoveSlotTask,
                  ReorderSlotTasks, Patched, Update, Fielded, HasFields, SlotFields
    <2>. QED
      BY <2>1, SlotWriteFielded
  <1>8. PreviewReplan \/ NextDay => Fielded'
    BY DEF PreviewReplan, NextDay, Fielded, HasFields
  <1>. QED
    BY <1>1, <1>2, <1>3, <1>4, <1>5, <1>6, <1>7, <1>8 DEF TimeBlockNext

LEMMA CatalogFielded ==
    ASSUME Fielded, ProjectNext \/ LabelNext \/ TemplateNext
    PROVE  Fielded'
  <1>1. ASSUME NEW affected, CatalogEvent(affected), UNCHANGED template PROVE Fielded'
    BY <1>1 DEF CatalogEvent, Fielded, HasFields
  <1>2. ASSUME NEW p, DeleteProject(p) PROVE Fielded'
    BY <1>2 DEF DeleteProject, Fielded, HasFields, Update, Stamped
  <1>3. ASSUME NEW x, DeleteSection(x) PROVE Fielded'
    BY <1>3 DEF DeleteSection, Fielded, HasFields, Update, Stamped
  <1>4. ASSUME NEW x, DeleteTag(x) PROVE Fielded'
    BY <1>4 DEF DeleteTag, Fielded, HasFields, Update, Stamped
  <1>5. ASSUME NEW m, NEW row, WriteTemplate(m, row), {"project", "tags"} \subseteq DOMAIN row
        PROVE  Fielded'
    BY <1>5 DEF WriteTemplate, CatalogEvent, Fielded, HasFields, Put, Update, Only
  <1>6. ASSUME NEW m, DeleteTemplate(m) PROVE Fielded'
    BY <1>6 DEF DeleteTemplate, CatalogEvent, Fielded, HasFields, Without
  <1>7. CASE ProjectNext
    BY <1>1, <1>2, <1>7 DEF ProjectNext, CreateProject, PatchProject, catalogRows
  <1>8. CASE LabelNext
    BY <1>1, <1>3, <1>4, <1>8 DEF LabelNext, CreateSection, PatchSection, CreateTag, PatchTag
  <1>9. CASE TemplateNext
    <2>1. ASSUME NEW m, NEW patch, PatchTemplate(m, patch) PROVE Fielded'
      <3>1. {"project", "tags"} \subseteq DOMAIN Patched(template[m], patch)
        BY <2>1 DEF PatchTemplate, Patched, Update, Fielded, HasFields
      <3>. QED
        BY <1>5, <2>1, <3>1 DEF PatchTemplate
    <2>2. ASSUME NEW m, NEW p, CreateTemplate(m, [project |-> p, tags |-> {}]) PROVE Fielded'
      BY <1>5, <2>2 DEF CreateTemplate
    <2>. QED
      BY <1>1, <1>6, <1>9, <2>1, <2>2
      DEF TemplateNext, CreateSavedFilter, PatchSavedFilter, DeleteSavedFilter, WriteFilter
  <1>. QED
    BY <1>7, <1>8, <1>9

\* The entry an operation retains is sound if its two halves are.
LEMMA RetainSound ==
    ASSUME UndoSound, NEW inverse, NEW post, NEW undone, Retain(inverse, post, undone),
           revision' = Now, InverseSound(inverse, post), PostSound(inverse, post, Now)
    PROVE  UndoSound'
  <1>1. Now \notin DOMAIN undo /\ Now \in Nat /\ revision' = revision + 1
    BY DEF UndoSound, Now
  <1>2. /\ DOMAIN undo' = DOMAIN undo \union {Now}
        /\ undo'[Now].inverse = inverse /\ undo'[Now].post = post
    BY DEF Retain, Put, Update, Only
  <1>3. ASSUME NEW o \in DOMAIN undo
        PROVE  undo'[o].inverse = undo[o].inverse /\ undo'[o].post = undo[o].post
    BY <1>1 DEF Retain, Put, Update, Only
  <1>4. ASSUME NEW o \in DOMAIN undo'
        PROVE  /\ o \in 1..revision'
               /\ InverseSound(undo'[o].inverse, undo'[o].post)
               /\ PostSound(undo'[o].inverse, undo'[o].post, o)
    <2>1. CASE o = Now
      BY <1>1, <1>2, <2>1 DEF UndoSound, Now
    <2>2. CASE o \in DOMAIN undo
      BY <1>1, <1>3, <2>2 DEF UndoSound
    <2>. QED
      BY <1>2, <2>1, <2>2
  <1>. QED
    BY <1>1, <1>4 DEF UndoSound

\* The planning rows an operation writes carry its revision, and they are those
\* whose links it has taken off or put back.
LEMMA DetachedPost ==
    ASSUME Fielded, NEW rows, NEW absent, NEW T,
           NEW post, post = PostOf(rows, absent, Detached(T)),
           NEW links, links = PlanningLinks(T)
    PROVE  /\ DOMAIN post.slots = DOMAIN links.memberships
           /\ DOMAIN post.blocks = DOMAIN links.blocks
           /\ \A k \in DOMAIN post.slots : post.slots[k].revision = Now
           /\ \A b \in DOMAIN post.blocks : post.blocks[b].revision = Now
           /\ \A b \in DOMAIN links.blocks : links.blocks[b] \in T
  BY DEF PostOf, Detached, SlotState, BlockState, PlanningLinks, Memberships, BlockLinks,
         Fielded, HasFields, SlotFields, BlockFields

LEMMA ReattachedPost ==
    ASSUME Fielded, NEW rows, NEW absent, NEW links, LinksRestorable(links)
    PROVE  LET post == PostOf(rows, absent, Reattached(links))
           IN  /\ \A k \in DOMAIN post.slots : post.slots[k].revision = Now
               /\ \A b \in DOMAIN post.blocks : post.blocks[b].revision = Now
  BY DEF PostOf, Reattached, SlotState, BlockState, LinksRestorable, Fielded, HasFields,
         SlotFields, BlockFields

LEMMA PlainPost ==
    ASSUME NEW rows, NEW absent
    PROVE  LET post == PostOf(rows, absent, NoPlanned)
           IN  /\ \A k \in DOMAIN post.slots : post.slots[k].revision = Now
               /\ \A b \in DOMAIN post.blocks : post.blocks[b].revision = Now
  BY DEF PostOf, NoPlanned

LEMMA NoLinksSound ==
    DOMAIN NoLinks.memberships = {} /\ DOMAIN NoLinks.blocks = {}
  BY DEF NoLinks

\* The undo of a creation, and of the deletion that it is itself.
LEMMA DeleteTasksSound ==
    ASSUME NEW ids, NEW post, ids # {}, HasFields(post.tasks, TaskFields),
           DOMAIN post.tasks = ids,
           \A k \in DOMAIN post.slots : post.slots[k].revision = Now,
           \A b \in DOMAIN post.blocks : post.blocks[b].revision = Now
    PROVE  InverseSound(DeleteTasks(ids), post) /\ PostSound(DeleteTasks(ids), post, Now)
  BY NoLinksSound DEF InverseSound, PostSound, DeleteTasks, HasFields

LEMMA ApplyTemplateSound ==
    ASSUME Fielded, UndoSound, NEW t \in Tasks, NEW m \in DOMAIN template, ApplyTemplate(m, t)
    PROVE  UndoSound'
  <1> DEFINE row == [project |-> template[m].project, section |-> None,
                     tags |-> template[m].tags, parent |-> None, source |-> None,
                     revision |-> Now]
             post == PostOf(Only(t, row), {}, NoPlanned)
  <1>1. Retain(DeleteTasks({t}), post, None) /\ revision' = Now
    BY DEF ApplyTemplate, CommitTasks, Commit
  <1>2. post.tasks = Only(t, row) /\ DOMAIN post.tasks = {t}
    BY DEF PostOf, Only
  <1>3. HasFields(post.tasks, TaskFields)
    BY <1>2 DEF HasFields, TaskFields, Only
  <1>4. /\ \A k \in DOMAIN post.slots : post.slots[k].revision = Now
        /\ \A b \in DOMAIN post.blocks : post.blocks[b].revision = Now
    BY PlainPost
  <1> HIDE DEF post
  <1>. QED
    BY <1>1, <1>2, <1>3, <1>4, DeleteTasksSound, RetainSound

LEMMA PatchTaskSound ==
    ASSUME Fielded, UndoSound, NEW t \in Tasks, NEW patch, PatchTask(t, patch)
    PROVE  UndoSound'
  <1> DEFINE row == [Patched(task[t], patch) EXCEPT !.revision = Now]
             post == PostOf(Only(t, row), {}, NoPlanned)
             inverse == RestoreTasks(Only(t, task[t]), NoLinks)
  <1>1. Retain(inverse, post, None) /\ revision' = Now /\ t \in DOMAIN task
    BY DEF PatchTask, CommitTasks, Commit
  <1>2. TaskFields \subseteq DOMAIN row /\ row.revision = Now
    BY <1>1 DEF Patched, Update, Fielded, HasFields, TaskFields
  <1> HIDE DEF row
  <1>3. /\ post.tasks = Only(t, row) /\ DOMAIN post.tasks = {t} /\ post.tasks # <<>>
        /\ HasFields(post.tasks, TaskFields)
        /\ \A u \in DOMAIN post.tasks : post.tasks[u].revision = Now
    BY <1>2 DEF PostOf, Only, HasFields
  <1>4. /\ \A k \in DOMAIN post.slots : post.slots[k].revision = Now
        /\ \A b \in DOMAIN post.blocks : post.blocks[b].revision = Now
    BY PlainPost
  <1>5. /\ inverse.kind = "restore_tasks" /\ inverse.ids = {t} /\ inverse.links = NoLinks
        /\ DOMAIN inverse.rows = {t} /\ HasFields(inverse.rows, TaskFields)
    BY <1>1 DEF RestoreTasks, Only, HasFields, Fielded
  <1> HIDE DEF post, inverse
  <1>6. InverseSound(inverse, post) /\ PostSound(inverse, post, Now)
    BY <1>3, <1>4, <1>5, NoLinksSound DEF InverseSound, PostSound
  <1>. QED
    BY <1>1, <1>6, RetainSound

\* Tasks that go leave an entry that brings them back with their links.
LEMMA DetachingSound ==
    ASSUME Fielded, NEW T, T # {}, NEW inverse, NEW post,
           inverse.kind \in {"restore_closure", "restore_tasks"},
           inverse.ids = T, inverse.links = PlanningLinks(T),
           DOMAIN inverse.rows = T, HasFields(inverse.rows, TaskFields),
           post = PostOf(<<>>, T, Detached(T))
    PROVE  InverseSound(inverse, post) /\ PostSound(inverse, post, Now)
  <1>1. /\ DOMAIN post.slots = DOMAIN inverse.links.memberships
        /\ DOMAIN post.blocks = DOMAIN inverse.links.blocks
        /\ \A k \in DOMAIN post.slots : post.slots[k].revision = Now
        /\ \A b \in DOMAIN post.blocks : post.blocks[b].revision = Now
        /\ \A b \in DOMAIN inverse.links.blocks : inverse.links.blocks[b] \in T
    BY DetachedPost
  <1>2. post.tasks = <<>> /\ post.absent = T
    BY DEF PostOf
  <1>3. HasFields(post.tasks, TaskFields)
    BY <1>2 DEF HasFields
  <1>. QED
    BY <1>1, <1>2, <1>3 DEF InverseSound, PostSound

\* The tasks below a task: itself, and with each of them its children.
LEMMA BelowFacts ==
    ASSUME None \notin DOMAIN task, NEW t \in DOMAIN task
    PROVE  /\ t \in Below(task, t) /\ Below(task, t) \subseteq DOMAIN task
           /\ \A u \in DOMAIN task : task[u].parent \in Below(task, t) => u \in Below(task, t)
  <1> DEFINE Apart(S) == S \in SUBSET (DOMAIN task \ {t})
                         /\ \A u \in S : task[u].parent \in S \union {None}
  <1>1. \A u : u \in Below(task, t) <=> u \in DOMAIN task /\ \A S : Apart(S) => u \notin S
    BY DEF Below
  <1>2. ASSUME NEW u \in DOMAIN task, task[u].parent \in Below(task, t), NEW S, Apart(S), u \in S
        PROVE  FALSE
    <2>1. task[u].parent \in S
      BY <1>1, <1>2
    <2>. QED
      BY <1>1, <1>2, <2>1
  <1>. QED
    BY <1>1, <1>2

LEMMA DeleteTaskSound ==
    ASSUME Fielded, UndoSound, NEW t \in Tasks, DeleteTask(t)
    PROVE  UndoSound'
  <1> DEFINE T == Below(task, t)
             post == PostOf(<<>>, T, Detached(T))
             inverse == RestoreClosure(T)
  <1>1. Retain(inverse, post, None) /\ revision' = Now /\ t \in DOMAIN task
    BY DEF DeleteTask, CommitTasks, Commit
  <1>0. t \in T /\ T \subseteq DOMAIN task
    BY <1>1 DEF Below
  <1>2. /\ inverse.kind = "restore_closure" /\ inverse.ids = T /\ T # {}
        /\ inverse.links = PlanningLinks(T)
        /\ DOMAIN inverse.rows = T /\ HasFields(inverse.rows, TaskFields)
    BY <1>0 DEF RestoreClosure, HasFields, Fielded
  <1>3. post = PostOf(<<>>, T, Detached(T))
    OBVIOUS
  <1> HIDE DEF post, inverse, T
  <1>4. InverseSound(inverse, post) /\ PostSound(inverse, post, Now)
    BY <1>2, <1>3, DetachingSound
  <1>. QED
    BY <1>1, <1>4, RetainSound

\* The task to be deleted again is there: its row is the one that was left.
LEMMA UndoByDeletingSound ==
    ASSUME Fielded, UndoSound, NEW o \in DOMAIN undo, UndoByDeleting(o),
           undo[o].inverse.kind = "delete_tasks", PostImageHolds(undo[o].post)
    PROVE  UndoSound'
  <1> DEFINE T == undo[o].inverse.ids \intersect DOMAIN task
             post == PostOf(<<>>, T, Detached(T))
             inverse == RestoreTasks(undo[o].post.tasks, PlanningLinks(T))
  <1>1. Retain(inverse, post, o) /\ revision' = Now
    BY DEF UndoByDeleting, CommitTasks, Commit
  <1>2. /\ DOMAIN undo[o].post.tasks = undo[o].inverse.ids
        /\ undo[o].inverse.ids # {}
        /\ HasFields(undo[o].post.tasks, TaskFields)
    BY DEF UndoSound, InverseSound, PostSound
  <1>3. T = undo[o].inverse.ids
    BY <1>2 DEF PostImageHolds
  <1>4. /\ inverse.kind = "restore_tasks" /\ inverse.ids = T /\ T # {}
        /\ inverse.links = PlanningLinks(T)
        /\ DOMAIN inverse.rows = T /\ HasFields(inverse.rows, TaskFields)
    BY <1>2, <1>3 DEF RestoreTasks
  <1>5. post = PostOf(<<>>, T, Detached(T))
    OBVIOUS
  <1> HIDE DEF post, inverse, T
  <1>6. InverseSound(inverse, post) /\ PostSound(inverse, post, Now)
    BY <1>4, <1>5, DetachingSound
  <1>. QED
    BY <1>1, <1>6, RetainSound

LEMMA UndoDeletionSound ==
    ASSUME Fielded, UndoSound, NEW o \in DOMAIN undo, UndoDeletion(o),
           undo[o].inverse.kind = "restore_closure"
    PROVE  UndoSound'
  <1> DEFINE i == undo[o].inverse
             post == PostOf(i.rows, {}, Reattached(i.links))
  <1>1. Retain(DeleteTasks(i.ids), post, o) /\ revision' = Now /\ LinksRestorable(i.links)
    BY DEF UndoDeletion, CommitTasks, Commit
  <1>2. i.ids # {} /\ DOMAIN i.rows = i.ids /\ HasFields(i.rows, TaskFields)
    BY DEF UndoSound, InverseSound
  <1>3. post.tasks = i.rows
    BY DEF PostOf
  <1>4. /\ \A k \in DOMAIN post.slots : post.slots[k].revision = Now
        /\ \A b \in DOMAIN post.blocks : post.blocks[b].revision = Now
    BY <1>1, ReattachedPost
  <1> HIDE DEF i, post
  <1>. QED
    BY <1>1, <1>2, <1>3, <1>4, DeleteTasksSound, RetainSound

LEMMA UndoRewriteSound ==
    ASSUME Fielded, UndoSound, NEW o \in DOMAIN undo, UndoRewrite(o),
           undo[o].inverse.kind = "restore_tasks"
    PROVE  UndoSound'
  <1> DEFINE i == undo[o].inverse
             old == undo[o].post
             rows == Stamped(i.rows)
             post == PostOf(rows, {}, Reattached(i.links))
             inverse == IF old.tasks = <<>> THEN DeleteTasks(old.absent)
                                            ELSE RestoreTasks(old.tasks, NoLinks)
  <1>1. Retain(inverse, post, o) /\ revision' = Now /\ LinksRestorable(i.links)
    BY DEF UndoRewrite, CommitTasks, Commit
  <1>2. /\ i.ids # {} /\ DOMAIN i.rows = i.ids /\ HasFields(i.rows, TaskFields)
        /\ HasFields(old.tasks, TaskFields)
        /\ IF old.tasks = <<>> THEN old.absent = i.ids ELSE DOMAIN old.tasks = i.ids
    BY DEF UndoSound, InverseSound, PostSound
  <1>3. /\ post.tasks = rows
        /\ DOMAIN rows = i.ids /\ HasFields(rows, TaskFields)
        /\ \A t \in DOMAIN rows : rows[t].revision = Now
    BY <1>2 DEF PostOf, Stamped, HasFields, TaskFields
  <1>4. post.tasks # <<>>
    BY <1>2, <1>3
  <1>5. /\ \A k \in DOMAIN post.slots : post.slots[k].revision = Now
        /\ \A b \in DOMAIN post.blocks : post.blocks[b].revision = Now
    BY <1>1, ReattachedPost
  <1>6. CASE old.tasks = <<>>
    <2>1. inverse = DeleteTasks(i.ids)
      BY <1>2, <1>6
    <2> HIDE DEF i, old, rows, post, inverse
    <2>. QED
      BY <1>1, <1>2, <1>3, <1>5, <2>1, DeleteTasksSound, RetainSound
  <1>7. CASE old.tasks # <<>>
    <2>1. /\ inverse.kind = "restore_tasks" /\ inverse.ids = i.ids
          /\ inverse.links = NoLinks
          /\ DOMAIN inverse.rows = i.ids /\ HasFields(inverse.rows, TaskFields)
      BY <1>2, <1>7 DEF RestoreTasks
    <2> HIDE DEF i, old, rows, post, inverse
    <2>2. InverseSound(inverse, post) /\ PostSound(inverse, post, Now)
      BY <1>2, <1>3, <1>4, <1>5, <2>1, NoLinksSound DEF InverseSound, PostSound
    <2>. QED
      BY <1>1, <2>2, RetainSound
  <1>. QED
    BY <1>6, <1>7

LEMMA UndoStep == Fielded /\ UndoSound /\ [Next]_vars => UndoSound'
  <1> SUFFICES ASSUME Fielded, UndoSound, [Next]_vars PROVE UndoSound'
    OBVIOUS
  <1>1. CASE TaskNext
    BY <1>1, ApplyTemplateSound, PatchTaskSound, DeleteTaskSound, UndoByDeletingSound,
       UndoDeletionSound, UndoRewriteSound
    DEF TaskNext, Undo
  <1>2. CASE UNCHANGED undo /\ revision' \in {revision, revision + 1}
    BY <1>2 DEF UndoSound
  <1>3. TimeBlockNext => revision' \in {revision, revision + 1}
    BY DEF TimeBlockNext, CreateTimeBlock, PatchTimeBlock, SetTimeBlockRange, DeleteTimeBlock,
           CreateTimeSlot, PatchTimeSlot, DeleteTimeSlot, AppendSlotTask, RemoveSlotTask,
           ReorderSlotTasks, PreviewReplan, ReplanDelete, ReplanMove, NextDay, WriteBlocks,
           WriteSlot, Commit, Now
  <1>4. ProjectNext \/ LabelNext \/ TemplateNext => revision' = revision + 1
    BY DEF ProjectNext, CreateProject, PatchProject, DeleteProject, LabelNext, CreateSection,
           PatchSection, DeleteSection, CreateTag, PatchTag, DeleteTag, TemplateNext,
           CreateTemplate, PatchTemplate, DeleteTemplate, WriteTemplate, CreateSavedFilter,
           PatchSavedFilter, DeleteSavedFilter, WriteFilter, CatalogEvent, Commit, Now
  <1>. QED
    BY <1>1, <1>2, <1>3, <1>4 DEF Next, vars

-----------------------------------------------------------------------------
(***************************************************************************)
(* Events.                                                                 *)
(***************************************************************************)

CatalogChanged ==
    project' # project \/ section' # section \/ tag' # tag
        \/ template' # template \/ filter' # filter

\* What the last step changed, the event announces.
Covered ==
    /\ \A t \in Changed(task, task') :
          \/ <<"task", t>> \in event'.affected
          \/ OnlyCleared(t) /\ "tasks" \in event'.resync
    /\ SlotIds(Changed(slot, slot')) \subseteq event'.affected
    /\ BlockIds(Changed(block, block')) \subseteq event'.affected
    /\ CatalogChanged => "catalog" \in event'.resync

LEMMA IdsGrow ==
    ASSUME NEW S, NEW T, S \subseteq T
    PROVE  TaskIds(S) \subseteq TaskIds(T) /\ SlotIds(S) \subseteq SlotIds(T)
           /\ BlockIds(S) \subseteq BlockIds(T)
  BY DEF TaskIds, SlotIds, BlockIds

\* What is to be shown of a step, once the tables it wrote are known.
LEMMA CoveredBy ==
    ASSUME NEW T, NEW K, NEW B, NEW affected, NEW resync, Commit(affected, resync),
           Changed(task, task') \subseteq T, Changed(slot, slot') \subseteq K,
           Changed(block, block') \subseteq B,
           TaskIds(T) \subseteq affected, SlotIds(K) \subseteq affected,
           BlockIds(B) \subseteq affected,
           CatalogChanged => "catalog" \in resync
    PROVE  Covered
  <1>1. event'.affected = affected /\ event'.resync = resync
    BY DEF Commit, Event
  <1>2. \A t \in Changed(task, task') : <<"task", t>> \in affected
    BY DEF TaskIds
  <1>. QED
    BY <1>1, <1>2, IdsGrow DEF Covered

LEMMA NothingChanged == Changed(task, task) = {} /\ Changed(slot, slot) = {}
                        /\ Changed(block, block) = {}
                        /\ TaskIds({}) = {} /\ SlotIds({}) = {} /\ BlockIds({}) = {}
  BY DEF Changed, TaskIds, SlotIds, BlockIds

LEMMA WriteBlocksCovered ==
    ASSUME NEW rows, WriteBlocks(rows), UNCHANGED catalogRows
    PROVE  Covered
  <1>1. Changed(block, block') \subseteq DOMAIN rows
    BY DEF WriteBlocks, Changed, Update
  <1>2. Changed(task, task') = {} /\ Changed(slot, slot') = {}
    BY NothingChanged DEF WriteBlocks
  <1>3. ~CatalogChanged
    BY DEF CatalogChanged, catalogRows, WriteBlocks
  <1>4. Commit(BlockIds(DOMAIN rows), {})
    BY DEF WriteBlocks
  <1>. QED
    BY <1>1, <1>2, <1>3, <1>4, NothingChanged, CoveredBy

LEMMA WriteSlotCovered ==
    ASSUME NEW k, NEW row, WriteSlot(k, row), UNCHANGED catalogRows
    PROVE  Covered
  <1>1. Changed(slot, slot') \subseteq {k}
    BY DEF WriteSlot, Changed, Put, Update, Only
  <1>2. Changed(task, task') = {} /\ Changed(block, block') = {}
    BY NothingChanged DEF WriteSlot
  <1>3. ~CatalogChanged
    BY DEF CatalogChanged, catalogRows, WriteSlot
  <1>4. Commit(SlotIds({k}), {})
    BY DEF WriteSlot
  <1>. QED
    BY <1>1, <1>2, <1>3, <1>4, NothingChanged, CoveredBy

LEMMA DeleteTimeBlockCovered ==
    ASSUME NEW b, DeleteTimeBlock(b), UNCHANGED catalogRows
    PROVE  Covered
  <1>1. Changed(block, block') \subseteq {b}
    BY DEF DeleteTimeBlock, Changed, Without
  <1>2. Changed(task, task') = {} /\ Changed(slot, slot') = {}
    BY NothingChanged DEF DeleteTimeBlock
  <1>3. ~CatalogChanged /\ Commit(BlockIds({b}), {})
    BY DEF CatalogChanged, catalogRows, DeleteTimeBlock
  <1>. QED
    BY <1>1, <1>2, <1>3, NothingChanged, CoveredBy

\* The blocks of a deleted slot are named, every one of them.
LEMMA DeleteTimeSlotCovered ==
    ASSUME NEW k, DeleteTimeSlot(k), UNCHANGED catalogRows
    PROVE  Covered
  <1> DEFINE linked == {b \in DOMAIN block : block[b].slot = k}
  <1>1. Changed(block, block') \subseteq linked
    BY DEF DeleteTimeSlot, Changed
  <1>2. Changed(slot, slot') \subseteq {k}
    BY DEF DeleteTimeSlot, Changed, Without
  <1>3. Changed(task, task') = {}
    BY NothingChanged DEF DeleteTimeSlot
  <1>4. ~CatalogChanged /\ Commit(SlotIds({k}) \union BlockIds(linked), {})
    BY DEF CatalogChanged, catalogRows, DeleteTimeSlot
  <1> HIDE DEF linked
  <1>. QED
    BY <1>1, <1>2, <1>3, <1>4, NothingChanged, CoveredBy

LEMMA ReplanDeleteCovered ==
    ASSUME ReplanDelete, UNCHANGED catalogRows
    PROVE  Covered
  <1>1. Changed(block, block') \subseteq Eligible(today)
    BY DEF ReplanDelete, Changed, Without
  <1>2. Changed(task, task') = {} /\ Changed(slot, slot') = {}
    BY NothingChanged DEF ReplanDelete
  <1>3. ~CatalogChanged /\ Commit(BlockIds(Eligible(today)), {})
    BY DEF CatalogChanged, catalogRows, ReplanDelete
  <1>. QED
    BY <1>1, <1>2, <1>3, NothingChanged, CoveredBy

LEMMA TimeBlockCovered ==
    ASSUME TimeBlockNext, UNCHANGED catalogRows, revision' # revision
    PROVE  Covered
  <1>1. ASSUME NEW b \in Blocks,
               \/ \E row : CreateTimeBlock(b, row)
               \/ \E patch : PatchTimeBlock(b, patch) \/ SetTimeBlockRange(b, patch)
               \/ DeleteTimeBlock(b)
        PROVE  Covered
    BY <1>1, WriteBlocksCovered, DeleteTimeBlockCovered
    DEF CreateTimeBlock, PatchTimeBlock, SetTimeBlockRange
  <1>2. ASSUME NEW k \in Slots,
               \/ \E p : CreateTimeSlot(k, p)
               \/ \E patch : PatchTimeSlot(k, patch)
               \/ DeleteTimeSlot(k)
               \/ \E t : AppendSlotTask(k, t) \/ RemoveSlotTask(k, t)
               \/ \E ids : ReorderSlotTasks(k, ids)
        PROVE  Covered
    BY <1>2, WriteSlotCovered, DeleteTimeSlotCovered
    DEF CreateTimeSlot, PatchTimeSlot, AppendSlotTask, RemoveSlotTask, ReorderSlotTasks
  <1>3. ASSUME NEW target, ReplanMove(target) PROVE Covered
    BY <1>3, WriteBlocksCovered DEF ReplanMove
  <1>4. ~PreviewReplan /\ ~NextDay
    BY DEF PreviewReplan, NextDay
  <1>. QED
    BY <1>1, <1>2, <1>3, <1>4, ReplanDeleteCovered DEF TimeBlockNext

\* A mutation of the catalog alone asks for the catalog to be reloaded.
LEMMA CatalogEventCovered ==
    ASSUME NEW affected, CatalogEvent(affected)
    PROVE  Covered
  <1>1. Commit(affected, {"catalog"})
    BY DEF CatalogEvent
  <1>2. Changed(task, task') = {} /\ Changed(slot, slot') = {} /\ Changed(block, block') = {}
    BY NothingChanged DEF CatalogEvent
  <1>. QED
    BY <1>1, <1>2, NothingChanged, CoveredBy

LEMMA DeleteProjectCovered ==
    ASSUME NEW p, DeleteProject(p)
    PROVE  Covered
  <1> DEFINE tasks == {t \in DOMAIN task : task[t].project = p}
             slots == {k \in DOMAIN slot : slot[k].project = p}
             gone  == {s \in DOMAIN section : section[s] = p}
             affected == {<<"project", p>>} \union {<<"section", s>> : s \in gone}
                            \union TaskIds(tasks) \union SlotIds(slots)
  <1>1. Changed(task, task') \subseteq tasks
    BY DEF DeleteProject, Changed, Update, Stamped
  <1>2. Changed(slot, slot') \subseteq slots
    BY DEF DeleteProject, Changed, Update, Stamped
  <1>3. Changed(block, block') = {}
    BY NothingChanged DEF DeleteProject
  <1>4. Commit(affected, {"tasks", "catalog"})
    BY DEF DeleteProject
  <1>5. TaskIds(tasks) \subseteq affected /\ SlotIds(slots) \subseteq affected
    OBVIOUS
  <1> HIDE DEF tasks, slots, affected
  <1>. QED
    BY <1>1, <1>2, <1>3, <1>4, <1>5, NothingChanged, CoveredBy

\* A section or a tag that goes names the tasks it leaves.
LEMMA DeleteLabelCovered ==
    ASSUME NEW x, DeleteSection(x) \/ DeleteTag(x)
    PROVE  Covered
  <1>1. PICK T, named :
            /\ Changed(task, task') \subseteq T
            /\ Commit(named \union TaskIds(T), {"tasks", "catalog"})
    <2>1. CASE DeleteSection(x)
      <3>1. Changed(task, task') \subseteq {t \in DOMAIN task : task[t].section = x}
        BY <2>1 DEF DeleteSection, Changed, Update, Stamped
      <3>. QED
        BY <2>1, <3>1 DEF DeleteSection
    <2>2. CASE DeleteTag(x)
      <3>1. Changed(task, task') \subseteq {t \in DOMAIN task : x \in task[t].tags}
        BY <2>2 DEF DeleteTag, Changed, Update, Stamped
      <3>. QED
        BY <2>2, <3>1 DEF DeleteTag
    <2>. QED
      BY <2>1, <2>2
  <1>2. Changed(slot, slot') = {} /\ Changed(block, block') = {}
    BY NothingChanged DEF DeleteSection, DeleteTag
  <1>. QED
    BY <1>1, <1>2, NothingChanged, CoveredBy

LEMMA CatalogCovered ==
    ASSUME ProjectNext \/ LabelNext \/ TemplateNext
    PROVE  Covered
  <1>1. ProjectNext => Covered
    BY CatalogEventCovered, DeleteProjectCovered DEF ProjectNext, CreateProject, PatchProject
  <1>2. LabelNext => Covered
    BY CatalogEventCovered, DeleteLabelCovered
    DEF LabelNext, CreateSection, PatchSection, CreateTag, PatchTag
  <1>3. TemplateNext => Covered
    BY CatalogEventCovered
    DEF TemplateNext, CreateTemplate, PatchTemplate, WriteTemplate, DeleteTemplate,
        CreateSavedFilter, PatchSavedFilter, DeleteSavedFilter, WriteFilter
  <1>. QED
    BY <1>1, <1>2, <1>3

\* The planning rows a task mutation rewrites are named with the tasks.
LEMMA CommitTasksCovered ==
    ASSUME NEW rows, NEW planned, NEW affected, NEW resync,
           CommitTasks(rows, planned, affected, resync),
           Changed(task, rows) \subseteq affected
    PROVE  Covered
  <1>1. Changed(task, task') \subseteq affected
    BY DEF CommitTasks
  <1>2. Changed(slot, slot') \subseteq DOMAIN planned.slots
    BY DEF CommitTasks, Changed, Update
  <1>3. Changed(block, block') \subseteq DOMAIN planned.blocks
    BY DEF CommitTasks, Changed, Update
  <1>4. ~CatalogChanged
    BY DEF CommitTasks, CatalogChanged
  <1>5. Commit(TaskIds(affected) \union SlotIds(DOMAIN planned.slots)
                  \union BlockIds(DOMAIN planned.blocks), resync)
    BY DEF CommitTasks
  <1>. QED
    BY <1>1, <1>2, <1>3, <1>4, <1>5, CoveredBy

\* A task that stays while others go keeps all but its references to them.
LEMMA DeletingClears ==
    ASSUME NEW T, T \subseteq DOMAIN task, task' = DeleteRows(task, T)
    PROVE  \A t \in DOMAIN task \ T : OnlyCleared(t)
  <1>1. DOMAIN task' = DOMAIN task \ T /\ \A t \in DOMAIN task \ T : task'[t] = Cleared(task[t], T)
    BY DEF DeleteRows
  <1>2. DOMAIN task \ DOMAIN task' = T
    BY <1>1
  <1>. QED
    BY <1>1, <1>2 DEF OnlyCleared

LEMMA DeletingCovered ==
    ASSUME NEW T, T \subseteq DOMAIN task, NEW planned,
           CommitTasks(DeleteRows(task, T), planned, T, {"tasks"})
    PROVE  Covered
  <1>1. task' = DeleteRows(task, T)
    BY DEF CommitTasks
  <1>2. /\ TaskIds(T) \subseteq event'.affected /\ SlotIds(DOMAIN planned.slots) \subseteq event'.affected
        /\ BlockIds(DOMAIN planned.blocks) \subseteq event'.affected
        /\ "tasks" \in event'.resync
    BY DEF CommitTasks, Commit, Event
  <1>3. ASSUME NEW t \in Changed(task, task')
        PROVE  <<"task", t>> \in event'.affected \/ (OnlyCleared(t) /\ "tasks" \in event'.resync)
    <2>1. t \in T \/ t \in DOMAIN task \ T
      BY <1>1 DEF Changed, DeleteRows
    <2>. QED
      BY <1>1, <1>2, <2>1, DeletingClears DEF TaskIds
  <1>4. Changed(slot, slot') \subseteq DOMAIN planned.slots
    BY DEF CommitTasks, Changed, Update
  <1>5. Changed(block, block') \subseteq DOMAIN planned.blocks
    BY DEF CommitTasks, Changed, Update
  <1>6. ~CatalogChanged
    BY DEF CommitTasks, CatalogChanged
  <1>. QED
    BY <1>2, <1>3, <1>4, <1>5, <1>6, IdsGrow DEF Covered

LEMMA TaskCovered ==
    ASSUME UndoSound, TaskNext
    PROVE  Covered
  <1>1. ASSUME NEW t, NEW row, NEW planned, NEW resync,
               CommitTasks(Put(task, t, row), planned, {t}, resync)
        PROVE  Covered
    <2>1. Changed(task, Put(task, t, row)) \subseteq {t}
      BY DEF Changed, Put, Update, Only
    <2>. QED
      BY <1>1, <2>1, CommitTasksCovered
  <1>2. ASSUME NEW t, DeleteTask(t) PROVE Covered
    <2>1. Below(task, t) \subseteq DOMAIN task
      BY DEF Below
    <2>. QED
      BY <1>2, <2>1, DeletingCovered DEF DeleteTask
  <1>3. ASSUME NEW rows, NEW planned, NEW ids, NEW resync, DOMAIN rows \subseteq ids,
               CommitTasks(Update(task, rows), planned, ids, resync)
        PROVE  Covered
    <2>1. Changed(task, Update(task, rows)) \subseteq ids
      BY <1>3 DEF Changed, Update
    <2>. QED
      BY <1>3, <2>1, CommitTasksCovered
  <1>4. ASSUME NEW o \in DOMAIN undo, Undo(o) PROVE Covered
    <2>1. CASE UndoByDeleting(o)
      BY <2>1, DeletingCovered DEF UndoByDeleting
    <2>2. CASE undo[o].inverse.kind = "restore_closure" /\ UndoDeletion(o)
      <3>1. DOMAIN undo[o].inverse.rows \subseteq undo[o].inverse.ids
        BY <2>2 DEF UndoSound, InverseSound
      <3>. QED
        BY <1>3, <2>2, <3>1 DEF UndoDeletion
    <2>3. CASE undo[o].inverse.kind = "restore_tasks" /\ UndoRewrite(o)
      <3>1. DOMAIN Stamped(undo[o].inverse.rows) \subseteq undo[o].inverse.ids
        BY <2>3 DEF UndoSound, InverseSound, Stamped
      <3>. QED
        BY <1>3, <2>3, <3>1 DEF UndoRewrite
    <2>. QED
      BY <1>4, <2>1, <2>2, <2>3 DEF Undo
  <1>. QED
    BY <1>1, <1>2, <1>4 DEF TaskNext, ApplyTemplate, PatchTask

LEMMA CoveredStep ==
    ASSUME UndoSound, Next, revision' # revision
    PROVE  Covered
  <1>1. TimeBlockNext /\ UNCHANGED catalogRows => Covered
    BY TimeBlockCovered
  <1>. QED
    BY <1>1, CatalogCovered, TaskCovered DEF Next, catalogRows

-----------------------------------------------------------------------------
(***************************************************************************)
(* Stamps.  A row that survives a step different from what it was carries  *)
(* the revision of the step, unless it only lost references to tasks that  *)
(* are gone.  The fields of the new rows are known.                        *)
(***************************************************************************)

StampedRows(f, g, r) ==
    \A x \in DOMAIN f \cap DOMAIN g : g[x] # f[x] => g[x].revision = r
AllStamped ==
    /\ \A t \in DOMAIN task \cap DOMAIN task' :
          task'[t] # task[t] => task'[t].revision = revision' \/ OnlyCleared(t)
    /\ StampedRows(slot, slot', revision')
    /\ StampedRows(block, block', revision')

LEMMA TimeBlockStamped ==
    ASSUME TimeBlockNext, revision' # revision, Fielded'
    PROVE  AllStamped
  <1> USE DEF AllStamped, StampedRows, Commit, Fielded, HasFields, SlotFields, BlockFields
  <1>1. ASSUME NEW rows, WriteBlocks(rows) PROVE AllStamped
    BY <1>1 DEF WriteBlocks, Update
  <1>2. ASSUME NEW k, NEW row, WriteSlot(k, row) PROVE AllStamped
    BY <1>2 DEF WriteSlot, Put, Update, Only
  <1>3. ASSUME NEW b, DeleteTimeBlock(b) PROVE AllStamped
    BY <1>3 DEF DeleteTimeBlock, Without
  <1>4. ASSUME NEW k, DeleteTimeSlot(k) PROVE AllStamped
    BY <1>4 DEF DeleteTimeSlot, Without
  <1>5. ReplanDelete => AllStamped
    BY DEF ReplanDelete, Without
  <1>6. ~PreviewReplan /\ ~NextDay
    BY DEF PreviewReplan, NextDay
  <1> HIDE DEF AllStamped, Commit, Fielded, HasFields
  <1>. QED
    BY <1>1, <1>2, <1>3, <1>4, <1>5, <1>6
    DEF TimeBlockNext, CreateTimeBlock, PatchTimeBlock, SetTimeBlockRange, ReplanMove,
        CreateTimeSlot, PatchTimeSlot, AppendSlotTask, RemoveSlotTask, ReorderSlotTasks

LEMMA CatalogStamped ==
    ASSUME ProjectNext \/ LabelNext \/ TemplateNext, Fielded'
    PROVE  AllStamped
  <1> USE DEF AllStamped, StampedRows, Commit, Fielded, HasFields, SlotFields, TaskFields
  <1>1. ASSUME NEW affected, CatalogEvent(affected) PROVE AllStamped
    BY <1>1 DEF CatalogEvent
  <1>2. ASSUME NEW p, DeleteProject(p) PROVE AllStamped
    BY <1>2 DEF DeleteProject, Update, Stamped
  <1>3. ASSUME NEW x, DeleteSection(x) PROVE AllStamped
    BY <1>3 DEF DeleteSection, Update, Stamped
  <1>4. ASSUME NEW x, DeleteTag(x) PROVE AllStamped
    BY <1>4 DEF DeleteTag, Update, Stamped
  <1> HIDE DEF AllStamped, Commit, Fielded, HasFields
  <1>. QED
    BY <1>1, <1>2, <1>3, <1>4
    DEF ProjectNext, CreateProject, PatchProject, LabelNext, CreateSection, PatchSection,
        CreateTag, PatchTag, TemplateNext, CreateTemplate, PatchTemplate, WriteTemplate,
        DeleteTemplate, CreateSavedFilter, PatchSavedFilter, DeleteSavedFilter, WriteFilter

LEMMA CommitTasksStamped ==
    ASSUME NEW rows, NEW planned, NEW affected, NEW resync,
           CommitTasks(rows, planned, affected, resync),
           StampedRows(task, rows, Now),
           \A k \in DOMAIN planned.slots : planned.slots[k].revision = Now,
           \A b \in DOMAIN planned.blocks : planned.blocks[b].revision = Now
    PROVE  AllStamped
  BY DEF CommitTasks, AllStamped, StampedRows, Update, Commit

LEMMA DeletingStamped ==
    ASSUME NEW T, T \subseteq DOMAIN task, NEW planned, NEW affected, NEW resync,
           CommitTasks(DeleteRows(task, T), planned, affected, resync),
           \A k \in DOMAIN planned.slots : planned.slots[k].revision = Now,
           \A b \in DOMAIN planned.blocks : planned.blocks[b].revision = Now
    PROVE  AllStamped
  <1>1. task' = DeleteRows(task, T) /\ DOMAIN task' = DOMAIN task \ T
    BY DEF CommitTasks, DeleteRows
  <1>2. \A t \in DOMAIN task \cap DOMAIN task' : OnlyCleared(t)
    BY <1>1, DeletingClears
  <1>3. StampedRows(slot, slot', revision') /\ StampedRows(block, block', revision')
    BY DEF CommitTasks, StampedRows, Update, Commit
  <1>. QED
    BY <1>2, <1>3 DEF AllStamped

LEMMA PlannedStamped ==
    ASSUME Fielded
    PROVE  /\ \A T : /\ \A k \in DOMAIN Detached(T).slots : Detached(T).slots[k].revision = Now
                     /\ \A b \in DOMAIN Detached(T).blocks : Detached(T).blocks[b].revision = Now
           /\ \A links : LinksRestorable(links) =>
                 /\ \A k \in DOMAIN Reattached(links).slots :
                       Reattached(links).slots[k].revision = Now
                 /\ \A b \in DOMAIN Reattached(links).blocks :
                       Reattached(links).blocks[b].revision = Now
           /\ DOMAIN NoPlanned.slots = {} /\ DOMAIN NoPlanned.blocks = {}
  <1> USE DEF Fielded, HasFields, SlotFields, BlockFields
  <1>1. ASSUME NEW T
        PROVE  /\ \A k \in DOMAIN Detached(T).slots : Detached(T).slots[k].revision = Now
               /\ \A b \in DOMAIN Detached(T).blocks : Detached(T).blocks[b].revision = Now
    BY DEF Detached, Memberships, BlockLinks
  <1>2. ASSUME NEW links, LinksRestorable(links)
        PROVE  /\ \A k \in DOMAIN Reattached(links).slots :
                     Reattached(links).slots[k].revision = Now
               /\ \A b \in DOMAIN Reattached(links).blocks :
                     Reattached(links).blocks[b].revision = Now
    BY <1>2 DEF Reattached, LinksRestorable
  <1>3. DOMAIN NoPlanned.slots = {} /\ DOMAIN NoPlanned.blocks = {}
    BY DEF NoPlanned
  <1>. QED
    BY <1>1, <1>2, <1>3

LEMMA TaskStamped ==
    ASSUME Fielded, UndoSound, TaskNext
    PROVE  AllStamped
  <1>1. ASSUME NEW t \in Tasks, NEW m, ApplyTemplate(m, t) PROVE AllStamped
    <2>1. PICK row : t \notin DOMAIN task /\ CommitTasks(Put(task, t, row), NoPlanned, {t}, {})
      BY <1>1 DEF ApplyTemplate
    <2>2. StampedRows(task, Put(task, t, row), Now)
      BY <2>1 DEF StampedRows, Put, Update, Only
    <2>. QED
      BY <2>1, <2>2, PlannedStamped, CommitTasksStamped
  <1>2. ASSUME NEW t \in Tasks, NEW patch, PatchTask(t, patch) PROVE AllStamped
    <2>1. PICK row : /\ row.revision = Now
                     /\ CommitTasks(Put(task, t, row), NoPlanned, {t}, {})
      BY <1>2 DEF PatchTask, Patched, Update, Fielded, HasFields, TaskFields
    <2>2. StampedRows(task, Put(task, t, row), Now)
      BY <2>1 DEF StampedRows, Put, Update, Only
    <2>. QED
      BY <2>1, <2>2, PlannedStamped, CommitTasksStamped
  <1>4. ASSUME NEW t \in Tasks, DeleteTask(t) PROVE AllStamped
    <2>1. Below(task, t) \subseteq DOMAIN task
      BY DEF Below
    <2>. QED
      BY <1>4, <2>1, PlannedStamped, DeletingStamped DEF DeleteTask
  <1>5. ASSUME NEW o \in DOMAIN undo, Undo(o) PROVE AllStamped
    <2> DEFINE i == undo[o].inverse
    <2>1. CASE UndoByDeleting(o)
      BY <2>1, PlannedStamped, DeletingStamped DEF UndoByDeleting
    <2>2. CASE i.kind = "restore_closure" /\ UndoDeletion(o)
      <3>1. StampedRows(task, Update(task, i.rows), Now)
        BY <2>2 DEF StampedRows, Update, UndoSound, InverseSound, UndoDeletion
      <3>2. /\ LinksRestorable(i.links)
            /\ CommitTasks(Update(task, i.rows), Reattached(i.links), i.ids, {"tasks"})
        BY <2>2 DEF UndoDeletion
      <3> HIDE DEF i
      <3>. QED
        BY <3>1, <3>2, PlannedStamped, CommitTasksStamped
    <2>3. CASE i.kind = "restore_tasks" /\ UndoRewrite(o)
      <3>1. StampedRows(task, Update(task, Stamped(i.rows)), Now)
        BY DEF StampedRows, Update, UndoSound, InverseSound, HasFields, TaskFields, Stamped
      <3>2. PICK resync :
            /\ LinksRestorable(i.links)
            /\ CommitTasks(Update(task, Stamped(i.rows)), Reattached(i.links), i.ids, resync)
        BY <2>3 DEF UndoRewrite
      <3> HIDE DEF i
      <3>. QED
        BY <3>1, <3>2, PlannedStamped, CommitTasksStamped
    <2>. QED
      BY <1>5, <2>1, <2>2, <2>3 DEF Undo
  <1>. QED
    BY <1>1, <1>2, <1>4, <1>5 DEF TaskNext

LEMMA StampedStep ==
    ASSUME Fielded, UndoSound, Next, Fielded', revision' # revision
    PROVE  AllStamped
  <1>1. TimeBlockNext \/ ProjectNext \/ LabelNext \/ TemplateNext \/ TaskNext
    BY DEF Next
  <1>. QED
    BY <1>1, TimeBlockStamped, CatalogStamped, TaskStamped

-----------------------------------------------------------------------------
(***************************************************************************)
(* The theorems about steps.                                               *)
(***************************************************************************)

Entries == Fielded /\ UndoSound

LEMMA EntriesInit == Init => Entries
  <1> SUFFICES ASSUME Init PROVE Entries
    OBVIOUS
  <1>1. /\ \A t \in DOMAIN task : task[t] \in TaskRow
        /\ \A k \in DOMAIN slot : slot[k] \in SlotRow
        /\ \A b \in DOMAIN block : block[b] \in BlockRow
        /\ \A m \in DOMAIN template : template[m] \in TemplateRow
    BY InitSound DEF TypedRows, IsRows
  <1>2. /\ \A row \in TaskRow : DOMAIN row = TaskFields
        /\ \A row \in SlotRow : DOMAIN row = SlotFields
        /\ \A row \in BlockRow : DOMAIN row = BlockFields
        /\ \A row \in TemplateRow : DOMAIN row = {"project", "tags"}
    BY DEF TaskRow, SlotRow, BlockRow, TemplateRow, TaskFields, SlotFields, BlockFields
  <1>3. Fielded
    BY <1>1, <1>2 DEF Fielded, HasFields
  <1>4. UndoSound
    BY DEF Init, UndoSound
  <1>. QED
    BY <1>3, <1>4 DEF Entries

LEMMA EntriesStep == Entries /\ [Next]_vars => Entries'
  <1> SUFFICES ASSUME Entries, [Next]_vars PROVE Entries'
    OBVIOUS
  <1>1. Next => Fielded'
    BY TimeBlockFielded, CatalogFielded, TaskFielded DEF Next, Entries
  <1>2. UNCHANGED vars => Fielded'
    BY DEF vars, Entries, Fielded, HasFields
  <1>. QED
    BY <1>1, <1>2, UndoStep DEF Entries

\* Every table keeps its fields and every undo entry fits the step it would undo.
THEOREM EntriesAreSound == Spec => []Entries
  BY EntriesInit, EntriesStep, PTL DEF Spec

\* However far a mutation cascades, its event names what it wrote and deleted, and
\* has the tasks reloaded when others lose a reference to those that are gone.
THEOREM EventsCoverChanges == Spec => EventCoversChanges
  <1>1. Entries /\ [Next]_vars =>
            [revision' # revision =>
                /\ \A t \in Changed(task, task') :
                      \/ <<"task", t>> \in event'.affected
                      \/ OnlyCleared(t) /\ "tasks" \in event'.resync
                /\ SlotIds(Changed(slot, slot')) \subseteq event'.affected
                /\ BlockIds(Changed(block, block')) \subseteq event'.affected
                /\ (project' # project \/ section' # section \/ tag' # tag
                        \/ template' # template \/ filter' # filter) =>
                      "catalog" \in event'.resync]_vars
    BY CoveredStep DEF Entries, Covered, CatalogChanged, vars
  <1>. QED
    BY <1>1, EntriesAreSound, PTL DEF Spec, EventCoversChanges

\* Every surviving task, slot and block a mutation changes carries its revision, but
\* for tasks that only lost a reference to a task that is gone.
THEOREM ChangesCarryTheirRevision == Spec => ChangesAreStamped
  <1>1. Entries /\ Entries' /\ [Next]_vars =>
            [revision' # revision =>
                /\ \A t \in DOMAIN task \cap DOMAIN task' :
                      task'[t] # task[t] => task'[t].revision = revision' \/ OnlyCleared(t)
                /\ \A k \in DOMAIN slot \cap DOMAIN slot' :
                      slot'[k] # slot[k] => slot'[k].revision = revision'
                /\ \A b \in DOMAIN block \cap DOMAIN block' :
                      block'[b] # block[b] => block'[b].revision = revision']_vars
    BY StampedStep DEF Entries, AllStamped, StampedRows, vars
  <1>. QED
    BY <1>1, EntriesAreSound, PTL DEF Spec, ChangesAreStamped

\* A step that marks an operation undone is its undo.
LEMMA UndoneByUndo ==
    ASSUME Entries, [Next]_vars, NEW o \in DOMAIN undo, Undone(o)
    PROVE  Undo(o)
  <1>1. o # None /\ o # Now /\ o \in Nat
    BY NoneAssumption DEF Entries, UndoSound, Now
  <1>2. \A inverse, after, undone : Retain(inverse, after, undone) => undone = o
    BY <1>1 DEF Retain, Put, Update, Only, Undone
  <1>3. TaskNext
    BY DEF Undone, Next, vars
  <1>4. ASSUME NEW t, NEW m, ApplyTemplate(m, t) PROVE FALSE
    BY <1>1, <1>2, <1>4 DEF ApplyTemplate
  <1>5. ASSUME NEW t, NEW patch, PatchTask(t, patch) PROVE FALSE
    BY <1>1, <1>2, <1>5 DEF PatchTask
  <1>6. ASSUME NEW t, DeleteTask(t) PROVE FALSE
    BY <1>1, <1>2, <1>6 DEF DeleteTask
  <1>7. ASSUME NEW u \in DOMAIN undo, Undo(u) PROVE u = o
    <2>1. \E inverse, after : Retain(inverse, after, u)
      BY <1>7 DEF Undo, UndoByDeleting, UndoDeletion, UndoRewrite
    <2>. QED
      BY <1>2, <2>1
  <1>. QED
    BY <1>3, <1>4, <1>5, <1>6, <1>7 DEF TaskNext

\* The operation whose entry a step marks is the one it undoes, and its rows were
\* found as that operation had left them.
LEMMA RestoringSpares ==
    ASSUME Entries, [Next]_vars, NEW o \in DOMAIN undo, Undone(o),
           undo[o].inverse.kind # "delete_tasks"
    PROVE  /\ \A t \in DOMAIN task : task'[t] # task[t] => task[t].revision = o
           /\ \A k \in DOMAIN slot : slot'[k] # slot[k] => slot[k].revision = o
           /\ \A b \in DOMAIN block : block'[b] # block[b] => block[b].revision = o
  <1> DEFINE i == undo[o].inverse
             post == undo[o].post
  <1>1. Undo(o)
    BY UndoneByUndo
  <1>2. InverseSound(i, post) /\ PostSound(i, post, o) /\ PostImageHolds(post)
    BY <1>1 DEF Entries, UndoSound, Undo
  <1>3. PICK rows, resync :
            /\ CommitTasks(Update(task, rows), Reattached(i.links), i.ids, resync)
            /\ \A t \in DOMAIN rows \cap DOMAIN task : task[t].revision = o
    <2>1. CASE i.kind = "restore_closure" /\ UndoDeletion(o)
      <3>1. DOMAIN i.rows \cap DOMAIN task = {}
        BY <1>2, <2>1 DEF UndoDeletion, InverseSound
      <3>. QED
        BY <2>1, <3>1 DEF UndoDeletion
    <2>2. CASE i.kind = "restore_tasks" /\ UndoRewrite(o)
      <3>1. DOMAIN Stamped(i.rows) = i.ids
        BY <1>2, <2>2 DEF InverseSound, Stamped
      <3>2. \A t \in i.ids \cap DOMAIN task : task[t].revision = o
        BY <1>2, <2>2 DEF PostSound, PostImageHolds
      <3>. QED
        BY <2>2, <3>1, <3>2 DEF UndoRewrite
    <2>. QED
      BY <1>1, <2>1, <2>2 DEF Undo
  <1>4. \A t \in DOMAIN task : task'[t] # task[t] => task[t].revision = o
    BY <1>3 DEF CommitTasks, Update
  <1>5. ASSUME NEW k \in DOMAIN slot, slot'[k] # slot[k] PROVE slot[k].revision = o
    <2>1. k \in DOMAIN i.links.memberships
      BY <1>3, <1>5 DEF CommitTasks, Update, Reattached
    <2>2. k \in DOMAIN post.slots
      BY <1>2, <2>1 DEF InverseSound
    <2>3. SlotState(slot[k]) = post.slots[k]
      BY <1>2, <2>2 DEF PostImageHolds
    <2>4. post.slots[k].revision = o
      BY <1>2, <2>2 DEF PostSound
    <2>5. SlotState(slot[k]).revision = slot[k].revision
      BY DEF SlotState
    <2>. QED
      BY <2>3, <2>4, <2>5
  <1>6. ASSUME NEW b \in DOMAIN block, block'[b] # block[b] PROVE block[b].revision = o
    <2>1. b \in DOMAIN i.links.blocks
      BY <1>3, <1>6 DEF CommitTasks, Update, Reattached
    <2>2. b \in DOMAIN post.blocks
      BY <1>2, <2>1 DEF InverseSound
    <2>3. BlockState(block[b]) = post.blocks[b]
      BY <1>2, <2>2 DEF PostImageHolds
    <2>4. post.blocks[b].revision = o
      BY <1>2, <2>2 DEF PostSound
    <2>5. BlockState(block[b]).revision = block[b].revision
      BY DEF BlockState
    <2>. QED
      BY <2>3, <2>4, <2>5
  <1>. QED
    BY <1>4, <1>5, <1>6

\* An undo that restores rows rewrites only what the undone operation wrote last.
THEOREM RestoringNeverOverwrites == Spec => RestoringSparesLaterWork
  <1>1. Entries /\ [Next]_vars =>
            [\A o \in DOMAIN undo :
                Undone(o) /\ undo[o].inverse.kind # "delete_tasks" =>
                    /\ \A t \in DOMAIN task : task'[t] # task[t] => task[t].revision = o
                    /\ \A k \in DOMAIN slot : slot'[k] # slot[k] => slot[k].revision = o
                    /\ \A b \in DOMAIN block : block'[b] # block[b] => block[b].revision = o]_vars
    BY RestoringSpares
  <1>. QED
    BY <1>1, EntriesAreSound, PTL DEF Spec, RestoringSparesLaterWork

-----------------------------------------------------------------------------
(***************************************************************************)
(* References.                                                             *)
(***************************************************************************)

TasksRefer == TaskReferences(task, project, section, tag)
CatalogRefers == CatalogReferences(project, section, tag, template, slot)
BlocksRefer == BlockReferences(block, task, slot)
References == TasksRefer /\ CatalogRefers /\ BlocksRefer

LEMMA BlockWriteRefers ==
    ASSUME References, Fielded, NEW rows, WriteBlocks(rows), UNCHANGED catalogRows,
           HasFields(rows, BlockFields), \A b \in DOMAIN rows : BlockRefsOk(rows[b])
    PROVE  References'
  <1> USE DEF WriteBlocks, catalogRows
  <1>1. TasksRefer' /\ CatalogRefers'
    BY DEF References, TasksRefer, CatalogRefers, TaskReferences, CatalogReferences
  <1>2. ASSUME NEW b \in DOMAIN block'
        PROVE  /\ block'[b].task \in DOMAIN task \union {None}
               /\ block'[b].slot \in DOMAIN slot \union {None}
    <2>1. CASE b \in DOMAIN rows
      <3>1. block'[b].task = rows[b].task /\ block'[b].slot = rows[b].slot
        BY <2>1 DEF Update, HasFields, BlockFields
      <3>. QED
        BY <2>1, <3>1 DEF BlockRefsOk
    <2>2. CASE b \notin DOMAIN rows
      BY <1>2, <2>2 DEF Update, References, BlocksRefer, BlockReferences
    <2>. QED
      BY <2>1, <2>2
  <1>3. BlocksRefer'
    BY <1>2 DEF BlocksRefer, BlockReferences
  <1>. QED
    BY <1>1, <1>3 DEF References

LEMMA SlotWriteRefers ==
    ASSUME References, NEW k, NEW row, WriteSlot(k, row), UNCHANGED catalogRows,
           SlotFields \subseteq DOMAIN row, ProjectOk(row.project)
    PROVE  References'
  <1> USE DEF WriteSlot, catalogRows
  <1>1. TasksRefer'
    BY DEF References, TasksRefer, TaskReferences
  <1>2. /\ DOMAIN slot' = DOMAIN slot \union {k}
        /\ slot'[k].project \in DOMAIN project \union {None}
        /\ \A j \in DOMAIN slot : j # k => slot'[j] = slot[j]
    BY DEF Put, Update, Only, SlotFields, ProjectOk
  <1>3. CatalogRefers'
    BY <1>2 DEF References, CatalogRefers, CatalogReferences
  <1>4. BlocksRefer'
    BY <1>2 DEF References, BlocksRefer, BlockReferences
  <1>. QED
    BY <1>1, <1>3, <1>4 DEF References

LEMMA TimeBlockRefers ==
    ASSUME References, Fielded, TimeBlockNext, UNCHANGED catalogRows
    PROVE  References'
  <1> USE DEF catalogRows
  <1>1. ASSUME NEW b \in Blocks, NEW t, NEW k,
               CreateTimeBlock(b, [NewBlock EXCEPT !.task = t, !.slot = k])
        PROVE  References'
    <2> DEFINE row == [NewBlock EXCEPT !.task = t, !.slot = k]
    <2>1. HasFields(Only(b, row), BlockFields)
      BY DEF HasFields, Only, NewBlock, BlockFields
    <2>2. BlockRefsOk(row) /\ WriteBlocks(Only(b, row))
      BY <1>1 DEF CreateTimeBlock
    <2> HIDE DEF row
    <2>3. \A c \in DOMAIN Only(b, row) : BlockRefsOk(Only(b, row)[c])
      BY <2>2 DEF Only
    <2>. QED
      BY <2>1, <2>2, <2>3, BlockWriteRefers
  <1>2. ASSUME NEW b \in Blocks, NEW patch, PatchTimeBlock(b, patch) \/ SetTimeBlockRange(b, patch)
        PROVE  References'
    <2> DEFINE row == Patched(block[b], patch)
    <2>1. b \in DOMAIN block /\ WriteBlocks(Only(b, row))
      BY <1>2 DEF PatchTimeBlock, SetTimeBlockRange
    <2>2. HasFields(Only(b, row), BlockFields)
      BY <2>1 DEF HasFields, Only, Patched, Update, Fielded
    <2>3. BlockRefsOk(row)
      <3>1. CASE SetTimeBlockRange(b, patch)
        <4>1. row.task = block[b].task /\ row.slot = block[b].slot
          BY <2>1, <3>1 DEF SetTimeBlockRange, Patched, Update, Fielded, HasFields, BlockFields
        <4>. QED
          BY <2>1, <4>1 DEF References, BlocksRefer, BlockReferences, BlockRefsOk
      <3>. QED
        BY <1>2, <3>1 DEF PatchTimeBlock
    <2> HIDE DEF row
    <2>4. \A c \in DOMAIN Only(b, row) : BlockRefsOk(Only(b, row)[c])
      BY <2>3 DEF Only
    <2>. QED
      BY <2>1, <2>2, <2>4, BlockWriteRefers
  <1>3. ASSUME NEW target, ReplanMove(target) PROVE References'
    <2> DEFINE rows == [b \in Eligible(today) |-> [block[b] EXCEPT !.date = target]]
    <2>1. HasFields(rows, BlockFields)
      BY DEF HasFields, Eligible, Fielded
    <2>2. \A b \in DOMAIN rows : BlockRefsOk(rows[b])
      BY DEF Eligible, BlockRefsOk, References, BlocksRefer, BlockReferences, Fielded, HasFields,
             BlockFields
    <2>3. WriteBlocks(rows)
      BY <1>3 DEF ReplanMove
    <2> HIDE DEF rows
    <2>. QED
      BY <2>1, <2>2, <2>3, BlockWriteRefers
  <1>4. ASSUME NEW b, DeleteTimeBlock(b) PROVE References'
    BY <1>4 DEF DeleteTimeBlock, References, TasksRefer, CatalogRefers, BlocksRefer,
                TaskReferences, CatalogReferences, BlockReferences, Without
  <1>5. ASSUME ReplanDelete PROVE References'
    BY <1>5 DEF ReplanDelete, References, TasksRefer, CatalogRefers, BlocksRefer,
                TaskReferences, CatalogReferences, BlockReferences, Without
  <1>6. ASSUME NEW k, DeleteTimeSlot(k) PROVE References'
    <2>1. TasksRefer' /\ CatalogRefers'
      BY <1>6 DEF DeleteTimeSlot, References, TasksRefer, CatalogRefers, TaskReferences,
                  CatalogReferences, Without
    <2>2. BlocksRefer'
      BY <1>6 DEF DeleteTimeSlot, References, BlocksRefer, BlockReferences, Without, Fielded,
                  HasFields, BlockFields
    <2>. QED
      BY <2>1, <2>2 DEF References
  <1>7. ASSUME NEW k \in Slots, NEW p, CreateTimeSlot(k, p) PROVE References'
    BY <1>7, SlotWriteRefers DEF CreateTimeSlot, SlotFields
  <1>8. ASSUME NEW k \in Slots, NEW patch, PatchTimeSlot(k, patch) PROVE References'
    <2>1. SlotFields \subseteq DOMAIN Patched(slot[k], patch)
      BY <1>8 DEF PatchTimeSlot, Patched, Update, Fielded, HasFields
    <2>. QED
      BY <1>8, <2>1, SlotWriteRefers DEF PatchTimeSlot
  <1>9. ASSUME NEW k \in Slots,
               \/ \E t : AppendSlotTask(k, t) \/ RemoveSlotTask(k, t)
               \/ \E ids : ReorderSlotTasks(k, ids)
        PROVE  References'
    <2>1. PICK ids : k \in DOMAIN slot /\ WriteSlot(k, [slot[k] EXCEPT !.tasks = ids])
      BY <1>9 DEF AppendSlotTask, RemoveSlotTask, ReorderSlotTasks
    <2>2. /\ SlotFields \subseteq DOMAIN [slot[k] EXCEPT !.tasks = ids]
          /\ [slot[k] EXCEPT !.tasks = ids].project = slot[k].project
      BY <2>1 DEF Fielded, HasFields, SlotFields
    <2>3. ProjectOk(slot[k].project)
      BY <2>1 DEF References, CatalogRefers, CatalogReferences, ProjectOk
    <2>. QED
      BY <2>1, <2>2, <2>3, SlotWriteRefers
  <1>10. PreviewReplan \/ NextDay => References'
    BY DEF PreviewReplan, NextDay, References, TasksRefer, CatalogRefers, BlocksRefer,
           TaskReferences, CatalogReferences, BlockReferences
  <1>. QED
    BY <1>1, <1>2, <1>3, <1>4, <1>5, <1>6, <1>7, <1>8, <1>9, <1>10 DEF TimeBlockNext

\* Projects: a task of a deleted project leaves it with its section.
LEMMA ProjectRefers ==
    ASSUME References, Fielded, ProjectTree, ProjectNext
    PROVE  References'
  <1>1. ASSUME NEW p \in Projects, NEW parent, CreateProject(p, parent) \/ PatchProject(p, parent)
        PROVE  References'
    <2>1. /\ DOMAIN project' = DOMAIN project \union {p}
          /\ parent \in DOMAIN project \union {None}
          /\ \A q \in DOMAIN project' : project'[q] = IF q = p THEN parent ELSE project[q]
          /\ UNCHANGED <<task, slot, block, section, tag, template>>
      BY <1>1 DEF CreateProject, PatchProject, CatalogEvent, ProjectOk, Put, Update, Only,
                  catalogRows
    <2>2. TasksRefer' /\ BlocksRefer'
      BY <2>1 DEF References, TasksRefer, BlocksRefer, TaskReferences, BlockReferences
    <2>3. CatalogRefers'
      BY <2>1 DEF References, CatalogRefers, CatalogReferences
    <2>. QED
      BY <2>2, <2>3 DEF References
  <1>2. ASSUME NEW p \in Projects, DeleteProject(p) PROVE References'
    <2> DEFINE gone == {s \in DOMAIN section : section[s] = p}
    <2>1. /\ DOMAIN task' = DOMAIN task /\ DOMAIN slot' = DOMAIN slot
          /\ DOMAIN section' = DOMAIN section \ gone
          /\ DOMAIN project' = DOMAIN project \ {p}
          /\ p \in DOMAIN project
          /\ UNCHANGED <<block, tag>>
      BY <1>2 DEF DeleteProject, Update, Without, Stamped
    <2>2. ASSUME NEW t \in DOMAIN task
          PROVE  /\ task'[t].parent = task[t].parent /\ task'[t].source = task[t].source
                 /\ task[t].project # p => task'[t] = task[t]
                 /\ task[t].project = p => /\ task'[t].project = None /\ task'[t].section = None
                                           /\ task'[t].tags = task[t].tags
      BY <1>2 DEF DeleteProject, Update, Stamped, Fielded, HasFields, TaskFields
    <2>3. \A s \in DOMAIN section' : section'[s] = section[s] /\ section[s] # p
      BY <1>2 DEF DeleteProject, Without
    <2>4. TasksRefer'
      <3> SUFFICES ASSUME NEW t \in DOMAIN task
                   PROVE  /\ task'[t].project \in DOMAIN project' \union {None}
                          /\ task'[t].tags \subseteq DOMAIN tag'
                          /\ {task'[t].parent, task'[t].source} \subseteq DOMAIN task' \union {None}
                          /\ task'[t].section # None =>
                                /\ task'[t].section \in DOMAIN section'
                                /\ section'[task'[t].section] = task'[t].project
        BY <2>1 DEF TasksRefer, TaskReferences
      <3>1. CASE task[t].project = p
        BY <2>1, <2>2, <3>1 DEF References, TasksRefer, TaskReferences
      <3>2. CASE task[t].project # p
        <4>1. task'[t] = task[t]
          BY <2>2, <3>2
        <4>2. /\ task[t].project \in DOMAIN project \union {None}
              /\ task[t].tags \subseteq DOMAIN tag
              /\ {task[t].parent, task[t].source} \subseteq DOMAIN task \union {None}
              /\ task[t].section # None => /\ task[t].section \in DOMAIN section
                                           /\ section[task[t].section] = task[t].project
          BY DEF References, TasksRefer, TaskReferences
        <4>3. task[t].section # None => task[t].section \in DOMAIN section'
          BY <2>1, <3>2, <4>2
        <4>. QED
          BY <2>1, <2>3, <3>2, <4>1, <4>2, <4>3
      <3>. QED
        BY <3>1, <3>2
    <2>5. CatalogRefers'
      <3>1. \A q \in DOMAIN project' : project'[q] \in DOMAIN project' \union {None}
        <4>1. project[p] # p
          BY <2>1 DEF ProjectTree, Forest
        <4>2. \A q \in DOMAIN project' :
                  project'[q] = IF project[q] = p THEN project[p] ELSE project[q]
          BY <1>2 DEF DeleteProject
        <4>. QED
          BY <2>1, <4>1, <4>2 DEF ProjectTree
      <3>2. \A s \in DOMAIN section' : section'[s] \in DOMAIN project'
        BY <2>1, <2>3 DEF References, CatalogRefers, CatalogReferences
      <3>3. \A m \in DOMAIN template' : /\ template'[m].project \in DOMAIN project' \union {None}
                                        /\ template'[m].tags \subseteq DOMAIN tag'
        BY <1>2, <2>1 DEF DeleteProject, References, CatalogRefers, CatalogReferences,
                          Fielded, HasFields
      <3>4. \A k \in DOMAIN slot' : slot'[k].project \in DOMAIN project' \union {None}
        BY <1>2, <2>1 DEF DeleteProject, Update, Stamped, References, CatalogRefers,
                          CatalogReferences, Fielded, HasFields, SlotFields
      <3>. QED
        BY <3>1, <3>2, <3>3, <3>4 DEF CatalogRefers, CatalogReferences
    <2>6. BlocksRefer'
      BY <2>1 DEF References, BlocksRefer, BlockReferences
    <2>. QED
      BY <2>4, <2>5, <2>6 DEF References
  <1>. QED
    BY <1>1, <1>2 DEF ProjectNext

LEMMA LabelRefers ==
    ASSUME References, Fielded, LabelNext
    PROVE  References'
  <1>1. ASSUME NEW s, NEW p, CreateSection(s, p) PROVE References'
    <2>1. /\ DOMAIN section' = DOMAIN section \union {s} /\ section'[s] \in DOMAIN project
          /\ \A r \in DOMAIN section : section'[r] = section[r]
          /\ UNCHANGED <<task, project, slot, block, tag, template>>
      BY <1>1 DEF CreateSection, CatalogEvent, Put, Update, Only
    <2>2. TasksRefer' /\ BlocksRefer'
      BY <2>1 DEF References, TasksRefer, BlocksRefer, TaskReferences, BlockReferences
    <2>3. CatalogRefers'
      BY <2>1 DEF References, CatalogRefers, CatalogReferences
    <2>. QED
      BY <2>2, <2>3 DEF References
  <1>2. ASSUME NEW s, PatchSection(s) PROVE References'
    BY <1>2 DEF PatchSection, CatalogEvent, References, TasksRefer, CatalogRefers, BlocksRefer,
                TaskReferences, CatalogReferences, BlockReferences
  <1>3. ASSUME NEW s \in Sections, DeleteSection(s) PROVE References'
    <2>1. /\ DOMAIN task' = DOMAIN task
          /\ DOMAIN section' = DOMAIN section \ {s}
          /\ \A r \in DOMAIN section' : section'[r] = section[r]
          /\ UNCHANGED <<project, slot, block, tag, template>>
      BY <1>3 DEF DeleteSection, Update, Stamped, Without
    <2>2. ASSUME NEW t \in DOMAIN task
          PROVE  /\ task'[t].parent = task[t].parent /\ task'[t].source = task[t].source
                 /\ task[t].section # s => task'[t] = task[t]
                 /\ task[t].section = s => /\ task'[t].project = task[t].project
                                           /\ task'[t].section = None
                                           /\ task'[t].tags = task[t].tags
      BY <1>3 DEF DeleteSection, Update, Stamped, Fielded, HasFields, TaskFields
    <2>3. TasksRefer'
      BY <2>1, <2>2 DEF References, TasksRefer, TaskReferences
    <2>4. CatalogRefers' /\ BlocksRefer'
      BY <2>1 DEF References, CatalogRefers, BlocksRefer, CatalogReferences, BlockReferences
    <2>. QED
      BY <2>3, <2>4 DEF References
  <1>4. ASSUME NEW g, NEW n, CreateTag(g, n) \/ PatchTag(g, n) PROVE References'
    <2>1. /\ DOMAIN tag \subseteq DOMAIN tag'
          /\ UNCHANGED <<task, project, slot, block, section, template>>
      BY <1>4 DEF CreateTag, PatchTag, CatalogEvent, Put, Update, Only
    <2>2. TasksRefer' /\ BlocksRefer'
      BY <2>1 DEF References, TasksRefer, BlocksRefer, TaskReferences, BlockReferences
    <2>3. CatalogRefers'
      BY <2>1 DEF References, CatalogRefers, CatalogReferences
    <2>. QED
      BY <2>2, <2>3 DEF References
  <1>5. ASSUME NEW g, DeleteTag(g) PROVE References'
    <2>1. /\ DOMAIN task' = DOMAIN task
          /\ DOMAIN tag' = DOMAIN tag \ {g}
          /\ UNCHANGED <<project, section, slot, block>>
      BY <1>5 DEF DeleteTag, Update, Stamped, Without
    <2>2. ASSUME NEW t \in DOMAIN task
          PROVE  /\ task'[t].parent = task[t].parent /\ task'[t].source = task[t].source
                 /\ task'[t].project = task[t].project /\ task'[t].section = task[t].section
                 /\ task'[t].tags \subseteq task[t].tags \ {g}
      BY <1>5 DEF DeleteTag, Update, Stamped, Fielded, HasFields, TaskFields
    <2>3. TasksRefer'
      BY <2>1, <2>2 DEF References, TasksRefer, TaskReferences
    <2>4. \A m \in DOMAIN template' : /\ m \in DOMAIN template
                                      /\ template'[m].project = template[m].project
                                      /\ template'[m].tags = template[m].tags \ {g}
      BY <1>5 DEF DeleteTag, Fielded, HasFields
    <2>5. CatalogRefers'
      BY <2>1, <2>4 DEF References, CatalogRefers, CatalogReferences
    <2>6. BlocksRefer'
      BY <2>1 DEF References, BlocksRefer, BlockReferences
    <2>. QED
      BY <2>3, <2>5, <2>6 DEF References
  <1>. QED
    BY <1>1, <1>2, <1>3, <1>4, <1>5 DEF LabelNext

LEMMA TemplateRefers ==
    ASSUME References, TemplateNext
    PROVE  References'
  <1>1. ASSUME NEW m, NEW row, WriteTemplate(m, row) PROVE References'
    <2>1. /\ DOMAIN template' = DOMAIN template \union {m}
          /\ template'[m] = row
          /\ \A l \in DOMAIN template : l # m => template'[l] = template[l]
          /\ row.project \in DOMAIN project \union {None} /\ row.tags \subseteq DOMAIN tag
          /\ UNCHANGED <<task, project, slot, block, section, tag>>
      BY <1>1 DEF WriteTemplate, CatalogEvent, Put, Update, Only, ProjectOk
    <2>2. TasksRefer' /\ BlocksRefer'
      BY <2>1 DEF References, TasksRefer, BlocksRefer, TaskReferences, BlockReferences
    <2>3. CatalogRefers'
      BY <2>1 DEF References, CatalogRefers, CatalogReferences
    <2>. QED
      BY <2>2, <2>3 DEF References
  <1>2. ASSUME NEW m, DeleteTemplate(m) PROVE References'
    BY <1>2 DEF DeleteTemplate, CatalogEvent, Without, References, TasksRefer, CatalogRefers,
                BlocksRefer, TaskReferences, CatalogReferences, BlockReferences
  <1>3. ASSUME NEW rows, NEW f, WriteFilter(rows, f) PROVE References'
    BY <1>3 DEF WriteFilter, CatalogEvent, References, TasksRefer, CatalogRefers,
                BlocksRefer, TaskReferences, CatalogReferences, BlockReferences
  <1>. QED
    BY <1>1, <1>2, <1>3 DEF TemplateNext, CreateTemplate, PatchTemplate, CreateSavedFilter,
                            PatchSavedFilter, DeleteSavedFilter

\* The rows of a mutation of tasks: those it writes refer, those it removes are
\* named by no block any more, and a block it links again names a row it wrote.
LEMMA CommitTasksRefers ==
    ASSUME References, Fielded, NEW rows, NEW planned, NEW affected, NEW resync,
           CommitTasks(rows, planned, affected, resync),
           TaskReferences(rows, project, section, tag),
           DOMAIN planned.slots \subseteq DOMAIN slot,
           DOMAIN planned.blocks \subseteq DOMAIN block,
           \A k \in DOMAIN planned.slots : planned.slots[k].project = slot[k].project,
           \A b \in DOMAIN planned.blocks : /\ planned.blocks[b].slot = block[b].slot
                                            /\ planned.blocks[b].task \in DOMAIN rows \union {None},
           \A b \in DOMAIN block \ DOMAIN planned.blocks :
              block[b].task \in DOMAIN rows \union {None}
    PROVE  References'
  <1>1. /\ task' = rows /\ DOMAIN slot' = DOMAIN slot /\ DOMAIN block' = DOMAIN block
        /\ \A k \in DOMAIN slot : slot'[k].project = slot[k].project
        /\ \A b \in DOMAIN block : /\ block'[b].slot = block[b].slot
                                   /\ block'[b].task \in DOMAIN rows \union {None}
        /\ UNCHANGED <<project, section, tag, template>>
    BY DEF CommitTasks, Update
  <1>2. TasksRefer'
    BY <1>1 DEF TasksRefer
  <1>3. CatalogRefers' /\ BlocksRefer'
    BY <1>1 DEF References, CatalogRefers, CatalogReferences, BlocksRefer, BlockReferences
  <1>. QED
    BY <1>2, <1>3 DEF References

\* What a row has to name, with the tasks there are.
RowRefers(row, tasks) ==
    /\ ProjectOk(row.project) /\ SectionInProject(row) /\ row.tags \subseteq DOMAIN tag
    /\ {row.parent, row.source} \subseteq tasks \union {None}

LEMMA CheckedRefers ==
    ASSUME NEW f, NEW t, NEW row, TaskRefsOk(f, t, row), NEW tasks, DOMAIN f \subseteq tasks,
           row.source \in tasks \union {None}
    PROVE  RowRefers(row, tasks)
  BY DEF RowRefers, TaskRefsOk, ParentOk

\* Rows that refer, added to a table that does.
LEMMA UpdateRefers ==
    ASSUME TasksRefer, NEW rows,
           \A t \in DOMAIN rows : RowRefers(rows[t], DOMAIN task \union DOMAIN rows)
    PROVE  TaskReferences(Update(task, rows), project, section, tag)
  BY DEF TasksRefer, TaskReferences, Update, RowRefers, ProjectOk, SectionInProject

LEMMA WritingRefers ==
    ASSUME References, Fielded, NEW t, NEW row, TaskRefsOk(task, t, row),
           row.source \in DOMAIN task \union {None},
           CommitTasks(Put(task, t, row), NoPlanned, {t}, {})
    PROVE  References'
  <1>0. RowRefers(row, DOMAIN task \union {t})
    BY CheckedRefers
  <1>1. \A u \in DOMAIN Only(t, row) :
            RowRefers(Only(t, row)[u], DOMAIN task \union DOMAIN Only(t, row))
    BY <1>0 DEF Only
  <1>2. TaskReferences(Put(task, t, row), project, section, tag)
    BY <1>1, UpdateRefers DEF References, Put
  <1>3. DOMAIN task \subseteq DOMAIN Put(task, t, row)
    BY DEF Put, Update
  <1>4. DOMAIN NoPlanned.slots = {} /\ DOMAIN NoPlanned.blocks = {}
    BY DEF NoPlanned
  <1>5. \A b \in DOMAIN block : block[b].task \in DOMAIN Put(task, t, row) \union {None}
    BY <1>3 DEF References, BlocksRefer, BlockReferences
  <1>. QED
    BY <1>2, <1>4, <1>5, CommitTasksRefers

\* All but the references to tasks that go stays.
LEMMA ClearedFields ==
    ASSUME NEW row, TaskFields \subseteq DOMAIN row, NEW T, NEW new, new = Cleared(row, T)
    PROVE  /\ new.project = row.project /\ new.section = row.section /\ new.tags = row.tags
           /\ row.parent \in T => new.parent = None
           /\ row.parent \notin T => new.parent = row.parent
           /\ row.source \in T => new.source = None
           /\ row.source \notin T => new.source = row.source
  BY DEF Cleared, TaskFields

LEMMA DetachingRefers ==
    ASSUME References, Fielded, NEW T,
           CommitTasks(DeleteRows(task, T), Detached(T), T, {"tasks"})
    PROVE  References'
  <1> DEFINE rows == DeleteRows(task, T)
  <1>4. DOMAIN rows = DOMAIN task \ T /\ \A t \in DOMAIN rows : rows[t] = Cleared(task[t], T)
    BY DEF DeleteRows
  <1> HIDE DEF rows
  <1>1. TaskReferences(rows, project, section, tag)
    <2> SUFFICES ASSUME NEW t \in DOMAIN rows
                 PROVE  /\ rows[t].project \in DOMAIN project \union {None}
                        /\ rows[t].tags \subseteq DOMAIN tag
                        /\ {rows[t].parent, rows[t].source} \subseteq DOMAIN rows \union {None}
                        /\ rows[t].section # None =>
                              /\ rows[t].section \in DOMAIN section
                              /\ section[rows[t].section] = rows[t].project
      BY DEF TaskReferences
    <2>1. TaskFields \subseteq DOMAIN task[t] /\ rows[t] = Cleared(task[t], T)
      BY <1>4 DEF Fielded, HasFields
    <2> DEFINE new == rows[t]
    <2>2. /\ new.project = task[t].project /\ new.section = task[t].section
          /\ new.tags = task[t].tags
          /\ task[t].parent \in T => new.parent = None
          /\ task[t].parent \notin T => new.parent = task[t].parent
          /\ task[t].source \in T => new.source = None
          /\ task[t].source \notin T => new.source = task[t].source
      BY <2>1, ClearedFields
    <2>. QED
      BY <1>4, <2>2 DEF References, TasksRefer, TaskReferences
  <1> USE DEF rows
  <1>2. /\ DOMAIN Detached(T).slots \subseteq DOMAIN slot
        /\ DOMAIN Detached(T).blocks \subseteq DOMAIN block
        /\ \A k \in DOMAIN Detached(T).slots : Detached(T).slots[k].project = slot[k].project
    BY DEF Detached, Memberships, BlockLinks, Fielded, HasFields, SlotFields
  <1>3. \A b \in DOMAIN Detached(T).blocks : /\ Detached(T).blocks[b].slot = block[b].slot
                                             /\ Detached(T).blocks[b].task = None
    BY DEF Detached, BlockLinks, Fielded, HasFields, BlockFields
  <1>6. \A b \in DOMAIN block \ DOMAIN Detached(T).blocks :
            block[b].task \in DOMAIN DeleteRows(task, T) \union {None}
    BY DEF Detached, BlockLinks, DeleteRows, References, BlocksRefer, BlockReferences
  <1>. QED
    BY <1>1, <1>2, <1>3, <1>6, CommitTasksRefers

LEMMA ReattachingRefers ==
    ASSUME References, Fielded, NEW rows, NEW links, NEW resync,
           \A t \in DOMAIN rows : RowRefers(rows[t], DOMAIN task \union DOMAIN rows),
           LinksRestorable(links),
           \A b \in DOMAIN links.blocks : links.blocks[b] \in DOMAIN rows,
           CommitTasks(Update(task, rows), Reattached(links), DOMAIN rows, resync)
    PROVE  References'
  <1>1. TaskReferences(Update(task, rows), project, section, tag)
    BY UpdateRefers DEF References
  <1>2. /\ DOMAIN Reattached(links).slots \subseteq DOMAIN slot
        /\ DOMAIN Reattached(links).blocks \subseteq DOMAIN block
        /\ \A k \in DOMAIN Reattached(links).slots :
              Reattached(links).slots[k].project = slot[k].project
    BY DEF Reattached, LinksRestorable, Fielded, HasFields, SlotFields
  <1>3. \A b \in DOMAIN Reattached(links).blocks :
            /\ Reattached(links).blocks[b].slot = block[b].slot
            /\ Reattached(links).blocks[b].task \in DOMAIN Update(task, rows) \union {None}
    BY DEF Reattached, LinksRestorable, Fielded, HasFields, BlockFields, Update
  <1>4. \A b \in DOMAIN block : block[b].task \in DOMAIN Update(task, rows) \union {None}
    BY DEF References, BlocksRefer, BlockReferences, Update
  <1>. QED
    BY <1>1, <1>2, <1>3, <1>4, CommitTasksRefers

LEMMA TaskRefers ==
    ASSUME References, Fielded, UndoSound, TaskNext
    PROVE  References'
  <1>1. ASSUME NEW t, NEW m, ApplyTemplate(m, t) PROVE References'
    BY <1>1, WritingRefers DEF ApplyTemplate
  <1>2. ASSUME NEW t, NEW patch \in TaskPatches, PatchTask(t, patch) PROVE References'
    <2> DEFINE row == [Patched(task[t], patch) EXCEPT !.revision = Now]
    <2>1. row.source = task[t].source
      <3>1. "source" \notin DOMAIN patch
        BY TaskPatchesAssumption DEF IsPatch
      <3>. QED
        BY <1>2, <3>1 DEF PatchTask, Patched, Update, Fielded, HasFields, TaskFields
    <2>2. row.source \in DOMAIN task \union {None}
      BY <1>2, <2>1 DEF PatchTask, References, TasksRefer, TaskReferences
    <2>3. TaskRefsOk(task, t, row) /\ CommitTasks(Put(task, t, row), NoPlanned, {t}, {})
      BY <1>2 DEF PatchTask
    <2> HIDE DEF row
    <2>. QED
      BY <2>2, <2>3, WritingRefers
  <1>3. ASSUME NEW t, DeleteTask(t) PROVE References'
    BY <1>3, DetachingRefers DEF DeleteTask
  <1>4. ASSUME NEW o \in DOMAIN undo, Undo(o) PROVE References'
    <2> DEFINE i == undo[o].inverse
    <2>1. InverseSound(i, undo[o].post)
      BY DEF UndoSound
    <2>2. CASE i.kind = "delete_tasks" /\ UndoByDeleting(o)
      BY <2>2, DetachingRefers DEF UndoByDeleting
    <2>3. CASE i.kind = "restore_closure" /\ UndoDeletion(o)
      <3>1. /\ Insertable(i.rows)
            /\ LinksRestorable(i.links)
            /\ \A b \in DOMAIN i.links.blocks : i.links.blocks[b] \in DOMAIN i.rows
            /\ CommitTasks(Update(task, i.rows), Reattached(i.links), DOMAIN i.rows, {"tasks"})
        BY <2>1, <2>3 DEF UndoDeletion, InverseSound
      <3>2. \A t \in DOMAIN i.rows : RowRefers(i.rows[t], DOMAIN task \union DOMAIN i.rows)
        <4>1. DOMAIN Update(task, i.rows) = DOMAIN task \union DOMAIN i.rows
          BY DEF Update
        <4>. QED
          BY <3>1, <4>1, CheckedRefers DEF Insertable
      <3> HIDE DEF i
      <3>. QED
        BY <3>1, <3>2, ReattachingRefers
    <2>4. CASE i.kind = "restore_tasks" /\ UndoRewrite(o)
      <3> DEFINE rows == Stamped(i.rows)
      <3>0. \A t \in DOMAIN i.rows : RowRefers(i.rows[t], DOMAIN task \union DOMAIN i.rows)
        <4>1. \A t : DOMAIN RestoredBefore(i.rows, t) \subseteq DOMAIN task \union DOMAIN i.rows
          BY DEF RestoredBefore, Update
        <4>. QED
          BY <2>4, <4>1, CheckedRefers DEF UndoRewrite, RestoreRefs
      <3>1. /\ LinksRestorable(i.links)
            /\ DOMAIN rows = DOMAIN i.rows /\ DOMAIN i.rows = i.ids
            /\ \A b \in DOMAIN i.links.blocks : i.links.blocks[b] \in DOMAIN i.rows
        BY <2>1, <2>4 DEF UndoRewrite, InverseSound, Stamped
      <3>2. \A t \in DOMAIN rows : RowRefers(rows[t], DOMAIN task \union DOMAIN rows)
        BY <2>1, <3>0, <3>1 DEF Stamped, RowRefers, SectionInProject, InverseSound, HasFields,
                                TaskFields
      <3>3. PICK resync :
              CommitTasks(Update(task, rows), Reattached(i.links), DOMAIN rows, resync)
        BY <2>4, <3>1 DEF UndoRewrite
      <3> HIDE DEF i, rows
      <3>. QED
        BY <3>1, <3>2, <3>3, ReattachingRefers
    <2>. QED
      BY <1>4, <2>2, <2>3, <2>4 DEF Undo
  <1>. QED
    BY <1>1, <1>2, <1>3, <1>4 DEF TaskNext

LEMMA ReferencesStep ==
    ASSUME References, Fielded, UndoSound, ProjectTree, [Next]_vars
    PROVE  References'
  <1>1. CASE TimeBlockNext /\ UNCHANGED catalogRows
    BY <1>1, TimeBlockRefers
  <1>2. CASE ProjectNext \/ LabelNext \/ TemplateNext
    BY <1>2, ProjectRefers, LabelRefers, TemplateRefers
  <1>3. CASE TaskNext
    BY <1>3, TaskRefers
  <1>4. CASE UNCHANGED vars
    BY <1>4 DEF vars, References, TasksRefer, CatalogRefers, BlocksRefer, TaskReferences,
                CatalogReferences, BlockReferences
  <1>. QED
    BY <1>1, <1>2, <1>3, <1>4 DEF Next, catalogRows

LEMMA ReferencesInit == Init => References /\ ProjectTree
  BY InitSound
  DEF References, TasksRefer, CatalogRefers, BlocksRefer, ProjectTree, TypedRows, IsRows,
      CatalogReferences

\* Whatever is deleted, restored or redone in between, no task, section, template,
\* slot, block or project names a row that is not there, and a task's section is
\* one of its own project.
THEOREM NothingDangles ==
    Spec => [](/\ TaskReferences(task, project, section, tag)
               /\ CatalogReferences(project, section, tag, template, slot)
               /\ BlockReferences(block, task, slot))
  <1> DEFINE Inv == References /\ Entries /\ ProjectTree
  <1>1. Init => Inv
    BY ReferencesInit, EntriesInit
  <1>2. Inv /\ [Next]_vars => Inv'
    BY ReferencesStep, EntriesStep, TreeStep DEF Entries
  <1>3. Inv => /\ TaskReferences(task, project, section, tag)
               /\ CatalogReferences(project, section, tag, template, slot)
               /\ BlockReferences(block, task, slot)
    BY DEF References, TasksRefer, CatalogRefers, BlocksRefer
  <1>. QED
    BY <1>1, <1>2, <1>3, PTL DEF Spec

-----------------------------------------------------------------------------
(***************************************************************************)
(* Lists.  Facts about all lists follow from the empty one and from the    *)
(* append of an entry; Selected and Reinsert are given by what they do     *)
(* with each of the two.                                                   *)
(***************************************************************************)

LEMMA LeastNatural ==
    ASSUME NEW T, T \subseteq Nat, T # {}
    PROVE  \E n \in T : \A m \in T : n <= m
  <1>1. PICK n \in T : \A m \in T : ~(<<m, n>> \in OpToRel(<, Nat))
    BY NatLessThanWellFounded, WFMin
  <1>2. \A m \in T : ~(m < n)
    BY <1>1 DEF OpToRel
  <1>. QED
    BY <1>2

LEMMA UpTo ==
    ASSUME NEW n \in Nat, NEW S, 0 \in S, \A m \in 0..(n - 1) : m \in S => m + 1 \in S
    PROVE  0..n \subseteq S
  <1> DEFINE T == {m \in 0..n : m \notin S}
  <1> SUFFICES ASSUME T # {} PROVE FALSE
    OBVIOUS
  <1>1. PICK m \in T : \A k \in T : m <= k
    <2>1. T \subseteq Nat
      OBVIOUS
    <2> HIDE DEF T
    <2>. QED
      BY <2>1, LeastNatural
  <1>2. m # 0 /\ m - 1 \in 0..(n - 1)
    OBVIOUS
  <1>3. m - 1 \in S
    BY <1>1, <1>2
  <1>. QED
    BY <1>2, <1>3

LEMMA Appending ==
    ASSUME NEW X, NEW P, <<>> \in P,
           \A s \in Seq(X) \cap P : \A x \in X : Append(s, x) \in P
    PROVE  Seq(X) \subseteq P
  <1> SUFFICES ASSUME NEW s \in Seq(X) PROVE s \in P
    OBVIOUS
  <1> DEFINE n == Len(s)
             First(m) == SubSeq(s, 1, m)
             S == {m \in 0..n : First(m) \in P}
  <1>1. n \in Nat /\ First(0) = <<>> /\ First(n) = s
    OBVIOUS
  <1>2. \A m \in 0..(n - 1) : /\ First(m) \in Seq(X) /\ s[m + 1] \in X
                             /\ First(m + 1) = Append(First(m), s[m + 1])
    OBVIOUS
  <1> HIDE DEF n, First
  <1>3. 0 \in S
    BY <1>1
  <1>4. ASSUME NEW m \in 0..(n - 1), m \in S PROVE m + 1 \in S
    <2>1. First(m) \in Seq(X) \cap P /\ s[m + 1] \in X
      BY <1>2, <1>4
    <2>2. Append(First(m), s[m + 1]) \in P
      BY <2>1
    <2>3. m + 1 \in 0..n
      BY <1>1
    <2>. QED
      BY <1>2, <2>2, <2>3
  <1>5. 0..n \subseteq S
    <2> HIDE DEF S
    <2>. QED
      BY <1>1, <1>3, <1>4, UpTo
  <1>. QED
    BY <1>1, <1>5

\* A recursion over a list, and that over the list with one entry more.
LEMMA SelectedEmpty == \A S : Selected(<<>>, S) = <<>>
  <1> SUFFICES ASSUME NEW S PROVE Selected(<<>>, S) = <<>>
    OBVIOUS
  <1> DEFINE Rec(f) == f = [n \in 0..0 |->
                              IF n = 0 THEN <<>>
                              ELSE IF <<>>[n] \in S THEN Append(f[n - 1], <<>>[n]) ELSE f[n - 1]]
  <1>1. Rec([n \in 0..0 |-> <<>>])
    OBVIOUS
  <1>2. \A f : Rec(f) => f[0] = <<>>
    OBVIOUS
  <1>3. Selected(<<>>, S) = (CHOOSE f : Rec(f))[0]
    BY DEF Selected
  <1> HIDE DEF Rec
  <1>. QED
    BY <1>1, <1>2, <1>3

\* f steps through the first n entries of seq.
Selecting(f, seq, S, n) ==
    /\ DOMAIN f = 0..n /\ f[0] = <<>>
    /\ \A j \in 1..n : f[j] = IF seq[j] \in S THEN Append(f[j - 1], seq[j]) ELSE f[j - 1]

LEMMA SelectingExists ==
    ASSUME NEW seq, NEW S, NEW n \in Nat
    PROVE  \E f : Selecting(f, seq, S, n)
  <1> DEFINE T == {m \in 0..n : \E f : Selecting(f, seq, S, m)}
  <1>1. 0 \in T
    <2>1. Selecting([j \in 0..0 |-> <<>>], seq, S, 0)
      BY DEF Selecting
    <2>. QED
      BY <2>1
  <1>2. ASSUME NEW m \in 0..(n - 1), m \in T PROVE m + 1 \in T
    <2>1. PICK f : Selecting(f, seq, S, m)
      BY <1>2
    <2> DEFINE g == [j \in 0..(m + 1) |->
                       IF j <= m THEN f[j]
                       ELSE IF seq[j] \in S THEN Append(f[m], seq[j]) ELSE f[m]]
    <2>2. Selecting(g, seq, S, m + 1)
      BY <2>1 DEF Selecting
    <2>. QED
      BY <2>2
  <1>3. n \in T
    <2> HIDE DEF T
    <2>. QED
      BY <1>1, <1>2, UpTo
  <1>. QED
    BY <1>3

LEMMA SelectingUnique ==
    ASSUME NEW seq, NEW S, NEW n \in Nat, NEW m \in 0..n, NEW f, NEW g, NEW other,
           Selecting(f, seq, S, n), Selecting(g, other, S, m),
           \A j \in 1..m : seq[j] = other[j]
    PROVE  f[m] = g[m]
  <1> DEFINE T == {j \in 0..m : f[j] = g[j]}
  <1>1. 0 \in T
    BY DEF Selecting
  <1>2. ASSUME NEW j \in 0..(m - 1), j \in T PROVE j + 1 \in T
    BY <1>2 DEF Selecting
  <1>3. m \in T
    <2> HIDE DEF T
    <2>. QED
      BY <1>1, <1>2, UpTo
  <1>. QED
    BY <1>3

LEMMA SelectedIs ==
    ASSUME NEW seq, NEW S, Len(seq) \in Nat
    PROVE  \E f : Selecting(f, seq, S, Len(seq)) /\ Selected(seq, S) = f[Len(seq)]
  <1> DEFINE n == Len(seq)
             Entry(f, j) == IF j = 0 THEN <<>>
                            ELSE IF seq[j] \in S THEN Append(f[j - 1], seq[j]) ELSE f[j - 1]
             Rec(f) == f = [j \in 0..n |-> Entry(f, j)]
  <1>1. PICK f : Selecting(f, seq, S, n)
    BY SelectingExists
  <1>2. Selected(seq, S) = (CHOOSE g : Rec(g))[n]
    BY DEF Selected
  <1> HIDE DEF n
  <1>3. ASSUME NEW g, Rec(g) PROVE Selecting(g, seq, S, n)
    <2>1. DOMAIN g = 0..n /\ \A j \in 0..n : g[j] = Entry(g, j)
      BY <1>3
    <2>2. 0 \in 0..n /\ \A j \in 1..n : j \in 0..n /\ j # 0
      BY DEF n
    <2>3. g[0] = <<>>
      BY <2>1, <2>2
    <2>4. ASSUME NEW j \in 1..n
          PROVE  g[j] = IF seq[j] \in S THEN Append(g[j - 1], seq[j]) ELSE g[j - 1]
      BY <2>1, <2>2
    <2>. QED
      BY <2>1, <2>3, <2>4 DEF Selecting
  <1>4. Rec([j \in 0..n |-> f[j]])
    <2> DEFINE h == [j \in 0..n |-> f[j]]
    <2>1. ASSUME NEW j \in 0..n PROVE h[j] = Entry(h, j)
      <3>1. j # 0 => j - 1 \in 0..n
        BY DEF n
      <3>2. j # 0 => h[j - 1] = f[j - 1]
        BY <3>1
      <3>3. h[j] = f[j]
        OBVIOUS
      <3> HIDE DEF h
      <3>4. CASE j = 0
        BY <1>1, <3>3, <3>4 DEF Selecting
      <3>5. CASE j # 0
        <4>1. j \in 1..n
          BY <3>5
        <4>2. f[j] = IF seq[j] \in S THEN Append(f[j - 1], seq[j]) ELSE f[j - 1]
          BY <1>1, <4>1 DEF Selecting
        <4>. QED
          BY <3>2, <3>3, <3>5, <4>2
      <3>. QED
        BY <3>4, <3>5
    <2>. QED
      BY <2>1
  <1> HIDE DEF Rec
  <1>. QED
    BY <1>2, <1>3, <1>4 DEF n

LEMMA SelectedAppend ==
    ASSUME NEW X, NEW seq \in Seq(X), NEW x \in X, NEW S
    PROVE  Selected(Append(seq, x), S) =
              IF x \in S THEN Append(Selected(seq, S), x) ELSE Selected(seq, S)
  <1> DEFINE longer == Append(seq, x)
             n == Len(seq)
  <1>1. Len(longer) = n + 1 /\ n \in Nat /\ longer[n + 1] = x /\ \A j \in 1..n : longer[j] = seq[j]
    OBVIOUS
  <1> HIDE DEF longer, n
  <1>2. PICK f : Selecting(f, longer, S, n + 1) /\ Selected(longer, S) = f[n + 1]
    BY <1>1, SelectedIs
  <1>3. PICK g : Selecting(g, seq, S, n) /\ Selected(seq, S) = g[n]
    BY <1>1, SelectedIs DEF n
  <1>4. f[n] = g[n]
    BY <1>1, <1>2, <1>3, SelectingUnique
  <1>5. f[n + 1] = IF x \in S THEN Append(f[n], x) ELSE f[n]
    BY <1>1, <1>2 DEF Selecting
  <1>. QED
    BY <1>2, <1>3, <1>4, <1>5 DEF longer

\* f puts the first n entries of ms back into ids.
Reinserting(f, ids, ms, n) ==
    /\ DOMAIN f = 0..n /\ f[0] = ids
    /\ \A j \in 1..n : f[j] = InsertAt(f[j - 1], ms[j].position, ms[j].task)

LEMMA ReinsertingExists ==
    ASSUME NEW ids, NEW ms, NEW n \in Nat
    PROVE  \E f : Reinserting(f, ids, ms, n)
  <1> DEFINE T == {m \in 0..n : \E f : Reinserting(f, ids, ms, m)}
  <1>1. 0 \in T
    <2>1. Reinserting([j \in 0..0 |-> ids], ids, ms, 0)
      BY DEF Reinserting
    <2>. QED
      BY <2>1
  <1>2. ASSUME NEW m \in 0..(n - 1), m \in T PROVE m + 1 \in T
    <2>1. PICK f : Reinserting(f, ids, ms, m)
      BY <1>2
    <2> DEFINE g == [j \in 0..(m + 1) |->
                       IF j <= m THEN f[j] ELSE InsertAt(f[m], ms[j].position, ms[j].task)]
    <2>2. Reinserting(g, ids, ms, m + 1)
      <3>1. DOMAIN g = 0..(m + 1) /\ g[0] = ids
        BY <2>1 DEF Reinserting
      <3>2. ASSUME NEW j \in 1..(m + 1)
            PROVE  g[j] = InsertAt(g[j - 1], ms[j].position, ms[j].task)
        <4>1. CASE j <= m
          <5>1. g[j] = f[j] /\ g[j - 1] = f[j - 1] /\ j \in 1..m
            BY <4>1
          <5> HIDE DEF g
          <5>. QED
            BY <2>1, <5>1 DEF Reinserting
        <4>2. CASE j = m + 1
          <5>1. g[j - 1] = f[m] /\ g[j] = InsertAt(f[m], ms[j].position, ms[j].task)
            BY <4>2
          <5>. QED
            BY <5>1
        <4>. QED
          BY <4>1, <4>2
      <3>. QED
        BY <3>1, <3>2 DEF Reinserting
    <2>. QED
      BY <2>2
  <1>3. n \in T
    <2> HIDE DEF T
    <2>. QED
      BY <1>1, <1>2, UpTo
  <1>. QED
    BY <1>3

LEMMA ReinsertingUnique ==
    ASSUME NEW ids, NEW ms, NEW n \in Nat, NEW m \in 0..n, NEW f, NEW g, NEW other,
           Reinserting(f, ids, ms, n), Reinserting(g, ids, other, m),
           \A j \in 1..m : ms[j] = other[j]
    PROVE  f[m] = g[m]
  <1> DEFINE T == {j \in 0..m : f[j] = g[j]}
  <1>1. 0 \in T
    BY DEF Reinserting
  <1>2. ASSUME NEW j \in 0..(m - 1), j \in T PROVE j + 1 \in T
    <2>1. j + 1 \in 1..m /\ j + 1 \in 1..n /\ (j + 1) - 1 = j
      OBVIOUS
    <2>2. f[j + 1] = InsertAt(f[j], ms[j + 1].position, ms[j + 1].task)
      BY <2>1 DEF Reinserting
    <2>3. g[j + 1] = InsertAt(g[j], other[j + 1].position, other[j + 1].task)
      BY <2>1 DEF Reinserting
    <2>. QED
      BY <1>2, <2>1, <2>2, <2>3
  <1>3. m \in T
    <2> HIDE DEF T
    <2>. QED
      BY <1>1, <1>2, UpTo
  <1>. QED
    BY <1>3

LEMMA ReinsertIs ==
    ASSUME NEW ids, NEW ms, Len(ms) \in Nat
    PROVE  \E f : Reinserting(f, ids, ms, Len(ms)) /\ Reinsert(ids, ms) = f[Len(ms)]
  <1> DEFINE n == Len(ms)
             Entry(f, j) == IF j = 0 THEN ids
                            ELSE InsertAt(f[j - 1], ms[j].position, ms[j].task)
             Rec(f) == f = [j \in 0..n |-> Entry(f, j)]
  <1>1. PICK f : Reinserting(f, ids, ms, n)
    BY ReinsertingExists
  <1>2. Reinsert(ids, ms) = (CHOOSE g : Rec(g))[n]
    BY DEF Reinsert
  <1> HIDE DEF n
  <1>3. ASSUME NEW g, Rec(g) PROVE Reinserting(g, ids, ms, n)
    <2>1. DOMAIN g = 0..n /\ \A j \in 0..n : g[j] = Entry(g, j)
      BY <1>3
    <2>2. 0 \in 0..n /\ \A j \in 1..n : j \in 0..n /\ j # 0
      BY DEF n
    <2>3. g[0] = ids
      BY <2>1, <2>2
    <2>4. ASSUME NEW j \in 1..n
          PROVE  g[j] = InsertAt(g[j - 1], ms[j].position, ms[j].task)
      BY <2>1, <2>2
    <2>. QED
      BY <2>1, <2>3, <2>4 DEF Reinserting
  <1>4. Rec([j \in 0..n |-> f[j]])
    <2> DEFINE h == [j \in 0..n |-> f[j]]
    <2>1. ASSUME NEW j \in 0..n PROVE h[j] = Entry(h, j)
      <3>1. j # 0 => j - 1 \in 0..n
        BY DEF n
      <3>2. j # 0 => h[j - 1] = f[j - 1]
        BY <3>1
      <3>3. h[j] = f[j]
        OBVIOUS
      <3> HIDE DEF h
      <3>4. CASE j = 0
        BY <1>1, <3>3, <3>4 DEF Reinserting
      <3>5. CASE j # 0
        <4>1. j \in 1..n
          BY <3>5
        <4>2. f[j] = InsertAt(f[j - 1], ms[j].position, ms[j].task)
          BY <1>1, <4>1 DEF Reinserting
        <4>. QED
          BY <3>2, <3>3, <3>5, <4>2
      <3>. QED
        BY <3>4, <3>5
    <2>. QED
      BY <2>1
  <1> HIDE DEF Rec
  <1>. QED
    BY <1>2, <1>3, <1>4 DEF n

LEMMA ReinsertEmpty == \A ids : Reinsert(ids, <<>>) = ids
  <1> SUFFICES ASSUME NEW ids PROVE Reinsert(ids, <<>>) = ids
    OBVIOUS
  <1>1. PICK f : Reinserting(f, ids, <<>>, Len(<<>>)) /\ Reinsert(ids, <<>>) = f[Len(<<>>)]
    BY ReinsertIs
  <1>. QED
    BY <1>1 DEF Reinserting

LEMMA ReinsertAppend ==
    ASSUME NEW X, NEW ids, NEW ms \in Seq(X), NEW m \in X
    PROVE  Reinsert(ids, Append(ms, m)) = InsertAt(Reinsert(ids, ms), m.position, m.task)
  <1> DEFINE longer == Append(ms, m)
             n == Len(ms)
  <1>1. Len(longer) = n + 1 /\ n \in Nat /\ longer[n + 1] = m /\ \A j \in 1..n : longer[j] = ms[j]
    OBVIOUS
  <1> HIDE DEF longer, n
  <1>2. PICK f : Reinserting(f, ids, longer, n + 1) /\ Reinsert(ids, longer) = f[n + 1]
    BY <1>1, ReinsertIs
  <1>3. PICK g : Reinserting(g, ids, ms, n) /\ Reinsert(ids, ms) = g[n]
    BY <1>1, ReinsertIs DEF n
  <1>4. f[n] = g[n]
    BY <1>1, <1>2, <1>3, ReinsertingUnique
  <1>5. f[n + 1] = InsertAt(f[n], m.position, m.task)
    <2>1. n + 1 \in 1..(n + 1) /\ (n + 1) - 1 = n
      BY <1>1
    <2>2. f[n + 1] = InsertAt(f[(n + 1) - 1], longer[n + 1].position, longer[n + 1].task)
      BY <1>2, <2>1 DEF Reinserting
    <2>. QED
      BY <1>1, <2>1, <2>2
  <1>. QED
    BY <1>2, <1>3, <1>4, <1>5 DEF longer

-----------------------------------------------------------------------------
\* What Selected and Reinsert do to a list.

LEMMA AppendFacts ==
    ASSUME NEW X, NEW s \in Seq(X), NEW x \in X
    PROVE  /\ Append(s, x) \in Seq(X) /\ Len(Append(s, x)) = Len(s) + 1
           /\ ToSet(Append(s, x)) = ToSet(s) \union {x}
           /\ Unique(Append(s, x)) <=> Unique(s) /\ x \notin ToSet(s)
  <1> DEFINE longer == Append(s, x)
             n == Len(s)
  <1>1. /\ longer \in Seq(X) /\ Len(longer) = n + 1 /\ n \in Nat
        /\ DOMAIN longer = 1..(n + 1) /\ DOMAIN s = 1..n
        /\ longer[n + 1] = x /\ \A j \in 1..n : longer[j] = s[j]
    OBVIOUS
  <1> HIDE DEF longer, n
  <1>2. ToSet(longer) = ToSet(s) \union {x}
    <2>1. \A j \in 1..n : j \in 1..(n + 1)
      BY <1>1
    <2>2. \A j \in 1..(n + 1) : j \in 1..n \/ j = n + 1
      BY <1>1
    <2>3. n + 1 \in 1..(n + 1)
      BY <1>1
    <2>. QED
      BY <1>1, <2>1, <2>2, <2>3 DEF ToSet
  <1>3. Unique(longer) => Unique(s) /\ x \notin ToSet(s)
    <2> SUFFICES ASSUME Unique(longer) PROVE Unique(s) /\ x \notin ToSet(s)
      OBVIOUS
    <2>1. \A j \in 1..n : j \in DOMAIN longer /\ j # n + 1
      BY <1>1
    <2>2. n + 1 \in DOMAIN longer
      BY <1>1
    <2>. QED
      BY <1>1, <2>1, <2>2 DEF Unique, ToSet
  <1>4. Unique(s) /\ x \notin ToSet(s) => Unique(longer)
    <2>1. \A j \in DOMAIN longer : j \in 1..n \/ j = n + 1
      BY <1>1
    <2>. QED
      BY <1>1, <2>1 DEF Unique, ToSet
  <1>. QED
    BY <1>1, <1>2, <1>3, <1>4 DEF longer, n

LEMMA EmptyFacts == Len(<<>>) = 0 /\ ToSet(<<>>) = {} /\ Unique(<<>>) /\ \A X : <<>> \in Seq(X)
  BY DEF ToSet, Unique

LEMMA SelectedFrom ==
    ASSUME NEW X, NEW S, NEW seq \in Seq(X)
    PROVE  /\ Selected(seq, S) \in Seq(X \intersect S)
           /\ Len(Selected(seq, S)) <= Len(seq)
           /\ ToSet(Selected(seq, S)) = ToSet(seq) \intersect S
           /\ Unique(seq) => Unique(Selected(seq, S))
  <1> DEFINE Good(s) == /\ Selected(s, S) \in Seq(X \intersect S)
                        /\ Len(Selected(s, S)) <= Len(s)
                        /\ ToSet(Selected(s, S)) = ToSet(s) \intersect S
                        /\ Unique(s) => Unique(Selected(s, S))
             P == {s \in Seq(X) : Good(s)}
  <1>1. <<>> \in P
    <2> DEFINE e == <<>>
    <2>1. Selected(e, S) = e /\ e \in Seq(X) /\ e \in Seq(X \intersect S)
      BY SelectedEmpty, EmptyFacts
    <2>2. ToSet(e) = ToSet(e) \intersect S /\ Len(e) <= Len(e)
      BY EmptyFacts
    <2> HIDE DEF e
    <2>3. Good(e)
      BY <2>1, <2>2
    <2> HIDE DEF Good
    <2>4. e \in P
      BY <2>1, <2>3
    <2> HIDE DEF P
    <2>. QED
      BY <2>4 DEF e
  <1>2. ASSUME NEW s \in Seq(X) \intersect P, NEW x \in X PROVE Append(s, x) \in P
    <2>1. /\ Append(s, x) \in Seq(X) /\ Len(Append(s, x)) = Len(s) + 1
          /\ ToSet(Append(s, x)) = ToSet(s) \union {x}
          /\ Unique(Append(s, x)) <=> Unique(s) /\ x \notin ToSet(s)
      BY AppendFacts
    <2>2. Good(s)
      BY <1>2
    <2>3. CASE x \in S
      <3> DEFINE r == Selected(s, S)
      <3>1. r \in Seq(X \intersect S) /\ x \in X \intersect S
        BY <2>2, <2>3
      <3>2. Selected(Append(s, x), S) = Append(r, x)
        BY <2>3, SelectedAppend
      <3> HIDE DEF r
      <3>3. /\ Append(r, x) \in Seq(X \intersect S) /\ Len(Append(r, x)) = Len(r) + 1
            /\ ToSet(Append(r, x)) = ToSet(r) \union {x}
            /\ Unique(Append(r, x)) <=> Unique(r) /\ x \notin ToSet(r)
        BY <3>1, AppendFacts
      <3>4. Len(r) \in Nat /\ Len(s) \in Nat /\ Len(r) <= Len(s)
        BY <2>2, <3>1 DEF r
      <3>5. ToSet(r) = ToSet(s) \intersect S /\ (Unique(s) => Unique(r))
        BY <2>2 DEF r
      <3> DEFINE new == Append(s, x)
                 kept == Append(r, x)
      <3>6. kept \in Seq(X \intersect S) /\ Len(kept) <= Len(new)
        BY <2>1, <3>3, <3>4
      <3>7. ToSet(kept) = ToSet(new) \intersect S
        BY <2>1, <2>3, <3>3, <3>5
      <3>8. Unique(new) => Unique(kept)
        BY <2>1, <3>3, <3>5
      <3>9. new \in Seq(X) /\ Selected(new, S) = kept
        BY <2>1, <3>2
      <3> HIDE DEF new, kept
      <3>10. Good(new)
        BY <3>6, <3>7, <3>8, <3>9
      <3> HIDE DEF Good
      <3>11. new \in P
        BY <3>9, <3>10
      <3> HIDE DEF P
      <3>. QED
        BY <3>11 DEF new
    <2>4. CASE x \notin S
      <3>1. Selected(Append(s, x), S) = Selected(s, S)
        BY <2>4, SelectedAppend
      <3>2. Len(Selected(s, S)) \in Nat /\ Len(s) \in Nat
        BY <2>2
      <3> DEFINE new == Append(s, x)
      <3>3. ToSet(Selected(s, S)) = ToSet(new) \intersect S
        BY <2>1, <2>2, <2>4
      <3>4. Unique(new) => Unique(Selected(s, S))
        BY <2>1, <2>2
      <3>5. Len(Selected(s, S)) <= Len(new) /\ new \in Seq(X)
        BY <2>1, <2>2, <3>2
      <3>6. Selected(new, S) = Selected(s, S)
        BY <3>1
      <3> HIDE DEF new
      <3>7. Good(new)
        BY <2>2, <3>3, <3>4, <3>5, <3>6
      <3> HIDE DEF Good
      <3>8. new \in P
        BY <3>5, <3>7
      <3> HIDE DEF P
      <3>. QED
        BY <3>8 DEF new
    <2>. QED
      BY <2>3, <2>4
  <1>3. Seq(X) \subseteq P
    <2> HIDE DEF P
    <2>. QED
      BY <1>1, <1>2, Appending
  <1>. QED
    BY <1>3

LEMMA JoinFacts ==
    ASSUME NEW X, NEW s \in Seq(X), NEW t \in Seq(X)
    PROVE  /\ s \o t \in Seq(X) /\ Len(s \o t) = Len(s) + Len(t)
           /\ \A i \in 1..Len(s) : (s \o t)[i] = s[i]
           /\ \A i \in 1..Len(t) : (s \o t)[Len(s) + i] = t[i]
  OBVIOUS

LEMMA InsertFacts ==
    ASSUME NEW X, NEW s \in Seq(X), NEW x \in X, NEW p \in 1..(Len(s) + 1)
    PROVE  /\ InsertAt(s, p, x) \in Seq(X) /\ Len(InsertAt(s, p, x)) = Len(s) + 1
           /\ ToSet(InsertAt(s, p, x)) = ToSet(s) \union {x}
           /\ \A i \in 1..(Len(s) + 1) :
                 InsertAt(s, p, x)[i] = IF i < p THEN s[i] ELSE IF i = p THEN x ELSE s[i - 1]
  <1> DEFINE n == Len(s)
             r == InsertAt(s, p, x)
             front == SubSeq(s, 1, p - 1)
             back == SubSeq(s, p, Len(s))
             mid == <<x>>
  <1>0. n \in Nat /\ n = Len(s) /\ p \in 1..(n + 1)
    OBVIOUS
  <1>g. r = front \o mid \o back
    BY DEF InsertAt
  <1>a. front \in Seq(X) /\ Len(front) = p - 1 /\ \A i \in 1..(p - 1) : front[i] = s[i]
    OBVIOUS
  <1>b. back \in Seq(X) /\ Len(back) = n - p + 1 /\ \A i \in 1..(n - p + 1) : back[i] = s[p + i - 1]
    OBVIOUS
  <1>c. mid \in Seq(X) /\ Len(mid) = 1 /\ mid[1] = x
    OBVIOUS
  <1> HIDE DEF n, r, front, mid, back
  <1> DEFINE both == front \o mid
  <1>d. /\ both \in Seq(X) /\ Len(both) = p
        /\ \A i \in 1..(p - 1) : both[i] = s[i]
        /\ both[p] = x
    <2>1. /\ both \in Seq(X) /\ Len(both) = Len(front) + Len(mid)
          /\ \A i \in 1..Len(front) : both[i] = front[i]
          /\ \A i \in 1..Len(mid) : both[Len(front) + i] = mid[i]
      <3>1. front \in Seq(X) /\ mid \in Seq(X)
        BY <1>a, <1>c
      <3>. QED
        BY <3>1, JoinFacts
    <2> HIDE DEF both
    <2>. QED
      BY <1>0, <1>a, <1>c, <2>1
  <1>e. r = both \o back
    BY <1>g
  <1> HIDE DEF both
  <1>f. /\ r \in Seq(X) /\ Len(r) = Len(both) + Len(back)
        /\ \A i \in 1..Len(both) : r[i] = both[i]
        /\ \A i \in 1..Len(back) : r[Len(both) + i] = back[i]
    <2>1. both \in Seq(X) /\ back \in Seq(X)
      BY <1>b, <1>d
    <2>. QED
      BY <1>e, <2>1, JoinFacts
  <1>1. /\ r \in Seq(X) /\ Len(r) = n + 1 /\ n \in Nat /\ DOMAIN r = 1..(n + 1)
        /\ DOMAIN s = 1..n
    BY <1>0, <1>b, <1>d, <1>f
  <1>2. \A i \in 1..(n + 1) : r[i] = IF i < p THEN s[i] ELSE IF i = p THEN x ELSE s[i - 1]
    <2> SUFFICES ASSUME NEW i \in 1..(n + 1)
                 PROVE  r[i] = IF i < p THEN s[i] ELSE IF i = p THEN x ELSE s[i - 1]
      OBVIOUS
    <2>1. CASE i <= p
      BY <1>0, <1>d, <1>f, <2>1
    <2>2. CASE i > p
      <3>1. i - p \in 1..(n - p + 1) /\ Len(both) + (i - p) = i /\ p + (i - p) - 1 = i - 1
        BY <1>0, <1>d, <2>2
      <3>2. r[Len(both) + (i - p)] = back[i - p]
        BY <1>b, <1>f, <3>1
      <3>3. back[i - p] = s[p + (i - p) - 1]
        BY <1>b, <3>1
      <3>4. r[i] = back[i - p]
        BY <3>1, <3>2
      <3>5. back[i - p] = s[i - 1]
        BY <3>1, <3>3
      <3>. QED
        BY <1>0, <2>2, <3>4, <3>5
    <2>. QED
      BY <1>0, <2>1, <2>2
  <1>3. ToSet(r) \subseteq ToSet(s) \union {x}
    <2> SUFFICES ASSUME NEW i \in 1..(n + 1) PROVE r[i] \in ToSet(s) \union {x}
      BY <1>1 DEF ToSet
    <2>1. CASE i < p
      <3>1. r[i] = s[i] /\ i \in DOMAIN s
        BY <1>1, <1>2, <2>1 DEF n
      <3>. QED
        BY <3>1 DEF ToSet
    <2>2. CASE i = p
      BY <1>2, <2>2
    <2>3. CASE i > p
      <3>1. r[i] = s[i - 1] /\ i - 1 \in DOMAIN s
        BY <1>1, <1>2, <2>3 DEF n
      <3>. QED
        BY <3>1 DEF ToSet
    <2>. QED
      BY <1>1, <2>1, <2>2, <2>3 DEF n
  <1>4. x \in ToSet(r)
    <2>1. p \in DOMAIN r /\ r[p] = x
      BY <1>1, <1>2 DEF n
    <2>. QED
      BY <2>1 DEF ToSet
  <1>5. ASSUME NEW i \in 1..n PROVE s[i] \in ToSet(r)
    <2>1. CASE i < p
      <3>1. i \in 1..(n + 1)
        BY <1>1
      <3>. QED
        BY <1>1, <1>2, <2>1, <3>1 DEF ToSet, n
    <2>2. CASE i >= p
      <3>1. i + 1 \in 1..(n + 1) /\ ~(i + 1 < p) /\ i + 1 # p /\ (i + 1) - 1 = i
        BY <1>1, <2>2 DEF n
      <3>2. r[i + 1] = s[i]
        BY <1>2, <3>1
      <3>. QED
        BY <1>1, <3>1, <3>2 DEF ToSet
    <2>. QED
      BY <2>1, <2>2 DEF n
  <1>6. ToSet(r) = ToSet(s) \union {x}
    BY <1>1, <1>3, <1>4, <1>5 DEF ToSet
  <1>. QED
    BY <1>1, <1>2, <1>6 DEF n, r

\* Where the entries of ms go is within the list that the earlier ones have grown.
Fits(ids, ms) == \A i \in DOMAIN ms : ms[i].position <= Len(ids) + i
Place(X) == [position : Nat \ {0}, task : X]
PlacedTasks(ms) == {ms[i].task : i \in DOMAIN ms}

LEMMA AppendFits ==
    ASSUME NEW X, NEW ids \in Seq(X), NEW ms \in Seq(Place(X)), NEW m \in Place(X)
    PROVE  /\ Fits(ids, Append(ms, m)) <=> /\ Fits(ids, ms)
                                          /\ m.position <= Len(ids) + Len(ms) + 1
           /\ PlacedTasks(Append(ms, m)) = PlacedTasks(ms) \union {m.task}
  <1> DEFINE longer == Append(ms, m)
             n == Len(ms)
  <1>1. /\ n \in Nat /\ Len(ids) \in Nat
        /\ DOMAIN longer = 1..(n + 1) /\ DOMAIN ms = 1..n
        /\ longer[n + 1] = m /\ \A j \in 1..n : longer[j] = ms[j]
    OBVIOUS
  <1>2. m.position \in Nat /\ \A j \in 1..n : ms[j].position \in Nat
    <2>1. \A j \in 1..n : ms[j] \in Place(X)
      OBVIOUS
    <2>. QED
      BY <2>1 DEF Place
  <1>3. 1..(n + 1) = (1..n) \union {n + 1}
    BY <1>1
  <1> HIDE DEF longer, n
  <1>4. PlacedTasks(longer) = PlacedTasks(ms) \union {m.task}
    BY <1>1, <1>3 DEF PlacedTasks
  <1>5. Fits(ids, longer) <=> Fits(ids, ms) /\ m.position <= Len(ids) + n + 1
    <2>1. Fits(ids, longer) => Fits(ids, ms) /\ m.position <= Len(ids) + n + 1
      <3> SUFFICES ASSUME Fits(ids, longer)
                   PROVE  Fits(ids, ms) /\ m.position <= Len(ids) + n + 1
        OBVIOUS
      <3>1. longer[n + 1].position <= Len(ids) + (n + 1)
        BY <1>1, <1>3 DEF Fits
      <3>2. \A j \in 1..n : longer[j].position <= Len(ids) + j
        BY <1>1, <1>3 DEF Fits
      <3>. QED
        BY <1>1, <1>2, <3>1, <3>2 DEF Fits
    <2>2. Fits(ids, ms) /\ m.position <= Len(ids) + n + 1 => Fits(ids, longer)
      <3> SUFFICES ASSUME Fits(ids, ms), m.position <= Len(ids) + n + 1, NEW j \in 1..(n + 1)
                   PROVE  longer[j].position <= Len(ids) + j
        BY <1>1 DEF Fits
      <3>1. CASE j = n + 1
        BY <1>1, <1>2, <3>1
      <3>2. CASE j \in 1..n
        BY <1>1, <1>2, <3>2 DEF Fits
      <3>. QED
        BY <1>3, <3>1, <3>2
    <2>. QED
      BY <2>1, <2>2
  <1>. QED
    BY <1>4, <1>5 DEF longer, n

LEMMA ReinsertFrom ==
    ASSUME NEW X, NEW ids \in Seq(X), NEW ms \in Seq(Place(X)), Fits(ids, ms)
    PROVE  /\ Reinsert(ids, ms) \in Seq(X)
           /\ Len(Reinsert(ids, ms)) = Len(ids) + Len(ms)
           /\ ToSet(Reinsert(ids, ms)) = ToSet(ids) \union PlacedTasks(ms)
  <1> DEFINE Good(l) == Fits(ids, l) =>
                           /\ Reinsert(ids, l) \in Seq(X)
                           /\ Len(Reinsert(ids, l)) = Len(ids) + Len(l)
                           /\ ToSet(Reinsert(ids, l)) = ToSet(ids) \union PlacedTasks(l)
             P == {l \in Seq(Place(X)) : Good(l)}
  <1>1. <<>> \in P
    <2>1. PlacedTasks(<<>>) = {} /\ Len(<<>>) = 0 /\ <<>> \in Seq(Place(X))
      BY DEF PlacedTasks
    <2>2. Reinsert(ids, <<>>) = ids /\ Len(ids) \in Nat
      BY ReinsertEmpty
    <2> DEFINE e == <<>>
    <2>3. /\ PlacedTasks(e) = {} /\ Len(e) = 0 /\ e \in Seq(Place(X))
          /\ Reinsert(ids, e) = ids /\ Len(ids) \in Nat
      BY <2>1, <2>2
    <2> HIDE DEF e
    <2>4. Good(e)
      BY <2>3
    <2> HIDE DEF Good
    <2>5. e \in P
      BY <2>3, <2>4
    <2> HIDE DEF P
    <2>. QED
      BY <2>5 DEF e
  <1>2. ASSUME NEW l \in Seq(Place(X)) \intersect P, NEW m \in Place(X) PROVE Append(l, m) \in P
    <2>1. Append(l, m) \in Seq(Place(X)) /\ Len(Append(l, m)) = Len(l) + 1
      BY <1>2
    <2> SUFFICES ASSUME Fits(ids, Append(l, m))
                 PROVE  /\ Reinsert(ids, Append(l, m)) \in Seq(X)
                        /\ Len(Reinsert(ids, Append(l, m))) = Len(ids) + Len(Append(l, m))
                        /\ ToSet(Reinsert(ids, Append(l, m)))
                              = ToSet(ids) \union PlacedTasks(Append(l, m))
      BY <2>1
    <2> DEFINE r == Reinsert(ids, l)
    <2>2. /\ Fits(ids, l) /\ m.position <= Len(ids) + Len(l) + 1
          /\ PlacedTasks(Append(l, m)) = PlacedTasks(l) \union {m.task}
      BY <1>2, AppendFits
    <2>3. r \in Seq(X) /\ Len(r) = Len(ids) + Len(l) /\ ToSet(r) = ToSet(ids) \union PlacedTasks(l)
      BY <1>2, <2>2
    <2>4. Reinsert(ids, Append(l, m)) = InsertAt(r, m.position, m.task)
      BY <1>2, ReinsertAppend
    <2>5. m.position \in Nat \ {0} /\ m.task \in X
      BY DEF Place
    <2> HIDE DEF r
    <2> DEFINE p == m.position
               x == m.task
    <2>6. p \in 1..(Len(r) + 1) /\ x \in X
      BY <2>2, <2>3, <2>5
    <2> HIDE DEF p, x
    <2>7. /\ InsertAt(r, p, x) \in Seq(X)
          /\ Len(InsertAt(r, p, x)) = Len(r) + 1
          /\ ToSet(InsertAt(r, p, x)) = ToSet(r) \union {x}
      BY <2>3, <2>6, InsertFacts
    <2>8. Len(ids) \in Nat /\ Len(l) \in Nat
      BY <1>2
    <2>. QED
      BY <2>1, <2>2, <2>3, <2>4, <2>7, <2>8 DEF p, x
  <1>3. Seq(Place(X)) \subseteq P
    <2> HIDE DEF P
    <2>. QED
      BY <1>1, <1>2, Appending
  <1>. QED
    BY <1>3

\* Equal lists: as long as each other, and the same entry by entry.
LEMMA SameList ==
    ASSUME NEW X, NEW s \in Seq(X), NEW t \in Seq(X), Len(s) = Len(t),
           \A i \in 1..Len(s) : s[i] = t[i]
    PROVE  s = t
  OBVIOUS

LEMMA InsertLast ==
    ASSUME NEW X, NEW s \in Seq(X), NEW x \in X
    PROVE  InsertAt(s, Len(s) + 1, x) = Append(s, x)
  <1> DEFINE p == Len(s) + 1
             r == InsertAt(s, p, x)
             a == Append(s, x)
  <1>1. /\ a \in Seq(X) /\ Len(a) = p /\ a[p] = x
        /\ \A i \in 1..Len(s) : a[i] = s[i]
        /\ p \in 1..(Len(s) + 1) /\ Len(s) \in Nat /\ p = Len(s) + 1
    OBVIOUS
  <1> HIDE DEF p
  <1>2. /\ r \in Seq(X) /\ Len(r) = Len(s) + 1
        /\ \A i \in 1..(Len(s) + 1) : r[i] = IF i < p THEN s[i] ELSE IF i = p THEN x ELSE s[i - 1]
    BY <1>1, InsertFacts
  <1> HIDE DEF r, a
  <1>3. \A i \in 1..Len(r) : r[i] = a[i]
    BY <1>1, <1>2
  <1>4. r = a
    BY <1>1, <1>2, <1>3, SameList
  <1>. QED
    BY <1>4 DEF p, r, a

LEMMA InsertBeforeLast ==
    ASSUME NEW X, NEW s \in Seq(X), NEW x \in X, NEW y \in X, NEW p \in 1..(Len(s) + 1)
    PROVE  InsertAt(Append(s, x), p, y) = Append(InsertAt(s, p, y), x)
  <1> DEFINE n == Len(s)
             long == Append(s, x)
             short == InsertAt(s, p, y)
             l == InsertAt(long, p, y)
             r == Append(short, x)
  <1>1. /\ long \in Seq(X) /\ Len(long) = n + 1 /\ long[n + 1] = x
        /\ \A i \in 1..n : long[i] = s[i]
        /\ n \in Nat /\ n = Len(s) /\ p \in 1..(n + 1)
    OBVIOUS
  <1>2. /\ short \in Seq(X) /\ Len(short) = n + 1
        /\ \A i \in 1..(n + 1) : short[i] = IF i < p THEN s[i] ELSE IF i = p THEN y ELSE s[i - 1]
    BY InsertFacts
  <1> HIDE DEF n, long, short
  <1>3. /\ l \in Seq(X) /\ Len(l) = n + 2
        /\ \A i \in 1..(n + 2) : l[i] = IF i < p THEN long[i] ELSE IF i = p THEN y ELSE long[i - 1]
    <2>1. p \in 1..(Len(long) + 1)
      BY <1>1
    <2>2. /\ l \in Seq(X) /\ Len(l) = Len(long) + 1
          /\ \A i \in 1..(Len(long) + 1) :
                l[i] = IF i < p THEN long[i] ELSE IF i = p THEN y ELSE long[i - 1]
      <3>1. long \in Seq(X) /\ y \in X
        BY <1>1
      <3>. QED
        BY <2>1, <3>1, InsertFacts
    <2> HIDE DEF l
    <2>. QED
      BY <1>1, <2>2
  <1>4. /\ r \in Seq(X) /\ Len(r) = n + 2 /\ r[n + 2] = x
        /\ \A i \in 1..(n + 1) : r[i] = short[i]
    <2>1. n \in Nat
      BY <1>1
    <2>. QED
      BY <1>2, <2>1
  <1> HIDE DEF l, r
  <1>5. ASSUME NEW i \in 1..(n + 2) PROVE l[i] = r[i]
    <2>1. l[i] = IF i < p THEN long[i] ELSE IF i = p THEN y ELSE long[i - 1]
      BY <1>3
    <2>2. CASE i = n + 2
      <3>1. i > p /\ i - 1 = n + 1
        BY <1>1, <2>2
      <3>. QED
        BY <1>1, <1>4, <2>1, <2>2, <3>1
    <2>3. CASE i # n + 2
      <3>1. i \in 1..(n + 1)
        BY <1>1, <2>3
      <3>2. r[i] = IF i < p THEN s[i] ELSE IF i = p THEN y ELSE s[i - 1]
        BY <1>2, <1>4, <3>1
      <3>3. (i < p => i \in 1..n) /\ (i > p => i - 1 \in 1..n)
        BY <1>1, <3>1
      <3>4. i < p => long[i] = s[i]
        BY <1>1, <3>3
      <3>5. i > p => long[i - 1] = s[i - 1]
        BY <1>1, <3>3
      <3>6. i < p \/ i = p \/ i > p
        BY <1>1
      <3>. QED
        BY <1>1, <2>1, <3>2, <3>4, <3>5, <3>6
    <2>. QED
      BY <2>2, <2>3
  <1>6. l = r
    <2>1. Len(l) = Len(r) /\ \A i \in 1..Len(l) : l[i] = r[i]
      BY <1>3, <1>4, <1>5
    <2>. QED
      BY <1>3, <1>4, <2>1, SameList
  <1>. QED
    BY <1>6 DEF l, r, long, short

LEMMA SelectedJoin ==
    ASSUME NEW X, NEW s \in Seq(X), NEW t \in Seq(X), NEW S
    PROVE  Selected(s \o t, S) = Selected(s, S) \o Selected(t, S)
  <1> DEFINE Good(u) == Selected(s \o u, S) = Selected(s, S) \o Selected(u, S)
             P == {u \in Seq(X) : Good(u)}
             front == Selected(s, S)
  <1>0. front \in Seq(X \intersect S)
    BY SelectedFrom
  <1>1. <<>> \in P
    <2>1. s \o <<>> = s /\ front \o <<>> = front /\ <<>> \in Seq(X)
      BY <1>0
    <2>2. Selected(<<>>, S) = <<>>
      BY SelectedEmpty
    <2>3. Good(<<>>)
      BY <2>1, <2>2
    <2> HIDE DEF Good
    <2>. QED
      BY <2>1, <2>3
  <1>2. ASSUME NEW u \in Seq(X) \intersect P, NEW x \in X PROVE Append(u, x) \in P
    <2> DEFINE back == Selected(u, S)
               new == Append(u, x)
    <2>1. s \o new = Append(s \o u, x) /\ s \o u \in Seq(X) /\ new \in Seq(X) /\ u \in Seq(X)
      BY <1>2
    <2>2. Selected(s \o u, S) = front \o back
      BY <1>2
    <2>3. back \in Seq(X \intersect S)
      BY <2>1, SelectedFrom
    <2>4. Selected(Append(s \o u, x), S) =
              IF x \in S THEN Append(Selected(s \o u, S), x) ELSE Selected(s \o u, S)
      <3> DEFINE both == s \o u
      <3>1. both \in Seq(X)
        BY <2>1
      <3> HIDE DEF both
      <3>2. Selected(Append(both, x), S) =
                IF x \in S THEN Append(Selected(both, S), x) ELSE Selected(both, S)
        BY <3>1, SelectedAppend
      <3>. QED
        BY <3>2 DEF both
    <2>5. Selected(new, S) = IF x \in S THEN Append(back, x) ELSE back
      BY <2>1, SelectedAppend
    <2> HIDE DEF front, back, new
    <2>6. x \in S => front \o Append(back, x) = Append(front \o back, x)
      BY <1>0, <2>3
    <2>7. Good(new)
      BY <2>1, <2>2, <2>4, <2>5, <2>6 DEF front
    <2> HIDE DEF Good
    <2>8. new \in P
      BY <2>1, <2>7
    <2> HIDE DEF P
    <2>. QED
      BY <2>8 DEF new
  <1>3. Seq(X) \subseteq P
    <2> HIDE DEF P
    <2>. QED
      BY <1>1, <1>2, Appending
  <1>. QED
    BY <1>3

LEMMA SelectedAll ==
    ASSUME NEW X, NEW S, X \subseteq S, NEW s \in Seq(X)
    PROVE  Selected(s, S) = s
  <1> DEFINE P == {u \in Seq(X) : Selected(u, S) = u}
  <1>1. <<>> \in P
    BY SelectedEmpty
  <1>2. ASSUME NEW u \in Seq(X) \intersect P, NEW x \in X PROVE Append(u, x) \in P
    <2>1. Selected(Append(u, x), S) = Append(Selected(u, S), x)
      BY <1>2, SelectedAppend
    <2>. QED
      BY <1>2, <2>1
  <1>3. Seq(X) \subseteq P
    <2> HIDE DEF P
    <2>. QED
      BY <1>1, <1>2, Appending
  <1>. QED
    BY <1>3

LEMMA SelectedSkips ==
    ASSUME NEW X, NEW s \in Seq(X), NEW x \in X, NEW p \in 1..(Len(s) + 1), NEW S, x \notin S
    PROVE  Selected(InsertAt(s, p, x), S) = Selected(s, S)
  <1> DEFINE front == SubSeq(s, 1, p - 1)
             back == SubSeq(s, p, Len(s))
             mid == <<x>>
  <1>1. front \in Seq(X) /\ back \in Seq(X) /\ mid \in Seq(X)
    OBVIOUS
  <1>2. front \o back = s
    <2>1. /\ Len(front) = p - 1 /\ \A i \in 1..(p - 1) : front[i] = s[i]
      OBVIOUS
    <2>2. /\ Len(back) = Len(s) - p + 1 /\ \A i \in 1..(Len(s) - p + 1) : back[i] = s[p + i - 1]
      OBVIOUS
    <2> HIDE DEF front, back
    <2> DEFINE r == front \o back
    <2>3. /\ r \in Seq(X) /\ Len(r) = Len(front) + Len(back)
          /\ \A i \in 1..Len(front) : r[i] = front[i]
          /\ \A i \in 1..Len(back) : r[Len(front) + i] = back[i]
      <3>1. front \in Seq(X) /\ back \in Seq(X)
        BY <1>1
      <3>. QED
        BY <3>1, JoinFacts
    <2>4. Len(s) \in Nat /\ p \in Int
      OBVIOUS
    <2> HIDE DEF r
    <2>5. Len(r) = Len(s)
      BY <2>1, <2>2, <2>3, <2>4
    <2>6. ASSUME NEW i \in 1..Len(s) PROVE r[i] = s[i]
      <3>1. CASE i < p
        BY <2>1, <2>3, <2>4, <3>1
      <3>2. CASE i >= p
        <4>1. /\ i - p + 1 \in 1..Len(back) /\ Len(front) + (i - p + 1) = i
              /\ p + (i - p + 1) - 1 = i
          BY <2>1, <2>2, <2>4, <3>2
        <4>2. r[Len(front) + (i - p + 1)] = back[i - p + 1]
          BY <2>3, <4>1
        <4>3. back[i - p + 1] = s[p + (i - p + 1) - 1]
          BY <2>2, <4>1
        <4>. QED
          BY <4>1, <4>2, <4>3
      <3>. QED
        BY <2>4, <3>1, <3>2
    <2>7. r = s
      BY <2>3, <2>5, <2>6, SameList
    <2>. QED
      BY <2>7 DEF r
  <1>3. InsertAt(s, p, x) = front \o mid \o back
    BY DEF InsertAt
  <1> HIDE DEF front, back, mid
  <1>4. front \o mid \in Seq(X)
    BY <1>1
  <1>5. Selected(front \o mid \o back, S) = Selected(front \o mid, S) \o Selected(back, S)
    <2> DEFINE both == front \o mid
    <2> HIDE DEF both
    <2>1. both \in Seq(X)
      BY <1>4 DEF both
    <2>2. Selected(both \o back, S) = Selected(both, S) \o Selected(back, S)
      <3>1. back \in Seq(X)
        BY <1>1
      <3>. QED
        BY <2>1, <3>1, SelectedJoin
    <2>. QED
      BY <2>2 DEF both
  <1>6. Selected(front \o mid, S) = Selected(front, S)
    <2>1. front \o mid = Append(front, x)
      BY <1>1 DEF mid
    <2>. QED
      BY <1>1, <2>1, SelectedAppend
  <1>7. Selected(front \o back, S) = Selected(front, S) \o Selected(back, S)
    <2>1. front \in Seq(X)
      BY <1>1
    <2>2. back \in Seq(X)
      BY <1>1
    <2>. QED
      BY ONLY <2>1, <2>2, SelectedJoin
  <1>. QED
    BY <1>2, <1>3, <1>5, <1>6, <1>7

\* What was put back is what comes out again.
LEMMA TakenOut ==
    ASSUME NEW X, NEW S, NEW ids \in Seq(X), NEW ms \in Seq(Place(X)), Fits(ids, ms),
           PlacedTasks(ms) \intersect S = {}
    PROVE  Selected(Reinsert(ids, ms), S) = Selected(ids, S)
  <1> DEFINE Good(l) == Fits(ids, l) /\ PlacedTasks(l) \intersect S = {} =>
                           Selected(Reinsert(ids, l), S) = Selected(ids, S)
             P == {l \in Seq(Place(X)) : Good(l)}
  <1>1. <<>> \in P
    BY ReinsertEmpty
  <1>2. ASSUME NEW l \in Seq(Place(X)) \intersect P, NEW m \in Place(X) PROVE Append(l, m) \in P
    <2>1. Append(l, m) \in Seq(Place(X)) /\ l \in Seq(Place(X)) /\ Len(l) \in Nat
      BY <1>2
    <2> SUFFICES ASSUME Fits(ids, Append(l, m)), PlacedTasks(Append(l, m)) \intersect S = {}
                 PROVE  Selected(Reinsert(ids, Append(l, m)), S) = Selected(ids, S)
      BY <2>1
    <2> DEFINE r == Reinsert(ids, l)
               p == m.position
               x == m.task
    <2>2. /\ Fits(ids, l) /\ p <= Len(ids) + Len(l) + 1
          /\ PlacedTasks(Append(l, m)) = PlacedTasks(l) \union {x}
      BY <2>1, AppendFits
    <2>3. r \in Seq(X) /\ Len(r) = Len(ids) + Len(l)
      BY <2>1, <2>2, ReinsertFrom
    <2>4. Reinsert(ids, Append(l, m)) = InsertAt(r, p, x)
      BY <2>1, ReinsertAppend
    <2>5. p \in Nat \ {0} /\ x \in X /\ x \notin S
      BY <2>2 DEF Place
    <2>6. Selected(r, S) = Selected(ids, S)
      BY <1>2, <2>2
    <2> HIDE DEF r, p, x
    <2>7. p \in 1..(Len(r) + 1)
      <3>1. Len(ids) \in Nat
        OBVIOUS
      <3>. QED
        BY <2>1, <2>2, <2>3, <2>5, <3>1
    <2>8. Selected(InsertAt(r, p, x), S) = Selected(r, S)
      BY <2>3, <2>5, <2>7, SelectedSkips
    <2>. QED
      BY <2>4, <2>6, <2>8
  <1>3. Seq(Place(X)) \subseteq P
    <2> HIDE DEF P
    <2>. QED
      BY <1>1, <1>2, Appending
  <1>. QED
    BY <1>3

\* An entry at the end stays at the end while others are put back before it.
LEMMA ReinsertBeforeLast ==
    ASSUME NEW X, NEW ids \in Seq(X), NEW x \in X, NEW ms \in Seq(Place(X)), Fits(ids, ms)
    PROVE  Reinsert(Append(ids, x), ms) = Append(Reinsert(ids, ms), x)
  <1> DEFINE Good(l) == Fits(ids, l) =>
                           Reinsert(Append(ids, x), l) = Append(Reinsert(ids, l), x)
             P == {l \in Seq(Place(X)) : Good(l)}
  <1>1. <<>> \in P
    <2>1. Good(<<>>)
      BY ReinsertEmpty
    <2>2. <<>> \in Seq(Place(X))
      OBVIOUS
    <2> HIDE DEF Good
    <2>. QED
      BY <2>1, <2>2
  <1>2. ASSUME NEW l \in Seq(Place(X)) \intersect P, NEW m \in Place(X) PROVE Append(l, m) \in P
    <2>1. Append(l, m) \in Seq(Place(X)) /\ l \in Seq(Place(X)) /\ Len(l) \in Nat
      BY <1>2
    <2> SUFFICES ASSUME Fits(ids, Append(l, m))
                 PROVE  Reinsert(Append(ids, x), Append(l, m))
                          = Append(Reinsert(ids, Append(l, m)), x)
      BY <2>1
    <2> DEFINE r == Reinsert(ids, l)
               p == m.position
               y == m.task
    <2>2. Fits(ids, l) /\ p <= Len(ids) + Len(l) + 1
      BY <2>1, AppendFits
    <2>3. r \in Seq(X) /\ Len(r) = Len(ids) + Len(l)
      BY <2>1, <2>2, ReinsertFrom
    <2>4. Reinsert(ids, Append(l, m)) = InsertAt(r, p, y)
      BY <2>1, ReinsertAppend
    <2>5. p \in Nat \ {0} /\ y \in X
      BY DEF Place
    <2>6. Reinsert(Append(ids, x), l) = Append(r, x)
      BY <1>2, <2>2
    <2> HIDE DEF r, p, y
    <2>7. p \in 1..(Len(r) + 1)
      <3>1. Len(ids) \in Nat
        OBVIOUS
      <3>. QED
        BY <2>1, <2>2, <2>3, <2>5, <3>1
    <2>8. InsertAt(Append(r, x), p, y) = Append(InsertAt(r, p, y), x)
      BY <2>3, <2>5, <2>7, InsertBeforeLast
    <2>9. Reinsert(Append(ids, x), Append(l, m)) = InsertAt(Reinsert(Append(ids, x), l), p, y)
      BY <2>1, ReinsertAppend DEF p, y
    <2>. QED
      BY <2>4, <2>6, <2>8, <2>9
  <1>3. Seq(Place(X)) \subseteq P
    <2> HIDE DEF P
    <2>. QED
      BY <1>1, <1>2, Appending
  <1>. QED
    BY <1>3

LEMMA PlacedAppend ==
    ASSUME NEW X, NEW s \in Seq(X), NEW x \in X
    PROVE  /\ Placed(s) \in Seq(Place(X))
           /\ [position |-> Len(s) + 1, task |-> x] \in Place(X)
           /\ Placed(Append(s, x)) = Append(Placed(s), [position |-> Len(s) + 1, task |-> x])
  <1> DEFINE n == Len(s)
             m == [position |-> n + 1, task |-> x]
             long == Append(s, x)
  <1>1. n \in Nat /\ n = Len(s) /\ n + 1 \in Nat \ {0} /\ DOMAIN s = 1..n /\ \A i \in 1..n : s[i] \in X
    OBVIOUS
  <1>2. /\ DOMAIN long = 1..(n + 1) /\ long[n + 1] = x
        /\ \A i \in 1..n : long[i] = s[i]
    OBVIOUS
  <1> HIDE DEF n, long
  <1>3. m \in Place(X)
    BY <1>1 DEF Place
  <1>4. /\ Placed(s) \in Seq(Place(X)) /\ Len(Placed(s)) = n
        /\ \A i \in 1..n : Placed(s)[i] = [position |-> i, task |-> s[i]]
    <2>1. \A i \in 1..n : [position |-> i, task |-> s[i]] \in Place(X)
      BY <1>1 DEF Place
    <2> DEFINE e(i) == [position |-> i, task |-> s[i]]
    <2>2. Placed(s) = [i \in 1..n |-> e(i)]
      BY <1>1 DEF Placed
    <2> HIDE DEF e
    <2>3. \A i \in 1..n : e(i) \in Place(X)
      BY <2>1 DEF e
    <2>4. /\ [i \in 1..n |-> e(i)] \in Seq(Place(X)) /\ Len([i \in 1..n |-> e(i)]) = n
          /\ \A i \in 1..n : [j \in 1..n |-> e(j)][i] = e(i)
      BY <1>1, <2>3
    <2>. QED
      BY <2>2, <2>4 DEF e
  <1>5. /\ Placed(long) \in Seq(Place(X)) /\ Len(Placed(long)) = n + 1
        /\ \A i \in 1..(n + 1) : Placed(long)[i] = [position |-> i, task |-> long[i]]
    <2>1. \A i \in 1..(n + 1) : i \in Nat \ {0} /\ (i \in 1..n \/ i = n + 1)
      BY <1>1
    <2>2. \A i \in 1..(n + 1) : [position |-> i, task |-> long[i]] \in Place(X)
      BY <1>1, <1>2, <2>1 DEF Place
    <2> DEFINE e(i) == [position |-> i, task |-> long[i]]
    <2>3. Placed(long) = [i \in 1..(n + 1) |-> e(i)]
      BY <1>2 DEF Placed
    <2> HIDE DEF e
    <2>4. \A i \in 1..(n + 1) : e(i) \in Place(X)
      BY <2>2 DEF e
    <2>5. /\ [i \in 1..(n + 1) |-> e(i)] \in Seq(Place(X))
          /\ Len([i \in 1..(n + 1) |-> e(i)]) = n + 1
          /\ \A i \in 1..(n + 1) : [j \in 1..(n + 1) |-> e(j)][i] = e(i)
      BY <1>1, <2>4
    <2>. QED
      BY <2>3, <2>5 DEF e
  <1> DEFINE l == Placed(long)
             sh == Placed(s)
             r == Append(sh, m)
  <1> HIDE DEF l, sh, m
  <1>6. /\ r \in Seq(Place(X)) /\ Len(r) = n + 1 /\ r[n + 1] = m
        /\ \A i \in 1..n : r[i] = sh[i]
    <2>1. sh \in Seq(Place(X)) /\ Len(sh) = n
      BY <1>4 DEF sh
    <2>. QED
      BY <1>1, <1>3, <2>1
  <1> HIDE DEF r
  <1>7. ASSUME NEW i \in 1..(n + 1) PROVE l[i] = r[i]
    <2>1. CASE i = n + 1
      BY <1>2, <1>5, <1>6, <2>1 DEF l, m
    <2>2. CASE i \in 1..n
      BY <1>2, <1>4, <1>5, <1>6, <2>2 DEF l, sh
    <2>. QED
      BY <1>1, <2>1, <2>2
  <1>8. l = r
    <2>1. l \in Seq(Place(X)) /\ Len(l) = Len(r)
      BY <1>5, <1>6 DEF l
    <2>2. Len(l) = n + 1
      BY <1>5 DEF l
    <2>. QED
      BY <1>6, <1>7, <2>1, <2>2, SameList
  <1>. QED
    BY <1>3, <1>4, <1>8 DEF l, r, sh, m, long, n

\* The places that are written down when tasks are taken out of a list.
Places(s, T) == Selected(Placed(s), [position : Nat, task : T])

BackTogether(kept, ms, s) == Reinsert(kept, ms) = s

\* What was taken out goes back to where it was.
LEMMA PutBack ==
    ASSUME NEW X, NEW T, NEW s \in Seq(X)
    PROVE  LET kept == Selected(s, X \ T)
               ms == Places(s, T)
           IN  /\ ms \in Seq(Place(X \intersect T))
               /\ Fits(kept, ms) /\ Len(kept) + Len(ms) = Len(s)
               /\ PlacedTasks(ms) = ToSet(s) \intersect T
               /\ BackTogether(kept, ms, s)
  <1> DEFINE Kept(u) == Selected(u, X \ T)
             Good(u) == /\ Places(u, T) \in Seq(Place(X \intersect T))
                        /\ Fits(Kept(u), Places(u, T))
                        /\ Len(Kept(u)) + Len(Places(u, T)) = Len(u)
                        /\ PlacedTasks(Places(u, T)) = ToSet(u) \intersect T
                        /\ Reinsert(Kept(u), Places(u, T)) = u
             P == {u \in Seq(X) : Good(u)}
  <1>1. <<>> \in P
    <2> DEFINE e == <<>>
    <2>1. Kept(e) = e
      BY SelectedEmpty
    <2>2. Places(e, T) = e
      <3>1. Placed(e) = e
        BY DEF Placed
      <3>. QED
        BY <3>1, SelectedEmpty DEF Places
    <2>3. /\ e \in Seq(X) /\ e \in Seq(Place(X \intersect T)) /\ Len(e) = 0 /\ ToSet(e) = {}
      BY EmptyFacts
    <2>4. PlacedTasks(e) = {} /\ Fits(e, e) /\ Reinsert(e, e) = e
      BY ReinsertEmpty DEF PlacedTasks, Fits
    <2> HIDE DEF e, Kept
    <2>5. Good(e)
      BY <2>1, <2>2, <2>3, <2>4
    <2> HIDE DEF Good
    <2>6. e \in P
      BY <2>3, <2>5
    <2> HIDE DEF P
    <2>. QED
      BY <2>6 DEF e
  <1>2. ASSUME NEW u \in Seq(X) \intersect P, NEW x \in X PROVE Append(u, x) \in P
    <2> DEFINE new == Append(u, x)
               m == [position |-> Len(u) + 1, task |-> x]
               kept == Kept(u)
               ms == Places(u, T)
    <2>1. /\ u \in Seq(X) /\ new \in Seq(X) /\ Len(new) = Len(u) + 1
          /\ ToSet(new) = ToSet(u) \union {x} /\ Len(u) \in Nat
      BY <1>2, AppendFacts
    <2>2. /\ Placed(u) \in Seq(Place(X)) /\ m \in Place(X)
          /\ Placed(new) = Append(Placed(u), m)
      BY <1>2, PlacedAppend
    <2>3. /\ ms \in Seq(Place(X \intersect T)) /\ Fits(kept, ms)
          /\ Len(kept) + Len(ms) = Len(u) /\ PlacedTasks(ms) = ToSet(u) \intersect T
          /\ Reinsert(kept, ms) = u
      BY <1>2
    <2>4. kept \in Seq(X) /\ Len(kept) \in Nat
      <3>1. kept \in Seq(X \intersect (X \ T))
        BY <2>1, SelectedFrom
      <3> HIDE DEF kept
      <3>. QED
        BY <3>1
    <2>5. Kept(new) = IF x \in T THEN kept ELSE Append(kept, x)
      BY <2>1, SelectedAppend
    <2>6. m \in [position : Nat, task : T] <=> x \in T
      BY <2>1
    <2>7. Places(new, T) = IF x \in T THEN Append(ms, m) ELSE ms
      <3> DEFINE all == Placed(u)
      <3> HIDE DEF all, m
      <3>1. Selected(Append(all, m), [position : Nat, task : T]) =
                IF m \in [position : Nat, task : T]
                THEN Append(Selected(all, [position : Nat, task : T]), m)
                ELSE Selected(all, [position : Nat, task : T])
        <4> DEFINE R == [position : Nat, task : T]
        <4>1. all \in Seq(Place(X)) /\ m \in Place(X)
          BY <2>2 DEF all
        <4> HIDE DEF R
        <4>2. Selected(Append(all, m), R) =
                  IF m \in R THEN Append(Selected(all, R), m) ELSE Selected(all, R)
          BY <4>1, SelectedAppend
        <4>. QED
          BY <4>2 DEF R
      <3>2. Placed(new) = Append(all, m)
        BY <2>2 DEF all
      <3>. QED
        BY <2>6, <3>1, <3>2 DEF Places, all
    <2>8. ms \in Seq(Place(X)) /\ Len(ms) \in Nat
      <3> DEFINE A == Place(X \intersect T)
                 B == Place(X)
      <3>1. A \subseteq B
        BY DEF Place
      <3>2. ms \in Seq(A)
        BY <2>3
      <3> HIDE DEF ms, A, B
      <3>3. ms \in Seq(B) /\ Len(ms) \in Nat
        BY <3>1, <3>2
      <3>. QED
        BY <3>3 DEF B
    <2>9. CASE x \in T
      <3> DEFINE longer == Append(ms, m)
      <3>1. Kept(new) = kept /\ Places(new, T) = longer
        BY <2>5, <2>7, <2>9
      <3>2. m \in Place(X \intersect T) /\ m.position = Len(u) + 1 /\ m.task = x
        BY <2>1, <2>9 DEF Place
      <3> HIDE DEF new, m, kept, ms
      <3>3. longer \in Seq(Place(X \intersect T)) /\ Len(longer) = Len(ms) + 1
        BY <2>3, <3>2
      <3>4. /\ Fits(kept, longer) <=> Fits(kept, ms) /\ m.position <= Len(kept) + Len(ms) + 1
            /\ PlacedTasks(longer) = PlacedTasks(ms) \union {m.task}
        BY <2>2, <2>4, <2>8, AppendFits
      <3>5. Fits(kept, longer)
        BY <2>1, <2>3, <2>4, <2>8, <3>2, <3>4
      <3>6. Reinsert(kept, longer) = InsertAt(u, Len(u) + 1, x)
        BY <2>2, <2>3, <2>8, <3>2, ReinsertAppend
      <3>7. InsertAt(u, Len(u) + 1, x) = new
        BY <2>1, InsertLast DEF new
      <3>8. Len(kept) + Len(longer) = Len(new)
        BY <2>1, <2>3, <2>4, <2>8, <3>3
      <3>9. PlacedTasks(longer) = ToSet(new) \intersect T
        BY <2>1, <2>3, <2>9, <3>2, <3>4
      <3> HIDE DEF longer, Kept
      <3>10. Good(new)
        BY <3>1, <3>3, <3>5, <3>6, <3>7, <3>8, <3>9
      <3> HIDE DEF Good
      <3>11. new \in P
        BY <2>1, <3>10
      <3> HIDE DEF P
      <3>. QED
        BY <3>11 DEF new
    <2>10. CASE x \notin T
      <3> DEFINE longer == Append(kept, x)
      <3>1. Kept(new) = longer /\ Places(new, T) = ms
        BY <2>5, <2>7, <2>10
      <3> HIDE DEF new, m, kept, ms
      <3>2. longer \in Seq(X) /\ Len(longer) = Len(kept) + 1
        BY <2>4
      <3>3. Reinsert(longer, ms) = new
        <4>1. Reinsert(longer, ms) = Append(Reinsert(kept, ms), x)
          BY <2>3, <2>4, <2>8, ReinsertBeforeLast
        <4>. QED
          BY <2>3, <4>1 DEF new
      <3>4. Fits(longer, ms)
        <4>1. \A i \in DOMAIN ms : ms[i] \in Place(X) /\ i \in Nat
          BY <2>8
        <4>2. \A i \in DOMAIN ms : ms[i].position \in Nat /\ i \in Nat
          BY <4>1 DEF Place
        <4> HIDE DEF longer
        <4>. QED
          BY <2>3, <2>4, <3>2, <4>2 DEF Fits
      <3>5. Len(longer) + Len(ms) = Len(new)
        BY <2>1, <2>3, <2>4, <2>8, <3>2
      <3>6. PlacedTasks(ms) = ToSet(new) \intersect T
        BY <2>1, <2>3, <2>10
      <3> HIDE DEF longer, Kept
      <3>7. Good(new)
        BY <2>3, <3>1, <3>3, <3>4, <3>5, <3>6
      <3> HIDE DEF Good
      <3>8. new \in P
        BY <2>1, <3>7
      <3> HIDE DEF P
      <3>. QED
        BY <3>8 DEF new
    <2>. QED
      BY <2>9, <2>10
  <1>3. Seq(X) \subseteq P
    <2> HIDE DEF P
    <2>. QED
      BY <1>1, <1>2, Appending
  <1>4. Good(s)
    BY <1>3
  <1>. QED
    BY <1>4 DEF BackTogether

-----------------------------------------------------------------------------
(***************************************************************************)
(* The rows of the workspace.                                              *)
(***************************************************************************)

TasksTyped == IsRows(task, Tasks, TaskRow)
CatalogTyped ==
    /\ IsRows(project, Projects, ProjectRow) /\ IsRows(section, Sections, SectionRow)
    /\ IsRows(tag, Tags, TagRow) /\ IsRows(template, Templates, TemplateRow)
    /\ IsRows(filter, Filters, FilterRow)
SlotsTyped ==
    /\ IsRows(slot, Slots, SlotRow)
    /\ \A k \in DOMAIN slot : ValidMembership(slot[k].tasks)
    /\ MembershipReferences(slot, task)
BlocksTyped ==
    /\ IsRows(block, Blocks, BlockRow)
    /\ \A b \in DOMAIN block : ValidRange(block[b])
CountTyped == revision \in 0..MaxOps /\ today \in Days

\* The rows that an undo entry would bring back, and the places it would put them in.
UndoTyped ==
    \A o \in DOMAIN undo :
        /\ undo[o].inverse.ids \subseteq Tasks
        /\ IsRows(undo[o].inverse.rows, Tasks, TaskRow)
        /\ IsRows(undo[o].post.tasks, Tasks, TaskRow)
        /\ \A k \in DOMAIN undo[o].inverse.links.memberships :
              undo[o].inverse.links.memberships[k] \in Seq(Place(undo[o].inverse.ids))

Typed == TasksTyped /\ CatalogTyped /\ SlotsTyped /\ BlocksTyped /\ CountTyped /\ UndoTyped

LEMMA CommitCounts ==
    ASSUME CountTyped, NEW affected, NEW resync, Commit(affected, resync)
    PROVE  CountTyped' /\ Now \in 0..MaxOps
  BY MaxOpsAssumption DEF CountTyped, Commit, Now

\* Rows stamped with the revision of the step are rows.
LEMMA RowsStamped ==
    ASSUME Now \in 0..MaxOps
    PROVE  /\ \A row \in TaskRow : [row EXCEPT !.revision = Now] \in TaskRow
           /\ \A row \in SlotRow : [row EXCEPT !.revision = Now] \in SlotRow
           /\ \A row \in BlockRow : [row EXCEPT !.revision = Now] \in BlockRow
  BY DEF TaskRow, SlotRow, BlockRow

LEMMA BlockWriteTyped ==
    ASSUME Typed, NEW rows, WriteBlocks(rows), IsRows(rows, Blocks, BlockRow),
           \A b \in DOMAIN rows : ValidRange(rows[b]), UNCHANGED <<section, tag, template, filter, undo>>
    PROVE  Typed'
  <1> USE DEF WriteBlocks
  <1>1. CountTyped' /\ Now \in 0..MaxOps
    BY CommitCounts DEF Typed
  <1>2. BlocksTyped'
    <2> SUFFICES ASSUME NEW b \in DOMAIN block'
                 PROVE  b \in Blocks /\ block'[b] \in BlockRow /\ ValidRange(block'[b])
      BY DEF BlocksTyped, IsRows
    <2>1. CASE b \in DOMAIN rows
      <3>1. block'[b] = [rows[b] EXCEPT !.revision = Now]
        BY <2>1 DEF Update
      <3>2. rows[b] \in BlockRow /\ b \in Blocks /\ ValidRange(rows[b])
        BY <2>1 DEF IsRows
      <3>3. block'[b] \in BlockRow
        BY <1>1, <3>1, <3>2, RowsStamped
      <3>4. block'[b].start = rows[b].start /\ block'[b].end = rows[b].end
        BY <3>1, <3>2 DEF BlockRow
      <3>. QED
        BY <3>2, <3>3, <3>4 DEF ValidRange
    <2>2. CASE b \notin DOMAIN rows
      <3>1. b \in DOMAIN block /\ block'[b] = block[b]
        BY <2>2 DEF Update
      <3>. QED
        BY <3>1 DEF Typed, BlocksTyped, IsRows
    <2>. QED
      BY <2>1, <2>2
  <1>3. /\ UNCHANGED <<task, project, slot, section, tag, template, filter, undo>>
    OBVIOUS
  <1>4. TasksTyped' /\ CatalogTyped' /\ SlotsTyped' /\ UndoTyped'
    BY <1>3 DEF Typed, TasksTyped, CatalogTyped, SlotsTyped, UndoTyped, MembershipReferences
  <1>. QED
    BY <1>1, <1>2, <1>4 DEF Typed

LEMMA SlotWriteTyped ==
    ASSUME Typed, NEW k \in Slots, NEW row \in SlotRow, WriteSlot(k, row),
           ValidMembership(row.tasks), ToSet(row.tasks) \subseteq DOMAIN task,
           UNCHANGED <<section, tag, template, filter, undo>>
    PROVE  Typed'
  <1> USE DEF WriteSlot
  <1>1. CountTyped' /\ Now \in 0..MaxOps
    BY CommitCounts DEF Typed
  <1>2. /\ UNCHANGED <<task, project, block, section, tag, template, filter, undo>>
    OBVIOUS
  <1>3. SlotsTyped'
    <2> SUFFICES ASSUME NEW j \in DOMAIN slot'
                 PROVE  /\ j \in Slots /\ slot'[j] \in SlotRow /\ ValidMembership(slot'[j].tasks)
                        /\ ToSet(slot'[j].tasks) \subseteq DOMAIN task
      BY <1>2 DEF SlotsTyped, IsRows, MembershipReferences
    <2>1. CASE j = k
      <3>1. slot'[j] = [row EXCEPT !.revision = Now]
        BY <2>1 DEF Put, Update, Only
      <3>2. slot'[j] \in SlotRow
        BY <1>1, <3>1, RowsStamped
      <3>3. slot'[j].tasks = row.tasks
        BY <3>1 DEF SlotRow
      <3>. QED
        BY <2>1, <3>2, <3>3
    <2>2. CASE j # k
      <3>1. j \in DOMAIN slot /\ slot'[j] = slot[j]
        BY <2>2 DEF Put, Update, Only
      <3>. QED
        BY <3>1 DEF Typed, SlotsTyped, IsRows, MembershipReferences
    <2>. QED
      BY <2>1, <2>2
  <1>4. TasksTyped' /\ CatalogTyped' /\ BlocksTyped' /\ UndoTyped'
    BY <1>2 DEF Typed, TasksTyped, CatalogTyped, BlocksTyped, UndoTyped
  <1>. QED
    BY <1>1, <1>3, <1>4 DEF Typed

\* Without some rows a table keeps its type.
LEMMA BlocksGoTyped ==
    ASSUME Typed, NEW S, block' = Without(block, S), NEW affected, NEW resync,
           Commit(affected, resync),
           UNCHANGED <<task, project, slot, section, tag, template, filter, undo>>
    PROVE  Typed'
  <1>1. CountTyped'
    BY CommitCounts DEF Typed
  <1>2. BlocksTyped'
    BY DEF Typed, BlocksTyped, IsRows, Without
  <1>3. TasksTyped' /\ CatalogTyped' /\ SlotsTyped' /\ UndoTyped'
    BY DEF Typed, TasksTyped, CatalogTyped, SlotsTyped, UndoTyped, MembershipReferences
  <1>. QED
    BY <1>1, <1>2, <1>3 DEF Typed

\* What a patch leaves is a row.
LEMMA BlockPatchedTyped ==
    ASSUME NEW row \in BlockRow, NEW patch \in BlockPatches
    PROVE  Patched(row, patch) \in BlockRow
  <1> DEFINE new == Patched(row, patch)
             values == [task |-> Tasks \union {None}, slot |-> Slots \union {None}, date |-> Days,
                        start |-> Hours, end |-> Hours, locked |-> BOOLEAN]
  <1>1. \A f \in DOMAIN patch : f \in DOMAIN values /\ patch[f] \in values[f]
    BY BlockPatchesAssumption DEF IsPatch
  <1>2. DOMAIN row = BlockFields /\ DOMAIN values = BlockFields \ {"revision"}
    BY DEF BlockRow, BlockFields
  <1>3. \A f \in DOMAIN values : row[f] \in values[f]
    BY DEF BlockRow
  <1>4. /\ DOMAIN new = BlockFields /\ new.revision = row.revision
        /\ \A f \in DOMAIN values : new[f] \in values[f]
    <2> HIDE DEF values
    <2>. QED
      BY <1>1, <1>2, <1>3 DEF Patched, Update, BlockFields
  <1>5. /\ new.task \in Tasks \union {None} /\ new.slot \in Slots \union {None}
        /\ new.date \in Days /\ new.start \in Hours /\ new.end \in Hours
        /\ new.locked \in BOOLEAN /\ new.revision \in 0..MaxOps
    BY <1>4 DEF BlockRow
  <1>6. new = [task |-> new.task, slot |-> new.slot, date |-> new.date, start |-> new.start,
               end |-> new.end, locked |-> new.locked, revision |-> new.revision]
    BY <1>4 DEF BlockFields, Patched, Update
  <1> HIDE DEF new
  <1>. QED
    BY <1>5, <1>6 DEF BlockRow, new

LEMMA SlotPatchedTyped ==
    ASSUME NEW row \in SlotRow, NEW patch \in SlotPatches
    PROVE  Patched(row, patch) \in SlotRow /\ Patched(row, patch).tasks = row.tasks
  <1> DEFINE new == Patched(row, patch)
  <1>1. \A f \in DOMAIN patch : f = "project" /\ patch[f] \in Projects \union {None}
    BY SlotPatchesAssumption DEF IsPatch
  <1>2. /\ DOMAIN new = SlotFields /\ new.revision = row.revision /\ new.tasks = row.tasks
        /\ new.project \in Projects \union {None}
    BY <1>1 DEF Patched, Update, SlotFields, SlotRow
  <1>3. new = [project |-> new.project, tasks |-> new.tasks, revision |-> new.revision]
    BY <1>2 DEF SlotFields, Patched, Update
  <1> HIDE DEF new
  <1>4. new \in SlotRow
    BY <1>2, <1>3 DEF SlotRow
  <1>. QED
    BY <1>2, <1>4 DEF new

LEMMA TaskPatchedTyped ==
    ASSUME NEW row \in TaskRow, NEW patch \in TaskPatches
    PROVE  Patched(row, patch) \in TaskRow
  <1> DEFINE new == Patched(row, patch)
             values == [project |-> Projects \union {None}, section |-> Sections \union {None},
                        tags |-> SUBSET Tags, parent |-> Tasks \union {None}]
  <1>1. \A f \in DOMAIN patch : f \in DOMAIN values /\ patch[f] \in values[f]
    BY TaskPatchesAssumption DEF IsPatch
  <1>2. DOMAIN row = TaskFields /\ DOMAIN values = TaskFields \ {"source", "revision"}
    BY DEF TaskRow, TaskFields
  <1>3. \A f \in DOMAIN values : row[f] \in values[f]
    BY DEF TaskRow
  <1>4. /\ DOMAIN new = TaskFields /\ new.revision = row.revision /\ new.source = row.source
        /\ \A f \in DOMAIN values : new[f] \in values[f]
    <2> HIDE DEF values
    <2>. QED
      BY <1>1, <1>2, <1>3 DEF Patched, Update, TaskFields
  <1>5. /\ new.project \in Projects \union {None} /\ new.section \in Sections \union {None}
        /\ new.tags \in SUBSET Tags /\ new.parent \in Tasks \union {None}
        /\ new.source \in Tasks \union {None} /\ new.revision \in 0..MaxOps
    BY <1>4 DEF TaskRow
  <1>6. new = [project |-> new.project, section |-> new.section, tags |-> new.tags,
               parent |-> new.parent, source |-> new.source, revision |-> new.revision]
    BY <1>4 DEF TaskFields, Patched, Update
  <1> HIDE DEF new
  <1>. QED
    BY <1>5, <1>6 DEF TaskRow, new

\* A list without repetition that a request orders anew is a list of the same tasks.
LEMMA ReorderedList ==
    ASSUME NEW of \in Seq(Tasks), NEW ids \in SetToSeqs(ToSet(of)), IsPermutation(ids, of)
    PROVE  ids \in Seq(Tasks)
  <1> DEFINE S == ToSet(of)
  <1>1. S \subseteq Tasks /\ IsFiniteSet(S)
    <2>1. /\ Len(of) \in Nat /\ DOMAIN of = 1..Len(of) /\ \A i \in 1..Len(of) : of[i] \in Tasks
      OBVIOUS
    <2>2. IsFiniteSet(1..Len(of))
      BY <2>1, FS_Interval
    <2>3. S = {of[i] : i \in 1..Len(of)}
      BY <2>1 DEF ToSet
    <2>4. IsFiniteSet({of[i] : i \in 1..Len(of)})
      <3> DEFINE D == 1..Len(of)
                 f == [i \in D |-> of[i]]
      <3>1. IsFiniteSet(D)
        BY <2>2
      <3>2. f \in Surjection(D, {of[i] : i \in D})
        BY DEF Surjection
      <3> HIDE DEF D, f
      <3>3. IsFiniteSet({of[i] : i \in D})
        BY <3>1, <3>2, FS_Surjection
      <3>. QED
        BY <3>3 DEF D
    <2>. QED
      BY <2>1, <2>3, <2>4
  <1>2. Cardinality(S) \in Nat
    BY <1>1, FS_CardinalityType
  <1>3. ids \in [1..Cardinality(S) -> S]
    BY DEF SetToSeqs
  <1> HIDE DEF S
  <1>. QED
    BY <1>1, <1>2, <1>3

LEMMA AppendedFacts ==
    ASSUME NEW X, NEW ids \in Seq(X), NEW t \in X, Unique(ids)
    PROVE  /\ Appended(ids, t) \in Seq(X) /\ Unique(Appended(ids, t))
           /\ ToSet(Appended(ids, t)) = ToSet(ids) \union {t}
  <1>1. /\ Append(ids, t) \in Seq(X)
        /\ ToSet(Append(ids, t)) = ToSet(ids) \union {t}
        /\ Unique(Append(ids, t)) <=> Unique(ids) /\ t \notin ToSet(ids)
    BY AppendFacts
  <1>2. Contains(ids, t) <=> t \in ToSet(ids)
    <2>1. DOMAIN ids = 1..Len(ids)
      OBVIOUS
    <2>. QED
      BY <2>1 DEF Contains, ToSet
  <1>. QED
    BY <1>1, <1>2 DEF Appended

\* What stays of a valid list is one.
LEMMA KeptList ==
    ASSUME NEW old \in Seq(Tasks), ValidMembership(old), ToSet(old) \subseteq DOMAIN task, NEW S
    PROVE  LET ids == Selected(old, Tasks \ S)
           IN  /\ ids \in Seq(Tasks) /\ ValidMembership(ids)
               /\ ToSet(ids) = ToSet(old) \ S /\ ToSet(ids) \subseteq DOMAIN task
  <1> DEFINE ids == Selected(old, Tasks \ S)
  <1>1. /\ ids \in Seq(Tasks \intersect (Tasks \ S)) /\ Len(ids) <= Len(old)
        /\ ToSet(ids) = ToSet(old) \intersect (Tasks \ S)
        /\ Unique(old) => Unique(ids)
    BY SelectedFrom
  <1>2. ToSet(old) \subseteq Tasks
    BY DEF ToSet
  <1> HIDE DEF ids
  <1>3. ids \in Seq(Tasks) /\ Len(ids) \in Nat /\ Len(old) \in Nat
    BY <1>1
  <1>4. ValidMembership(ids)
    BY <1>1, <1>3, MembershipAssumption DEF ValidMembership
  <1>. QED
    BY <1>1, <1>2, <1>3, <1>4 DEF ids

LEMMA BlocksNextTyped ==
    ASSUME Typed, NEW b \in Blocks, UNCHANGED <<section, tag, template, filter, undo>>,
           \/ \E t \in DOMAIN task \union {None}, k \in DOMAIN slot \union {None} :
                 CreateTimeBlock(b, [NewBlock EXCEPT !.task = t, !.slot = k])
           \/ \E patch \in BlockPatches : PatchTimeBlock(b, patch) \/ SetTimeBlockRange(b, patch)
           \/ DeleteTimeBlock(b)
    PROVE  Typed'
  <1>1. ASSUME NEW t \in DOMAIN task \union {None}, NEW k \in DOMAIN slot \union {None},
               CreateTimeBlock(b, [NewBlock EXCEPT !.task = t, !.slot = k])
        PROVE  Typed'
    <2> DEFINE row == [NewBlock EXCEPT !.task = t, !.slot = k]
    <2>1. WriteBlocks(Only(b, row)) /\ ValidRange(row)
      BY <1>1 DEF CreateTimeBlock
    <2>2. Now \in 0..MaxOps
      BY <2>1, CommitCounts DEF WriteBlocks, Typed
    <2>3. t \in Tasks \union {None} /\ k \in Slots \union {None} /\ today \in Days
      BY DEF Typed, TasksTyped, SlotsTyped, CountTyped, IsRows
    <2>4. row \in BlockRow
      BY <2>2, <2>3, CalendarAssumption DEF NewBlock, BlockRow
    <2> HIDE DEF row
    <2>5. IsRows(Only(b, row), Blocks, BlockRow) /\ \A c \in DOMAIN Only(b, row) : ValidRange(Only(b, row)[c])
      BY <2>1, <2>4 DEF Only, IsRows
    <2>. QED
      BY <2>1, <2>5, BlockWriteTyped
  <1>2. ASSUME NEW patch \in BlockPatches, b \in DOMAIN block,
               ValidRange(Patched(block[b], patch)),
               WriteBlocks(Only(b, Patched(block[b], patch)))
        PROVE  Typed'
    <2> DEFINE row == Patched(block[b], patch)
    <2>1. row \in BlockRow
      <3>1. block[b] \in BlockRow
        BY <1>2 DEF Typed, BlocksTyped, IsRows
      <3>. QED
        BY <3>1, BlockPatchedTyped
    <2> HIDE DEF row
    <2>2. IsRows(Only(b, row), Blocks, BlockRow) /\ \A c \in DOMAIN Only(b, row) : ValidRange(Only(b, row)[c])
      BY <1>2, <2>1 DEF Only, IsRows, row
    <2>3. WriteBlocks(Only(b, row))
      BY <1>2 DEF row
    <2>. QED
      BY <2>2, <2>3, BlockWriteTyped
  <1>3. CASE DeleteTimeBlock(b)
    BY <1>3, BlocksGoTyped DEF DeleteTimeBlock
  <1>. QED
    BY <1>1, <1>2, <1>3 DEF PatchTimeBlock, SetTimeBlockRange

LEMMA DeleteTimeSlotTyped ==
    ASSUME Typed, NEW k, DeleteTimeSlot(k), UNCHANGED <<section, tag, template, filter, undo>>
    PROVE  Typed'
  <1>1. PICK linked, affected :
           /\ linked \subseteq DOMAIN block
           /\ slot' = Without(slot, {k})
           /\ block' = [b \in DOMAIN block |->
                          IF b \in linked
                          THEN [block[b] EXCEPT !.slot = None, !.revision = Now]
                          ELSE block[b]]
           /\ Commit(affected, {})
           /\ UNCHANGED <<task, project>>
    <2> DEFINE linked == {b \in DOMAIN block : block[b].slot = k}
    <2>1. linked \subseteq DOMAIN block
      OBVIOUS
    <2>. QED
      BY <2>1 DEF DeleteTimeSlot
  <1>2. CountTyped' /\ Now \in 0..MaxOps
    BY <1>1, CommitCounts DEF Typed
  <1>3. SlotsTyped'
    BY <1>1 DEF Typed, SlotsTyped, IsRows, MembershipReferences, Without
  <1>4. BlocksTyped'
    <2> SUFFICES ASSUME NEW b \in DOMAIN block
                 PROVE  b \in Blocks /\ block'[b] \in BlockRow /\ ValidRange(block'[b])
      BY <1>1 DEF BlocksTyped, IsRows
    <2>1. b \in Blocks /\ block[b] \in BlockRow /\ ValidRange(block[b])
      BY DEF Typed, BlocksTyped, IsRows
    <2>2. CASE b \in linked
      <3>1. block'[b] = [block[b] EXCEPT !.slot = None, !.revision = Now]
        BY <1>1, <2>2
      <3>2. block'[b] \in BlockRow /\ block'[b].start = block[b].start /\ block'[b].end = block[b].end
        BY <1>2, <2>1, <3>1 DEF BlockRow
      <3>. QED
        BY <2>1, <3>2 DEF ValidRange
    <2>3. CASE b \notin linked
      BY <1>1, <2>1, <2>3
    <2>. QED
      BY <2>2, <2>3
  <1>5. TasksTyped' /\ CatalogTyped' /\ UndoTyped'
    BY <1>1 DEF Typed, TasksTyped, CatalogTyped, UndoTyped
  <1>. QED
    BY <1>2, <1>3, <1>4, <1>5 DEF Typed

\* A slot's row with another list of tasks.
LEMMA ListedTyped ==
    ASSUME Typed, NEW k \in DOMAIN slot, NEW ids \in Seq(Tasks), ValidMembership(ids),
           ToSet(ids) \subseteq DOMAIN task, WriteSlot(k, [slot[k] EXCEPT !.tasks = ids]),
           UNCHANGED <<section, tag, template, filter, undo>>
    PROVE  Typed'
  <1> DEFINE row == [slot[k] EXCEPT !.tasks = ids]
  <1>1. k \in Slots /\ slot[k] \in SlotRow
    BY DEF Typed, SlotsTyped, IsRows
  <1>2. row \in SlotRow /\ row.tasks = ids
    BY <1>1 DEF SlotRow
  <1>3. WriteSlot(k, row)
    OBVIOUS
  <1> HIDE DEF row
  <1>. QED
    BY <1>1, <1>2, <1>3, SlotWriteTyped

LEMMA SlotsNextTyped ==
    ASSUME Typed, NEW k \in Slots, UNCHANGED <<section, tag, template, filter, undo>>,
           \/ \E p \in DOMAIN project \union {None} : CreateTimeSlot(k, p)
           \/ \E patch \in SlotPatches : PatchTimeSlot(k, patch)
           \/ DeleteTimeSlot(k)
           \/ \E t \in Tasks : AppendSlotTask(k, t) \/ RemoveSlotTask(k, t)
           \/ \E ids \in SetToSeqs(ToSet(IF k \in DOMAIN slot THEN slot[k].tasks ELSE <<>>)) :
                 ReorderSlotTasks(k, ids)
    PROVE  Typed'
  <1>0. ASSUME k \in DOMAIN slot
        PROVE  /\ slot[k] \in SlotRow /\ slot[k].tasks \in Seq(Tasks) /\ ValidMembership(slot[k].tasks)
               /\ ToSet(slot[k].tasks) \subseteq DOMAIN task
    BY <1>0 DEF Typed, SlotsTyped, IsRows, SlotRow, MembershipReferences
  <1>1. ASSUME NEW p \in DOMAIN project \union {None}, CreateTimeSlot(k, p) PROVE Typed'
    <2> DEFINE row == [project |-> p, tasks |-> <<>>, revision |-> Now]
    <2>1. WriteSlot(k, row)
      BY <1>1 DEF CreateTimeSlot
    <2>2. Now \in 0..MaxOps
      BY <2>1, CommitCounts DEF WriteSlot, Typed
    <2>3. p \in Projects \union {None}
      BY DEF Typed, CatalogTyped, IsRows
    <2>4. <<>> \in Seq(Tasks) /\ ToSet(<<>>) = {} /\ ValidMembership(<<>>)
      BY MembershipAssumption, EmptyFacts DEF ValidMembership
    <2>5. row \in SlotRow /\ row.tasks = <<>>
      BY <2>2, <2>3, <2>4 DEF SlotRow
    <2> HIDE DEF row
    <2>. QED
      BY <2>1, <2>4, <2>5, SlotWriteTyped
  <1>2. ASSUME NEW patch \in SlotPatches, PatchTimeSlot(k, patch) PROVE Typed'
    <2> DEFINE row == Patched(slot[k], patch)
    <2>1. WriteSlot(k, row) /\ k \in DOMAIN slot
      BY <1>2 DEF PatchTimeSlot
    <2>2. row \in SlotRow /\ row.tasks = slot[k].tasks
      BY <1>0, <2>1, SlotPatchedTyped
    <2> HIDE DEF row
    <2>. QED
      BY <1>0, <2>1, <2>2, SlotWriteTyped
  <1>3. CASE DeleteTimeSlot(k)
    BY <1>3, DeleteTimeSlotTyped
  <1>4. ASSUME NEW t \in Tasks, AppendSlotTask(k, t) PROVE Typed'
    <2> DEFINE ids == Appended(slot[k].tasks, t)
    <2>1. /\ k \in DOMAIN slot /\ t \in DOMAIN task /\ Len(ids) <= MaxMembership
          /\ WriteSlot(k, [slot[k] EXCEPT !.tasks = ids])
      BY <1>4 DEF AppendSlotTask
    <2>2. Unique(slot[k].tasks) /\ slot[k].tasks \in Seq(Tasks)
      BY <1>0, <2>1 DEF ValidMembership
    <2>3. ids \in Seq(Tasks) /\ Unique(ids) /\ ToSet(ids) = ToSet(slot[k].tasks) \union {t}
      <3> DEFINE old == slot[k].tasks
      <3> HIDE DEF old
      <3>1. old \in Seq(Tasks) /\ Unique(old)
        BY <2>2 DEF old
      <3>2. /\ Appended(old, t) \in Seq(Tasks) /\ Unique(Appended(old, t))
            /\ ToSet(Appended(old, t)) = ToSet(old) \union {t}
        BY <3>1, AppendedFacts
      <3>. QED
        BY <3>2 DEF old
    <2> HIDE DEF ids
    <2>4. ValidMembership(ids) /\ ToSet(ids) \subseteq DOMAIN task
      BY <1>0, <2>1, <2>3 DEF ValidMembership
    <2>. QED
      BY <2>1, <2>3, <2>4, ListedTyped
  <1>5. ASSUME NEW t \in Tasks, RemoveSlotTask(k, t) PROVE Typed'
    <2> DEFINE old == slot[k].tasks
               ids == Selected(old, Tasks \ {t})
    <2>1. k \in DOMAIN slot /\ WriteSlot(k, [slot[k] EXCEPT !.tasks = ids])
      BY <1>5 DEF RemoveSlotTask
    <2>2. old \in Seq(Tasks) /\ ValidMembership(old) /\ ToSet(old) \subseteq DOMAIN task
      BY <1>0, <2>1
    <2> HIDE DEF old
    <2>3. ids \in Seq(Tasks) /\ ValidMembership(ids) /\ ToSet(ids) \subseteq DOMAIN task
      BY <2>2, KeptList
    <2> HIDE DEF ids
    <2>. QED
      BY <2>1, <2>3, ListedTyped
  <1>6. ASSUME NEW ids \in SetToSeqs(ToSet(IF k \in DOMAIN slot THEN slot[k].tasks ELSE <<>>)),
               ReorderSlotTasks(k, ids)
        PROVE  Typed'
    <2> DEFINE old == slot[k].tasks
    <2>1. /\ k \in DOMAIN slot /\ IsPermutation(ids, old)
          /\ WriteSlot(k, [slot[k] EXCEPT !.tasks = ids])
      BY <1>6 DEF ReorderSlotTasks
    <2>2. ids \in SetToSeqs(ToSet(old))
      BY <2>1
    <2>3. old \in Seq(Tasks) /\ ValidMembership(old) /\ ToSet(old) \subseteq DOMAIN task
      BY <1>0, <2>1
    <2> HIDE DEF old
    <2>4. ids \in Seq(Tasks)
      BY <2>1, <2>2, <2>3, ReorderedList
    <2>5. ValidMembership(ids) /\ ToSet(ids) \subseteq DOMAIN task
      BY <2>1, <2>3 DEF IsPermutation, ValidMembership
    <2>. QED
      BY <2>1, <2>4, <2>5, ListedTyped
  <1>. QED
    BY <1>1, <1>2, <1>3, <1>4, <1>5, <1>6

LEMMA ReplanTyped ==
    ASSUME Typed, UNCHANGED <<section, tag, template, filter, undo>>,
           ReplanDelete \/ \E target : ReplanMove(target)
    PROVE  Typed'
  <1>1. CASE ReplanDelete
    BY <1>1, BlocksGoTyped DEF ReplanDelete
  <1>2. ASSUME NEW target, ReplanMove(target) PROVE Typed'
    <2> DEFINE rows == [b \in Eligible(today) |-> [block[b] EXCEPT !.date = target]]
    <2>1. WriteBlocks(rows) /\ target \in Days
      BY <1>2 DEF ReplanMove
    <2>2. \A b \in Eligible(today) : b \in Blocks /\ block[b] \in BlockRow /\ ValidRange(block[b])
      BY DEF Eligible, Typed, BlocksTyped, IsRows
    <2>3. ASSUME NEW b \in Eligible(today)
          PROVE  rows[b] \in BlockRow /\ ValidRange(rows[b]) /\ b \in Blocks
      <3>1. rows[b] = [block[b] EXCEPT !.date = target]
        OBVIOUS
      <3>2. /\ rows[b] \in BlockRow /\ rows[b].start = block[b].start
            /\ rows[b].end = block[b].end
        BY <2>1, <2>2, <3>1 DEF BlockRow
      <3>. QED
        BY <2>2, <3>2 DEF ValidRange
    <2>4. DOMAIN rows = Eligible(today)
      OBVIOUS
    <2> HIDE DEF rows
    <2>5. IsRows(rows, Blocks, BlockRow) /\ \A b \in DOMAIN rows : ValidRange(rows[b])
      BY <2>3, <2>4 DEF IsRows
    <2>. QED
      BY <2>1, <2>5, BlockWriteTyped
  <1>. QED
    BY <1>1, <1>2

LEMMA TimeBlockTyped ==
    ASSUME Typed, TimeBlockNext, UNCHANGED <<section, tag, template, filter, undo>>
    PROVE  Typed'
  <1>1. CASE PreviewReplan \/ NextDay
    <2>1. /\ UNCHANGED <<task, project, slot, block, revision>>
          /\ today' \in Days
      BY <1>1 DEF PreviewReplan, NextDay, Typed, CountTyped
    <2>. QED
      BY <2>1 DEF Typed, TasksTyped, CatalogTyped, SlotsTyped, BlocksTyped, CountTyped, UndoTyped,
                  MembershipReferences
  <1>. QED
    BY <1>1, BlocksNextTyped, SlotsNextTyped, ReplanTyped DEF TimeBlockNext

\* A mutation of the catalog alone, whose rows keep their types.
LEMMA CatalogWriteTyped ==
    ASSUME Typed, NEW affected, CatalogEvent(affected), CatalogTyped', UNCHANGED undo
    PROVE  Typed'
  <1>1. UNCHANGED <<task, slot, block, undo>>
    BY DEF CatalogEvent
  <1>2. CountTyped'
    BY CommitCounts DEF CatalogEvent, Typed
  <1>. QED
    BY <1>1, <1>2 DEF Typed, TasksTyped, SlotsTyped, BlocksTyped, UndoTyped, MembershipReferences

\* Some tasks are rewritten and stamped: a table of tasks stays one.
LEMMA StampedTyped ==
    ASSUME TasksTyped, Now \in 0..MaxOps, NEW rows, DOMAIN rows \subseteq DOMAIN task,
           \A t \in DOMAIN rows : rows[t] \in TaskRow
    PROVE  /\ IsRows(Update(task, Stamped(rows)), Tasks, TaskRow)
           /\ DOMAIN Update(task, Stamped(rows)) = DOMAIN task
  <1>1. \A t \in DOMAIN rows : Stamped(rows)[t] \in TaskRow
    BY RowsStamped DEF Stamped
  <1>2. DOMAIN Stamped(rows) = DOMAIN rows
    BY DEF Stamped
  <1>. QED
    BY <1>1, <1>2 DEF TasksTyped, IsRows, Update

LEMMA DeleteProjectTyped ==
    ASSUME Typed, NEW p, DeleteProject(p), UNCHANGED undo
    PROVE  Typed'
  <1>1. PICK tasks, slots, gone, affected, resync :
           /\ p \in DOMAIN project
           /\ tasks \subseteq DOMAIN task /\ slots \subseteq DOMAIN slot
           /\ task' = Update(task, Stamped([t \in tasks |->
                         [task[t] EXCEPT !.project = None, !.section = None]]))
           /\ slot' = Update(slot, Stamped([k \in slots |-> [slot[k] EXCEPT !.project = None]]))
           /\ section' = Without(section, gone)
           /\ Commit(affected, resync)
    <2> DEFINE tasks == {t \in DOMAIN task : task[t].project = p}
               slots == {k \in DOMAIN slot : slot[k].project = p}
    <2>1. tasks \subseteq DOMAIN task /\ slots \subseteq DOMAIN slot
      OBVIOUS
    <2>. QED
      BY <2>1 DEF DeleteProject
  <1>2. CountTyped' /\ Now \in 0..MaxOps
    BY <1>1, CommitCounts DEF Typed
  <1>3. TasksTyped' /\ DOMAIN task' = DOMAIN task
    <2> DEFINE rows == [t \in tasks |-> [task[t] EXCEPT !.project = None, !.section = None]]
    <2>1. \A t \in tasks : task[t] \in TaskRow
      BY <1>1 DEF Typed, TasksTyped, IsRows
    <2>2. \A t \in tasks : rows[t] \in TaskRow
      BY <2>1 DEF TaskRow
    <2>3. DOMAIN rows = tasks /\ task' = Update(task, Stamped(rows))
      BY <1>1
    <2> HIDE DEF rows
    <2>. QED
      BY <1>1, <1>2, <2>2, <2>3, StampedTyped DEF Typed, TasksTyped
  <1>4. SlotsTyped'
    <2> SUFFICES ASSUME NEW k \in DOMAIN slot
                 PROVE  slot'[k] \in SlotRow /\ slot'[k].tasks = slot[k].tasks
      BY <1>1, <1>3 DEF Typed, SlotsTyped, IsRows, MembershipReferences, Update, Stamped
    <2>1. slot[k] \in SlotRow
      BY DEF Typed, SlotsTyped, IsRows
    <2>2. CASE k \in slots
      <3>1. slot'[k] = [[slot[k] EXCEPT !.project = None] EXCEPT !.revision = Now]
        BY <1>1, <2>2 DEF Update, Stamped
      <3>. QED
        BY <1>2, <2>1, <3>1 DEF SlotRow
    <2>3. CASE k \notin slots
      BY <1>1, <2>1, <2>3 DEF Update, Stamped
    <2>. QED
      BY <2>2, <2>3
  <1>5. CatalogTyped'
    <2> USE DEF Typed, CatalogTyped, IsRows
    <2>1. IsRows(project', Projects, ProjectRow)
      BY <1>1 DEF DeleteProject
    <2>2. IsRows(section', Sections, SectionRow)
      BY <1>1 DEF Without
    <2>3. IsRows(template', Templates, TemplateRow)
      BY DEF DeleteProject, TemplateRow
    <2>. QED
      BY <2>1, <2>2, <2>3 DEF DeleteProject
  <1>6. BlocksTyped' /\ UndoTyped'
    BY DEF DeleteProject, Typed, BlocksTyped, UndoTyped
  <1>. QED
    BY <1>2, <1>3, <1>4, <1>5, <1>6 DEF Typed

LEMMA ProjectTyped ==
    ASSUME Typed, ProjectNext, UNCHANGED undo
    PROVE  Typed'
  <1>1. ASSUME NEW p \in Projects, NEW parent \in DOMAIN project \union {None},
               project' = Put(project, p, parent), CatalogEvent({<<"project", p>>}),
               UNCHANGED catalogRows
        PROVE  Typed'
    <2>1. CatalogTyped'
      BY <1>1 DEF Typed, CatalogTyped, IsRows, Put, Update, Only, ProjectRow, catalogRows
    <2>. QED
      BY <1>1, <2>1, CatalogWriteTyped
  <1>. QED
    BY <1>1, DeleteProjectTyped DEF ProjectNext, CreateProject, PatchProject

\* The rows of tasks that lose a section or a tag, with the row they lose.
LEMMA DeleteLabelTyped ==
    ASSUME Typed, NEW rows, DOMAIN rows \subseteq DOMAIN task,
           \A t \in DOMAIN rows : rows[t] \in TaskRow,
           task' = Update(task, Stamped(rows)), NEW affected, NEW resync,
           Commit(affected, resync), UNCHANGED <<slot, block, undo>>, CatalogTyped'
    PROVE  Typed'
  <1>1. CountTyped' /\ Now \in 0..MaxOps
    BY CommitCounts DEF Typed
  <1>2. TasksTyped' /\ DOMAIN task' = DOMAIN task
    BY <1>1, StampedTyped DEF Typed, TasksTyped
  <1>. QED
    BY <1>1, <1>2 DEF Typed, SlotsTyped, BlocksTyped, UndoTyped, MembershipReferences

LEMMA LabelTyped ==
    ASSUME Typed, LabelNext, UNCHANGED undo
    PROVE  Typed'
  <1> USE DEF CatalogTyped, IsRows
  <1>1. ASSUME NEW s \in Sections, NEW p \in Projects, CreateSection(s, p) PROVE Typed'
    <2>1. CatalogTyped'
      BY <1>1 DEF Typed, CreateSection, CatalogEvent, Put, Update, Only, SectionRow
    <2>. QED
      BY <1>1, <2>1, CatalogWriteTyped DEF CreateSection
  <1>2. ASSUME NEW s \in Sections, PatchSection(s) PROVE Typed'
    <2>1. CatalogTyped'
      BY <1>2 DEF Typed, PatchSection
    <2>. QED
      BY <1>2, <2>1, CatalogWriteTyped DEF PatchSection
  <1>3. ASSUME NEW s \in Sections, DeleteSection(s) PROVE Typed'
    <2> DEFINE tasks == {t \in DOMAIN task : task[t].section = s}
               rows == [t \in tasks |-> [task[t] EXCEPT !.section = None]]
    <2>1. \A t \in tasks : rows[t] \in TaskRow
      BY DEF Typed, TasksTyped, TaskRow
    <2>2. DOMAIN rows = tasks /\ tasks \subseteq DOMAIN task
      OBVIOUS
    <2>3. CatalogTyped'
      BY <1>3 DEF Typed, DeleteSection, Without
    <2>4. PICK affected, resync :
              task' = Update(task, Stamped(rows)) /\ Commit(affected, resync)
      BY <1>3 DEF DeleteSection
    <2>5. UNCHANGED <<slot, block, undo>>
      BY <1>3 DEF DeleteSection
    <2> HIDE DEF rows, tasks, CatalogTyped
    <2>. QED
      BY <2>1, <2>2, <2>3, <2>4, <2>5, DeleteLabelTyped
  <1>4. ASSUME NEW g \in Tags, NEW n \in Names, CreateTag(g, n) \/ PatchTag(g, n) PROVE Typed'
    <2>1. CatalogTyped'
      BY <1>4 DEF Typed, CreateTag, PatchTag, CatalogEvent, Put, Update, Only, TagRow
    <2>. QED
      BY <1>4, <2>1, CatalogWriteTyped DEF CreateTag, PatchTag
  <1>5. ASSUME NEW g \in Tags, DeleteTag(g) PROVE Typed'
    <2> DEFINE tasks == {t \in DOMAIN task : g \in task[t].tags}
               rows == [t \in tasks |-> [task[t] EXCEPT !.tags = @ \ {g}]]
    <2>1. \A t \in tasks : rows[t] \in TaskRow
      BY DEF Typed, TasksTyped, TaskRow
    <2>2. DOMAIN rows = tasks /\ tasks \subseteq DOMAIN task
      OBVIOUS
    <2>3. CatalogTyped'
      <3>1. IsRows(template', Templates, TemplateRow)
        BY <1>5 DEF Typed, DeleteTag, TemplateRow
      <3>. QED
        BY <1>5, <3>1 DEF Typed, DeleteTag, Without
    <2>4. PICK affected, resync :
              task' = Update(task, Stamped(rows)) /\ Commit(affected, resync)
      BY <1>5 DEF DeleteTag
    <2>5. UNCHANGED <<slot, block, undo>>
      BY <1>5 DEF DeleteTag
    <2> HIDE DEF rows, tasks, CatalogTyped
    <2>. QED
      BY <2>1, <2>2, <2>3, <2>4, <2>5, DeleteLabelTyped
  <1>. QED
    BY <1>1, <1>2, <1>3, <1>4, <1>5 DEF LabelNext

LEMMA TemplateTyped ==
    ASSUME Typed, TemplateNext, UNCHANGED undo
    PROVE  Typed'
  <1> USE DEF CatalogTyped, IsRows
  <1>1. ASSUME NEW m \in Templates, NEW row \in TemplateRow, WriteTemplate(m, row) PROVE Typed'
    <2>1. CatalogTyped'
      BY <1>1 DEF Typed, WriteTemplate, Put, Update, Only
    <2>. QED
      BY <1>1, <2>1, CatalogWriteTyped DEF WriteTemplate
  <1>2. ASSUME NEW m \in Templates, NEW p \in DOMAIN project \union {None},
               CreateTemplate(m, [project |-> p, tags |-> {}])
        PROVE  Typed'
    <2> DEFINE row == [project |-> p, tags |-> {}]
    <2>1. row \in TemplateRow
      BY DEF Typed, TemplateRow
    <2>2. WriteTemplate(m, row)
      BY <1>2 DEF CreateTemplate
    <2> HIDE DEF row
    <2>. QED
      BY <1>1, <2>1, <2>2
  <1>3. ASSUME NEW m \in Templates, NEW p \in DOMAIN project \union {None},
               PatchTemplate(m, [project |-> p])
        PROVE  Typed'
    <2> DEFINE row == Patched(template[m], [project |-> p])
    <2>1. m \in DOMAIN template /\ WriteTemplate(m, row)
      BY <1>3 DEF PatchTemplate
    <2>2. template[m] \in TemplateRow /\ p \in Projects \union {None}
      BY <2>1 DEF Typed
    <2>3. row \in TemplateRow
      BY <2>2 DEF TemplateRow, Patched, Update
    <2> HIDE DEF row
    <2>. QED
      BY <1>1, <2>1, <2>3
  <1>4. ASSUME NEW m \in Templates, NEW G \in SUBSET DOMAIN tag, PatchTemplate(m, [tags |-> G])
        PROVE  Typed'
    <2> DEFINE row == Patched(template[m], [tags |-> G])
    <2>1. m \in DOMAIN template /\ WriteTemplate(m, row)
      BY <1>4 DEF PatchTemplate
    <2>2. template[m] \in TemplateRow /\ G \subseteq Tags
      BY <2>1 DEF Typed
    <2>3. row \in TemplateRow
      BY <2>2 DEF TemplateRow, Patched, Update
    <2> HIDE DEF row
    <2>. QED
      BY <1>1, <2>1, <2>3
  <1>5. ASSUME NEW m \in Templates, DeleteTemplate(m) PROVE Typed'
    <2>1. CatalogTyped'
      BY <1>5 DEF Typed, DeleteTemplate, Without
    <2>. QED
      BY <1>5, <2>1, CatalogWriteTyped DEF DeleteTemplate
  <1>6. ASSUME NEW f \in Filters, NEW rows, IsRows(rows, Filters, FilterRow), WriteFilter(rows, f)
        PROVE  Typed'
    <2>1. CatalogTyped'
      BY <1>6 DEF Typed, WriteFilter
    <2>. QED
      BY <1>6, <2>1, CatalogWriteTyped DEF WriteFilter
  <1>7. ASSUME NEW f \in Filters, NEW n \in Names PROVE IsRows(Put(filter, f, n), Filters, FilterRow)
    BY DEF Typed, Put, Update, Only, FilterRow
  <1>8. ASSUME NEW f \in Filters PROVE IsRows(Without(filter, {f}), Filters, FilterRow)
    BY DEF Typed, Without
  <1> HIDE DEF CatalogTyped, IsRows
  <1>. QED
    BY <1>2, <1>3, <1>4, <1>5, <1>6, <1>7, <1>8
    DEF TemplateNext, CreateSavedFilter, PatchSavedFilter, DeleteSavedFilter

\* A mutation of tasks and planning rows, whose rows have their types.
LEMMA CommitTasksTyped ==
    ASSUME Typed, NEW rows, NEW planned, NEW affected, NEW resync,
           CommitTasks(rows, planned, affected, resync), UndoTyped',
           IsRows(rows, Tasks, TaskRow),
           IsRows(planned.slots, Slots, SlotRow),
           \A k \in DOMAIN planned.slots : /\ ValidMembership(planned.slots[k].tasks)
                                           /\ ToSet(planned.slots[k].tasks) \subseteq DOMAIN rows,
           \A k \in DOMAIN slot \ DOMAIN planned.slots :
               ToSet(slot[k].tasks) \subseteq DOMAIN rows,
           IsRows(planned.blocks, Blocks, BlockRow),
           \A b \in DOMAIN planned.blocks : ValidRange(planned.blocks[b])
    PROVE  Typed'
  <1>1. /\ task' = rows /\ slot' = Update(slot, planned.slots)
        /\ block' = Update(block, planned.blocks)
        /\ UNCHANGED <<project, section, tag, template, filter>>
    BY DEF CommitTasks
  <1>2. CountTyped'
    BY CommitCounts DEF CommitTasks, Typed
  <1>3. TasksTyped' /\ CatalogTyped'
    BY <1>1 DEF Typed, TasksTyped, CatalogTyped
  <1>4. SlotsTyped'
    <2> SUFFICES ASSUME NEW k \in DOMAIN slot'
                 PROVE  /\ k \in Slots /\ slot'[k] \in SlotRow /\ ValidMembership(slot'[k].tasks)
                        /\ ToSet(slot'[k].tasks) \subseteq DOMAIN rows
      BY <1>1 DEF SlotsTyped, IsRows, MembershipReferences
    <2>1. CASE k \in DOMAIN planned.slots
      BY <1>1, <2>1 DEF Update, IsRows
    <2>2. CASE k \notin DOMAIN planned.slots
      <3>1. k \in DOMAIN slot /\ slot'[k] = slot[k]
        BY <1>1, <2>2 DEF Update
      <3>. QED
        BY <2>2, <3>1 DEF Typed, SlotsTyped, IsRows
    <2>. QED
      BY <2>1, <2>2
  <1>5. BlocksTyped'
    BY <1>1 DEF Typed, BlocksTyped, IsRows, Update
  <1>. QED
    BY <1>2, <1>3, <1>4, <1>5 DEF Typed

LEMMA RetainTyped ==
    ASSUME UndoTyped, NEW inverse, NEW post, NEW undone, Retain(inverse, post, undone),
           inverse.ids \subseteq Tasks, IsRows(inverse.rows, Tasks, TaskRow),
           IsRows(post.tasks, Tasks, TaskRow),
           \A k \in DOMAIN inverse.links.memberships :
               inverse.links.memberships[k] \in Seq(Place(inverse.ids))
    PROVE  UndoTyped'
  <1>1. undo'[Now].inverse = inverse /\ undo'[Now].post = post
    BY DEF Retain, Put, Update, Only
  <1>2. \A o \in DOMAIN undo' : o = Now \/ o \in DOMAIN undo
    BY DEF Retain, Put, Update, Only
  <1>3. ASSUME NEW o \in DOMAIN undo, o # Now
        PROVE  undo'[o].inverse = undo[o].inverse /\ undo'[o].post = undo[o].post
    BY <1>3 DEF Retain, Put, Update, Only
  <1> HIDE DEF Retain
  <1>. QED
    BY <1>1, <1>2, <1>3 DEF UndoTyped

\* What the tasks T leave behind when they go.
LEMMA DetachedTyped ==
    ASSUME Typed, NEW T, T \subseteq Tasks, Now \in 0..MaxOps
    PROVE  /\ IsRows(Detached(T).slots, Slots, SlotRow)
           /\ \A k \in DOMAIN Detached(T).slots :
                 /\ ValidMembership(Detached(T).slots[k].tasks)
                 /\ ToSet(Detached(T).slots[k].tasks) \subseteq DOMAIN DeleteRows(task, T)
           /\ \A k \in DOMAIN slot \ DOMAIN Detached(T).slots :
                 ToSet(slot[k].tasks) \subseteq DOMAIN DeleteRows(task, T)
           /\ IsRows(Detached(T).blocks, Blocks, BlockRow)
           /\ \A b \in DOMAIN Detached(T).blocks : ValidRange(Detached(T).blocks[b])
           /\ \A k \in DOMAIN PlanningLinks(T).memberships :
                 PlanningLinks(T).memberships[k] \in Seq(Place(T))
  <1> DEFINE linked == {k \in DOMAIN slot : ToSet(slot[k].tasks) \intersect T # {}}
             slots == Detached(T).slots
             blocks == Detached(T).blocks
             ms == PlanningLinks(T).memberships
  <1>1. DOMAIN DeleteRows(task, T) = DOMAIN task \ T
    BY DEF DeleteRows
  <1>2. /\ DOMAIN slots = linked /\ DOMAIN ms = linked
        /\ \A k \in linked :
              /\ slots[k] = [slot[k] EXCEPT !.tasks = Selected(slot[k].tasks, Tasks \ T),
                                            !.revision = Now]
              /\ ms[k] = Places(slot[k].tasks, T)
    BY DEF Detached, PlanningLinks, Memberships, Places
  <1>3. /\ DOMAIN blocks = {b \in DOMAIN block : block[b].task \in T}
        /\ \A b \in DOMAIN blocks :
              blocks[b] = [block[b] EXCEPT !.task = None, !.revision = Now]
    BY DEF Detached, BlockLinks
  <1> HIDE DEF slots, blocks, ms
  <1>4. ASSUME NEW k \in DOMAIN slot
        PROVE  /\ k \in Slots /\ slot[k] \in SlotRow /\ slot[k].tasks \in Seq(Tasks)
               /\ ValidMembership(slot[k].tasks) /\ ToSet(slot[k].tasks) \subseteq DOMAIN task
    BY DEF Typed, SlotsTyped, IsRows, SlotRow, MembershipReferences
  <1>5. ASSUME NEW k \in linked
        PROVE  /\ k \in Slots /\ slots[k] \in SlotRow /\ ValidMembership(slots[k].tasks)
               /\ ToSet(slots[k].tasks) \subseteq DOMAIN task \ T
               /\ ms[k] \in Seq(Place(T))
    <2> DEFINE old == slot[k].tasks
               ids == Selected(old, Tasks \ T)
    <2>1. old \in Seq(Tasks) /\ ValidMembership(old) /\ ToSet(old) \subseteq DOMAIN task
      BY <1>4
    <2>2. slots[k] = [slot[k] EXCEPT !.tasks = ids, !.revision = Now]
      BY <1>2
    <2>3. ms[k] = Places(old, T)
      BY <1>2
    <2> HIDE DEF old
    <2>4. /\ ids \in Seq(Tasks) /\ ValidMembership(ids) /\ ToSet(ids) = ToSet(old) \ T
          /\ ToSet(ids) \subseteq DOMAIN task
      BY <2>1, KeptList
    <2> HIDE DEF ids
    <2>5. slots[k] \in SlotRow /\ slots[k].tasks = ids
      BY <1>4, <2>2, <2>4 DEF SlotRow
    <2>6. Places(old, T) \in Seq(Place(Tasks \intersect T))
      BY <2>1, PutBack
    <2>7. Tasks \intersect T = T
      OBVIOUS
    <2>. QED
      BY <1>4, <2>3, <2>4, <2>5, <2>6, <2>7
  <1>6. \A k \in DOMAIN slot \ linked : ToSet(slot[k].tasks) \subseteq DOMAIN task \ T
    BY <1>4
  <1>7. ASSUME NEW b \in DOMAIN blocks
        PROVE  b \in Blocks /\ blocks[b] \in BlockRow /\ ValidRange(blocks[b])
    <2>1. b \in Blocks /\ block[b] \in BlockRow /\ ValidRange(block[b])
      BY <1>3 DEF Typed, BlocksTyped, IsRows
    <2>2. /\ blocks[b] \in BlockRow
          /\ blocks[b].start = block[b].start /\ blocks[b].end = block[b].end
      BY <1>3, <2>1 DEF BlockRow
    <2>. QED
      BY <2>1, <2>2 DEF ValidRange
  <1> HIDE DEF linked
  <1>. QED
    BY <1>1, <1>2, <1>5, <1>6, <1>7 DEF IsRows, slots, blocks, ms

\* Tasks that come back to where their links say.
LEMMA ReattachedTyped ==
    ASSUME Typed, Now \in 0..MaxOps, NEW ids, ids \subseteq Tasks, NEW links,
           LinksRestorable(links),
           \A k \in DOMAIN links.memberships : links.memberships[k] \in Seq(Place(ids)),
           \A b \in DOMAIN links.blocks : links.blocks[b] \in ids,
           NEW rows, DOMAIN rows = DOMAIN task \union ids
    PROVE  /\ IsRows(Reattached(links).slots, Slots, SlotRow)
           /\ \A k \in DOMAIN Reattached(links).slots :
                 /\ ValidMembership(Reattached(links).slots[k].tasks)
                 /\ ToSet(Reattached(links).slots[k].tasks) \subseteq DOMAIN rows
           /\ \A k \in DOMAIN slot \ DOMAIN Reattached(links).slots :
                 ToSet(slot[k].tasks) \subseteq DOMAIN rows
           /\ IsRows(Reattached(links).blocks, Blocks, BlockRow)
           /\ \A b \in DOMAIN Reattached(links).blocks : ValidRange(Reattached(links).blocks[b])
  <1> DEFINE slots == Reattached(links).slots
             blocks == Reattached(links).blocks
  <1>1. /\ DOMAIN slots = DOMAIN links.memberships
        /\ \A k \in DOMAIN slots :
              slots[k] = [slot[k] EXCEPT !.tasks = Reinsert(slot[k].tasks, links.memberships[k]),
                                         !.revision = Now]
    BY DEF Reattached
  <1>2. /\ DOMAIN blocks = DOMAIN links.blocks
        /\ \A b \in DOMAIN blocks :
              blocks[b] = [block[b] EXCEPT !.task = links.blocks[b], !.revision = Now]
    BY DEF Reattached
  <1> HIDE DEF slots, blocks
  <1>3. ASSUME NEW k \in DOMAIN slot
        PROVE  /\ k \in Slots /\ slot[k] \in SlotRow /\ slot[k].tasks \in Seq(Tasks)
               /\ ToSet(slot[k].tasks) \subseteq DOMAIN task
    BY DEF Typed, SlotsTyped, IsRows, SlotRow, MembershipReferences
  <1>4. ASSUME NEW k \in DOMAIN slots
        PROVE  /\ k \in Slots /\ slots[k] \in SlotRow /\ ValidMembership(slots[k].tasks)
               /\ ToSet(slots[k].tasks) \subseteq DOMAIN rows
    <2> DEFINE old == slot[k].tasks
               ms == links.memberships[k]
               new == Reinsert(old, ms)
    <2>1. k \in DOMAIN slot /\ ValidMembership(new) /\ Fits(old, ms)
      BY <1>1 DEF LinksRestorable, Fits
    <2>2. slots[k] = [slot[k] EXCEPT !.tasks = new, !.revision = Now]
      BY <1>1
    <2>3. ms \in Seq(Place(ids))
      BY <1>1
    <2>4. old \in Seq(Tasks) /\ ToSet(old) \subseteq DOMAIN task
      BY <1>3, <2>1
    <2> HIDE DEF old, ms
    <2>5. ms \in Seq(Place(Tasks)) /\ PlacedTasks(ms) \subseteq ids
      <3> DEFINE A == Place(ids)
                 B == Place(Tasks)
      <3>1. A \subseteq B /\ \A m \in A : m.task \in ids
        BY DEF Place
      <3>2. ms \in Seq(A)
        BY <2>3
      <3> HIDE DEF A, B
      <3>3. ms \in Seq(B) /\ \A i \in DOMAIN ms : ms[i] \in A
        BY <3>1, <3>2
      <3>4. PlacedTasks(ms) \subseteq ids
        BY <3>1, <3>3 DEF PlacedTasks
      <3>. QED
        BY <3>3, <3>4 DEF B
    <2>6. new \in Seq(Tasks) /\ ToSet(new) = ToSet(old) \union PlacedTasks(ms)
      BY <2>1, <2>4, <2>5, ReinsertFrom
    <2> HIDE DEF new
    <2>7. slots[k] \in SlotRow /\ slots[k].tasks = new
      BY <1>3, <2>1, <2>2, <2>6 DEF SlotRow
    <2>. QED
      BY <1>3, <2>1, <2>4, <2>5, <2>6, <2>7
  <1>5. \A k \in DOMAIN slot : ToSet(slot[k].tasks) \subseteq DOMAIN rows
    BY <1>3
  <1>6. ASSUME NEW b \in DOMAIN blocks
        PROVE  b \in Blocks /\ blocks[b] \in BlockRow /\ ValidRange(blocks[b])
    <2>1. b \in DOMAIN block /\ links.blocks[b] \in Tasks
      BY <1>2 DEF LinksRestorable
    <2>2. b \in Blocks /\ block[b] \in BlockRow /\ ValidRange(block[b])
      BY <2>1 DEF Typed, BlocksTyped, IsRows
    <2>3. /\ blocks[b] \in BlockRow
          /\ blocks[b].start = block[b].start /\ blocks[b].end = block[b].end
      BY <1>2, <2>1, <2>2 DEF BlockRow
    <2>. QED
      BY <2>2, <2>3 DEF ValidRange
  <1>. QED
    BY <1>4, <1>5, <1>6 DEF IsRows, slots, blocks

LEMMA NoRows == \A Ids, Row : IsRows(<<>>, Ids, Row)
  <1>1. DOMAIN <<>> = {}
    OBVIOUS
  <1>. QED
    BY <1>1 DEF IsRows

LEMMA OneRow == \A t \in Tasks : \A row \in TaskRow : IsRows(Only(t, row), Tasks, TaskRow)
  BY DEF IsRows, Only

\* One task is written and no planning row with it.
LEMMA WritingTyped ==
    ASSUME Typed, NEW t \in Tasks, NEW row \in TaskRow,
           CommitTasks(Put(task, t, row), NoPlanned, {t}, {}), UndoTyped'
    PROVE  Typed'
  <1>1. IsRows(Put(task, t, row), Tasks, TaskRow) /\ DOMAIN Put(task, t, row) = DOMAIN task \union {t}
    BY DEF Typed, TasksTyped, IsRows, Put, Update, Only
  <1>2. /\ IsRows(NoPlanned.slots, Slots, SlotRow) /\ IsRows(NoPlanned.blocks, Blocks, BlockRow)
        /\ DOMAIN NoPlanned.slots = {} /\ DOMAIN NoPlanned.blocks = {}
    BY NoRows DEF NoPlanned
  <1>3. \A k \in DOMAIN slot : ToSet(slot[k].tasks) \subseteq DOMAIN task
    BY DEF Typed, SlotsTyped, MembershipReferences
  <1>. QED
    BY <1>1, <1>2, <1>3, CommitTasksTyped

LEMMA ApplyTemplateTyped ==
    ASSUME Typed, NEW t \in Tasks, NEW m \in DOMAIN template, ApplyTemplate(m, t)
    PROVE  Typed'
  <1> DEFINE row == [project |-> template[m].project, section |-> None,
                     tags |-> template[m].tags, parent |-> None, source |-> None,
                     revision |-> Now]
             post == PostOf(Only(t, row), {}, NoPlanned)
             inverse == DeleteTasks({t})
  <1>1. /\ CommitTasks(Put(task, t, row), NoPlanned, {t}, {})
        /\ Retain(inverse, post, None)
    BY DEF ApplyTemplate
  <1>2. Now \in 0..MaxOps
    BY <1>1, CommitCounts DEF CommitTasks, Typed
  <1>3. template[m] \in TemplateRow
    BY DEF Typed, CatalogTyped, IsRows
  <1>4. row \in TaskRow
    BY <1>2, <1>3 DEF TemplateRow, TaskRow
  <1> HIDE DEF row
  <1>5. post.tasks = Only(t, row)
    BY DEF PostOf
  <1>6. /\ inverse.ids = {t} /\ inverse.rows = <<>> /\ inverse.links.memberships = <<>>
        /\ DOMAIN inverse.links.memberships = {}
    BY DEF DeleteTasks, NoLinks
  <1> HIDE DEF post, inverse
  <1>7. UndoTyped'
    <2>1. IsRows(post.tasks, Tasks, TaskRow) /\ IsRows(inverse.rows, Tasks, TaskRow)
      BY <1>4, <1>5, <1>6, OneRow, NoRows
    <2>. QED
      BY <1>1, <1>6, <2>1, RetainTyped DEF Typed
  <1>. QED
    BY <1>1, <1>4, <1>7, WritingTyped

LEMMA PatchTaskTyped ==
    ASSUME Typed, NEW t \in Tasks, NEW patch \in TaskPatches, PatchTask(t, patch)
    PROVE  Typed'
  <1> DEFINE row == [Patched(task[t], patch) EXCEPT !.revision = Now]
             post == PostOf(Only(t, row), {}, NoPlanned)
             inverse == RestoreTasks(Only(t, task[t]), NoLinks)
  <1>1. /\ CommitTasks(Put(task, t, row), NoPlanned, {t}, {})
        /\ Retain(inverse, post, None) /\ t \in DOMAIN task
    BY DEF PatchTask
  <1>2. Now \in 0..MaxOps
    BY <1>1, CommitCounts DEF CommitTasks, Typed
  <1>3. task[t] \in TaskRow
    BY <1>1 DEF Typed, TasksTyped, IsRows
  <1>4. row \in TaskRow
    <2>1. Patched(task[t], patch) \in TaskRow
      BY <1>3, TaskPatchedTyped
    <2>. QED
      BY <1>2, <2>1, RowsStamped
  <1> HIDE DEF row
  <1>5. post.tasks = Only(t, row)
    BY DEF PostOf
  <1>6. /\ inverse.ids = {t} /\ inverse.rows = Only(t, task[t])
        /\ DOMAIN inverse.links.memberships = {}
    BY DEF RestoreTasks, NoLinks, Only
  <1> HIDE DEF post, inverse
  <1>7. UndoTyped'
    <2>1. IsRows(post.tasks, Tasks, TaskRow) /\ IsRows(inverse.rows, Tasks, TaskRow)
      BY <1>3, <1>4, <1>5, <1>6, OneRow
    <2>. QED
      BY <1>1, <1>6, <2>1, RetainTyped DEF Typed
  <1>. QED
    BY <1>1, <1>4, <1>7, WritingTyped

\* The tasks T go, and what they leave is what brings them back.
LEMMA DetachingTyped ==
    ASSUME Typed, NEW T, T \subseteq Tasks, NEW inverse, NEW post, NEW undone,
           CommitTasks(DeleteRows(task, T), Detached(T), T, {"tasks"}),
           Retain(inverse, post, undone),
           inverse.ids = T, inverse.links = PlanningLinks(T),
           IsRows(inverse.rows, Tasks, TaskRow), post.tasks = <<>>
    PROVE  Typed'
  <1>1. Now \in 0..MaxOps
    BY CommitCounts DEF CommitTasks, Typed
  <1>2. /\ IsRows(Detached(T).slots, Slots, SlotRow)
        /\ \A k \in DOMAIN Detached(T).slots :
              /\ ValidMembership(Detached(T).slots[k].tasks)
              /\ ToSet(Detached(T).slots[k].tasks) \subseteq DOMAIN DeleteRows(task, T)
        /\ \A k \in DOMAIN slot \ DOMAIN Detached(T).slots :
              ToSet(slot[k].tasks) \subseteq DOMAIN DeleteRows(task, T)
        /\ IsRows(Detached(T).blocks, Blocks, BlockRow)
        /\ \A b \in DOMAIN Detached(T).blocks : ValidRange(Detached(T).blocks[b])
        /\ \A k \in DOMAIN PlanningLinks(T).memberships :
              PlanningLinks(T).memberships[k] \in Seq(Place(T))
    BY <1>1, DetachedTyped
  <1>3. UndoTyped'
    <2>1. IsRows(post.tasks, Tasks, TaskRow)
      BY NoRows
    <2>. QED
      BY <1>2, <2>1, RetainTyped DEF Typed
  <1>4. IsRows(DeleteRows(task, T), Tasks, TaskRow)
    <2>1. \A row \in TaskRow : Cleared(row, T) \in TaskRow
      BY DEF Cleared, TaskRow
    <2>. QED
      BY <2>1 DEF Typed, TasksTyped, IsRows, DeleteRows
  <1>. QED
    BY <1>2, <1>3, <1>4, CommitTasksTyped

\* The rows come back, and their links with them.
LEMMA ReattachingTyped ==
    ASSUME Typed, NEW rows, IsRows(rows, Tasks, TaskRow), NEW links, NEW resync,
           LinksRestorable(links),
           \A k \in DOMAIN links.memberships : links.memberships[k] \in Seq(Place(DOMAIN rows)),
           \A b \in DOMAIN links.blocks : links.blocks[b] \in DOMAIN rows,
           CommitTasks(Update(task, rows), Reattached(links), DOMAIN rows, resync), UndoTyped'
    PROVE  Typed'
  <1>1. Now \in 0..MaxOps
    BY CommitCounts DEF CommitTasks, Typed
  <1> DEFINE all == Update(task, rows)
             ids == DOMAIN rows
  <1>2. /\ DOMAIN all = DOMAIN task \union ids /\ ids \subseteq Tasks
        /\ IsRows(all, Tasks, TaskRow)
    BY DEF Update, Typed, TasksTyped, IsRows
  <1>3. /\ \A k \in DOMAIN links.memberships : links.memberships[k] \in Seq(Place(ids))
        /\ \A b \in DOMAIN links.blocks : links.blocks[b] \in ids
        /\ CommitTasks(all, Reattached(links), ids, resync)
    OBVIOUS
  <1> HIDE DEF all, ids
  <1>4. /\ IsRows(Reattached(links).slots, Slots, SlotRow)
        /\ \A k \in DOMAIN Reattached(links).slots :
              /\ ValidMembership(Reattached(links).slots[k].tasks)
              /\ ToSet(Reattached(links).slots[k].tasks) \subseteq DOMAIN all
        /\ \A k \in DOMAIN slot \ DOMAIN Reattached(links).slots :
              ToSet(slot[k].tasks) \subseteq DOMAIN all
        /\ IsRows(Reattached(links).blocks, Blocks, BlockRow)
        /\ \A b \in DOMAIN Reattached(links).blocks : ValidRange(Reattached(links).blocks[b])
    BY <1>1, <1>2, <1>3, ReattachedTyped
  <1>. QED
    BY <1>2, <1>3, <1>4, CommitTasksTyped

LEMMA UndoActionTyped ==
    ASSUME Typed, UndoSound, NEW o \in DOMAIN undo, Undo(o)
    PROVE  Typed'
  <1> DEFINE i == undo[o].inverse
             old == undo[o].post
  <1>1. /\ i.ids \subseteq Tasks /\ IsRows(i.rows, Tasks, TaskRow)
        /\ IsRows(old.tasks, Tasks, TaskRow)
        /\ \A k \in DOMAIN i.links.memberships : i.links.memberships[k] \in Seq(Place(i.ids))
    BY DEF Typed, UndoTyped
  <1>2. InverseSound(i, old) /\ PostSound(i, old, o)
    BY DEF UndoSound
  <1>3. CASE i.kind = "delete_tasks" /\ UndoByDeleting(o)
    <2> DEFINE T == i.ids \intersect DOMAIN task
               post == PostOf(<<>>, T, Detached(T))
               inverse == RestoreTasks(old.tasks, PlanningLinks(T))
    <2>1. /\ CommitTasks(DeleteRows(task, T), Detached(T), T, {"tasks"})
          /\ Retain(inverse, post, o)
      BY <1>3 DEF UndoByDeleting
    <2>2. PostImageHolds(old) /\ DOMAIN old.tasks = i.ids
      BY <1>2, <1>3 DEF Undo, PostSound
    <2>3. T = DOMAIN old.tasks /\ T \subseteq Tasks
      BY <1>1, <2>2 DEF PostImageHolds
    <2>4. /\ inverse.ids = T /\ inverse.links = PlanningLinks(T)
          /\ IsRows(inverse.rows, Tasks, TaskRow) /\ post.tasks = <<>>
      BY <1>1, <2>3 DEF RestoreTasks, PostOf
    <2> HIDE DEF T, post, inverse
    <2>. QED
      BY <2>1, <2>3, <2>4, DetachingTyped
  <1>4. ASSUME NEW rows, IsRows(rows, Tasks, TaskRow), DOMAIN rows = i.ids, NEW resync,
               i.kind # "delete_tasks", LinksRestorable(i.links),
               CommitTasks(Update(task, rows), Reattached(i.links), DOMAIN rows, resync),
               UndoTyped'
        PROVE  Typed'
    <2>1. \A b \in DOMAIN i.links.blocks : i.links.blocks[b] \in DOMAIN rows
      BY <1>2, <1>4 DEF InverseSound
    <2>2. \A k \in DOMAIN i.links.memberships :
              i.links.memberships[k] \in Seq(Place(DOMAIN rows))
      BY <1>1, <1>4
    <2> HIDE DEF i
    <2>. QED
      BY <1>4, <2>1, <2>2, ReattachingTyped
  <1>5. ASSUME NEW ids, ids \subseteq Tasks
        PROVE  /\ DeleteTasks(ids).ids = ids /\ IsRows(DeleteTasks(ids).rows, Tasks, TaskRow)
               /\ DOMAIN DeleteTasks(ids).links.memberships = {}
    BY NoRows DEF DeleteTasks, NoLinks
  <1>6. CASE i.kind = "restore_closure" /\ UndoDeletion(o)
    <2> DEFINE post == PostOf(i.rows, {}, Reattached(i.links))
    <2>1. /\ DOMAIN i.rows = i.ids /\ LinksRestorable(i.links)
          /\ CommitTasks(Update(task, i.rows), Reattached(i.links), DOMAIN i.rows, {"tasks"})
          /\ Retain(DeleteTasks(i.ids), post, o)
      BY <1>2, <1>6 DEF UndoDeletion, InverseSound
    <2>2. IsRows(post.tasks, Tasks, TaskRow)
      BY <1>1 DEF PostOf
    <2> HIDE DEF post, i
    <2>3. UndoTyped'
      BY <1>1, <1>5, <2>1, <2>2, RetainTyped DEF Typed
    <2>. QED
      BY <1>1, <1>4, <1>6, <2>1, <2>3
  <1>7. CASE i.kind = "restore_tasks" /\ UndoRewrite(o)
    <2> DEFINE rows == Stamped(i.rows)
               post == PostOf(rows, {}, Reattached(i.links))
               inverse == IF old.tasks = <<>> THEN DeleteTasks(old.absent)
                                              ELSE RestoreTasks(old.tasks, NoLinks)
    <2>1. /\ DOMAIN i.rows = i.ids /\ LinksRestorable(i.links)
          /\ Retain(inverse, post, o)
      BY <1>2, <1>7 DEF UndoRewrite, InverseSound
    <2>2. DOMAIN rows = i.ids
      BY <2>1 DEF Stamped
    <2>3. PICK resync :
              CommitTasks(Update(task, rows), Reattached(i.links), DOMAIN rows, resync)
      BY <1>7, <2>2 DEF UndoRewrite
    <2>4. Now \in 0..MaxOps
      BY <2>3, CommitCounts DEF CommitTasks, Typed
    <2>5. IsRows(rows, Tasks, TaskRow)
      BY <1>1, <2>4, RowsStamped DEF IsRows, Stamped
    <2>6. IsRows(post.tasks, Tasks, TaskRow)
      BY <2>5 DEF PostOf
    <2>7. /\ inverse.ids \subseteq Tasks /\ IsRows(inverse.rows, Tasks, TaskRow)
          /\ DOMAIN inverse.links.memberships = {}
      <3>1. CASE old.tasks = <<>>
        <4>1. old.absent = i.ids
          BY <1>2, <1>7, <3>1 DEF PostSound
        <4>. QED
          BY <1>1, <1>5, <3>1, <4>1
      <3>2. CASE old.tasks # <<>>
        BY <1>1, <3>2 DEF RestoreTasks, NoLinks, IsRows
      <3>. QED
        BY <3>1, <3>2
    <2> HIDE DEF rows, post, inverse, i, old
    <2>8. UndoTyped'
      BY <2>1, <2>6, <2>7, RetainTyped DEF Typed
    <2>. QED
      BY <1>4, <1>7, <2>1, <2>2, <2>3, <2>5, <2>8
  <1>. QED
    BY <1>3, <1>6, <1>7 DEF Undo

LEMMA TaskTyped ==
    ASSUME Typed, UndoSound, TaskNext
    PROVE  Typed'
  <1>1. ASSUME NEW t \in Tasks, DeleteTask(t) PROVE Typed'
    <2> DEFINE T == Below(task, t)
               post == PostOf(<<>>, T, Detached(T))
               inverse == RestoreClosure(T)
    <2>1. /\ CommitTasks(DeleteRows(task, T), Detached(T), T, {"tasks"})
          /\ Retain(inverse, post, None) /\ t \in DOMAIN task
      BY <1>1 DEF DeleteTask
    <2>0. T \subseteq DOMAIN task
      BY DEF Below
    <2>2. /\ inverse.ids = T /\ inverse.links = PlanningLinks(T) /\ post.tasks = <<>>
          /\ IsRows(inverse.rows, Tasks, TaskRow)
      BY <2>0, <2>1 DEF RestoreClosure, PostOf, Typed, TasksTyped, IsRows
    <2> HIDE DEF T, post, inverse
    <2>3. T \subseteq Tasks
      BY <2>0 DEF Typed, TasksTyped, IsRows
    <2>. QED
      BY <2>1, <2>2, <2>3, DetachingTyped
  <1>. QED
    BY <1>1, ApplyTemplateTyped, PatchTaskTyped, UndoActionTyped DEF TaskNext

LEMMA TypedInit == Init => Typed
  <1> SUFFICES ASSUME Init PROVE Typed
    OBVIOUS
  <1>1. TypedRows(task, project, section, tag, template, slot, block)
        /\ MembershipReferences(slot, task) /\ today \in Days
    BY InitSound
  <1>2. IsRows(filter, Filters, FilterRow) /\ revision = 0 /\ DOMAIN undo = {}
    BY NoRows DEF Init
  <1>. QED
    BY <1>1, <1>2, MaxOpsAssumption
    DEF TypedRows, Typed, TasksTyped, CatalogTyped, SlotsTyped, BlocksTyped, CountTyped, UndoTyped

LEMMA TypedStep == Typed /\ UndoSound /\ [Next]_vars => Typed'
  <1> SUFFICES ASSUME Typed, UndoSound, [Next]_vars PROVE Typed'
    OBVIOUS
  <1>1. CASE UNCHANGED vars
    BY <1>1 DEF vars, Typed, TasksTyped, CatalogTyped, SlotsTyped, BlocksTyped, CountTyped, UndoTyped,
                MembershipReferences
  <1>2. CASE TimeBlockNext /\ UNCHANGED <<section, tag, template, filter, undo>>
    BY <1>2, TimeBlockTyped
  <1>3. CASE (ProjectNext \/ LabelNext \/ TemplateNext) /\ UNCHANGED undo
    BY <1>3, ProjectTyped, LabelTyped, TemplateTyped
  <1>4. CASE TaskNext
    BY <1>4, TaskTyped
  <1>. QED
    BY <1>1, <1>2, <1>3, <1>4 DEF Next

\* The rows of every table are well typed, valid and refer to rows, and every slot
\* lists existing tasks once each and no more than it may: through deletions that
\* cascade, and through undo that puts tasks back among those that came since.
THEOREM WorkspaceIsSound == Spec => []WorkspaceSound
  <1> DEFINE Inv == Typed /\ References /\ Entries /\ ProjectTree
  <1>1. Init => Inv
    BY ReferencesInit, EntriesInit, TypedInit
  <1>2. Inv /\ [Next]_vars => Inv'
    BY ReferencesStep, EntriesStep, TreeStep, TypedStep DEF Entries
  <1>3. Inv => WorkspaceSound
    <2> SUFFICES ASSUME Inv PROVE WorkspaceSound
      OBVIOUS
    <2>1. DOMAIN undo \subseteq 1..MaxOps
      BY MaxOpsAssumption DEF Entries, UndoSound, Typed, CountTyped
    <2>2. TypeOK
      BY <2>1 DEF TypeOK, TypedRows, Typed, TasksTyped, CatalogTyped, SlotsTyped, BlocksTyped, CountTyped
    <2>3. ReferencesHold
      BY DEF ReferencesHold, References, TasksRefer, CatalogRefers, BlocksRefer, Typed, SlotsTyped
    <2>. QED
      BY <2>2, <2>3 DEF WorkspaceSound
  <1>. QED
    BY <1>1, <1>2, <1>3, PTL DEF Spec

-----------------------------------------------------------------------------
(***************************************************************************)
(* Undo gives back what the operation started from.                        *)
(***************************************************************************)

\* The contents that carrying out the inverse i would leave, the revisions aside.
Plain(row) == [row EXCEPT !.revision = 0]
Bare(rows) == [x \in DOMAIN rows |-> Plain(rows[x])]
PlainTask(row) == [row EXCEPT !.revision = 0, !.source = None]
BareTasks(rows) == [t \in DOMAIN rows |-> PlainTask(rows[t])]
Relisted(row, ids, r) == [row EXCEPT !.tasks = ids, !.revision = r]
Relinked(row, t, r) == [row EXCEPT !.task = t, !.revision = r]
TasksBack(tasks, i) ==
    IF i.kind = "delete_tasks" THEN DeleteRows(tasks, i.ids) ELSE Update(tasks, i.rows)
ListBack(ids, i, k) ==
    IF i.kind = "delete_tasks" THEN Selected(ids, Tasks \ i.ids)
    ELSE IF k \in DOMAIN i.links.memberships THEN Reinsert(ids, i.links.memberships[k]) ELSE ids
LinkBack(t, i, b) ==
    IF i.kind = "delete_tasks" THEN IF t \in i.ids THEN None ELSE t
    ELSE IF b \in DOMAIN i.links.blocks THEN i.links.blocks[b] ELSE t
SlotBack(row, i, k) == Relisted(row, ListBack(row.tasks, i, k), 0)
BlockBack(row, i, b) == Relinked(row, LinkBack(row.task, i, b), 0)
SlotsBack(slots, i) == [k \in DOMAIN slots |-> SlotBack(slots[k], i, k)]
BlocksBack(blocks, i) == [b \in DOMAIN blocks |-> BlockBack(blocks[b], i, b)]
Back(tasks, slots, blocks, i) ==
    [task |-> BareTasks(TasksBack(tasks, i)), slot |-> SlotsBack(slots, i),
     block |-> BlocksBack(blocks, i)]

\* As long as the latest operation can be undone, its inverse leads back to what is
\* to be given back.
LatestReverts ==
    revision \in DOMAIN undo /\ ~undo[revision].undone =>
        GivenBack(revision) = Back(task, slot, block, undo[revision].inverse)

\* The contents, but that the tasks outside T no longer name one of T as their parent.
Short(T) ==
    [task |-> [t \in DOMAIN task |-> IF t \in T THEN PlainTask(task[t])
                                               ELSE Cleared(PlainTask(task[t]), T)],
     slot |-> Bare(slot), block |-> Bare(block)]

\* Where the inverse i leads from the next state, when the operation left the tasks
\* of "absent" deleted.
LeadsTo(back, kind, absent) ==
    \/ back = Contents /\ (kind = "restore_closure" \/ absent = {})
    \/ back = Short(absent) /\ kind # "restore_closure" /\ DOMAIN task' = DOMAIN task \ absent
LeadsBack ==
    LeadsTo(Back(task', slot', block', undo'[Now].inverse),
            undo'[Now].inverse.kind, undo'[Now].post.absent)

LEMMA SameBare ==
    ASSUME NEW f, NEW g, DOMAIN f = DOMAIN g,
           \A t \in DOMAIN f : PlainTask(f[t]) = PlainTask(g[t])
    PROVE  BareTasks(f) = BareTasks(g)
  BY DEF BareTasks

LEMMA ContentsAre ==
    Contents = [task |-> BareTasks(task), slot |-> Bare(slot), block |-> Bare(block)]
  BY DEF Contents, Bare, Plain, BareTasks, PlainTask

\* Rows as users see them.
LEMMA SlotSeen ==
    ASSUME NEW row, SlotFields \subseteq DOMAIN row, NEW ids, NEW r
    PROVE  /\ Relisted(row, ids, r).tasks = ids
           /\ Relisted(Relisted(row, ids, r), row.tasks, 0) = Plain(row)
           /\ Plain(Relisted(row, ids, r)) = Relisted(row, ids, 0)
           /\ Relisted(row, row.tasks, 0) = Plain(row)
  BY DEF SlotFields, Relisted, Plain

LEMMA BlockSeen ==
    ASSUME NEW row, BlockFields \subseteq DOMAIN row, NEW t, NEW r
    PROVE  /\ Relinked(row, t, r).task = t
           /\ Relinked(Relinked(row, t, r), row.task, 0) = Plain(row)
           /\ Plain(Relinked(row, t, r)) = Relinked(row, t, 0)
           /\ Relinked(row, row.task, 0) = Plain(row)
  BY DEF BlockFields, Relinked, Plain

LEMMA TaskSeen ==
    ASSUME NEW row, TaskFields \subseteq DOMAIN row, NEW r
    PROVE  PlainTask([row EXCEPT !.revision = r]) = PlainTask(row)
  BY DEF TaskFields, PlainTask

\* Losing a parent shows, losing a source does not.
LEMMA ClearedSeen ==
    ASSUME NEW row, TaskFields \subseteq DOMAIN row, NEW T
    PROVE  /\ PlainTask(Cleared(row, T)) = Cleared(PlainTask(row), T)
           /\ row.parent \notin T => Cleared(PlainTask(row), T) = PlainTask(row)
  BY DEF TaskFields, PlainTask, Cleared

LEMMA NothingShort ==
    ASSUME Typed, NEW T, \A t \in DOMAIN task \ T : task[t].parent \notin T
    PROVE  Short(T) = Contents
  <1>1. \A t \in DOMAIN task : TaskFields \subseteq DOMAIN task[t]
    BY DEF Typed, TasksTyped, IsRows, TaskRow, TaskFields
  <1>2. \A t \in DOMAIN task \ T : Cleared(PlainTask(task[t]), T) = PlainTask(task[t])
    BY <1>1, ClearedSeen
  <1>. QED
    BY <1>2, ContentsAre DEF Short, BareTasks

LEMMA SlotStays ==
    ASSUME NEW row, SlotFields \subseteq DOMAIN row, NEW i, NEW k,
           ListBack(row.tasks, i, k) = row.tasks
    PROVE  SlotBack(row, i, k) = Plain(row)
  BY SlotSeen DEF SlotBack

LEMMA SlotReverts ==
    ASSUME NEW row, SlotFields \subseteq DOMAIN row, NEW i, NEW k, NEW ids, NEW r,
           ListBack(ids, i, k) = row.tasks
    PROVE  SlotBack(Relisted(row, ids, r), i, k) = Plain(row)
  BY SlotSeen DEF SlotBack

LEMMA BlockStays ==
    ASSUME NEW row, BlockFields \subseteq DOMAIN row, NEW i, NEW b,
           LinkBack(row.task, i, b) = row.task
    PROVE  BlockBack(row, i, b) = Plain(row)
  BY BlockSeen DEF BlockBack

LEMMA BlockReverts ==
    ASSUME NEW row, BlockFields \subseteq DOMAIN row, NEW i, NEW b, NEW t, NEW r,
           LinkBack(t, i, b) = row.task
    PROVE  BlockBack(Relinked(row, t, r), i, b) = Plain(row)
  BY BlockSeen DEF BlockBack

\* Rows that revert, one by one, are the rows there were.
LEMMA RowsRevert ==
    ASSUME NEW slots, DOMAIN slots = DOMAIN slot, NEW blocks, DOMAIN blocks = DOMAIN block, NEW i,
           \A k \in DOMAIN slot : SlotBack(slots[k], i, k) = Plain(slot[k]),
           \A b \in DOMAIN block : BlockBack(blocks[b], i, b) = Plain(block[b])
    PROVE  SlotsBack(slots, i) = Bare(slot) /\ BlocksBack(blocks, i) = Bare(block)
  BY DEF SlotsBack, BlocksBack, Bare

\* What was taken out of a list goes back where it was.
LEMMA ListComesBack ==
    ASSUME NEW T, NEW s \in Seq(Tasks)
    PROVE  Reinsert(Selected(s, Tasks \ T), Places(s, T)) = s
  <1>1. BackTogether(Selected(s, Tasks \ T), Places(s, T), s)
    BY PutBack
  <1>. QED
    BY <1>1 DEF BackTogether

\* Tasks that went come back with their inverse.
LEMMA DetachingReverts ==
    ASSUME Typed, NEW T, T \subseteq DOMAIN task, NEW rows, DOMAIN rows = T,
           \A t \in T : rows[t] = task[t],
           NEW i, i.kind # "delete_tasks", i.rows = rows, i.links = PlanningLinks(T),
           NEW tasks, tasks = DeleteRows(task, T),
           NEW slots, slots = Update(slot, Detached(T).slots),
           NEW blocks, blocks = Update(block, Detached(T).blocks)
    PROVE  Back(tasks, slots, blocks, i) = Short(T)
  <1>1. BareTasks(TasksBack(tasks, i)) = Short(T).task
    <2> DEFINE new == Update(tasks, rows)
    <2>1. /\ DOMAIN new = DOMAIN task
          /\ \A t \in DOMAIN task : new[t] = IF t \in T THEN task[t] ELSE Cleared(task[t], T)
      BY DEF DeleteRows, Update
    <2>2. \A t \in DOMAIN task : TaskFields \subseteq DOMAIN task[t]
      BY DEF Typed, TasksTyped, IsRows, TaskRow, TaskFields
    <2>3. \A t \in DOMAIN task : PlainTask(Cleared(task[t], T)) = Cleared(PlainTask(task[t]), T)
      BY <2>2, ClearedSeen
    <2>4. TasksBack(tasks, i) = new
      BY DEF TasksBack
    <2> HIDE DEF new
    <2>5. \A t \in DOMAIN task : PlainTask(new[t]) = IF t \in T THEN PlainTask(task[t])
                                                      ELSE Cleared(PlainTask(task[t]), T)
      BY <2>1, <2>3
    <2>. QED
      BY <2>1, <2>4, <2>5 DEF Short, BareTasks
  <1>2. /\ DOMAIN slots = DOMAIN slot
        /\ \A k \in DOMAIN slot : SlotBack(slots[k], i, k) = Plain(slot[k])
    <2>1. /\ DOMAIN i.links.memberships = {k \in DOMAIN slot : ToSet(slot[k].tasks) \intersect T # {}}
          /\ \A k \in DOMAIN i.links.memberships :
                i.links.memberships[k] = Places(slot[k].tasks, T)
      BY DEF PlanningLinks, Memberships, Places
    <2>2. /\ DOMAIN slots = DOMAIN slot
          /\ \A k \in DOMAIN slot :
                slots[k] = IF k \in DOMAIN i.links.memberships
                           THEN Relisted(slot[k], Selected(slot[k].tasks, Tasks \ T), Now)
                           ELSE slot[k]
      BY <2>1 DEF Detached, Memberships, Update, Relisted
    <2>3. ASSUME NEW k \in DOMAIN slot
          PROVE  SlotBack(slots[k], i, k) = Plain(slot[k])
      <3> DEFINE old == slot[k].tasks
                 ids == Selected(old, Tasks \ T)
      <3>1. SlotFields \subseteq DOMAIN slot[k] /\ old \in Seq(Tasks)
        BY DEF Typed, SlotsTyped, IsRows, SlotRow, SlotFields
      <3>2. CASE k \in DOMAIN i.links.memberships
        <4>1. slots[k] = Relisted(slot[k], ids, Now)
          BY <2>2, <3>2
        <4>2. i.links.memberships[k] = Places(old, T)
          BY <2>1, <3>2
        <4> HIDE DEF ids
        <4>3. Reinsert(ids, Places(old, T)) = old
          BY <3>1, ListComesBack DEF ids
        <4>4. ListBack(ids, i, k) = old
          BY <3>2, <4>2, <4>3 DEF ListBack
        <4>. QED
          BY <3>1, <4>1, <4>4, SlotReverts
      <3>3. CASE k \notin DOMAIN i.links.memberships
        <4>1. slots[k] = slot[k] /\ ListBack(old, i, k) = old
          BY <2>2, <3>3 DEF ListBack
        <4>. QED
          BY <3>1, <4>1, SlotStays
      <3>. QED
        BY <3>2, <3>3
    <2>. QED
      BY <2>2, <2>3
  <1>3. /\ DOMAIN blocks = DOMAIN block
        /\ \A b \in DOMAIN block : BlockBack(blocks[b], i, b) = Plain(block[b])
    <2>1. /\ DOMAIN i.links.blocks = {b \in DOMAIN block : block[b].task \in T}
          /\ \A b \in DOMAIN i.links.blocks : i.links.blocks[b] = block[b].task
      BY DEF PlanningLinks, BlockLinks
    <2>2. /\ DOMAIN blocks = DOMAIN block
          /\ \A b \in DOMAIN block :
                blocks[b] = IF b \in DOMAIN i.links.blocks
                            THEN Relinked(block[b], None, Now)
                            ELSE block[b]
      BY <2>1 DEF Detached, BlockLinks, Update, Relinked
    <2>3. ASSUME NEW b \in DOMAIN block
          PROVE  BlockBack(blocks[b], i, b) = Plain(block[b])
      <3>1. BlockFields \subseteq DOMAIN block[b]
        BY DEF Typed, BlocksTyped, IsRows, BlockRow, BlockFields
      <3>2. CASE b \in DOMAIN i.links.blocks
        <4>1. blocks[b] = Relinked(block[b], None, Now)
          BY <2>2, <3>2
        <4>2. LinkBack(None, i, b) = block[b].task
          BY <2>1, <3>2 DEF LinkBack
        <4>. QED
          BY <3>1, <4>1, <4>2, BlockReverts
      <3>3. CASE b \notin DOMAIN i.links.blocks
        <4>1. blocks[b] = block[b] /\ LinkBack(block[b].task, i, b) = block[b].task
          BY <2>2, <3>3 DEF LinkBack
        <4>. QED
          BY <3>1, <4>1, BlockStays
      <3>. QED
        BY <3>2, <3>3
    <2>. QED
      BY <2>2, <2>3
  <1>4. SlotsBack(slots, i) = Bare(slot) /\ BlocksBack(blocks, i) = Bare(block)
    BY <1>2, <1>3, RowsRevert
  <1>. QED
    BY <1>1, <1>4 DEF Back, Short

\* A list that has none of ids keeps its entries without them.
LEMMA UntouchedList ==
    ASSUME NEW old \in Seq(Tasks), NEW ids, ToSet(old) \intersect ids = {}
    PROVE  Selected(old, Tasks \ ids) = old
  <1>1. old \in Seq(Tasks \ ids)
    <2>1. \A j \in 1..Len(old) : old[j] \in Tasks /\ old[j] \in ToSet(old)
      BY DEF ToSet
    <2>2. \A j \in 1..Len(old) : old[j] \in Tasks \ ids
      BY <2>1
    <2>. QED
      BY <2>2
  <1>. QED
    BY <1>1, SelectedAll

LEMMA ComesOutAgain ==
    ASSUME NEW old \in Seq(Tasks), NEW ids, ids \subseteq Tasks, NEW ms \in Seq(Place(ids)),
           Fits(old, ms), Selected(old, Tasks \ ids) = old
    PROVE  Selected(Reinsert(old, ms), Tasks \ ids) = old
  <1> DEFINE A == Place(ids)
             B == Place(Tasks)
             S == Tasks \ ids
  <1>1. A \subseteq B /\ \A m \in A : m.task \in ids
    BY DEF Place
  <1>2. ms \in Seq(A)
    OBVIOUS
  <1> HIDE DEF A, B
  <1>3. ms \in Seq(B) /\ \A i \in DOMAIN ms : ms[i] \in A
    BY <1>1, <1>2
  <1>4. PlacedTasks(ms) \intersect S = {}
    BY <1>1, <1>3 DEF PlacedTasks
  <1>5. ms \in Seq(Place(Tasks))
    BY <1>3 DEF B
  <1> HIDE DEF S
  <1>6. Selected(Reinsert(old, ms), S) = Selected(old, S)
    BY <1>4, <1>5, TakenOut
  <1>. QED
    BY <1>6 DEF S

\* Tasks that came back, with their links or without, go again.
LEMMA ReattachingReverts ==
    ASSUME Typed, References, NEW rows, IsRows(rows, Tasks, TaskRow),
           NEW ids, DOMAIN rows = ids, ids \intersect DOMAIN task = {},
           NEW links, LinksRestorable(links),
           \A k \in DOMAIN links.memberships : links.memberships[k] \in Seq(Place(ids)),
           \A b \in DOMAIN links.blocks : links.blocks[b] \in ids,
           NEW i, i.kind = "delete_tasks", i.ids = ids,
           NEW tasks, tasks = Update(task, rows),
           NEW slots, slots = Update(slot, Reattached(links).slots),
           NEW blocks, blocks = Update(block, Reattached(links).blocks)
    PROVE  Back(tasks, slots, blocks, i) = Contents
  <1>0. ids \subseteq Tasks
    BY DEF IsRows
  <1>1. BareTasks(TasksBack(tasks, i)) = BareTasks(task)
    <2> DEFINE new == DeleteRows(tasks, ids)
    <2>1. DOMAIN new = DOMAIN task /\ \A t \in DOMAIN task : new[t] = Cleared(task[t], ids)
      BY DEF DeleteRows, Update
    <2>2. \A t \in DOMAIN task : task[t].parent \in DOMAIN task \union {None}
      BY DEF References, TasksRefer, TaskReferences
    <2>3. \A t \in DOMAIN task : TaskFields \subseteq DOMAIN task[t] /\ task[t].parent \notin ids
      BY <1>0, <2>2, NoneAssumption DEF Typed, TasksTyped, IsRows, TaskRow, TaskFields
    <2>4. \A t \in DOMAIN task : PlainTask(Cleared(task[t], ids)) = PlainTask(task[t])
      BY <2>3, ClearedSeen
    <2>5. TasksBack(tasks, i) = new
      BY DEF TasksBack
    <2> HIDE DEF new
    <2>6. \A t \in DOMAIN new : PlainTask(new[t]) = PlainTask(task[t])
      BY <2>1, <2>4
    <2>. QED
      BY <2>1, <2>5, <2>6, SameBare
  <1>2. /\ DOMAIN slots = DOMAIN slot
        /\ \A k \in DOMAIN slot : SlotBack(slots[k], i, k) = Plain(slot[k])
    <2>1. /\ DOMAIN slots = DOMAIN slot
          /\ \A k \in DOMAIN slot :
                slots[k] = IF k \in DOMAIN links.memberships
                           THEN Relisted(slot[k], Reinsert(slot[k].tasks, links.memberships[k]), Now)
                           ELSE slot[k]
      BY DEF LinksRestorable, Reattached, Update, Relisted
    <2>2. ASSUME NEW k \in DOMAIN slot
          PROVE  SlotBack(slots[k], i, k) = Plain(slot[k])
      <3> DEFINE old == slot[k].tasks
      <3>1. SlotFields \subseteq DOMAIN slot[k] /\ old \in Seq(Tasks) /\ ToSet(old) \subseteq DOMAIN task
        BY DEF Typed, SlotsTyped, IsRows, SlotRow, SlotFields, MembershipReferences
      <3>2. Selected(old, Tasks \ ids) = old
        BY <3>1, UntouchedList
      <3>3. CASE k \in DOMAIN links.memberships
        <4> DEFINE ms == links.memberships[k]
                   new == Reinsert(old, ms)
        <4>1. slots[k] = Relisted(slot[k], new, Now)
          BY <2>1, <3>3
        <4>2. Fits(old, ms) /\ ms \in Seq(Place(ids))
          BY <3>3 DEF LinksRestorable, Fits
        <4>3. Selected(Reinsert(old, ms), Tasks \ ids) = old
          <5> HIDE DEF old, ms
          <5>. QED
            BY <1>0, <3>1, <3>2, <4>2, ComesOutAgain
        <4> HIDE DEF new
        <4>4. ListBack(new, i, k) = old
          BY <4>3 DEF ListBack, new
        <4>. QED
          BY <3>1, <4>1, <4>4, SlotReverts
      <3>4. CASE k \notin DOMAIN links.memberships
        <4>1. slots[k] = slot[k] /\ ListBack(old, i, k) = old
          BY <2>1, <3>2, <3>4 DEF ListBack
        <4>. QED
          BY <3>1, <4>1, SlotStays
      <3>. QED
        BY <3>3, <3>4
    <2>. QED
      BY <2>1, <2>2
  <1>3. /\ DOMAIN blocks = DOMAIN block
        /\ \A b \in DOMAIN block : BlockBack(blocks[b], i, b) = Plain(block[b])
    <2>1. /\ DOMAIN blocks = DOMAIN block
          /\ \A b \in DOMAIN block :
                blocks[b] = IF b \in DOMAIN links.blocks
                            THEN Relinked(block[b], links.blocks[b], Now)
                            ELSE block[b]
      BY DEF LinksRestorable, Reattached, Update, Relinked
    <2>2. ASSUME NEW b \in DOMAIN block
          PROVE  BlockBack(blocks[b], i, b) = Plain(block[b])
      <3>1. BlockFields \subseteq DOMAIN block[b]
        BY DEF Typed, BlocksTyped, IsRows, BlockRow, BlockFields
      <3>2. CASE b \in DOMAIN links.blocks
        <4> DEFINE t == links.blocks[b]
        <4>1. blocks[b] = Relinked(block[b], t, Now)
          BY <2>1, <3>2
        <4>2. t \in ids /\ block[b].task = None
          BY <3>2 DEF LinksRestorable
        <4> HIDE DEF t
        <4>3. LinkBack(t, i, b) = block[b].task
          BY <4>2 DEF LinkBack
        <4>. QED
          BY <3>1, <4>1, <4>3, BlockReverts
      <3>3. CASE b \notin DOMAIN links.blocks
        <4>1. blocks[b] = block[b]
          BY <2>1, <3>3
        <4>2. block[b].task \notin ids
          BY <1>0, NoneAssumption DEF References, BlocksRefer, BlockReferences
        <4>3. LinkBack(block[b].task, i, b) = block[b].task
          BY <4>2 DEF LinkBack
        <4>. QED
          BY <3>1, <4>1, <4>3, BlockStays
      <3>. QED
        BY <3>2, <3>3
    <2>. QED
      BY <2>1, <2>2
  <1>4. SlotsBack(slots, i) = Bare(slot) /\ BlocksBack(blocks, i) = Bare(block)
    BY <1>2, <1>3, RowsRevert
  <1>. QED
    BY <1>1, <1>4, ContentsAre DEF Back

\* A task that was rewritten where it is has its row put back.
LEMMA RewritingReverts ==
    ASSUME Typed, NEW rows, DOMAIN rows \subseteq DOMAIN task,
           NEW old, DOMAIN old = DOMAIN rows, \A t \in DOMAIN old : old[t] = task[t],
           NEW i, i.kind # "delete_tasks", i.rows = old, i.links = NoLinks,
           NEW tasks, tasks = Update(task, rows)
    PROVE  Back(tasks, slot, block, i) = Contents
  <1>1. BareTasks(TasksBack(tasks, i)) = BareTasks(task)
    <2>1. /\ DOMAIN Update(tasks, old) = DOMAIN task
          /\ \A t \in DOMAIN task : Update(tasks, old)[t] = task[t]
      BY DEF Update
    <2>. QED
      BY <2>1, SameBare DEF TasksBack
  <1>2. DOMAIN i.links.memberships = {} /\ DOMAIN i.links.blocks = {}
    BY NoLinksSound
  <1>3. ASSUME NEW k \in DOMAIN slot
        PROVE  SlotBack(slot[k], i, k) = Plain(slot[k])
    <2>1. SlotFields \subseteq DOMAIN slot[k]
      BY DEF Typed, SlotsTyped, IsRows, SlotRow, SlotFields
    <2>2. ListBack(slot[k].tasks, i, k) = slot[k].tasks
      BY <1>2 DEF ListBack
    <2>. QED
      BY <2>1, <2>2, SlotStays
  <1>4. ASSUME NEW b \in DOMAIN block
        PROVE  BlockBack(block[b], i, b) = Plain(block[b])
    <2>1. BlockFields \subseteq DOMAIN block[b]
      BY DEF Typed, BlocksTyped, IsRows, BlockRow, BlockFields
    <2>2. LinkBack(block[b].task, i, b) = block[b].task
      BY <1>2 DEF LinkBack
    <2>. QED
      BY <2>1, <2>2, BlockStays
  <1>5. SlotsBack(slot, i) = Bare(slot) /\ BlocksBack(block, i) = Bare(block)
    BY <1>3, <1>4, RowsRevert
  <1>. QED
    BY <1>1, <1>5, ContentsAre DEF Back

-----------------------------------------------------------------------------
\* What each task operation leaves behind leads back.
LEMMA Retained ==
    ASSUME NEW inverse, NEW post, NEW o, Retain(inverse, post, o)
    PROVE  undo'[Now].inverse = inverse /\ undo'[Now].post = post
  BY DEF Retain, Put, Update, Only

LEMMA DetachingLeadsBack ==
    ASSUME Typed, NEW T, T \subseteq DOMAIN task, NEW inverse, inverse.kind # "delete_tasks",
           DOMAIN inverse.rows = T, \A t \in T : inverse.rows[t] = task[t],
           inverse.links = PlanningLinks(T), NEW affected, NEW resync, NEW post, NEW o,
           \/ /\ inverse.kind = "restore_closure"
              /\ \A t \in DOMAIN task : task[t].parent \in T => t \in T
           \/ inverse.kind # "restore_closure" /\ post.absent = T,
           CommitTasks(DeleteRows(task, T), Detached(T), affected, resync), Retain(inverse, post, o)
    PROVE  LeadsBack
  <1>1. undo'[Now].inverse = inverse /\ undo'[Now].post = post
    BY Retained
  <1>2. /\ task' = DeleteRows(task, T) /\ slot' = Update(slot, Detached(T).slots)
        /\ block' = Update(block, Detached(T).blocks)
    BY DEF CommitTasks
  <1> DEFINE rows == inverse.rows
             tasks == DeleteRows(task, T)
             slots == Update(slot, Detached(T).slots)
             blocks == Update(block, Detached(T).blocks)
  <1>3. Back(tasks, slots, blocks, inverse) = Short(T)
    BY DetachingReverts
  <1>4. Back(task', slot', block', inverse) = Short(T)
    BY <1>2, <1>3
  <1>5. DOMAIN task' = DOMAIN task \ T
    BY <1>2 DEF DeleteRows
  <1>6. CASE \A t \in DOMAIN task : task[t].parent \in T => t \in T
    <2>1. Short(T) = Contents
      BY <1>6, NothingShort
    <2>2. inverse.kind = "restore_closure" \/ post.absent = T
      OBVIOUS
    <2>. QED
      BY <1>1, <1>4, <1>5, <2>1, <2>2 DEF LeadsBack, LeadsTo
  <1>7. CASE inverse.kind # "restore_closure" /\ post.absent = T
    BY <1>1, <1>4, <1>5, <1>7 DEF LeadsBack, LeadsTo
  <1>. QED
    BY <1>6, <1>7

LEMMA ReattachingLeadsBack ==
    ASSUME Typed, References, NEW rows, IsRows(rows, Tasks, TaskRow),
           NEW ids, DOMAIN rows = ids, ids \intersect DOMAIN task = {},
           NEW links, LinksRestorable(links),
           \A k \in DOMAIN links.memberships : links.memberships[k] \in Seq(Place(ids)),
           \A b \in DOMAIN links.blocks : links.blocks[b] \in ids,
           NEW affected, NEW resync, NEW post, post.absent = {}, NEW o,
           CommitTasks(Update(task, rows), Reattached(links), affected, resync),
           Retain(DeleteTasks(ids), post, o)
    PROVE  LeadsBack
  <1> DEFINE i == DeleteTasks(ids)
             tasks == Update(task, rows)
             slots == Update(slot, Reattached(links).slots)
             blocks == Update(block, Reattached(links).blocks)
  <1>1. undo'[Now].inverse = i /\ undo'[Now].post = post
    BY Retained
  <1>2. task' = tasks /\ slot' = slots /\ block' = blocks
    BY DEF CommitTasks
  <1>3. i.kind = "delete_tasks" /\ i.ids = ids
    BY DEF DeleteTasks
  <1> HIDE DEF i
  <1>4. Back(tasks, slots, blocks, i) = Contents
    BY <1>3, ReattachingReverts
  <1>5. Back(task', slot', block', i) = Contents
    BY <1>2, <1>4
  <1>. QED
    BY <1>1, <1>5 DEF LeadsBack, LeadsTo

LEMMA RewritingLeadsBack ==
    ASSUME Typed, NEW rows, DOMAIN rows \subseteq DOMAIN task,
           NEW old, DOMAIN old = DOMAIN rows, \A t \in DOMAIN old : old[t] = task[t],
           NEW planned, DOMAIN planned.slots = {}, DOMAIN planned.blocks = {},
           NEW affected, NEW resync, NEW post, post.absent = {}, NEW o,
           CommitTasks(Update(task, rows), planned, affected, resync),
           Retain(RestoreTasks(old, NoLinks), post, o)
    PROVE  LeadsBack
  <1> DEFINE i == RestoreTasks(old, NoLinks)
             tasks == Update(task, rows)
  <1>1. undo'[Now].inverse = i /\ undo'[Now].post = post
    BY Retained
  <1>2. task' = tasks
    BY DEF CommitTasks
  <1>3. /\ DOMAIN slot' = DOMAIN slot /\ \A k \in DOMAIN slot : slot'[k] = slot[k]
        /\ DOMAIN block' = DOMAIN block /\ \A b \in DOMAIN block : block'[b] = block[b]
    BY DEF CommitTasks, Update
  <1>4. /\ SlotsBack(slot', i) = SlotsBack(slot, i)
        /\ BlocksBack(block', i) = BlocksBack(block, i)
    BY <1>3 DEF SlotsBack, BlocksBack
  <1>5. i.kind # "delete_tasks" /\ i.rows = old /\ i.links = NoLinks
    BY DEF RestoreTasks
  <1> HIDE DEF i
  <1>6. Back(tasks, slot, block, i) = Contents
    BY <1>5, RewritingReverts
  <1>7. Back(task', slot', block', i) = Back(tasks, slot, block, i)
    BY <1>2, <1>4 DEF Back
  <1>. QED
    BY <1>1, <1>6, <1>7 DEF LeadsBack, LeadsTo

LEMMA ApplyLeadsBack ==
    ASSUME Typed, References, Entries, NEW t \in Tasks, NEW m \in DOMAIN template, ApplyTemplate(m, t)
    PROVE  LeadsBack
  <1> DEFINE row == [project |-> template[m].project, section |-> None,
                     tags |-> template[m].tags, parent |-> None, source |-> None,
                     revision |-> Now]
             rows == Only(t, row)
             post == PostOf(rows, {}, NoPlanned)
             ids == {t}
  <1>1. /\ CommitTasks(Put(task, t, row), NoPlanned, {t}, {})
        /\ Retain(DeleteTasks(ids), post, None) /\ t \notin DOMAIN task
    BY DEF ApplyTemplate
  <1>2. Now \in 0..MaxOps
    BY <1>1, CommitCounts DEF CommitTasks, Typed
  <1>3. row \in TaskRow
    BY <1>2 DEF Typed, CatalogTyped, IsRows, TemplateRow, TaskRow
  <1> HIDE DEF row
  <1>4. IsRows(rows, Tasks, TaskRow) /\ DOMAIN rows = ids
    BY <1>3, OneRow DEF Only
  <1>5. CommitTasks(Update(task, rows), NoPlanned, {t}, {})
    BY <1>1 DEF Put
  <1>6. /\ LinksRestorable(NoLinks) /\ DOMAIN NoLinks.memberships = {} /\ DOMAIN NoLinks.blocks = {}
    BY NoLinksSound DEF LinksRestorable
  <1>7. /\ DOMAIN Reattached(NoLinks).slots = {} /\ DOMAIN Reattached(NoLinks).blocks = {}
        /\ DOMAIN NoPlanned.slots = {} /\ DOMAIN NoPlanned.blocks = {}
    BY <1>6 DEF Reattached, NoPlanned
  <1>8. CommitTasks(Update(task, rows), Reattached(NoLinks), {t}, {})
    BY <1>5, <1>7 DEF CommitTasks, Update
  <1>10. post.absent = {}
    BY DEF PostOf
  <1> HIDE DEF rows, post
  <1>9. ids \intersect DOMAIN task = {}
    BY <1>1
  <1> HIDE DEF ids
  <1>. QED
    BY <1>1, <1>4, <1>6, <1>8, <1>9, <1>10, ReattachingLeadsBack

LEMMA PatchLeadsBack ==
    ASSUME Typed, NEW t \in Tasks, NEW patch, PatchTask(t, patch)
    PROVE  LeadsBack
  <1> DEFINE row == [Patched(task[t], patch) EXCEPT !.revision = Now]
             rows == Only(t, row)
             old == Only(t, task[t])
             post == PostOf(rows, {}, NoPlanned)
  <1>1. /\ CommitTasks(Update(task, rows), NoPlanned, {t}, {})
        /\ Retain(RestoreTasks(old, NoLinks), post, None) /\ t \in DOMAIN task
    BY DEF PatchTask, Put
  <1> HIDE DEF row
  <1>2. DOMAIN rows \subseteq DOMAIN task /\ DOMAIN old = DOMAIN rows
        /\ \A u \in DOMAIN old : old[u] = task[u]
    BY <1>1 DEF Only
  <1>3. DOMAIN NoPlanned.slots = {} /\ DOMAIN NoPlanned.blocks = {} /\ post.absent = {}
    BY DEF NoPlanned, PostOf
  <1> HIDE DEF rows, old, post
  <1>. QED
    BY <1>1, <1>2, <1>3, RewritingLeadsBack

LEMMA DeleteLeadsBack ==
    ASSUME Typed, NEW t \in Tasks, DeleteTask(t)
    PROVE  LeadsBack
  <1> DEFINE T == Below(task, t)
             post == PostOf(<<>>, T, Detached(T))
             inverse == RestoreClosure(T)
  <1>1. /\ CommitTasks(DeleteRows(task, T), Detached(T), T, {"tasks"})
        /\ Retain(inverse, post, None) /\ t \in DOMAIN task
    BY DEF DeleteTask
  <1>3. /\ T \subseteq DOMAIN task
        /\ \A u \in DOMAIN task : task[u].parent \in T => u \in T
    BY <1>1, BelowFacts, NoneAssumption DEF Typed, TasksTyped, IsRows
  <1>2. /\ inverse.kind = "restore_closure" /\ inverse.links = PlanningLinks(T)
        /\ DOMAIN inverse.rows = T /\ \A u \in T : inverse.rows[u] = task[u]
    BY DEF RestoreClosure
  <1> HIDE DEF T, post, inverse
  <1>. QED
    BY <1>1, <1>2, <1>3, DetachingLeadsBack

LEMMA UndoLeadsBack ==
    ASSUME Typed, References, Entries, NEW o \in DOMAIN undo, Undo(o)
    PROVE  LeadsBack
  <1> DEFINE i == undo[o].inverse
             old == undo[o].post
  <1>1. /\ i.ids \subseteq Tasks /\ IsRows(i.rows, Tasks, TaskRow)
        /\ \A k \in DOMAIN i.links.memberships : i.links.memberships[k] \in Seq(Place(i.ids))
    BY DEF Typed, UndoTyped
  <1>2. InverseSound(i, old) /\ PostSound(i, old, o) /\ PostImageHolds(old)
    BY DEF Entries, UndoSound, Undo
  <1>3. CASE i.kind = "delete_tasks" /\ UndoByDeleting(o)
    <2> DEFINE T == i.ids \intersect DOMAIN task
               post == PostOf(<<>>, T, Detached(T))
               inverse == RestoreTasks(old.tasks, PlanningLinks(T))
    <2>1. /\ CommitTasks(DeleteRows(task, T), Detached(T), T, {"tasks"})
          /\ Retain(inverse, post, o)
      BY <1>3 DEF UndoByDeleting
    <2>2. T = DOMAIN old.tasks /\ T \subseteq DOMAIN task /\ \A t \in T : old.tasks[t] = task[t]
      BY <1>2, <1>3 DEF PostSound, PostImageHolds
    <2>3. /\ inverse.kind = "restore_tasks" /\ inverse.links = PlanningLinks(T)
          /\ inverse.rows = old.tasks /\ post.absent = T
      BY DEF RestoreTasks, PostOf
    <2> HIDE DEF T, post, inverse
    <2>. QED
      BY <2>1, <2>2, <2>3, DetachingLeadsBack
  <1>4. ASSUME NEW rows, IsRows(rows, Tasks, TaskRow), DOMAIN rows = i.ids,
               i.ids \intersect DOMAIN task = {}, LinksRestorable(i.links),
               NEW resync, CommitTasks(Update(task, rows), Reattached(i.links), i.ids, resync),
               NEW post, post.absent = {}, Retain(DeleteTasks(i.ids), post, o)
        PROVE  LeadsBack
    <2> DEFINE ids == i.ids
               links == i.links
    <2>1. \A b \in DOMAIN links.blocks : links.blocks[b] \in ids
      BY <1>2 DEF InverseSound
    <2>2. \A k \in DOMAIN links.memberships : links.memberships[k] \in Seq(Place(ids))
      BY <1>1
    <2> HIDE DEF i
    <2>3. /\ DOMAIN rows = ids /\ ids \intersect DOMAIN task = {} /\ LinksRestorable(links)
          /\ CommitTasks(Update(task, rows), Reattached(links), ids, resync)
          /\ Retain(DeleteTasks(ids), post, o)
      BY <1>4
    <2> HIDE DEF ids, links
    <2>. QED
      BY <1>4, <2>1, <2>2, <2>3, ReattachingLeadsBack
  <1>5. CASE i.kind = "restore_closure" /\ UndoDeletion(o)
    <2> DEFINE post == PostOf(i.rows, {}, Reattached(i.links))
    <2>1. /\ DOMAIN i.rows = i.ids /\ i.ids \intersect DOMAIN task = {} /\ LinksRestorable(i.links)
          /\ CommitTasks(Update(task, i.rows), Reattached(i.links), i.ids, {"tasks"})
          /\ Retain(DeleteTasks(i.ids), post, o) /\ post.absent = {}
      BY <1>2, <1>5 DEF UndoDeletion, InverseSound, PostOf
    <2> HIDE DEF post, i
    <2>. QED
      BY <1>1, <1>4, <2>1
  <1>6. CASE i.kind = "restore_tasks" /\ UndoRewrite(o)
    <2> DEFINE rows == Stamped(i.rows)
               post == PostOf(rows, {}, Reattached(i.links))
               inverse == IF old.tasks = <<>> THEN DeleteTasks(old.absent)
                                              ELSE RestoreTasks(old.tasks, NoLinks)
    <2>1. /\ DOMAIN i.rows = i.ids /\ LinksRestorable(i.links) /\ Retain(inverse, post, o)
          /\ post.absent = {}
      BY <1>2, <1>6 DEF UndoRewrite, InverseSound, PostOf
    <2>2. DOMAIN rows = i.ids
      BY <2>1 DEF Stamped
    <2>3. PICK resync : CommitTasks(Update(task, rows), Reattached(i.links), i.ids, resync)
      BY <1>6 DEF UndoRewrite
    <2>4. CASE old.tasks = <<>>
      <3>1. old.absent = i.ids
        BY <1>2, <1>6, <2>4 DEF PostSound
      <3>2. i.ids \intersect DOMAIN task = {} /\ inverse = DeleteTasks(i.ids)
        BY <1>2, <2>4, <3>1 DEF PostImageHolds
      <3>3. Now \in 0..MaxOps
        BY <2>3, CommitCounts DEF CommitTasks, Typed
      <3>4. IsRows(rows, Tasks, TaskRow)
        BY <1>1, <3>3, RowsStamped DEF IsRows, Stamped
      <3> HIDE DEF rows, post, inverse, i, old
      <3>. QED
        BY <1>4, <2>1, <2>2, <2>3, <3>2, <3>4
    <2>5. CASE old.tasks # <<>>
      <3>1. i.links = NoLinks /\ DOMAIN old.tasks = i.ids
        BY <1>2, <1>6, <2>5 DEF PostSound
      <3>2. /\ DOMAIN rows \subseteq DOMAIN task /\ DOMAIN old.tasks = DOMAIN rows
            /\ \A t \in DOMAIN old.tasks : old.tasks[t] = task[t]
        BY <1>2, <2>2, <3>1 DEF PostImageHolds
      <3>3. DOMAIN Reattached(i.links).slots = {} /\ DOMAIN Reattached(i.links).blocks = {}
        BY <3>1, NoLinksSound DEF Reattached
      <3>4. inverse = RestoreTasks(old.tasks, NoLinks)
        BY <2>5
      <3> DEFINE was == old.tasks
      <3>5. /\ DOMAIN was = DOMAIN rows /\ \A t \in DOMAIN was : was[t] = task[t]
            /\ Retain(RestoreTasks(was, NoLinks), post, o)
        BY <2>1, <3>2, <3>4
      <3> HIDE DEF rows, post, inverse, i, old, was
      <3>. QED
        BY <2>1, <2>3, <3>2, <3>3, <3>5, RewritingLeadsBack
    <2>. QED
      BY <2>4, <2>5
  <1>. QED
    BY <1>3, <1>5, <1>6 DEF Undo

LEMMA TaskLeadsBack ==
    ASSUME Typed, References, Entries, TaskNext
    PROVE  LeadsBack
  BY ApplyLeadsBack, PatchLeadsBack, DeleteLeadsBack, UndoLeadsBack DEF TaskNext

\* A step without undo material is an operation of another kind, or none at all.
LEMMA TaskCounts == TaskNext => revision' = Now
  BY DEF TaskNext, ApplyTemplate, PatchTask, DeleteTask, Undo, UndoByDeleting, UndoDeletion,
         UndoRewrite, CommitTasks, Commit

LEMMA CatalogCounts == ProjectNext \/ LabelNext \/ TemplateNext => revision' = Now
  BY DEF ProjectNext, LabelNext, TemplateNext, CreateProject, PatchProject, DeleteProject,
         CreateSection, PatchSection, DeleteSection, CreateTag, PatchTag, DeleteTag,
         CreateTemplate, PatchTemplate, WriteTemplate, DeleteTemplate,
         CreateSavedFilter, PatchSavedFilter, DeleteSavedFilter, WriteFilter, CatalogEvent, Commit

LEMMA TimeBlockCounts ==
    TimeBlockNext => revision' = Now \/ UNCHANGED <<task, slot, block, revision>>
  BY DEF TimeBlockNext, CreateTimeBlock, PatchTimeBlock, SetTimeBlockRange, DeleteTimeBlock,
         CreateTimeSlot, PatchTimeSlot, DeleteTimeSlot, AppendSlotTask, RemoveSlotTask,
         ReorderSlotTasks, PreviewReplan, ReplanDelete, ReplanMove, NextDay, WriteBlocks,
         WriteSlot, Commit

\* What is to be given back from the next state on is where the inverse leads.
Owed(kind, absent, tasks) ==
    IF kind = "restore_closure" THEN Contents
    ELSE [Contents EXCEPT !.task =
            [t \in DOMAIN @ |-> IF t \in tasks THEN Cleared(@[t], absent) ELSE @[t]]]

LEMMA OwedIs ==
    ASSUME Typed, NEW kind, NEW absent, NEW back, NEW tasks,
           \/ back = Contents /\ (kind = "restore_closure" \/ absent = {})
           \/ back = Short(absent) /\ kind # "restore_closure" /\ tasks = DOMAIN task \ absent
    PROVE  back = Owed(kind, absent, tasks)
  <1> DEFINE cut == [t \in DOMAIN task |-> IF t \in tasks THEN Cleared(PlainTask(task[t]), absent)
                                           ELSE PlainTask(task[t])]
  <1>1. [Contents EXCEPT !.task =
           [t \in DOMAIN @ |-> IF t \in tasks THEN Cleared(@[t], absent) ELSE @[t]]]
        = [task |-> cut, slot |-> Bare(slot), block |-> Bare(block)]
    BY ContentsAre DEF BareTasks
  <1>2. CASE kind = "restore_closure"
    BY <1>2 DEF Owed
  <1>3. CASE back = Contents /\ kind # "restore_closure" /\ absent = {}
    <2>1. \A t \in DOMAIN task : TaskFields \subseteq DOMAIN task[t] /\ task[t].parent \notin absent
      BY <1>3 DEF Typed, TasksTyped, IsRows, TaskRow, TaskFields
    <2>2. \A t \in DOMAIN task : Cleared(PlainTask(task[t]), absent) = PlainTask(task[t])
      BY <2>1, ClearedSeen
    <2>3. cut = BareTasks(task)
      BY <2>2 DEF BareTasks
    <2> HIDE DEF cut
    <2>. QED
      BY <1>1, <1>3, <2>3, ContentsAre DEF Owed
  <1>4. CASE back = Short(absent) /\ kind # "restore_closure" /\ tasks = DOMAIN task \ absent
    <2>1. Short(absent) = [task |-> cut, slot |-> Bare(slot), block |-> Bare(block)]
      BY <1>4 DEF Short
    <2> HIDE DEF cut
    <2>. QED
      BY <1>1, <1>4, <2>1 DEF Owed
  <1>. QED
    BY <1>2, <1>3, <1>4

LEMMA LatestStep ==
    Typed /\ References /\ Entries /\ LatestReverts /\ [Next]_vars => LatestReverts'
  <1> SUFFICES ASSUME Typed, References, Entries, LatestReverts, [Next]_vars
               PROVE  LatestReverts'
    OBVIOUS
  <1>1. revision \in Nat /\ Now \notin DOMAIN undo /\ Now # revision
    BY DEF Entries, UndoSound, Now
  <1>2. CASE UNCHANGED <<task, slot, block, revision, undo, before>>
    BY <1>2 DEF LatestReverts, GivenBack, CutOff
  <1>3. CASE Next /\ revision' = Now
    <2>1. before' = Contents
      BY <1>1, <1>3 DEF Next
    <2>2. CASE TaskNext
      <3>1. LeadsBack
        BY <2>2, TaskLeadsBack
      <3>2. PICK next : next = Now
        OBVIOUS
      <3> DEFINE back == Back(task', slot', block', undo'[next].inverse)
                 kind == undo'[next].inverse.kind
                 absent == undo'[next].post.absent
                 tasks == DOMAIN task'
      <3>3. \/ back = Contents /\ (kind = "restore_closure" \/ absent = {})
            \/ /\ back = Short(absent) /\ kind # "restore_closure"
               /\ tasks = DOMAIN task \ absent
        BY <3>1, <3>2 DEF LeadsBack, LeadsTo
      <3>4. GivenBack(next)' = Owed(kind, absent, tasks)
        BY <2>1 DEF GivenBack, CutOff, Cleared, Owed
      <3>5. back = GivenBack(next)'
        <4> HIDE DEF back, kind, absent, tasks
        <4>. QED
          BY <3>3, <3>4, OwedIs
      <3>6. revision' = next
        BY <1>3, <3>2
      <3>. QED
        BY <3>5, <3>6 DEF LatestReverts
    <2>3. CASE UNCHANGED undo
      BY <1>1, <1>3, <2>3 DEF LatestReverts
    <2>. QED
      BY <1>3, <2>2, <2>3 DEF Next
  <1>4. CASE Next /\ UNCHANGED <<task, slot, block, revision, undo>>
    <2>1. before' = before
      BY <1>4 DEF Next
    <2>. QED
      BY <1>2, <1>4, <2>1
  <1>5. Next => revision' = Now \/ UNCHANGED <<task, slot, block, revision, undo>>
    BY TaskCounts, CatalogCounts, TimeBlockCounts DEF Next
  <1>6. UNCHANGED vars => UNCHANGED <<task, slot, block, revision, undo, before>>
    BY DEF vars
  <1>. QED
    BY <1>2, <1>3, <1>4, <1>5, <1>6

\* Undoing carries the inverse out, on the rows and on their links.
LEMMA RowsGoBack ==
    ASSUME NEW tasks, NEW slots, NEW blocks, NEW i,
           task' = tasks, slot' = slots, block' = blocks,
           BareTasks(tasks) = BareTasks(TasksBack(task, i)),
           DOMAIN slots = DOMAIN slot, DOMAIN blocks = DOMAIN block,
           \A k \in DOMAIN slot : Plain(slots[k]) = SlotBack(slot[k], i, k),
           \A b \in DOMAIN block : Plain(blocks[b]) = BlockBack(block[b], i, b)
    PROVE  Contents' = Back(task, slot, block, i)
  <1>1. Contents' = [task |-> BareTasks(tasks), slot |-> Bare(slots), block |-> Bare(blocks)]
    BY DEF Contents, Bare, Plain, BareTasks, PlainTask
  <1>2. Bare(slots) = SlotsBack(slot, i) /\ Bare(blocks) = BlocksBack(block, i)
    BY DEF Bare, SlotsBack, BlocksBack
  <1>. QED
    BY <1>1, <1>2 DEF Back

LEMMA DetachingCarriesOut ==
    ASSUME Typed, NEW i, i.kind = "delete_tasks", NEW T, i.ids = T,
           NEW affected, NEW resync, CommitTasks(DeleteRows(task, T), Detached(T), affected, resync)
    PROVE  Contents' = Back(task, slot, block, i)
  <1> DEFINE tasks == DeleteRows(task, T)
             slots == Update(slot, Detached(T).slots)
             blocks == Update(block, Detached(T).blocks)
  <1>1. task' = tasks /\ slot' = slots /\ block' = blocks
    BY DEF CommitTasks
  <1>2. BareTasks(tasks) = BareTasks(TasksBack(task, i))
    BY DEF TasksBack
  <1>3. /\ DOMAIN slots = DOMAIN slot
        /\ \A k \in DOMAIN slot :
              slots[k] = IF ToSet(slot[k].tasks) \intersect T # {}
                         THEN Relisted(slot[k], Selected(slot[k].tasks, Tasks \ T), Now)
                         ELSE slot[k]
    BY DEF Detached, Memberships, Update, Relisted
  <1>4. /\ DOMAIN blocks = DOMAIN block
        /\ \A b \in DOMAIN block :
              blocks[b] = IF block[b].task \in T THEN Relinked(block[b], None, Now) ELSE block[b]
    BY DEF Detached, BlockLinks, Update, Relinked
  <1>5. ASSUME NEW k \in DOMAIN slot PROVE Plain(slots[k]) = SlotBack(slot[k], i, k)
    <2> DEFINE old == slot[k].tasks
               ids == Selected(old, Tasks \ T)
    <2>1. SlotFields \subseteq DOMAIN slot[k] /\ old \in Seq(Tasks)
      BY DEF Typed, SlotsTyped, IsRows, SlotRow, SlotFields
    <2>2. SlotBack(slot[k], i, k) = Relisted(slot[k], ids, 0)
      BY DEF SlotBack, ListBack
    <2>3. CASE ToSet(old) \intersect T # {}
      <3>1. slots[k] = Relisted(slot[k], ids, Now)
        BY <1>3, <2>3
      <3> HIDE DEF ids, slots
      <3>. QED
        BY <2>1, <2>2, <3>1, SlotSeen
    <2>4. CASE ToSet(old) \intersect T = {}
      <3>1. slots[k] = slot[k]
        BY <1>3, <2>4
      <3>2. ids = old
        BY <2>1, <2>4, UntouchedList
      <3> HIDE DEF ids, slots
      <3>. QED
        BY <2>1, <2>2, <3>1, <3>2, SlotSeen
    <2>. QED
      BY <2>3, <2>4
  <1>6. ASSUME NEW b \in DOMAIN block PROVE Plain(blocks[b]) = BlockBack(block[b], i, b)
    <2>1. BlockFields \subseteq DOMAIN block[b]
      BY DEF Typed, BlocksTyped, IsRows, BlockRow, BlockFields
    <2>2. CASE block[b].task \in T
      <3>1. blocks[b] = Relinked(block[b], None, Now)
        BY <1>4, <2>2
      <3>2. BlockBack(block[b], i, b) = Relinked(block[b], None, 0)
        BY <2>2 DEF BlockBack, LinkBack
      <3> HIDE DEF blocks
      <3>. QED
        BY <2>1, <3>1, <3>2, BlockSeen
    <2>3. CASE block[b].task \notin T
      <3>1. blocks[b] = block[b]
        BY <1>4, <2>3
      <3>2. BlockBack(block[b], i, b) = Relinked(block[b], block[b].task, 0)
        BY <2>3 DEF BlockBack, LinkBack
      <3> HIDE DEF blocks
      <3>. QED
        BY <2>1, <3>1, <3>2, BlockSeen
    <2>. QED
      BY <2>2, <2>3
  <1> HIDE DEF tasks, slots, blocks
  <1>. QED
    BY <1>1, <1>2, <1>3, <1>4, <1>5, <1>6, RowsGoBack

LEMMA ReattachingCarriesOut ==
    ASSUME Typed, NEW i, i.kind # "delete_tasks", NEW links, i.links = links, LinksRestorable(links),
           NEW rows, BareTasks(Update(task, rows)) = BareTasks(Update(task, i.rows)),
           NEW affected, NEW resync, CommitTasks(Update(task, rows), Reattached(links), affected, resync)
    PROVE  Contents' = Back(task, slot, block, i)
  <1> DEFINE tasks == Update(task, rows)
             slots == Update(slot, Reattached(links).slots)
             blocks == Update(block, Reattached(links).blocks)
  <1>1. task' = tasks /\ slot' = slots /\ block' = blocks
    BY DEF CommitTasks
  <1>2. BareTasks(tasks) = BareTasks(TasksBack(task, i))
    BY DEF TasksBack
  <1>3. /\ DOMAIN slots = DOMAIN slot
        /\ \A k \in DOMAIN slot :
              slots[k] = IF k \in DOMAIN links.memberships
                         THEN Relisted(slot[k], Reinsert(slot[k].tasks, links.memberships[k]), Now)
                         ELSE slot[k]
    BY DEF LinksRestorable, Reattached, Update, Relisted
  <1>4. /\ DOMAIN blocks = DOMAIN block
        /\ \A b \in DOMAIN block :
              blocks[b] = IF b \in DOMAIN links.blocks
                          THEN Relinked(block[b], links.blocks[b], Now) ELSE block[b]
    BY DEF LinksRestorable, Reattached, Update, Relinked
  <1>5. ASSUME NEW k \in DOMAIN slot PROVE Plain(slots[k]) = SlotBack(slot[k], i, k)
    <2>1. SlotFields \subseteq DOMAIN slot[k]
      BY DEF Typed, SlotsTyped, IsRows, SlotRow, SlotFields
    <2>2. CASE k \in DOMAIN links.memberships
      <3> DEFINE ids == Reinsert(slot[k].tasks, links.memberships[k])
      <3>1. slots[k] = Relisted(slot[k], ids, Now)
        BY <1>3, <2>2
      <3>2. SlotBack(slot[k], i, k) = Relisted(slot[k], ids, 0)
        BY <2>2 DEF SlotBack, ListBack
      <3> HIDE DEF ids, slots
      <3>. QED
        BY <2>1, <3>1, <3>2, SlotSeen
    <2>3. CASE k \notin DOMAIN links.memberships
      <3>1. slots[k] = slot[k]
        BY <1>3, <2>3
      <3>2. SlotBack(slot[k], i, k) = Relisted(slot[k], slot[k].tasks, 0)
        BY <2>3 DEF SlotBack, ListBack
      <3> HIDE DEF slots
      <3>. QED
        BY <2>1, <3>1, <3>2, SlotSeen
    <2>. QED
      BY <2>2, <2>3
  <1>6. ASSUME NEW b \in DOMAIN block PROVE Plain(blocks[b]) = BlockBack(block[b], i, b)
    <2>1. BlockFields \subseteq DOMAIN block[b]
      BY DEF Typed, BlocksTyped, IsRows, BlockRow, BlockFields
    <2>2. CASE b \in DOMAIN links.blocks
      <3> DEFINE t == links.blocks[b]
      <3>1. blocks[b] = Relinked(block[b], t, Now)
        BY <1>4, <2>2
      <3>2. BlockBack(block[b], i, b) = Relinked(block[b], t, 0)
        BY <2>2 DEF BlockBack, LinkBack
      <3> HIDE DEF blocks, t
      <3>. QED
        BY <2>1, <3>1, <3>2, BlockSeen
    <2>3. CASE b \notin DOMAIN links.blocks
      <3>1. blocks[b] = block[b]
        BY <1>4, <2>3
      <3>2. BlockBack(block[b], i, b) = Relinked(block[b], block[b].task, 0)
        BY <2>3 DEF BlockBack, LinkBack
      <3> HIDE DEF blocks
      <3>. QED
        BY <2>1, <3>1, <3>2, BlockSeen
    <2>. QED
      BY <2>2, <2>3
  <1> HIDE DEF tasks, slots, blocks
  <1>. QED
    BY <1>1, <1>2, <1>3, <1>4, <1>5, <1>6, RowsGoBack

LEMMA UndoCarriesOut ==
    ASSUME Typed, Entries, NEW o \in DOMAIN undo, Undo(o)
    PROVE  Contents' = Back(task, slot, block, undo[o].inverse)
  <1> DEFINE i == undo[o].inverse
             old == undo[o].post
  <1>1. InverseSound(i, old) /\ PostSound(i, old, o) /\ PostImageHolds(old)
    BY DEF Entries, UndoSound, Undo
  <1>2. CASE i.kind = "delete_tasks" /\ UndoByDeleting(o)
    <2> DEFINE T == i.ids \intersect DOMAIN task
    <2>1. CommitTasks(DeleteRows(task, T), Detached(T), T, {"tasks"})
      BY <1>2 DEF UndoByDeleting
    <2>2. i.ids = T
      BY <1>1, <1>2 DEF PostSound, PostImageHolds
    <2> HIDE DEF T, i
    <2>. QED
      BY <1>2, <2>1, <2>2, DetachingCarriesOut DEF i
  <1>3. CASE i.kind = "restore_closure" /\ UndoDeletion(o)
    <2> DEFINE rows == i.rows
               links == i.links
    <2>1. LinksRestorable(links) /\ CommitTasks(Update(task, rows), Reattached(links), i.ids, {"tasks"})
      BY <1>3 DEF UndoDeletion
    <2>2. BareTasks(Update(task, rows)) = BareTasks(Update(task, i.rows)) /\ i.kind # "delete_tasks"
      BY <1>3
    <2>3. i.links = links
      OBVIOUS
    <2> HIDE DEF rows, links, i
    <2>. QED
      BY <2>1, <2>2, <2>3, ReattachingCarriesOut DEF i
  <1>4. CASE i.kind = "restore_tasks" /\ UndoRewrite(o)
    <2> DEFINE rows == Stamped(i.rows)
               links == i.links
    <2>1. PICK resync :
              /\ LinksRestorable(links)
              /\ CommitTasks(Update(task, rows), Reattached(links), i.ids, resync)
      BY <1>4 DEF UndoRewrite
    <2>2. BareTasks(Update(task, rows)) = BareTasks(Update(task, i.rows))
      <3>1. DOMAIN rows = DOMAIN i.rows
        BY DEF Stamped
      <3>2. ASSUME NEW t \in DOMAIN i.rows PROVE PlainTask(rows[t]) = PlainTask(i.rows[t])
        <4>1. rows[t] = [i.rows[t] EXCEPT !.revision = Now] /\ TaskFields \subseteq DOMAIN i.rows[t]
          BY <1>1 DEF Stamped, InverseSound, HasFields
        <4>. QED
          BY <4>1, TaskSeen
      <3> DEFINE new == Update(task, rows)
                 was == Update(task, i.rows)
      <3>3. DOMAIN new = DOMAIN was
        BY <3>1 DEF Update
      <3>4. \A t \in DOMAIN new :
                \/ new[t] = was[t]
                \/ t \in DOMAIN i.rows /\ new[t] = rows[t] /\ was[t] = i.rows[t]
        BY <3>1 DEF Update
      <3>5. \A t \in DOMAIN new : PlainTask(new[t]) = PlainTask(was[t])
        <4> HIDE DEF new, was, rows, i
        <4>. QED
          BY <3>2, <3>4
      <3> HIDE DEF new, was
      <3>6. BareTasks(new) = BareTasks(was)
        BY <3>3, <3>5, SameBare
      <3>. QED
        BY <3>6 DEF new, was
    <2>3. i.links = links /\ i.kind # "delete_tasks"
      BY <1>4
    <2> HIDE DEF rows, links, i
    <2>. QED
      BY <2>1, <2>2, <2>3, ReattachingCarriesOut DEF i
  <1>. QED
    BY <1>2, <1>3, <1>4 DEF Undo

\* Undoing the latest operation gives back the tasks with their fields and parents,
\* their places in every slot and their blocks, also when that operation is itself an
\* undo.  Only a task that lost its parent to the undo of a creation stays without it.
THEOREM UndoGivesRowsAndLinksBack == Spec => UndoGivesBack
  <1> DEFINE Inv == Typed /\ References /\ Entries /\ ProjectTree /\ LatestReverts
  <1>1. Init => Inv
    <2>1. Init => LatestReverts
      BY DEF Init, LatestReverts
    <2>. QED
      BY <2>1, ReferencesInit, EntriesInit, TypedInit
  <1>2. Inv /\ [Next]_vars => Inv'
    BY ReferencesStep, EntriesStep, TreeStep, TypedStep, LatestStep DEF Entries
  <1>3. Inv /\ [Next]_vars =>
            [\A o \in DOMAIN undo : Undone(o) /\ o = revision => Contents' = GivenBack(o)]_vars
    <2> SUFFICES ASSUME Inv, [Next]_vars, NEW o \in DOMAIN undo, Undone(o), o = revision
                 PROVE  Contents' = GivenBack(o)
      OBVIOUS
    <2>1. Undo(o)
      BY UndoneByUndo
    <2>2. Contents' = Back(task, slot, block, undo[o].inverse)
      BY <2>1, UndoCarriesOut
    <2>3. GivenBack(o) = Back(task, slot, block, undo[o].inverse)
      BY DEF LatestReverts, Undone
    <2>. QED
      BY <2>2, <2>3
  <1>. QED
    BY <1>1, <1>2, <1>3, PTL DEF Spec, UndoGivesBack

-----------------------------------------------------------------------------
(***************************************************************************)
(* Replanning.                                                             *)
(***************************************************************************)

\* Date, start and id put the blocks in one order.
LEMMA BlocksOrdered ==
    ASSUME BlocksTyped, NEW a \in DOMAIN block, NEW b \in DOMAIN block, NEW c \in DOMAIN block
    PROVE  /\ ~Before(b, b)
           /\ b # c => Before(b, c) \/ Before(c, b)
           /\ Before(a, b) /\ Before(b, c) => Before(a, c)
  <1>1. \A x \in DOMAIN block : x \in Int /\ block[x].date \in Int /\ block[x].start \in Int
    BY CalendarAssumption, IdsAssumption DEF BlocksTyped, IsRows, BlockRow
  <1>. QED
    BY <1>1 DEF Before

\* Every block of a finite set has a rank of its own, and all ranks are taken.
LEMMA Ranked ==
    ASSUME BlocksTyped, NEW S, S \subseteq DOMAIN block, IsFiniteSet(S)
    PROVE  /\ Cardinality(S) \in Nat
           /\ \A b \in S : Rank(b, S) \in 1..Cardinality(S)
           /\ \A b, c \in S : Rank(b, S) = Rank(c, S) => b = c
           /\ \A n \in 1..Cardinality(S) : \E b \in S : Rank(b, S) = n
  <1> DEFINE Earlier(b) == {c \in S : Before(c, b)}
             N == Cardinality(S)
             f == [b \in S |-> Rank(b, S)]
  <1>1. N \in Nat
    BY FS_CardinalityType
  <1>2. ASSUME NEW b \in S
        PROVE  IsFiniteSet(Earlier(b)) /\ Cardinality(Earlier(b)) \in Nat /\ Rank(b, S) \in 1..N
    <2>1. Earlier(b) \in SUBSET S /\ b \notin Earlier(b)
      BY <1>2, BlocksOrdered
    <2> HIDE DEF Earlier
    <2>2. /\ IsFiniteSet(Earlier(b)) /\ Cardinality(Earlier(b)) <= N
          /\ N = Cardinality(Earlier(b)) => S = Earlier(b)
      BY <2>1, FS_Subset
    <2>3. Cardinality(Earlier(b)) \in Nat /\ Cardinality(Earlier(b)) < N
      BY <1>1, <1>2, <2>1, <2>2, FS_CardinalityType
    <2>4. Rank(b, S) = Cardinality(Earlier(b)) + 1
      BY DEF Rank, Earlier
    <2>. QED
      BY <1>1, <2>2, <2>3, <2>4
  <1>3. ASSUME NEW b \in S, NEW c \in S, Before(b, c) PROVE Rank(b, S) < Rank(c, S)
    <2>1. Earlier(b) \in SUBSET Earlier(c)
      BY <1>3, BlocksOrdered
    <2>2. b \in Earlier(c) /\ b \notin Earlier(b)
      BY <1>3, BlocksOrdered
    <2>3. Rank(b, S) = Cardinality(Earlier(b)) + 1 /\ Rank(c, S) = Cardinality(Earlier(c)) + 1
      BY DEF Rank
    <2>4. /\ IsFiniteSet(Earlier(c)) /\ Cardinality(Earlier(c)) \in Nat /\ Cardinality(Earlier(b)) \in Nat
      BY <1>2
    <2> HIDE DEF Earlier
    <2>5. /\ Cardinality(Earlier(b)) <= Cardinality(Earlier(c))
          /\ Cardinality(Earlier(c)) = Cardinality(Earlier(b)) => Earlier(c) = Earlier(b)
      BY <2>1, <2>4, FS_Subset
    <2>. QED
      BY <2>2, <2>3, <2>4, <2>5
  <1>4. ASSUME NEW b \in S, NEW c \in S, Rank(b, S) = Rank(c, S) PROVE b = c
    <2>1. b # c => Before(b, c) \/ Before(c, b)
      BY BlocksOrdered
    <2>2. Rank(b, S) \in 1..N /\ Rank(c, S) \in 1..N
      BY <1>2
    <2>3. ~Before(b, c) /\ ~Before(c, b)
      <3>1. ~(Rank(b, S) < Rank(c, S)) /\ ~(Rank(c, S) < Rank(b, S))
        BY <1>1, <1>4, <2>2
      <3>. QED
        BY <1>3, <3>1
    <2>. QED
      BY <2>1, <2>3
  <1>5. f \in Injection(S, 1..N)
    BY <1>2, <1>4 DEF Injection, IsInjective
  <1>6. IsFiniteSet(1..N) /\ Cardinality(1..N) = N
    BY <1>1, FS_Interval
  <1>7. f \in Surjection(S, 1..N)
    <2> HIDE DEF f
    <2>. QED
      BY <1>5, <1>6, FS_Injection
  <1>8. \A n \in 1..N : \E b \in S : Rank(b, S) = n
    BY <1>7 DEF Surjection
  <1>. QED
    BY <1>1, <1>2, <1>4, <1>8

\* A list in order has every block of its set, and no other.
LEMMA Enumerated ==
    ASSUME BlocksTyped, NEW S, S \subseteq DOMAIN block, IsFiniteSet(S)
    PROVE  ToSet(InOrder(S)) = S
  <1> DEFINE N == Cardinality(S)
             At(n) == CHOOSE b \in S : Rank(b, S) = n
             ids == InOrder(S)
  <1>1. ids = [n \in 1..N |-> At(n)]
    BY DEF InOrder
  <1>2. \A n \in 1..N : At(n) \in S /\ Rank(At(n), S) = n
    BY Ranked
  <1>3. \A b \in S : Rank(b, S) \in 1..N /\ At(Rank(b, S)) = b
    BY <1>2, Ranked
  <1>4. DOMAIN ids = 1..N
    BY <1>1
  <1>5. ToSet(ids) = {ids[n] : n \in 1..N}
    BY <1>4 DEF ToSet
  <1>6. \A n \in 1..N : ids[n] = At(n)
    BY <1>1
  <1> HIDE DEF At, ids
  <1>7. ToSet(ids) = S
    BY <1>2, <1>3, <1>5, <1>6
  <1>. QED
    BY <1>7 DEF ids

\* There are never more than finitely many blocks.
BlocksFinite == IsFiniteSet(DOMAIN block)

LEMMA FiniteStep == Fielded /\ BlocksFinite /\ [Next]_vars => BlocksFinite'
  <1> SUFFICES ASSUME Fielded, BlocksFinite, [Next]_vars PROVE BlocksFinite'
    OBVIOUS
  <1>1. TimeBlockNext => \E b : DOMAIN block' \subseteq DOMAIN block \union {b}
    <2>1. ASSUME NEW b, NEW row, CreateTimeBlock(b, row)
          PROVE  DOMAIN block' \subseteq DOMAIN block \union {b}
      BY <2>1 DEF CreateTimeBlock, WriteBlocks, Update, Only
    <2>2. ASSUME NEW b, NEW patch, PatchTimeBlock(b, patch) \/ SetTimeBlockRange(b, patch)
          PROVE  DOMAIN block' \subseteq DOMAIN block \union {b}
      BY <2>2 DEF PatchTimeBlock, SetTimeBlockRange, WriteBlocks, Update, Only
    <2>3. ASSUME NEW b, DeleteTimeBlock(b) PROVE DOMAIN block' \subseteq DOMAIN block \union {b}
      BY <2>3 DEF DeleteTimeBlock, Without
    <2>4. ASSUME NEW k, DeleteTimeSlot(k) PROVE DOMAIN block' \subseteq DOMAIN block \union {k}
      BY <2>4 DEF DeleteTimeSlot
    <2>5. ReplanDelete => DOMAIN block' \subseteq DOMAIN block \union {None}
      BY DEF ReplanDelete, Without
    <2>6. ASSUME NEW target, ReplanMove(target)
          PROVE  DOMAIN block' \subseteq DOMAIN block \union {None}
      BY <2>6 DEF ReplanMove, WriteBlocks, Update, Eligible
    <2>7. UNCHANGED block => DOMAIN block' \subseteq DOMAIN block \union {None}
      OBVIOUS
    <2>. QED
      BY <2>1, <2>2, <2>3, <2>4, <2>5, <2>6, <2>7
      DEF TimeBlockNext, CreateTimeSlot, PatchTimeSlot, AppendSlotTask, RemoveSlotTask,
          ReorderSlotTasks, WriteSlot, PreviewReplan, NextDay
  <1>2. ProjectNext \/ LabelNext \/ TemplateNext => UNCHANGED block
    BY DEF ProjectNext, LabelNext, TemplateNext, CreateProject, PatchProject, DeleteProject,
           CreateSection, PatchSection, DeleteSection, CreateTag, PatchTag, DeleteTag,
           CreateTemplate, PatchTemplate, WriteTemplate, DeleteTemplate,
           CreateSavedFilter, PatchSavedFilter, DeleteSavedFilter, WriteFilter, CatalogEvent
  <1>3. TaskNext => DOMAIN block' = DOMAIN block
    <2>1. ASSUME NEW rows, NEW planned, DOMAIN planned.blocks \subseteq DOMAIN block,
                 NEW affected, NEW resync, CommitTasks(rows, planned, affected, resync)
          PROVE  DOMAIN block' = DOMAIN block
      BY <2>1 DEF CommitTasks, Update
    <2>2. DOMAIN NoPlanned.blocks \subseteq DOMAIN block
      BY DEF NoPlanned
    <2>3. \A T : DOMAIN Detached(T).blocks \subseteq DOMAIN block
      BY DEF Detached, BlockLinks
    <2>4. \A links : LinksRestorable(links) => DOMAIN Reattached(links).blocks \subseteq DOMAIN block
      BY DEF LinksRestorable, Reattached
    <2>. QED
      BY <2>1, <2>2, <2>3, <2>4
      DEF TaskNext, ApplyTemplate, PatchTask, DeleteTask, Undo, UndoByDeleting, UndoDeletion,
          UndoRewrite
  <1>4. Next \/ UNCHANGED vars => \E b : DOMAIN block' \subseteq DOMAIN block \union {b}
    BY <1>1, <1>2, <1>3 DEF Next, vars
  <1>5. PICK b : DOMAIN block' \in SUBSET (DOMAIN block \union {b})
    BY <1>4
  <1>6. IsFiniteSet(DOMAIN block \union {b})
    BY FS_AddElement DEF BlocksFinite
  <1>. QED
    BY <1>5, <1>6, FS_Subset DEF BlocksFinite

\* What is moved or deleted are the blocks of the preview.
LEMMA ReplanSeen ==
    ASSUME Typed, BlocksFinite, preview # None, ReplanAccepts(preview)
    PROVE  /\ ToSet(preview.ids) = Eligible(today) /\ preview.asOf = today
           /\ \A b \in Eligible(today) :
                 /\ b \in DOMAIN block /\ ~block[b].locked
                 /\ block[b].date < today /\ block[b].date >= today - Lookback
  <1>1. IsFiniteSet(Eligible(today)) /\ Eligible(today) \subseteq DOMAIN block
    <2>1. Eligible(today) \in SUBSET DOMAIN block
      BY DEF Eligible
    <2>. QED
      BY <2>1, FS_Subset DEF BlocksFinite
  <1>2. ToSet(InOrder(Eligible(today))) = Eligible(today)
    BY <1>1, Enumerated DEF Typed
  <1>3. today \in Int /\ Lookback \in Int
    BY CalendarAssumption DEF Typed, CountTyped
  <1>4. ASSUME NEW b \in Eligible(today)
        PROVE  /\ b \in DOMAIN block /\ ~block[b].locked
               /\ block[b].date < today /\ block[b].date >= today - Lookback
    <2>1. b \in DOMAIN block /\ ~block[b].locked /\ block[b].date \in ReplanWindow(today)
      BY DEF Eligible
    <2>. QED
      BY <1>3, <2>1 DEF ReplanWindow
  <1>. QED
    BY <1>2, <1>4 DEF ReplanAccepts, EligibleIds

LEMMA ReplanTouches ==
    ASSUME Typed, BlocksFinite, ReplanDelete \/ \E target \in {today, today + 1} : ReplanMove(target)
    PROVE  /\ Changed(block, block') = ToSet(preview.ids)
           /\ preview.asOf = today
           /\ \A b \in ToSet(preview.ids) :
                 ~block[b].locked /\ block[b].date < today /\ block[b].date >= today - Lookback
  <1>1. preview # None /\ ReplanAccepts(preview)
    BY DEF ReplanDelete, ReplanMove
  <1>2. /\ ToSet(preview.ids) = Eligible(today) /\ preview.asOf = today
        /\ \A b \in Eligible(today) :
              /\ b \in DOMAIN block /\ ~block[b].locked
              /\ block[b].date < today /\ block[b].date >= today - Lookback
    BY <1>1, ReplanSeen
  <1>3. ReplanDelete => Changed(block, block') = Eligible(today)
    BY <1>2 DEF ReplanDelete, Without, Changed
  <1>4. ASSUME NEW target \in {today, today + 1}, ReplanMove(target)
        PROVE  Changed(block, block') = Eligible(today)
    <2> DEFINE E == Eligible(today)
    <2>1. /\ DOMAIN block' = DOMAIN block
          /\ \A b \in DOMAIN block \ E : block'[b] = block[b]
          /\ \A b \in E : block'[b] = [[block[b] EXCEPT !.date = target] EXCEPT !.revision = Now]
      BY <1>2, <1>4 DEF ReplanMove, WriteBlocks, Update
    <2>2. ASSUME NEW b \in E PROVE block'[b] # block[b]
      <3>1. block[b] \in BlockRow
        BY <1>2 DEF Typed, BlocksTyped, IsRows
      <3>2. block'[b].date = target
        BY <2>1, <3>1 DEF BlockRow
      <3>3. block[b].date \in Int
        BY <3>1, CalendarAssumption DEF BlockRow
      <3>4. today \in Int /\ (target = today \/ target = today + 1)
        BY <1>4, CalendarAssumption DEF Typed, CountTyped
      <3>5. block[b].date < today
        BY <1>2
      <3>. QED
        BY <3>2, <3>3, <3>4, <3>5
    <2> HIDE DEF E
    <2>3. E \subseteq DOMAIN block
      BY <1>2 DEF E
    <2>4. Changed(block, block') = E
      BY <2>1, <2>2, <2>3 DEF Changed
    <2>. QED
      BY <2>4 DEF E
  <1>. QED
    BY <1>2, <1>3, <1>4

\* Replanning moves or deletes exactly the blocks of the preview, made today: none of
\* them is locked, and all are from the days looked back on.
THEOREM ReplanKeepsToThePreview == Spec => ReplanIsWhatWasPreviewed
  <1> DEFINE Inv == Typed /\ Entries /\ BlocksFinite
  <1>1. Init => Inv
    BY EntriesInit, TypedInit, SeedsAssumption DEF Init, BlocksFinite
  <1>2. Inv /\ [Next]_vars => Inv'
    BY EntriesStep, TypedStep, FiniteStep DEF Entries
  <1>3. Inv /\ [Next]_vars =>
            [(ReplanDelete \/ \E target \in {today, today + 1} : ReplanMove(target)) =>
                /\ Changed(block, block') = ToSet(preview.ids)
                /\ preview.asOf = today
                /\ \A b \in ToSet(preview.ids) :
                      ~block[b].locked /\ block[b].date < today
                        /\ block[b].date >= today - Lookback]_vars
    BY ReplanTouches
  <1>. QED
    BY <1>1, <1>2, <1>3, PTL DEF Spec, ReplanIsWhatWasPreviewed
=============================================================================
