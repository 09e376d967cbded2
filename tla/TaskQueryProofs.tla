--------------------------- MODULE TaskQueryProofs ---------------------------
(***************************************************************************)
(* Proofs about TaskQuery, for any tasks, queries, page size and number of *)
(* revisions: the rows of a live list never go back, and a list is off     *)
(* only where the news it lacks is one of those OffOnlyForCause names.     *)
(***************************************************************************)
EXTENDS TaskQuery, FiniteSetTheorems, WellFoundedInduction, NaturalsInduction, TLAPS

-----------------------------------------------------------------------------
(***************************************************************************)
(* The invariant.                                                          *)
(***************************************************************************)

Rows == [task : Tasks, place : Queries \union {None}, since : Nat]
TaskEvents ==
    [kind : {"patch"}, row : Rows, revision : Nat]
        \union [kind : {"resync", "other"}, row : {None}, revision : Nat]
Snapshots == [revision : Nat, rows : SUBSET Rows, cursor : Tasks \union {None}]
Requests ==
    {Rest} \union [stage : {"asked"}, query : Queries, after : Tasks \union {0}]
        \union [stage : {"answered"}, query : Queries, after : Tasks \union {0},
                snapshot : Snapshots]

ServerType ==
    /\ revision \in Nat
    /\ db \in [Tasks -> [place : Queries \union {None}, since : Nat]]
    /\ \A t \in Tasks : db[t].since <= revision
    /\ unheard \subseteq TaskEvents /\ answers \subseteq TaskEvents
    /\ seen \in Nat /\ seen <= revision
OnePerTask(rows) == \A r, s \in rows : r.task = s.task => r = s
ListType ==
    /\ query \in Queries /\ shown \subseteq Rows /\ OnePerTask(shown)
    /\ applied \in Nat /\ covered \in Int /\ -1 <= covered /\ covered <= applied
    /\ applied <= revision
    /\ cursor \in Tasks \union {None} /\ source \in Queries /\ torn \in BOOLEAN
RequestType ==
    /\ refresh \in [request : Requests, queued : BOOLEAN]
    /\ refresh.request # Rest => refresh.request.after = 0
    /\ refresh.request = Rest => ~refresh.queued
    /\ page \in Requests
    /\ page # Rest => page.after \in Tasks

\* What the list has been told in vain, or is to be told by a refresh.
NewsType ==
    /\ awaited \subseteq 0..revision /\ missed \subseteq 0..revision
    /\ refresh.request = Rest => awaited = {}
    /\ refresh.request.stage = "answered" =>
          /\ ~refresh.queued => \A r \in awaited : r <= refresh.request.snapshot.revision
          /\ \A r \in missed : r < applied \/ r <= refresh.request.snapshot.revision

\* The events under way, and the answers to requests.
Arriving == unheard \union answers
Replies == {request \in {refresh.request, page} : request.stage = "answered"}

\* An event under way tells the last state of the task it changed last.
Speaks(event, t) ==
    event.kind = "resync" \/ (event.kind = "patch" /\ event.row = Row(t))
EventsTrue ==
    \A event \in Arriving :
        /\ event.revision \in 1..revision
        /\ event.kind = "patch" => event.row.since = event.revision
        /\ \A t \in Tasks : db[t].since = event.revision => Speaks(event, t)

\* Every copy of a row: on the screen, in an event or in an answer.
Copies ==
    shown \union {event.row : event \in {e \in Arriving : e.kind = "patch"}}
          \union UNION {reply.snapshot.rows : reply \in Replies}

\* Copies are no newer than the row, and an answer holds the newest row of its time.
CopiesOld ==
    /\ \A r \in Copies : r.since <= db[r.task].since
    /\ \A r \in shown : r.since <= applied
    /\ \A reply \in Replies, r \in Copies :
          \A s \in reply.snapshot.rows :
              s.task = r.task /\ r.since <= reply.snapshot.revision => r.since <= s.since

\* What a list of the query q says of t is what the server has.
Agrees(rows, q, t) ==
    {r \in rows : r.task = t} = IF db[t].place = q THEN {Row(t)} ELSE {}

\* An answer is a page of its time: of what has not changed since, still true.
Within(t, after, last) == t > after /\ (last # None => t <= last)
RepliesTrue ==
    \A reply \in Replies :
        LET snapshot == reply.snapshot
        IN  /\ snapshot.revision <= revision
            /\ snapshot.cursor # None => snapshot.cursor > reply.after
            /\ OnePerTask(snapshot.rows)
            /\ \A r \in snapshot.rows : r.place = reply.query /\ r.since <= snapshot.revision
            /\ \A t \in Tasks :
                  IF Within(t, reply.after, snapshot.cursor)
                  THEN db[t].since <= snapshot.revision => Agrees(snapshot.rows, reply.query, t)
                  ELSE \A r \in snapshot.rows : r.task # t

\* What the list does not show of its tasks, it has not been told: the news is under
\* way, or awaited of a refresh, or has come in vain.
Untold == {event.revision : event \in unheard}
Pending == Untold \union awaited \union missed
ToldBy(t, r) == db[t].since > r /\ db[t].since \in Pending
ListTrue ==
    ~torn =>
        /\ \A r \in shown : r.place = source
        /\ \A t \in Tasks :
              IF Within(t, 0, cursor) THEN Agrees(shown, source, t) \/ ToldBy(t, covered)
              ELSE \A r \in shown : r.task # t

\* What was committed after a refresh was read is still to come, or another refresh
\* is, or the list has passed the answer and will refuse it.
RefreshTrue ==
    refresh.request.stage = "answered" =>
        \/ applied > refresh.request.snapshot.revision
        \/ \A r \in (refresh.request.snapshot.revision + 1)..revision :
                r \in Untold \union awaited

\* What was committed after a page was read the list lacks, or its revision has passed.
PageTrue ==
    page.stage = "answered" =>
        \A r \in (page.snapshot.revision + 1)..revision : r \in Pending \/ applied >= r

IInv ==
    /\ ServerType /\ ListType /\ RequestType /\ NewsType
    /\ EventsTrue /\ CopiesOld /\ RepliesTrue
    /\ ListTrue /\ RefreshTrue /\ PageTrue

-----------------------------------------------------------------------------
(***************************************************************************)
(* Pages: the largest task taken closes the page.                          *)
(***************************************************************************)

LEMMA LeastNatural ==
    ASSUME NEW T, T \subseteq Nat, T # {}
    PROVE  \E n \in T : \A m \in T : n <= m
  <1>1. IsWellFoundedOn(OpToRel(<, Nat), Nat)
    BY NatLessThanWellFounded
  <1>2. \E n \in T : \A m \in T : ~(<<m, n>> \in OpToRel(<, Nat))
    BY <1>1, WFMin
  <1>3. PICK n \in T : \A m \in T : ~(<<m, n>> \in OpToRel(<, Nat))
    BY <1>2
  <1>4. \A m \in T : ~(m < n)
    BY <1>3 DEF OpToRel
  <1>. QED
    BY <1>4

LEMMA MaxFacts ==
    ASSUME NEW S, S \subseteq Nat, IsFiniteSet(S), S # {}
    PROVE  Max(S) \in S /\ \A x \in S : x <= Max(S)
  <1> DEFINE Above(x) == {y \in S : y > x}
             Sizes == {Cardinality(Above(x)) : x \in S}
  <1>1. ASSUME NEW x \in S PROVE IsFiniteSet(Above(x)) /\ Cardinality(Above(x)) \in Nat
    BY FS_Subset, FS_CardinalityType
  <1>2. PICK x \in S : \A y \in S : Cardinality(Above(x)) <= Cardinality(Above(y))
    <2>1. Sizes \subseteq Nat /\ Sizes # {}
      BY <1>1
    <2>2. PICK n \in Sizes : \A m \in Sizes : n <= m
      BY <2>1, LeastNatural
    <2>. QED
      BY <2>2
  <1>3. ASSUME NEW y \in S, y > x PROVE FALSE
    <2>1. Above(y) \subseteq Above(x) /\ y \in Above(x) /\ y \notin Above(y)
      <3>1. x \in Nat /\ y \in Nat
        OBVIOUS
      <3>2. ASSUME NEW z \in S, z > y PROVE z > x
        <4>1. z \in Nat
          OBVIOUS
        <4>. QED
          BY <1>3, <3>1, <3>2, <4>1
      <3>3. ~(y > y)
        BY <3>1
      <3>. QED
        BY <1>3, <3>2, <3>3
    <2>2. Cardinality(Above(y)) < Cardinality(Above(x))
      <3> HIDE DEF Above
      <3>1. Above(y) # Above(x)
        BY <2>1
      <3>. QED
        BY <1>1, <2>1, <3>1, FS_Subset
    <2> HIDE DEF Above
    <2>. QED
      BY <1>1, <1>2, <2>2
  <1>4. \A y \in S : x >= y
    BY <1>3
  <1>. QED
    BY <1>4 DEF Max

LEMMA SnapshotFacts ==
    ASSUME ServerType, NEW q \in Queries, NEW a \in Tasks \union {0},
           NEW snapshot, snapshot = Snapshot(q, a)
    PROVE  /\ snapshot \in Snapshots /\ snapshot.revision = revision
           /\ snapshot.cursor # None => snapshot.cursor > a
           /\ OnePerTask(snapshot.rows)
           /\ \A r \in snapshot.rows : r.task \in Tasks /\ r = Row(r.task) /\ r.place = q
           /\ \A t \in Tasks :
                 IF Within(t, a, snapshot.cursor) THEN Agrees(snapshot.rows, q, t)
                 ELSE \A r \in snapshot.rows : r.task # t
  <1> DEFINE all == Members(q, a)
             Below(t) == {u \in all : u < t}
             taken == {t \in all : Cardinality(Below(t)) < PageSize}
             last == IF taken = all THEN None ELSE Max(taken)
  <1>1. /\ snapshot.revision = revision /\ snapshot.rows = {Row(t) : t \in taken}
        /\ snapshot.cursor = last
        /\ snapshot = [revision |-> revision, rows |-> {Row(t) : t \in taken}, cursor |-> last]
    BY DEF Snapshot
  <1>2. all \subseteq Tasks /\ Tasks \subseteq Nat /\ IsFiniteSet(Tasks) /\ IsFiniteSet(all)
    BY TaskQueryAssumption, FS_Subset DEF Members
  <1>3. taken \subseteq all /\ IsFiniteSet(taken)
    BY <1>2, FS_Subset
  <1>4. \A t \in all : IsFiniteSet(Below(t)) /\ Cardinality(Below(t)) \in Nat
    BY <1>2, FS_Subset, FS_CardinalityType
  <1>5. ASSUME NEW t \in all, NEW u \in taken, t <= u PROVE t \in taken
    <2>1. Below(t) \subseteq Below(u)
      <3>1. t \in Nat /\ u \in Nat
        BY <1>2, <1>3
      <3>2. ASSUME NEW z \in all, z < t PROVE z < u
        <4>1. z \in Nat
          BY <1>2
        <4>. QED
          BY <1>5, <3>1, <3>2, <4>1
      <3>. QED
        BY <3>2
    <2>2. Cardinality(Below(u)) < PageSize /\ u \in all
      OBVIOUS
    <2>3. Cardinality(Below(t)) <= Cardinality(Below(u))
      <3> HIDE DEF Below
      <3>. QED
        BY <1>4, <2>1, <2>2, FS_Subset
    <2> HIDE DEF Below
    <2>4. Cardinality(Below(t)) < PageSize
      BY <1>4, <2>2, <2>3, TaskQueryAssumption
    <2>. QED
      BY <2>4 DEF taken
  <1>6. taken # all => taken # {}
    <2>1. SUFFICES ASSUME all # {} PROVE taken # {}
      OBVIOUS
    <2>2. PICK t \in all : \A u \in all : t <= u
      BY <1>2, <2>1, LeastNatural
    <2>3. Below(t) = {}
      <3>1. ASSUME NEW z \in all PROVE ~(z < t)
        <4>1. z \in Nat /\ t \in Nat /\ t <= z
          BY <1>2, <2>2
        <4>. QED
          BY <4>1
      <3>. QED
        BY <3>1
    <2>4. Cardinality(Below(t)) = 0
      BY <2>3, FS_EmptySet
    <2>. QED
      BY <2>4, TaskQueryAssumption
  <1>7. taken # all => last \in taken /\ \A t \in taken : t <= last
    BY <1>2, <1>3, <1>6, MaxFacts
  <1>8. last # None => taken # all
    OBVIOUS
  <1>9. \A t \in Tasks : Row(t) \in Rows /\ Row(t).task = t
    BY DEF Row, Rows, ServerType
  <1>10. ASSUME NEW t \in Tasks
         PROVE  t \in taken <=> Within(t, a, last) /\ db[t].place = q
    <2>1. t \in all <=> t > a /\ db[t].place = q
      BY DEF Members
    <2>2. CASE taken = all
      BY <2>1, <2>2 DEF Within
    <2>3. CASE taken # all
      <3>1. last # None
        BY <1>2, <1>3, <1>7, <2>3, TaskQueryAssumption
      <3> HIDE DEF taken, last, all
      <3>. QED
        BY <1>2, <1>3, <1>5, <1>7, <2>1, <2>3, <3>1 DEF Within
    <2>. QED
      BY <2>2, <2>3
  <1> HIDE DEF all, taken, last
  <1>11. \A r \in snapshot.rows : r.task \in taken /\ r.task \in Tasks /\ r = Row(r.task)
    BY <1>1, <1>2, <1>3, <1>9
  <1>12. ASSUME NEW t \in Tasks
         PROVE  IF Within(t, a, last) THEN Agrees(snapshot.rows, q, t)
                ELSE \A r \in snapshot.rows : r.task # t
    <2>1. CASE t \in taken
      <3>1. {r \in snapshot.rows : r.task = t} = {Row(t)}
        BY <1>1, <1>9, <1>11, <2>1
      <3>. QED
        BY <1>10, <2>1, <3>1 DEF Agrees
    <2>2. CASE t \notin taken
      <3>1. \A r \in snapshot.rows : r.task # t
        BY <1>11, <2>2
      <3>2. {r \in snapshot.rows : r.task = t} = {}
        BY <3>1
      <3>. QED
        BY <1>10, <2>2, <3>1, <3>2 DEF Agrees
    <2>. QED
      BY <2>1, <2>2
  <1>13. last \in Tasks \union {None} /\ (last # None => last > a)
    BY <1>2, <1>3, <1>7, <1>8 DEF all, Members, last
  <1>14. snapshot \in Snapshots
    <2>1. snapshot.rows \in SUBSET Rows
      BY <1>1, <1>2, <1>3, <1>9
    <2>. QED
      BY <1>1, <1>13, <2>1 DEF Snapshots, ServerType
  <1>15. \A r \in snapshot.rows : r.place = q
    BY <1>10, <1>11 DEF Row
  <1>16. OnePerTask(snapshot.rows)
    BY <1>11 DEF OnePerTask
  <1>. QED
    BY <1>1, <1>11, <1>12, <1>13, <1>14, <1>15, <1>16

-----------------------------------------------------------------------------
(***************************************************************************)
(* The server commits.                                                     *)
(***************************************************************************)

\* Rest is told from the requests by its stage, and an answer from a question.
LEMMA Stages ==
    ASSUME NEW request \in Requests
    PROVE  /\ request = Rest \/ request.stage = "asked" \/ request.stage = "answered"
           /\ request = Rest <=> request.stage = "rest"
           /\ request # Rest => request.query \in Queries /\ request.after \in Tasks \union {0}
           /\ request.stage = "answered" => request.snapshot \in Snapshots
  BY DEF Requests, Rest

\* What a commit and its event have to do with each other.
Writes(rows, event) ==
    /\ event \in TaskEvents /\ event.revision = revision + 1
    /\ DOMAIN rows \subseteq Tasks
    /\ \A t \in DOMAIN rows :
          /\ rows[t] \in [place : Queries \union {None}, since : Nat]
          /\ rows[t].since = revision + 1
          /\ \/ event.kind = "resync"
             \/ event.kind = "patch" /\ event.row.task = t /\ event.row.place = rows[t].place
    /\ event.kind = "patch" => /\ event.row.task \in DOMAIN rows
                               /\ event.row.since = revision + 1

LEMMA CommitPreserves ==
    ASSUME IInv, NEW rows, NEW event, Commit(rows, event), Writes(rows, event),
           answers' \subseteq answers \union {event}
    PROVE  IInv'
  <1>1. /\ revision' = revision + 1 /\ revision \in Nat
        /\ UNCHANGED <<query, shown, applied, cursor, source, covered, torn, refresh, page>>
        /\ UNCHANGED <<seen, awaited, missed>> /\ unheard' = unheard \union {event}
    BY DEF Commit, list, news, IInv, ServerType
  <1>2. ASSUME NEW t \in Tasks
        PROVE  /\ db'[t] = IF t \in DOMAIN rows THEN rows[t] ELSE db[t]
               /\ t \in DOMAIN rows => db'[t].since = revision + 1
               /\ t \notin DOMAIN rows => db'[t] = db[t] /\ Row(t)' = Row(t)
               /\ db[t].since <= revision /\ db[t].since \in Nat
               /\ db[t].since <= db'[t].since
               /\ db'[t].since <= revision => db'[t] = db[t] /\ Row(t)' = Row(t)
    <2>1. db'[t] = IF t \in DOMAIN rows THEN rows[t] ELSE db[t]
      BY DEF Commit
    <2>2. db[t].since <= revision /\ db[t].since \in Nat
      BY DEF IInv, ServerType
    <2>3. t \notin DOMAIN rows => db'[t] = db[t] /\ Row(t)' = Row(t)
      BY <2>1 DEF Row
    <2>4. t \in DOMAIN rows => db'[t].since = revision + 1
      BY <2>1 DEF Writes
    <2>. QED
      BY <1>1, <2>1, <2>2, <2>3, <2>4
  <1>3. ServerType'
    <2>1. db' \in [Tasks -> [place : Queries \union {None}, since : Nat]]
      BY DEF Commit, Writes, IInv, ServerType
    <2>2. \A t \in Tasks : db'[t].since <= revision'
      BY <1>1, <1>2
    <2>3. event \in TaskEvents /\ unheard \subseteq TaskEvents /\ answers \subseteq TaskEvents
          /\ seen \in Nat /\ seen <= revision
      BY DEF Writes, IInv, ServerType
    <2>. QED
      BY <1>1, <2>1, <2>2, <2>3 DEF ServerType
  <1>4. Arriving' \subseteq Arriving \union {event} /\ Untold' = Untold \union {revision + 1}
    BY <1>1 DEF Arriving, Untold, Writes
  <1>5. ListType' /\ RequestType' /\ NewsType'
    <2>1. ListType' /\ RequestType'
      BY <1>1 DEF IInv, ListType, RequestType
    <2>2. awaited \subseteq 0..revision /\ missed \subseteq 0..revision
      BY DEF IInv, NewsType
    <2>3. awaited' \subseteq 0..revision' /\ missed' \subseteq 0..revision'
      BY <1>1, <2>2
    <2>. QED
      BY <1>1, <2>1, <2>3 DEF IInv, NewsType
  <1>6. EventsTrue'
    <2>1. ASSUME NEW e \in Arriving
          PROVE  /\ e.revision \in 1..revision'
                 /\ e.kind = "patch" => e.row.since = e.revision
                 /\ \A t \in Tasks : db'[t].since = e.revision => Speaks(e, t)'
      <3>1. e.revision \in 1..revision /\ (e.kind = "patch" => e.row.since = e.revision)
        BY DEF IInv, EventsTrue
      <3>2. ASSUME NEW t \in Tasks, db'[t].since = e.revision PROVE Speaks(e, t)'
        <4>1. db'[t].since <= revision
          BY <1>1, <3>1, <3>2
        <4>2. db'[t] = db[t] /\ Row(t)' = Row(t)
          BY <1>2, <4>1
        <4>3. Speaks(e, t)
          BY <3>2, <4>2 DEF IInv, EventsTrue
        <4>. QED
          BY <4>2, <4>3 DEF Speaks
      <3>. QED
        BY <1>1, <3>1, <3>2
    <2>2. /\ event.revision \in 1..revision'
          /\ event.kind = "patch" => event.row.since = event.revision
      BY <1>1 DEF Writes
    <2>3. ASSUME NEW t \in Tasks, db'[t].since = event.revision PROVE Speaks(event, t)'
      <3>1. t \in DOMAIN rows
        BY <1>1, <1>2, <2>3 DEF Writes
      <3>2. CASE event.kind = "resync"
        BY <3>2 DEF Speaks
      <3>3. CASE event.kind = "patch"
        <4>1. event.row \in Rows /\ event.row.task = t /\ event.row.place = rows[t].place
              /\ event.row.since = rows[t].since
          BY <3>1, <3>3 DEF Writes, TaskEvents
        <4>2. event.row = Row(t)'
          BY <1>2, <3>1, <4>1 DEF Row, Rows
        <4>. QED
          BY <3>3, <4>2 DEF Speaks
      <3>. QED
        BY <3>1, <3>2, <3>3 DEF Writes
    <2>. QED
      BY <1>4, <2>1, <2>2, <2>3 DEF EventsTrue
  <1>7. Replies' = Replies
    BY <1>1 DEF Replies
  <1>8. \A reply \in Replies : reply.snapshot.revision <= revision
                               /\ reply.snapshot.revision \in Nat
    <2>1. ASSUME NEW reply \in Replies PROVE reply.snapshot \in Snapshots
      BY Stages DEF Replies, IInv, RequestType
    <2>. QED
      BY <2>1 DEF IInv, RepliesTrue, Snapshots
  <1>9. \A r \in Copies : r.task \in Tasks /\ r.since \in Nat
    <2>1. ASSUME NEW reply \in Replies PROVE reply.snapshot.rows \subseteq Rows
      BY Stages DEF Replies, IInv, RequestType, Snapshots
    <2>2. \A e \in Arriving : e.kind = "patch" => e.row \in Rows
      BY DEF Arriving, IInv, ServerType, TaskEvents
    <2>3. Copies \subseteq Rows
      BY <2>1, <2>2 DEF Copies, IInv, ListType
    <2>. QED
      BY <2>3 DEF Rows
  <1>10. CopiesOld'
    <2>1. ASSUME NEW r \in Copies'
          PROVE  r \in Copies \/ (/\ event.kind = "patch" /\ r = event.row
                                  /\ r.since = revision + 1 /\ r.task \in DOMAIN rows)
      <3>1. CASE \E e \in Arriving' : e.kind = "patch" /\ r = e.row
        BY <1>4, <3>1 DEF Copies, Writes
      <3>2. CASE r \in shown
        BY <3>2 DEF Copies
      <3>3. CASE \E reply \in Replies : r \in reply.snapshot.rows
        BY <3>3 DEF Copies
      <3>. QED
        BY <1>1, <1>7, <2>1, <3>1, <3>2, <3>3 DEF Copies
    <2>2. \A r \in Copies' : r.since <= db'[r.task].since
      <3>1. \A r \in Copies : r.since <= db'[r.task].since
        <4>1. \A r \in Copies : r.since <= db[r.task].since
          BY DEF IInv, CopiesOld
        <4>2. \A r \in Copies : db[r.task].since <= db'[r.task].since
                /\ db'[r.task].since \in Nat /\ db[r.task].since \in Nat
          BY <1>1, <1>2, <1>9
        <4>. QED
          BY <1>9, <4>1, <4>2
      <3>2. ASSUME NEW r, r.since = revision + 1, r.task \in DOMAIN rows
            PROVE  r.since <= db'[r.task].since
        BY <1>1, <1>2, <3>2 DEF Writes
      <3>. QED
        BY <2>1, <3>1, <3>2
    <2>3. \A r \in shown' : r.since <= applied'
      BY <1>1 DEF IInv, CopiesOld
    <2>4. ASSUME NEW reply \in Replies, NEW r \in Copies', NEW s \in reply.snapshot.rows,
                 s.task = r.task, r.since <= reply.snapshot.revision
          PROVE  r.since <= s.since
      <3>1. r \in Copies
        BY <1>1, <1>8, <2>1, <2>4
      <3>. QED
        BY <2>4, <3>1 DEF IInv, CopiesOld
    <2>. QED
      BY <1>7, <2>2, <2>3, <2>4 DEF CopiesOld
  <1>11. RepliesTrue'
    <2>1. ASSUME NEW reply \in Replies, NEW t \in Tasks, db'[t].since <= reply.snapshot.revision
          PROVE  db'[t] = db[t] /\ Row(t)' = Row(t)
      BY <1>1, <1>2, <1>8, <2>1
    <2>2. ASSUME NEW reply \in Replies, NEW t \in Tasks,
                 Within(t, reply.after, reply.snapshot.cursor),
                 db'[t].since <= reply.snapshot.revision
          PROVE  Agrees(reply.snapshot.rows, reply.query, t)'
      <3>1. Agrees(reply.snapshot.rows, reply.query, t)
        BY <2>1, <2>2 DEF IInv, RepliesTrue
      <3>. QED
        BY <2>1, <2>2, <3>1 DEF Agrees
    <2>3. ASSUME NEW reply \in Replies
          PROVE  /\ reply.snapshot.revision <= revision'
                 /\ OnePerTask(reply.snapshot.rows)
                 /\ \A r \in reply.snapshot.rows :
                       r.place = reply.query /\ r.since <= reply.snapshot.revision
                 /\ reply.snapshot.cursor # None => reply.snapshot.cursor > reply.after
                 /\ \A t \in Tasks : ~Within(t, reply.after, reply.snapshot.cursor) =>
                       \A r \in reply.snapshot.rows : r.task # t
      BY <1>1, <1>8 DEF IInv, RepliesTrue
    <2>. QED
      BY <1>7, <2>2, <2>3 DEF RepliesTrue
  <1>12. ListTrue'
    <2> SUFFICES ASSUME ~torn
                 PROVE  /\ \A r \in shown : r.place = source
                        /\ \A t \in Tasks :
                              IF Within(t, 0, cursor)
                              THEN Agrees(shown, source, t)' \/ ToldBy(t, covered)'
                              ELSE \A r \in shown : r.task # t
      BY <1>1 DEF ListTrue
    <2>1. /\ \A r \in shown : r.place = source
          /\ \A t \in Tasks :
                IF Within(t, 0, cursor) THEN Agrees(shown, source, t) \/ ToldBy(t, covered)
                ELSE \A r \in shown : r.task # t
      BY DEF IInv, ListTrue
    <2>2. ASSUME NEW t \in Tasks, t \in DOMAIN rows PROVE ToldBy(t, covered)'
      <3>1. db'[t].since = revision + 1 /\ db'[t].since > covered
        BY <1>1, <1>2, <2>2 DEF Writes, IInv, ListType
      <3>. QED
        BY <1>1, <1>4, <3>1 DEF ToldBy, Pending
    <2>3. ASSUME NEW t \in Tasks, t \notin DOMAIN rows
          PROVE  /\ Agrees(shown, source, t) => Agrees(shown, source, t)'
                 /\ ToldBy(t, covered) => ToldBy(t, covered)'
      <3>1. db'[t] = db[t] /\ Row(t)' = Row(t)
        BY <1>2, <2>3
      <3>2. Agrees(shown, source, t) => Agrees(shown, source, t)'
        BY <1>1, <3>1 DEF Agrees
      <3>3. ToldBy(t, covered) => ToldBy(t, covered)'
        BY <1>1, <1>4, <3>1 DEF ToldBy, Pending
      <3>. QED
        BY <3>2, <3>3
    <2>. QED
      BY <2>1, <2>2, <2>3
  <1>13. RefreshTrue'
    <2> SUFFICES ASSUME refresh.request.stage = "answered",
                        ~(applied > refresh.request.snapshot.revision)
                 PROVE  \A r \in (refresh.request.snapshot.revision + 1)..(revision + 1) :
                            r \in Untold \union {revision + 1} \union awaited
      BY <1>1, <1>4 DEF RefreshTrue
    <2>1. \A r \in (refresh.request.snapshot.revision + 1)..revision :
             r \in Untold \union awaited
      BY DEF IInv, RefreshTrue
    <2>2. refresh.request.snapshot.revision \in Nat
      BY <1>8 DEF Replies
    <2>. QED
      BY <1>1, <2>1, <2>2
  <1>14. PageTrue'
    <2> SUFFICES ASSUME page.stage = "answered",
                        NEW r \in (page.snapshot.revision + 1)..(revision + 1)
                 PROVE  r \in Pending \union {revision + 1} \/ applied >= r
      BY <1>1, <1>4 DEF PageTrue, Pending
    <2>1. page.snapshot.revision \in Nat
      BY <1>8 DEF Replies
    <2>2. r = revision + 1 \/ r \in (page.snapshot.revision + 1)..revision
      BY <1>1, <2>1
    <2>. QED
      BY <2>2 DEF IInv, PageTrue
  <1>. QED
    BY <1>3, <1>5, <1>6, <1>10, <1>11, <1>12, <1>13, <1>14 DEF IInv

LEMMA ServerPreserves == IInv /\ (PatchTask \/ Resync \/ Other) => IInv'
  <1>1. ASSUME IInv, NEW t \in Tasks, NEW place \in Queries \union {None},
               NEW event, event.revision = revision + 1, Commit(Put(t, place), event),
               Answers(event), event \in TaskEvents,
               \/ event.kind = "resync"
               \/ /\ event.kind = "patch"
                  /\ event.row = [task |-> t, place |-> place, since |-> revision + 1]
        PROVE  IInv'
    <2>1. revision + 1 \in Nat
      BY <1>1 DEF IInv, ServerType
    <2>2. /\ DOMAIN Put(t, place) = {t}
          /\ Put(t, place)[t] = [place |-> place, since |-> revision + 1]
      BY DEF Put
    <2>3. Writes(Put(t, place), event)
      BY <1>1, <2>1, <2>2 DEF Writes
    <2>4. answers' \subseteq answers \union {event}
      BY <1>1 DEF Answers
    <2>. QED
      BY <1>1, <2>3, <2>4, CommitPreserves
  <1>2. ASSUME IInv PROVE revision + 1 \in Nat
    BY <1>2 DEF IInv, ServerType
  <1>3. ASSUME IInv, PatchTask PROVE IInv'
    <2>1. PICK t \in Tasks, place \in Queries :
            LET event == Event("patch", [task |-> t, place |-> place, since |-> revision + 1])
            IN  Commit(Put(t, place), event) /\ Answers(event)
      BY <1>3 DEF PatchTask
    <2> DEFINE event == Event("patch", [task |-> t, place |-> place, since |-> revision + 1])
    <2>2. /\ event \in TaskEvents /\ event.kind = "patch" /\ event.revision = revision + 1
          /\ event.row = [task |-> t, place |-> place, since |-> revision + 1]
      BY <1>2, <1>3 DEF Event, TaskEvents, Rows
    <2>3. Commit(Put(t, place), event) /\ Answers(event)
      BY <2>1
    <2> HIDE DEF event
    <2>. QED
      BY <1>1, <1>3, <2>2, <2>3
  <1>4. ASSUME IInv, Resync PROVE IInv'
    <2>1. PICK t \in Tasks, place \in Queries \union {None} :
            LET event == Event("resync", None)
            IN  Commit(Put(t, place), event) /\ Answers(event)
      BY <1>4 DEF Resync
    <2> DEFINE event == Event("resync", None)
    <2>2. event \in TaskEvents /\ event.kind = "resync" /\ event.revision = revision + 1
      BY <1>2, <1>4 DEF Event, TaskEvents
    <2>3. Commit(Put(t, place), event) /\ Answers(event)
      BY <2>1
    <2> HIDE DEF event
    <2>. QED
      BY <1>1, <1>4, <2>2, <2>3
  <1>5. ASSUME IInv, Other PROVE IInv'
    <2> DEFINE event == Event("other", None)
    <2>1. /\ event \in TaskEvents /\ event.kind = "other" /\ event.revision = revision + 1
          /\ Commit(<<>>, event) /\ answers' \subseteq answers \union {event}
      BY <1>2, <1>5 DEF Event, TaskEvents, Other
    <2> HIDE DEF event
    <2>2. Writes(<<>>, event)
      BY <2>1 DEF Writes
    <2>. QED
      BY <1>5, <2>1, <2>2, CommitPreserves
  <1>. QED
    BY <1>3, <1>4, <1>5

-----------------------------------------------------------------------------
(***************************************************************************)
(* Steps of the browser: the server stays, nothing new is under way.       *)
(***************************************************************************)

LEMMA CopiesTyped == ServerType /\ ListType /\ RequestType => Copies \subseteq Rows
  <1> SUFFICES ASSUME ServerType, ListType, RequestType PROVE Copies \subseteq Rows
    OBVIOUS
  <1>1. ASSUME NEW reply \in Replies PROVE reply.snapshot.rows \subseteq Rows
    BY Stages DEF Replies, RequestType, Snapshots
  <1>2. \A e \in Arriving : e.kind = "patch" => e.row \in Rows
    BY DEF Arriving, ServerType, TaskEvents
  <1>. QED
    BY <1>1, <1>2 DEF Copies, ListType

LEMMA StillTrue ==
    ASSUME IInv, UNCHANGED server, unheard' \subseteq unheard, answers' \subseteq answers,
           seen' \in 0..revision, Replies' \subseteq Replies,
           shown' \subseteq Copies, \A r \in shown' : r.since <= applied'
    PROVE  ServerType' /\ EventsTrue' /\ CopiesOld' /\ RepliesTrue'
  <1>1. ServerType'
    BY DEF server, IInv, ServerType
  <1>2. Arriving' \subseteq Arriving
    BY DEF Arriving
  <1>3. EventsTrue'
    BY <1>2 DEF server, IInv, EventsTrue, Speaks, Row
  <1>4. Copies' \subseteq Copies
    <2>1. {event.row : event \in {e \in Arriving' : e.kind = "patch"}} \subseteq Copies
      BY <1>2 DEF Copies
    <2>2. UNION {reply.snapshot.rows : reply \in Replies'} \subseteq Copies
      BY DEF Copies
    <2>. QED
      BY <2>1, <2>2 DEF Copies
  <1>5. CopiesOld'
    BY <1>4 DEF server, IInv, CopiesOld
  <1>6. RepliesTrue'
    BY DEF server, IInv, RepliesTrue, Agrees, Row
  <1>. QED
    BY <1>1, <1>3, <1>5, <1>6

\* A list that stays as it is lacks nothing more when the news it loses is awaited.
LEMMA SameList ==
    ASSUME IInv, UNCHANGED <<server, list, page>>, Pending \subseteq Pending'
    PROVE  ListTrue' /\ PageTrue'
  <1>1. \A t \in Tasks : \A r : ToldBy(t, r) => ToldBy(t, r)'
    BY DEF ToldBy, server
  <1>2. \A t \in Tasks : Agrees(shown, source, t) => Agrees(shown, source, t)'
    BY DEF Agrees, server, list, Row
  <1>3. ListTrue'
    BY <1>1, <1>2 DEF IInv, ListTrue, list, Within
  <1>4. PageTrue'
    BY DEF IInv, PageTrue, list, server
  <1>. QED
    BY <1>3, <1>4

\* A refresh that is asked for is read after, and is to bring, what has been committed.
LEMMA AskRenews ==
    ASSUME IInv, NEW q \in Queries, refresh' = Ask(q), UNCHANGED <<server, page>>,
           awaited \subseteq awaited', awaited' \subseteq 0..revision, missed' \subseteq missed,
           \/ applied' = applied /\ Untold \subseteq Untold' \union awaited'
           \/ awaited' = 0..revision /\ missed' = {}
    PROVE  /\ RequestType' /\ NewsType' /\ RefreshTrue' /\ Replies' \subseteq Replies
           /\ refresh'.request # Rest
  <1>1. Asked(q, 0) \in Requests /\ Asked(q, 0) # Rest /\ Asked(q, 0).stage = "asked"
        /\ Asked(q, 0).after = 0
    BY DEF Asked, Requests, Rest
  <1>2. refresh \in [request : Requests, queued : BOOLEAN]
        /\ (refresh.request # Rest => refresh.request.after = 0)
    BY DEF IInv, RequestType
  <1>3. /\ refresh' \in [request : Requests, queued : BOOLEAN]
        /\ refresh'.request # Rest /\ refresh'.request.after = 0
        /\ refresh'.request.stage = "answered" => refresh'.request = refresh.request
                                                  /\ refresh'.queued
    <2>1. CASE refresh.request = Rest
      <3>1. refresh'.request = Asked(q, 0) /\ refresh'.queued = FALSE
            /\ refresh' = [request |-> Asked(q, 0), queued |-> FALSE]
        BY <2>1 DEF Ask, Coalescer
      <3>. QED
        BY <1>1, <3>1
    <2>2. CASE refresh.request # Rest
      <3>1. refresh'.request = refresh.request /\ refresh'.queued
            /\ refresh' \in [request : Requests, queued : BOOLEAN]
        BY <1>2, <2>2 DEF Ask
      <3>. QED
        BY <1>2, <2>2, <3>1
    <2>. QED
      BY <2>1, <2>2
  <1>4. RequestType'
    BY <1>3 DEF IInv, RequestType
  <1>5. revision' = revision /\ revision \in Nat
    BY DEF server, IInv, ServerType
  <1>6. refresh.request.stage = "answered" => refresh.request.snapshot.revision \in Nat
    BY Stages DEF IInv, RequestType, Snapshots
  <1>7. NewsType'
    <2>1. awaited' \subseteq 0..revision' /\ missed' \subseteq 0..revision'
      BY <1>5 DEF IInv, NewsType
    <2>2. ASSUME refresh'.request.stage = "answered", NEW r \in missed'
          PROVE  r < applied' \/ r <= refresh'.request.snapshot.revision
      <3>1. refresh'.request = refresh.request /\ refresh.request.stage = "answered"
        BY <1>3, <2>2
      <3>2. applied' = applied /\ r \in missed
        BY <2>2
      <3>. QED
        BY <3>1, <3>2 DEF IInv, NewsType
    <2>. QED
      BY <1>3, <2>1, <2>2 DEF NewsType
  <1>8. RefreshTrue'
    <2> SUFFICES ASSUME refresh.request.stage = "answered", refresh'.request = refresh.request,
                        ~(applied' > refresh.request.snapshot.revision),
                        NEW r \in (refresh.request.snapshot.revision + 1)..revision
                 PROVE  r \in Untold' \union awaited'
      BY <1>3, <1>5 DEF RefreshTrue
    <2>1. CASE awaited' = 0..revision
      BY <1>5, <1>6, <2>1
    <2>2. CASE applied' = applied /\ Untold \subseteq Untold' \union awaited'
      BY <2>2 DEF IInv, RefreshTrue
    <2>. QED
      BY <2>1, <2>2
  <1>9. Replies' \subseteq Replies
    BY <1>3 DEF Replies
  <1>. QED
    BY <1>3, <1>4, <1>7, <1>8, <1>9

\* An event reaches the list: it is dropped, asks for a refresh, or is applied.
LEMMA ApplyPreserves ==
    ASSUME IInv, NEW event \in Arriving, ApplyEvent(event), UNCHANGED <<server, query, page>>,
           unheard' \subseteq unheard, answers' \subseteq answers, seen' \in 0..revision,
           unheard \subseteq unheard' \union {event}
    PROVE  IInv'
  <1> DEFINE known == event.kind = "patch" /\ \E r \in shown : r.task = event.row.task
             refreshes ==
                \/ event.kind = "resync"
                \/ event.kind = "patch" /\ ~known
                \/ known /\ \E r \in shown :
                      r.task = event.row.task /\ MembershipChanged(r, event.row)
  <1>1. /\ event \in TaskEvents /\ event.revision \in 1..revision
        /\ event.kind = "patch" => event.row \in Rows /\ event.row.since = event.revision
        /\ \A t \in Tasks : db[t].since = event.revision => Speaks(event, t)
    <2>1. event \in TaskEvents
      BY DEF Arriving, IInv, ServerType
    <2>. QED
      BY <2>1 DEF IInv, EventsTrue, TaskEvents
  <1>2. /\ revision \in Nat /\ applied \in Nat /\ covered \in Int /\ event.revision \in Nat
        /\ -1 <= covered /\ covered <= applied /\ applied <= revision
        /\ query \in Queries /\ source \in Queries
        /\ shown \subseteq Rows /\ shown \subseteq Copies /\ OnePerTask(shown)
        /\ \A r \in shown : r.since <= applied
        /\ cursor \in Tasks \union {None} /\ torn \in BOOLEAN
        /\ awaited \subseteq 0..revision /\ missed \subseteq 0..revision
    BY <1>1 DEF IInv, ServerType, ListType, NewsType, TaskEvents, Copies, CopiesOld
  <1>11. event.revision \in 0..revision
    <2>1. event.revision \in 1..revision
      BY <1>1
    <2>. QED
      BY <2>1
  <1>3. Untold \subseteq Untold' \union {event.revision}
    BY DEF Untold
  <1>4. revision' = revision
    BY DEF server
  <1>5. ASSUME UNCHANGED refresh PROVE RequestType' /\ Replies' = Replies
    BY <1>5 DEF IInv, RequestType, Replies
  <1>6. /\ refresh.request.stage = "answered" => refresh.request.snapshot.revision \in Nat
        /\ page.stage = "answered" => page.snapshot.revision \in Nat
    BY Stages DEF IInv, RequestType, Snapshots
  <1>7. ASSUME UNCHANGED <<refresh, awaited>>, applied' \in Nat, applied' >= applied,
               applied' >= event.revision
        PROVE  RefreshTrue'
    <2>1. ASSUME refresh.request.stage = "answered",
                 ~(applied' > refresh.request.snapshot.revision),
                 NEW r \in (refresh.request.snapshot.revision + 1)..revision
          PROVE  r \in Untold' \union awaited
      <3>1. ~(applied > refresh.request.snapshot.revision)
        BY <1>2, <1>6, <1>7, <2>1
      <3>2. r \in Untold \union awaited
        BY <2>1, <3>1 DEF IInv, RefreshTrue
      <3>3. r # event.revision
        BY <1>2, <1>6, <1>7, <2>1
      <3>. QED
        BY <1>3, <3>2, <3>3
    <2>. QED
      BY <1>4, <1>7, <2>1 DEF RefreshTrue
  <1>8. CASE event.revision < applied
    <2>1. missed' = missed \union {event.revision} /\ UNCHANGED <<list, refresh, awaited>>
      BY <1>8 DEF ApplyEvent
    <2>2. ListType' /\ RequestType'
      BY <1>2, <1>4, <1>5, <2>1 DEF ListType, list
    <2>3. ServerType' /\ EventsTrue' /\ CopiesOld' /\ RepliesTrue'
      BY <1>2, <1>5, <2>1, StillTrue DEF list
    <2>4. RefreshTrue'
      BY <1>2, <1>7, <1>8, <2>1 DEF list
    <2>5. NewsType'
      <3>1. missed' \subseteq 0..revision
        BY ONLY <1>2, <1>11, <2>1
      <3>. QED
        BY <1>2, <1>4, <1>8, <2>1, <3>1 DEF IInv, NewsType, list
    <2>6. ListTrue' /\ PageTrue'
      <3>1. Pending \subseteq Pending'
        BY <1>3, <2>1 DEF Pending
      <3>. QED
        BY <2>1, <3>1, SameList
    <2>. QED
      BY <2>2, <2>3, <2>4, <2>5, <2>6 DEF IInv
  <1>9. CASE ~(event.revision < applied) /\ refreshes
    <2>1. /\ refresh' = Ask(query) /\ awaited' = awaited \union {event.revision}
          /\ UNCHANGED <<list, missed>>
      BY <1>9 DEF ApplyEvent
    <2>2. /\ RequestType' /\ NewsType' /\ RefreshTrue' /\ Replies' \subseteq Replies
      <3>1. awaited' \subseteq 0..revision /\ Untold \subseteq Untold' \union awaited'
        BY ONLY <1>2, <1>3, <1>11, <2>1
      <3>. QED
        BY <1>2, <2>1, <3>1, AskRenews DEF list
    <2>3. ListTrue' /\ PageTrue'
      <3>1. Pending \subseteq Pending'
        BY <1>3, <2>1 DEF Pending
      <3>. QED
        BY <2>1, <3>1, SameList
    <2>4. ListType'
      BY <1>2, <1>4, <2>1 DEF ListType, list
    <2>5. ServerType' /\ EventsTrue' /\ CopiesOld' /\ RepliesTrue'
      BY <1>2, <2>1, <2>2, StillTrue DEF list
    <2>. QED
      BY <2>2, <2>3, <2>4, <2>5 DEF IInv
  <1>10. CASE ~(event.revision < applied) /\ ~refreshes
    <2>1. /\ shown' = IF known THEN Patched(event.row) ELSE shown
          /\ applied' = event.revision
          /\ UNCHANGED <<cursor, source, covered, torn, refresh, awaited, missed>>
      BY <1>10 DEF ApplyEvent, news
    <2>2. applied' \in Nat /\ applied' >= applied /\ applied' <= revision
      BY <1>1, <1>2, <1>10, <2>1
    <2>3. known => event.row \in Copies /\ event.row \in Rows
      BY <1>1 DEF Copies
    <2>4. /\ shown' \subseteq Rows /\ shown' \subseteq Copies
          /\ \A r \in shown' : r.since <= applied'
      <3>1. \A r \in shown : r.since \in Nat /\ r.since <= applied'
        BY <1>2, <2>2 DEF Rows
      <3>2. known => event.row.since <= applied'
        BY <1>1, <1>2, <2>1
      <3>. QED
        BY <1>2, <2>1, <2>3, <3>1, <3>2 DEF Patched
    <2>5. ListType'
      <3>1. OnePerTask(shown')
        BY <1>2, <2>1 DEF OnePerTask, Patched
      <3>. QED
        BY <1>2, <2>1, <2>2, <2>4, <3>1 DEF ListType, server
    <2>6. ServerType' /\ EventsTrue' /\ CopiesOld' /\ RepliesTrue'
      BY <1>5, <2>1, <2>4, StillTrue
    <2>7. RefreshTrue'
      BY <1>2, <1>7, <2>1, <2>2
    <2>8. NewsType'
      BY <1>2, <1>4, <1>6, <2>1, <2>2 DEF IInv, NewsType
    <2>9. PageTrue'
      <3>1. ASSUME page.stage = "answered", NEW r \in (page.snapshot.revision + 1)..revision
            PROVE  r \in Pending' \/ applied' >= r
        <4>1. r \in Pending \/ applied >= r
          BY <3>1 DEF IInv, PageTrue
        <4>2. r \in Nat
          BY <1>2, <1>6, <3>1
        <4>3. applied >= r => applied' >= r
          BY <1>2, <2>2, <4>2
        <4>4. r = event.revision => applied' >= r
          BY <1>2, <2>1
        <4>. QED
          BY <1>3, <2>1, <4>1, <4>3, <4>4 DEF Pending
      <3>. QED
        BY <1>4, <3>1 DEF PageTrue
    <2>10. ListTrue'
      <3> SUFFICES ASSUME ~torn
                   PROVE  /\ \A r \in shown' : r.place = source
                          /\ \A t \in Tasks :
                                IF Within(t, 0, cursor)
                                THEN Agrees(shown, source, t)' \/ ToldBy(t, covered)'
                                ELSE \A r \in shown' : r.task # t
        BY <2>1 DEF ListTrue
      <3>1. /\ \A r \in shown : r.place = source
            /\ \A t \in Tasks :
                  IF Within(t, 0, cursor) THEN Agrees(shown, source, t) \/ ToldBy(t, covered)
                  ELSE \A r \in shown : r.task # t
        BY DEF IInv, ListTrue
      <3>2. known => event.row.place = source
        BY <1>10, <3>1 DEF MembershipChanged
      <3>3. \A r \in shown' : r.place = source
        BY <2>1, <3>1, <3>2 DEF Patched
      <3>9. ASSUME NEW t \in Tasks, ToldBy(t, covered), db[t].since # event.revision
            PROVE  ToldBy(t, covered)'
        BY <1>3, <2>1, <3>9 DEF ToldBy, Pending, server
      <3>4. ASSUME NEW t \in Tasks, ~known \/ t # event.row.task
            PROVE  IF Within(t, 0, cursor)
                   THEN Agrees(shown, source, t)' \/ ToldBy(t, covered)'
                   ELSE \A r \in shown' : r.task # t
        <4>1. \A r : r.task = t => (r \in shown' <=> r \in shown)
          BY <2>1, <3>4 DEF Patched
        <4>2. Agrees(shown, source, t) => Agrees(shown, source, t)'
          BY <2>1, <4>1 DEF Agrees, server, Row
        <4>3. ~Speaks(event, t)
          <5>1. event.kind = "patch" => known
            BY <1>10
          <5>2. event.row = Row(t) => event.row.task = t
            BY DEF Row
          <5>. QED
            BY <1>10, <3>4, <5>1, <5>2 DEF Speaks
        <4>4. ToldBy(t, covered) => ToldBy(t, covered)'
          BY <1>1, <3>9, <4>3
        <4>. QED
          BY <3>1, <4>1, <4>2, <4>4
      <3>5. ASSUME known
            PROVE  LET t == event.row.task
                   IN  Within(t, 0, cursor) /\ (Agrees(shown, source, t)' \/ ToldBy(t, covered)')
        <4> DEFINE t == event.row.task
        <4>1. t \in Tasks /\ event.row \in Rows
          BY <1>1, <3>5 DEF Rows
        <4>2. PICK old \in shown : old.task = t
          BY <3>5
        <4>3. Within(t, 0, cursor)
          BY <3>1, <4>1, <4>2
        <4>4. {r \in shown' : r.task = t} = {event.row}
          BY <2>1, <3>5 DEF Patched
        <4>5. CASE db[t].since = event.revision
          <5>1. event.row = Row(t)
            BY <1>1, <1>10, <3>5, <4>1, <4>5 DEF Speaks
          <5>2. db[t].place = source
            BY <3>2, <3>5, <5>1 DEF Row
          <5>. QED
            BY <2>1, <4>3, <4>4, <5>1, <5>2 DEF Agrees, server, Row
        <4>6. CASE db[t].since # event.revision
          <5>1. ~Agrees(shown, source, t)
            <6>1. SUFFICES ASSUME Agrees(shown, source, t) PROVE FALSE
              OBVIOUS
            <6>2. old = Row(t)
              BY <4>2, <6>1 DEF Agrees
            <6>3. db[t].since <= applied
              BY <1>2, <6>2 DEF Row
            <6>4. event.revision <= db[t].since
              BY <1>1, <2>3, <3>5 DEF IInv, CopiesOld
            <6>5. db[t].since \in Nat
              BY <4>1 DEF IInv, ServerType
            <6>. QED
              BY <1>2, <1>10, <4>6, <6>3, <6>4, <6>5
          <5>2. ToldBy(t, covered)
            BY <3>1, <4>1, <4>3, <5>1
          <5>. QED
            BY <3>9, <4>1, <4>3, <4>6, <5>2
        <4>. QED
          BY <4>5, <4>6
      <3>. QED
        BY <3>3, <3>4, <3>5
    <2>. QED
      BY <1>5, <2>1, <2>5, <2>6, <2>7, <2>8, <2>9, <2>10 DEF IInv
  <1>. QED
    BY <1>8, <1>9, <1>10

LEMMA DeliverPreserves == IInv /\ Deliver => IInv'
  <1> SUFFICES ASSUME IInv, Deliver PROVE IInv'
    OBVIOUS
  <1>1. PICK event \in unheard :
            /\ seen' = event.revision /\ unheard' = unheard \ {event} /\ ApplyEvent(event)
            /\ UNCHANGED <<server, answers, query, page>>
    BY DEF Deliver
  <1>2. event \in Arriving /\ seen' \in 0..revision
    BY <1>1 DEF Arriving, IInv, EventsTrue, ServerType
  <1>. QED
    BY <1>1, <1>2, ApplyPreserves

LEMMA OwnAnswerPreserves == IInv /\ OwnAnswer => IInv'
  <1> SUFFICES ASSUME IInv, OwnAnswer PROVE IInv'
    OBVIOUS
  <1>1. PICK event \in answers :
            /\ answers' = answers \ {event} /\ ApplyEvent(event)
            /\ UNCHANGED <<server, unheard, seen, query, page>>
    BY DEF OwnAnswer
  <1>2. event \in Arriving /\ seen' \in 0..revision
    BY <1>1 DEF Arriving, IInv, ServerType
  <1>. QED
    BY <1>1, <1>2, ApplyPreserves

\* The list is to be read again, for the events that no longer come and others.
LEMMA AskPreserves ==
    ASSUME IInv, refresh' = Ask(query), UNCHANGED <<server, query, list, page, missed>>,
           unheard' \subseteq unheard, answers' \subseteq answers, seen' \in 0..revision,
           awaited \subseteq awaited', awaited' \subseteq 0..revision,
           Untold \subseteq Untold' \union awaited'
    PROVE  IInv'
  <1>1. query \in Queries
    BY DEF IInv, ListType
  <1>2. RequestType' /\ NewsType' /\ RefreshTrue' /\ Replies' \subseteq Replies
    BY <1>1, AskRenews DEF list
  <1>3. ListTrue' /\ PageTrue'
    <2>1. Pending \subseteq Pending'
      BY DEF Pending
    <2>. QED
      BY <2>1, SameList
  <1>4. shown' \subseteq Copies /\ \A r \in shown' : r.since <= applied'
    BY DEF list, Copies, IInv, CopiesOld
  <1>5. ServerType' /\ EventsTrue' /\ CopiesOld' /\ RepliesTrue'
    BY <1>2, <1>4, StillTrue
  <1>6. ListType'
    BY DEF IInv, ListType, list, server
  <1>. QED
    BY <1>2, <1>3, <1>5, <1>6 DEF IInv

LEMMA OverrunPreserves == IInv /\ (Overrun \/ AnswerLost) => IInv'
  <1> SUFFICES ASSUME IInv, Overrun \/ AnswerLost PROVE IInv'
    OBVIOUS
  <1>1. revision \in Nat /\ seen \in Nat /\ seen <= revision /\ awaited \subseteq 0..revision
    BY DEF IInv, ServerType, NewsType
  <1>2. CASE AnswerLost
    <2>1. /\ refresh' = Ask(query) /\ answers' \subseteq answers
          /\ UNCHANGED <<server, unheard, seen, query, list, page, awaited, missed>>
      BY <1>2 DEF AnswerLost, news
    <2>2. Untold \subseteq Untold' \union awaited'
      BY <2>1 DEF Untold
    <2>3. seen' \in 0..revision /\ awaited \subseteq awaited' /\ awaited' \subseteq 0..revision
      BY <1>1, <2>1
    <2>4. unheard' \subseteq unheard /\ UNCHANGED <<server, query, list, page, missed>>
      BY <2>1
    <2>. QED
      BY <2>1, <2>2, <2>3, <2>4, AskPreserves
  <1>3. CASE Overrun
    <2>1. PICK newest \in seen + 1..revision :
             /\ seen' = newest /\ unheard' = unheard \ Upto(newest) /\ refresh' = Ask(query)
             /\ awaited' = awaited \union {event.revision : event \in Upto(newest)}
             /\ UNCHANGED <<server, answers, query, list, page, missed>>
      BY <1>3 DEF Overrun
    <2>2. \A event \in unheard : event.revision \in 0..revision
      BY <1>1 DEF IInv, EventsTrue, Arriving
    <2>3. awaited' \subseteq 0..revision /\ seen' \in 0..revision
      <3>1. \A event \in Upto(newest) : event.revision \in 0..revision
        BY <2>2 DEF Upto
      <3>2. awaited' \subseteq 0..revision
        <4> HIDE DEF Upto
        <4>. QED
          BY ONLY <1>1, <2>1, <3>1
      <3>3. seen' \in 0..revision
        BY ONLY <1>1, <2>1
      <3>. QED
        BY <3>2, <3>3
    <2>4. Untold \subseteq Untold' \union awaited'
      BY <2>1 DEF Untold
    <2>. QED
      BY <2>1, <2>3, <2>4, AskPreserves
  <1>. QED
    BY <1>2, <1>3

LEMMA SwitchPreserves == IInv /\ Switch => IInv'
  <1> SUFFICES ASSUME IInv, Switch PROVE IInv'
    OBVIOUS
  <1>1. PICK q \in Queries : query' = q /\ source' = q /\ refresh' = Ask(q)
    BY DEF Switch
  <1>2. /\ shown' = {} /\ applied' = 0 /\ cursor' = None /\ covered' = -1 /\ torn' = FALSE
        /\ awaited' = 0..revision /\ missed' = {}
        /\ UNCHANGED <<server, unheard, seen, answers, page>>
    BY DEF Switch, arriving
  <1>3. revision' = revision /\ revision \in Nat /\ seen \in 0..revision
    BY <1>2 DEF server, IInv, ServerType
  <1>4. RequestType' /\ NewsType' /\ RefreshTrue' /\ Replies' \subseteq Replies
    <2>1. awaited \subseteq awaited' /\ awaited' \subseteq 0..revision
      BY <1>2 DEF IInv, NewsType
    <2>2. missed' \subseteq missed /\ UNCHANGED <<server, page>>
      BY <1>2
    <2>3. awaited' = 0..revision /\ missed' = {}
      BY <1>2
    <2>. QED
      BY <1>1, <2>1, <2>2, <2>3, AskRenews
  <1>5. ServerType' /\ EventsTrue' /\ CopiesOld' /\ RepliesTrue'
    BY <1>2, <1>3, <1>4, StillTrue
  <1>6. ListType'
    <2>1. /\ shown' \subseteq Rows /\ OnePerTask(shown')
          /\ cursor' \in Tasks \union {None} /\ torn' \in BOOLEAN
      BY <1>2 DEF OnePerTask
    <2>3. /\ applied' \in Nat /\ covered' \in Int /\ -1 <= covered' /\ covered' <= applied'
      BY <1>2
    <2>2. applied' <= revision'
      BY <1>2, <1>3
    <2>. QED
      BY <1>1, <2>1, <2>2, <2>3 DEF ListType
  <1>7. ListTrue'
    <2>1. ASSUME NEW t \in Tasks PROVE ToldBy(t, covered)'
      <3>1. db'[t].since \in 0..revision
        BY <1>2, <1>3 DEF server, IInv, ServerType
      <3>. QED
        BY <1>2, <3>1 DEF ToldBy, Pending
    <2>. QED
      BY <1>2, <2>1 DEF ListTrue
  <1>8. PageTrue'
    <2>1. ASSUME page.stage = "answered", NEW r \in (page.snapshot.revision + 1)..revision
          PROVE  r \in Pending'
      <3>1. page.snapshot.revision \in Nat
        BY <2>1, Stages DEF IInv, RequestType, Snapshots
      <3>. QED
        BY <1>2, <1>3, <2>1, <3>1 DEF Pending
    <2>. QED
      BY <1>2, <1>3, <2>1 DEF PageTrue
  <1>. QED
    BY <1>4, <1>5, <1>6, <1>7, <1>8 DEF IInv

\* An answer is read: it holds the newest rows there are.
LEMMA ReadPreserves ==
    ASSUME IInv, UNCHANGED <<server, arriving, query, list, news>>,
           NEW q \in Queries, NEW a \in Tasks \union {0}, NEW reply,
           reply.snapshot = Snapshot(q, a), reply.query = q, reply.after = a,
           Replies' \subseteq Replies \union {reply}
    PROVE  /\ ServerType' /\ EventsTrue' /\ CopiesOld' /\ RepliesTrue' /\ ListType'
           /\ reply.snapshot \in Snapshots /\ reply.snapshot.revision = revision
  <1> DEFINE snapshot == reply.snapshot
  <1>1. /\ snapshot \in Snapshots /\ snapshot.revision = revision
        /\ snapshot.cursor # None => snapshot.cursor > a
        /\ OnePerTask(snapshot.rows)
        /\ \A r \in snapshot.rows : r.task \in Tasks /\ r = Row(r.task) /\ r.place = q
        /\ \A t \in Tasks :
              IF Within(t, a, snapshot.cursor) THEN Agrees(snapshot.rows, q, t)
              ELSE \A r \in snapshot.rows : r.task # t
    BY SnapshotFacts DEF IInv
  <1> HIDE DEF snapshot
  <1>2. Arriving' = Arriving /\ shown' = shown
    BY DEF Arriving, arriving, list
  <1>3. ServerType' /\ EventsTrue' /\ ListType'
    BY <1>2 DEF IInv, ServerType, EventsTrue, ListType, server, arriving, list, Speaks, Row
  <1>4. Copies' \subseteq Copies \union snapshot.rows
    BY <1>2 DEF Copies, snapshot
  <1>5. \A t \in Tasks : db[t].since <= revision /\ db[t].since \in Nat
    BY DEF IInv, ServerType
  <1>6. \A r \in snapshot.rows : r.since = db[r.task].since
    BY <1>1 DEF Row
  <1>7. \A r \in Copies : r.task \in Tasks /\ r.since \in Nat
    BY CopiesTyped DEF IInv, Rows
  <1>8. CopiesOld'
    <2>1. \A r \in Copies' : r.since <= db'[r.task].since
      <3>1. \A r \in snapshot.rows : r.since <= db[r.task].since
        BY <1>1, <1>5, <1>6
      <3>. QED
        BY <1>4, <3>1 DEF IInv, CopiesOld, server
    <2>2. \A r \in shown' : r.since <= applied'
      BY DEF IInv, CopiesOld, list
    <2>3. ASSUME NEW other \in Replies, NEW r \in snapshot.rows, NEW s \in other.snapshot.rows,
                 s.task = r.task, r.since <= other.snapshot.revision
          PROVE  r.since <= s.since
      <3>1. r.task \in Tasks /\ db[r.task].since <= other.snapshot.revision
        BY <1>1, <1>6, <2>3
      <3>2. Agrees(other.snapshot.rows, other.query, r.task)
        BY <2>3, <3>1 DEF IInv, RepliesTrue
      <3>3. s = Row(r.task)
        BY <2>3, <3>2 DEF Agrees
      <3>. QED
        BY <1>5, <1>6, <3>1, <3>3 DEF Row
    <2>4. ASSUME NEW r \in Copies', NEW s \in snapshot.rows, s.task = r.task
          PROVE  r.since <= s.since
      BY <1>6, <2>1, <2>4 DEF server
    <2>5. \A other \in Replies, r \in Copies' : \A s \in other.snapshot.rows :
             s.task = r.task /\ r.since <= other.snapshot.revision => r.since <= s.since
      BY <1>4, <2>3 DEF IInv, CopiesOld
    <2>. QED
      BY <2>1, <2>2, <2>4, <2>5 DEF CopiesOld, snapshot
  <1>9. RepliesTrue'
    <2>1. \A r \in snapshot.rows : r.since <= snapshot.revision
      BY <1>1, <1>5, <1>6
    <2>2. \A other \in Replies :
            /\ other.snapshot.revision <= revision
            /\ other.snapshot.cursor # None => other.snapshot.cursor > other.after
            /\ OnePerTask(other.snapshot.rows)
            /\ \A r \in other.snapshot.rows :
                  r.place = other.query /\ r.since <= other.snapshot.revision
            /\ \A t \in Tasks :
                  IF Within(t, other.after, other.snapshot.cursor)
                  THEN db[t].since <= other.snapshot.revision
                          => Agrees(other.snapshot.rows, other.query, t)
                  ELSE \A r \in other.snapshot.rows : r.task # t
      BY DEF IInv, RepliesTrue
    <2>3. snapshot.revision <= revision
      BY <1>1 DEF IInv, ServerType
    <2>. QED
      BY <1>1, <2>1, <2>2, <2>3 DEF RepliesTrue, server, Agrees, Row, snapshot
  <1>. QED
    BY <1>1, <1>3, <1>8, <1>9 DEF snapshot

LEMMA ReadRefreshPreserves == IInv /\ ReadRefresh => IInv'
  <1> SUFFICES ASSUME IInv, ReadRefresh PROVE IInv'
    OBVIOUS
  <1> DEFINE request == refresh.request
             reply == Answered(request, Snapshot(request.query, 0))
  <1>1. /\ request.stage = "asked" /\ refresh' = [refresh EXCEPT !.request = reply]
        /\ UNCHANGED <<server, arriving, query, list, page, news>>
    BY DEF ReadRefresh
  <1>2. /\ request \in Requests /\ request # Rest /\ request.query \in Queries
        /\ request.after = 0 /\ refresh \in [request : Requests, queued : BOOLEAN]
    BY <1>1, Stages DEF IInv, RequestType, Rest
  <1>3. /\ reply.stage = "answered" /\ reply.query = request.query /\ reply.after = 0
        /\ reply.snapshot = Snapshot(request.query, 0)
    BY <1>2 DEF Answered
  <1>4. refresh'.request = reply /\ refresh'.queued = refresh.queued
    BY <1>1, <1>2
  <1>5. Replies' \subseteq Replies \union {reply}
    BY <1>1, <1>4 DEF Replies
  <1>6. /\ ServerType' /\ EventsTrue' /\ CopiesOld' /\ RepliesTrue' /\ ListType'
        /\ reply.snapshot \in Snapshots /\ reply.snapshot.revision = revision
    <2> HIDE DEF reply, request
    <2>. QED
      BY <1>1, <1>2, <1>3, <1>5, ReadPreserves
  <1>7. reply \in Requests /\ reply # Rest
    <2>1. reply = [stage |-> "answered", query |-> request.query, after |-> request.after,
                   snapshot |-> reply.snapshot]
      BY <1>3 DEF Answered
    <2>2. reply \in [stage : {"answered"}, query : Queries, after : Tasks \union {0},
                     snapshot : Snapshots]
      <3> HIDE DEF reply, request
      <3>. QED
        BY <1>2, <1>6, <2>1
    <2>3. reply # Rest
      BY <1>3 DEF Rest
    <2>. QED
      BY <2>2, <2>3 DEF Requests
  <1> HIDE DEF reply
  <1>8. RequestType'
    <2>1. refresh' \in [request : Requests, queued : BOOLEAN]
      BY <1>1, <1>2, <1>7
    <2>. QED
      BY <1>1, <1>3, <1>4, <1>7, <2>1 DEF IInv, RequestType
  <1>9. /\ revision' = revision /\ revision \in Nat /\ Untold' = Untold /\ Pending' = Pending
        /\ awaited' = awaited /\ missed' = missed
        /\ awaited \subseteq 0..revision /\ missed \subseteq 0..revision
    BY <1>1 DEF server, arriving, news, Untold, Pending, IInv, ServerType, NewsType
  <1>10. ListTrue' /\ PageTrue'
    BY <1>1, <1>9, SameList
  <1>11. RefreshTrue'
    BY <1>4, <1>6, <1>9 DEF RefreshTrue
  <1>12. NewsType'
    BY <1>4, <1>6, <1>7, <1>9 DEF NewsType
  <1>. QED
    BY <1>6, <1>8, <1>10, <1>11, <1>12 DEF IInv

\* Nothing but the page in flight changes.
LEMMA PageOnly ==
    ASSUME IInv, UNCHANGED <<server, arriving, query, list, refresh, news>>,
           page' \in Requests, page' # Rest => page'.after \in Tasks,
           page'.stage # "answered"
    PROVE  IInv'
  <1>1. /\ unheard' = unheard /\ answers' = answers /\ seen' \in 0..revision
        /\ Untold' = Untold /\ Pending' = Pending /\ revision' = revision
    BY DEF Untold, Pending, IInv, ServerType, arriving, news, server
  <1>2. Replies' \subseteq Replies
    BY DEF Replies
  <1>3. shown' \subseteq Copies /\ \A r \in shown' : r.since <= applied'
    BY DEF list, Copies, IInv, CopiesOld
  <1>4. ServerType' /\ EventsTrue' /\ CopiesOld' /\ RepliesTrue'
    BY <1>1, <1>2, <1>3, StillTrue
  <1>5. ListType' /\ RequestType'
    BY DEF IInv, ListType, RequestType, list, server
  <1>6. ListTrue' /\ RefreshTrue' /\ PageTrue'
    BY <1>1 DEF IInv, ListTrue, RefreshTrue, PageTrue, list, server, news, Agrees, Row, ToldBy
  <1>7. NewsType'
    BY <1>1 DEF IInv, NewsType, news, list
  <1>. QED
    BY <1>4, <1>5, <1>6, <1>7 DEF IInv

LEMMA AskPagePreserves == IInv /\ (AskPage \/ PageFails) => IInv'
  <1> SUFFICES ASSUME IInv, AskPage \/ PageFails PROVE IInv'
    OBVIOUS
  <1>1. UNCHANGED <<server, arriving, query, list, refresh, news>>
    BY DEF AskPage, PageFails
  <1>2. CASE PageFails
    <2>1. page' = Rest /\ Rest \in Requests /\ Rest.stage # "answered"
      BY <1>2 DEF PageFails, Requests, Rest
    <2>. QED
      BY <1>1, <2>1, PageOnly
  <1>3. CASE AskPage
    <2>1. page' = Asked(query, cursor) /\ query \in Queries /\ cursor \in Tasks
      BY <1>3 DEF AskPage, IInv, ListType
    <2>2. page' \in Requests /\ page'.after \in Tasks /\ page'.stage # "answered"
      BY <2>1 DEF Requests, Asked
    <2>. QED
      BY <1>1, <2>2, PageOnly
  <1>. QED
    BY <1>2, <1>3

LEMMA ReadPagePreserves == IInv /\ ReadPage => IInv'
  <1> SUFFICES ASSUME IInv, ReadPage PROVE IInv'
    OBVIOUS
  <1> DEFINE reply == Answered(page, Snapshot(page.query, page.after))
  <1>1. /\ page.stage = "asked" /\ page' = reply
        /\ UNCHANGED <<server, arriving, query, list, refresh, news>>
    BY DEF ReadPage
  <1>2. page \in Requests /\ page # Rest /\ page.query \in Queries /\ page.after \in Tasks
    BY <1>1, Stages DEF IInv, RequestType, Rest
  <1>3. /\ reply.stage = "answered" /\ reply.query = page.query /\ reply.after = page.after
        /\ reply.snapshot = Snapshot(page.query, page.after)
        /\ reply = [stage |-> "answered", query |-> page.query, after |-> page.after,
                    snapshot |-> reply.snapshot]
    BY DEF Answered
  <1> HIDE DEF reply
  <1>4. Replies' \subseteq Replies \union {reply}
    BY <1>1 DEF Replies
  <1>5. /\ ServerType' /\ EventsTrue' /\ CopiesOld' /\ RepliesTrue' /\ ListType'
        /\ reply.snapshot \in Snapshots /\ reply.snapshot.revision = revision
    BY <1>1, <1>2, <1>3, <1>4, ReadPreserves
  <1>6. reply \in Requests
    BY <1>2, <1>3, <1>5 DEF Requests
  <1>7. RequestType'
    BY <1>1, <1>2, <1>3, <1>6 DEF IInv, RequestType
  <1>8. /\ revision' = revision /\ revision \in Nat /\ Untold' = Untold /\ Pending' = Pending
    BY <1>1 DEF server, arriving, news, Untold, Pending, IInv, ServerType
  <1>9. ListTrue' /\ RefreshTrue' /\ NewsType'
    BY <1>1, <1>8 DEF IInv, ListTrue, RefreshTrue, NewsType, list, server, news, Agrees, Row,
                      ToldBy
  <1>10. PageTrue'
    BY <1>1, <1>5, <1>8 DEF PageTrue
  <1>. QED
    BY <1>5, <1>7, <1>9, <1>10 DEF IInv

\* A refresh ends, and runs again if it was asked for meanwhile.
LEMMA EndedFacts ==
    ASSUME IInv, refresh.request # Rest, refresh' = Ended
    PROVE  /\ refresh' \in [request : Requests, queued : BOOLEAN]
           /\ refresh'.request # Rest => refresh'.request.after = 0
           /\ ~refresh'.queued /\ refresh'.request.stage # "answered"
           /\ IF refresh.queued THEN refresh'.request.stage = "asked" ELSE refresh'.request = Rest
  <1>1. refresh.request.query \in Queries /\ refresh.queued \in BOOLEAN
    BY Stages DEF IInv, RequestType
  <1> DEFINE again == Asked(refresh.request.query, 0)
  <1>2. /\ again \in Requests /\ again.stage = "asked" /\ again.after = 0
        /\ Rest \in Requests /\ Rest.stage = "rest"
    BY <1>1 DEF Requests, Asked, Rest
  <1> HIDE DEF again
  <1>3. refresh' = [request |-> IF refresh.queued THEN again ELSE Rest, queued |-> FALSE]
    BY <1>1 DEF Ended, Coalescer, again
  <1>. QED
    BY <1>1, <1>2, <1>3

LEMMA EndedPreserves ==
    ASSUME IInv, refresh.request # Rest, refresh' = Ended, UNCHANGED <<server, arriving, page>>,
           shown' \subseteq Copies, \A r \in shown' : r.since <= applied',
           ListType', ListTrue', PageTrue',
           awaited' \subseteq awaited, missed' \subseteq 0..revision,
           ~refresh.queued => awaited' = {}
    PROVE  IInv'
  <1>1. /\ refresh' \in [request : Requests, queued : BOOLEAN]
        /\ refresh'.request # Rest => refresh'.request.after = 0
        /\ ~refresh'.queued /\ refresh'.request.stage # "answered"
        /\ IF refresh.queued THEN refresh'.request.stage = "asked" ELSE refresh'.request = Rest
    BY EndedFacts
  <1>2. unheard' = unheard /\ answers' = answers /\ seen' \in 0..revision /\ revision' = revision
    BY DEF IInv, ServerType, arriving, server
  <1>3. Replies' \subseteq Replies
    BY <1>1 DEF Replies
  <1>4. ServerType' /\ EventsTrue' /\ CopiesOld' /\ RepliesTrue'
    BY <1>2, <1>3, StillTrue
  <1>5. RequestType'
    BY <1>1 DEF IInv, RequestType
  <1>6. RefreshTrue'
    BY <1>1 DEF RefreshTrue
  <1>7. NewsType'
    <2>1. refresh'.request = Rest => ~refresh.queued
      BY <1>1 DEF Rest
    <2>. QED
      BY <1>1, <1>2, <2>1 DEF IInv, NewsType
  <1>. QED
    BY <1>4, <1>5, <1>6, <1>7 DEF IInv

\* A refresh in vain: what it was asked for is missed, or awaited of the next.
LEMMA InVainPreserves ==
    ASSUME IInv, refresh.request # Rest, refresh' = Ended, InVain,
           UNCHANGED <<server, arriving, query, list, page>>
    PROVE  IInv'
  <1>1. awaited \subseteq 0..revision /\ missed \subseteq 0..revision
    BY DEF IInv, NewsType
  <1>2. /\ awaited' \subseteq awaited /\ missed' \subseteq 0..revision
        /\ ~refresh.queued => awaited' = {}
        /\ awaited' \union missed' = awaited \union missed
    BY <1>1 DEF InVain, news
  <1>3. Pending \subseteq Pending'
    BY <1>2 DEF Pending, Untold, arriving
  <1>4. ListTrue' /\ PageTrue'
    BY <1>3, SameList
  <1>5. shown' \subseteq Copies /\ \A r \in shown' : r.since <= applied'
    BY DEF list, Copies, IInv, CopiesOld
  <1>6. ListType'
    BY DEF IInv, ListType, list, server
  <1>. QED
    BY <1>2, <1>4, <1>5, <1>6, EndedPreserves

LEMMA RefreshFailsPreserves == IInv /\ RefreshFails => IInv'
  BY InVainPreserves DEF RefreshFails

\* An accepted refresh shows its time, and all that came later is still to come.
LEMMA RefreshArrivesPreserves == IInv /\ RefreshArrives => IInv'
  <1> SUFFICES ASSUME IInv, RefreshArrives PROVE IInv'
    OBVIOUS
  <1> DEFINE request == refresh.request
             snapshot == request.snapshot
  <1>1. /\ request.stage = "answered" /\ refresh' = Ended
        /\ UNCHANGED <<server, arriving, query, page>>
    BY DEF RefreshArrives
  <1>2. /\ request \in Requests /\ request # Rest /\ request.after = 0
        /\ snapshot \in Snapshots /\ request \in Replies /\ request.query \in Queries
    BY <1>1, Stages DEF IInv, RequestType, Rest, Replies
  <1>3. /\ snapshot.revision \in Nat /\ snapshot.rows \subseteq Rows
        /\ snapshot.cursor \in Tasks \union {None} /\ snapshot.revision <= revision
        /\ OnePerTask(snapshot.rows)
        /\ \A r \in snapshot.rows : r.place = request.query /\ r.since <= snapshot.revision
        /\ \A t \in Tasks :
              IF Within(t, 0, snapshot.cursor)
              THEN db[t].since <= snapshot.revision => Agrees(snapshot.rows, request.query, t)
              ELSE \A r \in snapshot.rows : r.task # t
    BY <1>2 DEF Snapshots, IInv, RepliesTrue
  <1>4. /\ revision \in Nat /\ applied \in Nat /\ query \in Queries
        /\ awaited \subseteq 0..revision
    BY DEF IInv, ServerType, ListType, NewsType
  <1>5. CASE Accepts(snapshot)
    <2>1. /\ shown' = snapshot.rows /\ applied' = snapshot.revision
          /\ covered' = snapshot.revision /\ cursor' = snapshot.cursor
          /\ source' = request.query /\ torn' = FALSE
          /\ awaited' = {r \in awaited : r > snapshot.revision} /\ missed' = {}
      BY <1>5 DEF RefreshArrives
    <2>2. applied' >= applied
      BY <1>5, <2>1 DEF Accepts
    <2>3. ListType'
      <3> HIDE DEF snapshot, request
      <3>1. /\ applied' \in Nat /\ covered' \in Int /\ -1 <= covered' /\ covered' <= applied'
            /\ applied' <= revision' /\ query' \in Queries
        BY <1>1, <1>3, <1>4, <2>1 DEF server
      <3>2. /\ shown' \subseteq Rows /\ OnePerTask(shown') /\ cursor' \in Tasks \union {None}
            /\ source' \in Queries /\ torn' \in BOOLEAN
        BY <1>2, <1>3, <2>1 DEF OnePerTask
      <3>. QED
        BY <3>1, <3>2 DEF ListType
    <2>4. shown' \subseteq Copies /\ \A r \in shown' : r.since <= applied'
      BY <1>2, <1>3, <2>1 DEF Copies
    <2>5. \A r \in (snapshot.revision + 1)..revision : r \in Pending'
      <3>1. ~(applied > snapshot.revision)
        BY <1>3, <1>4, <1>5 DEF Accepts
      <3>2. \A r \in (snapshot.revision + 1)..revision : r \in Untold \union awaited
        BY <1>1, <3>1 DEF IInv, RefreshTrue
      <3>3. \A r \in (snapshot.revision + 1)..revision : r > snapshot.revision
        BY <1>3
      <3>4. Untold' = Untold
        BY <1>1 DEF Untold, arriving
      <3> HIDE DEF snapshot, request
      <3>. QED
        BY <2>1, <3>2, <3>3, <3>4 DEF Pending
    <2>6. ListTrue'
      <3>1. ASSUME NEW t \in Tasks, ~(db[t].since <= snapshot.revision)
            PROVE  ToldBy(t, covered)'
        <4>1. db[t].since \in Nat /\ db[t].since <= revision
          BY DEF IInv, ServerType
        <4>2. db[t].since \in (snapshot.revision + 1)..revision
              /\ db[t].since > snapshot.revision
          BY <1>3, <1>4, <3>1, <4>1
        <4> HIDE DEF snapshot, request
        <4>. QED
          BY <1>1, <2>1, <2>5, <4>2 DEF ToldBy, server
      <3>2. ASSUME NEW t \in Tasks
            PROVE  IF Within(t, 0, cursor')
                   THEN Agrees(shown, source, t)' \/ ToldBy(t, covered)'
                   ELSE \A r \in shown' : r.task # t
        <4>1. Agrees(snapshot.rows, request.query, t) => Agrees(shown, source, t)'
          BY <1>1, <2>1 DEF Agrees, server, Row
        <4>. QED
          BY <1>3, <2>1, <3>1, <4>1
      <3>. QED
        BY <1>3, <2>1, <3>2 DEF ListTrue
    <2>7. PageTrue'
      <3>1. ASSUME page.stage = "answered", NEW r \in (page.snapshot.revision + 1)..revision
            PROVE  r \in Pending' \/ applied' >= r
        <4>1. page.snapshot.revision \in Nat
          BY <3>1, Stages DEF IInv, RequestType, Snapshots
        <4>2. r \in (snapshot.revision + 1)..revision \/ snapshot.revision >= r
          BY <1>3, <1>4, <3>1, <4>1
        <4>. QED
          BY <2>1, <2>5, <4>2
      <3>. QED
        BY <1>1, <3>1 DEF PageTrue, server
    <2>8. awaited' \subseteq awaited /\ missed' \subseteq 0..revision
      BY <2>1
    <2>9. ~refresh.queued => awaited' = {}
      <3>1. SUFFICES ASSUME ~refresh.queued PROVE awaited' = {}
        OBVIOUS
      <3>2. \A r \in awaited : r <= snapshot.revision
        BY <1>1, <3>1 DEF IInv, NewsType
      <3>4. \A r \in awaited : r \in Nat
        BY <1>4
      <3>3. \A r \in awaited : ~(r > snapshot.revision)
        BY <1>3, <3>2, <3>4
      <3>. QED
        BY <2>1, <3>3
    <2>. QED
      BY <1>1, <1>2, <2>3, <2>4, <2>6, <2>7, <2>8, <2>9, EndedPreserves
  <1>6. CASE ~Accepts(snapshot)
    <2>1. InVain /\ UNCHANGED list
      BY <1>6 DEF RefreshArrives
    <2>. QED
      BY <1>1, <1>2, <2>1, InVainPreserves
  <1>. QED
    BY <1>5, <1>6

\* A page extends the list from where it ends; what it does not know is still to come.
LEMMA PageArrivesPreserves == IInv /\ PageArrives => IInv'
  <1> SUFFICES ASSUME IInv, PageArrives PROVE IInv'
    OBVIOUS
  <1> DEFINE snapshot == page.snapshot
             new == {r.task : r \in snapshot.rows}
  <1>1. /\ page.stage = "answered" /\ page' = Rest
        /\ UNCHANGED <<server, arriving, query, refresh, news>>
    BY DEF PageArrives
  <1>2. CASE snapshot.revision < applied
    <2>1. UNCHANGED <<list, news>> /\ Rest \in Requests /\ Rest.stage # "answered"
      BY <1>2 DEF PageArrives, Requests, Rest
    <2>. QED
      BY <1>1, <2>1, PageOnly
  <1>3. CASE ~(snapshot.revision < applied)
    <2>1. /\ applied' = snapshot.revision
          /\ shown' = {r \in shown : r.task \notin new} \union snapshot.rows
          /\ cursor' = snapshot.cursor
          /\ torn' = (torn \/ page.query # source \/ page.after # cursor)
          /\ covered' = covered /\ source' = source
      BY <1>3 DEF PageArrives
    <2>2. /\ page \in Requests /\ page # Rest /\ page.after \in Tasks
          /\ snapshot \in Snapshots /\ page \in Replies
      BY <1>1, Stages DEF IInv, RequestType, Rest, Replies
    <2>3. /\ snapshot.revision \in Nat /\ snapshot.rows \subseteq Rows
          /\ snapshot.cursor \in Tasks \union {None} /\ snapshot.revision <= revision
          /\ snapshot.cursor # None => snapshot.cursor > page.after
          /\ OnePerTask(snapshot.rows)
          /\ \A r \in snapshot.rows : r.place = page.query /\ r.since <= snapshot.revision
          /\ \A t \in Tasks :
                IF Within(t, page.after, snapshot.cursor)
                THEN db[t].since <= snapshot.revision => Agrees(snapshot.rows, page.query, t)
                ELSE \A r \in snapshot.rows : r.task # t
      BY <2>2 DEF Snapshots, IInv, RepliesTrue
    <2>4. /\ revision \in Nat /\ applied \in Nat /\ covered \in Int /\ -1 <= covered
          /\ covered <= applied /\ query \in Queries /\ source \in Queries
          /\ shown \subseteq Rows /\ torn \in BOOLEAN
          /\ OnePerTask(shown)
          /\ \A r \in shown : r.since <= applied
      BY DEF IInv, ServerType, ListType, CopiesOld
    <2> HIDE DEF snapshot
    <2>5. applied' >= applied /\ applied' \in Nat /\ covered <= applied'
      BY <1>3, <2>1, <2>3, <2>4
    <2>6. ListType'
      <3>1. OnePerTask(shown')
        BY <2>1, <2>3, <2>4 DEF OnePerTask
      <3>2. torn' \in BOOLEAN
        BY <2>1, <2>4
      <3>3. shown' \subseteq Rows
        BY <2>1, <2>3, <2>4
      <3>. QED
        BY <1>1, <2>1, <2>3, <2>4, <2>5, <3>1, <3>2, <3>3 DEF ListType, server
    <2>7. shown' \subseteq Copies /\ \A r \in shown' : r.since <= applied'
      <3>1. \A r \in shown : r.since <= applied'
        <4>1. \A r \in shown : r.since \in Nat
          BY <2>4 DEF Rows
        <4>. QED
          BY <2>4, <2>5, <4>1
      <3>. QED
        BY <2>1, <2>2, <2>3, <3>1 DEF Copies, snapshot
    <2>8. /\ unheard' = unheard /\ answers' = answers /\ seen' \in 0..revision
          /\ Untold' = Untold /\ Pending' = Pending /\ revision' = revision
      BY <1>1 DEF Untold, Pending, IInv, ServerType, arriving, news, server
    <2>9. Replies' \subseteq Replies
      BY <1>1 DEF Replies, Rest
    <2>10. ServerType' /\ EventsTrue' /\ CopiesOld' /\ RepliesTrue'
      BY <1>1, <2>7, <2>8, <2>9, StillTrue
    <2>11. RequestType' /\ PageTrue'
      BY <1>1 DEF IInv, RequestType, PageTrue, Requests, Rest
    <2>12. RefreshTrue' /\ NewsType'
      <3>1. refresh.request.stage = "answered" => refresh.request.snapshot.revision \in Nat
        BY Stages DEF IInv, RequestType, Snapshots
      <3>2. RefreshTrue'
        BY <1>1, <2>4, <2>5, <2>8, <3>1 DEF IInv, RefreshTrue, news
      <3>3. NewsType'
        BY <1>1, <2>4, <2>5, <2>8, <3>1 DEF IInv, NewsType, news
      <3>. QED
        BY <3>2, <3>3
    <2>13. ListTrue'
      <3> SUFFICES ASSUME ~torn, page.query = source, page.after = cursor
                   PROVE  /\ \A r \in shown' : r.place = source
                          /\ \A t \in Tasks :
                                IF Within(t, 0, cursor')
                                THEN Agrees(shown, source, t)' \/ ToldBy(t, covered)'
                                ELSE \A r \in shown' : r.task # t
        BY <1>1, <2>1 DEF ListTrue
      <3>1. /\ \A r \in shown : r.place = source
            /\ \A t \in Tasks :
                  IF Within(t, 0, cursor) THEN Agrees(shown, source, t) \/ ToldBy(t, covered)
                  ELSE \A r \in shown : r.task # t
        BY DEF IInv, ListTrue
      <3>2. \A t \in Tasks : t \in Nat /\ t > 0
        BY TaskQueryAssumption
      <3>3. cursor \in Tasks /\ cursor # None
        BY <2>2, TaskQueryAssumption
      <3>4. ASSUME NEW t \in Tasks, t <= cursor
            PROVE  /\ Within(t, 0, cursor) /\ Within(t, 0, cursor')
                   /\ ~Within(t, page.after, snapshot.cursor)
                   /\ Agrees(shown, source, t) => Agrees(shown, source, t)'
        <4>1. Within(t, 0, cursor) /\ ~Within(t, page.after, snapshot.cursor)
          BY <3>2, <3>3, <3>4 DEF Within
        <4>2. snapshot.cursor # None => snapshot.cursor \in Tasks /\ snapshot.cursor > cursor
          BY <2>3
        <4>3. Within(t, 0, cursor')
          BY <2>1, <3>2, <3>3, <3>4, <4>2 DEF Within
        <4>4. \A r : r.task = t => (r \in shown' <=> r \in shown)
          BY <2>1, <2>3, <4>1
        <4>. QED
          BY <1>1, <2>1, <4>1, <4>3, <4>4 DEF Agrees, server, Row
      <3>5. ASSUME NEW t \in Tasks, ~(t <= cursor)
            PROVE  /\ \A r \in shown : r.task # t
                   /\ \A r : r.task = t => (r \in shown' <=> r \in snapshot.rows)
                   /\ Within(t, 0, cursor') <=> Within(t, page.after, snapshot.cursor)
        <4>1. t > cursor /\ t > 0 /\ ~Within(t, 0, cursor)
          BY <3>2, <3>3, <3>5 DEF Within
        <4>2. Within(t, 0, cursor') <=> Within(t, page.after, snapshot.cursor)
          BY <2>1, <4>1 DEF Within
        <4>3. \A r \in shown : r.task # t
          BY <3>1, <4>1
        <4>. QED
          BY <2>1, <4>2, <4>3
      <3>6. ASSUME NEW t \in Tasks, ~(db[t].since <= snapshot.revision)
            PROVE  ToldBy(t, covered)
        <4>1. db[t].since \in Nat /\ db[t].since <= revision
          BY DEF IInv, ServerType
        <4>2. db[t].since \in (snapshot.revision + 1)..revision
          BY <2>3, <2>4, <3>6, <4>1
        <4>3. ~(applied >= db[t].since) /\ db[t].since > covered
          BY <1>3, <2>3, <2>4, <4>1, <4>2 DEF snapshot
        <4>4. db[t].since \in Pending
          BY <1>1, <4>2, <4>3 DEF IInv, PageTrue, snapshot
        <4>. QED
          BY <4>3, <4>4 DEF ToldBy
      <3>7. \A t \in Tasks : ToldBy(t, covered) => ToldBy(t, covered)'
        BY <1>1, <2>1, <2>8 DEF ToldBy, server
      <3>8. ASSUME NEW t \in Tasks
            PROVE  IF Within(t, 0, cursor')
                   THEN Agrees(shown, source, t)' \/ ToldBy(t, covered)'
                   ELSE \A r \in shown' : r.task # t
        <4>1. CASE t <= cursor
          BY <3>1, <3>4, <3>7, <4>1
        <4>2. CASE ~(t <= cursor) /\ Within(t, 0, cursor')
          <5>1. CASE db[t].since <= snapshot.revision
            <6>1. Agrees(snapshot.rows, source, t)
              BY <2>3, <3>5, <4>2, <5>1
            <6>2. Agrees(shown, source, t)'
              BY <1>1, <2>1, <3>5, <4>2, <6>1 DEF Agrees, server, Row
            <6>. QED
              BY <4>2, <6>2
          <5>. QED
            BY <3>6, <3>7, <4>2, <5>1
        <4>3. CASE ~(t <= cursor) /\ ~Within(t, 0, cursor')
          BY <2>3, <3>5, <4>3
        <4>. QED
          BY <4>1, <4>2, <4>3
      <3>. QED
        BY <2>1, <2>3, <3>1, <3>8
    <2>. QED
      BY <2>6, <2>10, <2>11, <2>12, <2>13 DEF IInv
  <1>. QED
    BY <1>2, <1>3

-----------------------------------------------------------------------------
(***************************************************************************)
(* The theorems.                                                           *)
(***************************************************************************)

LEMMA InitEstablishes == Init => IInv
  <1> SUFFICES ASSUME Init PROVE IInv
    OBVIOUS
  <1>1. PICK q \in Queries : db = [t \in Tasks |-> [place |-> q, since |-> 0]]
    BY DEF Init
  <1>2. /\ revision = 0 /\ unheard = {} /\ seen = 0 /\ answers = {}
        /\ query \in Queries /\ source \in Queries
        /\ shown = {} /\ applied = 0 /\ cursor = None /\ covered = -1 /\ torn = FALSE
        /\ awaited = {0} /\ missed = {} /\ page = Rest
    BY DEF Init
  <1>10. refresh \in [request : {Asked(query, 0)}, queued : BOOLEAN] /\ ~refresh.queued
    BY DEF Init, Coalescer
  <1>3. /\ Asked(query, 0) \in Requests /\ Asked(query, 0).stage = "asked"
        /\ Asked(query, 0).after = 0 /\ Rest \in Requests /\ Rest.stage = "rest"
    BY <1>2 DEF Asked, Requests, Rest
  <1>4. ServerType /\ ListType
    <2>1. ServerType
      BY <1>1, <1>2 DEF ServerType
    <2>2. /\ applied \in Nat /\ covered \in Int /\ -1 <= covered /\ covered <= applied
          /\ applied <= revision
      BY <1>2
    <2>3. shown \subseteq Rows /\ OnePerTask(shown) /\ torn \in BOOLEAN
      BY <1>2 DEF OnePerTask
    <2>. QED
      BY <1>2, <2>1, <2>2, <2>3 DEF ListType
  <1>5. RequestType
    BY <1>2, <1>3, <1>10 DEF RequestType, Rest
  <1>6. Arriving = {} /\ Replies = {} /\ Copies = {}
    <2>1. Arriving = {} /\ Replies = {}
      BY <1>2, <1>3, <1>10 DEF Arriving, Replies
    <2>. QED
      BY <1>2, <2>1 DEF Copies
  <1>7. EventsTrue /\ CopiesOld /\ RepliesTrue
    BY <1>2, <1>6 DEF EventsTrue, CopiesOld, RepliesTrue
  <1>8. ListTrue /\ RefreshTrue /\ PageTrue
    <2>1. ASSUME NEW t \in Tasks PROVE ToldBy(t, covered)
      <3>1. db[t].since = 0
        BY <1>1
      <3>. QED
        BY <1>2, <3>1 DEF ToldBy, Pending
    <2>. QED
      BY <1>2, <1>3, <1>10, <2>1 DEF ListTrue, RefreshTrue, PageTrue
  <1>9. NewsType
    BY <1>2, <1>3, <1>10 DEF NewsType, Rest
  <1>. QED
    BY <1>4, <1>5, <1>7, <1>8, <1>9 DEF IInv

LEMMA StutterPreserves == IInv /\ UNCHANGED vars => IInv'
  <1> SUFFICES ASSUME IInv, UNCHANGED vars PROVE IInv'
    OBVIOUS
  <1>1. /\ UNCHANGED <<server, arriving, query, list, refresh, news>>
        /\ page' = page
    BY DEF vars
  <1> USE DEF server, arriving, list, news
  <1>2. ServerType' /\ ListType' /\ RequestType' /\ NewsType'
    BY <1>1 DEF IInv, ServerType, ListType, RequestType, NewsType
  <1>3. Untold' = Untold /\ Pending' = Pending /\ Arriving' = Arriving /\ Replies' = Replies
    BY <1>1 DEF Untold, Pending, Arriving, Replies
  <1>4. Copies' = Copies
    BY <1>1, <1>3 DEF Copies
  <1>5. EventsTrue' /\ CopiesOld' /\ RepliesTrue'
    BY <1>1, <1>3, <1>4 DEF IInv, EventsTrue, CopiesOld, RepliesTrue, Speaks, Agrees, Row
  <1>6. ListTrue' /\ RefreshTrue' /\ PageTrue'
    BY <1>1, <1>3 DEF IInv, ListTrue, RefreshTrue, PageTrue, Agrees, Row, ToldBy
  <1>. QED
    BY <1>2, <1>5, <1>6 DEF IInv

\* Rows, refreshes and pages say what the store said when it was asked, and what sets a
\* list apart from its query is news under way, awaited or missed.
THEOREM Invariance == Spec => []IInv
  <1>1. IInv /\ [Next]_vars => IInv'
    BY ServerPreserves, DeliverPreserves, OwnAnswerPreserves, OverrunPreserves,
       ReadRefreshPreserves, RefreshArrivesPreserves, RefreshFailsPreserves, AskPagePreserves,
       ReadPagePreserves, PageArrivesPreserves, SwitchPreserves, StutterPreserves
    DEF Next
  <1>. QED
    BY InitEstablishes, <1>1, PTL DEF Spec

\* A list is right about every task but those of whose last change it is yet to hear, is
\* to be told by a refresh, or was told too late or in vain (useTaskQuery.ts, liveQuery.ts).
THEOREM ListIsRight == Spec => []OffOnlyForCause
  <1>1. IInv => OffOnlyForCause
    <2> SUFFICES ASSUME IInv PROVE OffOnlyForCause
      OBVIOUS
    <2>1. TypeOK
      <3>1. \A event \in answers \union unheard : event.revision \in 1..revision
        BY DEF IInv, EventsTrue, Arriving
      <3>2. /\ seen \in 0..revision /\ applied \in 0..revision /\ covered \in -1..applied
        BY DEF IInv, ServerType, ListType
      <3>. QED
        BY <3>1, <3>2 DEF IInv, ListType, RequestType, NewsType, TypeOK
    <2>2. ASSUME ~torn, NEW t \in Tasks PROVE Listed(t) \/ NewsMissing(t)
      <3>1. IF Within(t, 0, cursor) THEN Agrees(shown, source, t) \/ ToldBy(t, covered)
            ELSE \A r \in shown : r.task # t
        BY <2>2 DEF IInv, ListTrue
      <3>2. t \in Members(source, 0) /\ (cursor # None => t <= cursor)
                <=> Within(t, 0, cursor) /\ db[t].place = source
        BY TaskQueryAssumption DEF Members, Within
      <3>3. ASSUME ~Within(t, 0, cursor) PROVE Listed(t)
        <4>1. {r \in shown : r.task = t} = {}
          BY <3>1, <3>3
        <4>. QED
          BY <3>2, <3>3, <4>1 DEF Listed
      <3>4. ASSUME Within(t, 0, cursor), Agrees(shown, source, t) PROVE Listed(t)
        BY <3>2, <3>4 DEF Listed, Agrees
      <3>5. ASSUME ToldBy(t, covered) PROVE NewsMissing(t)
        <4>1. db[t].since \in awaited => refresh.request # Rest
          BY DEF IInv, NewsType
        <4>. QED
          BY <3>5, <4>1 DEF ToldBy, Pending, Untold, NewsMissing
      <3>. QED
        BY <3>1, <3>3, <3>4, <3>5
    <2>. QED
      BY <2>1, <2>2 DEF OffOnlyForCause
  <1>. QED
    BY <1>1, Invariance, PTL

\* No row on the screen is replaced by an older one: by an event, a refresh or a page.
LEMMA RowsOnlyAdvance ==
    ASSUME IInv, [Next]_vars, query' = query,
           NEW old \in shown, NEW new \in shown', old.task = new.task
    PROVE  new.since >= old.since
  <1>1. /\ old.since \in Nat /\ old.since <= applied /\ applied \in Nat /\ old \in Copies
        /\ OnePerTask(shown)
    BY DEF IInv, ListType, CopiesOld, Rows, Copies
  <1>2. CASE new \in shown
    BY <1>1, <1>2 DEF OnePerTask
  \* What replaces it is newer than all the list has applied, or is from an answer
  \* that the list's revision does not pass.
  <1>3. ASSUME NEW event \in Arriving, ApplyEvent(event), new \notin shown
        PROVE  new.since >= old.since
    <2>1. /\ event.kind = "patch" /\ new = event.row /\ ~(event.revision < applied)
      BY <1>3 DEF ApplyEvent, Patched, list
    <2>2. new.since = event.revision /\ event.revision \in Nat
      BY <2>1 DEF IInv, EventsTrue, ServerType
    <2>. QED
      BY <1>1, <2>1, <2>2
  <1>4. ASSUME NEW reply \in Replies, new \in reply.snapshot.rows,
               reply.snapshot.revision >= applied
        PROVE  new.since >= old.since
    <2>1. reply.snapshot \in Snapshots
      BY Stages DEF Replies, IInv, RequestType
    <2>2. reply.snapshot.revision \in Nat /\ new.since \in Nat
      BY <1>4, <2>1 DEF Snapshots, Rows
    <2>3. old.since <= reply.snapshot.revision
      BY <1>1, <1>4, <2>2
    <2>4. old.since <= new.since
      BY <1>1, <1>4, <2>3 DEF IInv, CopiesOld
    <2>. QED
      BY <1>1, <2>2, <2>4
  <1>5. CASE Deliver
    BY <1>2, <1>3, <1>5 DEF Deliver, Arriving
  <1>6. CASE OwnAnswer
    BY <1>2, <1>3, <1>6 DEF OwnAnswer, Arriving
  <1>7. CASE RefreshArrives
    <2>1. refresh.request \in Replies
      BY <1>7 DEF RefreshArrives, Replies
    <2>2. \/ shown' = shown
          \/ /\ shown' = refresh.request.snapshot.rows
             /\ refresh.request.snapshot.revision >= applied
      BY <1>7 DEF RefreshArrives, Accepts, list
    <2>. QED
      BY <1>2, <1>4, <2>1, <2>2
  <1>8. CASE PageArrives
    <2>1. page \in Replies
      BY <1>8 DEF PageArrives, Replies
    <2>2. \/ shown' = shown
          \/ /\ shown' \subseteq shown \union page.snapshot.rows
             /\ ~(page.snapshot.revision < applied)
      BY <1>8 DEF PageArrives, list
    <2>3. page.snapshot.revision \in Nat
      BY <2>1, Stages DEF Replies, IInv, RequestType, Snapshots
    <2>. QED
      BY <1>1, <1>2, <1>4, <2>1, <2>2, <2>3
  <1>9. Switch => query' # query
    BY DEF Switch
  <1>10. PatchTask \/ Resync \/ Other \/ Overrun \/ AnswerLost \/ ReadRefresh \/ RefreshFails
            \/ AskPage \/ ReadPage \/ PageFails \/ UNCHANGED vars => shown' = shown
    BY DEF PatchTask, Resync, Other, Commit, Overrun, AnswerLost, ReadRefresh, RefreshFails, AskPage,
           ReadPage, PageFails, vars, list
  <1>. QED
    BY <1>2, <1>5, <1>6, <1>7, <1>8, <1>9, <1>10 DEF Next

\* No step replaces a row by an older one, in whatever order refreshes, pages, events
\* and own answers arrive (useTaskQuery.ts, liveQuery.ts).
THEOREM RowsAdvance == Spec => RowsNeverGoBack
  <1>1. IInv /\ [Next]_vars =>
            [query' = query =>
                \A old \in shown, new \in shown' :
                    old.task = new.task => new.since >= old.since]_vars
    BY RowsOnlyAdvance
  <1>. QED
    BY <1>1, Invariance, PTL DEF Spec, RowsNeverGoBack
=============================================================================
