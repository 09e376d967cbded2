-------------------------- MODULE TaskGraphProofs --------------------------
(***************************************************************************)
(* Proofs about TaskGraph, for any number of tasks, comments and           *)
(* operations: the hierarchy stays a forest and no reference dangles;      *)
(* reversing a completion removes an occurrence only as it was generated;  *)
(* undoing the latest operation gives everything back, and nothing stands  *)
(* in the way of undoing it.  What makes them inductive is what the undo   *)
(* material says of the graph.                                             *)
(***************************************************************************)
EXTENDS TaskGraph, TLAPS, FiniteSetTheorems, NaturalsInduction, WellFoundedInduction

-----------------------------------------------------------------------------
(***************************************************************************)
(* The inductive invariant.                                                *)
(***************************************************************************)

\* From every row the parents lead to a root.
Rooted(f) == \A S \in SUBSET DOMAIN f : S # {} => \E t \in S : f[t].parent \notin S
Forest(f) ==
    /\ \A t \in DOMAIN f : f[t].parent \in DOMAIN f \cup {None}
    /\ Rooted(f)

\* The operations a row may name as its completion: one that is retained did complete.
Completing ==
    {o \in 0..revision : o \in DOMAIN undo => undo[o].inverse.kind = "reverse_completion"}

\* Rows, in the table or kept for undo, of ids handed out by now.
GoodRows(f, C, last) ==
    /\ DOMAIN f \subseteq 1..last
    /\ \A t \in DOMAIN f : f[t] \in TaskRow /\ f[t].doneBy \in C
GoodComments(cs, T) ==
    /\ DOMAIN cs \subseteq Comments
    /\ \A c \in DOMAIN cs : cs[c] \in CommentRow /\ cs[c].task \in T

\* A closure is a forest of its own, and its rows are gone; a completion left the
\* parents of its tasks alone, and wrote every occurrence it generated.
InverseSound(inv, C, last) ==
    /\ inv.kind \in {"delete_tasks", "restore_tasks", "restore_closure",
                     "reverse_completion", "restore_comment", "restore_relation"}
    /\ inv.kind \in {"restore_tasks", "restore_closure", "reverse_completion"} =>
          GoodRows(inv.tasks, C, last)
    /\ inv.kind = "restore_closure" =>
          Rooted(inv.tasks) /\ GoodComments(inv.comments, DOMAIN inv.tasks)
    /\ inv.kind = "restore_comment" =>
          /\ inv.id \in Comments
          /\ \/ inv.before = <<>>
             \/ inv.id \in DOMAIN inv.before /\ inv.before[inv.id] \in CommentRow
PostSound(post, C, last) ==
    /\ GoodRows(post.tasks, C, last)
    /\ GoodComments(post.comments, Tasks)
Together(o, inv, post, last) ==
    /\ inv.kind = "restore_closure" => DOMAIN inv.tasks \subseteq post.absent
    /\ inv.kind = "reverse_completion" =>
          /\ DOMAIN inv.tasks # {}
          /\ \A t \in DOMAIN inv.tasks :
                t \in DOMAIN post.tasks /\ post.tasks[t].parent = inv.tasks[t].parent
          /\ inv.generated \subseteq 1..last
          /\ \A t \in inv.generated : t \in DOMAIN post.tasks /\ post.tasks[t].revision = o

Entry == {"inverse", "post", "undoneBy", "undoes"}
UndoMaterial ==
    \A o \in DOMAIN undo :
        /\ DOMAIN undo[o] = Entry
        /\ InverseSound(undo[o].inverse, Completing, lastId)
        /\ PostSound(undo[o].post, Completing, lastId)
        /\ Together(o, undo[o].inverse, undo[o].post, lastId)

\* No two completions generated the same occurrence.
GeneratedOnce ==
    \A d, e \in DOMAIN undo :
        /\ undo[d].inverse.kind = "reverse_completion"
        /\ undo[e].inverse.kind = "reverse_completion"
        /\ undo[d].inverse.generated \cap undo[e].inverse.generated # {}
        => d = e

IInv ==
    /\ TypeOK
    /\ Forest(task)
    /\ GoodRows(task, Completing, lastId)
    /\ UndoMaterial
    /\ GeneratedOnce

-----------------------------------------------------------------------------
(***************************************************************************)
(* Forests.                                                                *)
(***************************************************************************)

LEMMA LeastNatural ==
    ASSUME NEW T, T \subseteq Nat, T # {}
    PROVE  \E n \in T : \A m \in T : n <= m
  <1>1. IsWellFoundedOn(OpToRel(<, Nat), Nat)
    BY NatLessThanWellFounded
  <1>2. PICK n \in T : \A m \in T : ~(<<m, n>> \in OpToRel(<, Nat))
    BY <1>1, WFMin
  <1>3. \A m \in T : ~(m < n)
    BY <1>2 DEF OpToRel
  <1>. QED
    BY <1>3

\* Rows that keep their parents, or lose them, stay a forest.
LEMMA KeptOrRoot ==
    ASSUME NEW f, NEW g, Forest(f), None \notin DOMAIN g,
           \A t \in DOMAIN g : g[t].parent \in DOMAIN g \cup {None},
           \A t \in DOMAIN g :
               g[t].parent = None \/ (t \in DOMAIN f /\ g[t].parent = f[t].parent)
    PROVE  Forest(g)
  <1>1. ASSUME NEW S \in SUBSET DOMAIN g, S # {}
        PROVE  \E t \in S : g[t].parent \notin S
    <2>1. CASE \E t \in S : g[t].parent = None
      BY <1>1, <2>1
    <2>2. CASE \A t \in S : g[t].parent # None
      <3>1. S \in SUBSET DOMAIN f /\ \A t \in S : g[t].parent = f[t].parent
        BY <1>1, <2>2
      <3>. QED
        BY <1>1, <3>1 DEF Forest, Rooted
    <2>. QED
      BY <2>1, <2>2
  <1>. QED
    BY <1>1 DEF Forest, Rooted

\* The chain above p avoids whatever validate_parent_chain has looked for in it.
LEMMA Chain ==
    ASSUME NEW f, Forest(f), None \notin DOMAIN f, NEW p, NEW R,
           \A t \in R : RefsOk(f, t, p), p \in DOMAIN f
    PROVE  \E A \in SUBSET DOMAIN f : p \in A /\ ParentClosed(f, A) /\ A \cap R \subseteq {}
  <1> DEFINE A == {a \in DOMAIN f : Descends(f, p, a)}
  <1>1. p \in A /\ A \in SUBSET DOMAIN f
    BY DEF Descends
  <1>2. ASSUME NEW a \in A PROVE f[a].parent \in A \cup {None}
    <2>1. f[a].parent \in DOMAIN f \cup {None}
      BY DEF Forest
    <2>2. ASSUME NEW S \in SUBSET DOMAIN f, p \in S, ParentClosed(f, S)
          PROVE  f[a].parent \in S \cup {None}
      BY <2>2 DEF Descends, ParentClosed, Parent
    <2>. QED
      BY <2>1, <2>2 DEF Descends
  <1>3. ASSUME NEW t \in R PROVE t \notin A
    <2>1. p # None
      OBVIOUS
    <2>. QED
      BY <2>1 DEF RefsOk
  <1>. QED
    BY <1>1, <1>2, <1>3 DEF ParentClosed, Parent

\* Tasks moved below a parent that is not among their descendants.
LEMMA MovedForest ==
    ASSUME NEW f, NEW g, NEW p, NEW R, Forest(f), None \notin DOMAIN f, None \notin R,
           \A t \in R : RefsOk(f, t, p),
           DOMAIN g = DOMAIN f \cup R,
           p \in DOMAIN f \cup {None},
           \A t \in R : g[t].parent = p,
           \A t \in DOMAIN f \ R : g[t].parent = f[t].parent
    PROVE  Forest(g)
  <1>1. CASE p = None
    BY <1>1, KeptOrRoot DEF Forest
  <1>2. CASE p \in DOMAIN f
    <2>1. PICK A \in SUBSET DOMAIN f : p \in A /\ ParentClosed(f, A) /\ A \cap R \subseteq {}
      BY <1>2, Chain
    <2>2. ASSUME NEW S \in SUBSET DOMAIN g, S # {}
          PROVE  \E t \in S : g[t].parent \notin S
      <3>1. CASE S \cap R = {}
        BY <2>2, <3>1 DEF Forest, Rooted
      <3>2. CASE S \cap A # {}
        <4>1. PICK t \in S \cap A : f[t].parent \notin S \cap A
          BY <3>2 DEF Forest, Rooted
        <4>2. f[t].parent \notin S /\ g[t].parent = f[t].parent
          BY <2>1, <4>1 DEF ParentClosed, Parent
        <4>. QED
          BY <4>2
      <3>3. CASE S \cap R # {} /\ S \cap A = {}
        BY <2>1, <3>3
      <3>. QED
        BY <3>1, <3>2, <3>3
    <2>3. \A t \in DOMAIN g : g[t].parent \in DOMAIN g \cup {None}
      BY DEF Forest
    <2>. QED
      BY <2>2, <2>3 DEF Forest, Rooted
  <1>. QED
    BY <1>1, <1>2

\* A closure put back under rows that are there.
LEMMA RestoredForest ==
    ASSUME NEW f, NEW g, Forest(f), Rooted(g), DOMAIN f \cap DOMAIN g = {},
           None \notin DOMAIN f \cup DOMAIN g,
           \A t \in DOMAIN g : g[t].parent \in DOMAIN f \cup DOMAIN g \cup {None}
    PROVE  Forest(Update(f, g))
  <1> DEFINE h == Update(f, g)
  <1>1. /\ DOMAIN h = DOMAIN f \cup DOMAIN g
        /\ \A t \in DOMAIN g : h[t] = g[t]
        /\ \A t \in DOMAIN f : h[t] = f[t]
    BY DEF Update
  <1>2. ASSUME NEW S \in SUBSET DOMAIN h, S # {}
        PROVE  \E t \in S : h[t].parent \notin S
    <2>1. CASE S \cap DOMAIN f # {}
      <3>1. PICK t \in S \cap DOMAIN f : f[t].parent \notin S \cap DOMAIN f
        BY <2>1 DEF Forest, Rooted
      <3>2. f[t].parent \in DOMAIN f \cup {None}
        BY <3>1 DEF Forest
      <3>. QED
        BY <1>1, <3>1, <3>2
    <2>2. CASE S \subseteq DOMAIN g
      BY <1>1, <1>2, <2>2 DEF Rooted
    <2>. QED
      BY <1>1, <2>1, <2>2
  <1>3. \A t \in DOMAIN h : h[t].parent \in DOMAIN h \cup {None}
    BY <1>1 DEF Forest
  <1>. QED
    BY <1>2, <1>3 DEF Forest, Rooted

\* Every single parent is in order, hence the whole is a forest: in a set of tasks
\* that all have their parent in it, the chain above one leads to a smaller such set.
LEMMA AllRefsForest ==
    ASSUME NEW f, IsFiniteSet(DOMAIN f), None \notin DOMAIN f,
           \A t \in DOMAIN f : RefsOk(f, t, f[t].parent)
    PROVE  Forest(f)
  <1> DEFINE Bad == {S \in SUBSET DOMAIN f : S # {} /\ \A t \in S : f[t].parent \in S}
             Sizes == {Cardinality(S) : S \in Bad}
  <1>1. \A t \in DOMAIN f : f[t].parent \in DOMAIN f \cup {None}
    BY DEF RefsOk
  <1>2. ASSUME Bad # {} PROVE FALSE
    <2>1. \A S \in Bad : IsFiniteSet(S) /\ Cardinality(S) \in Nat
      BY FS_Subset, FS_CardinalityType
    <2>2. Sizes \subseteq Nat /\ Sizes # {}
      BY <1>2, <2>1
    <2>3. PICK n \in Sizes : \A m \in Sizes : n <= m
      <3> HIDE DEF Sizes
      <3>. QED
        BY <2>2, LeastNatural
    <2>4. PICK S \in Bad : n = Cardinality(S)
      BY <2>3
    <2>5. PICK t \in S : f[t].parent \in S
      BY <2>4
    <2>6. f[t].parent \in DOMAIN f \ {t} /\ ~Descends(f, f[t].parent, t)
      BY <2>4, <2>5 DEF RefsOk
    <2>7. PICK C \in SUBSET DOMAIN f : f[t].parent \in C /\ ParentClosed(f, C) /\ t \notin C
      BY <2>6 DEF Descends
    <2>8. S \cap C \in Bad
      <3>1. \A u \in S \cap C : f[u].parent \in S \cap C
        BY <2>4, <2>7 DEF ParentClosed, Parent
      <3>. QED
        BY <2>5, <2>7, <3>1
    <2>9. S \cap C \subseteq S \ {t}
      BY <2>7
    <2>10. Cardinality(S \ {t}) = Cardinality(S) - 1 /\ IsFiniteSet(S \ {t})
      BY <2>1, <2>4, <2>5, FS_RemoveElement
    <2>11. Cardinality(S \cap C) <= Cardinality(S) - 1
      BY <2>9, <2>10, FS_Subset
    <2>. QED
      BY <2>1, <2>3, <2>4, <2>8, <2>11
  <1>3. Rooted(f)
    BY <1>2 DEF Rooted
  <1>. QED
    BY <1>1, <1>3 DEF Forest

-----------------------------------------------------------------------------
(***************************************************************************)
(* Rows, undo material and what a commit must bring along.                 *)
(***************************************************************************)

LEMMA RowsStayGood ==
    ASSUME NEW f, NEW C, NEW D, NEW m \in Nat, NEW n \in Nat,
           GoodRows(f, C, m), C \subseteq D, m <= n
    PROVE  GoodRows(f, D, n)
  BY DEF GoodRows

LEMMA MaterialStaysSound ==
    ASSUME NEW C, NEW D, NEW m \in Nat, NEW n \in Nat, C \subseteq D, m <= n, NEW o,
           NEW inv, InverseSound(inv, C, m), NEW post, PostSound(post, C, m),
           Together(o, inv, post, m)
    PROVE  /\ InverseSound(inv, D, n)
           /\ PostSound(post, D, n)
           /\ Together(o, inv, post, n)
  <1>1. InverseSound(inv, D, n)
    BY RowsStayGood DEF InverseSound
  <1>2. PostSound(post, D, n)
    BY RowsStayGood DEF PostSound
  <1>3. Together(o, inv, post, n)
    BY DEF Together
  <1>. QED
    BY <1>1, <1>2, <1>3

\* After the commit a row may also name the new operation, if that completed it.
Following(inverse) ==
    Completing \cup IF inverse.kind = "reverse_completion" THEN {Now} ELSE {}

\* What a transaction writes: the graph, and the material to undo it.
GraphStays(f, cs, rs, C, last) ==
    /\ Forest(f)
    /\ GoodRows(f, C, last)
    /\ GoodComments(cs, DOMAIN f)
    /\ \A r \in rs : {r[1], r[2]} \subseteq DOMAIN f
MaterialFits(inverse, post, C, last) ==
    /\ InverseSound(inverse, C, last)
    /\ PostSound(post, C, last)
    /\ Together(Now, inverse, post, last)
    /\ inverse.kind = "reverse_completion" => inverse.generated \cap 1..lastId = {}

LEMMA CommitKeeps ==
    ASSUME IInv, NEW f, NEW cs, NEW rs, NEW inverse, NEW post, NEW undone,
           Commit(f, cs, rs, inverse, post, undone),
           undone \in DOMAIN undo \cup {None},
           lastId' \in lastId..MaxTasks, usedComments' \subseteq Comments,
           GraphStays(f, cs, rs, Following(inverse), lastId'),
           MaterialFits(inverse, post, Following(inverse), lastId')
    PROVE  IInv'
  <1> DEFINE C == Following(inverse)
  <1>1. /\ revision \in Nat /\ Now \in Nat /\ Now \in 1..MaxOps
        /\ lastId \in Nat /\ lastId' \in Nat /\ lastId <= lastId'
        /\ DOMAIN undo \subseteq 1..revision /\ Now \notin DOMAIN undo
    BY BoundsAssumption DEF IInv, TypeOK, Ops, Commit, Now
  <1>2. /\ revision' = Now /\ task' = f /\ comment' = cs /\ blocks' = rs
        /\ DOMAIN undo' = DOMAIN undo \cup {Now}
        /\ undo'[Now].inverse = inverse /\ undo'[Now].post = post
        /\ undo'[Now].undoneBy = None /\ undo'[Now].undoes = undone
        /\ DOMAIN undo'[Now] = Entry
    BY <1>1 DEF Commit, Update, Only, Entry
  <1>3. ASSUME NEW o \in DOMAIN undo
        PROVE  /\ undo'[o].inverse = undo[o].inverse /\ undo'[o].post = undo[o].post
               /\ undo'[o].undoneBy \in {undo[o].undoneBy, Now}
               /\ undo'[o].undoes = undo[o].undoes
               /\ DOMAIN undo'[o] = Entry
    <2>1. DOMAIN undo[o] = Entry
      BY DEF IInv, UndoMaterial
    <2>2. undo'[o] = IF o = undone THEN [undo[o] EXCEPT !.undoneBy = Now] ELSE undo[o]
      BY <1>1 DEF Commit, Update, Only
    <2>. QED
      BY <2>1, <2>2 DEF Entry
  <1>4. Completing' = C /\ Completing \subseteq C
    BY <1>1, <1>2, <1>3 DEF Completing, Following, Now
  <1>5. TypeOK'
    <2>1. DOMAIN task' \subseteq Tasks /\ \A t \in DOMAIN task' : task'[t] \in TaskRow
      BY <1>1, <1>2, BoundsAssumption DEF GraphStays, GoodRows, Tasks
    <2>2. /\ DOMAIN comment' \subseteq Comments
          /\ \A c \in DOMAIN comment' :
                comment'[c] \in CommentRow /\ comment'[c].task \in DOMAIN task'
          /\ \A r \in blocks' : {r[1], r[2]} \subseteq DOMAIN task'
      BY <1>2 DEF GraphStays, GoodComments
    <2>3. LineageOk(task')
      BY <1>2 DEF Commit
    <2>4. revision' \in Ops /\ lastId' \in 0..MaxTasks /\ DOMAIN undo' \subseteq 1..revision'
      BY <1>1, <1>2, BoundsAssumption DEF Ops, Now
    <2>5. \A o \in DOMAIN undo' : undo'[o].undoneBy \in Ops /\ undo'[o].undoes \in Ops
      BY <1>1, <1>2, <1>3, BoundsAssumption DEF IInv, TypeOK, Ops, None
    <2>. QED
      BY <2>1, <2>2, <2>3, <2>4, <2>5 DEF TypeOK, LineageOk
  <1>6. Forest(task)' /\ GoodRows(task, Completing, lastId)'
    BY <1>2, <1>4 DEF GraphStays, Forest, Rooted, GoodRows
  <1>7. UndoMaterial'
    <2>1. ASSUME NEW o \in DOMAIN undo'
          PROVE  /\ DOMAIN undo'[o] = Entry
                 /\ InverseSound(undo'[o].inverse, C, lastId')
                 /\ PostSound(undo'[o].post, C, lastId')
                 /\ Together(o, undo'[o].inverse, undo'[o].post, lastId')
      <3>1. CASE o = Now
        BY <1>2, <3>1 DEF MaterialFits
      <3>2. CASE o \in DOMAIN undo
        <4>1. /\ InverseSound(undo[o].inverse, Completing, lastId)
              /\ PostSound(undo[o].post, Completing, lastId)
              /\ Together(o, undo[o].inverse, undo[o].post, lastId)
          BY <3>2 DEF IInv, UndoMaterial
        <4>2. /\ InverseSound(undo[o].inverse, C, lastId')
              /\ PostSound(undo[o].post, C, lastId')
              /\ Together(o, undo[o].inverse, undo[o].post, lastId')
          <5> HIDE DEF C
          <5>. QED
            BY <1>1, <1>4, <4>1, MaterialStaysSound
        <4>. QED
          BY <1>3, <3>2, <4>2
      <3>. QED
        BY <1>2, <3>1, <3>2
    <2>2. Completing' = C
      BY <1>4
    <2> HIDE DEF C
    <2>. QED
      BY <2>1, <2>2
      DEF UndoMaterial, InverseSound, PostSound, Together, GoodRows, GoodComments, Rooted
  <1>8. GeneratedOnce'
    <2>1. ASSUME NEW e \in DOMAIN undo, undo[e].inverse.kind = "reverse_completion"
          PROVE  undo[e].inverse.generated \subseteq 1..lastId
      BY <2>1 DEF IInv, UndoMaterial, Together
    <2>. QED
      BY <1>2, <1>3, <2>1 DEF IInv, GeneratedOnce, MaterialFits
  <1>. QED
    BY <1>5, <1>6, <1>7, <1>8 DEF IInv

LEMMA Facts ==
    ASSUME IInv
    PROVE  /\ revision \in Nat /\ lastId \in Nat /\ lastId <= MaxTasks /\ MaxTasks \in Nat
           /\ MaxOps \in Nat /\ revision <= MaxOps
           /\ DOMAIN task \subseteq 1..lastId /\ None \notin DOMAIN task
           /\ \A t \in DOMAIN task : task[t] \in TaskRow /\ task[t].doneBy \in Completing
           /\ \A t \in DOMAIN task : task[t].parent \in DOMAIN task \cup {None}
           /\ Completing \subseteq 0..revision
  BY BoundsAssumption DEF IInv, TypeOK, Ops, GoodRows, None, Forest, Completing

\* Whatever is not changed stays in order.
LEMMA TablesAreGood ==
    ASSUME IInv
    PROVE  /\ GoodRows(task, Completing, lastId)
           /\ GoodComments(comment, DOMAIN task)
           /\ \A r \in blocks : {r[1], r[2]} \subseteq DOMAIN task
  BY DEF IInv, TypeOK, GoodComments

\* A post-image of task rows.
LEMMA PostTasksSound ==
    ASSUME NEW rows, NEW C, NEW last, GoodRows(rows, C, last), NEW absent
    PROVE  /\ PostSound(PostTasks(rows), C, last)
           /\ PostSound([PostTasks(rows) EXCEPT !.absent = absent], C, last)
           /\ PostSound([NoPost EXCEPT !.absent = absent], C, last)
           /\ PostTasks(rows).tasks = rows
           /\ [NoPost EXCEPT !.absent = absent].absent = absent
           /\ [PostTasks(rows) EXCEPT !.absent = absent].tasks = rows
  BY DEF PostSound, PostTasks, NoPost, GoodRows, GoodComments

LEMMA RewriteKeeps ==
    ASSUME IInv, NEW rows, Rewrite(rows), DOMAIN rows \subseteq DOMAIN task,
           \A t \in DOMAIN rows : rows[t] \in TaskRow /\ rows[t].doneBy \in Completing,
           Forest(Update(task, rows))
    PROVE  IInv'
  <1> DEFINE inverse == RestoreTasks(Restrict(task, DOMAIN rows))
             post == PostTasks(rows)
  <1>1. GoodRows(rows, Completing, lastId)
    BY Facts DEF GoodRows
  <1>2. Following(inverse) = Completing /\ inverse.kind = "restore_tasks"
    BY DEF Following, RestoreTasks
  <1>3. GraphStays(Update(task, rows), comment, blocks, Completing, lastId)
    BY <1>1, TablesAreGood DEF GraphStays, GoodRows, GoodComments, Update
  <1>4. MaterialFits(inverse, post, Completing, lastId)
    <2>1. GoodRows(inverse.tasks, Completing, lastId)
      BY TablesAreGood DEF RestoreTasks, Restrict, GoodRows
    <2>. QED
      BY <1>1, <1>2, <2>1, PostTasksSound DEF MaterialFits, InverseSound, Together
  <1>5. /\ Commit(Update(task, rows), comment, blocks, inverse, post, None)
        /\ lastId' = lastId /\ usedComments' = usedComments
    BY DEF Rewrite
  <1>6. lastId' \in lastId..MaxTasks /\ usedComments' \subseteq Comments
    BY <1>5, Facts DEF IInv, TypeOK
  <1>. QED
    <2> HIDE DEF inverse, post
    <2>. QED
      BY <1>2, <1>3, <1>4, <1>5, <1>6, CommitKeeps

\* Stamps and edits of a row, in a transaction.
LEMMA Stamps ==
    ASSUME IInv, revision < MaxOps, NEW row \in TaskRow, NEW p \in Tasks \cup {None}
    PROVE  /\ Stamp(row) \in TaskRow /\ Stamp(row).parent = row.parent
           /\ Stamp(row).doneBy = row.doneBy /\ Stamp(row).revision = Now
           /\ Edited(row) \in TaskRow /\ Edited(row).parent = row.parent
           /\ Edited(row).doneBy = row.doneBy
           /\ MovedTo(row, p) \in TaskRow
           /\ MovedTo(row, p).parent = p
           /\ MovedTo(row, p).doneBy = row.doneBy
  <1>1. Now \in Ops
    BY Facts DEF Now, Ops
  <1>. QED
    BY <1>1 DEF Stamp, Edited, MovedTo, TaskRow

\* Rows rewritten with the parents they had.
LEMMA KeptForest ==
    ASSUME IInv, NEW rows, DOMAIN rows \subseteq DOMAIN task,
           \A t \in DOMAIN rows : rows[t].parent = task[t].parent
    PROVE  Forest(Update(task, rows))
  <1> DEFINE g == Update(task, rows)
  <1>1. DOMAIN g = DOMAIN task /\ \A t \in DOMAIN g : g[t].parent = task[t].parent
    BY DEF Update
  <1> HIDE DEF g
  <1>2. Forest(g)
    BY <1>1, Facts, KeptOrRoot DEF IInv
  <1>. QED
    BY <1>2 DEF g

\* Tasks that are moved below one parent.
LEMMA MovesKeep ==
    ASSUME IInv, NEW R, R \subseteq DOMAIN task, NEW p \in DOMAIN task \cup {None},
           NEW moved, moved \subseteq R, \A t \in moved : RefsOk(task, t, p),
           \A t \in R \ moved : task[t].parent = p,
           Rewrite([t \in R |-> MovedTo(task[t], p)])
    PROVE  IInv'
  <1> DEFINE rows == [t \in R |-> MovedTo(task[t], p)]
             g == Update(task, rows)
  <1>1. revision < MaxOps
    BY DEF Rewrite, Commit
  <1>2. p \in Tasks \cup {None}
    BY Facts DEF Tasks
  <1>3. \A t \in R : /\ rows[t] \in TaskRow /\ rows[t].parent = p
                     /\ rows[t].doneBy \in Completing
    <2> SUFFICES ASSUME NEW t \in R
                 PROVE  /\ rows[t] \in TaskRow /\ rows[t].parent = p
                        /\ rows[t].doneBy \in Completing
      OBVIOUS
    <2>1. task[t] \in TaskRow /\ task[t].doneBy \in Completing
      BY Facts
    <2>2. rows[t] = MovedTo(task[t], p)
      OBVIOUS
    <2> HIDE DEF rows
    <2>. QED
      BY <1>1, <1>2, <2>1, <2>2, Stamps
  <1>4. Forest(g)
    <2>1. DOMAIN g = DOMAIN task \cup moved
      BY DEF Update
    <2>2. \A t \in moved : g[t].parent = p
      BY <1>3 DEF Update
    <2>3. \A t \in DOMAIN task \ moved : g[t].parent = task[t].parent
      BY <1>3 DEF Update
    <2>4. None \notin DOMAIN task /\ None \notin moved
      BY Facts
    <2> HIDE DEF g
    <2>. QED
      BY <2>1, <2>2, <2>3, <2>4, MovedForest DEF IInv
  <1>5. DOMAIN rows = R /\ Rewrite(rows)
    OBVIOUS
  <1> HIDE DEF rows
  <1>. QED
    BY <1>3, <1>4, <1>5, RewriteKeeps

LEMMA PatchKeeps ==
    ASSUME IInv, NEW t \in DOMAIN task, NEW p \in DOMAIN task \cup {None}, PatchTask(t, p)
    PROVE  IInv'
  <1>1. Only(t, MovedTo(task[t], p))
          = [u \in {t} |-> MovedTo(task[u], p)]
    BY DEF Only
  <1>2. RefsOk(task, t, p)
    BY DEF PatchTask
  <1>3. Rewrite([u \in {t} |-> MovedTo(task[u], p)])
    BY <1>1 DEF PatchTask
  <1>. QED
    BY <1>2, <1>3, MovesKeep

LEMMA BulkMoveKeeps ==
    ASSUME IInv, NEW R \in Roots, NEW p \in DOMAIN task \cup {None}, BulkMove(R, p)
    PROVE  IInv'
  BY MovesKeep DEF BulkMove, Roots

LEMMA MoveAnchoredKeeps ==
    ASSUME IInv, NEW t \in DOMAIN task, NEW p \in DOMAIN task \cup {None}, MoveAnchored(t, p)
    PROVE  IInv'
  <1> DEFINE R == {u \in DOMAIN task : task[u].parent = p} \cup {t}
             moved == {t}
  <1>1. /\ RefsOk(task, t, p)
        /\ Rewrite([u \in R |-> MovedTo(task[u], p)])
    BY DEF MoveAnchored
  <1>2. /\ R \subseteq DOMAIN task /\ moved \subseteq R
        /\ \A u \in moved : RefsOk(task, u, p)
        /\ \A u \in R \ moved : task[u].parent = p
    BY <1>1
  <1> HIDE DEF R, moved
  <1>. QED
    BY <1>1, <1>2, MovesKeep

LEMMA ReorderKeeps ==
    ASSUME IInv, NEW p \in DOMAIN task \cup {None}, ReorderTasks(p)
    PROVE  IInv'
  <1> DEFINE R == {u \in DOMAIN task : task[u].parent = p}
             rows == [u \in R |-> Edited(task[u])]
  <1>1. Rewrite(rows) /\ DOMAIN rows = R /\ R \subseteq DOMAIN task /\ revision < MaxOps
    BY DEF ReorderTasks, Rewrite, Commit
  <1>2. \A u \in R : /\ rows[u] \in TaskRow /\ rows[u].parent = task[u].parent
                     /\ rows[u].doneBy \in Completing
    BY <1>1, Facts, Stamps DEF None
  <1> HIDE DEF R, rows
  <1>. QED
    BY <1>1, <1>2, KeptForest, RewriteKeeps

\* Rows rewritten in place, with their parent and a completion that may stand.
LEMMA InPlaceKeeps ==
    ASSUME IInv, NEW t \in DOMAIN task, NEW row, Rewrite(Only(t, row)),
           row \in TaskRow, row.parent = task[t].parent, row.doneBy = None
    PROVE  IInv'
  <1> DEFINE rows == Only(t, row)
  <1>1. DOMAIN rows = {t} /\ rows[t] = row /\ Rewrite(rows)
    BY DEF Only
  <1>2. None \in Completing
    BY Facts DEF Completing, None, IInv, TypeOK
  <1> HIDE DEF rows
  <1>. QED
    BY <1>1, <1>2, KeptForest, RewriteKeeps

LEMMA ChangeStatusKeeps ==
    ASSUME IInv, NEW t \in DOMAIN task, NEW from, NEW to \in Status, ChangeStatus(t, from, to)
    PROVE  IInv'
  <1> DEFINE row == [Stamp(task[t]) EXCEPT !.status = to, !.doneBy = None]
  <1>1. Rewrite(Only(t, row)) /\ revision < MaxOps
    BY DEF ChangeStatus, Rewrite, Commit
  <1>2. Stamp(task[t]) \in TaskRow /\ Stamp(task[t]).parent = task[t].parent
    BY <1>1, Facts, Stamps DEF None
  <1>3. row \in TaskRow /\ row.parent = task[t].parent /\ row.doneBy = None
    <2>1. None \in Ops
      BY Facts DEF None, Ops
    <2>. QED
      BY <1>2, <2>1 DEF TaskRow
  <1> HIDE DEF row
  <1>. QED
    BY <1>1, <1>3, InPlaceKeeps

-----------------------------------------------------------------------------
(***************************************************************************)
(* Creation, deletion and completion.                                      *)
(***************************************************************************)

LEMMA CreateKeeps ==
    ASSUME IInv, NEW p \in DOMAIN task \cup {None}, NEW rule \in BOOLEAN, CreateTask(p, rule)
    PROVE  IInv'
  <1> DEFINE t == lastId + 1
             row == [parent |-> p, status |-> "pending", source |-> None,
                     doneBy |-> None, rule |-> rule, content |-> Now, revision |-> Now]
             rows == Only(t, row)
             f == Update(task, rows)
             inverse == DeleteTasks({t})
  <1>1. /\ t \in Tasks /\ RefsOk(task, t, p)
        /\ Commit(f, comment, blocks, inverse, PostTasks(rows), None)
        /\ lastId' = t /\ usedComments' = usedComments /\ revision < MaxOps
    BY DEF CreateTask, Commit
  <1>2. row \in TaskRow /\ row.parent = p /\ row.doneBy \in Completing
    <2>1. p \in Tasks \cup {None} /\ None \in Ops /\ Now \in Ops /\ None \in Completing
      BY <1>1, Facts DEF Tasks, None, Ops, Now, Completing, IInv, TypeOK
    <2>. QED
      BY <2>1 DEF TaskRow, Status
  <1>3. DOMAIN rows = {t} /\ rows[t] = row /\ None # t /\ t \in Nat
    BY Facts DEF Only, None
  <1>4. Forest(f)
    <2>1. /\ DOMAIN f = DOMAIN task \cup {t} /\ f[t].parent = p
          /\ \A u \in DOMAIN task \ {t} : f[u].parent = task[u].parent
      BY <1>2, <1>3 DEF Update
    <2> DEFINE moved == {t}
    <2>2. /\ None \notin moved /\ \A u \in moved : RefsOk(task, u, p)
          /\ DOMAIN f = DOMAIN task \cup moved /\ \A u \in moved : f[u].parent = p
          /\ \A u \in DOMAIN task \ moved : f[u].parent = task[u].parent
      BY <1>1, <1>3, <2>1
    <2> HIDE DEF f, t, moved
    <2>. QED
      BY <2>2, Facts, MovedForest DEF IInv
  <1>5. GoodRows(rows, Completing, t)
    BY <1>2, <1>3, Facts DEF GoodRows
  <1>6. Following(inverse) = Completing /\ inverse.kind = "delete_tasks"
    BY DEF Following, DeleteTasks
  <1>7. GraphStays(f, comment, blocks, Completing, t)
    <2>1. GoodRows(task, Completing, t)
      BY Facts, TablesAreGood DEF GoodRows
    <2>2. GoodRows(f, Completing, t) /\ DOMAIN task \subseteq DOMAIN f
      BY <1>5, <2>1 DEF GoodRows, Update
    <2>. QED
      BY <1>4, <2>2, TablesAreGood DEF GraphStays, GoodComments
  <1>8. MaterialFits(inverse, PostTasks(rows), Completing, t)
    BY <1>5, <1>6, PostTasksSound DEF MaterialFits, InverseSound, Together
  <1>9. lastId' \in lastId..MaxTasks /\ usedComments' \subseteq Comments
    BY <1>1, Facts DEF IInv, TypeOK, Tasks
  <1>. QED
    <2> HIDE DEF f, rows, inverse, t
    <2>. QED
      BY <1>1, <1>6, <1>7, <1>8, <1>9, CommitKeeps

\* Deleted rows take their comments and relations along and leave roots behind.
LEMMA DeletedStays ==
    ASSUME IInv, NEW D
    PROVE  /\ GraphStays(DeleteRows(task, D), Without(comment, CommentsOf(D)),
                         blocks \ RelationsOf(D), Completing, lastId)
           /\ DOMAIN DeleteRows(task, D) = DOMAIN task \ D
           /\ \A t \in DOMAIN task \ D : DeleteRows(task, D)[t].status = task[t].status
  <1> DEFINE f == DeleteRows(task, D)
  <1>1. /\ DOMAIN f = DOMAIN task \ D
        /\ \A t \in DOMAIN task \ D :
              /\ f[t] \in TaskRow /\ f[t].doneBy = task[t].doneBy
              /\ f[t].status = task[t].status
              /\ f[t].parent = IF task[t].parent \in D THEN None ELSE task[t].parent
    <2>1. \A t \in DOMAIN task : task[t] \in TaskRow
      BY Facts
    <2>. QED
      BY <2>1 DEF DeleteRows, TaskRow, None
  <1>2. Forest(f)
    <2> HIDE DEF f
    <2>. QED
      BY <1>1, Facts, KeptOrRoot DEF IInv
  <1>3. GoodRows(f, Completing, lastId)
    BY <1>1, Facts DEF GoodRows
  <1>4. GoodComments(Without(comment, CommentsOf(D)), DOMAIN f)
    BY <1>1, TablesAreGood DEF GoodComments, Without, CommentsOf, Restrict
  <1>5. \A r \in blocks \ RelationsOf(D) : {r[1], r[2]} \subseteq DOMAIN f
    BY <1>1, TablesAreGood DEF RelationsOf
  <1>. QED
    BY <1>1, <1>2, <1>3, <1>4, <1>5 DEF GraphStays

LEMMA DeleteKeeps ==
    ASSUME IInv, NEW R \in Roots, DeleteTask(R)
    PROVE  IInv'
  <1> DEFINE D == UNION {Descendants(task, r) : r \in R}
             inverse == RestoreClosure(D)
             post == [NoPost EXCEPT !.absent = D]
  <1>1. /\ Commit(DeleteRows(task, D), Without(comment, CommentsOf(D)),
                  blocks \ RelationsOf(D), inverse, post, None)
        /\ lastId' = lastId /\ usedComments' = usedComments
    BY DEF DeleteTask
  <1>2. D \subseteq DOMAIN task
    BY DEF Descendants
  <1> HIDE DEF D
  <1>3. inverse.kind = "restore_closure" /\ Following(inverse) = Completing
    BY DEF RestoreClosure, Following
  <1>4. /\ DOMAIN inverse.tasks = D /\ \A t \in D : inverse.tasks[t] = task[t]
        /\ DOMAIN inverse.comments = CommentsOf(D)
        /\ \A c \in CommentsOf(D) : inverse.comments[c] = comment[c]
    BY DEF RestoreClosure, Restrict
  <1>5. GoodRows(inverse.tasks, Completing, lastId)
    BY <1>2, <1>4, Facts DEF GoodRows
  <1>6. Rooted(inverse.tasks)
    BY <1>2, <1>4 DEF IInv, Forest, Rooted
  <1>7. GoodComments(inverse.comments, DOMAIN inverse.tasks)
    BY <1>4, TablesAreGood DEF GoodComments, CommentsOf
  <1>8. post.absent = D /\ PostSound(post, Completing, lastId)
    BY <1>5, PostTasksSound
  <1>9. MaterialFits(inverse, post, Completing, lastId)
    BY <1>3, <1>4, <1>5, <1>6, <1>7, <1>8 DEF MaterialFits, InverseSound, Together
  <1>10. lastId' \in lastId..MaxTasks /\ usedComments' \subseteq Comments
    BY <1>1, Facts DEF IInv, TypeOK
  <1>. QED
    <2> HIDE DEF inverse, post
    <2>. QED
      BY <1>1, <1>3, <1>9, <1>10, DeletedStays, CommitKeeps

LEMMA FiniteTasks ==
    ASSUME IInv, NEW S, S \subseteq DOMAIN task
    PROVE  Cardinality(S) \in Nat
  <1>1. S \subseteq 1..lastId
    BY Facts
  <1>2. IsFiniteSet(1..lastId)
    BY Facts, FS_Interval
  <1>. QED
    BY <1>1, <1>2, FS_Subset, FS_CardinalityType

\* Completed rows keep their parents, the generated ones are roots with new ids.
LEMMA CompleteKeeps ==
    ASSUME IInv, NEW R \in Roots, CompleteTasks(R)
    PROVE  IInv'
  <1> DEFINE targets == {t \in UNION {Descendants(task, r) : r \in R} : task[t].status = "pending"}
             recurring == {t \in targets : task[t].rule}
             done == [t \in targets |->
                         [Stamp(task[t]) EXCEPT !.status = "completed", !.doneBy = Now]]
             n == Cardinality(recurring)
             born(kid) == [k \in Range(kid) |->
                 LET s == CHOOSE s \in recurring : kid[s] = k
                 IN  [parent |-> None, status |-> "pending", source |-> s,
                      doneBy |-> None, rule |-> TRUE, content |-> Now, revision |-> Now]]
  <1>1. /\ lastId + n \in Tasks /\ revision < MaxOps
        /\ lastId' = lastId + n /\ usedComments' = usedComments
        /\ \A r \in R : task[r].status = "pending"
    BY DEF CompleteTasks, Commit
  <1>2. PICK kid \in Bijection(recurring, lastId + 1 .. lastId + n) :
            Commit(Update(Update(task, done), born(kid)), comment, blocks,
                   ReverseCompletion(Restrict(task, targets), Range(kid)),
                   PostTasks(Update(done, born(kid))), None)
    BY DEF CompleteTasks
  <1>3. targets \subseteq DOMAIN task /\ targets # {}
    <2>1. PICK r \in R : TRUE
      BY DEF Roots
    <2>2. r \in DOMAIN task /\ r \in Descendants(task, r) /\ task[r].status = "pending"
      BY <1>1, <2>1 DEF Roots, Descendants, Descends
    <2>. QED
      BY <2>2 DEF Descendants
  <1>4. /\ n \in Nat /\ lastId + n <= MaxTasks
        /\ Range(kid) \subseteq lastId + 1 .. lastId + n
        /\ \A k \in Range(kid) : \E s \in recurring : kid[s] = k
    <2>1. recurring \subseteq DOMAIN task
      BY <1>3
    <2>2. n \in Nat
      BY <2>1, FiniteTasks
    <2>3. lastId + n <= MaxTasks
      BY <1>1, <2>2, Facts DEF Tasks
    <2>4. kid \in [recurring -> lastId + 1 .. lastId + n]
      BY <1>2 DEF Bijection, Injection
    <2>. QED
      BY <2>2, <2>3, <2>4 DEF Range
  <1>5. Now \in Ops /\ None \in Ops /\ None \in Completing /\ None \notin DOMAIN task
    BY <1>1, Facts DEF None, Ops, Now, Completing, IInv, TypeOK
  <1> DEFINE rows == Update(done, born(kid))
             f == Update(Update(task, done), born(kid))
             inverse == ReverseCompletion(Restrict(task, targets), Range(kid))
             last == lastId + n
  <1>6. \A t \in targets :
            /\ done[t] \in TaskRow /\ done[t].parent = task[t].parent /\ done[t].doneBy = Now
    <2> SUFFICES ASSUME NEW t \in targets
                 PROVE  /\ done[t] \in TaskRow /\ done[t].parent = task[t].parent
                        /\ done[t].doneBy = Now
      OBVIOUS
    <2>1. done[t] = [Stamp(task[t]) EXCEPT !.status = "completed", !.doneBy = Now]
      OBVIOUS
    <2>2. Stamp(task[t]) \in TaskRow /\ Stamp(task[t]).parent = task[t].parent
      BY <1>1, <1>3, Facts, Stamps
    <2> HIDE DEF done
    <2>. QED
      BY <1>5, <2>1, <2>2 DEF TaskRow, Status
  <1>7. \A k \in Range(kid) :
            /\ born(kid)[k] \in TaskRow /\ born(kid)[k].parent = None
            /\ born(kid)[k].doneBy = None /\ born(kid)[k].revision = Now
    <2> SUFFICES ASSUME NEW k \in Range(kid)
                 PROVE  /\ born(kid)[k] \in TaskRow /\ born(kid)[k].parent = None
                        /\ born(kid)[k].doneBy = None /\ born(kid)[k].revision = Now
      OBVIOUS
    <2>1. PICK s \in recurring : born(kid)[k] =
              [parent |-> None, status |-> "pending", source |-> s,
               doneBy |-> None, rule |-> TRUE, content |-> Now, revision |-> Now]
      BY <1>4
    <2>2. s \in Tasks
      BY <1>3, Facts DEF Tasks
    <2> HIDE DEF born, recurring
    <2>. QED
      BY <1>5, <2>1, <2>2 DEF TaskRow, Status
  <1>8. DOMAIN done = targets /\ DOMAIN born(kid) = Range(kid)
    OBVIOUS
  <1> HIDE DEF done, born, targets, recurring, n
  <1>9. targets \cap Range(kid) = {}
    BY <1>3, <1>4, Facts
  <1>10. Following(inverse) = Completing \cup {Now} /\ inverse.kind = "reverse_completion"
    BY DEF Following, ReverseCompletion
  <1>11. /\ inverse.tasks = Restrict(task, targets) /\ DOMAIN inverse.tasks = targets
         /\ inverse.generated = Range(kid)
    BY DEF ReverseCompletion, Restrict
  <1>12. GoodRows(rows, Completing \cup {Now}, last)
    BY <1>3, <1>4, <1>5, <1>6, <1>7, <1>8, Facts DEF GoodRows, Update
  <1>13. /\ DOMAIN f = DOMAIN task \cup Range(kid)
         /\ \A t \in DOMAIN f :
               f[t].parent = None \/ (t \in DOMAIN task /\ f[t].parent = task[t].parent)
         /\ GoodRows(f, Completing \cup {Now}, last)
    BY <1>3, <1>4, <1>5, <1>6, <1>7, <1>8, Facts DEF GoodRows, Update
  <1>14. GraphStays(f, comment, blocks, Completing \cup {Now}, last)
    <2>1. None \notin DOMAIN f /\ \A t \in DOMAIN f : f[t].parent \in DOMAIN f \cup {None}
      BY <1>4, <1>5, <1>13, Facts DEF None
    <2> HIDE DEF f
    <2>2. Forest(f)
      BY <1>13, <2>1, KeptOrRoot DEF IInv
    <2>. QED
      BY <1>13, <2>2, TablesAreGood DEF GraphStays, GoodComments
  <1>15. MaterialFits(inverse, PostTasks(rows), Completing \cup {Now}, last)
    <2>1. GoodRows(inverse.tasks, Completing \cup {Now}, last)
      BY <1>3, <1>4, <1>11, Facts DEF GoodRows, Restrict
    <2>2. PostTasks(rows).tasks = rows /\ PostSound(PostTasks(rows), Completing \cup {Now}, last)
      BY <1>12, PostTasksSound
    <2>3. \A t \in DOMAIN inverse.tasks :
             t \in DOMAIN rows /\ rows[t].parent = inverse.tasks[t].parent
      BY <1>6, <1>8, <1>9, <1>11 DEF Update, Restrict
    <2>4. \A t \in inverse.generated : t \in DOMAIN rows /\ rows[t].revision = Now
      BY <1>7, <1>8, <1>11 DEF Update
    <2>5. inverse.generated \subseteq 1..last /\ inverse.generated \cap 1..lastId = {}
      BY <1>4, <1>11, Facts
    <2> HIDE DEF inverse, rows, last
    <2>. QED
      BY <1>3, <1>10, <1>11, <2>1, <2>2, <2>3, <2>4, <2>5
         DEF MaterialFits, InverseSound, Together
  <1>16. lastId' = last /\ last \in lastId..MaxTasks /\ usedComments' \subseteq Comments
    BY <1>1, <1>4, Facts DEF IInv, TypeOK
  <1>17. Commit(f, comment, blocks, inverse, PostTasks(rows), None)
    BY <1>2
  <1>. QED
    <2> HIDE DEF f, inverse, rows, last
    <2>. QED
      BY <1>10, <1>14, <1>15, <1>16, <1>17, CommitKeeps

-----------------------------------------------------------------------------
(***************************************************************************)
(* Reversing completions.                                                  *)
(***************************************************************************)

\* Material of an undo: the rows as they will be, or the old post-image.
LEMMA CaptureSound ==
    ASSUME IInv, NEW o \in DOMAIN undo, NEW f, NEW cs, NEW T, NEW C,
           GoodRows(f, Completing, lastId), GoodComments(cs, Tasks)
    PROVE  PostSound(Capture(o, f, cs, T, C), Completing, lastId)
  <1> DEFINE post == [NoPost EXCEPT !.tasks = Restrict(f, T \cap DOMAIN f), !.absent = T \ DOMAIN f,
                                    !.comments = Restrict(cs, C \cap DOMAIN cs),
                                    !.absentComments = C \ DOMAIN cs]
  <1>1. PostSound(undo[o].post, Completing, lastId)
    BY DEF IInv, UndoMaterial
  <1>2. PostSound(post, Completing, lastId)
    <2>1. /\ post.tasks = Restrict(f, T \cap DOMAIN f)
          /\ post.comments = Restrict(cs, C \cap DOMAIN cs)
      BY DEF NoPost
    <2> HIDE DEF post
    <2>. QED
      BY <2>1 DEF PostSound, GoodRows, GoodComments, Restrict
  <1>. QED
    BY <1>1, <1>2 DEF Capture

\* What is in the material of the completions that are reversed.
LEMMA CompletionMaterial ==
    ASSUME IInv, NEW d \in DOMAIN undo, undo[d].inverse.kind = "reverse_completion"
    PROVE  /\ GoodRows(undo[d].inverse.tasks, Completing, lastId)
           /\ GoodRows(undo[d].post.tasks, Completing, lastId)
           /\ Together(d, undo[d].inverse, undo[d].post, lastId)
  BY DEF IInv, UndoMaterial, InverseSound, PostSound

\* The rows of tasks are kept or restored with the parents they have, and nothing
\* is under an occurrence that goes.
LEMMA ReversedRows ==
    ASSUME IInv, revision < MaxOps, NEW D, D \subseteq DOMAIN undo,
           \A d \in D : undo[d].inverse.kind = "reverse_completion",
           \A d \in D : PostImageHolds(d)
    PROVE  /\ Sources(D) \subseteq DOMAIN task
           /\ DOMAIN Reversed(D) = (DOMAIN task \ Generated(D)) \cup Sources(D)
           /\ \A t \in DOMAIN task : task[t].parent \notin Generated(D)
           /\ \A t \in DOMAIN Reversed(D) :
                 /\ Reversed(D)[t] \in TaskRow /\ Reversed(D)[t].doneBy \in Completing
                 /\ Reversed(D)[t].parent = task[t].parent
  <1> DEFINE G == Generated(D)
             S == Sources(D)
             source(t) == CHOOSE d \in D : t \in DOMAIN undo[d].inverse.tasks
             back == [t \in S |-> Stamp(undo[source(t)].inverse.tasks[t])]
  <1>1. \A t \in DOMAIN task : task[t].parent \notin G
    BY DEF PostImageHolds, Unreferenced, Generated
  <1>2. \A t \in S : source(t) \in D /\ t \in DOMAIN undo[source(t)].inverse.tasks
    BY DEF Sources
  <1>3. ASSUME NEW t \in S
        PROVE  /\ t \in DOMAIN task
               /\ back[t] \in TaskRow /\ back[t].doneBy \in Completing
               /\ back[t].parent = task[t].parent
    <2> DEFINE d == source(t)
               row == undo[d].inverse.tasks[t]
    <2>1. d \in DOMAIN undo /\ t \in DOMAIN undo[d].inverse.tasks
          /\ undo[d].inverse.kind = "reverse_completion" /\ PostImageHolds(d)
      BY <1>2
    <2>2. back[t] = Stamp(row)
      OBVIOUS
    <2> HIDE DEF d, back
    <2>3. /\ row \in TaskRow /\ row.doneBy \in Completing
          /\ t \in DOMAIN undo[d].post.tasks /\ undo[d].post.tasks[t].parent = row.parent
      BY <2>1, CompletionMaterial DEF GoodRows, Together
    <2>4. t \in DOMAIN task /\ task[t].parent = row.parent
      BY <2>1, <2>3 DEF PostImageHolds
    <2> HIDE DEF row
    <2>. QED
      BY <2>2, <2>3, <2>4, Stamps DEF None
  <1>4. DOMAIN back = S /\ Reversed(D) = Update(DeleteRows(task, G), back)
    BY DEF Reversed
  <1> HIDE DEF back
  <1>5. /\ DOMAIN DeleteRows(task, G) = DOMAIN task \ G
        /\ \A t \in DOMAIN task \ G :
              /\ DeleteRows(task, G)[t] \in TaskRow
              /\ DeleteRows(task, G)[t].doneBy \in Completing
              /\ DeleteRows(task, G)[t].parent = task[t].parent
    <2> HIDE DEF G
    <2>1. \A t \in DOMAIN task : task[t] \in TaskRow /\ task[t].doneBy \in Completing
      BY Facts
    <2>. QED
      BY <1>1, <2>1 DEF DeleteRows, TaskRow, None
  <1> HIDE DEF G, S
  <1>6. /\ DOMAIN Reversed(D) = (DOMAIN task \ G) \cup S
        /\ \A t \in DOMAIN Reversed(D) :
              Reversed(D)[t] = IF t \in S THEN back[t] ELSE DeleteRows(task, G)[t]
    BY <1>4, <1>5 DEF Update
  <1>. QED
    BY <1>1, <1>3, <1>5, <1>6 DEF G, S

\* A reversal commits rows with the parents they have.
LEMMA ReversalKeeps ==
    ASSUME IInv, NEW f, NEW D, NEW rows, NEW post, NEW undone,
           CommitReversal(f, D, RestoreTasks(rows), post, undone),
           undone \in DOMAIN undo \cup {None},
           GoodRows(rows, Completing, lastId), PostSound(post, Completing, lastId),
           DOMAIN task \ Generated(D) \subseteq DOMAIN f, DOMAIN f \subseteq DOMAIN task,
           \A t \in DOMAIN task : task[t].parent \notin Generated(D),
           \A t \in DOMAIN f : /\ f[t] \in TaskRow /\ f[t].doneBy \in Completing
                               /\ f[t].parent = task[t].parent
    PROVE  IInv'
  <1> DEFINE G == Generated(D)
             cs == Without(comment, CommentsOf(G))
             rs == blocks \ RelationsOf(G)
             inverse == RestoreTasks(rows)
  <1>1. /\ Commit(f, cs, rs, inverse, post, undone)
        /\ lastId' = lastId /\ usedComments' = usedComments
    BY DEF CommitReversal
  <1>2. inverse.kind = "restore_tasks" /\ inverse.tasks = rows /\ Following(inverse) = Completing
    BY DEF RestoreTasks, Following
  <1> HIDE DEF G
  <1>3. DOMAIN task \ G \subseteq DOMAIN f /\ \A t \in DOMAIN task : task[t].parent \notin G
    BY DEF G
  <1>4. Forest(f)
    BY <1>3, Facts, KeptOrRoot DEF IInv
  <1>5. GoodRows(f, Completing, lastId)
    BY Facts DEF GoodRows
  <1>6. GoodComments(cs, DOMAIN f)
    BY <1>3, TablesAreGood DEF GoodComments, Without, CommentsOf, Restrict
  <1>7. \A r \in rs : {r[1], r[2]} \subseteq DOMAIN f
    BY <1>3, TablesAreGood DEF RelationsOf
  <1>8. GraphStays(f, cs, rs, Completing, lastId)
    BY <1>4, <1>5, <1>6, <1>7 DEF GraphStays
  <1>9. MaterialFits(inverse, post, Completing, lastId)
    BY <1>2 DEF MaterialFits, InverseSound, Together
  <1>10. lastId' \in lastId..MaxTasks /\ usedComments' \subseteq Comments
    BY <1>1, Facts DEF IInv, TypeOK
  <1>. QED
    <2> HIDE DEF cs, rs, inverse
    <2>. QED
      BY <1>1, <1>2, <1>8, <1>9, <1>10, CommitKeeps

\* Rows reopened in place.
LEMMA UncompletedRow ==
    ASSUME IInv, revision < MaxOps, NEW t \in DOMAIN task
    PROVE  /\ Uncompleted(t) \in TaskRow /\ Uncompleted(t).parent = task[t].parent
           /\ Uncompleted(t).doneBy = None /\ None \in Completing
  <1>1. Stamp(task[t]) \in TaskRow /\ Stamp(task[t]).parent = task[t].parent
    BY Facts, Stamps DEF None
  <1>2. None \in Ops /\ None \in Completing
    BY Facts DEF None, Ops, Completing, IInv, TypeOK
  <1>. QED
    BY <1>1, <1>2 DEF Uncompleted, TaskRow, Status

LEMMA RetainedCompletion ==
    ASSUME IInv, NEW t \in DOMAIN task, task[t].doneBy \in DOMAIN undo
    PROVE  undo[task[t].doneBy].inverse.kind = "reverse_completion"
  BY Facts DEF Completing

LEMMA UncompleteKeeps ==
    ASSUME IInv, NEW t \in DOMAIN task, UncompleteTask(t)
    PROVE  IInv'
  <1> DEFINE d == task[t].doneBy
             f == Reversed({d})
             post == [PostTasks(Restrict(f, Sources({d}))) EXCEPT !.absent = Generated({d})]
  <1>1. CASE d \in DOMAIN undo
    <2> DEFINE D == {d}
    <2>1. CommitReversal(f, D, RestoreTasks(undo[d].post.tasks), post, None)
      BY <1>1 DEF UncompleteTask
    <2>2. /\ D \subseteq DOMAIN undo /\ revision < MaxOps
          /\ \A e \in D : undo[e].inverse.kind = "reverse_completion"
          /\ \A e \in D : PostImageHolds(e)
      BY <1>1, <2>1, RetainedCompletion DEF CommitReversal, Commit
    <2>3. GoodRows(undo[d].post.tasks, Completing, lastId)
      BY <1>1, <2>2, CompletionMaterial
    <2> HIDE DEF D
    <2>4. /\ Sources(D) \subseteq DOMAIN task
          /\ DOMAIN Reversed(D) = (DOMAIN task \ Generated(D)) \cup Sources(D)
          /\ \A u \in DOMAIN task : task[u].parent \notin Generated(D)
          /\ \A u \in DOMAIN Reversed(D) :
                /\ Reversed(D)[u] \in TaskRow /\ Reversed(D)[u].doneBy \in Completing
                /\ Reversed(D)[u].parent = task[u].parent
      BY <2>2, ReversedRows
    <2>5. GoodRows(Restrict(Reversed(D), Sources(D)), Completing, lastId)
      BY <2>4, Facts DEF GoodRows, Restrict
    <2>6. PostSound(post, Completing, lastId)
      BY <2>5, PostTasksSound DEF D
    <2>7. f = Reversed(D)
      BY DEF D
    <2> HIDE DEF f, post, d
    <2>. QED
      BY <2>1, <2>3, <2>4, <2>6, <2>7, ReversalKeeps
  <1>2. CASE d \notin DOMAIN undo
    <2>1. Rewrite(Only(t, Uncompleted(t))) /\ revision < MaxOps
      BY <1>2 DEF UncompleteTask, Rewrite, Commit
    <2>. QED
      BY <2>1, UncompletedRow, InPlaceKeeps
  <1>. QED
    BY <1>1, <1>2

LEMMA BulkUncompleteKeeps ==
    ASSUME IInv, NEW R \in Roots, BulkUncomplete(R)
    PROVE  IInv'
  <1> DEFINE all == {task[t].doneBy : t \in R} \ {None}
             D == all \cap DOMAIN undo
  <1>1. R \subseteq DOMAIN task
    BY DEF Roots
  <1>2. PICK first \in [all \ D -> R] :
            LET alone == Range(first) \cup {t \in R : task[t].doneBy = None}
                after == [t \in alone |-> Uncompleted(t)]
            IN  CommitReversal(Update(Reversed(D), after), D,
                    RestoreTasks(Update(CompletedImages(D), Restrict(task, alone))),
                    [PostTasks(after) EXCEPT !.absent = Generated(D)], None)
    BY DEF BulkUncomplete
  <1> DEFINE alone == Range(first) \cup {t \in R : task[t].doneBy = None}
             after == [t \in alone |-> Uncompleted(t)]
             f == Update(Reversed(D), after)
             rows == Update(CompletedImages(D), Restrict(task, alone))
             post == [PostTasks(after) EXCEPT !.absent = Generated(D)]
  <1>3. CommitReversal(f, D, RestoreTasks(rows), post, None)
    BY <1>2
  <1>4. alone \subseteq DOMAIN task
    BY <1>1 DEF Range
  <1>5. /\ D \subseteq DOMAIN undo /\ revision < MaxOps
        /\ \A d \in D : undo[d].inverse.kind = "reverse_completion"
        /\ \A d \in D : PostImageHolds(d)
    BY <1>1, <1>3, RetainedCompletion DEF CommitReversal, Commit
  <1> HIDE DEF all, D, alone
  <1>6. /\ Sources(D) \subseteq DOMAIN task
        /\ DOMAIN Reversed(D) = (DOMAIN task \ Generated(D)) \cup Sources(D)
        /\ \A t \in DOMAIN task : task[t].parent \notin Generated(D)
        /\ \A t \in DOMAIN Reversed(D) :
              /\ Reversed(D)[t] \in TaskRow /\ Reversed(D)[t].doneBy \in Completing
              /\ Reversed(D)[t].parent = task[t].parent
    BY <1>5, ReversedRows
  <1>7. /\ DOMAIN after = alone
        /\ \A t \in alone : /\ after[t] \in TaskRow /\ after[t].doneBy \in Completing
                            /\ after[t].parent = task[t].parent
    BY <1>4, <1>5, UncompletedRow
  <1>8. GoodRows(CompletedImages(D), Completing, lastId)
    <2> DEFINE image(t) == CHOOSE d \in D : t \in DOMAIN undo[d].post.tasks
    <2>1. \A t \in DOMAIN CompletedImages(D) :
              /\ image(t) \in D /\ t \in DOMAIN undo[image(t)].post.tasks
              /\ CompletedImages(D)[t] = undo[image(t)].post.tasks[t]
      BY DEF CompletedImages
    <2> HIDE DEF image
    <2>2. \A d \in D : GoodRows(undo[d].post.tasks, Completing, lastId)
      BY <1>5, CompletionMaterial
    <2>. QED
      BY <2>1, <2>2 DEF GoodRows
  <1> HIDE DEF after
  <1>9. GoodRows(rows, Completing, lastId)
    BY <1>4, <1>8, Facts DEF GoodRows, Update, Restrict
  <1>10. PostSound(post, Completing, lastId)
    <2>1. GoodRows(after, Completing, lastId)
      BY <1>4, <1>7, Facts DEF GoodRows
    <2>. QED
      BY <2>1, PostTasksSound
  <1>11. /\ DOMAIN task \ Generated(D) \subseteq DOMAIN f /\ DOMAIN f \subseteq DOMAIN task
         /\ \A t \in DOMAIN f : /\ f[t] \in TaskRow /\ f[t].doneBy \in Completing
                                /\ f[t].parent = task[t].parent
    BY <1>4, <1>6, <1>7 DEF Update
  <1> HIDE DEF f, rows, post
  <1>. QED
    BY <1>3, <1>6, <1>9, <1>10, <1>11, ReversalKeeps

LEMMA UndoCompletionKeeps ==
    ASSUME IInv, NEW o \in DOMAIN undo, UndoCompletion(o)
    PROVE  IInv'
  <1> DEFINE D == {o}
             T == DOMAIN undo[o].inverse.tasks \cup undo[o].inverse.generated
             post == Capture(o, Reversed(D), comment, T, {})
  <1>1. /\ CommitReversal(Reversed(D), D, RestoreTasks(undo[o].post.tasks), post, o)
        /\ undo[o].inverse.kind = "reverse_completion"
    BY DEF UndoCompletion
  <1>2. /\ D \subseteq DOMAIN undo /\ revision < MaxOps
        /\ \A d \in D : undo[d].inverse.kind = "reverse_completion"
        /\ \A d \in D : PostImageHolds(d)
    BY <1>1 DEF CommitReversal, Commit
  <1>3. GoodRows(undo[o].post.tasks, Completing, lastId)
    BY <1>1, CompletionMaterial
  <1> HIDE DEF D
  <1>4. /\ Sources(D) \subseteq DOMAIN task
        /\ DOMAIN Reversed(D) = (DOMAIN task \ Generated(D)) \cup Sources(D)
        /\ \A t \in DOMAIN task : task[t].parent \notin Generated(D)
        /\ \A t \in DOMAIN Reversed(D) :
              /\ Reversed(D)[t] \in TaskRow /\ Reversed(D)[t].doneBy \in Completing
              /\ Reversed(D)[t].parent = task[t].parent
    BY <1>2, ReversedRows
  <1>5. PostSound(post, Completing, lastId)
    <2>1. GoodRows(Reversed(D), Completing, lastId) /\ GoodComments(comment, Tasks)
      BY <1>4, Facts, TablesAreGood DEF GoodRows, GoodComments, Tasks
    <2>. QED
      BY <2>1, CaptureSound
  <1> HIDE DEF post
  <1>. QED
    BY <1>1, <1>3, <1>4, <1>5, ReversalKeeps

-----------------------------------------------------------------------------
(***************************************************************************)
(* Comments and relations.                                                 *)
(***************************************************************************)

\* A commit that leaves the tasks alone.
LEMMA AroundTasksKeeps ==
    ASSUME IInv, NEW cs, NEW rs, NEW inverse, NEW post, NEW undone,
           Commit(task, cs, rs, inverse, post, undone), lastId' = lastId,
           undone \in DOMAIN undo \cup {None}, usedComments' \subseteq Comments,
           GoodComments(cs, DOMAIN task), \A r \in rs : {r[1], r[2]} \subseteq DOMAIN task,
           InverseSound(inverse, Completing, lastId), PostSound(post, Completing, lastId),
           inverse.kind \in {"restore_comment", "restore_relation"}
    PROVE  IInv'
  <1>1. Following(inverse) = Completing
    BY DEF Following
  <1>2. GraphStays(task, cs, rs, Completing, lastId)
    BY TablesAreGood DEF GraphStays, IInv
  <1>3. MaterialFits(inverse, post, Completing, lastId)
    BY DEF MaterialFits, Together
  <1>4. lastId' \in lastId..MaxTasks
    BY Facts
  <1>. QED
    BY <1>1, <1>2, <1>3, <1>4, CommitKeeps

LEMMA CommentWritten ==
    ASSUME IInv, NEW c \in Comments, NEW row \in CommentRow, row.task \in DOMAIN task
    PROVE  /\ GoodComments(Update(comment, Only(c, row)), DOMAIN task)
           /\ PostSound([NoPost EXCEPT !.comments = Only(c, row)], Completing, lastId)
  <1>1. row.task \in Tasks
    BY DEF CommentRow
  <1>2. GoodComments(Update(comment, Only(c, row)), DOMAIN task)
    BY TablesAreGood DEF GoodComments, Update, Only
  <1>3. PostSound([NoPost EXCEPT !.comments = Only(c, row)], Completing, lastId)
    BY <1>1 DEF PostSound, GoodRows, GoodComments, NoPost, Only
  <1>. QED
    BY <1>2, <1>3

LEMMA CreateCommentKeeps ==
    ASSUME IInv, NEW c \in Comments, NEW t \in DOMAIN task, CreateComment(c, t)
    PROVE  IInv'
  <1> DEFINE row == [task |-> t, content |-> Now, updatedAt |-> Now]
             cs == Update(comment, Only(c, row))
             inverse == RestoreComment(c, <<>>)
             post == [NoPost EXCEPT !.comments = Only(c, row)]
  <1>1. /\ Commit(task, cs, blocks, inverse, post, None) /\ revision < MaxOps
        /\ lastId' = lastId /\ usedComments' = usedComments \cup {c}
    BY DEF CreateComment, Commit
  <1>2. row \in CommentRow /\ row.task \in DOMAIN task
    BY <1>1, Facts DEF CommentRow, Tasks, Ops, Now
  <1>3. inverse.kind = "restore_comment" /\ InverseSound(inverse, Completing, lastId)
    BY DEF RestoreComment, InverseSound
  <1> HIDE DEF row
  <1>4. GoodComments(cs, DOMAIN task) /\ PostSound(post, Completing, lastId)
    BY <1>2, CommentWritten
  <1>5. usedComments' \subseteq Comments
    BY <1>1 DEF IInv, TypeOK
  <1> HIDE DEF cs, inverse, post
  <1>. QED
    BY <1>1, <1>3, <1>4, <1>5, TablesAreGood, AroundTasksKeeps

LEMMA PatchCommentKeeps ==
    ASSUME IInv, NEW c \in DOMAIN comment, PatchComment(c)
    PROVE  IInv'
  <1> DEFINE row == [comment[c] EXCEPT !.content = Now, !.updatedAt = Now]
             cs == Update(comment, Only(c, row))
             inverse == RestoreComment(c, Only(c, comment[c]))
             post == [NoPost EXCEPT !.comments = Only(c, row)]
  <1>1. /\ Commit(task, cs, blocks, inverse, post, None) /\ revision < MaxOps
        /\ lastId' = lastId /\ usedComments' = usedComments
    BY DEF PatchComment, Commit
  <1>2. c \in Comments /\ comment[c] \in CommentRow /\ comment[c].task \in DOMAIN task
    BY TablesAreGood DEF GoodComments
  <1>3. row \in CommentRow /\ row.task \in DOMAIN task
    <2>1. Now \in Ops
      BY <1>1, Facts DEF Ops, Now
    <2>. QED
      BY <1>2, <2>1 DEF CommentRow
  <1>4. inverse.kind = "restore_comment" /\ InverseSound(inverse, Completing, lastId)
    BY <1>2 DEF RestoreComment, InverseSound, Only
  <1> HIDE DEF row
  <1>5. GoodComments(cs, DOMAIN task) /\ PostSound(post, Completing, lastId)
    BY <1>2, <1>3, CommentWritten
  <1>6. usedComments' \subseteq Comments
    BY <1>1 DEF IInv, TypeOK
  <1> HIDE DEF cs, inverse, post
  <1>. QED
    BY <1>1, <1>4, <1>5, <1>6, TablesAreGood, AroundTasksKeeps

LEMMA DeleteCommentKeeps ==
    ASSUME IInv, NEW c \in DOMAIN comment, DeleteComment(c)
    PROVE  IInv'
  <1> DEFINE cs == Without(comment, {c})
             inverse == RestoreComment(c, Only(c, comment[c]))
             post == [NoPost EXCEPT !.absentComments = {c}]
  <1>1. /\ Commit(task, cs, blocks, inverse, post, None)
        /\ lastId' = lastId /\ usedComments' = usedComments
    BY DEF DeleteComment
  <1>2. c \in Comments /\ comment[c] \in CommentRow
    BY TablesAreGood DEF GoodComments
  <1>3. inverse.kind = "restore_comment" /\ InverseSound(inverse, Completing, lastId)
    BY <1>2 DEF RestoreComment, InverseSound, Only
  <1>4. GoodComments(cs, DOMAIN task) /\ PostSound(post, Completing, lastId)
    BY TablesAreGood DEF GoodComments, Without, Restrict, PostSound, GoodRows, NoPost
  <1>5. usedComments' \subseteq Comments
    BY <1>1 DEF IInv, TypeOK
  <1> HIDE DEF cs, inverse, post
  <1>. QED
    BY <1>1, <1>3, <1>4, <1>5, TablesAreGood, AroundTasksKeeps

LEMMA RelationPost ==
    ASSUME NEW S
    PROVE  /\ PostSound([NoPost EXCEPT !.present = S], Completing, lastId)
           /\ PostSound([NoPost EXCEPT !.missing = S], Completing, lastId)
  BY DEF PostSound, GoodRows, GoodComments, NoPost

LEMMA AddRelationKeeps ==
    ASSUME IInv, NEW from \in DOMAIN task, NEW to \in DOMAIN task, AddRelation(from, to)
    PROVE  IInv'
  <1> DEFINE r == <<from, to>>
             rs == blocks \cup {r}
             inverse == RestoreRelation(r, FALSE)
             post == [NoPost EXCEPT !.present = {r}]
  <1>1. /\ Commit(task, comment, rs, inverse, post, None)
        /\ lastId' = lastId /\ usedComments' = usedComments
    BY DEF AddRelation
  <1>2. \A s \in rs : {s[1], s[2]} \subseteq DOMAIN task
    BY TablesAreGood
  <1>3. inverse.kind = "restore_relation" /\ InverseSound(inverse, Completing, lastId)
    BY DEF RestoreRelation, InverseSound
  <1>4. PostSound(post, Completing, lastId)
    BY RelationPost
  <1>5. usedComments' \subseteq Comments
    BY <1>1 DEF IInv, TypeOK
  <1> HIDE DEF rs, inverse, post
  <1>. QED
    BY <1>1, <1>2, <1>3, <1>4, <1>5, TablesAreGood, AroundTasksKeeps

LEMMA RemoveRelationKeeps ==
    ASSUME IInv, NEW r \in blocks, RemoveRelation(r)
    PROVE  IInv'
  <1> DEFINE rs == blocks \ {r}
             inverse == RestoreRelation(r, TRUE)
             post == [NoPost EXCEPT !.missing = {r}]
  <1>1. /\ Commit(task, comment, rs, inverse, post, None)
        /\ lastId' = lastId /\ usedComments' = usedComments
    BY DEF RemoveRelation
  <1>2. \A s \in rs : {s[1], s[2]} \subseteq DOMAIN task
    BY TablesAreGood
  <1>3. inverse.kind = "restore_relation" /\ InverseSound(inverse, Completing, lastId)
    BY DEF RestoreRelation, InverseSound
  <1>4. PostSound(post, Completing, lastId)
    BY RelationPost
  <1>5. usedComments' \subseteq Comments
    BY <1>1 DEF IInv, TypeOK
  <1> HIDE DEF rs, inverse, post
  <1>. QED
    BY <1>1, <1>2, <1>3, <1>4, <1>5, TablesAreGood, AroundTasksKeeps

-----------------------------------------------------------------------------
(***************************************************************************)
(* Undo.                                                                   *)
(***************************************************************************)

LEMMA CommitUndoKeeps ==
    ASSUME IInv, NEW o \in DOMAIN undo, NEW f, NEW cs, NEW rs, NEW redo, NEW T, NEW C,
           CommitUndo(o, f, cs, rs, redo, T, C),
           GraphStays(f, cs, rs, Completing, lastId),
           InverseSound(redo, Completing, lastId),
           redo.kind \notin {"restore_closure", "reverse_completion"}
    PROVE  IInv'
  <1> DEFINE post == Capture(o, f, cs, T, C)
  <1>1. /\ Commit(f, cs, rs, redo, post, o)
        /\ lastId' = lastId /\ usedComments' = usedComments
    BY DEF CommitUndo
  <1>2. Following(redo) = Completing
    BY DEF Following
  <1>3. PostSound(post, Completing, lastId)
    <2>1. DOMAIN f \subseteq Tasks
      BY Facts DEF GraphStays, GoodRows, Tasks
    <2>2. GoodRows(f, Completing, lastId) /\ GoodComments(cs, Tasks)
      BY <2>1 DEF GraphStays, GoodComments
    <2>. QED
      BY <2>2, CaptureSound
  <1> HIDE DEF post
  <1>4. MaterialFits(redo, post, Completing, lastId)
    BY <1>3 DEF MaterialFits, Together
  <1>5. lastId' \in lastId..MaxTasks /\ usedComments' \subseteq Comments
    BY <1>1, Facts DEF IInv, TypeOK
  <1>. QED
    BY <1>1, <1>2, <1>4, <1>5, CommitKeeps

\* The redo of a rewrite brings the rows back as they are told in the post-image.
LEMMA RedoSound ==
    ASSUME IInv, NEW o \in DOMAIN undo, NEW ids
    PROVE  /\ InverseSound(RestoreTasks(undo[o].post.tasks), Completing, lastId)
           /\ RestoreTasks(undo[o].post.tasks).kind = "restore_tasks"
           /\ InverseSound(DeleteTasks(ids), Completing, lastId)
           /\ DeleteTasks(ids).kind = "delete_tasks"
  <1>1. GoodRows(undo[o].post.tasks, Completing, lastId)
    BY DEF IInv, UndoMaterial, PostSound
  <1>. QED
    BY <1>1 DEF InverseSound, RestoreTasks, DeleteTasks

LEMMA UndoByDeletingKeeps ==
    ASSUME IInv, NEW o \in DOMAIN undo, UndoByDeleting(o)
    PROVE  IInv'
  <1> DEFINE D == undo[o].inverse.ids \cap DOMAIN task
  <1>1. CommitUndo(o, DeleteRows(task, D), Without(comment, CommentsOf(D)),
                   blocks \ RelationsOf(D), RestoreTasks(undo[o].post.tasks), D, {})
    BY DEF UndoByDeleting
  <1> HIDE DEF D
  <1>. QED
    BY <1>1, DeletedStays, RedoSound, CommitUndoKeeps

\* The closure comes back under what is there; none of it is there already.
LEMMA UndoDeletionKeeps ==
    ASSUME IInv, NEW o \in DOMAIN undo, UndoDeletion(o)
    PROVE  IInv'
  <1> DEFINE inv == undo[o].inverse
             f == Update(task, inv.tasks)
             cs == Update(comment, inv.comments)
             rs == blocks \cup inv.relations
  <1>1. /\ CommitUndo(o, f, cs, rs, DeleteTasks(DOMAIN inv.tasks), DOMAIN inv.tasks, {})
        /\ inv.kind = "restore_closure" /\ PostImageHolds(o)
        /\ \A t \in DOMAIN inv.tasks :
              inv.tasks[t].parent \in DOMAIN inv.tasks \cup DOMAIN task \cup {None}
        /\ \A r \in inv.relations : {r[1], r[2]} \subseteq DOMAIN f
    BY DEF UndoDeletion, CommitUndo, Undoable, Reinserted, Insertable, ClosureFits
  <1>2. /\ GoodRows(inv.tasks, Completing, lastId) /\ Rooted(inv.tasks)
        /\ GoodComments(inv.comments, DOMAIN inv.tasks)
        /\ DOMAIN inv.tasks \subseteq undo[o].post.absent
    BY <1>1 DEF IInv, UndoMaterial, InverseSound, Together
  <1>3. DOMAIN task \cap DOMAIN inv.tasks = {}
    BY <1>1, <1>2 DEF PostImageHolds
  <1>4. None \notin DOMAIN task \cup DOMAIN inv.tasks
    BY <1>2, Facts DEF GoodRows, None
  <1>5. DOMAIN f = DOMAIN task \cup DOMAIN inv.tasks
    BY DEF Update
  <1> HIDE DEF inv
  <1>6. Forest(f)
    BY <1>1, <1>2, <1>3, <1>4, RestoredForest DEF IInv
  <1>7. GoodRows(f, Completing, lastId)
    BY <1>2, TablesAreGood DEF GoodRows, Update
  <1>8. GoodComments(cs, DOMAIN f)
    <2> HIDE DEF f
    <2>. QED
      BY <1>2, <1>5, TablesAreGood DEF GoodComments, Update
  <1>9. \A r \in rs : {r[1], r[2]} \subseteq DOMAIN f
    <2> HIDE DEF f
    <2>. QED
      BY <1>1, <1>5, TablesAreGood
  <1>10. GraphStays(f, cs, rs, Completing, lastId)
    BY <1>6, <1>7, <1>8, <1>9 DEF GraphStays
  <1> HIDE DEF f, cs, rs
  <1>. QED
    BY <1>1, <1>10, RedoSound, CommitUndoKeeps

\* Rows written one by one, each where validate_task_refs allows it: were there a
\* first one after which the rows are no forest, it was allowed there.
LEMMA WrittenOneByOne ==
    ASSUME IInv, NEW rows, DOMAIN rows \subseteq 1..lastId, revision < MaxOps,
           \A t \in DOMAIN rows : rows[t] \in TaskRow,
           \A t \in DOMAIN rows : RestoreAllowed(rows, t)
    PROVE  Forest(RestoredUpTo(rows, MaxTasks))
  <1> DEFINE g == [n \in Nat |-> RestoredUpTo(rows, n)]
             Broken == {n \in 0..MaxTasks : ~Forest(g[n])}
  <1>0. \A u \in DOMAIN rows : u \in Nat /\ u >= 1
    BY Facts
  <1>1. ASSUME NEW n \in Nat
        PROVE  /\ DOMAIN g[n] = DOMAIN task \cup {u \in DOMAIN rows : u <= n}
               /\ \A u \in DOMAIN rows : u <= n => g[n][u].parent = rows[u].parent
               /\ \A u \in DOMAIN task : ~(u \in DOMAIN rows /\ u <= n) => g[n][u] = task[u]
    <2>1. \A u \in DOMAIN rows : Stamp(rows[u]).parent = rows[u].parent
      BY Stamps DEF None
    <2>. QED
      BY <2>1 DEF RestoredUpTo, Update
  <1>2. ASSUME Broken # {} PROVE FALSE
    <2>1. PICK n \in Broken : \A m \in Broken : n <= m
      <3>1. Broken \subseteq Nat
        BY Facts
      <3> HIDE DEF Broken
      <3>. QED
        BY <1>2, <3>1, LeastNatural
    <2>2. n \in Nat /\ n <= MaxTasks /\ ~Forest(g[n])
      BY <2>1, Facts
    <2> HIDE DEF g
    <2>3. n # 0
      <3>1. ASSUME n = 0 PROVE FALSE
        <4>1. /\ DOMAIN g[0] = DOMAIN task
              /\ \A u \in DOMAIN task : g[0][u] = task[u]
          <5>1. {u \in DOMAIN rows : u <= 0} = {}
            BY <1>0
          <5>. QED
            BY <1>1, <5>1
        <4>2. /\ None \notin DOMAIN g[0]
              /\ \A u \in DOMAIN g[0] : g[0][u].parent \in DOMAIN g[0] \cup {None}
              /\ \A u \in DOMAIN g[0] : u \in DOMAIN task /\ g[0][u].parent = task[u].parent
          BY <4>1, Facts
        <4>3. Forest(g[0])
          BY <4>2, KeptOrRoot DEF IInv
        <4>. QED
          BY <2>2, <3>1, <4>3
      <3>. QED
        BY <3>1
    <2>4. n - 1 \in Nat /\ Forest(g[n - 1])
      <3>1. n - 1 \in 0..MaxTasks /\ ~(n <= n - 1)
        BY <2>2, <2>3, Facts
      <3>2. n - 1 \notin Broken
        BY <2>1, <3>1
      <3>. QED
        BY <3>1, <3>2
    <2>5. None \notin DOMAIN g[n - 1] /\ None \notin DOMAIN g[n]
      BY <1>1, <2>2, <2>4, Facts DEF None
    <2>6. CASE n \notin DOMAIN rows
      <3>1. /\ DOMAIN g[n] = DOMAIN g[n - 1]
            /\ \A u \in DOMAIN g[n] : g[n][u].parent = g[n - 1][u].parent
        <4>1. \A u \in DOMAIN rows : u <= n <=> u <= n - 1
          BY <1>0, <2>2, <2>4, <2>6
        <4>. QED
          BY <1>1, <2>2, <2>4, <4>1
      <3>2. \A u \in DOMAIN g[n] : g[n][u].parent \in DOMAIN g[n] \cup {None}
        BY <2>4, <3>1 DEF Forest
      <3>3. Forest(g[n])
        BY <2>4, <2>5, <3>1, <3>2, KeptOrRoot
      <3>. QED
        BY <2>2, <3>3
    <2>7. CASE n \in DOMAIN rows
      <3> DEFINE R == {n}
                 p == rows[n].parent
      <3>1. RefsOk(g[n - 1], n, p)
        BY <2>2, <2>4, <2>7 DEF RestoreAllowed, g
      <3>2. p \in DOMAIN g[n - 1] \cup {None}
        BY <3>1 DEF RefsOk
      <3>3. /\ DOMAIN g[n] = DOMAIN g[n - 1] \cup R
            /\ \A u \in R : g[n][u].parent = p
            /\ \A u \in DOMAIN g[n - 1] \ R : g[n][u].parent = g[n - 1][u].parent
        BY <1>1, <2>2, <2>4, <2>7, Facts
      <3>4. None \notin R /\ \A u \in R : RefsOk(g[n - 1], u, p)
        BY <2>3, <3>1 DEF None
      <3> HIDE DEF R, p
      <3>5. Forest(g[n])
        BY <2>4, <2>5, <3>2, <3>3, <3>4, MovedForest
      <3>. QED
        BY <2>2, <3>5
    <2>. QED
      BY <2>6, <2>7
  <1>. QED
    BY <1>2, Facts DEF Broken

LEMMA UndoRewriteKeeps ==
    ASSUME IInv, NEW o \in DOMAIN undo, UndoRewrite(o)
    PROVE  IInv'
  <1> DEFINE rows == undo[o].inverse.tasks
             post == undo[o].post
             f == RestoredUpTo(rows, MaxTasks)
             redo == IF post.tasks = <<>> /\ post.absent # {} THEN DeleteTasks(post.absent)
                                                              ELSE RestoreTasks(post.tasks)
  <1>1. /\ undo[o].inverse.kind = "restore_tasks" /\ revision < MaxOps
        /\ \A t \in DOMAIN rows : RestoreAllowed(rows, t)
        /\ CommitUndo(o, f, comment, blocks, redo, DOMAIN rows, {})
    BY DEF UndoRewrite, CommitUndo, Commit, RowsFit
  <1>2. GoodRows(rows, Completing, lastId)
    BY <1>1 DEF IInv, UndoMaterial, InverseSound
  <1> HIDE DEF rows
  <1>3. Forest(f)
    BY <1>1, <1>2, WrittenOneByOne DEF GoodRows
  <1>4. GoodRows(f, Completing, lastId) /\ DOMAIN task \subseteq DOMAIN f
    <2>1. \A t \in DOMAIN rows : Stamp(rows[t]) \in TaskRow /\ Stamp(rows[t]).doneBy \in Completing
      BY <1>1, <1>2, Stamps DEF GoodRows, None
    <2>. QED
      BY <1>2, <2>1, TablesAreGood DEF GoodRows, RestoredUpTo, Update
  <1>5. GraphStays(f, comment, blocks, Completing, lastId)
    <2> HIDE DEF f
    <2>. QED
      BY <1>3, <1>4, TablesAreGood DEF GraphStays, GoodComments
  <1>6. /\ InverseSound(redo, Completing, lastId)
        /\ redo.kind \notin {"restore_closure", "reverse_completion"}
    BY RedoSound
  <1> HIDE DEF f, redo
  <1>. QED
    BY <1>1, <1>5, <1>6, CommitUndoKeeps

LEMMA UndoCommentKeeps ==
    ASSUME IInv, NEW o \in DOMAIN undo, UndoComment(o)
    PROVE  IInv'
  <1> DEFINE inv == undo[o].inverse
             c == inv.id
             post == undo[o].post
             redo == RestoreComment(c, IF c \in DOMAIN post.comments
                                       THEN Only(c, post.comments[c]) ELSE inv.before)
             row == [inv.before[c] EXCEPT !.updatedAt = Now]
  <1>1. inv.kind = "restore_comment" /\ revision < MaxOps
    BY DEF UndoComment, CommitUndo, Commit
  <1>2. /\ c \in Comments
        /\ inv.before = <<>> \/ (c \in DOMAIN inv.before /\ inv.before[c] \in CommentRow)
        /\ GoodComments(post.comments, Tasks)
    BY <1>1 DEF IInv, UndoMaterial, InverseSound, PostSound
  <1>3. InverseSound(redo, Completing, lastId) /\ redo.kind = "restore_comment"
    <2>1. ASSUME c \in DOMAIN post.comments
          PROVE  /\ c \in DOMAIN Only(c, post.comments[c])
                 /\ Only(c, post.comments[c])[c] \in CommentRow
      BY <1>2, <2>1 DEF GoodComments, Only
    <2>2. /\ redo.kind = "restore_comment" /\ redo.id = c
          /\ redo.before = IF c \in DOMAIN post.comments
                           THEN Only(c, post.comments[c]) ELSE inv.before
      BY DEF RestoreComment
    <2> HIDE DEF redo
    <2>. QED
      BY <1>2, <2>1, <2>2 DEF InverseSound
  <1>4. CASE inv.before = <<>>
    <2> DEFINE cs == Without(comment, {c})
    <2>1. CommitUndo(o, task, cs, blocks, redo, {comment[c].task}, {c})
      BY <1>4 DEF UndoComment
    <2>2. GoodComments(cs, DOMAIN task)
      BY TablesAreGood DEF GoodComments, Without, Restrict
    <2> HIDE DEF cs, redo
    <2>3. GraphStays(task, cs, blocks, Completing, lastId)
      BY <2>2, TablesAreGood DEF GraphStays, IInv
    <2>. QED
      BY <1>3, <2>1, <2>3, CommitUndoKeeps
  <1>5. CASE inv.before # <<>>
    <2> DEFINE cs == Update(comment, Only(c, row))
    <2>1. /\ CommitUndo(o, task, cs, blocks, redo, {inv.before[c].task}, {c})
          /\ inv.before[c].task \in DOMAIN task
      BY <1>5 DEF UndoComment, CommentFits
    <2>2. row \in CommentRow /\ row.task \in DOMAIN task
      <3>1. Now \in Ops
        BY <1>1, Facts DEF Ops, Now
      <3>. QED
        BY <1>2, <1>5, <2>1, <3>1 DEF CommentRow
    <2> HIDE DEF row
    <2>3. GoodComments(cs, DOMAIN task)
      BY <1>2, <2>2, CommentWritten
    <2> HIDE DEF cs, redo
    <2>4. GraphStays(task, cs, blocks, Completing, lastId)
      BY <2>3, TablesAreGood DEF GraphStays, IInv
    <2>. QED
      BY <1>3, <2>1, <2>4, CommitUndoKeeps
  <1>. QED
    BY <1>4, <1>5

LEMMA UndoRelationKeeps ==
    ASSUME IInv, NEW o \in DOMAIN undo, UndoRelation(o)
    PROVE  IInv'
  <1> DEFINE inv == undo[o].inverse
             r == inv.relation
             rs == IF inv.present THEN blocks \cup {r} ELSE blocks \ {r}
             redo == RestoreRelation(r, ~inv.present)
  <1>1. /\ CommitUndo(o, task, comment, rs, redo, {r[1], r[2]}, {})
        /\ inv.present => {r[1], r[2]} \subseteq DOMAIN task
    BY DEF UndoRelation, RelationFits
  <1>2. \A s \in rs : {s[1], s[2]} \subseteq DOMAIN task
    BY <1>1, TablesAreGood
  <1>3. redo.kind = "restore_relation" /\ InverseSound(redo, Completing, lastId)
    BY DEF RestoreRelation, InverseSound
  <1>4. GraphStays(task, comment, rs, Completing, lastId)
    BY <1>2, TablesAreGood DEF GraphStays, IInv
  <1> HIDE DEF rs, redo
  <1>. QED
    BY <1>1, <1>3, <1>4, CommitUndoKeeps

-----------------------------------------------------------------------------
(***************************************************************************)
(* The invariant.                                                          *)
(***************************************************************************)

LEMMA InitSound == Init => IInv
  <1> SUFFICES ASSUME Init PROVE IInv
    OBVIOUS
  <1>1. /\ DOMAIN task = 1..Seeded /\ Seeded \in Nat /\ Seeded <= MaxTasks
        /\ MaxTasks \in Nat /\ MaxOps \in Nat /\ revision = 0 /\ lastId = Seeded
        /\ DOMAIN comment = {} /\ blocks = {} /\ DOMAIN undo = {} /\ usedComments = {}
    BY BoundsAssumption DEF Init
  <1>2. \A t \in DOMAIN task : /\ task[t] \in TaskRow /\ task[t].doneBy = 0
                               /\ task[t].source = None
                               /\ RefsOk(task, t, task[t].parent)
    BY DEF Init
  <1>3. Completing = {0}
    BY <1>1 DEF Completing
  <1>4. Forest(task)
    <2>1. IsFiniteSet(DOMAIN task) /\ None \notin DOMAIN task
      BY <1>1, FS_Interval DEF None
    <2>. QED
      BY <1>2, <2>1, AllRefsForest
  <1>5. GoodRows(task, Completing, lastId)
    BY <1>1, <1>2, <1>3 DEF GoodRows
  <1>6. TypeOK
    <2>1. LineageOk(task)
      BY <1>2 DEF LineageOk
    <2>. QED
      BY <1>1, <1>2, <2>1 DEF TypeOK, Tasks, Ops
  <1>7. UndoMaterial /\ GeneratedOnce
    BY <1>1 DEF UndoMaterial, GeneratedOnce
  <1>. QED
    BY <1>4, <1>5, <1>6, <1>7 DEF IInv

\* An operation that is no longer retained may have been anything.
LEMMA ExpireKeeps == ASSUME IInv, Expire PROVE IInv'
  <1>1. /\ DOMAIN undo' \subseteq DOMAIN undo /\ \A o \in DOMAIN undo' : undo'[o] = undo[o]
        /\ task' = task /\ comment' = comment /\ blocks' = blocks /\ revision' = revision
        /\ lastId' = lastId /\ usedComments' = usedComments
    BY DEF Expire, Without, Restrict
  <1>2. Completing \subseteq Completing'
    BY <1>1 DEF Completing
  <1> DEFINE D == Completing'
  <1>3. GoodRows(task, D, lastId)
    BY <1>2, TablesAreGood DEF GoodRows
  <1>4. \A o \in DOMAIN undo :
            /\ InverseSound(undo[o].inverse, D, lastId)
            /\ PostSound(undo[o].post, D, lastId)
            /\ Together(o, undo[o].inverse, undo[o].post, lastId)
    <2> HIDE DEF D
    <2>1. lastId <= lastId /\ lastId \in Nat /\ Completing \subseteq D
      BY <1>2, Facts DEF D
    <2>2. ASSUME NEW o \in DOMAIN undo
          PROVE  /\ InverseSound(undo[o].inverse, D, lastId)
                 /\ PostSound(undo[o].post, D, lastId)
                 /\ Together(o, undo[o].inverse, undo[o].post, lastId)
      <3>1. /\ InverseSound(undo[o].inverse, Completing, lastId)
            /\ PostSound(undo[o].post, Completing, lastId)
            /\ Together(o, undo[o].inverse, undo[o].post, lastId)
        BY DEF IInv, UndoMaterial
      <3>. QED
        BY <2>1, <3>1, MaterialStaysSound
    <2>. QED
      BY <2>2
  <1>5. UndoMaterial'
    <2>1. Completing' = D
      OBVIOUS
    <2> HIDE DEF D
    <2>. QED
      BY <1>1, <1>4, <2>1
         DEF IInv, UndoMaterial, InverseSound, PostSound, Together, GoodRows, GoodComments, Rooted
  <1>6. TypeOK' /\ Forest(task)' /\ GeneratedOnce'
    BY <1>1 DEF IInv, TypeOK, LineageOk, Forest, Rooted, GeneratedOnce
  <1>7. GoodRows(task, Completing, lastId)'
    BY <1>1, <1>3 DEF GoodRows
  <1>. QED
    BY <1>5, <1>6, <1>7 DEF IInv

LEMMA UndoKeeps ==
    ASSUME IInv, NEW o \in DOMAIN undo, Undo(o)
    PROVE  IInv'
  BY UndoByDeletingKeeps, UndoDeletionKeeps, UndoCompletionKeeps, UndoRewriteKeeps,
     UndoCommentKeeps, UndoRelationKeeps DEF Undo

LEMMA StepSound == IInv /\ [Next]_vars => IInv'
  <1> SUFFICES ASSUME IInv, [Next]_vars PROVE IInv'
    OBVIOUS
  <1>1. CASE \E p \in DOMAIN task \cup {None}, rule \in BOOLEAN : CreateTask(p, rule)
    BY <1>1, CreateKeeps
  <1>2. CASE \E t \in DOMAIN task, p \in DOMAIN task \cup {None} :
                 PatchTask(t, p) \/ MoveAnchored(t, p)
    BY <1>2, PatchKeeps, MoveAnchoredKeeps
  <1>3. CASE \E R \in Roots, p \in DOMAIN task \cup {None} : BulkMove(R, p)
    BY <1>3, BulkMoveKeeps
  <1>4. CASE \E p \in DOMAIN task \cup {None} : ReorderTasks(p)
    BY <1>4, ReorderKeeps
  <1>5. CASE \E R \in Roots : CompleteTasks(R) \/ DeleteTask(R) \/ BulkUncomplete(R)
    BY <1>5, CompleteKeeps, DeleteKeeps, BulkUncompleteKeeps
  <1>6. CASE \E t \in DOMAIN task : CancelTask(t) \/ ReopenTask(t)
    BY <1>6, ChangeStatusKeeps DEF CancelTask, ReopenTask, Status
  <1>7. CASE \E t \in DOMAIN task : UncompleteTask(t)
    BY <1>7, UncompleteKeeps
  <1>8. CASE \E c \in Comments, t \in DOMAIN task : CreateComment(c, t)
    BY <1>8, CreateCommentKeeps
  <1>9. CASE \E c \in DOMAIN comment : PatchComment(c) \/ DeleteComment(c)
    BY <1>9, PatchCommentKeeps, DeleteCommentKeeps
  <1>10. CASE \E from, to \in DOMAIN task : AddRelation(from, to)
    BY <1>10, AddRelationKeeps
  <1>11. CASE \E r \in blocks : RemoveRelation(r)
    BY <1>11, RemoveRelationKeeps
  <1>12. CASE \E o \in DOMAIN undo : Undo(o)
    BY <1>12, UndoKeeps
  <1>13. CASE Expire
    BY <1>13, ExpireKeeps
  <1>14. CASE UNCHANGED vars
    <2>1. Completing' = Completing
      BY <1>14 DEF Completing, vars
    <2>. QED
      BY <1>14, <2>1 DEF vars, IInv, TypeOK, LineageOk, Forest, Rooted, GoodRows, UndoMaterial,
         GeneratedOnce, InverseSound, PostSound, Together, GoodComments
  <1>. QED
    BY <1>1, <1>2, <1>3, <1>4, <1>5, <1>6, <1>7, <1>8, <1>9, <1>10, <1>11, <1>12, <1>13, <1>14
       DEF Next

\* The invariant holds in every reachable state, for any number of tasks and operations.
THEOREM Invariance == Spec => []IInv
  BY InitSound, StepSound, PTL DEF Spec

\* However tasks are moved, completed, deleted, restored and redone, no reference
\* dangles and the hierarchy has no cycle.
THEOREM HierarchyStaysForest == Spec => []GraphSound
  <1>1. IInv => GraphSound
    BY DEF IInv, Forest, Rooted, GraphSound, HierarchyIsForest
  <1>. QED
    BY Invariance, <1>1, PTL

-----------------------------------------------------------------------------
(***************************************************************************)
(* What the reversal of a completion removes.                              *)
(***************************************************************************)

\* An occurrence as it was generated, which nothing refers to.
Untouched(d, t) ==
    /\ task[t].revision = d
    /\ \A u \in DOMAIN task : t \notin {task[u].parent, task[u].source}
    /\ \A c \in DOMAIN comment : comment[c].task # t
    /\ \A r \in blocks : t \notin {r[1], r[2]}

\* Only one completion generated it, and that one's post-image still holds.
LEMMA ReversalRemovesUntouched ==
    ASSUME IInv, NEW D, D \subseteq DOMAIN undo,
           \A e \in D : undo[e].inverse.kind = "reverse_completion" /\ PostImageHolds(e),
           NEW d \in DOMAIN undo, undo[d].inverse.kind = "reverse_completion",
           NEW t \in undo[d].inverse.generated, t \in DOMAIN task, t \in Generated(D)
    PROVE  Untouched(d, t)
  <1>1. PICK e \in D : t \in undo[e].inverse.generated
    BY DEF Generated
  <1>2. e = d
    BY <1>1 DEF IInv, GeneratedOnce
  <1>3. PostImageHolds(d) /\ Unreferenced(undo[d].inverse.generated)
    BY <1>1, <1>2 DEF PostImageHolds
  <1>4. t \in DOMAIN undo[d].post.tasks /\ undo[d].post.tasks[t].revision = d
    BY CompletionMaterial DEF Together
  <1>5. task[t].revision = d
    BY <1>3, <1>4 DEF PostImageHolds
  <1>6. \A u \in DOMAIN task : task[u].parent # t /\ task[u].source # t
    BY <1>3 DEF Unreferenced
  <1>7. \A c \in DOMAIN comment : comment[c].task # t
    BY <1>3 DEF Unreferenced, CommentsOf
  <1>8. \A r \in blocks : r[1] # t /\ r[2] # t
    BY <1>3 DEF Unreferenced, RelationsOf
  <1>. QED
    BY <1>5, <1>6, <1>7, <1>8 DEF Untouched

\* What removes tasks: a reversal, or a deletion, which reopens none.
LEMMA Removals ==
    ASSUME IInv, Next
    PROVE  \/ DOMAIN task \subseteq DOMAIN task'
           \/ \A t \in DOMAIN task \cap DOMAIN task' : task'[t].status = task[t].status
           \/ \E D \in SUBSET DOMAIN undo :
                 /\ \A e \in D : undo[e].inverse.kind = "reverse_completion" /\ PostImageHolds(e)
                 /\ DOMAIN task \ Generated(D) \subseteq DOMAIN task'
  <1> DEFINE Grows == DOMAIN task \subseteq DOMAIN task'
             Reopens == ~\A t \in DOMAIN task \cap DOMAIN task' : task'[t].status = task[t].status
             Reverses(D) ==
                 /\ D \subseteq DOMAIN undo
                 /\ \A e \in D : undo[e].inverse.kind = "reverse_completion" /\ PostImageHolds(e)
                 /\ DOMAIN task \ Generated(D) \subseteq DOMAIN task'
  <1>1. ASSUME NEW rows, Rewrite(rows) PROVE Grows
    BY <1>1 DEF Rewrite, Commit, Update
  <1>2. CASE \E p \in DOMAIN task \cup {None}, rule \in BOOLEAN : CreateTask(p, rule)
    <2>1. PICK p \in DOMAIN task \cup {None}, rule \in BOOLEAN : CreateTask(p, rule)
      BY <1>2
    <2>2. \E g : task' = Update(task, g)
      BY <2>1 DEF CreateTask, Commit
    <2>. QED
      BY <2>2 DEF Update
  <1>3. CASE \E t \in DOMAIN task, p \in DOMAIN task \cup {None} :
                 PatchTask(t, p) \/ MoveAnchored(t, p)
    BY <1>1, <1>3 DEF PatchTask, MoveAnchored
  <1>4. CASE \/ \E R \in Roots, p \in DOMAIN task \cup {None} : BulkMove(R, p)
             \/ \E p \in DOMAIN task \cup {None} : ReorderTasks(p)
    BY <1>1, <1>4 DEF BulkMove, ReorderTasks
  <1>5. CASE \E R \in Roots : CompleteTasks(R)
    <2>1. PICK R \in Roots : CompleteTasks(R)
      BY <1>5
    <2>2. \E g, h : task' = Update(Update(task, g), h)
      BY <2>1 DEF CompleteTasks, Commit
    <2>. QED
      BY <2>2 DEF Update
  <1>6. CASE \E t \in DOMAIN task : CancelTask(t) \/ ReopenTask(t)
    BY <1>1, <1>6 DEF CancelTask, ReopenTask, ChangeStatus
  <1>7. CASE \E R \in Roots : DeleteTask(R)
    <2>1. PICK D : task' = DeleteRows(task, D)
      BY <1>7 DEF DeleteTask, Commit
    <2>2. ~Reopens
      BY <2>1, DeletedStays
    <2>. QED
      BY <2>2
  <1>8. ASSUME NEW f, NEW D, NEW inverse, NEW post, NEW undone,
               CommitReversal(f, D, inverse, post, undone), D \subseteq DOMAIN undo,
               \A e \in D : undo[e].inverse.kind = "reverse_completion",
               DOMAIN Reversed(D) \subseteq DOMAIN f
        PROVE  Reverses(D)
    <2>1. task' = f /\ \A e \in D : PostImageHolds(e)
      BY <1>8 DEF CommitReversal, Commit
    <2>2. DOMAIN task \ Generated(D) \subseteq DOMAIN Reversed(D)
      BY DEF Reversed, Update, DeleteRows
    <2>. QED
      BY <1>8, <2>1, <2>2
  <1>9. CASE \E t \in DOMAIN task : UncompleteTask(t)
    <2>1. PICK t \in DOMAIN task : UncompleteTask(t)
      BY <1>9
    <2>2. CASE task[t].doneBy \in DOMAIN undo
      <3> DEFINE D == {task[t].doneBy}
      <3>1. \E inverse, post : CommitReversal(Reversed(D), D, inverse, post, None)
        BY <2>1, <2>2 DEF UncompleteTask
      <3>2. D \subseteq DOMAIN undo /\ \A e \in D : undo[e].inverse.kind = "reverse_completion"
        BY <2>2, RetainedCompletion
      <3> HIDE DEF D
      <3>. QED
        BY <1>8, <3>1, <3>2
    <2>3. CASE task[t].doneBy \notin DOMAIN undo
      BY <1>1, <2>1, <2>3 DEF UncompleteTask
    <2>. QED
      BY <2>2, <2>3
  <1>10. CASE \E R \in Roots : BulkUncomplete(R)
    <2>1. PICK R \in Roots : BulkUncomplete(R)
      BY <1>10
    <2> DEFINE D == ({task[t].doneBy : t \in R} \ {None}) \cap DOMAIN undo
    <2>2. \E g, inverse, post :
              CommitReversal(Update(Reversed(D), g), D, inverse, post, None)
      BY <2>1 DEF BulkUncomplete
    <2>3. D \subseteq DOMAIN undo /\ \A e \in D : undo[e].inverse.kind = "reverse_completion"
      BY RetainedCompletion DEF Roots
    <2>4. \A g : DOMAIN Reversed(D) \subseteq DOMAIN Update(Reversed(D), g)
      BY DEF Update
    <2> HIDE DEF D
    <2>. QED
      BY <1>8, <2>2, <2>3, <2>4
  <1>11. CASE \/ \E c \in Comments, t \in DOMAIN task : CreateComment(c, t)
              \/ \E c \in DOMAIN comment : PatchComment(c) \/ DeleteComment(c)
    BY <1>11 DEF CreateComment, PatchComment, DeleteComment, Commit
  <1>12. CASE \/ \E from, to \in DOMAIN task : AddRelation(from, to)
              \/ \E r \in blocks : RemoveRelation(r)
              \/ Expire
    BY <1>12 DEF AddRelation, RemoveRelation, Expire, Commit
  <1>13. ASSUME NEW o \in DOMAIN undo, Undo(o)
         PROVE  Grows \/ ~Reopens \/ \E D \in SUBSET DOMAIN undo : Reverses(D)
    <2>1. CASE UndoByDeleting(o)
      <3>1. PICK D : task' = DeleteRows(task, D)
        BY <2>1 DEF UndoByDeleting, CommitUndo, Commit
      <3>2. ~Reopens
        BY <3>1, DeletedStays
      <3>. QED
        BY <3>2
    <2>2. CASE UndoDeletion(o)
      BY <2>2 DEF UndoDeletion, CommitUndo, Commit, Reinserted, Update
    <2>3. CASE UndoCompletion(o)
      <3> DEFINE D == {o}
      <3>1. \E inverse, post : CommitReversal(Reversed(D), D, inverse, post, o)
        BY <2>3 DEF UndoCompletion
      <3>2. D \subseteq DOMAIN undo /\ \A e \in D : undo[e].inverse.kind = "reverse_completion"
        BY <2>3 DEF UndoCompletion
      <3> HIDE DEF D
      <3>. QED
        BY <1>8, <3>1, <3>2
    <2>4. CASE UndoRewrite(o)
      BY <2>4 DEF UndoRewrite, CommitUndo, Commit, RestoredUpTo, Update
    <2>5. CASE UndoComment(o) \/ UndoRelation(o)
      BY <2>5 DEF UndoComment, UndoRelation, CommitUndo, Commit
    <2>. QED
      BY <1>13, <2>1, <2>2, <2>3, <2>4, <2>5 DEF Undo
  <1>. QED
    BY <1>2, <1>3, <1>4, <1>5, <1>6, <1>7, <1>9, <1>10, <1>11, <1>12, <1>13 DEF Next

\* Undoing or reversing a completion removes an occurrence only as it was generated:
\* whoever wrote to it, put a task under it, commented on it or related it keeps it.
THEOREM ReversalSparesWork == Spec => ReversalSparesNewWork
  <1>1. IInv /\ [Next]_vars =>
            [\A d \in DOMAIN undo :
                ReversesNow(d) =>
                    \A t \in undo[d].inverse.generated \cap (DOMAIN task \ DOMAIN task') :
                        /\ task[t].revision = d
                        /\ \A u \in DOMAIN task : t \notin {task[u].parent, task[u].source}
                        /\ \A c \in DOMAIN comment : comment[c].task # t
                        /\ \A r \in blocks : t \notin {r[1], r[2]}]_vars
    <2> SUFFICES ASSUME IInv, Next, NEW d \in DOMAIN undo, ReversesNow(d),
                        NEW t \in undo[d].inverse.generated \cap (DOMAIN task \ DOMAIN task')
                 PROVE  Untouched(d, t)
      BY DEF Untouched
    <2>1. undo[d].inverse.kind = "reverse_completion"
      BY DEF ReversesNow
    <2>2. PICK s \in DOMAIN undo[d].inverse.tasks : TRUE
      BY <2>1, CompletionMaterial DEF Together
    <2>3. /\ s \in DOMAIN task \cap DOMAIN task'
          /\ task'[s].status # task[s].status
      BY <2>2 DEF ReversesNow
    <2>4. PICK D \in SUBSET DOMAIN undo :
              /\ \A e \in D : undo[e].inverse.kind = "reverse_completion" /\ PostImageHolds(e)
              /\ DOMAIN task \ Generated(D) \subseteq DOMAIN task'
      BY <2>3, Removals
    <2>. QED
      BY <2>1, <2>4, ReversalRemovesUntouched
  <1>. QED
    BY Invariance, <1>1, PTL DEF Spec, ReversalSparesNewWork

-----------------------------------------------------------------------------
(***************************************************************************)
(* What the undo of the latest operation gives back.                       *)
(***************************************************************************)

\* Rows and comments as a user tells them apart.
Bare(row) == [row EXCEPT !.revision = 0, !.source = None]
Plain(f) == [t \in DOMAIN f |-> Bare(f[t])]
PlainComments(cs) == [c \in DOMAIN cs |-> [cs[c] EXCEPT !.updatedAt = 0]]

\* The tables an inverse makes of the tables f, cs and rs.
Trimmed(f, cs, rs, D, b) ==
    /\ Plain(DeleteRows(f, D)) = b.tasks
    /\ PlainComments(Without(cs, {c \in DOMAIN cs : cs[c].task \in D})) = b.comments
    /\ rs \ {r \in rs : r[1] \in D \/ r[2] \in D} = b.blocks
Restores(inv, f, cs, rs, b) ==
    /\ inv.kind = "delete_tasks" => Trimmed(f, cs, rs, inv.ids \cap DOMAIN f, b)
    /\ inv.kind = "restore_tasks" =>
          /\ Plain(Update(f, inv.tasks)) = b.tasks
          /\ PlainComments(cs) = b.comments /\ rs = b.blocks
    /\ inv.kind = "restore_closure" =>
          /\ Plain(Update(f, inv.tasks)) = b.tasks
          /\ PlainComments(Update(cs, inv.comments)) = b.comments
          /\ rs \cup inv.relations = b.blocks
    /\ inv.kind = "reverse_completion" =>
          /\ Plain(Update(DeleteRows(f, inv.generated), inv.tasks)) = b.tasks
          /\ PlainComments(Without(cs, {c \in DOMAIN cs : cs[c].task \in inv.generated}))
               = b.comments
          /\ rs \ {r \in rs : r[1] \in inv.generated \/ r[2] \in inv.generated} = b.blocks
    /\ inv.kind = "restore_comment" =>
          /\ Plain(f) = b.tasks /\ rs = b.blocks
          /\ IF inv.before = <<>> THEN PlainComments(Without(cs, {inv.id})) = b.comments
             ELSE PlainComments(Update(cs, Only(inv.id, inv.before[inv.id]))) = b.comments
    /\ inv.kind = "restore_relation" =>
          /\ Plain(f) = b.tasks /\ PlainComments(cs) = b.comments
          /\ IF inv.present THEN rs \cup {inv.relation} = b.blocks
                            ELSE rs \ {inv.relation} = b.blocks

\* The latest operation, while it is retained and no undo, can be taken back whole.
LatestRestores ==
    (revision \in DOMAIN undo /\ undo[revision].undoes = None) =>
        Restores(undo[revision].inverse, task, comment, blocks, before)
\* The comments an inverse knows.
Known(inv, used) ==
    /\ inv.kind = "restore_closure" => DOMAIN inv.comments \subseteq used
    /\ inv.kind = "restore_comment" => inv.id \in used
Restorable ==
    /\ LatestRestores
    /\ before = [tasks |-> before.tasks, comments |-> before.comments, blocks |-> before.blocks]
    /\ \A o \in DOMAIN undo : undo[o].undoneBy <= revision
    /\ DOMAIN comment \subseteq usedComments
    /\ \A o \in DOMAIN undo : Known(undo[o].inverse, usedComments)

\* A step marks at most the operation o as undone.
MarksOnly(o) == \A q \in DOMAIN undo \ {o} : undo'[q].undoneBy <= revision

LEMMA RowsAlike ==
    ASSUME NEW row \in TaskRow, NEW D
    PROVE  /\ Bare(Stamp(row)) = Bare(row)
           /\ row.parent \notin D =>
                 Bare([row EXCEPT !.parent = IF @ \in D THEN None ELSE @,
                                  !.source = IF @ \in D THEN None ELSE @]) = Bare(row)
  BY DEF Bare, Stamp, TaskRow

\* Tables are the same to a user when their rows are.
LEMMA PlainEqual ==
    ASSUME NEW f, NEW g, DOMAIN f = DOMAIN g, \A t \in DOMAIN f : Bare(f[t]) = Bare(g[t])
    PROVE  Plain(f) = Plain(g)
  BY DEF Plain

LEMMA PlainCommentsEqual ==
    ASSUME NEW f, NEW g, DOMAIN f = DOMAIN g, \A c \in DOMAIN f : f[c] = g[c]
    PROVE  PlainComments(f) = PlainComments(g)
  BY DEF PlainComments

LEMMA BeforeIs ==
    ASSUME NEW f, NEW cs, NEW rs
    PROVE  /\ Content(f, cs, rs).tasks = Plain(f)
           /\ Content(f, cs, rs).comments = PlainComments(cs)
           /\ Content(f, cs, rs).blocks = rs
           /\ Content(f, cs, rs) =
                 [tasks |-> Plain(f), comments |-> PlainComments(cs), blocks |-> rs]
  BY DEF Content, Plain, PlainComments, Bare

\* A row that refers to nothing that goes stays as it is.
LEMMA RowAround ==
    ASSUME NEW f, NEW D, NEW t \in DOMAIN f \ D, f[t] \in TaskRow,
           f[t].parent \notin D, f[t].source \notin D
    PROVE  DeleteRows(f, D)[t] = f[t]
  BY DEF DeleteRows, TaskRow

LEMMA CommentsIntact ==
    ASSUME NEW cs, NEW S, \A c \in DOMAIN cs : c \notin S
    PROVE  PlainComments(Without(cs, S)) = PlainComments(cs)
  <1>1. DOMAIN Without(cs, S) = DOMAIN cs /\ \A c \in DOMAIN cs : Without(cs, S)[c] = cs[c]
    BY DEF Without, Restrict
  <1>. QED
    BY <1>1, PlainCommentsEqual

\* What a commit has to bring along for it.
LEMMA CommitRestorable ==
    ASSUME IInv, Restorable, NEW f, NEW cs, NEW rs, NEW inverse, NEW post, NEW undone,
           Commit(f, cs, rs, inverse, post, undone),
           usedComments \subseteq usedComments', DOMAIN cs \subseteq usedComments',
           Known(inverse, usedComments'),
           undone = None => Restores(inverse, f, cs, rs, Content(task, comment, blocks))
    PROVE  Restorable' /\ MarksOnly(undone)
  <1>1. /\ revision \in Nat /\ Now \in Nat /\ Now = revision + 1 /\ Now \notin DOMAIN undo
    BY BoundsAssumption DEF IInv, TypeOK, Ops, Now
  <1>2. /\ revision' = Now /\ task' = f /\ comment' = cs /\ blocks' = rs
        /\ before' = Content(task, comment, blocks)
        /\ DOMAIN undo' = DOMAIN undo \cup {Now}
        /\ undo'[Now].inverse = inverse /\ undo'[Now].undoes = undone
        /\ undo'[Now].undoneBy = None
    BY <1>1 DEF Commit, Update, Only
  <1>3. LatestRestores'
    <2>1. undone = None => Restores(undo'[revision'].inverse, task', comment', blocks', before')
      BY <1>2
    <2>2. undo'[revision'].undoes = undone
      BY <1>2
    <2>. QED
      BY <2>1, <2>2 DEF LatestRestores
  <1>4. before' = [tasks |-> before'.tasks, comments |-> before'.comments,
                   blocks |-> before'.blocks]
    BY <1>2, BeforeIs
  <1>5. ASSUME NEW o \in DOMAIN undo
        PROVE  /\ undo'[o].undoneBy <= Now /\ undo'[o].inverse = undo[o].inverse
               /\ o # undone => undo'[o].undoneBy <= revision
    <2>1. /\ DOMAIN undo[o] = Entry /\ undo[o].undoneBy \in Ops /\ undo[o].undoneBy <= revision
      BY DEF IInv, UndoMaterial, TypeOK, Restorable
    <2>2. undo'[o] = IF o = undone THEN [undo[o] EXCEPT !.undoneBy = Now] ELSE undo[o]
      BY <1>1 DEF Commit, Update, Only
    <2>3. /\ undo'[o].undoneBy = IF o = undone THEN Now ELSE undo[o].undoneBy
          /\ undo'[o].inverse = undo[o].inverse
      BY <2>1, <2>2 DEF Entry
    <2>. QED
      BY <1>1, <2>1, <2>3, BoundsAssumption DEF Ops
  <1>6. \A o \in DOMAIN undo : Known(undo[o].inverse, usedComments')
    BY DEF Restorable, Known
  <1>7. \A o \in DOMAIN undo' : Known(undo'[o].inverse, usedComments')
    BY <1>2, <1>5, <1>6
  <1>8. \A o \in DOMAIN undo' : undo'[o].undoneBy <= revision'
    BY <1>1, <1>2, <1>5 DEF None
  <1>9. MarksOnly(undone)
    BY <1>5 DEF MarksOnly
  <1>. QED
    BY <1>2, <1>3, <1>4, <1>7, <1>8, <1>9 DEF Restorable, Known

LEMMA RewriteRestorable ==
    ASSUME IInv, Restorable, NEW rows, DOMAIN rows \subseteq DOMAIN task, Rewrite(rows)
    PROVE  Restorable' /\ MarksOnly(None)
  <1> DEFINE f == Update(task, rows)
             inverse == RestoreTasks(Restrict(task, DOMAIN rows))
  <1>1. /\ Commit(f, comment, blocks, inverse, PostTasks(rows), None)
        /\ usedComments' = usedComments
    BY DEF Rewrite
  <1>2. inverse.kind = "restore_tasks" /\ inverse.tasks = Restrict(task, DOMAIN rows)
    BY DEF RestoreTasks
  <1>3. Plain(Update(f, inverse.tasks)) = Plain(task)
    <2>1. /\ DOMAIN Update(f, inverse.tasks) = DOMAIN task
          /\ \A t \in DOMAIN task : Update(f, inverse.tasks)[t] = task[t]
      BY <1>2 DEF Update, Restrict
    <2>. QED
      BY <2>1, PlainEqual
  <1> HIDE DEF f, inverse
  <1>4. Restores(inverse, f, comment, blocks, Content(task, comment, blocks))
    BY <1>2, <1>3, BeforeIs DEF Restores
  <1>5. Known(inverse, usedComments') /\ DOMAIN comment \subseteq usedComments
    BY <1>2 DEF Known, Restorable
  <1>. QED
    BY <1>1, <1>4, <1>5, CommitRestorable

\* Nothing refers to an id that is not in use.
LEMMA NothingOn ==
    ASSUME IInv, NEW G, G \cap DOMAIN task = {}, None \notin G
    PROVE  /\ \A t \in DOMAIN task : task[t].parent \notin G /\ task[t].source \notin G
           /\ PlainComments(Without(comment, {c \in DOMAIN comment : comment[c].task \in G}))
                = PlainComments(comment)
           /\ blocks \ {r \in blocks : r[1] \in G \/ r[2] \in G} = blocks
  <1>1. \A t \in DOMAIN task : task[t].parent \notin G /\ task[t].source \notin G
    BY Facts DEF IInv, TypeOK, LineageOk
  <1>2. \A c \in DOMAIN comment : comment[c].task \notin G
    BY TablesAreGood DEF GoodComments
  <1>3. \A r \in blocks : r[1] \notin G /\ r[2] \notin G
    BY TablesAreGood
  <1>. QED
    BY <1>1, <1>2, <1>3, CommentsIntact

LEMMA CreateRestorable ==
    ASSUME IInv, Restorable, NEW p, NEW rule, CreateTask(p, rule)
    PROVE  Restorable' /\ MarksOnly(None)
  <1> DEFINE t == lastId + 1
             row == [parent |-> p, status |-> "pending", source |-> None,
                     doneBy |-> None, rule |-> rule, content |-> Now, revision |-> Now]
             f == Update(task, Only(t, row))
             inverse == DeleteTasks({t})
             G == {t}
  <1>1. /\ Commit(f, comment, blocks, inverse, PostTasks(Only(t, row)), None)
        /\ usedComments' = usedComments
    BY DEF CreateTask
  <1>2. G \cap DOMAIN task = {} /\ None \notin G
    BY Facts DEF None
  <1>3. inverse.kind = "delete_tasks" /\ inverse.ids = G
    BY DEF DeleteTasks
  <1>4. DOMAIN f = DOMAIN task \cup G /\ \A u \in DOMAIN task : f[u] = task[u]
    BY <1>2 DEF Update, Only
  <1> HIDE DEF f, inverse, G
  <1>5. DOMAIN DeleteRows(f, G) = DOMAIN task
    BY <1>2, <1>4 DEF DeleteRows
  <1>6. ASSUME NEW u \in DOMAIN task PROVE DeleteRows(f, G)[u] = task[u]
    <2>1. u \in DOMAIN f \ G /\ f[u] = task[u] /\ f[u] \in TaskRow
      BY <1>2, <1>4, Facts
    <2>2. f[u].parent \notin G /\ f[u].source \notin G
      BY <1>2, <2>1, NothingOn
    <2>. QED
      BY <2>1, <2>2, RowAround
  <1>7. Restores(inverse, f, comment, blocks, Content(task, comment, blocks))
    <2>1. inverse.ids \cap DOMAIN f = G
      BY <1>3, <1>4
    <2>2. Plain(DeleteRows(f, G)) = Plain(task)
      BY <1>5, <1>6, PlainEqual
    <2>3. Trimmed(f, comment, blocks, G, Content(task, comment, blocks))
      BY <1>2, <2>2, NothingOn, BeforeIs DEF Trimmed
    <2>. QED
      BY <1>3, <2>1, <2>3 DEF Restores
  <1>8. Known(inverse, usedComments') /\ DOMAIN comment \subseteq usedComments
    BY <1>3 DEF Known, Restorable
  <1>. QED
    BY <1>1, <1>7, <1>8, CommitRestorable

\* The completed rows go back, the generated ones go.
LEMMA CompleteRestorable ==
    ASSUME IInv, Restorable, NEW R \in Roots, CompleteTasks(R)
    PROVE  Restorable' /\ MarksOnly(None)
  <1> DEFINE targets == {t \in UNION {Descendants(task, r) : r \in R} : task[t].status = "pending"}
             recurring == {t \in targets : task[t].rule}
             n == Cardinality(recurring)
             done == [t \in targets |->
                         [Stamp(task[t]) EXCEPT !.status = "completed", !.doneBy = Now]]
             born(kid) == [k \in Range(kid) |->
                 LET s == CHOOSE s \in recurring : kid[s] = k
                 IN  [parent |-> None, status |-> "pending", source |-> s,
                      doneBy |-> None, rule |-> TRUE, content |-> Now, revision |-> Now]]
  <1>1. PICK kid \in Bijection(recurring, lastId + 1 .. lastId + n) :
            Commit(Update(Update(task, done), born(kid)), comment, blocks,
                   ReverseCompletion(Restrict(task, targets), Range(kid)),
                   PostTasks(Update(done, born(kid))), None)
    BY DEF CompleteTasks
  <1> DEFINE f == Update(Update(task, done), born(kid))
             inverse == ReverseCompletion(Restrict(task, targets), Range(kid))
             G == Range(kid)
  <1>2. usedComments' = usedComments
    BY DEF CompleteTasks
  <1>3. targets \subseteq DOMAIN task
    BY DEF Descendants
  <1>4. G \cap DOMAIN task = {} /\ None \notin G
    <2>1. n \in Nat
      BY <1>3, FiniteTasks
    <2>2. kid \in [recurring -> lastId + 1 .. lastId + n]
      BY DEF Bijection, Injection
    <2>. QED
      BY <2>1, <2>2, Facts DEF Range, None
  <1>5. DOMAIN done = targets /\ DOMAIN born(kid) = G
    OBVIOUS
  <1>6. /\ inverse.kind = "reverse_completion" /\ inverse.generated = G
        /\ inverse.tasks = Restrict(task, targets)
    BY DEF ReverseCompletion
  <1> HIDE DEF done, born, targets, G
  <1>7. /\ DOMAIN f = DOMAIN task \cup G
        /\ \A t \in DOMAIN task \ targets : f[t] = task[t]
    BY <1>3, <1>4, <1>5 DEF Update
  <1> DEFINE g == Update(DeleteRows(f, G), inverse.tasks)
  <1> HIDE DEF f, inverse
  <1>8. DOMAIN DeleteRows(f, G) = DOMAIN task
    BY <1>4, <1>7 DEF DeleteRows
  <1>9. ASSUME NEW t \in DOMAIN task \ targets PROVE DeleteRows(f, G)[t] = task[t]
    <2>1. t \in DOMAIN f \ G /\ f[t] = task[t] /\ f[t] \in TaskRow
      BY <1>4, <1>7, Facts
    <2>2. f[t].parent \notin G /\ f[t].source \notin G
      BY <1>4, <2>1, NothingOn
    <2>. QED
      BY <2>1, <2>2, RowAround
  <1>10. DOMAIN g = DOMAIN task /\ \A t \in DOMAIN task : g[t] = task[t]
    BY <1>3, <1>6, <1>8, <1>9 DEF Update, Restrict
  <1>11. Restores(inverse, f, comment, blocks, Content(task, comment, blocks))
    <2>1. Plain(g) = Plain(task)
      <3> HIDE DEF g
      <3>. QED
        BY <1>10, PlainEqual
    <2>. QED
      BY <1>4, <1>6, <2>1, NothingOn, BeforeIs DEF Restores
  <1>12. Known(inverse, usedComments') /\ DOMAIN comment \subseteq usedComments
    BY <1>6 DEF Known, Restorable
  <1>. QED
    BY <1>1, <1>2, <1>11, <1>12, CommitRestorable DEF f, inverse, G

\* The closure holds everything below its members, so what stays keeps its parents.
LEMMA DeleteRestorable ==
    ASSUME IInv, Restorable, NEW R \in Roots, DeleteTask(R)
    PROVE  Restorable' /\ MarksOnly(None)
  <1> DEFINE D == UNION {Descendants(task, r) : r \in R}
             f == DeleteRows(task, D)
             cs == Without(comment, CommentsOf(D))
             rs == blocks \ RelationsOf(D)
             inverse == RestoreClosure(D)
  <1>1. /\ Commit(f, cs, rs, inverse, [NoPost EXCEPT !.absent = D], None)
        /\ usedComments' = usedComments
    BY DEF DeleteTask
  <1>2. D \subseteq DOMAIN task
    BY DEF Descendants
  <1>3. \A t \in DOMAIN task \ D : task[t].parent \notin D
    <2> SUFFICES ASSUME NEW t \in DOMAIN task, task[t].parent \in D PROVE t \in D
      OBVIOUS
    <2>1. PICK r \in R : task[t].parent \in Descendants(task, r)
      OBVIOUS
    <2>2. task[t].parent # None
      BY <2>1, Facts DEF Descendants
    <2>3. Descends(task, t, r)
      BY <2>1, <2>2 DEF Descendants, Descends, ParentClosed, Parent
    <2>. QED
      BY <2>3 DEF Descendants
  <1>4. /\ inverse.kind = "restore_closure" /\ inverse.tasks = Restrict(task, D)
        /\ inverse.comments = Restrict(comment, CommentsOf(D))
        /\ inverse.relations = RelationsOf(D)
    BY DEF RestoreClosure
  <1> HIDE DEF D, inverse
  <1> DEFINE g == Update(f, inverse.tasks)
             ds == Update(cs, inverse.comments)
  <1>5. /\ DOMAIN g = DOMAIN task /\ \A t \in D : g[t] = task[t]
        /\ \A t \in DOMAIN task \ D :
              g[t] = [task[t] EXCEPT !.parent = IF @ \in D THEN None ELSE @,
                                     !.source = IF @ \in D THEN None ELSE @]
    BY <1>2, <1>4 DEF Update, DeleteRows, Restrict
  <1>6. Plain(g) = Plain(task)
    <2> HIDE DEF g
    <2>1. \A t \in DOMAIN task \ D : Bare(g[t]) = Bare(task[t])
      BY <1>3, <1>5, RowsAlike, Facts
    <2>. QED
      BY <1>5, <2>1, PlainEqual
  <1>7. PlainComments(ds) = PlainComments(comment)
    <2>1. DOMAIN ds = DOMAIN comment /\ \A c \in DOMAIN comment : ds[c] = comment[c]
      BY <1>4 DEF Update, Without, Restrict, CommentsOf
    <2> HIDE DEF ds
    <2>. QED
      BY <2>1, PlainCommentsEqual
  <1>8. rs \cup inverse.relations = blocks
    BY <1>4 DEF RelationsOf
  <1>9. Known(inverse, usedComments') /\ DOMAIN cs \subseteq usedComments
    BY <1>1, <1>4 DEF Known, Restorable, Without, Restrict, CommentsOf
  <1>10. Restores(inverse, f, cs, rs, Content(task, comment, blocks))
    <2> HIDE DEF f, cs, rs
    <2>. QED
      BY <1>4, <1>6, <1>7, <1>8, BeforeIs DEF Restores
  <1> HIDE DEF f, cs, rs
  <1>. QED
    BY <1>1, <1>9, <1>10, CommitRestorable

\* The rows a reversal leaves are as they were, and the others were in the post-image.
LEMMA ReversalRestorable ==
    ASSUME IInv, Restorable, NEW f, NEW D, D \subseteq DOMAIN undo, NEW rows, NEW post,
           CommitReversal(f, D, RestoreTasks(rows), post, None),
           \A d \in D : undo[d].inverse.kind = "reverse_completion",
           \A t \in DOMAIN rows : t \in DOMAIN task /\ rows[t] = task[t],
           \A d \in D : DOMAIN undo[d].post.tasks \subseteq DOMAIN rows,
           DOMAIN f \subseteq DOMAIN task, DOMAIN task \ Generated(D) \subseteq DOMAIN f,
           \A t \in DOMAIN f \ DOMAIN rows : f[t] = DeleteRows(task, Generated(D))[t]
    PROVE  Restorable' /\ MarksOnly(None)
  <1> DEFINE G == Generated(D)
             cs == Without(comment, CommentsOf(G))
             rs == blocks \ RelationsOf(G)
             inverse == RestoreTasks(rows)
             g == Update(f, rows)
  <1>1. /\ Commit(f, cs, rs, inverse, post, None) /\ usedComments' = usedComments
        /\ \A d \in D : PostImageHolds(d)
    BY DEF CommitReversal
  <1>2. inverse.kind = "restore_tasks" /\ inverse.tasks = rows
    BY DEF RestoreTasks
  <1>3. G \subseteq DOMAIN rows
    BY CompletionMaterial DEF Generated, Together
  <1>4. /\ \A t \in DOMAIN task : task[t].parent \notin G /\ task[t].source \notin G
        /\ CommentsOf(G) = {} /\ RelationsOf(G) = {}
    BY <1>1 DEF PostImageHolds, Unreferenced, Generated, CommentsOf, RelationsOf
  <1> HIDE DEF G
  <1>5. DOMAIN task \ G \subseteq DOMAIN f /\ \A t \in DOMAIN f \ DOMAIN rows : f[t] = task[t]
    <2>1. \A t \in DOMAIN task \ G : DeleteRows(task, G)[t] = task[t]
      BY <1>4, RowAround, Facts
    <2>2. \A t \in DOMAIN f \ DOMAIN rows : t \in DOMAIN task \ G
      BY <1>3
    <2>. QED
      BY <2>1, <2>2 DEF G
  <1>6. DOMAIN g = DOMAIN task /\ \A t \in DOMAIN task : g[t] = task[t]
    BY <1>3, <1>5 DEF Update
  <1>7. Plain(g) = Plain(task)
    <2> HIDE DEF g
    <2>. QED
      BY <1>6, PlainEqual
  <1>8. PlainComments(cs) = PlainComments(comment) /\ rs = blocks
    BY <1>4, CommentsIntact
  <1>9. Known(inverse, usedComments') /\ DOMAIN cs \subseteq usedComments
    BY <1>2 DEF Known, Restorable, Without, Restrict
  <1>10. Restores(inverse, f, cs, rs, Content(task, comment, blocks))
    <2> HIDE DEF cs, rs, inverse
    <2>. QED
      BY <1>2, <1>7, <1>8, BeforeIs DEF Restores
  <1> HIDE DEF cs, rs, inverse
  <1>. QED
    BY <1>1, <1>9, <1>10, CommitRestorable

LEMMA UncompleteRestorable ==
    ASSUME IInv, Restorable, NEW t \in DOMAIN task, UncompleteTask(t)
    PROVE  Restorable' /\ MarksOnly(None)
  <1> DEFINE d == task[t].doneBy
  <1>1. CASE d \in DOMAIN undo
    <2> DEFINE D == {d}
               f == Reversed(D)
               rows == undo[d].post.tasks
               post == [PostTasks(Restrict(f, Sources({d}))) EXCEPT !.absent = Generated({d})]
    <2>1. CommitReversal(f, D, RestoreTasks(rows), post, None)
      BY <1>1 DEF UncompleteTask
    <2>2. /\ D \subseteq DOMAIN undo /\ revision < MaxOps
          /\ \A e \in D : undo[e].inverse.kind = "reverse_completion"
          /\ \A e \in D : PostImageHolds(e)
      BY <1>1, <2>1, RetainedCompletion DEF CommitReversal, Commit
    <2>3. /\ \A u \in DOMAIN rows : u \in DOMAIN task /\ rows[u] = task[u]
          /\ \A e \in D : DOMAIN undo[e].post.tasks \subseteq DOMAIN rows
      BY <2>2 DEF PostImageHolds
    <2>4. Sources(D) \subseteq DOMAIN rows
      BY <2>2, CompletionMaterial DEF Together, Sources
    <2> HIDE DEF D, rows, post
    <2>5. \A u \in DOMAIN f \ DOMAIN rows : f[u] = DeleteRows(task, Generated(D))[u]
      BY <2>4 DEF Reversed, Update
    <2>6. DOMAIN f \subseteq DOMAIN task /\ DOMAIN task \ Generated(D) \subseteq DOMAIN f
      BY <2>2, ReversedRows
    <2> HIDE DEF f
    <2>. QED
      BY <2>1, <2>2, <2>3, <2>5, <2>6, ReversalRestorable
  <1>2. CASE d \notin DOMAIN undo
    <2> DEFINE rows == Only(t, Uncompleted(t))
    <2>1. Rewrite(rows) /\ DOMAIN rows \subseteq DOMAIN task
      BY <1>2 DEF UncompleteTask, Only
    <2> HIDE DEF rows
    <2>. QED
      BY <2>1, RewriteRestorable
  <1>. QED
    BY <1>1, <1>2

LEMMA BulkUncompleteRestorable ==
    ASSUME IInv, Restorable, NEW R \in Roots, BulkUncomplete(R)
    PROVE  Restorable' /\ MarksOnly(None)
  <1> DEFINE all == {task[t].doneBy : t \in R} \ {None}
             D == all \cap DOMAIN undo
  <1>1. R \subseteq DOMAIN task
    BY DEF Roots
  <1>2. PICK first \in [all \ D -> R] :
            LET alone == Range(first) \cup {t \in R : task[t].doneBy = None}
                after == [t \in alone |-> Uncompleted(t)]
            IN  CommitReversal(Update(Reversed(D), after), D,
                    RestoreTasks(Update(CompletedImages(D), Restrict(task, alone))),
                    [PostTasks(after) EXCEPT !.absent = Generated(D)], None)
    BY DEF BulkUncomplete
  <1> DEFINE alone == Range(first) \cup {t \in R : task[t].doneBy = None}
             after == [t \in alone |-> Uncompleted(t)]
             f == Update(Reversed(D), after)
             rows == Update(CompletedImages(D), Restrict(task, alone))
             post == [PostTasks(after) EXCEPT !.absent = Generated(D)]
  <1>3. CommitReversal(f, D, RestoreTasks(rows), post, None)
    BY <1>2
  <1>4. alone \subseteq DOMAIN task
    BY <1>1 DEF Range
  <1>5. /\ D \subseteq DOMAIN undo /\ revision < MaxOps
        /\ \A d \in D : undo[d].inverse.kind = "reverse_completion"
        /\ \A d \in D : PostImageHolds(d)
    BY <1>1, <1>3, RetainedCompletion DEF CommitReversal, Commit
  <1>6. DOMAIN after = alone
    OBVIOUS
  <1> HIDE DEF all, D, alone, after
  <1>7. /\ \A d \in D : DOMAIN undo[d].post.tasks \subseteq DOMAIN CompletedImages(D)
        /\ \A t \in DOMAIN CompletedImages(D) :
              t \in DOMAIN task /\ CompletedImages(D)[t] = task[t]
    <2> DEFINE image(t) == CHOOSE d \in D : t \in DOMAIN undo[d].post.tasks
    <2>1. \A t \in DOMAIN CompletedImages(D) :
              /\ image(t) \in D /\ t \in DOMAIN undo[image(t)].post.tasks
              /\ CompletedImages(D)[t] = undo[image(t)].post.tasks[t]
      BY DEF CompletedImages
    <2> HIDE DEF image
    <2>2. \A d \in D : DOMAIN undo[d].post.tasks \subseteq DOMAIN CompletedImages(D)
      BY DEF CompletedImages
    <2>. QED
      BY <1>5, <2>1, <2>2 DEF PostImageHolds
  <1>8. Sources(D) \subseteq DOMAIN CompletedImages(D)
    BY <1>5, <1>7, CompletionMaterial DEF Together, Sources
  <1>9. /\ \A d \in D : DOMAIN undo[d].post.tasks \subseteq DOMAIN rows
        /\ \A t \in DOMAIN rows : t \in DOMAIN task /\ rows[t] = task[t]
        /\ Sources(D) \cup alone \subseteq DOMAIN rows
    BY <1>4, <1>7, <1>8 DEF Update, Restrict
  <1>10. DOMAIN f \subseteq DOMAIN task /\ DOMAIN task \ Generated(D) \subseteq DOMAIN f
    BY <1>4, <1>5, <1>6, ReversedRows DEF Update
  <1> HIDE DEF rows, post
  <1>11. \A t \in DOMAIN f \ DOMAIN rows : f[t] = DeleteRows(task, Generated(D))[t]
    BY <1>6, <1>9 DEF Reversed, Update
  <1> HIDE DEF f
  <1>. QED
    BY <1>3, <1>5, <1>9, <1>10, <1>11, ReversalRestorable

LEMMA CommentRestorable ==
    ASSUME IInv, Restorable, NEW c, NEW cs, NEW old, NEW post,
           Commit(task, cs, blocks, RestoreComment(c, old), post, None),
           usedComments \subseteq usedComments', DOMAIN cs \subseteq usedComments',
           c \in usedComments',
           IF old = <<>> THEN PlainComments(Without(cs, {c})) = PlainComments(comment)
           ELSE PlainComments(Update(cs, Only(c, old[c]))) = PlainComments(comment)
    PROVE  Restorable' /\ MarksOnly(None)
  <1> DEFINE inverse == RestoreComment(c, old)
  <1>1. inverse.kind = "restore_comment" /\ inverse.id = c /\ inverse.before = old
    BY DEF RestoreComment
  <1> HIDE DEF inverse
  <1>2. Restores(inverse, task, cs, blocks, Content(task, comment, blocks))
    BY <1>1, BeforeIs DEF Restores
  <1>3. Known(inverse, usedComments')
    BY <1>1 DEF Known
  <1>. QED
    BY <1>2, <1>3, CommitRestorable DEF inverse

LEMMA CommentsRestorable ==
    ASSUME IInv, Restorable
    PROVE  /\ \A c \in Comments, t \in DOMAIN task :
                 CreateComment(c, t) => Restorable' /\ MarksOnly(None)
           /\ \A c \in DOMAIN comment :
                 PatchComment(c) \/ DeleteComment(c) => Restorable' /\ MarksOnly(None)
  <1>1. ASSUME NEW c \in Comments, NEW t \in DOMAIN task, CreateComment(c, t)
        PROVE  Restorable' /\ MarksOnly(None)
    <2> DEFINE row == [task |-> t, content |-> Now, updatedAt |-> Now]
               cs == Update(comment, Only(c, row))
               post == [NoPost EXCEPT !.comments = Only(c, row)]
    <2>1. /\ Commit(task, cs, blocks, RestoreComment(c, <<>>), post, None)
          /\ usedComments' = usedComments \cup {c} /\ c \notin usedComments
      BY <1>1 DEF CreateComment
    <2> HIDE DEF row, post
    <2>2. DOMAIN cs = DOMAIN comment \cup {c} /\ DOMAIN comment \subseteq usedComments
      BY DEF Update, Only, Restorable
    <2>3. /\ DOMAIN Without(cs, {c}) = DOMAIN comment
          /\ \A x \in DOMAIN comment : Without(cs, {c})[x] = comment[x]
      BY <2>1, <2>2 DEF Without, Restrict, Update, Only
    <2>4. PlainComments(Without(cs, {c})) = PlainComments(comment)
      BY <2>3, PlainCommentsEqual
    <2> HIDE DEF cs
    <2>. QED
      BY <2>1, <2>2, <2>4, CommentRestorable
  <1>2. ASSUME NEW c \in DOMAIN comment PROVE Only(c, comment[c]) # <<>>
    <2>1. c \in DOMAIN Only(c, comment[c])
      BY DEF Only
    <2>. QED
      BY <2>1
  <1>3. ASSUME NEW c \in DOMAIN comment, NEW cs, NEW post,
               Commit(task, cs, blocks, RestoreComment(c, Only(c, comment[c])), post, None),
               usedComments' = usedComments, DOMAIN cs \subseteq DOMAIN comment,
               DOMAIN comment \subseteq DOMAIN cs \cup {c},
               \A x \in DOMAIN cs \ {c} : cs[x] = comment[x]
        PROVE  Restorable' /\ MarksOnly(None)
    <2> DEFINE old == Only(c, comment[c])
               ds == Update(cs, Only(c, old[c]))
    <2>1. DOMAIN ds = DOMAIN comment /\ \A x \in DOMAIN comment : ds[x] = comment[x]
      BY <1>3 DEF Update, Only
    <2>2. PlainComments(ds) = PlainComments(comment)
      <3> HIDE DEF ds
      <3>. QED
        BY <2>1, PlainCommentsEqual
    <2>3. old # <<>>
      BY <1>2
    <2>4. DOMAIN comment \subseteq usedComments
      BY DEF Restorable
    <2>5. Commit(task, cs, blocks, RestoreComment(c, old), post, None)
      BY <1>3
    <2> HIDE DEF old
    <2>. QED
      BY <1>3, <2>2, <2>3, <2>4, <2>5, CommentRestorable
  <1>4. ASSUME NEW c \in DOMAIN comment, PatchComment(c) PROVE Restorable' /\ MarksOnly(None)
    <2> DEFINE row == [comment[c] EXCEPT !.content = Now, !.updatedAt = Now]
               cs == Update(comment, Only(c, row))
               post == [NoPost EXCEPT !.comments = Only(c, row)]
    <2>1. /\ Commit(task, cs, blocks, RestoreComment(c, Only(c, comment[c])), post, None)
          /\ usedComments' = usedComments
      BY <1>4 DEF PatchComment
    <2> HIDE DEF row, post
    <2>2. DOMAIN cs = DOMAIN comment /\ \A x \in DOMAIN cs \ {c} : cs[x] = comment[x]
      BY DEF Update, Only
    <2> HIDE DEF cs
    <2>. QED
      BY <1>3, <2>1, <2>2
  <1>5. ASSUME NEW c \in DOMAIN comment, DeleteComment(c) PROVE Restorable' /\ MarksOnly(None)
    <2> DEFINE cs == Without(comment, {c})
               post == [NoPost EXCEPT !.absentComments = {c}]
    <2>1. /\ Commit(task, cs, blocks, RestoreComment(c, Only(c, comment[c])), post, None)
          /\ usedComments' = usedComments
      BY <1>5 DEF DeleteComment
    <2> HIDE DEF post
    <2>2. DOMAIN cs = DOMAIN comment \ {c} /\ \A x \in DOMAIN cs : cs[x] = comment[x]
      BY DEF Without, Restrict
    <2> HIDE DEF cs
    <2>. QED
      BY <1>3, <2>1, <2>2
  <1>. QED
    BY <1>1, <1>4, <1>5

LEMMA RelationsRestorable ==
    ASSUME IInv, Restorable, NEW r, NEW rs, NEW present, NEW post,
           Commit(task, comment, rs, RestoreRelation(r, present), post, None),
           usedComments' = usedComments,
           IF present THEN rs \cup {r} = blocks ELSE rs \ {r} = blocks
    PROVE  Restorable' /\ MarksOnly(None)
  <1> DEFINE inverse == RestoreRelation(r, present)
  <1>1. inverse.kind = "restore_relation" /\ inverse.relation = r /\ inverse.present = present
    BY DEF RestoreRelation
  <1> HIDE DEF inverse
  <1>2. Restores(inverse, task, comment, rs, Content(task, comment, blocks))
    BY <1>1, BeforeIs DEF Restores
  <1>3. Known(inverse, usedComments') /\ DOMAIN comment \subseteq usedComments
    BY <1>1 DEF Known, Restorable
  <1>. QED
    BY <1>2, <1>3, CommitRestorable DEF inverse

\* What an undo leaves behind is no operation of its own kind; it marks only what it undid.
LEMMA UndoRestorable ==
    ASSUME IInv, Restorable, NEW o \in DOMAIN undo, Undo(o)
    PROVE  Restorable' /\ MarksOnly(o)
  <1> DEFINE inv == undo[o].inverse
             post == undo[o].post
  <1>1. o # None /\ DOMAIN comment \subseteq usedComments /\ Known(inv, usedComments)
    BY Facts DEF IInv, TypeOK, None, Restorable
  <1>2. ASSUME NEW f, NEW cs, NEW rs, NEW redo, NEW image, Commit(f, cs, rs, redo, image, o),
               usedComments' = usedComments, DOMAIN cs \subseteq usedComments,
               redo.kind = "restore_comment" => redo.id \in usedComments,
               redo.kind # "restore_closure"
        PROVE  Restorable' /\ MarksOnly(o)
    BY <1>1, <1>2, CommitRestorable DEF Known
  <1>3. ASSUME NEW f, NEW cs, NEW rs, NEW redo, NEW T, NEW C, CommitUndo(o, f, cs, rs, redo, T, C),
               DOMAIN cs \subseteq usedComments,
               redo.kind = "restore_comment" => redo.id \in usedComments,
               redo.kind # "restore_closure"
        PROVE  Restorable' /\ MarksOnly(o)
    <2>1. Commit(f, cs, rs, redo, Capture(o, f, cs, T, C), o) /\ usedComments' = usedComments
      BY <1>3 DEF CommitUndo
    <2>. QED
      BY <1>2, <1>3, <2>1
  <1>4. CASE UndoByDeleting(o)
    <2> DEFINE D == inv.ids \cap DOMAIN task
               f == DeleteRows(task, D)
               cs == Without(comment, CommentsOf(D))
               rs == blocks \ RelationsOf(D)
               redo == RestoreTasks(post.tasks)
    <2>1. CommitUndo(o, f, cs, rs, redo, D, {})
      BY <1>4 DEF UndoByDeleting
    <2>2. DOMAIN cs \subseteq usedComments /\ redo.kind = "restore_tasks"
      BY <1>1 DEF Without, Restrict, RestoreTasks
    <2> HIDE DEF D, f, cs, rs, redo
    <2>. QED
      BY <1>3, <2>1, <2>2
  <1>5. CASE UndoDeletion(o)
    <2> DEFINE f == Reinserted(inv.tasks)
               cs == Update(comment, inv.comments)
               rs == blocks \cup inv.relations
               redo == DeleteTasks(DOMAIN inv.tasks)
               T == DOMAIN inv.tasks
    <2>1. CommitUndo(o, f, cs, rs, redo, T, {}) /\ inv.kind = "restore_closure"
      BY <1>5 DEF UndoDeletion
    <2>2. DOMAIN cs \subseteq usedComments /\ redo.kind = "delete_tasks"
      BY <1>1, <2>1 DEF Update, Known, DeleteTasks
    <2> HIDE DEF T, f, cs, rs, redo
    <2>. QED
      BY <1>3, <2>1, <2>2
  <1>6. CASE UndoCompletion(o)
    <2> DEFINE f == Reversed({o})
               cs == Without(comment, CommentsOf(Generated({o})))
               rs == blocks \ RelationsOf(Generated({o}))
               redo == RestoreTasks(post.tasks)
               image == Capture(o, f, comment, DOMAIN inv.tasks \cup inv.generated, {})
    <2>1. Commit(f, cs, rs, redo, image, o) /\ usedComments' = usedComments
      BY <1>6 DEF UndoCompletion, CommitReversal
    <2>2. DOMAIN cs \subseteq usedComments /\ redo.kind = "restore_tasks"
      BY <1>1 DEF Without, Restrict, RestoreTasks
    <2> HIDE DEF f, cs, rs, redo, image
    <2>. QED
      BY <1>2, <2>1, <2>2
  <1>7. CASE UndoRewrite(o)
    <2> DEFINE f == RestoredUpTo(inv.tasks, MaxTasks)
               redo == IF post.tasks = <<>> /\ post.absent # {}
                       THEN DeleteTasks(post.absent) ELSE RestoreTasks(post.tasks)
               T == DOMAIN inv.tasks
    <2>1. CommitUndo(o, f, comment, blocks, redo, T, {})
      BY <1>7 DEF UndoRewrite
    <2>2. redo.kind \in {"delete_tasks", "restore_tasks"}
      BY DEF RestoreTasks, DeleteTasks
    <2> HIDE DEF f, redo, T
    <2>. QED
      BY <1>1, <1>3, <2>1, <2>2
  <1>8. CASE UndoComment(o)
    <2> DEFINE c == inv.id
               redo == RestoreComment(c, IF c \in DOMAIN post.comments
                                         THEN Only(c, post.comments[c]) ELSE inv.before)
               row == [inv.before[c] EXCEPT !.updatedAt = Now]
               less == Without(comment, {c})
               more == Update(comment, Only(c, row))
    <2>1. \/ CommitUndo(o, task, less, blocks, redo, {comment[c].task}, {c})
          \/ CommitUndo(o, task, more, blocks, redo, {inv.before[c].task}, {c})
      BY <1>8 DEF UndoComment
    <2>2. c \in usedComments
      BY <1>1, <1>8 DEF UndoComment, Known
    <2>3. redo.kind = "restore_comment" /\ redo.id = c
      BY DEF RestoreComment
    <2> HIDE DEF c, redo, row
    <2>4. DOMAIN less \subseteq usedComments /\ DOMAIN more \subseteq usedComments
      BY <1>1, <2>2 DEF Without, Restrict, Update, Only
    <2> HIDE DEF less, more
    <2>. QED
      BY <1>3, <2>1, <2>2, <2>3, <2>4
  <1>9. CASE UndoRelation(o)
    <2> DEFINE r == inv.relation
               rs == IF inv.present THEN blocks \cup {r} ELSE blocks \ {r}
               redo == RestoreRelation(r, ~inv.present)
    <2>1. CommitUndo(o, task, comment, rs, redo, {r[1], r[2]}, {})
      BY <1>9 DEF UndoRelation
    <2>2. redo.kind = "restore_relation"
      BY DEF RestoreRelation
    <2> HIDE DEF r, rs, redo
    <2>. QED
      BY <1>1, <1>3, <2>1, <2>2
  <1>. QED
    BY <1>4, <1>5, <1>6, <1>7, <1>8, <1>9 DEF Undo

LEMMA InitRestorable == Init => Restorable
  <1> SUFFICES ASSUME Init PROVE Restorable
    OBVIOUS
  <1>1. before = Content(task, comment, blocks) /\ DOMAIN undo = {} /\ DOMAIN comment = {}
    BY DEF Init
  <1>. QED
    BY <1>1, BeforeIs DEF Restorable, LatestRestores

\* No step but an undo marks the latest operation as undone.
LEMMA StepRestorable ==
    ASSUME IInv, Restorable, [Next]_vars
    PROVE  /\ Restorable'
           /\ \/ \E o \in DOMAIN undo : Undo(o) /\ MarksOnly(o)
              \/ MarksOnly(None)
              \/ revision' = revision
  <1>1. CASE \E p \in DOMAIN task \cup {None}, rule \in BOOLEAN : CreateTask(p, rule)
    BY <1>1, CreateRestorable
  <1>2. ASSUME NEW t \in DOMAIN task, NEW p, PatchTask(t, p) \/ MoveAnchored(t, p)
        PROVE  Restorable' /\ MarksOnly(None)
    <2>1. CASE PatchTask(t, p)
      <3> DEFINE rows == Only(t, MovedTo(task[t], p))
      <3>1. Rewrite(rows) /\ DOMAIN rows \subseteq DOMAIN task
        BY <2>1 DEF PatchTask, Only
      <3> HIDE DEF rows
      <3>. QED
        BY <3>1, RewriteRestorable
    <2>2. CASE MoveAnchored(t, p)
      <3> DEFINE siblings == {u \in DOMAIN task : task[u].parent = p} \cup {t}
                 rows == [u \in siblings |-> MovedTo(task[u], p)]
      <3>1. Rewrite(rows) /\ DOMAIN rows \subseteq DOMAIN task
        BY <2>2 DEF MoveAnchored
      <3> HIDE DEF rows
      <3>. QED
        BY <3>1, RewriteRestorable
    <2>. QED
      BY <1>2, <2>1, <2>2
  <1>3. ASSUME NEW R \in Roots, NEW p, BulkMove(R, p) PROVE Restorable' /\ MarksOnly(None)
    <2> DEFINE rows == [t \in R |-> MovedTo(task[t], p)]
    <2>1. Rewrite(rows) /\ DOMAIN rows \subseteq DOMAIN task
      BY <1>3 DEF BulkMove, Roots
    <2> HIDE DEF rows
    <2>. QED
      BY <2>1, RewriteRestorable
  <1>4. ASSUME NEW p, ReorderTasks(p) PROVE Restorable' /\ MarksOnly(None)
    <2> DEFINE siblings == {u \in DOMAIN task : task[u].parent = p}
               rows == [u \in siblings |-> Edited(task[u])]
    <2>1. Rewrite(rows) /\ DOMAIN rows \subseteq DOMAIN task
      BY <1>4 DEF ReorderTasks
    <2> HIDE DEF rows
    <2>. QED
      BY <2>1, RewriteRestorable
  <1>5. CASE \E R \in Roots : CompleteTasks(R) \/ DeleteTask(R) \/ BulkUncomplete(R)
    BY <1>5, CompleteRestorable, DeleteRestorable, BulkUncompleteRestorable
  <1>6. ASSUME NEW t \in DOMAIN task, NEW from, NEW to, ChangeStatus(t, from, to)
        PROVE  Restorable' /\ MarksOnly(None)
    <2> DEFINE rows == Only(t, [Stamp(task[t]) EXCEPT !.status = to, !.doneBy = None])
    <2>1. Rewrite(rows) /\ DOMAIN rows \subseteq DOMAIN task
      BY <1>6 DEF ChangeStatus, Only
    <2> HIDE DEF rows
    <2>. QED
      BY <2>1, RewriteRestorable
  <1>7. CASE \E t \in DOMAIN task : CancelTask(t) \/ ReopenTask(t)
    BY <1>6, <1>7 DEF CancelTask, ReopenTask
  <1>8. CASE \E t \in DOMAIN task : UncompleteTask(t)
    BY <1>8, UncompleteRestorable
  <1>9. CASE \/ \E c \in Comments, t \in DOMAIN task : CreateComment(c, t)
             \/ \E c \in DOMAIN comment : PatchComment(c) \/ DeleteComment(c)
    BY <1>9, CommentsRestorable
  <1>10. ASSUME NEW from, NEW to, AddRelation(from, to) PROVE Restorable' /\ MarksOnly(None)
    <2> DEFINE r == <<from, to>>
               rs == blocks \cup {r}
               post == [NoPost EXCEPT !.present = {r}]
    <2>1. /\ Commit(task, comment, rs, RestoreRelation(r, FALSE), post, None)
          /\ usedComments' = usedComments /\ r \notin blocks
      BY <1>10 DEF AddRelation
    <2>2. rs \ {r} = blocks
      BY <2>1
    <2> HIDE DEF r, rs, post
    <2>. QED
      BY <2>1, <2>2, RelationsRestorable
  <1>11. ASSUME NEW r \in blocks, RemoveRelation(r) PROVE Restorable' /\ MarksOnly(None)
    <2> DEFINE rs == blocks \ {r}
               post == [NoPost EXCEPT !.missing = {r}]
    <2>1. /\ Commit(task, comment, rs, RestoreRelation(r, TRUE), post, None)
          /\ usedComments' = usedComments
      BY <1>11 DEF RemoveRelation
    <2>2. rs \cup {r} = blocks
      OBVIOUS
    <2> HIDE DEF rs, post
    <2>. QED
      BY <2>1, <2>2, RelationsRestorable
  <1>12. CASE \E o \in DOMAIN undo : Undo(o)
    BY <1>12, UndoRestorable
  <1>13. CASE Expire
    <2>1. /\ DOMAIN undo' \subseteq DOMAIN undo /\ \A o \in DOMAIN undo' : undo'[o] = undo[o]
          /\ task' = task /\ comment' = comment /\ blocks' = blocks /\ revision' = revision
          /\ usedComments' = usedComments /\ before' = before
      BY <1>13 DEF Expire, Without, Restrict
    <2>2. LatestRestores'
      BY <2>1 DEF Restorable, LatestRestores
    <2>. QED
      BY <2>1, <2>2 DEF Restorable, Known
  <1>14. CASE UNCHANGED vars
    <2>1. LatestRestores'
      BY <1>14 DEF Restorable, LatestRestores, vars
    <2>. QED
      BY <1>14, <2>1 DEF Restorable, Known, vars
  <1>. QED
    BY <1>1, <1>2, <1>3, <1>4, <1>5, <1>7, <1>8, <1>9, <1>10, <1>11, <1>12, <1>13, <1>14 DEF Next

\* Each kind of undo makes of the tables what Restores says of them.
LEMMA UndoGivesBack ==
    ASSUME IInv, Restorable, NEW o \in DOMAIN undo, o = revision, undo[o].undoes = None, Undo(o)
    PROVE  Content(task', comment', blocks') = before
  <1> DEFINE inv == undo[o].inverse
  <1>1. Restores(inv, task, comment, blocks, before)
    BY DEF Restorable, LatestRestores
  <1>2. SUFFICES /\ Plain(task') = before.tasks /\ PlainComments(comment') = before.comments
                 /\ blocks' = before.blocks
    BY BeforeIs DEF Restorable
  <1>3. CASE UndoByDeleting(o)
    <2>1. /\ inv.kind = "delete_tasks"
          /\ task' = DeleteRows(task, inv.ids \cap DOMAIN task)
          /\ comment' = Without(comment, CommentsOf(inv.ids \cap DOMAIN task))
          /\ blocks' = blocks \ RelationsOf(inv.ids \cap DOMAIN task)
      BY <1>3 DEF UndoByDeleting, CommitUndo, Commit
    <2>. QED
      BY <1>1, <2>1 DEF Restores, Trimmed, CommentsOf, RelationsOf
  <1>4. CASE UndoDeletion(o)
    <2>1. /\ inv.kind = "restore_closure" /\ task' = Update(task, inv.tasks)
          /\ comment' = Update(comment, inv.comments) /\ blocks' = blocks \cup inv.relations
      BY <1>4 DEF UndoDeletion, CommitUndo, Commit, Reinserted
    <2>. QED
      BY <1>1, <2>1 DEF Restores
  <1>5. CASE UndoCompletion(o)
    <2>1. /\ inv.kind = "reverse_completion" /\ task' = Reversed({o})
          /\ comment' = Without(comment, CommentsOf(Generated({o})))
          /\ blocks' = blocks \ RelationsOf(Generated({o}))
      BY <1>5 DEF UndoCompletion, CommitReversal, Commit
    <2>2. Generated({o}) = inv.generated /\ Sources({o}) = DOMAIN inv.tasks
      BY DEF Generated, Sources
    <2>3. /\ DOMAIN Reversed({o}) = DOMAIN Update(DeleteRows(task, inv.generated), inv.tasks)
          /\ \A t \in DOMAIN inv.tasks : Reversed({o})[t] = Stamp(inv.tasks[t])
          /\ \A t \in DOMAIN Reversed({o}) \ DOMAIN inv.tasks :
                Reversed({o})[t] = DeleteRows(task, inv.generated)[t]
      BY <2>2 DEF Reversed, Update
    <2>4. \A t \in DOMAIN inv.tasks : inv.tasks[t] \in TaskRow
      BY <2>1, CompletionMaterial DEF GoodRows
    <2> HIDE DEF inv
    <2>5. Plain(Reversed({o})) = Plain(Update(DeleteRows(task, inv.generated), inv.tasks))
      <3> DEFINE f == Reversed({o})
                 g == Update(DeleteRows(task, inv.generated), inv.tasks)
      <3>1. \A t \in DOMAIN g : g[t] = IF t \in DOMAIN inv.tasks THEN inv.tasks[t]
                                       ELSE DeleteRows(task, inv.generated)[t]
        BY DEF Update
      <3>2. DOMAIN f = DOMAIN g
        BY <2>3
      <3> HIDE DEF g
      <3>3. ASSUME NEW t \in DOMAIN f PROVE Bare(f[t]) = Bare(g[t])
        <4>1. CASE t \in DOMAIN inv.tasks
          BY <2>3, <2>4, <3>1, <3>2, <4>1, RowsAlike
        <4>2. CASE t \notin DOMAIN inv.tasks
          BY <2>3, <3>1, <3>2, <4>2
        <4>. QED
          BY <4>1, <4>2
      <3> HIDE DEF f
      <3>. QED
        BY <3>2, <3>3, PlainEqual DEF f, g
    <2>. QED
      BY <1>1, <2>1, <2>2, <2>5 DEF Restores, CommentsOf, RelationsOf
  <1>6. CASE UndoRewrite(o)
    <2>1. /\ inv.kind = "restore_tasks" /\ task' = RestoredUpTo(inv.tasks, MaxTasks)
          /\ comment' = comment /\ blocks' = blocks
      BY <1>6 DEF UndoRewrite, CommitUndo, Commit
    <2>2. GoodRows(inv.tasks, Completing, lastId)
      BY <2>1 DEF IInv, UndoMaterial, InverseSound
    <2> HIDE DEF inv
    <2>3. {t \in DOMAIN inv.tasks : t <= MaxTasks} = DOMAIN inv.tasks
      BY <2>2, Facts DEF GoodRows
    <2>4. Plain(RestoredUpTo(inv.tasks, MaxTasks)) = Plain(Update(task, inv.tasks))
      <3> DEFINE f == RestoredUpTo(inv.tasks, MaxTasks)
                 g == Update(task, inv.tasks)
      <3>1. DOMAIN f = DOMAIN g /\ \A t \in DOMAIN f : Bare(f[t]) = Bare(g[t])
        BY <2>2, <2>3, RowsAlike DEF Update, RestoredUpTo, GoodRows
      <3> HIDE DEF f, g
      <3>. QED
        BY <3>1, PlainEqual DEF f, g
    <2>. QED
      BY <1>1, <2>1, <2>4 DEF Restores
  <1>7. CASE UndoComment(o)
    <2> DEFINE c == inv.id
               row == [inv.before[c] EXCEPT !.updatedAt = Now]
    <2>1. /\ inv.kind = "restore_comment" /\ task' = task /\ blocks' = blocks
          /\ comment' = IF inv.before = <<>> THEN Without(comment, {c})
                                             ELSE Update(comment, Only(c, row))
      BY <1>7 DEF UndoComment, CommitUndo, Commit
    <2>2. inv.before = <<>> \/ inv.before[c] \in CommentRow
      BY <2>1 DEF IInv, UndoMaterial, InverseSound
    <2> HIDE DEF inv
    <2>3. CASE inv.before = <<>>
      BY <1>1, <2>1, <2>3 DEF Restores
    <2>4. CASE inv.before # <<>>
      <3> DEFINE f == Update(comment, Only(c, row))
                 g == Update(comment, Only(c, inv.before[c]))
      <3>1. /\ DOMAIN f = DOMAIN g /\ \A x \in DOMAIN f \ {c} : f[x] = g[x]
            /\ f[c] = row /\ g[c] = inv.before[c]
        BY DEF Update, Only
      <3>2. [row EXCEPT !.updatedAt = 0] = [inv.before[c] EXCEPT !.updatedAt = 0]
        BY <2>2, <2>4 DEF CommentRow
      <3> HIDE DEF f, g, row
      <3>3. PlainComments(f) = PlainComments(g)
        BY <3>1, <3>2 DEF PlainComments
      <3>. QED
        BY <1>1, <2>1, <2>4, <3>3 DEF Restores, f, g
    <2>. QED
      BY <2>3, <2>4
  <1>8. CASE UndoRelation(o)
    <2>1. /\ inv.kind = "restore_relation" /\ task' = task /\ comment' = comment
          /\ blocks' = IF inv.present THEN blocks \cup {inv.relation}
                                      ELSE blocks \ {inv.relation}
      BY <1>8 DEF UndoRelation, CommitUndo, Commit
    <2>. QED
      BY <1>1, <2>1 DEF Restores
  <1>. QED
    BY <1>3, <1>4, <1>5, <1>6, <1>7, <1>8 DEF Undo

\* In every reachable state the inverse kept for the latest operation makes of the
\* tables what that operation started from.
THEOREM RestorableAlways == Spec => [](IInv /\ Restorable)
  <1>1. Init => IInv /\ Restorable
    BY InitSound, InitRestorable
  <1>2. (IInv /\ Restorable) /\ [Next]_vars => (IInv /\ Restorable)'
    BY StepSound, StepRestorable
  <1>. QED
    BY <1>1, <1>2, PTL DEF Spec

\* Whatever the latest operation did (cascades, renumbered siblings, generated
\* occurrences, reversed completions), undoing it gives every row, comment and
\* relation back.
THEOREM UndoGivesEverythingBack == Spec => UndoRestores
  <1>1. IInv /\ Restorable /\ [Next]_vars =>
           [\A o \in DOMAIN undo :
               UndoesLatest(o) /\ undo[o].undoes = None
                   => Content(task', comment', blocks') = before]_vars
    <2> SUFFICES ASSUME IInv, Restorable, [Next]_vars, NEW o \in DOMAIN undo,
                        UndoesLatest(o), undo[o].undoes = None
                 PROVE  Content(task', comment', blocks') = before
      OBVIOUS
    <2>1. o # None /\ o = revision /\ revision' = revision + 1 /\ revision \in Nat
          /\ undo'[o].undoneBy = revision + 1
      BY Facts DEF UndoesLatest, IInv, TypeOK, None
    <2>2. PICK p \in DOMAIN undo \cup {None} : MarksOnly(p) /\ (p # None => Undo(p))
      BY <2>1, StepRestorable
    <2>3. o = p
      BY <2>1, <2>2 DEF MarksOnly
    <2>. QED
      BY <2>1, <2>2, <2>3, UndoGivesBack
  <1>. QED
    BY RestorableAlways, <1>1, PTL DEF Spec, UndoRestores

-----------------------------------------------------------------------------
(***************************************************************************)
(* That the latest operation can be undone.                                *)
(***************************************************************************)

\* Nothing in the tables f, cs and rs refers to the tasks G.
Unused(G, f, cs, rs) ==
    /\ \A t \in DOMAIN f : f[t].parent \notin G /\ f[t].source \notin G
    /\ \A c \in DOMAIN cs : cs[c].task \notin G
    /\ \A r \in rs : r[1] \notin G /\ r[2] \notin G
ImageHolds(post, f, cs, rs) ==
    /\ post.absent \cap DOMAIN f = {}
    /\ \A t \in DOMAIN post.tasks : t \in DOMAIN f /\ f[t] = post.tasks[t]
    /\ post.absentComments \cap DOMAIN cs = {}
    /\ \A c \in DOMAIN post.comments : c \in DOMAIN cs /\ cs[c] = post.comments[c]
    /\ post.present \subseteq rs /\ post.missing \cap rs = {}
\* The rows go back one after the other, each under a parent that is in order
\* among the rows that went back before it and those that have yet to go back.
RowsGoBack(rows, f) ==
    \A t \in DOMAIN rows :
        /\ rows[t].source \in DOMAIN f \cup {None}
        /\ RefsOk(Update(f, [u \in {u \in DOMAIN rows : u <= t - 1} |-> rows[u]]),
                  t, rows[t].parent)

\* The tables f, cs and rs accept the inverse.
Acceptable(inv, post, f, cs, rs) ==
    /\ ImageHolds(post, f, cs, rs)
    /\ inv.kind = "delete_tasks" => LineageOk(DeleteRows(f, inv.ids \cap DOMAIN f))
    /\ inv.kind = "restore_tasks" =>
          RowsGoBack(inv.tasks, f) /\ LineageOk(Update(f, inv.tasks))
    /\ inv.kind = "restore_closure" =>
          /\ \A t \in DOMAIN inv.tasks :
                inv.tasks[t].parent \in DOMAIN inv.tasks \cup DOMAIN f \cup {None}
          /\ DOMAIN inv.comments \cap DOMAIN cs = {}
          /\ \A r \in inv.relations : {r[1], r[2]} \subseteq DOMAIN f \cup DOMAIN inv.tasks
          /\ LineageOk(Update(f, inv.tasks))
    /\ inv.kind = "reverse_completion" =>
          /\ Unused(inv.generated, f, cs, rs)
          /\ LineageOk(Update(DeleteRows(f, inv.generated), inv.tasks))
    /\ inv.kind = "restore_comment" =>
          IF inv.before = <<>> THEN inv.id \in DOMAIN cs
          ELSE inv.before[inv.id].task \in DOMAIN f
    /\ inv.kind = "restore_relation" =>
          (inv.present => {inv.relation[1], inv.relation[2]} \subseteq DOMAIN f)

\* A completion completed its tasks and left the occurrences it generated pending.
Marked(inv, post) ==
    inv.kind = "reverse_completion" =>
        /\ \A t \in DOMAIN inv.tasks : post.tasks[t].status = "completed"
        /\ \A t \in inv.generated : post.tasks[t].status = "pending"

LatestAcceptable ==
    (revision \in DOMAIN undo /\ undo[revision].undoes = None) =>
        /\ undo[revision].undoneBy = None
        /\ Acceptable(undo[revision].inverse, undo[revision].post, task, comment, blocks)
Reversible ==
    /\ LatestAcceptable
    /\ \A o \in DOMAIN undo : Marked(undo[o].inverse, undo[o].post)

LEMMA RefsAlike ==
    ASSUME NEW f, NEW g, DOMAIN f = DOMAIN g, \A u \in DOMAIN f : f[u].parent = g[u].parent,
           NEW t, NEW p, RefsOk(f, t, p)
    PROVE  RefsOk(g, t, p)
  BY DEF RefsOk, Descends, ParentClosed, Parent

\* A lineage that loses some of its references stays unique.
LEMMA LineageShrinks ==
    ASSUME NEW f, NEW g, LineageOk(f), DOMAIN g = DOMAIN f,
           \A t \in DOMAIN g : g[t].source \in {f[t].source, None}
    PROVE  LineageOk(g)
  BY DEF LineageOk

\* In a forest the chain above a task leads away from it: were it met again above its
\* parent, the tasks that lead to it would all have their parents among them.
LEMMA ForestRefs ==
    ASSUME NEW f, Forest(f), None \notin DOMAIN f, NEW t \in DOMAIN f
    PROVE  RefsOk(f, t, f[t].parent)
  <1> DEFINE p == f[t].parent
             B == {b \in DOMAIN f : Descends(f, b, t)}
  <1>1. SUFFICES ASSUME p # None PROVE p # t /\ p \in DOMAIN f /\ ~Descends(f, p, t)
    BY DEF RefsOk
  <1>2. p \in DOMAIN f
    BY <1>1 DEF Forest
  <1>3. p # t
    <2>1. {t} \in SUBSET DOMAIN f /\ {t} # {}
      OBVIOUS
    <2>. QED
      BY <2>1 DEF Forest, Rooted
  <1>4. ASSUME Descends(f, p, t) PROVE FALSE
    <2>1. ASSUME NEW b \in B PROVE f[b].parent \in B
      <3>1. CASE b = t
        BY <1>2, <1>4, <3>1
      <3>2. CASE b # t
        <4>1. f[b].parent # None
          <5>1. SUFFICES ASSUME f[b].parent = None PROVE FALSE
            OBVIOUS
          <5>2. {b} \in SUBSET DOMAIN f /\ ParentClosed(f, {b})
            BY <5>1 DEF ParentClosed, Parent
          <5>. QED
            BY <3>2, <5>2 DEF Descends
        <4>2. f[b].parent \in DOMAIN f
          BY <4>1 DEF Forest
        <4>3. ASSUME NEW S \in SUBSET DOMAIN f, f[b].parent \in S, ParentClosed(f, S)
              PROVE  t \in S
          <5>1. S \cup {b} \in SUBSET DOMAIN f /\ ParentClosed(f, S \cup {b})
            BY <4>3 DEF ParentClosed, Parent
          <5>. QED
            BY <3>2, <5>1 DEF Descends
        <4>. QED
          BY <4>2, <4>3 DEF Descends
      <3>. QED
        BY <3>1, <3>2
    <2>2. p \in B /\ B \in SUBSET DOMAIN f
      BY <1>2, <1>4
    <2> HIDE DEF B
    <2>. QED
      BY <2>1, <2>2 DEF Forest, Rooted
  <1>. QED
    BY <1>2, <1>3, <1>4

LEMMA ChainAbove ==
    ASSUME NEW f, Forest(f), None \notin DOMAIN f, NEW t \in DOMAIN f, f[t].parent # None
    PROVE  \E C \in SUBSET DOMAIN f :
               f[t].parent \in C /\ ParentClosed(f, C) /\ t \notin C
  BY ForestRefs DEF RefsOk, Descends

\* A row goes back under its parent while all rows have the parents they had.
LEMMA BackInPlace ==
    ASSUME NEW f, NEW h, Forest(f), None \notin DOMAIN f, DOMAIN h \subseteq DOMAIN f,
           \A u \in DOMAIN h :
               h[u].parent = f[u].parent /\ h[u].parent \in DOMAIN h \cup {None},
           NEW t \in DOMAIN f, f[t].parent \in DOMAIN h \cup {None}
    PROVE  RefsOk(h, t, f[t].parent)
  <1>1. SUFFICES ASSUME f[t].parent # None
                 PROVE  f[t].parent # t /\ ~Descends(h, f[t].parent, t)
    BY DEF RefsOk
  <1>2. PICK C \in SUBSET DOMAIN f : f[t].parent \in C /\ ParentClosed(f, C) /\ t \notin C
    BY <1>1, ChainAbove
  <1>3. /\ C \cap DOMAIN h \in SUBSET DOMAIN h /\ t \notin C \cap DOMAIN h
        /\ f[t].parent \in C \cap DOMAIN h
        /\ ParentClosed(h, C \cap DOMAIN h)
    BY <1>1, <1>2 DEF ParentClosed, Parent
  <1>. QED
    BY <1>2, <1>3 DEF Descends

\* A row goes back from below p while others are still there: what is above its old
\* parent leads away from it, by old parents or by way of p.
LEMMA BackFrom ==
    ASSUME NEW f, NEW h, Forest(f), None \notin DOMAIN f, DOMAIN h = DOMAIN f,
           NEW p \in DOMAIN f \cup {None},
           \A u \in DOMAIN h : h[u].parent \in {f[u].parent, p},
           NEW t \in DOMAIN f, RefsOk(f, t, p) \/ f[t].parent = p
    PROVE  RefsOk(h, t, f[t].parent)
  <1>1. SUFFICES ASSUME f[t].parent # None
                 PROVE  f[t].parent # t /\ ~Descends(h, f[t].parent, t)
    BY DEF RefsOk, Forest
  <1>2. PICK C \in SUBSET DOMAIN f : f[t].parent \in C /\ ParentClosed(f, C) /\ t \notin C
    BY <1>1, ChainAbove
  <1>3. \E A \in SUBSET DOMAIN f : ParentClosed(f, A) /\ t \notin A /\ p \in A \cup C \cup {None}
    <2>1. CASE p \in C \cup {None}
      <3>1. {} \in SUBSET DOMAIN f /\ ParentClosed(f, {})
        BY DEF ParentClosed
      <3>. QED
        BY <2>1, <3>1
    <2>2. CASE p \notin C \cup {None}
      <3>1. p \in DOMAIN f /\ ~Descends(f, p, t)
        BY <1>2, <2>2 DEF RefsOk
      <3>. QED
        BY <3>1 DEF Descends
    <2>. QED
      BY <2>1, <2>2
  <1>4. PICK A \in SUBSET DOMAIN f : ParentClosed(f, A) /\ t \notin A /\ p \in A \cup C \cup {None}
    BY <1>3
  <1>5. ASSUME NEW u \in A \cup C PROVE h[u].parent \in A \cup C \cup {None}
    <2>1. f[u].parent \in A \cup C \cup {None}
      BY <1>2, <1>4 DEF ParentClosed, Parent
    <2>2. h[u].parent \in {f[u].parent, p}
      OBVIOUS
    <2>. QED
      BY <1>4, <2>1, <2>2
  <1>6. ParentClosed(h, A \cup C)
    BY <1>5 DEF ParentClosed, Parent
  <1>7. A \cup C \in SUBSET DOMAIN h /\ f[t].parent \in A \cup C /\ t \notin A \cup C
    BY <1>2, <1>4
  <1>. QED
    BY <1>6, <1>7 DEF Descends

\* What a commit has to bring along for it.
LEMMA CommitReversible ==
    ASSUME IInv, Reversible, NEW f, NEW cs, NEW rs, NEW inverse, NEW post, NEW undone,
           Commit(f, cs, rs, inverse, post, undone), Marked(inverse, post),
           undone = None => Acceptable(inverse, post, f, cs, rs)
    PROVE  Reversible'
  <1>1. /\ revision \in Nat /\ Now \in Nat /\ Now = revision + 1 /\ Now \notin DOMAIN undo
    BY BoundsAssumption DEF IInv, TypeOK, Ops, Now
  <1>2. /\ revision' = Now /\ task' = f /\ comment' = cs /\ blocks' = rs
        /\ DOMAIN undo' = DOMAIN undo \cup {Now}
        /\ undo'[Now].inverse = inverse /\ undo'[Now].undoes = undone
        /\ undo'[Now].post = post /\ undo'[Now].undoneBy = None
    BY <1>1 DEF Commit, Update, Only
  <1>3. LatestAcceptable'
    <2>1. undone = None =>
             Acceptable(undo'[revision'].inverse, undo'[revision'].post, task', comment', blocks')
      BY <1>2
    <2>2. undo'[revision'].undoes = undone /\ undo'[revision'].undoneBy = None
      BY <1>2
    <2>. QED
      BY <2>1, <2>2 DEF LatestAcceptable
  <1>4. ASSUME NEW o \in DOMAIN undo
        PROVE  undo'[o].inverse = undo[o].inverse /\ undo'[o].post = undo[o].post
    <2>1. DOMAIN undo[o] = Entry
      BY DEF IInv, UndoMaterial
    <2>2. undo'[o] = IF o = undone THEN [undo[o] EXCEPT !.undoneBy = Now] ELSE undo[o]
      BY <1>1 DEF Commit, Update, Only
    <2>. QED
      BY <2>1, <2>2 DEF Entry
  <1>5. \A o \in DOMAIN undo' : Marked(undo'[o].inverse, undo'[o].post)
    BY <1>2, <1>4 DEF Reversible
  <1>. QED
    BY <1>3, <1>5 DEF Reversible, Marked

\* The image of rewritten rows and of others that went, in the tables it was taken from.
Image(rows, gone) == [PostTasks(rows) EXCEPT !.absent = gone]
LEMMA RowsImageHolds ==
    ASSUME NEW rows, NEW gone, NEW f, NEW cs, NEW rs, gone \cap DOMAIN f = {},
           \A t \in DOMAIN rows : t \in DOMAIN f /\ f[t] = rows[t]
    PROVE  /\ ImageHolds(Image(rows, gone), f, cs, rs)
           /\ ImageHolds(PostTasks(rows), f, cs, rs)
           /\ ImageHolds([NoPost EXCEPT !.absent = gone], f, cs, rs)
  BY DEF ImageHolds, Image, PostTasks, NoPost

LEMMA RewriteReversible ==
    ASSUME IInv, Reversible, NEW rows, DOMAIN rows \subseteq DOMAIN task, Rewrite(rows),
           RowsGoBack(Restrict(task, DOMAIN rows), Update(task, rows))
    PROVE  Reversible'
  <1> DEFINE f == Update(task, rows)
             inverse == RestoreTasks(Restrict(task, DOMAIN rows))
  <1>1. Commit(f, comment, blocks, inverse, PostTasks(rows), None)
    BY DEF Rewrite
  <1>2. inverse.kind = "restore_tasks" /\ inverse.tasks = Restrict(task, DOMAIN rows)
    BY DEF RestoreTasks
  <1>3. LineageOk(Update(f, inverse.tasks))
    <2> DEFINE g == Update(f, inverse.tasks)
    <2>1. DOMAIN g = DOMAIN task /\ \A t \in DOMAIN task : g[t] = task[t]
      BY <1>2 DEF Update, Restrict
    <2> HIDE DEF g
    <2>2. LineageOk(g)
      BY <2>1, LineageShrinks DEF IInv, TypeOK
    <2>. QED
      BY <2>2 DEF g
  <1>4. ImageHolds(PostTasks(rows), f, comment, blocks)
    <2>1. \A t \in DOMAIN rows : t \in DOMAIN f /\ f[t] = rows[t]
      BY DEF Update
    <2>2. {} \cap DOMAIN f = {}
      OBVIOUS
    <2> HIDE DEF f
    <2>. QED
      BY <2>1, <2>2, RowsImageHolds
  <1> HIDE DEF inverse
  <1>5. Acceptable(inverse, PostTasks(rows), f, comment, blocks)
    BY <1>2, <1>3, <1>4 DEF Acceptable
  <1>6. Marked(inverse, PostTasks(rows))
    BY <1>2 DEF Marked
  <1> HIDE DEF f
  <1>. QED
    BY <1>1, <1>5, <1>6, CommitReversible

LEMMA InPlaceReversible ==
    ASSUME IInv, Reversible, NEW rows, DOMAIN rows \subseteq DOMAIN task, Rewrite(rows),
           \A t \in DOMAIN rows : rows[t].parent = task[t].parent
    PROVE  Reversible'
  <1> DEFINE f == Update(task, rows)
             old == Restrict(task, DOMAIN rows)
  <1>1. DOMAIN old = DOMAIN rows /\ \A t \in DOMAIN rows : old[t] = task[t]
    BY DEF Restrict
  <1>2. DOMAIN f = DOMAIN task /\ \A u \in DOMAIN task : f[u].parent = task[u].parent
    BY DEF Update
  <1> HIDE DEF f, old
  <1>3. ASSUME NEW t \in DOMAIN old
        PROVE  RefsOk(Update(f, [u \in {u \in DOMAIN old : u <= t - 1} |-> old[u]]),
                      t, old[t].parent)
    <2> DEFINE h == Update(f, [u \in {u \in DOMAIN old : u <= t - 1} |-> old[u]])
    <2>1. DOMAIN h = DOMAIN task /\ \A u \in DOMAIN h : h[u].parent = task[u].parent
      BY <1>1, <1>2 DEF Update
    <2>2. t \in DOMAIN task /\ old[t] = task[t]
      BY <1>1
    <2> HIDE DEF h
    <2>3. RefsOk(h, t, task[t].parent)
      BY <2>1, <2>2, Facts, BackInPlace DEF IInv
    <2>. QED
      BY <2>2, <2>3 DEF h
  <1>4. \A t \in DOMAIN old : old[t].source \in DOMAIN f \cup {None}
    BY <1>1, <1>2 DEF IInv, TypeOK, LineageOk
  <1>5. RowsGoBack(old, f)
    BY <1>3, <1>4 DEF RowsGoBack
  <1>. QED
    BY <1>5, RewriteReversible DEF f, old

LEMMA MovesReversible ==
    ASSUME IInv, Reversible, NEW R, R \subseteq DOMAIN task, NEW p \in DOMAIN task \cup {None},
           \A t \in R : RefsOk(task, t, p) \/ task[t].parent = p,
           Rewrite([t \in R |-> MovedTo(task[t], p)])
    PROVE  Reversible'
  <1> DEFINE rows == [t \in R |-> MovedTo(task[t], p)]
             f == Update(task, rows)
             old == Restrict(task, DOMAIN rows)
  <1>1. revision < MaxOps /\ p \in Tasks \cup {None}
    BY Facts DEF Rewrite, Commit, Tasks
  <1>2. DOMAIN rows = R /\ \A t \in R : rows[t].parent = p
    BY <1>1, Facts, Stamps
  <1>3. DOMAIN old = R /\ \A t \in R : old[t] = task[t]
    BY DEF Restrict
  <1>4. Rewrite(rows)
    OBVIOUS
  <1> HIDE DEF rows
  <1>5. /\ DOMAIN f = DOMAIN task
        /\ \A u \in DOMAIN task : f[u].parent \in {task[u].parent, p}
    BY <1>2 DEF Update
  <1> HIDE DEF f, old
  <1>6. ASSUME NEW t \in DOMAIN old
        PROVE  RefsOk(Update(f, [u \in {u \in DOMAIN old : u <= t - 1} |-> old[u]]),
                      t, old[t].parent)
    <2> DEFINE h == Update(f, [u \in {u \in DOMAIN old : u <= t - 1} |-> old[u]])
    <2>1. DOMAIN h = DOMAIN task /\ \A u \in DOMAIN h : h[u].parent \in {task[u].parent, p}
      BY <1>3, <1>5 DEF Update
    <2>2. t \in DOMAIN task /\ old[t] = task[t] /\ (RefsOk(task, t, p) \/ task[t].parent = p)
      BY <1>3
    <2> HIDE DEF h
    <2>3. RefsOk(h, t, task[t].parent)
      BY <2>1, <2>2, Facts, BackFrom DEF IInv
    <2>. QED
      BY <2>2, <2>3 DEF h
  <1>7. \A t \in DOMAIN old : old[t].source \in DOMAIN f \cup {None}
    BY <1>3, <1>5 DEF IInv, TypeOK, LineageOk
  <1>8. RowsGoBack(old, f)
    BY <1>6, <1>7 DEF RowsGoBack
  <1>. QED
    BY <1>2, <1>4, <1>8, RewriteReversible DEF f, old

\* The inverse of a creation leaves the lineage as it was.
LEMMA CreateReversible ==
    ASSUME IInv, Reversible, NEW p, NEW rule, CreateTask(p, rule)
    PROVE  Reversible'
  <1> DEFINE t == lastId + 1
             row == [parent |-> p, status |-> "pending", source |-> None,
                     doneBy |-> None, rule |-> rule, content |-> Now, revision |-> Now]
             rows == Only(t, row)
             f == Update(task, rows)
             inverse == DeleteTasks({t})
             G == {t}
  <1>1. Commit(f, comment, blocks, inverse, PostTasks(rows), None)
    BY DEF CreateTask
  <1>2. G \cap DOMAIN task = {} /\ None \notin G
    BY Facts DEF None
  <1>3. inverse.kind = "delete_tasks" /\ inverse.ids = G
    BY DEF DeleteTasks
  <1>4. DOMAIN rows = G
    BY DEF Only
  <1> HIDE DEF rows, inverse, G
  <1>5. /\ DOMAIN f = DOMAIN task \cup G /\ \A u \in DOMAIN task : f[u] = task[u]
        /\ \A u \in DOMAIN rows : u \in DOMAIN f /\ f[u] = rows[u]
    BY <1>2, <1>4 DEF Update
  <1> HIDE DEF f
  <1>6. DOMAIN DeleteRows(f, G) = DOMAIN task
    BY <1>2, <1>5 DEF DeleteRows
  <1>7. ASSUME NEW u \in DOMAIN task PROVE DeleteRows(f, G)[u] = task[u]
    <2>1. u \in DOMAIN f \ G /\ f[u] = task[u] /\ f[u] \in TaskRow
      BY <1>2, <1>5, Facts
    <2>2. f[u].parent \notin G /\ f[u].source \notin G
      BY <1>2, <2>1, NothingOn
    <2>. QED
      BY <2>1, <2>2, RowAround
  <1>8. LineageOk(DeleteRows(f, G))
    BY <1>6, <1>7, LineageShrinks DEF IInv, TypeOK
  <1>9. inverse.ids \cap DOMAIN f = G
    BY <1>3, <1>5
  <1>10. ImageHolds(PostTasks(rows), f, comment, blocks)
    <2>1. {} \cap DOMAIN f = {}
      OBVIOUS
    <2>. QED
      BY <1>5, <2>1, RowsImageHolds
  <1>11. Acceptable(inverse, PostTasks(rows), f, comment, blocks)
    BY <1>3, <1>8, <1>9, <1>10 DEF Acceptable
  <1>12. Marked(inverse, PostTasks(rows))
    BY <1>3 DEF Marked
  <1>. QED
    BY <1>1, <1>11, <1>12, CommitReversible

\* Nothing refers yet to the occurrences a completion has just generated.
LEMMA CompleteReversible ==
    ASSUME IInv, Reversible, NEW R \in Roots, CompleteTasks(R)
    PROVE  Reversible'
  <1> DEFINE targets == {t \in UNION {Descendants(task, r) : r \in R} : task[t].status = "pending"}
             recurring == {t \in targets : task[t].rule}
             n == Cardinality(recurring)
             done == [t \in targets |->
                         [Stamp(task[t]) EXCEPT !.status = "completed", !.doneBy = Now]]
             born(kid) == [k \in Range(kid) |->
                 LET s == CHOOSE s \in recurring : kid[s] = k
                 IN  [parent |-> None, status |-> "pending", source |-> s,
                      doneBy |-> None, rule |-> TRUE, content |-> Now, revision |-> Now]]
  <1>1. PICK kid \in Bijection(recurring, lastId + 1 .. lastId + n) :
            Commit(Update(Update(task, done), born(kid)), comment, blocks,
                   ReverseCompletion(Restrict(task, targets), Range(kid)),
                   PostTasks(Update(done, born(kid))), None)
    BY DEF CompleteTasks
  <1> DEFINE G == Range(kid)
             f == Update(Update(task, done), born(kid))
             inverse == ReverseCompletion(Restrict(task, targets), Range(kid))
             rows == Update(done, born(kid))
  <1>2. targets \subseteq DOMAIN task /\ revision < MaxOps
    BY <1>1 DEF Descendants, Commit
  <1>3. G \cap DOMAIN task = {} /\ None \notin G /\ \A k \in G : \E s \in recurring : kid[s] = k
    <2>1. n \in Nat
      BY <1>2, FiniteTasks
    <2>2. kid \in [recurring -> lastId + 1 .. lastId + n]
      BY DEF Bijection, Injection
    <2>. QED
      BY <2>1, <2>2, Facts DEF Range, None
  <1>4. DOMAIN done = targets /\ DOMAIN born(kid) = G
    OBVIOUS
  <1>5. ASSUME NEW t \in targets
        PROVE  /\ done[t].status = "completed"
               /\ done[t].parent = task[t].parent /\ done[t].source = task[t].source
    <2>1. done[t] = [Stamp(task[t]) EXCEPT !.status = "completed", !.doneBy = Now]
      OBVIOUS
    <2>2. task[t] \in TaskRow
      BY <1>2, Facts
    <2> HIDE DEF done
    <2>. QED
      BY <2>1, <2>2 DEF Stamp, TaskRow
  <1>6. ASSUME NEW k \in G
        PROVE  /\ born(kid)[k].status = "pending" /\ born(kid)[k].parent = None
               /\ born(kid)[k].source \in DOMAIN task
    <2>1. PICK s \in recurring : born(kid)[k] =
              [parent |-> None, status |-> "pending", source |-> s,
               doneBy |-> None, rule |-> TRUE, content |-> Now, revision |-> Now]
      BY <1>3
    <2>2. s \in DOMAIN task
      BY <1>2
    <2> HIDE DEF born, recurring
    <2>. QED
      BY <2>1, <2>2
  <1>7. /\ inverse.kind = "reverse_completion" /\ inverse.generated = G
        /\ inverse.tasks = Restrict(task, targets)
    BY DEF ReverseCompletion
  <1> HIDE DEF done, born, targets, G, inverse
  <1>8. /\ DOMAIN f = DOMAIN task \cup G /\ DOMAIN rows = targets \cup G
        /\ \A t \in DOMAIN task \ targets : f[t] = task[t]
        /\ \A t \in targets : f[t] = done[t] /\ rows[t] = done[t]
        /\ \A t \in G : f[t] = born(kid)[t] /\ rows[t] = born(kid)[t]
    BY <1>2, <1>3, <1>4 DEF Update
  <1> HIDE DEF f, rows
  <1>9. Unused(G, f, comment, blocks)
    <2>1. \A t \in DOMAIN task : task[t].parent \notin G /\ task[t].source \notin G
      BY <1>3, NothingOn
    <2>2. \A t \in DOMAIN f : f[t].parent \notin G /\ f[t].source \notin G
      BY <1>2, <1>3, <1>5, <1>6, <1>8, <2>1
    <2>3. \A c \in DOMAIN comment : comment[c].task \notin G
      BY <1>3, TablesAreGood DEF GoodComments
    <2>4. \A r \in blocks : r[1] \notin G /\ r[2] \notin G
      BY <1>3, TablesAreGood
    <2>. QED
      BY <2>2, <2>3, <2>4 DEF Unused
  <1>10. LineageOk(Update(DeleteRows(f, G), inverse.tasks))
    <2> DEFINE g == Update(DeleteRows(f, G), inverse.tasks)
    <2>1. DOMAIN DeleteRows(f, G) = DOMAIN task
      BY <1>3, <1>8 DEF DeleteRows
    <2>2. ASSUME NEW t \in DOMAIN task \ targets PROVE DeleteRows(f, G)[t] = task[t]
      <3>1. t \in DOMAIN f \ G /\ f[t] = task[t] /\ f[t] \in TaskRow
        BY <1>3, <1>8, Facts
      <3>2. f[t].parent \notin G /\ f[t].source \notin G
        BY <1>9, <3>1 DEF Unused
      <3>. QED
        BY <3>1, <3>2, RowAround
    <2>3. DOMAIN g = DOMAIN task /\ \A t \in DOMAIN task : g[t] = task[t]
      BY <1>2, <1>7, <2>1, <2>2 DEF Update, Restrict
    <2> HIDE DEF g
    <2>4. LineageOk(g)
      BY <2>3, LineageShrinks DEF IInv, TypeOK
    <2>. QED
      BY <2>4 DEF g
  <1>11. ImageHolds(PostTasks(rows), f, comment, blocks)
    <2>1. /\ {} \cap DOMAIN f = {}
          /\ \A t \in DOMAIN rows : t \in DOMAIN f /\ f[t] = rows[t]
      BY <1>2, <1>8
    <2>. QED
      BY <2>1, RowsImageHolds
  <1>12. Acceptable(inverse, PostTasks(rows), f, comment, blocks)
    BY <1>7, <1>9, <1>10, <1>11 DEF Acceptable
  <1>13. Marked(inverse, PostTasks(rows))
    <2>1. DOMAIN inverse.tasks = targets /\ PostTasks(rows).tasks = rows
      BY <1>2, <1>7 DEF Restrict, PostTasks, NoPost
    <2>. QED
      BY <1>5, <1>6, <1>7, <1>8, <2>1 DEF Marked
  <1>. QED
    BY <1>1, <1>12, <1>13, CommitReversible DEF f, inverse, rows

\* The rows of a closure find the parents, and the lineage, that they had.
LEMMA DeleteReversible ==
    ASSUME IInv, Reversible, NEW R \in Roots, DeleteTask(R)
    PROVE  Reversible'
  <1> DEFINE D == UNION {Descendants(task, r) : r \in R}
             f == DeleteRows(task, D)
             cs == Without(comment, CommentsOf(D))
             rs == blocks \ RelationsOf(D)
             inverse == RestoreClosure(D)
             post == [NoPost EXCEPT !.absent = D]
  <1>1. Commit(f, cs, rs, inverse, post, None)
    BY DEF DeleteTask
  <1>2. D \subseteq DOMAIN task
    BY DEF Descendants
  <1>3. /\ inverse.kind = "restore_closure" /\ inverse.tasks = Restrict(task, D)
        /\ inverse.comments = Restrict(comment, CommentsOf(D))
        /\ inverse.relations = RelationsOf(D)
    BY DEF RestoreClosure
  <1> HIDE DEF D, inverse
  <1>4. /\ DOMAIN f = DOMAIN task \ D /\ DOMAIN inverse.tasks = D
        /\ \A t \in D : inverse.tasks[t] = task[t]
    BY <1>2, <1>3 DEF DeleteRows, Restrict
  <1>5. ASSUME NEW t \in DOMAIN task \ D
        PROVE  f[t].source \in {task[t].source, None}
    <2>1. task[t] \in TaskRow
      BY Facts
    <2>. QED
      BY <2>1 DEF DeleteRows, TaskRow
  <1>6. LineageOk(Update(f, inverse.tasks))
    <2> DEFINE g == Update(f, inverse.tasks)
    <2>1. /\ DOMAIN g = DOMAIN task /\ \A t \in D : g[t] = task[t]
          /\ \A t \in DOMAIN task \ D : g[t] = f[t]
      BY <1>2, <1>4 DEF Update
    <2> HIDE DEF g, f
    <2>2. LineageOk(g)
      BY <1>5, <2>1, LineageShrinks DEF IInv, TypeOK
    <2>. QED
      BY <2>2 DEF g
  <1>7. \A t \in DOMAIN inverse.tasks :
            inverse.tasks[t].parent \in DOMAIN inverse.tasks \cup DOMAIN f \cup {None}
    BY <1>2, <1>4, Facts
  <1>8. DOMAIN inverse.comments \cap DOMAIN cs = {}
    BY <1>3 DEF Without, Restrict, CommentsOf
  <1>9. \A r \in inverse.relations : {r[1], r[2]} \subseteq DOMAIN f \cup DOMAIN inverse.tasks
    BY <1>2, <1>3, <1>4, TablesAreGood DEF RelationsOf
  <1>10. ImageHolds(post, f, cs, rs)
    <2>1. D \cap DOMAIN f = {} /\ \A t \in DOMAIN <<>> : t \in DOMAIN f /\ f[t] = <<>>[t]
      BY <1>4
    <2> HIDE DEF f, cs, rs
    <2>. QED
      BY <2>1, RowsImageHolds
  <1> HIDE DEF f, cs, rs, post
  <1>11. Acceptable(inverse, post, f, cs, rs)
    BY <1>3, <1>6, <1>7, <1>8, <1>9, <1>10 DEF Acceptable
  <1>12. Marked(inverse, post)
    BY <1>3 DEF Marked
  <1>. QED
    BY <1>1, <1>11, <1>12, CommitReversible

\* A task that was completed is none that the same reversal removes.
LEMMA ReversedApart ==
    ASSUME IInv, Reversible, NEW D, D \subseteq DOMAIN undo,
           \A d \in D : undo[d].inverse.kind = "reverse_completion",
           \A d \in D : PostImageHolds(d)
    PROVE  /\ \A t \in Generated(D) : t \in DOMAIN task /\ task[t].status = "pending"
           /\ \A t \in Sources(D) : t \in DOMAIN task /\ task[t].status = "completed"
  <1>1. ASSUME NEW d \in D
        PROVE  /\ \A t \in undo[d].inverse.generated :
                     t \in DOMAIN task /\ task[t].status = "pending"
               /\ \A t \in DOMAIN undo[d].inverse.tasks :
                     t \in DOMAIN task /\ task[t].status = "completed"
    <2>1. Together(d, undo[d].inverse, undo[d].post, lastId) /\ PostImageHolds(d)
      BY CompletionMaterial
    <2>2. Marked(undo[d].inverse, undo[d].post) /\ undo[d].inverse.kind = "reverse_completion"
      BY DEF Reversible
    <2>. QED
      BY <2>1, <2>2 DEF Together, PostImageHolds, Marked
  <1>. QED
    BY <1>1 DEF Generated, Sources

\* The rows a reversal writes go back under the parents they still have.
LEMMA ReversalReversible ==
    ASSUME IInv, Reversible, NEW f, NEW D, D \subseteq DOMAIN undo, NEW rows, NEW post,
           CommitReversal(f, D, RestoreTasks(rows), post, None),
           \A cs, rs : ImageHolds(post, f, cs, rs),
           \A d \in D : undo[d].inverse.kind = "reverse_completion",
           \A t \in DOMAIN rows : t \in DOMAIN task /\ rows[t] = task[t],
           \A d \in D : DOMAIN undo[d].post.tasks \subseteq DOMAIN rows,
           DOMAIN f = DOMAIN task \ Generated(D),
           \A t \in DOMAIN f : f[t].parent = task[t].parent,
           \A t \in DOMAIN f \ DOMAIN rows : f[t] = DeleteRows(task, Generated(D))[t]
    PROVE  Reversible'
  <1> DEFINE G == Generated(D)
             cs == Without(comment, CommentsOf(G))
             rs == blocks \ RelationsOf(G)
             inverse == RestoreTasks(rows)
  <1>1. /\ Commit(f, cs, rs, inverse, post, None)
        /\ \A d \in D : PostImageHolds(d)
    BY DEF CommitReversal
  <1>2. inverse.kind = "restore_tasks" /\ inverse.tasks = rows
    BY DEF RestoreTasks
  <1>3. G \subseteq DOMAIN rows
    BY CompletionMaterial DEF Generated, Together
  <1>4. \A t \in DOMAIN task : task[t].parent \notin G /\ task[t].source \notin G
    BY <1>1 DEF PostImageHolds, Unreferenced, Generated
  <1>5. DOMAIN f = DOMAIN task \ G /\ \A t \in DOMAIN f \ DOMAIN rows : f[t] = task[t]
    BY <1>4, RowAround, Facts
  <1> HIDE DEF G, inverse
  <1>6. LineageOk(Update(f, rows))
    <2> DEFINE g == Update(f, rows)
    <2>1. DOMAIN g = DOMAIN task /\ \A t \in DOMAIN task : g[t] = task[t]
      BY <1>3, <1>5 DEF Update
    <2> HIDE DEF g
    <2>2. LineageOk(g)
      BY <2>1, LineageShrinks DEF IInv, TypeOK
    <2>. QED
      BY <2>2 DEF g
  <1>7. ASSUME NEW t \in DOMAIN rows
        PROVE  RefsOk(Update(f, [u \in {u \in DOMAIN rows : u <= t - 1} |-> rows[u]]),
                      t, rows[t].parent)
    <2> DEFINE h == Update(f, [u \in {u \in DOMAIN rows : u <= t - 1} |-> rows[u]])
    <2>1. /\ DOMAIN h \subseteq DOMAIN task /\ DOMAIN task \ G \subseteq DOMAIN h
          /\ \A u \in DOMAIN h : h[u].parent = task[u].parent
      BY <1>5 DEF Update
    <2>2. t \in DOMAIN task /\ rows[t] = task[t]
      OBVIOUS
    <2> HIDE DEF h
    <2>3. \A u \in DOMAIN task : task[u].parent \in DOMAIN h \cup {None}
      BY <1>4, <2>1, Facts
    <2>4. RefsOk(h, t, task[t].parent)
      BY <2>1, <2>2, <2>3, Facts, BackInPlace DEF IInv
    <2>. QED
      BY <2>2, <2>4 DEF h
  <1>8. \A t \in DOMAIN rows : rows[t].source \in DOMAIN f \cup {None}
    BY <1>4, <1>5 DEF IInv, TypeOK, LineageOk
  <1>9. RowsGoBack(rows, f)
    BY <1>7, <1>8 DEF RowsGoBack
  <1> HIDE DEF cs, rs
  <1>10. Acceptable(inverse, post, f, cs, rs)
    BY <1>2, <1>6, <1>9 DEF Acceptable
  <1>11. Marked(inverse, post)
    BY <1>2 DEF Marked
  <1>. QED
    BY <1>1, <1>10, <1>11, CommitReversible

LEMMA UncompleteReversible ==
    ASSUME IInv, Reversible, NEW t \in DOMAIN task, UncompleteTask(t)
    PROVE  Reversible'
  <1> DEFINE d == task[t].doneBy
  <1>1. CASE d \in DOMAIN undo
    <2> DEFINE D == {d}
               f == Reversed(D)
               rows == undo[d].post.tasks
               images == Restrict(f, Sources(D))
               post == Image(images, Generated(D))
    <2>1. CommitReversal(f, D, RestoreTasks(rows), post, None)
      BY <1>1 DEF UncompleteTask, Image
    <2>2. /\ D \subseteq DOMAIN undo /\ revision < MaxOps
          /\ \A e \in D : undo[e].inverse.kind = "reverse_completion"
          /\ \A e \in D : PostImageHolds(e)
      BY <1>1, <2>1, RetainedCompletion DEF CommitReversal, Commit
    <2>3. /\ \A u \in DOMAIN rows : u \in DOMAIN task /\ rows[u] = task[u]
          /\ \A e \in D : DOMAIN undo[e].post.tasks \subseteq DOMAIN rows
      BY <2>2 DEF PostImageHolds
    <2>4. Sources(D) \subseteq DOMAIN rows
      BY <2>2, CompletionMaterial DEF Together, Sources
    <2> HIDE DEF D, rows
    <2>5. \A u \in DOMAIN f \ DOMAIN rows : f[u] = DeleteRows(task, Generated(D))[u]
      BY <2>4 DEF Reversed, Update
    <2>6. /\ DOMAIN f = (DOMAIN task \ Generated(D)) \cup Sources(D)
          /\ Sources(D) \subseteq DOMAIN task
          /\ \A u \in DOMAIN f : f[u].parent = task[u].parent
      BY <2>2, ReversedRows
    <2>7. Sources(D) \cap Generated(D) = {}
      BY <2>2, ReversedApart
    <2> HIDE DEF f
    <2>8. DOMAIN f = DOMAIN task \ Generated(D)
      BY <2>6, <2>7
    <2>9. \A cs, rs : ImageHolds(post, f, cs, rs)
      <3>1. /\ \A u \in DOMAIN images : u \in DOMAIN f /\ f[u] = images[u]
            /\ Generated(D) \cap DOMAIN f = {}
        BY <2>6, <2>8 DEF Restrict
      <3> HIDE DEF images
      <3>. QED
        BY <3>1, RowsImageHolds
    <2> HIDE DEF post
    <2>. QED
      BY <2>1, <2>2, <2>3, <2>5, <2>6, <2>8, <2>9, ReversalReversible
  <1>2. CASE d \notin DOMAIN undo
    <2> DEFINE rows == Only(t, Uncompleted(t))
    <2>1. Rewrite(rows) /\ DOMAIN rows = {t} /\ rows[t] = Uncompleted(t) /\ revision < MaxOps
      BY <1>2 DEF UncompleteTask, Only, Rewrite, Commit
    <2> HIDE DEF rows
    <2>2. rows[t].parent = task[t].parent
      BY <2>1, UncompletedRow
    <2>. QED
      BY <2>1, <2>2, InPlaceReversible
  <1>. QED
    BY <1>1, <1>2

LEMMA BulkUncompleteReversible ==
    ASSUME IInv, Reversible, NEW R \in Roots, BulkUncomplete(R)
    PROVE  Reversible'
  <1> DEFINE all == {task[t].doneBy : t \in R} \ {None}
             D == all \cap DOMAIN undo
  <1>1. R \subseteq DOMAIN task /\ \A t \in R : task[t].status = "completed"
    BY DEF Roots, BulkUncomplete
  <1>2. PICK first \in [all \ D -> R] :
            LET alone == Range(first) \cup {t \in R : task[t].doneBy = None}
                after == [t \in alone |-> Uncompleted(t)]
            IN  CommitReversal(Update(Reversed(D), after), D,
                    RestoreTasks(Update(CompletedImages(D), Restrict(task, alone))),
                    Image(after, Generated(D)), None)
    BY DEF BulkUncomplete, Image
  <1> DEFINE alone == Range(first) \cup {t \in R : task[t].doneBy = None}
             after == [t \in alone |-> Uncompleted(t)]
             f == Update(Reversed(D), after)
             rows == Update(CompletedImages(D), Restrict(task, alone))
             post == Image(after, Generated(D))
  <1>3. CommitReversal(f, D, RestoreTasks(rows), post, None)
    BY <1>2
  <1>4. alone \subseteq DOMAIN task /\ \A t \in alone : task[t].status = "completed"
    BY <1>1 DEF Range
  <1>5. /\ D \subseteq DOMAIN undo /\ revision < MaxOps
        /\ \A d \in D : undo[d].inverse.kind = "reverse_completion"
        /\ \A d \in D : PostImageHolds(d)
    BY <1>1, <1>3, RetainedCompletion DEF CommitReversal, Commit
  <1>6. DOMAIN after = alone /\ \A t \in alone : after[t].parent = task[t].parent
    BY <1>4, <1>5, UncompletedRow
  <1> HIDE DEF all, D, alone, after
  <1>7. /\ \A d \in D : DOMAIN undo[d].post.tasks \subseteq DOMAIN CompletedImages(D)
        /\ \A t \in DOMAIN CompletedImages(D) :
              t \in DOMAIN task /\ CompletedImages(D)[t] = task[t]
    <2> DEFINE image(t) == CHOOSE d \in D : t \in DOMAIN undo[d].post.tasks
    <2>1. \A t \in DOMAIN CompletedImages(D) :
              /\ image(t) \in D /\ t \in DOMAIN undo[image(t)].post.tasks
              /\ CompletedImages(D)[t] = undo[image(t)].post.tasks[t]
      BY DEF CompletedImages
    <2> HIDE DEF image
    <2>2. \A d \in D : DOMAIN undo[d].post.tasks \subseteq DOMAIN CompletedImages(D)
      BY DEF CompletedImages
    <2>. QED
      BY <1>5, <2>1, <2>2 DEF PostImageHolds
  <1>8. Sources(D) \subseteq DOMAIN CompletedImages(D)
    BY <1>5, <1>7, CompletionMaterial DEF Together, Sources
  <1>9. /\ \A d \in D : DOMAIN undo[d].post.tasks \subseteq DOMAIN rows
        /\ \A t \in DOMAIN rows : t \in DOMAIN task /\ rows[t] = task[t]
        /\ Sources(D) \cup alone \subseteq DOMAIN rows
    BY <1>4, <1>7, <1>8 DEF Update, Restrict
  <1>10. /\ DOMAIN Reversed(D) = (DOMAIN task \ Generated(D)) \cup Sources(D)
         /\ Sources(D) \subseteq DOMAIN task
         /\ \A t \in DOMAIN Reversed(D) : Reversed(D)[t].parent = task[t].parent
    BY <1>5, ReversedRows
  <1>11. (Sources(D) \cup alone) \cap Generated(D) = {}
    BY <1>4, <1>5, ReversedApart
  <1> HIDE DEF rows
  <1>12. \A t \in DOMAIN f \ DOMAIN rows : f[t] = DeleteRows(task, Generated(D))[t]
    BY <1>6, <1>9 DEF Reversed, Update
  <1>13. /\ DOMAIN f = DOMAIN task \ Generated(D)
         /\ \A t \in DOMAIN f : f[t].parent = task[t].parent
         /\ \A t \in DOMAIN after : t \in DOMAIN f /\ f[t] = after[t]
    BY <1>4, <1>6, <1>10, <1>11 DEF Update
  <1> HIDE DEF f
  <1>14. \A cs, rs : ImageHolds(post, f, cs, rs)
    <2>1. Generated(D) \cap DOMAIN f = {}
      BY <1>13
    <2>. QED
      BY <1>13, <2>1, RowsImageHolds
  <1> HIDE DEF post
  <1>. QED
    BY <1>3, <1>5, <1>9, <1>12, <1>13, <1>14, ReversalReversible

\* What is written around the tasks.
LEMMA CommentReversible ==
    ASSUME IInv, Reversible, NEW c, NEW cs, NEW old, NEW post,
           Commit(task, cs, blocks, RestoreComment(c, old), post, None),
           ImageHolds(post, task, cs, blocks),
           IF old = <<>> THEN c \in DOMAIN cs ELSE old[c].task \in DOMAIN task
    PROVE  Reversible'
  <1> DEFINE inverse == RestoreComment(c, old)
  <1>1. inverse.kind = "restore_comment" /\ inverse.id = c /\ inverse.before = old
    BY DEF RestoreComment
  <1> HIDE DEF inverse
  <1>2. Acceptable(inverse, post, task, cs, blocks)
    BY <1>1 DEF Acceptable
  <1>3. Marked(inverse, post)
    BY <1>1 DEF Marked
  <1>. QED
    BY <1>2, <1>3, CommitReversible DEF inverse

LEMMA CommentImageHolds ==
    ASSUME NEW c, NEW row, NEW f, NEW cs, NEW rs
    PROVE  /\ c \in DOMAIN cs /\ cs[c] = row =>
                 ImageHolds([NoPost EXCEPT !.comments = Only(c, row)], f, cs, rs)
           /\ c \notin DOMAIN cs =>
                 ImageHolds([NoPost EXCEPT !.absentComments = {c}], f, cs, rs)
  BY DEF ImageHolds, NoPost, Only

LEMMA CommentsReversible ==
    ASSUME IInv, Reversible
    PROVE  /\ \A c \in Comments, t \in DOMAIN task : CreateComment(c, t) => Reversible'
           /\ \A c \in DOMAIN comment : PatchComment(c) \/ DeleteComment(c) => Reversible'
  <1>1. ASSUME NEW c \in Comments, NEW t \in DOMAIN task, CreateComment(c, t)
        PROVE  Reversible'
    <2> DEFINE row == [task |-> t, content |-> Now, updatedAt |-> Now]
               cs == Update(comment, Only(c, row))
               post == [NoPost EXCEPT !.comments = Only(c, row)]
    <2>1. Commit(task, cs, blocks, RestoreComment(c, <<>>), post, None)
      BY <1>1 DEF CreateComment
    <2> HIDE DEF row
    <2>2. c \in DOMAIN cs /\ cs[c] = row
      BY DEF Update, Only
    <2> HIDE DEF cs
    <2>3. ImageHolds(post, task, cs, blocks)
      BY <2>2, CommentImageHolds
    <2> HIDE DEF post
    <2>. QED
      BY <2>1, <2>2, <2>3, CommentReversible
  <1>2. ASSUME NEW c \in DOMAIN comment
        PROVE  Only(c, comment[c])[c].task \in DOMAIN task
    BY TablesAreGood DEF GoodComments, Only
  <1>3. ASSUME NEW c \in DOMAIN comment PROVE Only(c, comment[c]) # <<>>
    <2>1. c \in DOMAIN Only(c, comment[c])
      BY DEF Only
    <2>. QED
      BY <2>1
  <1>4. ASSUME NEW c \in DOMAIN comment, PatchComment(c) PROVE Reversible'
    <2> DEFINE row == [comment[c] EXCEPT !.content = Now, !.updatedAt = Now]
               old == Only(c, comment[c])
               cs == Update(comment, Only(c, row))
               post == [NoPost EXCEPT !.comments = Only(c, row)]
    <2>1. Commit(task, cs, blocks, RestoreComment(c, old), post, None)
      BY <1>4 DEF PatchComment
    <2> HIDE DEF row
    <2>2. c \in DOMAIN cs /\ cs[c] = row
      BY DEF Update, Only
    <2> HIDE DEF cs
    <2>3. ImageHolds(post, task, cs, blocks)
      BY <2>2, CommentImageHolds
    <2>4. old[c].task \in DOMAIN task /\ old # <<>>
      BY <1>2, <1>3
    <2> HIDE DEF post, old
    <2>. QED
      BY <2>1, <2>3, <2>4, CommentReversible
  <1>5. ASSUME NEW c \in DOMAIN comment, DeleteComment(c) PROVE Reversible'
    <2> DEFINE old == Only(c, comment[c])
               cs == Without(comment, {c})
               post == [NoPost EXCEPT !.absentComments = {c}]
    <2>1. Commit(task, cs, blocks, RestoreComment(c, old), post, None)
      BY <1>5 DEF DeleteComment
    <2>2. c \notin DOMAIN cs
      BY DEF Without, Restrict
    <2> HIDE DEF cs
    <2>3. ImageHolds(post, task, cs, blocks)
      BY <2>2, CommentImageHolds
    <2>4. old[c].task \in DOMAIN task /\ old # <<>>
      BY <1>2, <1>3
    <2> HIDE DEF post, old
    <2>. QED
      BY <2>1, <2>3, <2>4, CommentReversible
  <1>. QED
    BY <1>1, <1>4, <1>5

LEMMA RelationReversible ==
    ASSUME IInv, Reversible, NEW r, NEW rs, NEW present, NEW post,
           Commit(task, comment, rs, RestoreRelation(r, present), post, None),
           ImageHolds(post, task, comment, rs),
           present => {r[1], r[2]} \subseteq DOMAIN task
    PROVE  Reversible'
  <1> DEFINE inverse == RestoreRelation(r, present)
  <1>1. inverse.kind = "restore_relation" /\ inverse.relation = r /\ inverse.present = present
    BY DEF RestoreRelation
  <1> HIDE DEF inverse
  <1>2. Acceptable(inverse, post, task, comment, rs)
    BY <1>1 DEF Acceptable
  <1>3. Marked(inverse, post)
    BY <1>1 DEF Marked
  <1>. QED
    BY <1>2, <1>3, CommitReversible DEF inverse

\* An undo leaves no operation that the property speaks of, and no completion.
LEMMA UndoReversible ==
    ASSUME IInv, Reversible, NEW o \in DOMAIN undo, Undo(o)
    PROVE  Reversible'
  <1> DEFINE inv == undo[o].inverse
             post == undo[o].post
  <1>1. o # None
    BY Facts DEF IInv, TypeOK, None
  <1>2. ASSUME NEW f, NEW cs, NEW rs, NEW redo, NEW image, Commit(f, cs, rs, redo, image, o),
               redo.kind # "reverse_completion"
        PROVE  Reversible'
    <2>1. Marked(redo, image)
      BY <1>2 DEF Marked
    <2>. QED
      BY <1>1, <1>2, <2>1, CommitReversible
  <1>3. ASSUME NEW f, NEW cs, NEW rs, NEW redo, NEW T, NEW C, CommitUndo(o, f, cs, rs, redo, T, C),
               redo.kind # "reverse_completion"
        PROVE  Reversible'
    BY <1>2, <1>3 DEF CommitUndo
  <1>4. \A ids : DeleteTasks(ids).kind # "reverse_completion"
    BY DEF DeleteTasks
  <1>5. \A rows : RestoreTasks(rows).kind # "reverse_completion"
    BY DEF RestoreTasks
  <1>6. CASE UndoByDeleting(o)
    <2> DEFINE D == inv.ids \cap DOMAIN task
               f == DeleteRows(task, D)
               cs == Without(comment, CommentsOf(D))
               rs == blocks \ RelationsOf(D)
               redo == RestoreTasks(post.tasks)
    <2>1. CommitUndo(o, f, cs, rs, redo, D, {})
      BY <1>6 DEF UndoByDeleting
    <2>2. redo.kind # "reverse_completion"
      BY <1>5
    <2> HIDE DEF D, f, cs, rs, redo
    <2>. QED
      BY <1>3, <2>1, <2>2
  <1>7. CASE UndoDeletion(o)
    <2> DEFINE f == Reinserted(inv.tasks)
               cs == Update(comment, inv.comments)
               rs == blocks \cup inv.relations
               redo == DeleteTasks(DOMAIN inv.tasks)
               T == DOMAIN inv.tasks
    <2>1. CommitUndo(o, f, cs, rs, redo, T, {})
      BY <1>7 DEF UndoDeletion
    <2>2. redo.kind # "reverse_completion"
      BY <1>4
    <2> HIDE DEF T, f, cs, rs, redo
    <2>. QED
      BY <1>3, <2>1, <2>2
  <1>8. CASE UndoCompletion(o)
    <2> DEFINE f == Reversed({o})
               cs == Without(comment, CommentsOf(Generated({o})))
               rs == blocks \ RelationsOf(Generated({o}))
               redo == RestoreTasks(post.tasks)
               image == Capture(o, f, comment, DOMAIN inv.tasks \cup inv.generated, {})
    <2>1. Commit(f, cs, rs, redo, image, o)
      BY <1>8 DEF UndoCompletion, CommitReversal
    <2>2. redo.kind # "reverse_completion"
      BY <1>5
    <2> HIDE DEF f, cs, rs, redo, image
    <2>. QED
      BY <1>2, <2>1, <2>2
  <1>9. CASE UndoRewrite(o)
    <2> DEFINE f == RestoredUpTo(inv.tasks, MaxTasks)
               redo == IF post.tasks = <<>> /\ post.absent # {}
                       THEN DeleteTasks(post.absent) ELSE RestoreTasks(post.tasks)
               T == DOMAIN inv.tasks
    <2>1. CommitUndo(o, f, comment, blocks, redo, T, {})
      BY <1>9 DEF UndoRewrite
    <2>2. redo.kind # "reverse_completion"
      BY <1>4, <1>5
    <2> HIDE DEF f, redo, T
    <2>. QED
      BY <1>3, <2>1, <2>2
  <1>10. CASE UndoComment(o)
    <2> DEFINE c == inv.id
               redo == RestoreComment(c, IF c \in DOMAIN post.comments
                                         THEN Only(c, post.comments[c]) ELSE inv.before)
               row == [inv.before[c] EXCEPT !.updatedAt = Now]
               less == Without(comment, {c})
               more == Update(comment, Only(c, row))
    <2>1. \/ CommitUndo(o, task, less, blocks, redo, {comment[c].task}, {c})
          \/ CommitUndo(o, task, more, blocks, redo, {inv.before[c].task}, {c})
      BY <1>10 DEF UndoComment
    <2>2. redo.kind # "reverse_completion"
      BY DEF RestoreComment
    <2> HIDE DEF c, redo, row, less, more
    <2>. QED
      BY <1>3, <2>1, <2>2
  <1>11. CASE UndoRelation(o)
    <2> DEFINE r == inv.relation
               rs == IF inv.present THEN blocks \cup {r} ELSE blocks \ {r}
               redo == RestoreRelation(r, ~inv.present)
    <2>1. CommitUndo(o, task, comment, rs, redo, {r[1], r[2]}, {})
      BY <1>11 DEF UndoRelation
    <2>2. redo.kind # "reverse_completion"
      BY DEF RestoreRelation
    <2> HIDE DEF r, rs, redo
    <2>. QED
      BY <1>3, <2>1, <2>2
  <1>. QED
    BY <1>6, <1>7, <1>8, <1>9, <1>10, <1>11 DEF Undo

LEMMA InitReversible == Init => Reversible
  BY DEF Init, Reversible, LatestAcceptable

LEMMA StepReversible ==
    ASSUME IInv, Reversible, [Next]_vars
    PROVE  Reversible'
  <1>1. CASE \E p \in DOMAIN task \cup {None}, rule \in BOOLEAN : CreateTask(p, rule)
    BY <1>1, CreateReversible
  <1>2. ASSUME NEW t \in DOMAIN task, NEW p \in DOMAIN task \cup {None}, PatchTask(t, p)
        PROVE  Reversible'
    <2> DEFINE R == {t}
    <2>1. Only(t, MovedTo(task[t], p)) = [u \in R |-> MovedTo(task[u], p)]
      BY DEF Only
    <2>2. /\ R \subseteq DOMAIN task /\ \A u \in R : RefsOk(task, u, p)
          /\ Rewrite([u \in R |-> MovedTo(task[u], p)])
      BY <1>2, <2>1 DEF PatchTask
    <2> HIDE DEF R
    <2>. QED
      BY <2>2, MovesReversible
  <1>3. ASSUME NEW R \in Roots, NEW p \in DOMAIN task \cup {None}, BulkMove(R, p)
        PROVE  Reversible'
    BY <1>3, MovesReversible DEF BulkMove, Roots
  <1>4. ASSUME NEW t \in DOMAIN task, NEW p \in DOMAIN task \cup {None}, MoveAnchored(t, p)
        PROVE  Reversible'
    <2> DEFINE R == {u \in DOMAIN task : task[u].parent = p} \cup {t}
    <2>1. /\ R \subseteq DOMAIN task
          /\ \A u \in R : RefsOk(task, u, p) \/ task[u].parent = p
          /\ Rewrite([u \in R |-> MovedTo(task[u], p)])
      BY <1>4 DEF MoveAnchored
    <2> HIDE DEF R
    <2>. QED
      BY <2>1, MovesReversible
  <1>5. ASSUME NEW p, ReorderTasks(p) PROVE Reversible'
    <2> DEFINE R == {u \in DOMAIN task : task[u].parent = p}
               rows == [u \in R |-> Edited(task[u])]
    <2>1. Rewrite(rows) /\ DOMAIN rows = R /\ R \subseteq DOMAIN task /\ revision < MaxOps
      BY <1>5 DEF ReorderTasks, Rewrite, Commit
    <2>2. \A u \in R : rows[u].parent = task[u].parent
      BY <2>1, Facts, Stamps DEF None
    <2> HIDE DEF R, rows
    <2>. QED
      BY <2>1, <2>2, InPlaceReversible
  <1>6. CASE \E R \in Roots : CompleteTasks(R) \/ DeleteTask(R) \/ BulkUncomplete(R)
    BY <1>6, CompleteReversible, DeleteReversible, BulkUncompleteReversible
  <1>7. ASSUME NEW t \in DOMAIN task, NEW from, NEW to, ChangeStatus(t, from, to)
        PROVE  Reversible'
    <2> DEFINE row == [Stamp(task[t]) EXCEPT !.status = to, !.doneBy = None]
               rows == Only(t, row)
    <2>1. Rewrite(rows) /\ DOMAIN rows = {t} /\ rows[t] = row
      BY <1>7 DEF ChangeStatus, Only
    <2>2. row.parent = task[t].parent
      BY Facts DEF Stamp, TaskRow
    <2> HIDE DEF row, rows
    <2>. QED
      BY <2>1, <2>2, InPlaceReversible
  <1>8. CASE \E t \in DOMAIN task : CancelTask(t) \/ ReopenTask(t)
    BY <1>7, <1>8 DEF CancelTask, ReopenTask
  <1>9. CASE \E t \in DOMAIN task : UncompleteTask(t)
    BY <1>9, UncompleteReversible
  <1>10. CASE \/ \E c \in Comments, t \in DOMAIN task : CreateComment(c, t)
              \/ \E c \in DOMAIN comment : PatchComment(c) \/ DeleteComment(c)
    BY <1>10, CommentsReversible
  <1>11. ASSUME NEW from, NEW to, AddRelation(from, to) PROVE Reversible'
    <2> DEFINE r == <<from, to>>
               rs == blocks \cup {r}
               post == [NoPost EXCEPT !.present = {r}]
    <2>1. Commit(task, comment, rs, RestoreRelation(r, FALSE), post, None)
      BY <1>11 DEF AddRelation
    <2>2. ImageHolds(post, task, comment, rs)
      BY DEF ImageHolds, NoPost
    <2> HIDE DEF r, rs, post
    <2>. QED
      BY <2>1, <2>2, RelationReversible
  <1>12. ASSUME NEW r \in blocks, RemoveRelation(r) PROVE Reversible'
    <2> DEFINE rs == blocks \ {r}
               post == [NoPost EXCEPT !.missing = {r}]
    <2>1. Commit(task, comment, rs, RestoreRelation(r, TRUE), post, None)
      BY <1>12 DEF RemoveRelation
    <2>2. ImageHolds(post, task, comment, rs)
      BY DEF ImageHolds, NoPost
    <2>3. {r[1], r[2]} \subseteq DOMAIN task
      BY TablesAreGood
    <2> HIDE DEF rs, post
    <2>. QED
      BY <2>1, <2>2, <2>3, RelationReversible
  <1>13. CASE \E o \in DOMAIN undo : Undo(o)
    BY <1>13, UndoReversible
  <1>14. CASE Expire
    <2>1. /\ DOMAIN undo' \subseteq DOMAIN undo /\ \A o \in DOMAIN undo' : undo'[o] = undo[o]
          /\ task' = task /\ comment' = comment /\ blocks' = blocks /\ revision' = revision
      BY <1>14 DEF Expire, Without, Restrict
    <2>2. LatestAcceptable'
      BY <2>1 DEF Reversible, LatestAcceptable
    <2>. QED
      BY <2>1, <2>2 DEF Reversible, Marked
  <1>15. CASE UNCHANGED vars
    <2>1. LatestAcceptable'
      BY <1>15 DEF Reversible, LatestAcceptable, vars
    <2>. QED
      BY <1>15, <2>1 DEF Reversible, Marked, vars
  <1>. QED
    BY <1>1, <1>2, <1>3, <1>4, <1>5, <1>6, <1>8, <1>9, <1>10, <1>11, <1>12, <1>13, <1>14, <1>15
       DEF Next

\* Stamping what is restored changes neither its parents nor its lineage.
LEMMA AcceptedWhenAcceptable ==
    ASSUME IInv, Reversible, revision < MaxOps, NEW o \in DOMAIN undo, o = revision,
           undo[o].undoes = None, ~OwnLineage(o)
    PROVE  UndoAccepted(o)
  <1> DEFINE inv == undo[o].inverse
             post == undo[o].post
             back == [t \in DOMAIN inv.tasks |-> Stamp(inv.tasks[t])]
  <1>1. /\ Acceptable(inv, post, task, comment, blocks)
        /\ undo[o].undoneBy = None
    BY DEF Reversible, LatestAcceptable
  <1>2. InverseSound(inv, Completing, lastId)
    BY DEF IInv, UndoMaterial
  <1>3. Undoable(o)
    <2>1. inv.kind = "reverse_completion" => Unreferenced(inv.generated)
      BY <1>1 DEF Acceptable, Unused, Unreferenced, CommentsOf, RelationsOf
    <2>2. ImageHolds(post, task, comment, blocks)
      BY <1>1 DEF Acceptable
    <2>. QED
      BY <1>1, <2>1, <2>2 DEF Undoable, PostImageHolds, ImageHolds
  <1>4. ASSUME NEW t \in DOMAIN inv.tasks,
               inv.kind \in {"restore_tasks", "reverse_completion"}
        PROVE  /\ t \in 1..lastId
               /\ Stamp(inv.tasks[t]).parent = inv.tasks[t].parent
               /\ Stamp(inv.tasks[t]).source = inv.tasks[t].source
    BY <1>2, <1>4 DEF InverseSound, GoodRows, Stamp, TaskRow
  <1>5. CASE inv.kind = "delete_tasks"
    BY <1>1, <1>3, <1>5 DEF UndoAccepted, Acceptable
  <1>6. CASE inv.kind = "restore_closure"
    <2>1. DOMAIN Reinserted(inv.tasks) = DOMAIN task \cup DOMAIN inv.tasks
      BY DEF Reinserted, Update
    <2>2. Insertable(inv.tasks)
      BY <1>1, <1>6 DEF Insertable, Acceptable, OwnLineage
    <2>3. ClosureFits(inv) /\ LineageOk(Reinserted(inv.tasks))
      BY <1>1, <1>6, <2>1, <2>2 DEF ClosureFits, Acceptable, Reinserted
    <2>. QED
      BY <1>3, <1>6, <2>3 DEF UndoAccepted
  <1>7. CASE inv.kind = "reverse_completion"
    <2> DEFINE D == {o}
    <2>1. /\ D \subseteq DOMAIN undo
          /\ \A d \in D : undo[d].inverse.kind = "reverse_completion" /\ PostImageHolds(d)
      BY <1>3, <1>7 DEF Undoable
    <2>2. Generated(D) = inv.generated /\ Sources(D) = DOMAIN inv.tasks
      BY DEF Generated, Sources
    <2>3. ASSUME NEW t \in DOMAIN inv.tasks
          PROVE  Reversed(D)[t] = Stamp(inv.tasks[t])
      <3>1. (CHOOSE d \in D : t \in DOMAIN undo[d].inverse.tasks) = o
        OBVIOUS
      <3>2. t \in Sources(D)
        BY <2>2
      <3> HIDE DEF D
      <3>. QED
        BY <3>1, <3>2 DEF Reversed, Update
    <2> HIDE DEF D
    <2>4. /\ Sources(D) \subseteq DOMAIN task
          /\ DOMAIN Reversed(D) = (DOMAIN task \ Generated(D)) \cup Sources(D)
          /\ \A t \in DOMAIN task : task[t].parent \notin Generated(D)
          /\ \A t \in DOMAIN Reversed(D) : Reversed(D)[t].parent = task[t].parent
      BY <2>1, ReversedRows
    <2>5. ParentsFit(Reversed(D), D)
      <3> DEFINE g == Reversed(D)
      <3>1. None \notin DOMAIN g /\ \A t \in DOMAIN g : g[t].parent \in DOMAIN g \cup {None}
        BY <2>4, Facts
      <3>2. \A t \in DOMAIN g : t \in DOMAIN task /\ g[t].parent = task[t].parent
        BY <2>4
      <3>3. Sources(D) \subseteq DOMAIN g
        BY <2>4
      <3> HIDE DEF g
      <3>4. Forest(g)
        BY <3>1, <3>2, KeptOrRoot DEF IInv
      <3>5. \A t \in Sources(D) : RefsOk(g, t, g[t].parent)
        BY <3>1, <3>3, <3>4, ForestRefs
      <3>. QED
        BY <3>5 DEF ParentsFit, g
    <2>6. LineageOk(Reversed(D))
      <3> DEFINE f == Update(DeleteRows(task, inv.generated), inv.tasks)
                 g == Reversed(D)
      <3>1. LineageOk(f)
        BY <1>1, <1>7 DEF Acceptable
      <3>2. DOMAIN g = DOMAIN f
        BY <2>2, <2>4 DEF Update, DeleteRows
      <3>3. ASSUME NEW t \in DOMAIN g PROVE g[t].source = f[t].source
        <4>1. CASE t \in DOMAIN inv.tasks
          <5>1. f[t] = inv.tasks[t]
            BY <4>1 DEF Update
          <5> HIDE DEF f
          <5>. QED
            BY <1>4, <1>7, <2>3, <4>1, <5>1
        <4>2. CASE t \notin DOMAIN inv.tasks
          BY <2>2, <2>4, <4>2 DEF Update, Reversed
        <4>. QED
          BY <4>1, <4>2
      <3> HIDE DEF f, g
      <3>4. LineageOk(g)
        BY <3>1, <3>2, <3>3, LineageShrinks
      <3>. QED
        BY <3>4 DEF g
    <2>. QED
      BY <1>3, <1>7, <2>5, <2>6 DEF UndoAccepted, D
  <1>8. CASE inv.kind = "restore_tasks"
    <2> DEFINE rows == inv.tasks
               upTo(n) == Update(task, [u \in {u \in DOMAIN rows : u <= n} |-> rows[u]])
    <2>1. RowsGoBack(rows, task) /\ LineageOk(Update(task, rows))
      BY <1>1, <1>8 DEF Acceptable
    <2>2. ASSUME NEW n
          PROVE  /\ DOMAIN RestoredUpTo(rows, n) = DOMAIN upTo(n)
                 /\ \A u \in DOMAIN upTo(n) :
                       RestoredUpTo(rows, n)[u].parent = upTo(n)[u].parent
      BY <1>4, <1>8 DEF RestoredUpTo, Update
    <2>3. ASSUME NEW t \in DOMAIN rows PROVE RestoreAllowed(rows, t)
      <3>1. RefsOk(upTo(t - 1), t, rows[t].parent) /\ rows[t].source \in DOMAIN task \cup {None}
        BY <2>1 DEF RowsGoBack
      <3>2. /\ DOMAIN upTo(t - 1) = DOMAIN RestoredUpTo(rows, t - 1)
            /\ \A u \in DOMAIN upTo(t - 1) :
                  upTo(t - 1)[u].parent = RestoredUpTo(rows, t - 1)[u].parent
        BY <2>2
      <3>3. DOMAIN task \subseteq DOMAIN RestoredUpTo(rows, t)
        BY DEF RestoredUpTo, Update
      <3> HIDE DEF upTo, rows
      <3>4. RefsOk(RestoredUpTo(rows, t - 1), t, rows[t].parent)
        BY <3>1, <3>2, RefsAlike
      <3>. QED
        BY <3>1, <3>3, <3>4 DEF RestoreAllowed
    <2>4. LineageOk(RestoredUpTo(rows, MaxTasks))
      <3> DEFINE f == Update(task, rows)
                 g == RestoredUpTo(rows, MaxTasks)
      <3>1. {u \in DOMAIN rows : u <= MaxTasks} = DOMAIN rows
        BY <1>4, <1>8, Facts
      <3>2. DOMAIN g = DOMAIN f /\ \A t \in DOMAIN g : g[t].source = f[t].source
        BY <1>4, <1>8, <3>1 DEF RestoredUpTo, Update
      <3>3. LineageOk(f)
        BY <2>1
      <3> HIDE DEF f, g
      <3>4. LineageOk(g)
        BY <3>2, <3>3, LineageShrinks
      <3>. QED
        BY <3>4 DEF g
    <2>. QED
      BY <1>3, <1>8, <2>3, <2>4 DEF UndoAccepted, RowsFit
  <1>9. CASE inv.kind \in {"restore_comment", "restore_relation"}
    <2>1. LineageOk(task)
      BY DEF IInv, TypeOK
    <2>. QED
      BY <1>1, <1>3, <1>9, <2>1 DEF UndoAccepted, Acceptable, CommentFits, RelationFits
  <1>. QED
    BY <1>2, <1>5, <1>6, <1>7, <1>8, <1>9 DEF InverseSound

\* Whatever the latest operation was, and in whatever order its rows go back one by
\* one, nothing that undo_ops.rs checks stands in the way of undoing it.
THEOREM LatestCanBeUndone == Spec => []LatestIsUndoable
  <1>1. Init => IInv /\ Reversible
    BY InitSound, InitReversible
  <1>2. (IInv /\ Reversible) /\ [Next]_vars => (IInv /\ Reversible)'
    BY StepSound, StepReversible
  <1>3. IInv /\ Reversible => LatestIsUndoable
    BY AcceptedWhenAcceptable DEF LatestIsUndoable
  <1>. QED
    BY <1>1, <1>2, <1>3, PTL DEF Spec

=============================================================================
