----------------------- MODULE ReminderDeliveryProofs -----------------------
(***************************************************************************)
(* Proofs about ReminderDelivery, for any tasks, instants, durations and   *)
(* staleness of the stamps: the schedule is sound, the claims of an        *)
(* occurrence never overlap, an answer counts once and only for the claim  *)
(* it answers, and what was delivered stays delivered.                     *)
(***************************************************************************)
EXTENDS ReminderDelivery, TLAPS

-----------------------------------------------------------------------------
(***************************************************************************)
(* The invariant: what every row, also of a snapshot kept for an undo,     *)
(* tells about the claims granted on its occurrence and their answers.     *)
(***************************************************************************)

\* A row that waits is wanted, or a claim on it was lost.
Wanted(o, t, row) ==
    row.state = "pending" => o[2] = Intent(t) \/ row.result = "owner_lost"

\* The row an accepted answer leaves behind.
SettledRow(a) ==
    [state |-> a.result, term |-> a.grant.term, until |-> 0,
     attempts |-> a.grant.attempt, retryAt |-> 0, result |-> a.result]

\* The row counts the claims (G) granted on o.  One that is free to be claimed has no
\* claim under way and no answer (A); a claimed one has one claim, which is not answered;
\* a terminal one is what the answer made of it.
Counted(o, row, G) == \A g \in G : g.occ = o => g.attempt <= row.attempts
Over(o, G, now) == \A g \in G : g.occ = o => g.until <= now
Unanswered(o, A) == \A a \in A : a.grant.occ # o
UnderClaim(o, row, G, now) ==
    /\ \E g \in G : /\ g.occ = o /\ g.attempt = row.attempts
                    /\ g.term = row.term /\ g.until = row.until
    /\ \A g \in G : g.occ = o /\ g.attempt # row.attempts => g.until <= now
Tells(o, row, G, A, now) ==
    /\ Counted(o, row, G)
    /\ row.state \in {"absent", "pending", "cancelled"} =>
          Over(o, G, now) /\ Unanswered(o, A)
    /\ row.state = "claimed" => UnderClaim(o, row, G, now) /\ Unanswered(o, A)
    /\ row.state \in {"delivered", "failed"} =>
          \E a \in A : a.grant.occ = o /\ row = SettledRow(a)

\* The rows of a deleted task are gone.
Known(o, t, row, G, A, now) ==
    \/ t.status = "deleted" /\ row = NoRow
    \/ Tells(o, row, G, A, now)

\* Delivery only ever moves a row on: it is never again what it was.
Moved(from, to) ==
    /\ from # NoRow
    /\ \/ to = NoRow
       \/ to.attempts > from.attempts
       \/ to.attempts = from.attempts /\ from.state = "claimed" /\ to.state # "claimed"

RowSound(o, t, row, G, A, F, now) ==
    /\ Wanted(o, t, row)
    /\ o \in F \/ Known(o, t, row, G, A, now)

\* Undo material: while a row is as the mutation left it, what it was before still holds.
SavedSound(o, before, after, row, G, A, F, now) ==
    LET was == before.rows[o[2]]
        left == after[o[2]]
    IN  /\ WellFormed(was)
        /\ Wanted(o, before.task, was)
        /\ row = left \/ Moved(left, row)
        /\ o \in F \/ (row = left => Known(o, before.task, was, G, A, now))

AttemptsNumbered ==
    \A g, h \in grants :
        g.occ = h.occ /\ g.attempt = h.attempt /\ g.occ \notin forgotten => g = h

IInv ==
    /\ TypeOK
    /\ lease.until # 0 => lease.term # 0
    /\ AttemptsNumbered
    /\ ClaimsDontOverlap
    /\ LateAnswersAreRefused
    /\ \A o \in Occurrences :
          RowSound(o, task[o[1]], rows[o], grants, accepted, forgotten, clock)
    /\ \A o \in Occurrences :
          saved[o[1]].undoable =>
              SavedSound(o, saved[o[1]].before, saved[o[1]].after, rows[o],
                         grants, accepted, forgotten, clock)

-----------------------------------------------------------------------------
(***************************************************************************)
(* One row.                                                                *)
(***************************************************************************)

LEMMA NoRowSound ==
    /\ NoRow \in Rows /\ WellFormed(NoRow) /\ NoRow.state = "absent" /\ NoRow.attempts = 0
    /\ \A o, t : Wanted(o, t, NoRow)
  BY DEF NoRow, Row, Rows, RowStates, Results, WellFormed, Wanted

\* Claims and answers of other occurrences, and time, do not change what a row tells.
Elsewhere(o, G, G2, A, A2) ==
    /\ G \subseteq G2 /\ \A g \in G2 : g.occ = o => g \in G
    /\ A \subseteq A2 /\ \A a \in A2 : a.grant.occ = o => a \in A

LEMMA KnownKept ==
    ASSUME NEW o, NEW t, NEW row, NEW G \in SUBSET Grants, NEW G2, NEW A, NEW A2,
           Elsewhere(o, G, G2, A, A2), NEW now \in Nat, NEW later \in Nat, now <= later,
           Known(o, t, row, G, A, now)
    PROVE  Known(o, t, row, G2, A2, later)
  <1>1. CASE t.status = "deleted" /\ row = NoRow
    BY <1>1 DEF Known
  <1>2. CASE Tells(o, row, G, A, now)
    <2>t. \A g \in G : g.until \in Nat
      BY DEF Grants
    <2>1. Counted(o, row, G2)
      BY <1>2 DEF Tells, Counted, Elsewhere
    <2>2. Over(o, G, now) => Over(o, G2, later)
      BY <2>t DEF Over, Elsewhere
    <2>3. Unanswered(o, A) => Unanswered(o, A2)
      BY DEF Unanswered, Elsewhere
    <2>4. UnderClaim(o, row, G, now) => UnderClaim(o, row, G2, later)
      BY <2>t DEF UnderClaim, Elsewhere
    <2>5. row.state \in {"delivered", "failed"} =>
              \E a \in A2 : a.grant.occ = o /\ row = SettledRow(a)
      BY <1>2 DEF Tells, Elsewhere
    <2> QED
      BY <1>2, <2>1, <2>2, <2>3, <2>4, <2>5 DEF Tells, Known
  <1> QED
    BY <1>1, <1>2 DEF Known

LEMMA MovedIsTransitive ==
    ASSUME NEW a \in Rows, NEW b \in Rows, NEW c \in Rows,
           a = b \/ Moved(a, b), Moved(b, c)
    PROVE  Moved(a, c)
  BY DEF Moved, Rows

LEMMA MovedIsStrict ==
    ASSUME NEW a \in Rows, NEW b \in Rows, Moved(a, b) PROVE a # b
  BY DEF Moved, Rows

LEMMA SavedKept ==
    ASSUME NEW o, NEW before, NEW after, NEW row, NEW G \in SUBSET Grants, NEW G2,
           NEW A, NEW A2, Elsewhere(o, G, G2, A, A2),
           NEW F, NEW F2, F \subseteq F2,
           NEW now \in Nat, NEW later \in Nat, now <= later,
           SavedSound(o, before, after, row, G, A, F, now)
    PROVE  SavedSound(o, before, after, row, G2, A2, F2, later)
  <1>1. Known(o, before.task, before.rows[o[2]], G, A, now) =>
            Known(o, before.task, before.rows[o[2]], G2, A2, later)
    BY KnownKept
  <1> QED
    BY <1>1 DEF SavedSound

LEMMA SavedMoved ==
    ASSUME NEW o, NEW before, NEW after, NEW row \in Rows, NEW to \in Rows,
           NEW G, NEW G2, NEW A, NEW A2, NEW F, NEW F2, NEW now, NEW later,
           after[o[2]] \in Rows, Moved(row, to),
           SavedSound(o, before, after, row, G, A, F, now)
    PROVE  SavedSound(o, before, after, to, G2, A2, F2, later)
  <1>1. Moved(after[o[2]], to)
    BY MovedIsTransitive DEF SavedSound
  <1>2. to # after[o[2]]
    BY <1>1, MovedIsStrict
  <1> QED
    BY <1>1, <1>2 DEF SavedSound

\* A claim of a row that waits: all earlier claims are over.
LEMMA ClaimTells ==
    ASSUME NEW o, NEW row \in Rows, row.state = "pending",
           NEW G \in SUBSET Grants, NEW A, NEW now \in Nat, Tells(o, row, G, A, now),
           NEW term \in Nat, NEW until \in Nat,
           NEW to \in Rows, to.state = "claimed", to.term = term, to.until = until,
           to.attempts = row.attempts + 1,
           NEW new, new.occ = o, new.term = term, new.attempt = row.attempts + 1,
           new.until = until,
           NEW G2, G \subseteq G2, new \in G2, \A g \in G2 : g.occ = o => g \in G \/ g = new
    PROVE  Tells(o, to, G2, A, now) /\ Moved(row, to)
  <1>1. row.attempts \in Nat /\ to.attempts \in Nat /\ \A g \in G : g.attempt \in Nat
    BY DEF Rows, Grants
  <1>2. Counted(o, row, G) /\ Over(o, G, now) /\ Unanswered(o, A)
    BY DEF Tells
  <1>3. Counted(o, to, G2)
    BY <1>1, <1>2 DEF Counted
  <1>4. UnderClaim(o, to, G2, now)
    BY <1>1, <1>2 DEF UnderClaim, Over
  <1>5. Tells(o, to, G2, A, now)
    BY <1>2, <1>3, <1>4 DEF Tells
  <1>6. row # NoRow
    BY NoRowSound
  <1> QED
    BY <1>1, <1>5, <1>6 DEF Moved

\* A claim that expired is over, with all the others.
LEMMA LossTells ==
    ASSUME NEW o, NEW row \in Rows, row.state = "claimed",
           NEW G \in SUBSET Grants, NEW A, NEW now \in Nat, Tells(o, row, G, A, now),
           row.until <= now,
           \A g, h \in G : g.occ = o /\ h.occ = o /\ g.attempt = h.attempt => g = h,
           NEW to \in Rows, to.state = "pending", to.attempts = row.attempts
    PROVE  Tells(o, to, G, A, now) /\ Moved(row, to)
  <1>1. Counted(o, row, G) /\ UnderClaim(o, row, G, now) /\ Unanswered(o, A)
    BY DEF Tells
  <1>2. Over(o, G, now)
    BY <1>1 DEF UnderClaim, Over
  <1>3. Counted(o, to, G)
    BY <1>1 DEF Counted
  <1>4. Tells(o, to, G, A, now)
    BY <1>1, <1>2, <1>3 DEF Tells
  <1>5. row # NoRow
    BY NoRowSound
  <1> QED
    BY <1>4, <1>5 DEF Moved, Rows

\* An accepted answer makes the row what it says.
LEMMA AnswerTells ==
    ASSUME NEW o, NEW row \in Rows, row.state = "claimed",
           NEW G, NEW A, NEW now, Tells(o, row, G, A, now),
           NEW a, a.grant.occ = o, a.result \in {"delivered", "failed"},
           NEW to \in Rows, to = SettledRow(a), to.attempts = row.attempts,
           NEW A2, a \in A2
    PROVE  Tells(o, to, G, A2, now) /\ Moved(row, to)
  <1>1. to.state = a.result
    BY DEF SettledRow
  <1>2. Counted(o, to, G)
    BY DEF Tells, Counted
  <1>3. Tells(o, to, G, A2, now)
    BY <1>1, <1>2 DEF Tells
  <1>4. row # NoRow
    BY NoRowSound
  <1> QED
    BY <1>1, <1>3, <1>4 DEF Moved

\* Scheduling keeps what a row tells: only rows that wait come and go.
LEMMA EnsuredTells ==
    ASSUME NEW o, NEW row \in Rows, WellFormed(row), NEW G, NEW A, NEW now,
           Tells(o, row, G, A, now)
    PROVE  /\ EnsuredRow(row) \in Rows /\ WellFormed(EnsuredRow(row))
           /\ Tells(o, EnsuredRow(row), G, A, now)
  <1> DEFINE to == [Row("pending") EXCEPT !.attempts = row.attempts]
  <1>1. CASE row.state \in {"absent", "cancelled"}
    <2>1. to \in Rows /\ to.state = "pending" /\ to.attempts = row.attempts
          /\ to.until = 0 /\ to.term = 0 /\ to.retryAt = 0
      BY DEF Row, Rows, RowStates, Results
    <2>2. EnsuredRow(row) = to
      BY <1>1 DEF EnsuredRow
    <2> HIDE DEF to
    <2>3. WellFormed(to)
      BY <2>1 DEF WellFormed
    <2>4. Tells(o, to, G, A, now)
      BY <1>1, <2>1 DEF Tells, Counted
    <2> QED
      BY <2>1, <2>2, <2>3, <2>4
  <1>2. CASE row.state \notin {"absent", "cancelled"}
    BY <1>2 DEF EnsuredRow
  <1> QED
    BY <1>1, <1>2

LEMMA CancelledTells ==
    ASSUME NEW o, NEW row \in Rows, WellFormed(row), row.state = "pending",
           NEW G, NEW A, NEW now, Tells(o, row, G, A, now)
    PROVE  /\ CancelledRow(row) \in Rows /\ WellFormed(CancelledRow(row))
           /\ CancelledRow(row).state = "cancelled"
           /\ Tells(o, CancelledRow(row), G, A, now)
  <1> DEFINE to == CancelledRow(row)
  <1>1. to \in Rows /\ to.state = "cancelled" /\ to.attempts = row.attempts
        /\ to.until = 0 /\ to.term = 0 /\ to.retryAt = 0
    BY DEF CancelledRow, Rows, RowStates, Results
  <1> HIDE DEF to
  <1>2. WellFormed(to)
    BY <1>1 DEF WellFormed
  <1>3. Tells(o, to, G, A, now)
    BY <1>1 DEF Tells, Counted
  <1> QED
    BY <1>1, <1>2, <1>3 DEF to

-----------------------------------------------------------------------------
(***************************************************************************)
(* Steps that leave the tasks and their undo material alone.               *)
(***************************************************************************)

\* What the invariant says of one occurrence.
LEMMA OccurrenceSound ==
    ASSUME IInv, NEW o \in Occurrences
    PROVE  /\ o[1] \in Tasks /\ o[2] \in Instants /\ o = <<o[1], o[2]>>
           /\ rows[o] \in Rows /\ WellFormed(rows[o]) /\ task[o[1]] \in TaskStates
           /\ RowSound(o, task[o[1]], rows[o], grants, accepted, forgotten, clock)
           /\ saved[o[1]].undoable =>
                 /\ saved[o[1]].before.rows[o[2]] \in Rows
                 /\ saved[o[1]].after[o[2]] \in Rows
                 /\ SavedSound(o, saved[o[1]].before, saved[o[1]].after, rows[o],
                               grants, accepted, forgotten, clock)
  <1>1. o[1] \in Tasks /\ o[2] \in Instants /\ o = <<o[1], o[2]>>
    BY DEF Occurrences
  <1>2. rows[o] \in Rows /\ WellFormed(rows[o]) /\ task[o[1]] \in TaskStates
    BY <1>1 DEF IInv, TypeOK
  <1>3. ASSUME saved[o[1]].undoable
        PROVE  saved[o[1]].before.rows[o[2]] \in Rows /\ saved[o[1]].after[o[2]] \in Rows
    <2>1. saved[o[1]] \in UndoMaterial \union {NoUndo}
      BY <1>1 DEF IInv, TypeOK
    <2>2. saved[o[1]] # NoUndo
      BY <1>3 DEF NoUndo
    <2> QED
      BY <2>1, <2>2, <1>1 DEF UndoMaterial, Snapshots
  <1> QED
    BY <1>1, <1>2, <1>3 DEF IInv

\* An occurrence keeps its row, with claims and answers only of others, or moves on.
OccurrenceSteps(o) ==
    \/ rows'[o] = rows[o] /\ Elsewhere(o, grants, grants', accepted, accepted')
    \/ /\ Moved(rows[o], rows'[o])
       /\ RowSound(o, task[o[1]], rows'[o], grants', accepted', forgotten', clock')

LEMMA OneOccurrence ==
    ASSUME IInv, NEW o \in Occurrences, rows'[o] \in Rows,
           task'[o[1]] = task[o[1]], saved'[o[1]] = saved[o[1]],
           clock' \in Nat, clock <= clock', forgotten \subseteq forgotten',
           OccurrenceSteps(o)
    PROVE  /\ RowSound(o, task'[o[1]], rows'[o], grants', accepted', forgotten', clock')
           /\ saved'[o[1]].undoable =>
                 SavedSound(o, saved'[o[1]].before, saved'[o[1]].after, rows'[o],
                            grants', accepted', forgotten', clock')
  <1>1. clock \in Nat /\ grants \in SUBSET Grants
    BY DEF IInv, TypeOK
  <1>2. CASE rows'[o] = rows[o] /\ Elsewhere(o, grants, grants', accepted, accepted')
    <2>1. Known(o, task[o[1]], rows[o], grants, accepted, clock) =>
              Known(o, task[o[1]], rows[o], grants', accepted', clock')
      BY <1>1, <1>2, KnownKept
    <2>2. RowSound(o, task'[o[1]], rows'[o], grants', accepted', forgotten', clock')
      BY <2>1, <1>2, OccurrenceSound DEF RowSound
    <2>3. ASSUME saved[o[1]].undoable
          PROVE  SavedSound(o, saved[o[1]].before, saved[o[1]].after, rows[o],
                            grants', accepted', forgotten', clock')
      <3>1. SavedSound(o, saved[o[1]].before, saved[o[1]].after, rows[o],
                       grants, accepted, forgotten, clock)
        BY <2>3, OccurrenceSound
      <3> QED
        BY <3>1, <1>1, <1>2, SavedKept
    <2> QED
      BY <2>2, <2>3, <1>2
  <1>3. CASE /\ Moved(rows[o], rows'[o])
             /\ RowSound(o, task[o[1]], rows'[o], grants', accepted', forgotten', clock')
    <2>1. ASSUME saved[o[1]].undoable
          PROVE  SavedSound(o, saved[o[1]].before, saved[o[1]].after, rows'[o],
                            grants', accepted', forgotten', clock')
      <3>1. /\ rows[o] \in Rows /\ saved[o[1]].after[o[2]] \in Rows
            /\ SavedSound(o, saved[o[1]].before, saved[o[1]].after, rows[o],
                          grants, accepted, forgotten, clock)
        BY <2>1, OccurrenceSound
      <3> QED
        BY <3>1, <1>3, SavedMoved
    <2> QED
      BY <2>1, <1>3
  <1> QED
    BY <1>2, <1>3 DEF OccurrenceSteps

\* An audit row that is dropped is forgotten, and was no longer waiting.
LEMMA DroppingSteps ==
    ASSUME IInv, NEW o \in Occurrences, rows[o].state # "absent", rows'[o] = NoRow,
           o \in forgotten'
    PROVE  OccurrenceSteps(o) /\ rows'[o] \in Rows /\ WellFormed(rows'[o])
  <1>1. rows[o] # NoRow
    BY NoRowSound
  <1>2. Moved(rows[o], rows'[o])
    BY <1>1 DEF Moved
  <1> QED
    BY <1>2, NoRowSound DEF OccurrenceSteps, RowSound

LEMMA Reassemble ==
    ASSUME IInv, TypeOK', lease'.until # 0 => lease'.term # 0,
           task' = task, saved' = saved, clock <= clock', forgotten \subseteq forgotten',
           AttemptsNumbered', ClaimsDontOverlap', LateAnswersAreRefused',
           \A o \in Occurrences : OccurrenceSteps(o)
    PROVE  IInv'
  <1>1. ASSUME NEW o \in Occurrences
        PROVE  /\ RowSound(o, task'[o[1]], rows'[o], grants', accepted', forgotten', clock')
               /\ saved'[o[1]].undoable =>
                     SavedSound(o, saved'[o[1]].before, saved'[o[1]].after, rows'[o],
                                grants', accepted', forgotten', clock')
    <2>1. rows'[o] \in Rows /\ clock' \in Nat
      BY DEF TypeOK
    <2> QED
      BY <2>1, OneOccurrence
  <1> QED
    BY <1>1 DEF IInv

\* Steps that grant no claim and accept no answer.
LEMMA HistoryKept ==
    ASSUME IInv, UNCHANGED <<grants, accepted>>, forgotten \subseteq forgotten'
    PROVE  /\ AttemptsNumbered' /\ ClaimsDontOverlap' /\ LateAnswersAreRefused'
           /\ \A o \in Occurrences : Elsewhere(o, grants, grants', accepted, accepted')
  <1>1. AttemptsNumbered'
    BY DEF IInv, AttemptsNumbered
  <1>2. ClaimsDontOverlap'
    BY DEF IInv, ClaimsDontOverlap, Closed
  <1>3. LateAnswersAreRefused'
    BY DEF IInv, LateAnswersAreRefused
  <1> QED
    BY <1>1, <1>2, <1>3 DEF Elsewhere

LEMMA StampsAreNear ==
    ASSUME IInv, NEW now \in Stamps
    PROVE  now \in Nat /\ now # 0 /\ now <= clock /\ clock <= now + MaxSkew /\ clock \in Nat
  BY DEF Stamps, IInv, TypeOK

LEMMA TickSound == IInv /\ Tick => IInv'
  <1> SUFFICES ASSUME IInv, Tick PROVE IInv'
    OBVIOUS
  <1>1. clock' = clock + 1 /\ clock \in Nat
        /\ UNCHANGED <<task, rows, lease, saved, grants, accepted, forgotten, changes>>
    BY DEF Tick, IInv, TypeOK
  <1>2. TypeOK'
    BY <1>1 DEF IInv, TypeOK
  <1>3. \A o \in Occurrences : OccurrenceSteps(o)
    BY <1>1, HistoryKept DEF OccurrenceSteps
  <1>4. lease'.until # 0 => lease'.term # 0
    BY <1>1 DEF IInv
  <1> QED
    BY <1>1, <1>2, <1>3, <1>4, HistoryKept, Reassemble

LEMMA StutterSound == IInv /\ UNCHANGED vars => IInv'
  <1> SUFFICES ASSUME IInv, UNCHANGED vars PROVE IInv'
    OBVIOUS
  <1>1. UNCHANGED <<clock, task, rows, lease, saved, grants, accepted, forgotten, changes>>
    BY DEF vars
  <1>2. TypeOK'
    BY <1>1 DEF IInv, TypeOK
  <1>3. \A o \in Occurrences : OccurrenceSteps(o)
    BY <1>1, HistoryKept DEF OccurrenceSteps
  <1>4. lease'.until # 0 => lease'.term # 0
    BY <1>1 DEF IInv
  <1>5. clock <= clock'
    BY <1>1 DEF IInv, TypeOK
  <1> QED
    BY <1>1, <1>2, <1>3, <1>4, <1>5, HistoryKept, Reassemble

\* The lease: an owner has a term.
LEMMA LeaseSound ==
    ASSUME IInv, NEW now \in Stamps,
           \/ \E secs \in Durations : Acquire(now, secs) \/ Renew(now, secs)
           \/ Release(now)
    PROVE  IInv'
  <1>1. UNCHANGED <<clock, task, rows, saved, grants, accepted, forgotten, changes>>
    BY DEF Acquire, Renew, Release
  <1>n. now \in Nat /\ now # 0 /\ clock \in Nat /\ lease \in [term : Nat, until : Nat]
    BY StampsAreNear DEF IInv, TypeOK
  <1>2. lease' \in [term : Nat, until : Nat] /\ lease'.term # 0
    <2>1. ASSUME NEW secs \in Durations, Acquire(now, secs)
          PROVE  lease' \in [term : Nat, until : Nat] /\ lease'.term # 0
      <3>1. secs \in Nat
        BY ReminderAssumption
      <3> QED
        BY <2>1, <3>1, <1>n DEF Acquire
    <2>2. ASSUME NEW secs \in Durations, Renew(now, secs)
          PROVE  lease' \in [term : Nat, until : Nat] /\ lease'.term # 0
      <3>1. secs \in Nat
        BY ReminderAssumption
      <3>2. lease.term # 0
        BY <2>2, <1>n DEF Renew, UnexpiredOwner, IInv
      <3> QED
        BY <2>2, <3>1, <3>2, <1>n DEF Renew
    <2>3. ASSUME Release(now)
          PROVE  lease' \in [term : Nat, until : Nat] /\ lease'.term # 0
      BY <2>3, <1>n DEF Release
    <2> QED
      BY <2>1, <2>2, <2>3
  <1>3. TypeOK'
    BY <1>1, <1>2 DEF IInv, TypeOK
  <1>4. \A o \in Occurrences : OccurrenceSteps(o)
    BY <1>1, HistoryKept DEF OccurrenceSteps
  <1>5. clock <= clock'
    BY <1>1, <1>n
  <1> QED
    BY <1>1, <1>2, <1>3, <1>4, <1>5, HistoryKept, Reassemble

-----------------------------------------------------------------------------
(***************************************************************************)
(* Claims and their settlement.                                            *)
(***************************************************************************)

Grant(o, now, secs) ==
    [occ |-> o, term |-> lease.term, attempt |-> rows[o].attempts + 1,
     from |-> now, until |-> now + secs]

LEMMA ClaimedTyped ==
    ASSUME NEW row \in Rows, NEW now \in Nat, NEW secs \in Nat, lease.term \in Nat
    PROVE  LET to == ClaimedRow(row, now, secs)
           IN  /\ to \in Rows /\ to.state = "claimed" /\ to.term = lease.term
               /\ to.until = now + secs /\ to.attempts = row.attempts + 1 /\ to.retryAt = 0
  <1>1. now + secs \in Nat /\ row.attempts + 1 \in Nat
    BY DEF Rows
  <1> QED
    BY <1>1 DEF ClaimedRow, Rows, RowStates, Results

\* A claim of a row that waits numbers itself after all others, which are over.
LEMMA ClaimOne ==
    ASSUME IInv, NEW now \in Stamps, NEW secs \in Durations, UnexpiredOwner(now),
           NEW o \in Occurrences, rows[o].state = "pending",
           NEW to, to = ClaimedRow(rows[o], now, secs),
           NEW new, new = Grant(o, now, secs)
    PROVE  /\ to \in Rows /\ WellFormed(to) /\ Wanted(o, task[o[1]], to) /\ Moved(rows[o], to)
           /\ new \in Grants /\ new.occ = o /\ new.from = now
           /\ o \in forgotten \/
                /\ \A G \in SUBSET Grants :
                      /\ grants \subseteq G /\ new \in G
                      /\ \A g \in G : g.occ = o => g \in grants \/ g = new
                      => Tells(o, to, G, accepted, clock)
                /\ \A g \in grants :
                      g.occ = o => g.attempt < new.attempt /\ g.until <= clock
  <1> DEFINE row == rows[o]
  <1>1. /\ row \in Rows /\ WellFormed(row)
        /\ RowSound(o, task[o[1]], row, grants, accepted, forgotten, clock)
    BY OccurrenceSound
  <1>2. /\ now \in Nat /\ now # 0 /\ secs \in Nat /\ secs # 0 /\ clock \in Nat
        /\ lease \in [term : Nat, until : Nat] /\ lease.term # 0 /\ grants \in SUBSET Grants
    <2>1. now \in Nat /\ now # 0 /\ clock \in Nat
      BY StampsAreNear
    <2>2. secs \in Nat /\ secs # 0
      BY ReminderAssumption
    <2>3. lease \in [term : Nat, until : Nat] /\ grants \in SUBSET Grants
      BY DEF IInv, TypeOK
    <2>4. lease.until # 0
      BY <2>1, <2>3 DEF UnexpiredOwner
    <2> QED
      BY <2>1, <2>2, <2>3, <2>4 DEF IInv
  <1>3. /\ to \in Rows /\ to.state = "claimed" /\ to.term = lease.term
        /\ to.until = now + secs /\ to.attempts = row.attempts + 1 /\ to.retryAt = 0
    <2>1. row \in Rows /\ now \in Nat /\ secs \in Nat /\ lease.term \in Nat
      BY <1>1, <1>2
    <2> HIDE DEF row
    <2> QED
      BY <2>1, ClaimedTyped DEF row
  <1>4. /\ new \in Grants /\ new.occ = o /\ new.term = lease.term
        /\ new.attempt = row.attempts + 1 /\ new.until = now + secs /\ new.from = now
    BY <1>1, <1>2 DEF Grant, Grants, Rows
  <1>5. row.attempts \in Nat /\ now + secs \in Nat
    BY <1>1, <1>2 DEF Rows
  <1> HIDE DEF row
  <1>6. WellFormed(to)
    BY <1>2, <1>3, <1>5 DEF WellFormed
  <1>7. Wanted(o, task[o[1]], to)
    BY <1>3 DEF Wanted
  <1>8. Moved(row, to)
    <2>1. row # NoRow
      BY NoRowSound DEF row
    <2> QED
      BY <2>1, <1>3, <1>5 DEF Moved
  <1>9. ASSUME o \notin forgotten
        PROVE  /\ \A G \in SUBSET Grants :
                      /\ grants \subseteq G /\ new \in G
                      /\ \A g \in G : g.occ = o => g \in grants \/ g = new
                      => Tells(o, to, G, accepted, clock)
               /\ \A g \in grants :
                      g.occ = o => g.attempt < new.attempt /\ g.until <= clock
    <2>1. Tells(o, row, grants, accepted, clock)
      <3>1. row # NoRow
        BY NoRowSound DEF row
      <3> QED
        BY <3>1, <1>1, <1>9 DEF RowSound, Known, row
    <2>2. ASSUME NEW G \in SUBSET Grants, grants \subseteq G, new \in G,
                 \A g \in G : g.occ = o => g \in grants \/ g = new
          PROVE  Tells(o, to, G, accepted, clock)
      <3>1. row \in Rows /\ row.state = "pending"
        BY <1>1 DEF row
      <3> QED
        BY <2>1, <2>2, <3>1, <1>2, <1>3, <1>4, <1>5, ClaimTells
    <2>3. ASSUME NEW g \in grants, g.occ = o
          PROVE  g.attempt < new.attempt /\ g.until <= clock
      <3>1. g.attempt <= row.attempts /\ g.until <= clock
        <4>1. row.state = "pending"
          BY DEF row
        <4> QED
          BY <2>1, <2>3, <4>1 DEF Tells, Counted, Over
      <3>2. g.attempt \in Nat
        BY <1>2 DEF Grants
      <3> QED
        BY <3>1, <3>2, <1>4, <1>5
    <2> QED
      BY <2>2, <2>3
  <1> QED
    BY <1>3, <1>4, <1>6, <1>7, <1>8, <1>9 DEF row

LEMMA ClaimSound ==
    ASSUME IInv, NEW now \in Stamps, NEW secs \in Durations, NEW batch \in SUBSET Occurrences,
           Claim(now, secs, batch)
    PROVE  IInv'
  <1> DEFINE To(o) == ClaimedRow(rows[o], now, secs)
             New(o) == Grant(o, now, secs)
  <1>1. /\ UnexpiredOwner(now)
        /\ \A o \in batch : rows[o].state = "pending"
        /\ rows' = [o \in Occurrences |-> IF o \in batch THEN To(o) ELSE rows[o]]
        /\ grants' = grants \union {New(o) : o \in batch}
        /\ UNCHANGED <<clock, task, lease, saved, accepted, forgotten, changes>>
    BY DEF Claim, Claimable, Grant
  <1>2. \A o \in batch :
           /\ To(o) \in Rows /\ WellFormed(To(o)) /\ Wanted(o, task[o[1]], To(o))
           /\ Moved(rows[o], To(o))
           /\ New(o) \in Grants /\ New(o).occ = o /\ New(o).from = now
           /\ o \in forgotten \/
                /\ \A G \in SUBSET Grants :
                      /\ grants \subseteq G /\ New(o) \in G
                      /\ \A g \in G : g.occ = o => g \in grants \/ g = New(o)
                      => Tells(o, To(o), G, accepted, clock)
                /\ \A g \in grants :
                      g.occ = o => g.attempt < New(o).attempt /\ g.until <= clock
    <2> SUFFICES ASSUME NEW o \in batch
                 PROVE  /\ To(o) \in Rows /\ WellFormed(To(o)) /\ Wanted(o, task[o[1]], To(o))
                        /\ Moved(rows[o], To(o))
                        /\ New(o) \in Grants /\ New(o).occ = o /\ New(o).from = now
                        /\ o \in forgotten \/
                             /\ \A G \in SUBSET Grants :
                                   /\ grants \subseteq G /\ New(o) \in G
                                   /\ \A g \in G : g.occ = o => g \in grants \/ g = New(o)
                                   => Tells(o, To(o), G, accepted, clock)
                             /\ \A g \in grants :
                                   g.occ = o => g.attempt < New(o).attempt /\ g.until <= clock
      OBVIOUS
    <2>1. o \in Occurrences /\ rows[o].state = "pending" /\ UnexpiredOwner(now)
      BY <1>1
    <2> QED
      BY <2>1, ClaimOne
  <1> HIDE DEF To, New
  <1>3. /\ grants \in SUBSET Grants /\ grants' \in SUBSET Grants /\ grants \subseteq grants'
        /\ \A g \in grants' : g \in grants \/ \E o \in batch : g = New(o)
    BY <1>1, <1>2 DEF IInv, TypeOK
  <1>t. TypeOK'
    <2>1. rows' \in [Occurrences -> Rows] /\ \A o \in Occurrences : WellFormed(rows'[o])
      <3>1. \A o \in Occurrences :
               /\ (IF o \in batch THEN To(o) ELSE rows[o]) \in Rows
               /\ WellFormed(IF o \in batch THEN To(o) ELSE rows[o])
        BY <1>2 DEF IInv, TypeOK
      <3> QED
        BY <3>1, <1>1
    <2> QED
      BY <2>1, <1>1, <1>3 DEF IInv, TypeOK
  <1>4. \A o \in Occurrences : OccurrenceSteps(o)
    <2> SUFFICES ASSUME NEW o \in Occurrences PROVE OccurrenceSteps(o)
      OBVIOUS
    <2>1. CASE o \in batch
      <3>1. rows'[o] = To(o)
        BY <2>1, <1>1
      <3>2. \A g \in grants' : g.occ = o => g \in grants \/ g = New(o)
        BY <1>3, <1>2
      <3>3. New(o) \in grants'
        BY <2>1, <1>1
      <3>4. o \in forgotten \/ Tells(o, To(o), grants', accepted, clock)
        BY <2>1, <3>2, <3>3, <1>2, <1>3
      <3>5. RowSound(o, task[o[1]], rows'[o], grants', accepted', forgotten', clock')
        BY <2>1, <3>1, <3>4, <1>1, <1>2 DEF RowSound, Known
      <3> QED
        BY <2>1, <3>1, <3>5, <1>2 DEF OccurrenceSteps
    <2>2. CASE o \notin batch
      <3>1. rows'[o] = rows[o]
        BY <2>2, <1>1
      <3>2. \A g \in grants' : g.occ = o => g \in grants
        BY <2>2, <1>2, <1>3
      <3> QED
        BY <3>1, <3>2, <1>1, <1>3 DEF OccurrenceSteps, Elsewhere
    <2> QED
      BY <2>1, <2>2
  <1>n. /\ now \in Nat /\ clock \in Nat /\ clock <= now + MaxSkew
        /\ \A g \in grants' : g.attempt \in Nat /\ g.until \in Nat /\ g.from \in Nat
    BY StampsAreNear, <1>3 DEF Grants
  <1>5. AttemptsNumbered'
    <2> SUFFICES ASSUME NEW g \in grants', NEW h \in grants', g.occ = h.occ,
                        g.attempt = h.attempt, g.occ \notin forgotten
                 PROVE  g = h
      BY <1>1 DEF AttemptsNumbered
    <2>1. CASE g \in grants /\ h \in grants
      BY <2>1 DEF IInv, AttemptsNumbered
    <2>2. ASSUME NEW o \in batch, g = New(o), h \in grants PROVE FALSE
      BY <2>2, <1>2, <1>n
    <2>3. ASSUME NEW o \in batch, h = New(o), g \in grants PROVE FALSE
      BY <2>3, <1>2, <1>n
    <2>4. ASSUME NEW o \in batch, NEW p \in batch, g = New(o), h = New(p) PROVE g = h
      BY <2>4, <1>2
    <2> QED
      BY <2>1, <2>2, <2>3, <2>4, <1>3
  <1>6. ClaimsDontOverlap'
    <2> SUFFICES ASSUME NEW g \in grants', NEW h \in grants', g.occ = h.occ, g # h,
                        g.occ \notin forgotten
                 PROVE  Closed(g, h.from + MaxSkew) \/ Closed(h, g.from + MaxSkew)
      BY <1>1 DEF ClaimsDontOverlap, Closed
    <2>1. CASE g \in grants /\ h \in grants
      BY <2>1 DEF IInv, ClaimsDontOverlap
    <2>2. ASSUME NEW o \in batch, g = New(o), h \in grants PROVE Closed(h, g.from + MaxSkew)
      <3>1. h.until <= clock /\ g.from = now
        BY <2>2, <1>2
      <3> QED
        BY <3>1, <1>n, ReminderAssumption DEF Closed
    <2>3. ASSUME NEW o \in batch, h = New(o), g \in grants PROVE Closed(g, h.from + MaxSkew)
      <3>1. g.until <= clock /\ h.from = now
        BY <2>3, <1>2
      <3> QED
        BY <3>1, <1>n, ReminderAssumption DEF Closed
    <2>4. ASSUME NEW o \in batch, NEW p \in batch, g = New(o), h = New(p) PROVE FALSE
      BY <2>4, <1>2
    <2> QED
      BY <2>1, <2>2, <2>3, <2>4, <1>3
  <1>7. LateAnswersAreRefused'
    BY <1>1 DEF IInv, LateAnswersAreRefused
  <1>8. lease'.until # 0 => lease'.term # 0
    BY <1>1 DEF IInv
  <1>9. clock <= clock' /\ forgotten \subseteq forgotten' /\ task' = task /\ saved' = saved
    BY <1>1, <1>n
  <1> QED
    BY <1>t, <1>4, <1>5, <1>6, <1>7, <1>8, <1>9, Reassemble

\* The backoff is a number of seconds.
LEMMA BackoffTyped == \A attempt \in Nat \ {0} : Backoff(attempt) \in Nat
  <1> SUFFICES ASSUME NEW attempt \in Nat \ {0} PROVE Backoff(attempt) \in Nat
    OBVIOUS
  <1>1. Least(attempt - 1, 16) \in 0..16
    BY DEF Least
  <1>2. 2 ^ Least(attempt - 1, 16) \in Nat
    BY <1>1, ShiftAssumption
  <1> DEFINE p == 2 ^ Least(attempt - 1, 16)
  <1> HIDE DEF p
  <1>3. BackoffStart * p \in Nat
    BY <1>2, ReminderAssumption DEF p
  <1>4. Least(BackoffStart * p, BackoffMax) \in Nat
    BY <1>3, ReminderAssumption DEF Least
  <1> QED
    BY <1>4 DEF Backoff, p

LEMMA MarkOwnerLostSound ==
    ASSUME IInv, NEW now \in Stamps, NEW batch \in SUBSET Occurrences,
           MarkOwnerLost(now, batch)
    PROVE  IInv'
  <1> DEFINE To(o) == LostRow(rows[o], now)
  <1>1. /\ \A o \in batch : rows[o].state = "claimed" /\ rows[o].until <= now
        /\ rows' = [o \in Occurrences |-> IF o \in batch THEN To(o) ELSE rows[o]]
        /\ UNCHANGED <<clock, task, lease, saved, grants, accepted, forgotten, changes>>
    BY DEF MarkOwnerLost, Abandoned
  <1>n. now \in Nat /\ now <= clock /\ clock \in Nat /\ grants \in SUBSET Grants
    BY StampsAreNear DEF IInv, TypeOK
  <1>2. ASSUME NEW o \in batch
        PROVE  /\ To(o) \in Rows /\ WellFormed(To(o)) /\ Moved(rows[o], To(o))
               /\ RowSound(o, task[o[1]], To(o), grants, accepted, forgotten, clock)
    <2> DEFINE row == rows[o]  to == To(o)
    <2>1. /\ row \in Rows /\ WellFormed(row) /\ row.state = "claimed" /\ row.until <= now
          /\ RowSound(o, task[o[1]], row, grants, accepted, forgotten, clock)
      BY <1>1, OccurrenceSound
    <2> HIDE DEF row
    <2>2. row.attempts \in Nat \ {0} /\ row.until \in Nat
      BY <2>1 DEF WellFormed, Rows
    <2>3. now + Backoff(row.attempts) \in Nat
      BY <2>2, <1>n, BackoffTyped
    <2>4. /\ to \in Rows /\ to.state = "pending" /\ to.attempts = row.attempts
          /\ to.term = 0 /\ to.until = 0 /\ to.result = "owner_lost"
      BY <2>1, <2>3 DEF LostRow, Rows, RowStates, Results, row
    <2> HIDE DEF to
    <2>5. WellFormed(to) /\ Wanted(o, task[o[1]], to)
      BY <2>4 DEF WellFormed, Wanted
    <2>6. row # NoRow
      BY <2>1, NoRowSound
    <2>7. Moved(row, to)
      BY <2>1, <2>2, <2>4, <2>6 DEF Moved
    <2>8. o \in forgotten \/ Known(o, task[o[1]], to, grants, accepted, clock)
      <3> SUFFICES ASSUME o \notin forgotten
                   PROVE  Tells(o, to, grants, accepted, clock)
        BY DEF Known
      <3>1. Tells(o, row, grants, accepted, clock)
        BY <2>1, <2>6 DEF RowSound, Known
      <3>2. \A g, h \in grants : g.occ = o /\ h.occ = o /\ g.attempt = h.attempt => g = h
        BY DEF IInv, AttemptsNumbered
      <3>3. row.until <= clock
        BY <2>1, <2>2, <1>n
      <3> QED
        BY <3>1, <3>2, <3>3, <2>1, <2>4, <1>n, LossTells
    <2> QED
      BY <2>4, <2>5, <2>7, <2>8 DEF RowSound, row, to
  <1> HIDE DEF To
  <1>3. TypeOK'
    <2>1. rows' \in [Occurrences -> Rows] /\ \A o \in Occurrences : WellFormed(rows'[o])
      <3>1. \A o \in Occurrences :
               /\ (IF o \in batch THEN To(o) ELSE rows[o]) \in Rows
               /\ WellFormed(IF o \in batch THEN To(o) ELSE rows[o])
        BY <1>2 DEF IInv, TypeOK
      <3> QED
        BY <3>1, <1>1
    <2> QED
      BY <2>1, <1>1 DEF IInv, TypeOK
  <1>4. \A o \in Occurrences : OccurrenceSteps(o)
    <2> SUFFICES ASSUME NEW o \in Occurrences PROVE OccurrenceSteps(o)
      OBVIOUS
    <2>1. CASE o \in batch
      <3>1. rows'[o] = To(o)
        BY <2>1, <1>1
      <3>2. RowSound(o, task[o[1]], rows'[o], grants', accepted', forgotten', clock')
        BY <2>1, <3>1, <1>1, <1>2
      <3> QED
        BY <2>1, <3>1, <3>2, <1>2 DEF OccurrenceSteps
    <2>2. CASE o \notin batch
      BY <2>2, <1>1, HistoryKept DEF OccurrenceSteps
    <2> QED
      BY <2>1, <2>2
  <1>5. lease'.until # 0 => lease'.term # 0
    BY <1>1 DEF IInv
  <1>6. clock <= clock' /\ forgotten \subseteq forgotten' /\ task' = task /\ saved' = saved
    BY <1>1, <1>n
  <1> QED
    BY <1>1, <1>3, <1>4, <1>5, <1>6, HistoryKept, Reassemble

\* settle_claimed: the row is under the very claim that is answered.
LEMMA SettleSound ==
    ASSUME IInv, NEW now \in Stamps, NEW g \in grants, NEW result \in {"delivered", "failed"},
           Settle(g, result, now)
    PROVE  IInv'
  <1> DEFINE o == g.occ
             row == rows[o]
             to == [row EXCEPT !.state = result, !.result = result, !.until = 0, !.retryAt = 0]
             settled == [rows EXCEPT ![o] = to]
             a == [grant |-> g, result |-> result, at |-> now]
  <1>1. /\ row.state = "claimed" /\ row.term = g.term /\ row.attempts = g.attempt
        /\ lease.term = g.term /\ row.until > now
        /\ accepted' = accepted \union {a}
        /\ UNCHANGED <<clock, task, lease, saved, grants, changes>>
    BY DEF Settle, Answers
  <1>2. PICK gone \in SUBSET Audit(task, settled) :
            rows' = Dropped(settled, gone) /\ forgotten' = forgotten \union gone
    BY DEF Settle
  <1>n. /\ now \in Nat /\ now <= clock /\ clock \in Nat /\ grants \in SUBSET Grants
        /\ g \in Grants /\ o \in Occurrences /\ rows \in [Occurrences -> Rows]
    BY StampsAreNear DEF IInv, TypeOK, Grants
  <1>3. /\ row \in Rows /\ WellFormed(row)
        /\ RowSound(o, task[o[1]], row, grants, accepted, forgotten, clock)
    BY <1>n, OccurrenceSound
  <1>a. a \in [grant : Grants, result : Results, at : Nat]
        /\ a.grant = g /\ a.result = result /\ a.at = now
    BY <1>n DEF Results
  <1>4. /\ to \in Rows /\ to.state = result /\ to.until = 0 /\ to.retryAt = 0
        /\ to.term = row.term /\ to.attempts = row.attempts /\ to.result = result
    BY <1>3 DEF Rows, RowStates, Results
  <1>5. \A p \in Occurrences :
            /\ p # o => settled[p] = rows[p]
            /\ settled[o] = to
            /\ rows'[p] = IF p \in gone THEN NoRow ELSE settled[p]
    BY <1>2, <1>n DEF Dropped
  <1>d. rows' = [p \in Occurrences |-> rows'[p]]
    BY <1>2 DEF Dropped
  <1>6. \A p \in gone : p \in Occurrences /\ settled[p].state # "absent"
    BY <1>2 DEF Audit
  <1> HIDE DEF settled, to, a, row
  <1>7. WellFormed(to)
    BY <1>1, <1>3, <1>4 DEF WellFormed
  <1>8. row # NoRow
    BY <1>1, NoRowSound
  <1>9. ASSUME o \notin forgotten
        PROVE  Unanswered(o, accepted) /\ row.until = g.until
               /\ Tells(o, row, grants, accepted, clock)
    <2>1. Tells(o, row, grants, accepted, clock)
      BY <1>3, <1>8, <1>9 DEF RowSound, Known
    <2>2. UnderClaim(o, row, grants, clock) /\ Unanswered(o, accepted)
      BY <2>1, <1>1 DEF Tells
    <2>3. PICK h \in grants : h.occ = o /\ h.attempt = row.attempts /\ h.until = row.until
      BY <2>2 DEF UnderClaim
    <2>4. h = g
      BY <2>3, <1>1, <1>9 DEF IInv, AttemptsNumbered
    <2> QED
      BY <2>1, <2>2, <2>3, <2>4
  <1>10. o \in forgotten \/ Known(o, task[o[1]], to, grants, accepted', clock)
    <2> SUFFICES ASSUME o \notin forgotten PROVE Tells(o, to, grants, accepted', clock)
      BY DEF Known
    <2>1. to = SettledRow(a)
      <3>1. SettledRow(a) \in Rows
        BY <1>n, <1>a DEF SettledRow, Rows, RowStates, Results, Grants
      <3>2. /\ SettledRow(a).state = to.state /\ SettledRow(a).term = to.term
            /\ SettledRow(a).until = to.until /\ SettledRow(a).attempts = to.attempts
            /\ SettledRow(a).retryAt = to.retryAt /\ SettledRow(a).result = to.result
        BY <1>1, <1>4, <1>a DEF SettledRow
      <3> QED
        BY <3>1, <3>2, <1>4 DEF Rows
    <2>2. a \in accepted' /\ a.grant.occ = o /\ a.result \in {"delivered", "failed"}
      BY <1>1, <1>a
    <2> QED
      BY <2>1, <2>2, <1>1, <1>3, <1>4, <1>9, AnswerTells
  <1>11. Moved(row, to)
    BY <1>1, <1>3, <1>4, <1>8 DEF Moved, Rows
  <1>12. TypeOK'
    <2>1. \A p \in Occurrences : rows'[p] \in Rows /\ WellFormed(rows'[p])
      BY <1>4, <1>5, <1>7, <1>n, NoRowSound DEF IInv, TypeOK
    <2>2. rows' \in [Occurrences -> Rows]
      BY <2>1, <1>d
    <2>3. accepted' \subseteq [grant : Grants, result : Results, at : Nat]
      BY <1>1, <1>a DEF IInv, TypeOK
    <2>4. forgotten' \subseteq Occurrences
      BY <1>2, <1>6 DEF IInv, TypeOK
    <2> QED
      BY <2>1, <2>2, <2>3, <2>4, <1>1 DEF IInv, TypeOK
  <1>13. \A p \in Occurrences : OccurrenceSteps(p)
    <2> SUFFICES ASSUME NEW p \in Occurrences PROVE OccurrenceSteps(p)
      OBVIOUS
    <2>1. CASE p \in gone
      <3>1. rows'[p] = NoRow /\ p \in forgotten' /\ settled[p].state # "absent"
        BY <2>1, <1>2, <1>5, <1>6
      <3>2. rows[p].state # "absent"
        BY <3>1, <1>1, <1>5 DEF row
      <3> QED
        BY <3>1, <3>2, DroppingSteps
    <2>2. CASE p \notin gone /\ p = o
      <3>1. rows'[p] = to
        BY <2>2, <1>5, <1>n
      <3>2. forgotten \subseteq forgotten'
        BY <1>2
      <3>3. Wanted(o, task[o[1]], to)
        BY <1>4 DEF Wanted
      <3>4. RowSound(p, task[p[1]], rows'[p], grants', accepted', forgotten', clock')
        BY <2>2, <3>1, <3>2, <3>3, <1>1, <1>10 DEF RowSound
      <3> QED
        BY <2>2, <3>1, <3>4, <1>11 DEF OccurrenceSteps, row
    <2>3. CASE p \notin gone /\ p # o
      <3>1. rows'[p] = rows[p]
        BY <2>3, <1>5, <1>n
      <3>2. Elsewhere(p, grants, grants', accepted, accepted')
        BY <2>3, <1>1, <1>a DEF Elsewhere
      <3> QED
        BY <3>1, <3>2 DEF OccurrenceSteps
    <2> QED
      BY <2>1, <2>2, <2>3
  <1>14. AttemptsNumbered'
    BY <1>1, <1>2 DEF IInv, AttemptsNumbered
  <1>15. ClaimsDontOverlap'
    <2>2. ASSUME NEW h \in grants, NEW j \in grants, h.occ = j.occ, h # j,
                 h.occ \notin forgotten'
          PROVE  Closed(h, j.from + MaxSkew)' \/ Closed(j, h.from + MaxSkew)'
      <3>1. Closed(h, j.from + MaxSkew) \/ Closed(j, h.from + MaxSkew)
        BY <2>2, <1>2 DEF IInv, ClaimsDontOverlap
      <3> QED
        BY <3>1, <1>1 DEF Closed
    <2> QED
      BY <2>2, <1>1 DEF ClaimsDontOverlap
  <1>16. LateAnswersAreRefused'
    <2> SUFFICES ASSUME NEW b \in accepted', b.grant.occ \notin forgotten'
                 PROVE  /\ b.at < b.grant.until
                        /\ \A c \in accepted' : c.grant.occ = b.grant.occ => b = c
      BY DEF LateAnswersAreRefused
    <2>0. b.grant.occ \notin forgotten
      BY <1>2
    <2>1. CASE b = a
      <3>1. Unanswered(o, accepted) /\ row.until = g.until
        BY <2>0, <2>1, <1>9, <1>a
      <3>2. b.at < b.grant.until
        BY <2>1, <3>1, <1>1, <1>3, <1>a, <1>n DEF Rows
      <3>3. \A c \in accepted : c.grant.occ # o
        BY <3>1 DEF Unanswered
      <3> QED
        BY <2>1, <3>2, <3>3, <1>1, <1>a
    <2>2. CASE b # a
      <3>1. b \in accepted
        BY <2>2, <1>1
      <3>2. /\ b.at < b.grant.until
            /\ \A c \in accepted : c.grant.occ = b.grant.occ => b = c
        BY <3>1, <2>0 DEF IInv, LateAnswersAreRefused
      <3>3. a.grant.occ # b.grant.occ
        <4> SUFFICES ASSUME a.grant.occ = b.grant.occ PROVE FALSE
          OBVIOUS
        <4>1. Unanswered(o, accepted)
          BY <2>0, <1>9, <1>a
        <4> QED
          BY <4>1, <3>1, <1>a DEF Unanswered
      <3> QED
        BY <3>2, <3>3, <1>1
    <2> QED
      BY <2>1, <2>2
  <1>17. lease'.until # 0 => lease'.term # 0
    BY <1>1 DEF IInv
  <1>18. clock <= clock' /\ forgotten \subseteq forgotten' /\ task' = task /\ saved' = saved
    BY <1>1, <1>2, <1>n
  <1> QED
    BY <1>12, <1>13, <1>14, <1>15, <1>16, <1>17, <1>18, Reassemble

-----------------------------------------------------------------------------
(***************************************************************************)
(* Schedule mutations and their undo.                                      *)
(***************************************************************************)

\* A row after reconciliation with the task (sync), as it is (keep), or gone (delete).
Reconciled(o, t, effect, row) ==
    IF effect = "sync"
    THEN IF o[2] = Intent(t) THEN EnsuredRow(row)
         ELSE IF row.state = "pending" THEN CancelledRow(row) ELSE row
    ELSE IF effect = "keep" THEN row ELSE NoRow

LEMMA ReconciledSound ==
    ASSUME NEW o \in Occurrences, NEW from \in TaskStates, NEW t \in TaskStates,
           NEW effect \in {"sync", "keep", "delete"},
           effect = "keep" => from.status = "closed",
           effect = "delete" => t.status = "deleted",
           NEW row \in Rows, WellFormed(row), Wanted(o, from, row)
    PROVE  /\ Reconciled(o, t, effect, row) \in Rows
           /\ WellFormed(Reconciled(o, t, effect, row))
           /\ Wanted(o, t, Reconciled(o, t, effect, row))
           /\ \A G, A, now : Tells(o, row, G, A, now) =>
                                 Known(o, t, Reconciled(o, t, effect, row), G, A, now)
  <1>0. o[2] \in Nat /\ o[2] # 0
    BY ReminderAssumption DEF Occurrences
  <1>1. CASE effect = "sync" /\ o[2] = Intent(t)
    <2>1. Reconciled(o, t, effect, row) = EnsuredRow(row)
      BY <1>1 DEF Reconciled
    <2>2. EnsuredRow(row) \in Rows /\ WellFormed(EnsuredRow(row))
      <3>1. CASE row.state \in {"absent", "cancelled"}
        <4>1. EnsuredRow(row) = [Row("pending") EXCEPT !.attempts = row.attempts]
          BY <3>1 DEF EnsuredRow
        <4> DEFINE to == [Row("pending") EXCEPT !.attempts = row.attempts]
        <4>2. to \in Rows /\ to.state = "pending" /\ to.until = 0 /\ to.term = 0 /\ to.retryAt = 0
          BY DEF Row, Rows, RowStates, Results
        <4> HIDE DEF to
        <4>3. to \in Rows /\ WellFormed(to)
          BY <4>2 DEF WellFormed
        <4> QED
          BY <4>1, <4>3 DEF to
      <3>2. CASE row.state \notin {"absent", "cancelled"}
        BY <3>2 DEF EnsuredRow
      <3> QED
        BY <3>1, <3>2
    <2>3. \A G, A, now : Tells(o, row, G, A, now) => Tells(o, EnsuredRow(row), G, A, now)
      BY EnsuredTells
    <2> QED
      BY <1>1, <2>1, <2>2, <2>3 DEF Wanted, Known
  <1>2. CASE effect = "sync" /\ o[2] # Intent(t) /\ row.state = "pending"
    <2>1. Reconciled(o, t, effect, row) = CancelledRow(row)
      BY <1>2 DEF Reconciled
    <2> DEFINE to == CancelledRow(row)
    <2>2. to \in Rows /\ to.state = "cancelled" /\ to.attempts = row.attempts
          /\ to.until = 0 /\ to.term = 0 /\ to.retryAt = 0
      BY DEF CancelledRow, Rows, RowStates, Results
    <2> HIDE DEF to
    <2>3. WellFormed(to) /\ Wanted(o, t, to)
      BY <2>2 DEF WellFormed, Wanted
    <2>4. \A G, A, now : Tells(o, row, G, A, now) => Tells(o, to, G, A, now)
      BY <1>2, CancelledTells DEF to
    <2> QED
      BY <2>1, <2>2, <2>3, <2>4 DEF Known, to
  <1>3. CASE effect = "sync" /\ o[2] # Intent(t) /\ row.state # "pending"
    BY <1>3 DEF Reconciled, Wanted, Known
  <1>4. CASE effect = "keep"
    <2>1. Intent(from) = 0
      BY <1>4 DEF Intent
    <2> QED
      BY <1>0, <1>4, <2>1 DEF Reconciled, Wanted, Known
  <1>5. CASE effect = "delete"
    BY <1>5, NoRowSound DEF Reconciled, Known
  <1> QED
    BY <1>1, <1>2, <1>3, <1>4, <1>5

\* The undo material a mutation leaves behind holds of the rows it left.
LEMMA FreshMaterial ==
    ASSUME NEW k \in Tasks, NEW was \in [Occurrences -> Rows], NEW left \in [Occurrences -> Rows],
           NEW t \in TaskStates,
           NEW m, m = [undoable |-> TRUE, before |-> [task |-> t, rows |-> Own(k, was)],
                       after |-> Own(k, left)]
    PROVE  /\ m \in UndoMaterial /\ m.undoable /\ m.before.task = t
           /\ \A o \in Occurrences :
                 o[1] = k => m.before.rows[o[2]] = was[o] /\ m.after[o[2]] = left[o]
  <1>1. Own(k, was) \in [Instants -> Rows] /\ Own(k, left) \in [Instants -> Rows]
    BY DEF Own, Occurrences
  <1>2. m \in UndoMaterial
    BY <1>1 DEF UndoMaterial, Snapshots
  <1>3. m.undoable /\ m.before.task = t /\ m.before.rows = Own(k, was) /\ m.after = Own(k, left)
    OBVIOUS
  <1>4. ASSUME NEW o \in Occurrences, o[1] = k
        PROVE  Own(k, was)[o[2]] = was[o] /\ Own(k, left)[o[2]] = left[o]
    <2>1. o[2] \in Instants /\ o = <<k, o[2]>>
      BY <1>4 DEF Occurrences
    <2> QED
      BY <2>1 DEF Own
  <1> QED
    BY <1>2, <1>3, <1>4

LEMMA ChangeSound ==
    ASSUME IInv, NEW k \in Tasks, NEW t \in TaskStates,
           NEW effect \in {"sync", "keep", "delete"},
           task[k].status # "deleted",
           effect = "keep" => task[k].status = "closed",
           effect = "delete" => t.status = "deleted",
           Change(k, t, effect)
    PROVE  IInv'
  <1> DEFINE Before(early) == Dropped(rows, early)
             Done(early) == IF effect = "sync" THEN Synced(k, t, Before(early))
                            ELSE IF effect = "keep" THEN Before(early)
                            ELSE WithOwn(k, [i \in Instants |-> NoRow], Before(early))
  <1>1. /\ changes' = changes + 1 /\ task' = [task EXCEPT ![k] = t]
        /\ UNCHANGED <<clock, lease, grants, accepted>>
    BY DEF Change
  <1>0. PICK early \in SUBSET Audit(task, rows) :
            \E late \in SUBSET Audit(task', Done(early)) :
                /\ rows' = Dropped(Done(early), late)
                /\ saved' = [saved EXCEPT ![k] =
                       [undoable |-> TRUE,
                        before |-> [task |-> task[k], rows |-> Own(k, Before(early))],
                        after |-> Own(k, rows')]]
                /\ forgotten' = forgotten \union early \union late
    BY DEF Change
  <1>2. PICK late \in SUBSET Audit(task', Done(early)) :
            /\ rows' = Dropped(Done(early), late)
            /\ saved' = [saved EXCEPT ![k] =
                   [undoable |-> TRUE,
                    before |-> [task |-> task[k], rows |-> Own(k, Before(early))],
                    after |-> Own(k, rows')]]
            /\ forgotten' = forgotten \union early \union late
    BY <1>0
  <1> DEFINE before == Before(early)
             done == Done(early)
             m == [undoable |-> TRUE, before |-> [task |-> task[k], rows |-> Own(k, before)],
                   after |-> Own(k, rows')]
  <1>t. /\ rows \in [Occurrences -> Rows] /\ task \in [Tasks -> TaskStates]
        /\ saved \in [Tasks -> UndoMaterial \union {NoUndo}] /\ task[k] \in TaskStates
        /\ clock \in Nat /\ changes \in Nat /\ forgotten \subseteq Occurrences
    BY DEF IInv, TypeOK
  <1>3. \A o \in Occurrences :
            /\ before[o] = IF o \in early THEN NoRow ELSE rows[o]
            /\ done[o] = IF o[1] = k THEN Reconciled(o, t, effect, before[o]) ELSE before[o]
            /\ rows'[o] = IF o \in late THEN NoRow ELSE done[o]
    <2> SUFFICES ASSUME NEW o \in Occurrences
                 PROVE  /\ before[o] = IF o \in early THEN NoRow ELSE rows[o]
                        /\ done[o] = IF o[1] = k THEN Reconciled(o, t, effect, before[o])
                                     ELSE before[o]
                        /\ rows'[o] = IF o \in late THEN NoRow ELSE done[o]
      OBVIOUS
    <2>1. before[o] = IF o \in early THEN NoRow ELSE rows[o]
      BY DEF Dropped
    <2>2. rows'[o] = IF o \in late THEN NoRow ELSE done[o]
      BY <1>2 DEF Dropped
    <2>3. done[o] = IF o[1] = k THEN Reconciled(o, t, effect, before[o]) ELSE before[o]
      <3> HIDE DEF Before
      <3>1. CASE effect = "sync"
        BY <3>1 DEF Synced, Reconciled
      <3>2. CASE effect = "keep"
        BY <3>2 DEF Reconciled
      <3>3. CASE effect = "delete"
        <4>1. o[2] \in Instants
          BY DEF Occurrences
        <4> QED
          BY <3>3, <4>1 DEF WithOwn, Reconciled
      <3> QED
        BY <3>1, <3>2, <3>3
    <2> QED
      BY <2>1, <2>2, <2>3
  <1>4. /\ before = [o \in Occurrences |-> before[o]]
        /\ rows' = [o \in Occurrences |-> rows'[o]]
    BY <1>2 DEF Dropped
  <1>5. /\ \A o \in early : o \in Occurrences /\ rows[o].state # "absent"
        /\ \A o \in late : o \in Occurrences /\ done[o].state # "absent"
    BY <1>2 DEF Audit
  <1>6. saved' = [saved EXCEPT ![k] = m] /\ forgotten' = forgotten \union early \union late
    BY <1>2
  <1> HIDE DEF Before, Done, before, done
  <1>7. \A o \in Occurrences :
            /\ before[o] \in Rows /\ WellFormed(before[o]) /\ Wanted(o, task[o[1]], before[o])
            /\ done[o] \in Rows /\ WellFormed(done[o])
            /\ rows'[o] \in Rows /\ WellFormed(rows'[o])
            /\ o[1] = k => Wanted(o, t, rows'[o])
    <2> SUFFICES ASSUME NEW o \in Occurrences
                 PROVE  /\ before[o] \in Rows /\ WellFormed(before[o])
                        /\ Wanted(o, task[o[1]], before[o])
                        /\ done[o] \in Rows /\ WellFormed(done[o])
                        /\ rows'[o] \in Rows /\ WellFormed(rows'[o])
                        /\ o[1] = k => Wanted(o, t, rows'[o])
      OBVIOUS
    <2>1. rows[o] \in Rows /\ WellFormed(rows[o]) /\ Wanted(o, task[o[1]], rows[o])
      BY OccurrenceSound DEF RowSound
    <2>2. before[o] \in Rows /\ WellFormed(before[o]) /\ Wanted(o, task[o[1]], before[o])
      BY <2>1, <1>3, NoRowSound
    <2>3. /\ done[o] \in Rows /\ WellFormed(done[o])
          /\ o[1] = k => Wanted(o, t, done[o])
      <3>1. CASE o[1] = k
        <4>1. done[o] = Reconciled(o, t, effect, before[o])
          BY <3>1, <1>3
        <4> QED
          BY <3>1, <4>1, <2>2, <1>t, ReconciledSound
      <3>2. CASE o[1] # k
        BY <3>2, <2>2, <1>3
      <3> QED
        BY <3>1, <3>2
    <2> QED
      BY <2>2, <2>3, <1>3, NoRowSound
  <1>8. before \in [Occurrences -> Rows] /\ rows' \in [Occurrences -> Rows]
    BY <1>4, <1>7
  <1>9. /\ m \in UndoMaterial /\ m.undoable /\ m.before.task = task[k]
        /\ \A o \in Occurrences :
              o[1] = k => m.before.rows[o[2]] = before[o] /\ m.after[o[2]] = rows'[o]
    BY <1>8, <1>t, FreshMaterial
  <1> HIDE DEF m
  <1>10. TypeOK'
    <2>1. forgotten' \subseteq Occurrences
      BY <1>t, <1>5, <1>6
    <2>2. saved' \in [Tasks -> UndoMaterial \union {NoUndo}]
      BY <1>6, <1>9, <1>t
    <2>3. task' \in [Tasks -> TaskStates] /\ changes' \in Nat
      BY <1>1, <1>t
    <2> QED
      BY <2>1, <2>2, <2>3, <1>1, <1>7, <1>8 DEF IInv, TypeOK
  <1>11. forgotten \subseteq forgotten' /\ clock' \in Nat /\ clock <= clock'
    BY <1>1, <1>6, <1>t
  <1>12. ASSUME NEW o \in Occurrences
         PROVE  /\ RowSound(o, task'[o[1]], rows'[o], grants', accepted', forgotten', clock')
                /\ saved'[o[1]].undoable =>
                      SavedSound(o, saved'[o[1]].before, saved'[o[1]].after, rows'[o],
                                 grants', accepted', forgotten', clock')
    <2>0. o[1] \in Tasks /\ rows'[o] \in Rows
      BY OccurrenceSound, <1>7
    <2>1. CASE o[1] # k
      <3>1. task'[o[1]] = task[o[1]] /\ saved'[o[1]] = saved[o[1]]
        BY <2>0, <2>1, <1>1, <1>6, <1>t
      <3>2. OccurrenceSteps(o)
        <4>1. done[o] = before[o]
          BY <2>1, <1>3
        <4>2. CASE o \in early
          <5>1. before[o] = NoRow /\ rows'[o] = NoRow /\ o \in forgotten'
            BY <4>1, <4>2, <1>3, <1>6
          <5> QED
            BY <4>2, <5>1, <1>5, DroppingSteps
        <4>3. CASE o \notin early /\ o \in late
          <5>1. done[o] = rows[o] /\ rows'[o] = NoRow /\ o \in forgotten'
            BY <4>1, <4>3, <1>3, <1>6
          <5>2. rows[o].state # "absent"
            BY <4>3, <5>1, <1>5
          <5> QED
            BY <5>1, <5>2, DroppingSteps
        <4>4. CASE o \notin early /\ o \notin late
          <5>1. rows'[o] = rows[o]
            BY <4>1, <4>4, <1>3
          <5> QED
            BY <5>1, <1>1 DEF OccurrenceSteps, Elsewhere
        <4> QED
          BY <4>2, <4>3, <4>4
      <3> QED
        BY <3>1, <3>2, <2>0, <1>11, OneOccurrence
    <2>2. CASE o[1] = k
      <3>1. task'[o[1]] = t /\ saved'[o[1]] = m
        BY <2>2, <1>1, <1>6, <1>t
      <3>2. Wanted(o, t, rows'[o]) /\ Wanted(o, task[k], before[o]) /\ WellFormed(before[o])
        BY <2>2, <1>7
      <3>3. ASSUME o \notin forgotten'
            PROVE  /\ Known(o, t, rows'[o], grants, accepted, clock)
                   /\ Known(o, task[k], before[o], grants, accepted, clock)
        <4>1. /\ before[o] = rows[o] /\ rows'[o] = Reconciled(o, t, effect, before[o])
              /\ o \notin forgotten
          BY <2>2, <3>3, <1>3, <1>6
        <4>2. Known(o, task[k], rows[o], grants, accepted, clock)
          BY <2>2, <4>1, OccurrenceSound DEF RowSound
        <4>3. Tells(o, rows[o], grants, accepted, clock)
          BY <4>2 DEF Known
        <4>4. Known(o, t, rows'[o], grants, accepted, clock)
          <5>1. before[o] \in Rows /\ WellFormed(before[o]) /\ Wanted(o, task[k], before[o])
            BY <2>2, <1>7
          <5>2. Tells(o, before[o], grants, accepted, clock)
            BY <4>1, <4>3
          <5> HIDE DEF before
          <5>3. Known(o, t, Reconciled(o, t, effect, before[o]), grants, accepted, clock)
            BY <5>1, <5>2, <1>t, ReconciledSound
          <5> QED
            BY <5>3, <4>1
        <4> QED
          BY <4>1, <4>2, <4>4
      <3>4. RowSound(o, task'[o[1]], rows'[o], grants', accepted', forgotten', clock')
        BY <3>1, <3>2, <3>3, <1>1 DEF RowSound
      <3>5. SavedSound(o, m.before, m.after, rows'[o], grants', accepted', forgotten', clock')
        BY <2>2, <3>2, <3>3, <1>1, <1>9 DEF SavedSound
      <3> QED
        BY <3>1, <3>4, <3>5
    <2> QED
      BY <2>1, <2>2
  <1>13. lease'.until # 0 => lease'.term # 0
    BY <1>1 DEF IInv
  <1>14. UNCHANGED <<grants, accepted>>
    BY <1>1
  <1> QED
    BY <1>10, <1>11, <1>12, <1>13, <1>14, HistoryKept DEF IInv

LEMMA UndoChangeSound == \A k \in Tasks : IInv /\ UndoChange(k) => IInv'
  <1> SUFFICES ASSUME IInv, NEW k \in Tasks, UndoChange(k) PROVE IInv'
    OBVIOUS
  <1> DEFINE s == saved[k]
             restored == WithOwn(k, s.before.rows, rows)
  <1>1. /\ changes' = changes + 1 /\ task' = [task EXCEPT ![k] = s.before.task]
        /\ UNCHANGED <<clock, lease, grants, accepted>>
        /\ s.undoable
        /\ \A i \in Instants : s.after[i] # NoRow => rows[<<k, i>>] = s.after[i]
    BY DEF UndoChange, PostImageHolds
  <1> DEFINE m == [undoable |-> TRUE, before |-> [task |-> task[k], rows |-> s.after],
                   after |-> Own(k, rows')]
  <1>2. PICK gone \in SUBSET Audit(task', restored) :
            /\ rows' = Dropped(restored, gone)
            /\ forgotten' = forgotten \union gone
            /\ saved' = [saved EXCEPT ![k] = m]
    BY DEF UndoChange
  <1>t. /\ rows \in [Occurrences -> Rows] /\ task \in [Tasks -> TaskStates]
        /\ saved \in [Tasks -> UndoMaterial \union {NoUndo}] /\ task[k] \in TaskStates
        /\ clock \in Nat /\ changes \in Nat /\ forgotten \subseteq Occurrences
    BY DEF IInv, TypeOK
  <1>u. /\ s \in UndoMaterial /\ s.before.task \in TaskStates
        /\ s.before.rows \in [Instants -> Rows] /\ s.after \in [Instants -> Rows]
    <2>1. s # NoUndo
      BY <1>1 DEF NoUndo
    <2> QED
      BY <2>1, <1>t DEF UndoMaterial, Snapshots
  <1>3. \A o \in Occurrences :
            /\ restored[o] = IF o[1] = k THEN s.before.rows[o[2]] ELSE rows[o]
            /\ rows'[o] = IF o \in gone THEN NoRow ELSE restored[o]
    BY <1>2 DEF Dropped, WithOwn
  <1>4. rows' = [o \in Occurrences |-> rows'[o]]
    BY <1>2 DEF Dropped
  <1>5. \A o \in gone : o \in Occurrences /\ restored[o].state # "absent"
    BY <1>2 DEF Audit
  <1> HIDE DEF restored, s
  <1>6. ASSUME NEW o \in Occurrences, o[1] = k
        PROVE  /\ rows[o] = s.after[o[2]]
               /\ s.before.rows[o[2]] \in Rows /\ WellFormed(s.before.rows[o[2]])
               /\ Wanted(o, s.before.task, s.before.rows[o[2]])
               /\ o \in forgotten \/
                     Known(o, s.before.task, s.before.rows[o[2]], grants, accepted, clock)
    <2>1. o[2] \in Instants /\ o = <<k, o[2]>>
      BY <1>6, OccurrenceSound
    <2>2. SavedSound(o, s.before, s.after, rows[o], grants, accepted, forgotten, clock)
      BY <1>1, <1>6, OccurrenceSound DEF s
    <2>3. rows[o] = s.after[o[2]]
      <3>1. CASE s.after[o[2]] = NoRow
        BY <3>1, <2>2 DEF SavedSound, Moved
      <3>2. CASE s.after[o[2]] # NoRow
        BY <3>2, <2>1, <1>1
      <3> QED
        BY <3>1, <3>2
    <2> QED
      BY <2>1, <2>2, <2>3, <1>u DEF SavedSound
  <1>7. \A o \in Occurrences : rows'[o] \in Rows /\ WellFormed(rows'[o])
    <2> SUFFICES ASSUME NEW o \in Occurrences PROVE rows'[o] \in Rows /\ WellFormed(rows'[o])
      OBVIOUS
    <2>1. CASE o[1] = k
      BY <2>1, <1>3, <1>6, NoRowSound
    <2>2. CASE o[1] # k
      BY <2>2, <1>3, OccurrenceSound, NoRowSound
    <2> QED
      BY <2>1, <2>2
  <1>8. rows' \in [Occurrences -> Rows]
    BY <1>4, <1>7
  <1>9. Own(k, rows') \in [Instants -> Rows] /\ Own(k, rows) = s.after
    <2>1. Own(k, rows') \in [Instants -> Rows]
      BY <1>8 DEF Own, Occurrences
    <2>2. \A i \in Instants : rows[<<k, i>>] = s.after[i]
      <3> SUFFICES ASSUME NEW i \in Instants PROVE rows[<<k, i>>] = s.after[i]
        OBVIOUS
      <3>1. <<k, i>> \in Occurrences /\ <<k, i>>[1] = k /\ <<k, i>>[2] = i
        BY DEF Occurrences
      <3> QED
        BY <3>1, <1>6
    <2> QED
      BY <2>1, <2>2, <1>u DEF Own
  <1>10. /\ m \in UndoMaterial /\ m.undoable /\ m.before.task = task[k]
         /\ \A o \in Occurrences :
               o[1] = k => m.before.rows[o[2]] = rows[o] /\ m.after[o[2]] = rows'[o]
    <2>1. m = [undoable |-> TRUE, before |-> [task |-> task[k], rows |-> Own(k, rows)],
               after |-> Own(k, rows')]
      BY <1>9
    <2> HIDE DEF m
    <2> QED
      BY <2>1, <1>8, <1>t, FreshMaterial
  <1>11. saved' = [saved EXCEPT ![k] = m] /\ forgotten' = forgotten \union gone
    BY <1>2
  <1> HIDE DEF m
  <1>12. TypeOK'
    <2>1. forgotten' \subseteq Occurrences
      BY <1>t, <1>5, <1>11
    <2>2. saved' \in [Tasks -> UndoMaterial \union {NoUndo}]
      BY <1>10, <1>11, <1>t
    <2>3. task' \in [Tasks -> TaskStates] /\ changes' \in Nat
      BY <1>1, <1>t, <1>u
    <2> QED
      BY <2>1, <2>2, <2>3, <1>1, <1>7, <1>8 DEF IInv, TypeOK
  <1>13. forgotten \subseteq forgotten' /\ clock' \in Nat /\ clock <= clock'
    BY <1>1, <1>11, <1>t
  <1>14. ASSUME NEW o \in Occurrences
         PROVE  /\ RowSound(o, task'[o[1]], rows'[o], grants', accepted', forgotten', clock')
                /\ saved'[o[1]].undoable =>
                      SavedSound(o, saved'[o[1]].before, saved'[o[1]].after, rows'[o],
                                 grants', accepted', forgotten', clock')
    <2>0. o[1] \in Tasks /\ rows'[o] \in Rows
      BY OccurrenceSound, <1>7
    <2>1. CASE o[1] # k
      <3>1. task'[o[1]] = task[o[1]] /\ saved'[o[1]] = saved[o[1]]
        BY <2>0, <2>1, <1>1, <1>11, <1>t
      <3>2. OccurrenceSteps(o)
        <4>1. restored[o] = rows[o]
          BY <2>1, <1>3
        <4>2. CASE o \in gone
          <5>1. rows'[o] = NoRow /\ o \in forgotten' /\ rows[o].state # "absent"
            BY <4>1, <4>2, <1>3, <1>5, <1>11
          <5> QED
            BY <5>1, DroppingSteps
        <4>3. CASE o \notin gone
          BY <4>1, <4>3, <1>1, <1>3 DEF OccurrenceSteps, Elsewhere
        <4> QED
          BY <4>2, <4>3
      <3> QED
        BY <3>1, <3>2, <2>0, <1>13, OneOccurrence
    <2>2. CASE o[1] = k
      <3>1. task'[o[1]] = s.before.task /\ saved'[o[1]] = m
        BY <2>2, <1>1, <1>11, <1>t
      <3>2. restored[o] = s.before.rows[o[2]]
        BY <2>2, <1>3
      <3>3. Wanted(o, s.before.task, rows'[o])
        BY <2>2, <3>2, <1>3, <1>6, NoRowSound
      <3>4. o \in forgotten' \/ Known(o, s.before.task, rows'[o], grants, accepted, clock)
        BY <2>2, <3>2, <1>3, <1>6, <1>11
      <3>5. RowSound(o, task'[o[1]], rows'[o], grants', accepted', forgotten', clock')
        BY <3>1, <3>3, <3>4, <1>1 DEF RowSound
      <3>6. /\ WellFormed(rows[o]) /\ Wanted(o, task[k], rows[o])
            /\ o \in forgotten' \/ Known(o, task[k], rows[o], grants, accepted, clock)
        BY <2>2, <1>13, OccurrenceSound DEF RowSound
      <3>7. SavedSound(o, m.before, m.after, rows'[o], grants', accepted', forgotten', clock')
        BY <2>2, <3>6, <1>1, <1>10 DEF SavedSound
      <3> QED
        BY <3>1, <3>5, <3>7
    <2> QED
      BY <2>1, <2>2
  <1>15. lease'.until # 0 => lease'.term # 0
    BY <1>1 DEF IInv
  <1>16. UNCHANGED <<grants, accepted>>
    BY <1>1
  <1> QED
    BY <1>12, <1>13, <1>14, <1>15, <1>16, HistoryKept DEF IInv

-----------------------------------------------------------------------------
(***************************************************************************)
(* The invariant holds, and history only grows.                            *)
(***************************************************************************)

LEMMA InitSound == Init => IInv
  <1> SUFFICES ASSUME Init PROVE IInv
    OBVIOUS
  <1>1. \A o \in Occurrences : rows[o] = NoRow /\ o[1] \in Tasks
    BY DEF Init, Occurrences
  <1>2. [status |-> "pending", remindAt |-> 0] \in TaskStates
    BY DEF TaskStates
  <1>3. TypeOK
    <2>1. rows \in [Occurrences -> Rows] /\ \A o \in Occurrences : WellFormed(rows[o])
      BY <1>1, NoRowSound DEF Init
    <2>2. task \in [Tasks -> TaskStates] /\ saved \in [Tasks -> UndoMaterial \union {NoUndo}]
      BY <1>2 DEF Init
    <2>3. clock \in Nat /\ lease \in [term : Nat, until : Nat] /\ grants \subseteq Grants
          /\ accepted \subseteq [grant : Grants, result : Results, at : Nat]
          /\ forgotten \subseteq Occurrences /\ changes \in Nat
      BY DEF Init
    <2> QED
      BY <2>1, <2>2, <2>3 DEF TypeOK
  <1>4. /\ lease.until # 0 => lease.term # 0
        /\ AttemptsNumbered /\ ClaimsDontOverlap /\ LateAnswersAreRefused
    BY DEF Init, AttemptsNumbered, ClaimsDontOverlap, LateAnswersAreRefused
  <1>5. \A o \in Occurrences :
            RowSound(o, task[o[1]], rows[o], grants, accepted, forgotten, clock)
    <2> SUFFICES ASSUME NEW o \in Occurrences
                 PROVE  RowSound(o, task[o[1]], rows[o], grants, accepted, forgotten, clock)
      OBVIOUS
    <2>1. grants = {} /\ accepted = {}
      BY DEF Init
    <2>2. Tells(o, NoRow, {}, {}, clock)
      BY NoRowSound DEF Tells, Counted, Over, Unanswered
    <2> QED
      BY <2>1, <2>2, <1>1, NoRowSound DEF RowSound, Known
  <1>6. \A o \in Occurrences : ~saved[o[1]].undoable
    BY <1>1 DEF Init, NoUndo
  <1> QED
    BY <1>3, <1>4, <1>5, <1>6 DEF IInv

LEMMA ScheduleChangeSound == IInv /\ ChangeSchedule => IInv'
  <1> SUFFICES ASSUME IInv, NEW k \in Tasks,
                      \/ \E i \in Instants \union {0} : Schedule(k, i)
                      \/ Close(k) \/ Reopen(k) \/ UncompleteSourceOnly(k)
                      \/ Delete(k) \/ UndoChange(k)
               PROVE  IInv'
    BY DEF ChangeSchedule
  <1>t. task[k] \in TaskStates
    BY DEF IInv, TypeOK
  <1>1. ASSUME NEW i \in Instants \union {0}, Schedule(k, i) PROVE IInv'
    <2>1. [task[k] EXCEPT !.remindAt = i] \in TaskStates
      BY <1>t DEF TaskStates
    <2>2. task[k].status # "deleted" /\ Change(k, [task[k] EXCEPT !.remindAt = i], "sync")
      BY <1>1 DEF Schedule
    <2> QED
      BY <2>1, <2>2, ChangeSound
  <1>s. \A v \in {"pending", "closed", "deleted"} :
            [task[k] EXCEPT !.status = v] \in TaskStates
            /\ [task[k] EXCEPT !.status = v].status = v
    BY <1>t DEF TaskStates
  <1>2. ASSUME Close(k) PROVE IInv'
    <2>1. task[k].status # "deleted" /\ Change(k, [task[k] EXCEPT !.status = "closed"], "sync")
      BY <1>2 DEF Close
    <2> QED
      BY <2>1, <1>s, ChangeSound
  <1>3. ASSUME Reopen(k) PROVE IInv'
    <2>1. task[k].status # "deleted" /\ Change(k, [task[k] EXCEPT !.status = "pending"], "sync")
      BY <1>3 DEF Reopen
    <2> QED
      BY <2>1, <1>s, ChangeSound
  <1>4. ASSUME UncompleteSourceOnly(k) PROVE IInv'
    <2>1. task[k].status = "closed" /\ Change(k, [task[k] EXCEPT !.status = "pending"], "keep")
      BY <1>4 DEF UncompleteSourceOnly
    <2> QED
      BY <2>1, <1>s, ChangeSound
  <1>5. ASSUME Delete(k) PROVE IInv'
    <2>1. task[k].status # "deleted"
          /\ Change(k, [task[k] EXCEPT !.status = "deleted"], "delete")
      BY <1>5 DEF Delete
    <2> QED
      BY <2>1, <1>s, ChangeSound
  <1> QED
    BY <1>1, <1>2, <1>3, <1>4, <1>5, UndoChangeSound

LEMMA DeliverySound == IInv /\ ControlDelivery => IInv'
  BY LeaseSound, ClaimSound, SettleSound, MarkOwnerLostSound DEF ControlDelivery

LEMMA StepSound == IInv /\ [Next]_vars => IInv'
  BY TickSound, ScheduleChangeSound, DeliverySound, StutterSound DEF Next

\* No accepted answer is taken back, and nothing forgotten is remembered.
LEMMA HistoryGrows ==
    ASSUME [Next]_vars PROVE accepted \subseteq accepted' /\ forgotten \subseteq forgotten'
  <1>1. CASE Tick \/ UNCHANGED vars
    BY <1>1 DEF Tick, vars
  <1>2. CASE ChangeSchedule
    <2>1. \A k, t, effect : Change(k, t, effect) =>
              accepted' = accepted /\ forgotten \subseteq forgotten'
      BY DEF Change
    <2>2. \A k : UndoChange(k) => accepted' = accepted /\ forgotten \subseteq forgotten'
      BY DEF UndoChange
    <2> QED
      BY <1>2, <2>1, <2>2 DEF ChangeSchedule, Schedule, Close, Reopen, UncompleteSourceOnly, Delete
  <1>3. CASE ControlDelivery
    <2>1. \A g, result, now : Settle(g, result, now) =>
              accepted \subseteq accepted' /\ forgotten \subseteq forgotten'
      BY DEF Settle
    <2>2. \A now, secs, batch :
              \/ Acquire(now, secs) \/ Renew(now, secs) \/ Release(now)
              \/ Claim(now, secs, batch) \/ MarkOwnerLost(now, batch)
              => accepted' = accepted /\ forgotten' = forgotten
      BY DEF Acquire, Renew, Release, Claim, MarkOwnerLost
    <2> QED
      BY <1>3, <2>1, <2>2 DEF ControlDelivery
  <1> QED
    BY <1>1, <1>2, <1>3 DEF Next

-----------------------------------------------------------------------------
(***************************************************************************)
(* The theorems.                                                           *)
(***************************************************************************)

\* Every row, in the table or kept for an undo, tells the truth about the claims of its
\* occurrence and their answers.
THEOREM Invariance == Spec => []IInv
  BY InitSound, StepSound, PTL DEF Spec

\* The columns of a row agree with its state, and what waits is wanted or was lost
\* (reminder_ops.rs sync_task_reminder_intent).
THEOREM ScheduleStaysSound == Spec => []ScheduleSound
  <1>1. IInv => ScheduleSound
    BY DEF IInv, ScheduleSound, IntentOrLost, RowSound, Wanted
  <1> QED
    BY <1>1, Invariance, PTL

\* Two claims of an occurrence never overlap by more than the staleness of their stamps,
\* whatever leases, sweeps, reschedules and undos lie in between
\* (reminder_ops.rs claim_due_reminders, mark_owner_lost_reminders).
THEOREM OneClaimAtATime == Spec => []ClaimsDontOverlap
  <1>1. IInv => ClaimsDontOverlap
    BY DEF IInv
  <1> QED
    BY <1>1, Invariance, PTL

\* An answer counts inside the window of the claim it answers, and once
\* (reminder_ops.rs settle_claimed).
THEOREM AnswersCountOnce == Spec => []LateAnswersAreRefused
  <1>1. IInv => LateAnswersAreRefused
    BY DEF IInv
  <1> QED
    BY <1>1, Invariance, PTL

\* What was delivered or failed stays so until its audit row is compacted or its task
\* deleted: no answer, sweep, reschedule or undo brings it back.
THEOREM DeliveredIsFinal == Spec => TerminalIsFinal
  <1> DEFINE Kept(o) == rows'[o] \in {rows[o], NoRow} \/ o \in forgotten'
  <1>1. IInv /\ IInv' /\ [Next]_vars =>
            \A o \in Occurrences : rows[o].state \in {"delivered", "failed"} => Kept(o)
    <2> SUFFICES ASSUME IInv, IInv', [Next]_vars, NEW o \in Occurrences,
                        rows[o].state \in {"delivered", "failed"}, o \notin forgotten'
                 PROVE  rows'[o] \in {rows[o], NoRow}
      OBVIOUS
    <2>1. accepted \subseteq accepted' /\ o \notin forgotten
      BY HistoryGrows
    <2>2. rows[o] # NoRow
      BY NoRowSound
    <2>3. PICK a \in accepted : a.grant.occ = o /\ rows[o] = SettledRow(a)
      <3>1. Tells(o, rows[o], grants, accepted, clock)
        BY <2>1, <2>2 DEF IInv, RowSound, Known
      <3> QED
        BY <3>1 DEF Tells
    <2>4. rows'[o] = NoRow \/ Tells(o, rows'[o], grants', accepted', clock')
      BY DEF IInv, RowSound, Known
    <2>5. ASSUME Tells(o, rows'[o], grants', accepted', clock') PROVE rows'[o] = rows[o]
      <3>1. ~Unanswered(o, accepted')
        BY <2>1, <2>3 DEF Unanswered
      <3>2. rows'[o].state \in RowStates
        BY DEF IInv, TypeOK, Rows
      <3>3. rows'[o].state \in {"delivered", "failed"}
        BY <2>5, <3>1, <3>2 DEF Tells, RowStates
      <3>4. PICK b \in accepted' : b.grant.occ = o /\ rows'[o] = SettledRow(b)
        BY <2>5, <3>3 DEF Tells
      <3>5. a = b
        BY <2>1, <2>3, <3>4 DEF IInv, LateAnswersAreRefused
      <3> QED
        BY <2>3, <3>4, <3>5
    <2> QED
      BY <2>4, <2>5
  <1>2. IInv /\ IInv' /\ [Next]_vars =>
            [\A o \in Occurrences : rows[o].state \in {"delivered", "failed"} =>
                rows'[o] \in {rows[o], NoRow} \/ o \in forgotten']_vars
    BY <1>1
  <1> QED
    BY <1>2, Invariance, PTL DEF Spec, TerminalIsFinal

=============================================================================
