--------------------------- MODULE ReceiptsProofs ---------------------------
(***************************************************************************)
(* Proofs about Receipts, for every value of the constants.               *)
(*                                                                         *)
(* The inductive invariant IInv says what the properties leave implicit:  *)
(* a receipt is the last commit of its operation, a commit whose receipt  *)
(* is gone is past its expiry, and everything committed on a task after   *)
(* the revision its row carries is a deletion that was taken back, or the *)
(* undo that took it back.                                                *)
(***************************************************************************)
EXTENDS Receipts, TLAPS

\* Row r of the activity log is the commit of operation op.
Committed(op, r) == r \in DOMAIN activity /\ activity[r].op = op

\* The log and the revision counter move together, and no row is ahead of them.
LogShape ==
    /\ Len(activity) = revision
    /\ Contiguous
    /\ \A k \in Resources : store[k].rev <= revision

\* Nobody holds a stamp from the future.
StampsPast ==
    /\ \A cmd \in inbox : cmd.at <= clock
    /\ stage # "idle" => current.at <= clock
    /\ \A i \in DOMAIN activity : activity[i].clock <= clock

\* A receipt stands for the last commit of its operation.
ReceiptIsLastCommit ==
    \A op \in DOMAIN receipts :
        /\ Committed(op, receipts[op].rev)
        /\ activity[receipts[op].rev].req = receipts[op].req
        /\ receipts[op].expires = activity[receipts[op].rev].at + TTL
        /\ \A i \in DOMAIN activity : activity[i].op = op => i <= receipts[op].rev

\* A commit that no receipt stands for any more has expired.
ForgottenOnlyExpired ==
    \A i \in DOMAIN activity :
        \/ /\ activity[i].op \in DOMAIN receipts
           /\ receipts[activity[i].op].rev = i
        \/ activity[i].at + TTL <= clock + 1

\* The thread is between commit and answer only with its receipt in place.
AnswerPending ==
    stage = "committed" =>
        /\ current.op \in DOMAIN receipts
        /\ receipts[current.op].req = current.req

\* Undo rows belong to the commit of their source's receipt, and say of it what
\* it wrote; a task's is pinned exactly.
UndoRowsOfReceipts ==
    \A op \in DOMAIN undos :
        /\ undos[op].rev = receipts[op].rev
        /\ activity[undos[op].rev].task = undos[op].task
        /\ activity[undos[op].rev].val = undos[op].after.val
        /\ undos[op].after.rev <= undos[op].rev
        /\ undos[op].before.rev <= undos[op].rev
        /\ undos[op].task \in Tasks => undos[op].pins = "row"
        /\ undos[op].task \in Links => undos[op].before.val \in {0, 1}

\* A row whose commit has been undone is marked.
UndoneIsMarked ==
    \A j \in DOMAIN activity :
        /\ activity[j].undoes < j
        /\ activity[j].undoes # 0 =>
             \A op \in DOMAIN undos :
                 undos[op].rev = activity[j].undoes => undos[op].undoneBy # NoOp

\* An undo writes what the undone mutation wrote.
UndoesItsTask ==
    \A j \in DOMAIN activity :
        activity[j].undoes # 0 => activity[activity[j].undoes].task = activity[j].task

Undone(i) == \E h \in DOMAIN activity : activity[h].undoes = i

\* Row i of the activity log is a deletion that was taken back, or took one back.
Paired(i) == \E h \in DOMAIN activity : TakesBack(i, h) \/ TakesBack(h, i)

\* The row of a task is the work of the revision it carries: since then there
\* were only deletions and the undos that took them back.
RowOutlivesPairs ==
    \A k \in Tasks :
        Present(k) =>
            \A i \in DOMAIN activity :
                activity[i].task = k /\ i > store[k].rev => Paired(i)

\* A deletion that has not been undone is the last thing that happened to its task.
OnlyLastDeletionStands ==
    \A i \in DOMAIN activity :
        activity[i].task \in Tasks /\ activity[i].val = 0 /\ ~Undone(i) =>
            /\ ~Present(activity[i].task)
            /\ \A h \in DOMAIN activity : h > i => activity[h].task # activity[i].task

\* Nothing happens to a task between its deletion and the undo of the deletion.
TakenBackAtOnce ==
    \A j \in DOMAIN activity :
        activity[j].undoes # 0 /\ activity[j].task \in Tasks
          /\ activity[activity[j].undoes].val = 0 =>
            \A i \in activity[j].undoes + 1 .. j - 1 : activity[i].task # activity[j].task

\* A closure kept by a deletion holds the row as RowOutlivesPairs says of it.
ClosuresOutlivePairs ==
    \A op \in DOMAIN undos :
        undos[op].asItWas =>
            /\ undos[op].task \in Tasks
            /\ undos[op].after.val = 0
            /\ \A i \in DOMAIN activity :
                  /\ activity[i].task = undos[op].task
                  /\ i > undos[op].before.rev
                  /\ i < undos[op].rev
                  => Paired(i)

IInv ==
    /\ TypeOK
    /\ LogShape
    /\ StampsPast
    /\ ReceiptIsLastCommit
    /\ ForgottenOnlyExpired
    /\ AnswerPending
    /\ UndoRowsFollowReceipts
    /\ UndoRowsOfReceipts
    /\ UndoneIsMarked
    /\ UndoesItsTask
    /\ RowOutlivesPairs
    /\ OnlyLastDeletionStands
    /\ TakenBackAtOnce
    /\ ClosuresOutlivePairs
    /\ AtMostOncePerReceiptLife
    /\ AnswerNamesItsEffect
    /\ UndoneAtMostOnce
    /\ UndoOverwritesNobody

-----------------------------------------------------------------------------
(***************************************************************************)
(* Data.                                                                  *)
(***************************************************************************)

LEMMA AppendFacts ==
    ASSUME NEW S, NEW s \in Seq(S), NEW e \in S
    PROVE  /\ Append(s, e) \in Seq(S)
           /\ Len(Append(s, e)) = Len(s) + 1
           /\ DOMAIN s = 1 .. Len(s)
           /\ DOMAIN Append(s, e) = 1 .. Len(s) + 1
           /\ \A i \in 1 .. Len(s) : Append(s, e)[i] = s[i]
           /\ Append(s, e)[Len(s) + 1] = e
           /\ Len(s) \in Nat
  OBVIOUS

\* Textual order is real order up to a second.
LEMMA TextLeqSlack ==
    ASSUME NEW s \in Nat, NEW t \in Nat, TextLeq(s, t)
    PROVE  s <= t + 1
  BY DEF TextLeq, TextKey

LEMMA WriteRequest ==
    ASSUME NEW req \in Requests, req.kind = "write"
    PROVE  req.task \in Resources /\ req.val \in Vals
  BY ReceiptsAssumption DEF Requests, Writes, Write, Undo, Resources

LEMMA LogRows ==
    ASSUME TypeOK
    PROVE  /\ DOMAIN activity = 1 .. Len(activity)
           /\ Len(activity) \in Nat
           /\ \A i \in DOMAIN activity :
                /\ activity[i] \in ActivityRows
                /\ activity[i].at \in Nat
                /\ activity[i].clock \in Nat
                /\ activity[i].undoes \in Nat
                /\ activity[i].op \in Ops
                /\ activity[i].task \in Resources
  <1>1. activity \in Seq(ActivityRows)
    BY DEF TypeOK
  <1>2. /\ DOMAIN activity = 1 .. Len(activity)
        /\ Len(activity) \in Nat
        /\ \A i \in DOMAIN activity : activity[i] \in ActivityRows
    BY <1>1
  <1>. QED
    BY <1>2 DEF ActivityRows

LEMMA InitEstablishes == Init => IInv
  <1> SUFFICES ASSUME Init PROVE IInv
    OBVIOUS
  <1>1. TypeOK
    BY ReceiptsAssumption
    DEF Init, LogInit, TypeOK, LogTypeOK, States, Absent, Resources, NoCommand
  <1>2. activity = << >> /\ receipts = << >> /\ undos = << >>
    BY DEF Init
  <1>3. DOMAIN activity = {} /\ DOMAIN receipts = {} /\ DOMAIN undos = {}
    BY <1>2
  <1>4. LogShape
    BY <1>2 DEF Init, LogInit, LogShape, Contiguous, Absent
  <1>5. RowOutlivesPairs /\ OnlyLastDeletionStands /\ TakenBackAtOnce
    BY <1>3 DEF RowOutlivesPairs, OnlyLastDeletionStands, TakenBackAtOnce
  <1>6. UndoesItsTask /\ ClosuresOutlivePairs
    BY <1>3 DEF UndoesItsTask, ClosuresOutlivePairs
  <1>. QED
    BY <1>1, <1>2, <1>3, <1>4, <1>5, <1>6
    DEF Init, LogInit, IInv, StampsPast, ReceiptIsLastCommit,
        ForgottenOnlyExpired, AnswerPending, UndoRowsFollowReceipts,
        UndoRowsOfReceipts, UndoneIsMarked, AtMostOncePerReceiptLife, AnswerNamesItsEffect, UndoneAtMostOnce,
        UndoOverwritesNobody

-----------------------------------------------------------------------------
(***************************************************************************)
(* Steps that leave the log, the receipts, the undo rows and the store    *)
(* alone.                                                                 *)
(***************************************************************************)

Quiet == UNCHANGED <<revision, store, receipts, undos, activity>>

LEMMA QuietPreserves ==
    ASSUME IInv, Quiet, TypeOK', Contiguous', StampsPast', AnswerPending',
           AnswerNamesItsEffect', clock <= clock'
    PROVE  IInv'
  <1> USE DEF IInv, Quiet
  <1>1. LogShape'
    BY DEF LogShape
  <1>2. ReceiptIsLastCommit'
    BY DEF ReceiptIsLastCommit, Committed
  <1>3. ForgottenOnlyExpired'
    <2>1. \A i \in DOMAIN activity : activity[i].at + TTL \in Nat
      BY ReceiptsAssumption, LogRows
    <2>. QED
      BY <2>1 DEF ForgottenOnlyExpired, TypeOK
  <1>4. UndoRowsFollowReceipts' /\ UndoRowsOfReceipts' /\ UndoneIsMarked'
    BY DEF UndoRowsFollowReceipts, UndoRowsOfReceipts, UndoneIsMarked
  <1>5. /\ UndoesItsTask' /\ RowOutlivesPairs' /\ OnlyLastDeletionStands'
        /\ TakenBackAtOnce' /\ ClosuresOutlivePairs'
    BY DEF UndoesItsTask, RowOutlivesPairs, OnlyLastDeletionStands, TakenBackAtOnce,
           ClosuresOutlivePairs, Present, Undone, Paired, TakesBack
  <1>6. AtMostOncePerReceiptLife' /\ UndoneAtMostOnce' /\ UndoOverwritesNobody'
    BY DEF AtMostOncePerReceiptLife, UndoneAtMostOnce, UndoOverwritesNobody, TakesBack
  <1>. QED
    BY <1>1, <1>2, <1>3, <1>4, <1>5, <1>6

LEMMA TickPreserves == IInv /\ Tick => IInv'
  <1> SUFFICES ASSUME IInv, Tick PROVE IInv'
    OBVIOUS
  <1>1. Quiet /\ clock <= clock'
    BY DEF Tick, Quiet, IInv, TypeOK
  <1>2. TypeOK'
    BY DEF IInv, TypeOK, LogTypeOK, Tick
  <1>3. StampsPast'
    <2>1. /\ \A cmd \in inbox : cmd.at \in Nat
          /\ stage # "idle" => current.at \in Nat
          /\ \A i \in DOMAIN activity : activity[i].clock \in Nat
      BY LogRows DEF IInv, TypeOK, Commands
    <2>. QED
      BY <2>1 DEF IInv, TypeOK, StampsPast, Tick
  <1>4. Contiguous' /\ AnswerPending' /\ AnswerNamesItsEffect'
    BY DEF IInv, LogShape, Contiguous, AnswerPending, AnswerNamesItsEffect, Tick
  <1>. QED
    BY <1>1, <1>2, <1>3, <1>4, QuietPreserves

LEMMA SubmitPreserves ==
    ASSUME IInv, NEW op \in Ops, NEW req \in Offered, Submit(op, req)
    PROVE  IInv'
  <1>1. Quiet /\ clock <= clock'
    BY DEF Submit, Quiet, IInv, TypeOK
  <1>2. TypeOK'
    BY ReceiptsAssumption DEF IInv, TypeOK, LogTypeOK, Submit, Commands
  <1>3. StampsPast'
    BY DEF IInv, TypeOK, StampsPast, Submit
  <1>4. Contiguous' /\ AnswerPending' /\ AnswerNamesItsEffect'
    BY DEF IInv, LogShape, Contiguous, AnswerPending, AnswerNamesItsEffect, Submit
  <1>. QED
    BY <1>1, <1>2, <1>3, <1>4, QuietPreserves

LEMMA ReplayPreserves == IInv /\ Replay => IInv'
  <1> SUFFICES ASSUME IInv, Replay PROVE IInv'
    OBVIOUS
  <1>1. Quiet /\ clock <= clock'
    BY DEF Replay, Quiet, IInv, TypeOK
  <1>2. TypeOK'
    BY DEF IInv, TypeOK, LogTypeOK, Replay, Finish, Commands, Replies, Recorded,
           ReceiptRows
  <1>3. StampsPast' /\ Contiguous' /\ AnswerPending'
    BY DEF IInv, LogShape, Contiguous, StampsPast, AnswerPending, Replay, Finish
  <1>4. AnswerNamesItsEffect'
    BY DEF IInv, ReceiptIsLastCommit, Committed, AnswerNamesItsEffect, Replay,
           Recorded, SameRequest
  <1>. QED
    BY <1>1, <1>2, <1>3, <1>4, QuietPreserves

LEMMA GiveUpPreserves == IInv /\ (Mismatch \/ Refuse \/ Crash) => IInv'
  <1> SUFFICES ASSUME IInv, Mismatch \/ Refuse \/ Crash PROVE IInv'
    OBVIOUS
  <1>1. Quiet /\ clock <= clock'
    BY DEF Mismatch, Refuse, Crash, Quiet, IInv, TypeOK
  <1>2. TypeOK'
    BY DEF IInv, TypeOK, LogTypeOK, Mismatch, Refuse, Crash, Finish
  <1>3. StampsPast' /\ Contiguous' /\ AnswerPending' /\ AnswerNamesItsEffect'
    BY DEF IInv, LogShape, Contiguous, StampsPast, AnswerPending,
           AnswerNamesItsEffect, Mismatch, Refuse, Crash, Finish
  <1>. QED
    BY <1>1, <1>2, <1>3, QuietPreserves

LEMMA PrunePreserves == IInv /\ Prune => IInv'
  <1> SUFFICES ASSUME IInv, Prune PROVE IInv'
    OBVIOUS
  <1>1. Quiet /\ clock <= clock'
    BY DEF Prune, Quiet, IInv, TypeOK
  <1>2. TypeOK'
    BY DEF IInv, TypeOK, LogTypeOK, Prune, Victim, IsOldest
  <1>3. StampsPast' /\ AnswerPending' /\ AnswerNamesItsEffect'
    BY DEF IInv, StampsPast, AnswerPending, AnswerNamesItsEffect, Prune
  <1>4. Contiguous'
    <2>1. PICK r \in events : IsOldest(r) /\ events' = events \ {r} /\ revision' = revision
      BY DEF Prune, Victim
    <2>2. events \subseteq Nat
      BY DEF IInv, TypeOK, LogTypeOK
    <2>. QED
      BY <2>1, <2>2 DEF IInv, LogShape, Contiguous, IsOldest, TypeOK, LogTypeOK
  <1>. QED
    BY <1>1, <1>2, <1>3, <1>4, QuietPreserves

LEMMA AnswerPreserves == IInv /\ Answer => IInv'
  <1> SUFFICES ASSUME IInv, Answer PROVE IInv'
    OBVIOUS
  <1>1. Quiet /\ clock <= clock'
    BY DEF Answer, Quiet, IInv, TypeOK
  <1>2. TypeOK'
    BY DEF IInv, TypeOK, LogTypeOK, Answer, Finish, Commands, Replies,
           AnswerPending, ReceiptRows
  <1>3. StampsPast' /\ Contiguous' /\ AnswerPending'
    BY DEF IInv, LogShape, Contiguous, StampsPast, AnswerPending, Answer, Finish
  <1>4. AnswerNamesItsEffect'
    BY DEF IInv, ReceiptIsLastCommit, Committed, AnswerNamesItsEffect,
           AnswerPending, Answer
  <1>. QED
    BY <1>1, <1>2, <1>3, <1>4, QuietPreserves

-----------------------------------------------------------------------------
(***************************************************************************)
(* Cleanup.                                                               *)
(***************************************************************************)

LEMMA CleanPreserves ==
    ASSUME IInv, NEW cmd \in inbox, Clean(cmd)
    PROVE  IInv'
  <1> USE DEF IInv
  <1>1. /\ DOMAIN receipts' = DOMAIN receipts \ ExpiredReceipts(cmd.at)
        /\ \A op \in DOMAIN receipts' : receipts'[op] = receipts[op]
        /\ receipts' = [op \in DOMAIN receipts' |-> receipts'[op]]
    BY DEF Clean, Without, Restrict
  <1>2. /\ DOMAIN undos' = DOMAIN undos \ ExpiredUndos(cmd.at)
        /\ \A op \in DOMAIN undos' : undos'[op] = undos[op]
        /\ undos' = [op \in DOMAIN undos' |-> undos'[op]]
    BY DEF Clean, Without, Restrict
  <1>3. cmd \in Commands /\ cmd.at \in Nat /\ cmd.at <= clock
    BY DEF TypeOK, Commands, StampsPast
  <1>4. UNCHANGED <<revision, events, clock, store, activity>>
    BY DEF Clean
  <1>5. TypeOK'
    <2>1. receipts' \in [DOMAIN receipts' -> ReceiptRows] /\ DOMAIN receipts' \subseteq Ops
      BY <1>1 DEF TypeOK
    <2>2. undos' \in [DOMAIN undos' -> UndoRows] /\ DOMAIN undos' \subseteq Ops
      BY <1>2 DEF TypeOK
    <2>. QED
      BY <1>3, <1>4, <2>1, <2>2 DEF TypeOK, LogTypeOK, Clean
  <1>6. LogShape'
    BY <1>4 DEF LogShape, Contiguous
  <1>7. StampsPast'
    BY <1>3, <1>4 DEF StampsPast, Clean
  <1>8. ReceiptIsLastCommit'
    BY <1>1, <1>4 DEF ReceiptIsLastCommit, Committed
  <1>9. ForgottenOnlyExpired'
    <2> SUFFICES ASSUME NEW i \in DOMAIN activity,
                        activity[i].op \in ExpiredReceipts(cmd.at),
                        receipts[activity[i].op].rev = i
                 PROVE  activity[i].at + TTL <= clock + 1
      BY <1>1, <1>4 DEF ForgottenOnlyExpired
    <2>1. /\ activity[i].op \in DOMAIN receipts
          /\ TextLeq(receipts[activity[i].op].expires, cmd.at)
      BY DEF ExpiredReceipts, Expired
    <2>2. receipts[activity[i].op].expires = activity[i].at + TTL
      BY <2>1 DEF ReceiptIsLastCommit
    <2>3. activity[i].at + TTL \in Nat /\ clock \in Nat
      BY LogRows, ReceiptsAssumption DEF TypeOK
    <2>4. activity[i].at + TTL <= cmd.at + 1
      BY <1>3, <2>1, <2>2, <2>3, TextLeqSlack
    <2>. QED
      BY <1>3, <2>3, <2>4
  <1>10. AnswerPending' /\ AnswerNamesItsEffect'
    BY DEF Clean, AnswerPending, AnswerNamesItsEffect
  <1>11. UndoRowsFollowReceipts'
    BY <1>1, <1>2 DEF UndoRowsFollowReceipts, ExpiredUndos
  <1>12. UndoRowsOfReceipts'
    BY <1>1, <1>2, <1>4, <1>11 DEF UndoRowsOfReceipts, UndoRowsFollowReceipts
  <1>13. /\ UndoneIsMarked' /\ UndoesItsTask' /\ RowOutlivesPairs'
         /\ OnlyLastDeletionStands' /\ TakenBackAtOnce' /\ ClosuresOutlivePairs'
    BY <1>2, <1>4
    DEF UndoneIsMarked, UndoesItsTask, RowOutlivesPairs, OnlyLastDeletionStands,
        TakenBackAtOnce, ClosuresOutlivePairs, Present, Undone, Paired, TakesBack
  <1>14. AtMostOncePerReceiptLife' /\ UndoneAtMostOnce' /\ UndoOverwritesNobody'
    BY <1>4
    DEF AtMostOncePerReceiptLife, UndoneAtMostOnce, UndoOverwritesNobody, TakesBack
  <1>. QED
    BY <1>5, <1>6, <1>7, <1>8, <1>9, <1>10, <1>11, <1>12, <1>13, <1>14

-----------------------------------------------------------------------------
(***************************************************************************)
(* Commits.  What Commit needs to know of the undo rows a mutation leaves:*)
(* old rows keep their content and their marks, a new row belongs to this *)
(* commit, and the commit that undoes another one marks it.               *)
(***************************************************************************)

UndoRowsKept ==
    /\ DOMAIN undos' \subseteq DOMAIN undos \union {current.op}
    /\ undos' \in [DOMAIN undos' -> UndoRows]
    /\ \A op \in DOMAIN undos :
        /\ undos'[op].rev = undos[op].rev
        /\ undos'[op].task = undos[op].task
        /\ undos'[op].pins = undos[op].pins
        /\ undos'[op].after = undos[op].after
        /\ undos'[op].before = undos[op].before
        /\ undos'[op].asItWas = undos[op].asItWas
        /\ undos'[op].undoneBy \in {undos[op].undoneBy, current.op}

UndoRowAdded(k, state) ==
    current.op \in DOMAIN undos' =>
        /\ undos'[current.op].rev = revision + 1
        /\ undos'[current.op].task = k
        /\ undos'[current.op].after = state
        /\ undos'[current.op].before.rev <= revision + 1
        /\ undos'[current.op].undoneBy = NoOp
        /\ k \in Tasks => undos'[current.op].pins = "row"
        /\ k \in Links => undos'[current.op].before.val \in {0, 1}
        /\ undos'[current.op].asItWas =>
             /\ k \in Tasks
             /\ state.val = 0
             /\ \A i \in DOMAIN activity :
                  activity[i].task = k /\ i > undos'[current.op].before.rev => Paired(i)

\* The commits on k after `undoes`.
Between(k, undoes) == {i \in undoes + 1 .. revision : activity[i].task = k}

Undoes(k, undoes) ==
    undoes # 0 =>
        /\ activity[undoes].task = k
        /\ \E source \in DOMAIN undos :
              /\ undos[source].rev = undoes
              /\ undos[source].undoneBy = NoOp
              /\ undos'[source].undoneBy = current.op
        /\ k \in Tasks =>
              /\ \A i \in Between(k, undoes) : \E h \in Between(k, undoes) :
                    TakesBack(i, h) \/ TakesBack(h, i)
              /\ activity[undoes].val = 0 => Between(k, undoes) = {}

\* The row of k may become `state` at the next revision.
Settles(k, state, undoes) ==
    /\ state.rev <= revision + 1
    /\ k \in Tasks =>
        /\ \A i \in DOMAIN activity :
              activity[i].task = k /\ activity[i].val = 0 /\ ~Undone(i) => i = undoes
        /\ state.val # 0 =>
              /\ \A i \in DOMAIN activity :
                    activity[i].task = k /\ i > state.rev =>
                        Paired(i) \/ (i = undoes /\ activity[i].val = 0)
              /\ state.rev # revision + 1 => undoes # 0 /\ activity[undoes].val = 0

LEMMA CommitPreserves ==
    ASSUME IInv, Unrecorded, NEW k \in Resources, NEW state \in States,
           NEW undoes \in Nat, Commit(k, state, undoes),
           UndoRowsKept, UndoRowAdded(k, state), Undoes(k, undoes),
           Settles(k, state, undoes)
    PROVE  IInv'
  <1> USE DEF IInv
  <1>0. PICK next : next = revision + 1
    OBVIOUS
  <1>1. /\ current \in Commands
        /\ current.op \in Ops /\ current.req \in Requests
        /\ current.at \in Nat /\ current.at <= clock
        /\ current.op \notin DOMAIN receipts
        /\ current.op # NoOp
    BY ReceiptsAssumption
    DEF TypeOK, Unrecorded, Recorded, Commands, StampsPast
  <1>2. /\ revision \in Nat /\ Len(activity) = revision
        /\ next \in Nat /\ next = revision + 1
    BY <1>0 DEF TypeOK, LogTypeOK, LogShape
  <1>3. PICK row \in ActivityRows :
            /\ activity' = Append(activity, row)
            /\ row.op = current.op /\ row.req = current.req /\ row.at = current.at
            /\ row.clock = clock /\ row.task = k /\ row.undoes = undoes
            /\ row.val = state.val
    <2>1. PICK size \in Sizes :
            activity' = Append(activity,
                        [op |-> current.op, req |-> current.req,
                         at |-> current.at, clock |-> clock, task |-> k,
                         val |-> state.val, undoes |-> undoes, size |-> size])
      BY DEF Commit
    <2> DEFINE written == [op |-> current.op, req |-> current.req,
                           at |-> current.at, clock |-> clock, task |-> k,
                           val |-> state.val, undoes |-> undoes, size |-> size]
    <2>2. clock \in Nat /\ state.val \in Vals
      BY DEF TypeOK, States
    <2>3. written \in ActivityRows
      BY <1>1, <2>2 DEF ActivityRows
    <2>. QED
      BY <2>1, <2>3
  <1>4. /\ activity' \in Seq(ActivityRows)
        /\ DOMAIN activity = 1 .. revision
        /\ DOMAIN activity' = 1 .. next
        /\ Len(activity') = next
        /\ \A i \in DOMAIN activity : activity'[i] = activity[i] /\ i \in DOMAIN activity'
        /\ activity'[next] = row
    <2>1. activity \in Seq(ActivityRows)
      BY DEF TypeOK
    <2>. QED
      BY <1>2, <1>3, <2>1, AppendFacts
  <1>5. /\ DOMAIN receipts' = DOMAIN receipts \union {current.op}
        /\ \A op \in DOMAIN receipts : receipts'[op] = receipts[op]
        /\ receipts'[current.op] = [req |-> current.req, rev |-> next,
                                    expires |-> current.at + TTL]
        /\ receipts' = [op \in DOMAIN receipts' |-> receipts'[op]]
    BY <1>0, <1>1 DEF Commit, With, ExpiresAt
  <1>6. /\ revision' = next /\ events' = events \union {next}
        /\ stage' = "committed"
        /\ UNCHANGED <<clock, inbox, current, reply>>
    BY <1>0 DEF Commit, AppendEvent
  <1>7. /\ store' \in [Resources -> States]
        /\ store'[k] = state
        /\ \A r \in Resources : r # k => store'[r] = store[r]
    BY <1>2 DEF Commit, TypeOK, States
  <1>8. TypeOK'
    <2>1. receipts' \in [DOMAIN receipts' -> ReceiptRows] /\ DOMAIN receipts' \subseteq Ops
      <3>1. receipts'[current.op] \in ReceiptRows
        BY <1>1, <1>2, <1>5, ReceiptsAssumption DEF ReceiptRows
      <3>. QED
        BY <1>1, <1>5, <3>1 DEF TypeOK
    <2>2. undos' \in [DOMAIN undos' -> UndoRows] /\ DOMAIN undos' \subseteq Ops
      BY <1>1 DEF TypeOK, UndoRowsKept
    <2>3. LogTypeOK'
      BY <1>2, <1>6 DEF TypeOK, LogTypeOK
    <2>. QED
      BY <1>1, <1>4, <1>6, <1>7, <2>1, <2>2, <2>3 DEF TypeOK
  <1>9. LogShape'
    <2>1. Len(activity') = revision' /\ Contiguous'
      BY <1>2, <1>4, <1>6 DEF LogShape, Contiguous, TypeOK, LogTypeOK
    <2>2. \A r \in Resources : store'[r].rev <= revision'
      BY <1>2, <1>6, <1>7 DEF LogShape, Settles, TypeOK, States
    <2>. QED
      BY <2>1, <2>2 DEF LogShape
  <1>10. StampsPast'
    BY <1>1, <1>2, <1>3, <1>4, <1>6 DEF StampsPast, TypeOK
  <1>11. ReceiptIsLastCommit'
    <2> SUFFICES ASSUME NEW op \in DOMAIN receipts'
                 PROVE  /\ Committed(op, receipts[op].rev)'
                        /\ activity'[receipts'[op].rev].req = receipts'[op].req
                        /\ receipts'[op].expires = activity'[receipts'[op].rev].at + TTL
                        /\ \A i \in DOMAIN activity' :
                              activity'[i].op = op => i <= receipts'[op].rev
      BY DEF ReceiptIsLastCommit
    <2>1. CASE op = current.op
      BY <1>2, <1>3, <1>4, <1>5, <2>1 DEF Committed
    <2>2. CASE op # current.op
      <3>1. op \in DOMAIN receipts /\ receipts'[op] = receipts[op]
        BY <1>5, <2>2
      <3>. QED
        BY <1>2, <1>3, <1>4, <2>2, <3>1 DEF ReceiptIsLastCommit, Committed
    <2>. QED
      BY <2>1, <2>2
  <1>12. ForgottenOnlyExpired'
    BY <1>2, <1>3, <1>4, <1>5, <1>6 DEF ForgottenOnlyExpired
  <1>13. AnswerPending'
    BY <1>5, <1>6 DEF AnswerPending
  <1>14. UndoRowsFollowReceipts'
    BY <1>1, <1>5, <1>6 DEF UndoRowsFollowReceipts, UndoRowsKept, UndoRowAdded
  <1>15. current.op \notin DOMAIN undos
    BY <1>1 DEF UndoRowsFollowReceipts
  <1>16. \A op \in DOMAIN undos :
            /\ undos[op].rev \in DOMAIN activity
            /\ activity[undos[op].rev].op = op
    BY DEF UndoRowsOfReceipts, UndoRowsFollowReceipts, ReceiptIsLastCommit, Committed
  <1>17. UndoRowsOfReceipts'
    <2> SUFFICES ASSUME NEW op \in DOMAIN undos'
                 PROVE  /\ undos'[op].rev = receipts'[op].rev
                        /\ activity'[undos'[op].rev].task = undos'[op].task
                        /\ activity'[undos'[op].rev].val = undos'[op].after.val
                        /\ undos'[op].after.rev <= undos'[op].rev
                        /\ undos'[op].before.rev <= undos'[op].rev
                        /\ undos'[op].task \in Tasks => undos'[op].pins = "row"
                        /\ undos'[op].task \in Links => undos'[op].before.val \in {0, 1}
      BY DEF UndoRowsOfReceipts
    <2>1. CASE op = current.op
      BY <1>2, <1>3, <1>4, <1>5, <2>1 DEF UndoRowAdded, Settles
    <2>2. CASE op # current.op
      <3>1. op \in DOMAIN undos /\ op \in DOMAIN receipts
        BY <2>2 DEF UndoRowsKept, UndoRowsFollowReceipts
      <3>. QED
        BY <1>4, <1>5, <1>16, <3>1 DEF UndoRowsOfReceipts, UndoRowsKept
    <2>. QED
      BY <2>1, <2>2
  <1>18. undoes <= revision
    BY <1>2, <1>4, <1>16 DEF Undoes
  <1>19. UndoneIsMarked'
    <2> SUFFICES ASSUME NEW j \in DOMAIN activity'
                 PROVE  /\ activity'[j].undoes < j
                        /\ activity'[j].undoes # 0 =>
                             \A op \in DOMAIN undos' :
                               undos'[op].rev = activity'[j].undoes
                                 => undos'[op].undoneBy # NoOp
      BY DEF UndoneIsMarked
    <2>1. CASE j = next
      <3>1. activity'[j].undoes = undoes
        BY <1>3, <1>4, <2>1
      <3>2. ASSUME undoes # 0, NEW op \in DOMAIN undos', undos'[op].rev = undoes
            PROVE  undos'[op].undoneBy # NoOp
        <4>1. op # current.op
          BY <1>2, <1>18, <3>2 DEF UndoRowAdded
        <4>2. op \in DOMAIN undos /\ undos[op].rev = undoes
          BY <3>2, <4>1 DEF UndoRowsKept
        <4>. QED
          BY <1>1, <1>16, <3>2, <4>2 DEF Undoes
      <3>. QED
        BY <1>2, <1>18, <2>1, <3>1, <3>2
    <2>2. CASE j # next
      <3>1. j \in DOMAIN activity /\ activity'[j] = activity[j]
        BY <1>2, <1>4, <2>2
      <3>2. activity[j].undoes < j /\ j <= revision /\ activity[j].undoes \in Nat
        BY <1>2, <1>4, <3>1, LogRows DEF UndoneIsMarked
      <3>3. ASSUME activity[j].undoes # 0, NEW op \in DOMAIN undos',
                   undos'[op].rev = activity[j].undoes
            PROVE  undos'[op].undoneBy # NoOp
        <4>1. op # current.op
          BY <1>2, <1>4, <3>2, <3>3 DEF UndoRowAdded
        <4>2. op \in DOMAIN undos /\ undos[op].rev = activity[j].undoes
          BY <3>3, <4>1 DEF UndoRowsKept
        <4>. QED
          BY <1>1, <3>1, <3>3, <4>2 DEF UndoneIsMarked, UndoRowsKept
      <3>. QED
        BY <3>1, <3>2, <3>3
    <2>. QED
      BY <2>1, <2>2
  <1>20. /\ \A i \in DOMAIN activity : Paired(i) => Paired(i)'
         /\ \A i \in DOMAIN activity : Undone(i) => Undone(i)'
         /\ undoes # 0 => Undone(undoes)'
    <2>1. \A i, h \in DOMAIN activity : TakesBack(i, h) => TakesBack(i, h)'
      BY <1>4 DEF TakesBack
    <2>2. next \in DOMAIN activity' /\ activity'[next].undoes = undoes
      BY <1>2, <1>3, <1>4
    <2>. QED
      BY <1>4, <2>1, <2>2 DEF Paired, Undone
  <1>21. UndoesItsTask'
    <2> SUFFICES ASSUME NEW j \in DOMAIN activity', activity'[j].undoes # 0
                 PROVE  activity'[activity'[j].undoes].task = activity'[j].task
      BY DEF UndoesItsTask
    <2>1. CASE j = next
      <3>1. activity'[j].undoes = undoes /\ activity'[j].task = k
        BY <1>3, <1>4, <2>1
      <3>2. undoes \in DOMAIN activity /\ activity[undoes].task = k
        BY <1>2, <1>4, <1>18, <3>1 DEF Undoes
      <3>. QED
        BY <1>4, <3>1, <3>2
    <2>2. CASE j # next
      <3>1. j \in DOMAIN activity /\ activity'[j] = activity[j]
        BY <1>2, <1>4, <2>2
      <3>2. activity[j].undoes \in DOMAIN activity
        BY <1>2, <1>4, <3>1, LogRows DEF UndoneIsMarked
      <3>. QED
        BY <1>4, <3>1, <3>2 DEF UndoesItsTask
    <2>. QED
      BY <2>1, <2>2
  <1>22. RowOutlivesPairs'
    <2> SUFFICES ASSUME NEW t \in Tasks, store'[t].val # 0,
                        NEW i \in DOMAIN activity', activity'[i].task = t,
                        i > store'[t].rev
                 PROVE  Paired(i)'
      BY DEF RowOutlivesPairs, Present
    <2>1. CASE t # k
      <3>1. t \in Resources /\ store'[t] = store[t]
        BY <1>7, <2>1 DEF Resources
      <3>2. i \in DOMAIN activity /\ activity'[i] = activity[i]
        BY <1>2, <1>3, <1>4, <2>1
      <3>. QED
        BY <1>20, <3>1, <3>2 DEF RowOutlivesPairs, Present
    <2>2. CASE t = k /\ i # next
      <3>1. i \in DOMAIN activity /\ activity'[i] = activity[i]
        BY <1>2, <1>4, <2>2
      <3>2. Paired(i) \/ (i = undoes /\ activity[i].val = 0)
        BY <1>7, <2>2, <3>1 DEF Settles
      <3>3. CASE i = undoes /\ activity[i].val = 0
        <4>1. TakesBack(next, i)'
          BY <1>3, <1>4, <3>1, <3>3 DEF TakesBack
        <4>. QED
          BY <1>2, <1>4, <4>1 DEF Paired
      <3>. QED
        BY <1>20, <3>1, <3>2, <3>3
    <2>3. CASE t = k /\ i = next
      <3>1. state.rev # next /\ state.val # 0
        BY <1>2, <1>7, <2>3 DEF States
      <3>2. undoes # 0 /\ activity[undoes].val = 0
        BY <1>2, <2>3, <3>1 DEF Settles
      <3>3. undoes \in DOMAIN activity
        BY <1>2, <1>4, <1>18, <3>2
      <3>4. TakesBack(next, undoes)'
        BY <1>3, <1>4, <3>2, <3>3 DEF TakesBack
      <3>. QED
        BY <1>4, <2>3, <3>3, <3>4 DEF Paired
    <2>. QED
      BY <2>1, <2>2, <2>3
  <1>23. OnlyLastDeletionStands'
    <2> SUFFICES ASSUME NEW i \in DOMAIN activity', activity'[i].task \in Tasks,
                        activity'[i].val = 0, ~Undone(i)'
                 PROVE  /\ store'[activity'[i].task].val = 0
                        /\ \A h \in DOMAIN activity' :
                              h > i => activity'[h].task # activity'[i].task
      BY DEF OnlyLastDeletionStands, Present
    <2>1. CASE i = next
      BY <1>2, <1>3, <1>4, <1>7, <2>1
    <2>2. CASE i # next
      <3>1. i \in DOMAIN activity /\ activity'[i] = activity[i] /\ ~Undone(i)
        BY <1>2, <1>4, <1>20, <2>2
      <3>2. activity[i].task # k
        <4> SUFFICES ASSUME activity[i].task = k PROVE FALSE
          OBVIOUS
        <4>1. i = undoes
          BY <3>1 DEF Settles
        <4>2. i # 0
          BY <1>4, <3>1
        <4>. QED
          BY <1>20, <4>1, <4>2
      <3>3. store'[activity[i].task] = store[activity[i].task]
        BY <1>7, <3>1, <3>2, LogRows
      <3>. QED
        BY <1>2, <1>3, <1>4, <3>1, <3>2, <3>3 DEF OnlyLastDeletionStands, Present
    <2>. QED
      BY <2>1, <2>2
  <1>24. TakenBackAtOnce'
    <2> SUFFICES ASSUME NEW j \in DOMAIN activity', activity'[j].undoes # 0,
                        activity'[j].task \in Tasks,
                        activity'[activity'[j].undoes].val = 0,
                        NEW i \in activity'[j].undoes + 1 .. j - 1
                 PROVE  activity'[i].task # activity'[j].task
      BY DEF TakenBackAtOnce
    <2>1. CASE j = next
      <3>1. activity'[j].undoes = undoes /\ activity'[j].task = k
        BY <1>3, <1>4, <2>1
      <3>2. /\ undoes \in DOMAIN activity
            /\ i \in undoes + 1 .. revision
            /\ i \in DOMAIN activity
        BY <1>2, <1>4, <1>18, <2>1, <3>1
      <3>3. Between(k, undoes) = {}
        BY <1>4, <3>1, <3>2 DEF Undoes
      <3>. QED
        BY <1>4, <3>1, <3>2, <3>3 DEF Between
    <2>2. CASE j # next
      <3>1. j \in DOMAIN activity /\ activity'[j] = activity[j] /\ j <= revision
        BY <1>2, <1>4, <2>2
      <3>2. activity[j].undoes \in DOMAIN activity /\ activity[j].undoes \in Nat
        BY <1>2, <1>4, <3>1, LogRows DEF UndoneIsMarked
      <3>3. i \in DOMAIN activity
        BY <1>2, <1>4, <3>1, <3>2
      <3>. QED
        BY <1>4, <3>1, <3>2, <3>3 DEF TakenBackAtOnce
    <2>. QED
      BY <2>1, <2>2
  <1>25. ClosuresOutlivePairs'
    <2> SUFFICES ASSUME NEW op \in DOMAIN undos', undos'[op].asItWas
                 PROVE  /\ undos'[op].task \in Tasks
                        /\ undos'[op].after.val = 0
                        /\ \A i \in DOMAIN activity' :
                              /\ activity'[i].task = undos'[op].task
                              /\ i > undos'[op].before.rev
                              /\ i < undos'[op].rev
                              => Paired(i)'
      BY DEF ClosuresOutlivePairs
    <2>1. CASE op = current.op
      <3>1. \A i \in DOMAIN activity' : i < next =>
               i \in DOMAIN activity /\ activity'[i] = activity[i]
        BY <1>2, <1>4
      <3>. QED
        BY <1>2, <1>20, <2>1, <3>1 DEF UndoRowAdded
    <2>2. CASE op # current.op
      <3>1. op \in DOMAIN undos
        BY <2>2 DEF UndoRowsKept
      <3>2. \A i \in DOMAIN activity' : i < undos[op].rev =>
               i \in DOMAIN activity /\ activity'[i] = activity[i]
        BY <1>2, <1>4, <1>16, <3>1
      <3>. QED
        BY <1>20, <3>1, <3>2 DEF UndoRowsKept, ClosuresOutlivePairs
    <2>. QED
      BY <2>1, <2>2
  <1>26. AtMostOncePerReceiptLife'
    <2> SUFFICES ASSUME NEW i \in DOMAIN activity', NEW j \in DOMAIN activity',
                        i < j, activity'[i].op = activity'[j].op
                 PROVE  activity'[i].at + TTL <= activity'[j].clock + 1
      BY <1>6 DEF AtMostOncePerReceiptLife
    <2>1. i \in DOMAIN activity /\ activity'[i] = activity[i]
      BY <1>2, <1>4
    <2>2. CASE j = next
      BY <1>1, <1>3, <1>4, <2>1, <2>2 DEF ForgottenOnlyExpired
    <2>3. CASE j # next
      BY <1>2, <1>4, <2>1, <2>3 DEF AtMostOncePerReceiptLife
    <2>. QED
      BY <2>2, <2>3
  <1>27. AnswerNamesItsEffect'
    BY <1>4, <1>6 DEF AnswerNamesItsEffect
  <1>28. UndoneAtMostOnce'
    <2>1. ASSUME NEW i \in DOMAIN activity, activity[i].undoes = undoes, undoes # 0
          PROVE  FALSE
      BY <2>1 DEF Undoes, UndoneIsMarked
    <2>. QED
      BY <1>2, <1>3, <1>4, <2>1 DEF UndoneAtMostOnce
  <1>29. UndoOverwritesNobody'
    <2> SUFFICES ASSUME NEW j \in DOMAIN activity', activity'[j].undoes # 0,
                        activity'[j].task \in Tasks,
                        NEW i \in activity'[j].undoes + 1 .. j - 1,
                        activity'[i].task = activity'[j].task
                 PROVE  \E h \in activity'[j].undoes + 1 .. j - 1 :
                            /\ activity'[h].task = activity'[j].task
                            /\ TakesBack(i, h)' \/ TakesBack(h, i)'
      BY DEF UndoOverwritesNobody
    <2>1. activity'[j].undoes \in Nat
      <3>1. CASE j = next
        BY <1>2, <1>3, <1>4, <3>1
      <3>2. CASE j # next
        BY <1>2, <1>4, <3>2, LogRows
      <3>. QED
        BY <3>1, <3>2
    <2>2. i \in DOMAIN activity /\ activity'[i] = activity[i]
      BY <1>2, <1>4, <2>1
    <2>3. CASE j = next
      <3>1. activity'[j].undoes = undoes /\ activity'[j].task = k
        BY <1>3, <1>4, <2>3
      <3>2. undoes + 1 .. j - 1 = undoes + 1 .. revision
        BY <1>2, <2>3
      <3>3. k \in Tasks /\ i \in Between(k, undoes)
        BY <2>2, <2>3, <3>1, <3>2 DEF Between
      <3>4. PICK h \in Between(k, undoes) : TakesBack(i, h) \/ TakesBack(h, i)
        BY <3>1, <3>3 DEF Undoes
      <3>5. /\ h \in undoes + 1 .. j - 1
            /\ h \in DOMAIN activity /\ activity'[h] = activity[h]
            /\ activity'[h].task = k
        BY <1>2, <1>4, <2>3, <3>2 DEF Between
      <3>. QED
        BY <2>2, <3>1, <3>4, <3>5 DEF TakesBack
    <2>4. CASE j # next
      <3>1. j \in DOMAIN activity /\ activity'[j] = activity[j] /\ j <= revision
        BY <1>2, <1>4, <2>4
      <3>2. \A h \in activity[j].undoes + 1 .. j - 1 :
               h \in DOMAIN activity /\ activity'[h] = activity[h]
        BY <1>2, <1>4, <2>1, <3>1
      <3>3. PICK h \in activity[j].undoes + 1 .. j - 1 :
               /\ activity[h].task = activity[j].task
               /\ TakesBack(i, h) \/ TakesBack(h, i)
        BY <2>2, <3>1 DEF UndoOverwritesNobody
      <3>. QED
        BY <2>2, <3>1, <3>2, <3>3 DEF TakesBack
    <2>. QED
      BY <2>3, <2>4
  <1>. QED
    BY <1>8, <1>9, <1>10, <1>11, <1>12, <1>13, <1>14, <1>17, <1>19, <1>21,
       <1>22, <1>23, <1>24, <1>25, <1>26, <1>27, <1>28, <1>29

LEMMA StampedState ==
    ASSUME TypeOK, NEW v \in Vals
    PROVE  /\ Stamped(v) \in States
           /\ Stamped(v).val = v
           /\ Stamped(v).rev <= revision + 1
           /\ v # 0 => Stamped(v).rev = revision + 1
  BY DEF TypeOK, LogTypeOK, Stamped, Absent, States

LEMMA InverseRow ==
    ASSUME TypeOK, LogShape, NEW k \in Resources, NEW state \in States, NEW asItWas \in BOOLEAN,
           NEW pins \in {"row", "value", "nothing"},
           k \in Links => state.val \in {0, 1}
    PROVE  /\ InverseOf(k, state, asItWas, pins) \in UndoRows
           /\ k \in Links => InverseOf(k, state, asItWas, pins).before.val \in {0, 1}
           /\ k \notin Links => InverseOf(k, state, asItWas, pins).before = store[k]
           /\ InverseOf(k, state, asItWas, pins).before.rev <= revision + 1
           /\ InverseOf(k, state, asItWas, pins).rev = revision + 1
           /\ InverseOf(k, state, asItWas, pins).after = state
           /\ InverseOf(k, state, asItWas, pins).asItWas = asItWas
           /\ InverseOf(k, state, asItWas, pins).task = k
           /\ InverseOf(k, state, asItWas, pins).pins = pins
           /\ InverseOf(k, state, asItWas, pins).undoneBy = NoOp
  <1>1. /\ store[k] \in States /\ revision \in Nat
        /\ store[k].rev \in Nat /\ store[k].rev <= revision
    BY DEF TypeOK, LogTypeOK, LogShape, States
  <1>2. k \in Links => 1 - state.val \in Vals /\ 1 - state.val \in {0, 1}
    BY ReceiptsAssumption
  <1>3. k \in Links => /\ Stamped(1 - state.val) \in States
                       /\ Stamped(1 - state.val).val \in {0, 1}
                       /\ Stamped(1 - state.val).rev <= revision + 1
    BY <1>2, StampedState
  <1>. QED
    BY <1>1, <1>3 DEF InverseOf, UndoRows

LEMMA LinkWrite ==
    ASSUME NEW req \in Requests, req.kind = "write", req.task \in Links
    PROVE  req.val \in {0, 1}
  BY ReceiptsAssumption DEF Requests, Writes, Write, Undo

\* The current request of an unrecorded command is a request of a fresh
\* operation, which has no undo row either.
LEMMA UnrecordedCommand ==
    ASSUME IInv, Unrecorded
    PROVE  /\ current \in Commands /\ current.op \in Ops /\ current.req \in Requests
           /\ current.op \notin DOMAIN undos
           /\ current.op # NoOp
  BY ReceiptsAssumption
  DEF IInv, TypeOK, Unrecorded, Recorded, Commands, UndoRowsFollowReceipts

LEMMA ApplyWritePreserves == IInv /\ ApplyWrite => IInv'
  <1> SUFFICES ASSUME IInv, ApplyWrite PROVE IInv'
    OBVIOUS
  <1> DEFINE k == current.req.task
             v == current.req.val
             closure == k \in Tasks /\ v = 0
             pins == IF k \in Links THEN "value" ELSE "row"
  <1>1. /\ Unrecorded /\ current.req.kind = "write"
        /\ Writable(k, v)
        /\ Commit(k, Stamped(v), 0)
    BY DEF ApplyWrite
  <1>2. k \in Resources /\ v \in Vals /\ (k \in Links => v \in {0, 1})
    BY <1>1, UnrecordedCommand, WriteRequest, LinkWrite
  <1>3. undos' = IF k \in Others THEN undos
                 ELSE With(undos, current.op, InverseOf(k, Stamped(v), closure, pins))
    BY DEF ApplyWrite
  <1>4. PICK state \in States : state = Stamped(v)
    BY <1>2, StampedState DEF IInv
  <1>5. /\ state.val = v /\ state.rev <= revision + 1
        /\ v # 0 => state.rev = revision + 1
        /\ Commit(k, state, 0)
    BY <1>1, <1>2, <1>4, StampedState DEF IInv
  <1>6. k \in Tasks => \A i \in DOMAIN activity :
            activity[i].task = k /\ activity[i].val = 0 => Undone(i)
    <2> SUFFICES ASSUME k \in Tasks, NEW i \in DOMAIN activity,
                        activity[i].task = k, activity[i].val = 0, ~Undone(i)
                 PROVE  FALSE
      OBVIOUS
    <2>1. Present(k)
      BY <1>1, ReceiptsAssumption DEF Writable
    <2>. QED
      BY <2>1 DEF IInv, OnlyLastDeletionStands
  <1>7. Undoes(k, 0)
    BY DEF Undoes
  <1>8. Settles(k, state, 0)
    <2>1. \A i \in DOMAIN activity : i <= revision
      BY LogRows DEF IInv, LogShape
    <2>2. state.val # 0 => \A i \in DOMAIN activity : ~(i > state.rev)
      BY <1>5, <2>1, LogRows DEF IInv, TypeOK, LogTypeOK
    <2>. QED
      BY <1>5, <1>6, <2>2 DEF Settles
  <1>9. CASE k \in Others
    <2>1. undos' = undos
      BY <1>3, <1>9
    <2>2. UndoRowsKept /\ UndoRowAdded(k, state)
      BY <1>1, <2>1, UnrecordedCommand DEF UndoRowsKept, UndoRowAdded, IInv, TypeOK
    <2>. QED
      BY <1>1, <1>2, <1>5, <1>7, <1>8, <2>2, CommitPreserves
  <1>10. CASE k \notin Others
    <2>1. undos' = With(undos, current.op, InverseOf(k, state, closure, pins))
      BY <1>3, <1>4, <1>10
    <2>2. TypeOK /\ LogShape
      BY DEF IInv
    <2>3. PICK c \in BOOLEAN, p \in {"row", "value", "nothing"} : c = closure /\ p = pins
      OBVIOUS
    <2>4. PICK added : added = InverseOf(k, state, c, p)
      OBVIOUS
    <2>5. /\ added \in UndoRows
          /\ k \in Links => added.before.val \in {0, 1}
          /\ k \notin Links => added.before = store[k]
          /\ added.rev = revision + 1
          /\ added.after = state
          /\ added.before.rev <= revision + 1
          /\ added.asItWas = c
          /\ added.task = k
          /\ added.pins = p
          /\ added.undoneBy = NoOp
      BY <1>2, <1>5, <2>2, <2>4, InverseRow
    <2>6. k \in Tasks => p = "row" /\ k \notin Links
      BY <2>3, ReceiptsAssumption
    <2>7. /\ DOMAIN undos' = DOMAIN undos \union {current.op}
          /\ \A op \in DOMAIN undos : undos'[op] = undos[op]
          /\ undos'[current.op] = added
          /\ undos' = [op \in DOMAIN undos' |-> undos'[op]]
      BY <1>1, <2>1, <2>3, <2>4, UnrecordedCommand DEF With
    <2>8. UndoRowsKept
      BY <2>2, <2>5, <2>7 DEF UndoRowsKept, TypeOK
    <2>9. UndoRowAdded(k, state)
      <3>1. ASSUME closure, NEW i \in DOMAIN activity, activity[i].task = k,
                   i > store[k].rev
            PROVE  Paired(i)
        <4>1. Present(k)
          BY <1>1, <3>1, ReceiptsAssumption DEF Writable
        <4>. QED
          BY <3>1, <4>1 DEF IInv, RowOutlivesPairs
      <3>. QED
        BY <1>5, <2>3, <2>5, <2>6, <2>7, <3>1 DEF UndoRowAdded
    <2>. QED
      BY <1>1, <1>2, <1>5, <1>7, <1>8, <2>8, <2>9, CommitPreserves
  <1>. QED
    BY <1>9, <1>10

\* An undo whose post-image holds finds the row its source wrote, and since then
\* nothing but deletions that were taken back.
LEMMA UndoFindsItsWork ==
    ASSUME IInv, NEW source \in DOMAIN undos, undos[source].undoneBy = NoOp,
           undos[source].task \in Tasks, PostImageHolds(undos[source])
    PROVE  LET k == undos[source].task
               u == undos[source].rev
           IN /\ u \in DOMAIN activity /\ activity[u].task = k /\ ~Undone(u)
              /\ activity[u].val = undos[source].after.val
              /\ \A i \in DOMAIN activity :
                    activity[i].task = k /\ activity[i].val = 0 /\ ~Undone(i) => i = u
              /\ \A i \in Between(k, u) : \E h \in Between(k, u) :
                    TakesBack(i, h) \/ TakesBack(h, i)
              /\ activity[u].val = 0 => Between(k, u) = {}
  <1> USE DEF IInv
  <1> DEFINE k == undos[source].task
             u == undos[source].rev
             after == undos[source].after
  <1>1. /\ u \in DOMAIN activity /\ activity[u].task = k
        /\ activity[u].val = after.val
        /\ after.rev <= u /\ after.rev \in Nat /\ u \in Nat
        /\ undos[source].pins = "row"
    BY DEF TypeOK, UndoRows, States, UndoRowsOfReceipts, UndoRowsFollowReceipts,
           ReceiptIsLastCommit, Committed
  <1>2. store[k] = after
    BY <1>1 DEF PostImageHolds
  <1>3. ~Undone(u)
    <2> SUFFICES ASSUME NEW h \in DOMAIN activity, activity[h].undoes = u PROVE FALSE
      BY DEF Undone
    <2>1. u # 0
      BY <1>1, LogRows
    <2>. QED
      BY <2>1 DEF UndoneIsMarked
  <1>4. /\ DOMAIN activity = 1 .. revision /\ revision \in Nat
        /\ Between(k, u) \subseteq DOMAIN activity
    BY <1>1, LogRows DEF LogShape, TypeOK, LogTypeOK, Between
  <1>5. CASE after.val = 0
    <2>1. \A h \in DOMAIN activity : h > u => activity[h].task # k
      BY <1>1, <1>3, <1>5 DEF OnlyLastDeletionStands
    <2>2. Between(k, u) = {}
      BY <1>1, <1>4, <2>1 DEF Between
    <2>3. ASSUME NEW i \in DOMAIN activity, activity[i].task = k,
                 activity[i].val = 0, ~Undone(i)
          PROVE  i = u
      <3>1. ~(i > u) /\ ~(u > i)
        BY <1>1, <2>1, <2>3 DEF OnlyLastDeletionStands
      <3>. QED
        BY <1>1, <1>4, <3>1
    <2>. QED
      BY <1>1, <1>3, <2>2, <2>3
  <1>6. CASE after.val # 0
    <2>1. Present(k)
      BY <1>2, <1>6 DEF Present
    <2>2. ASSUME NEW i \in DOMAIN activity, activity[i].task = k,
                 activity[i].val = 0, ~Undone(i)
          PROVE  i = u
      BY <2>1, <2>2 DEF OnlyLastDeletionStands
    <2>3. ASSUME NEW i \in Between(k, u)
          PROVE  \E h \in Between(k, u) : TakesBack(i, h) \/ TakesBack(h, i)
      <3>1. i \in DOMAIN activity /\ activity[i].task = k /\ i > u /\ i > after.rev
            /\ i \in Nat
        BY <1>1, <1>4 DEF Between
      <3>2. PICK h \in DOMAIN activity : TakesBack(i, h) \/ TakesBack(h, i)
        BY <1>2, <2>1, <3>1 DEF RowOutlivesPairs, Paired
      <3>3. h \in Nat /\ h # 0
        BY <1>4
      <3>4. CASE TakesBack(i, h)
        <4>1. activity[i].undoes = h /\ activity[h].val = 0 /\ activity[h].task = k
          BY <3>1, <3>3, <3>4 DEF TakesBack, UndoesItsTask
        <4>2. h # u
          BY <1>3, <3>1, <4>1 DEF Undone
        <4>3. ~(h < u)
          <5> SUFFICES ASSUME h < u PROVE FALSE
            OBVIOUS
          <5>1. u \in h + 1 .. i - 1
            BY <1>1, <3>1, <3>3
          <5>. QED
            BY <1>1, <3>1, <3>3, <4>1, <5>1 DEF TakenBackAtOnce
        <4>4. h \in Between(k, u)
          BY <1>1, <1>4, <3>3, <4>1, <4>2, <4>3 DEF Between
        <4>. QED
          BY <3>4, <4>4
      <3>5. CASE TakesBack(h, i)
        <4>1. activity[h].undoes = i /\ i # 0
          BY <1>4, <3>1, <3>5 DEF TakesBack
        <4>2. activity[h].task = k /\ i < h
          BY <3>1, <4>1 DEF UndoesItsTask, UndoneIsMarked
        <4>3. h \in Between(k, u)
          BY <1>1, <1>4, <3>1, <3>3, <4>2 DEF Between
        <4>. QED
          BY <3>5, <4>3
      <3>. QED
        BY <3>2, <3>4, <3>5
    <2>. QED
      BY <1>1, <1>3, <1>6, <2>2, <2>3
  <1>. QED
    BY <1>1, <1>5, <1>6

LEMMA ApplyUndoPreserves == IInv /\ ApplyUndo => IInv'
  <1> SUFFICES ASSUME IInv, ApplyUndo PROVE IInv'
    OBVIOUS
  <1> DEFINE source == current.req.source
             old == undos[source]
             k == old.task
             pins == IF k \in Links THEN "nothing" ELSE "row"
  <1>1. /\ Unrecorded
        /\ source \in DOMAIN undos
        /\ old.undoneBy = NoOp
        /\ PostImageHolds(old)
        /\ Commit(k, Restored(old), old.rev)
        /\ undos' = With(MarkUndone(undos, source, current.op), current.op,
                         InverseOf(k, Restored(old), FALSE, pins))
    BY DEF ApplyUndo
  <1>2. /\ TypeOK /\ LogShape /\ old \in UndoRows
        /\ k \in Resources /\ old.before \in States /\ old.rev \in Nat
        /\ old.before.val \in Vals /\ old.before.rev \in Nat
    BY <1>1 DEF IInv, TypeOK, UndoRows, States
  <1>3. /\ old.rev \in DOMAIN activity /\ activity[old.rev].task = k
        /\ DOMAIN activity = 1 .. revision /\ revision \in Nat
    BY <1>1, LogRows
    DEF IInv, LogShape, TypeOK, LogTypeOK, UndoRowsOfReceipts, UndoRowsFollowReceipts,
        ReceiptIsLastCommit, Committed
  <1>4. PICK state \in States : state = Restored(old)
    BY <1>2, StampedState DEF Restored
  <1>5. /\ state.val = old.before.val
        /\ old.asItWas => state = old.before
        /\ ~old.asItWas =>
              /\ state.rev <= revision + 1
              /\ state.val # 0 => state.rev = revision + 1
    BY <1>2, <1>4, StampedState DEF Restored
  <1>6. k \in Links => state.val \in {0, 1}
    BY <1>1, <1>5 DEF IInv, UndoRowsOfReceipts
  <1>7. PICK p \in {"row", "value", "nothing"}, no \in BOOLEAN : p = pins /\ no = FALSE
    OBVIOUS
  <1>8. PICK added : added = InverseOf(k, state, no, p)
    OBVIOUS
  <1>9. /\ added \in UndoRows
        /\ k \in Links => added.before.val \in {0, 1}
        /\ added.rev = revision + 1
        /\ added.after = state
        /\ added.before.rev <= revision + 1
        /\ added.asItWas = no
        /\ added.task = k
        /\ added.pins = p
        /\ added.undoneBy = NoOp
    BY <1>2, <1>6, <1>8, InverseRow
  <1>10. k \in Tasks => p = "row"
    BY <1>7, ReceiptsAssumption
  <1>11. current.op \in Ops /\ current.op \notin DOMAIN undos /\ source # current.op
    BY <1>1, UnrecordedCommand
  <1>12. /\ DOMAIN undos' = DOMAIN undos \union {current.op}
         /\ \A op \in DOMAIN undos : op # source => undos'[op] = undos[op]
         /\ undos'[source] = [old EXCEPT !.undoneBy = current.op]
         /\ undos'[current.op] = added
         /\ undos' = [op \in DOMAIN undos' |-> undos'[op]]
    BY <1>1, <1>2, <1>4, <1>7, <1>8, <1>11 DEF With, MarkUndone, TypeOK
  <1>13. /\ undos'[source] \in UndoRows
         /\ undos'[source].undoneBy = current.op
         /\ undos'[source].rev = old.rev
         /\ undos'[source].task = old.task
         /\ undos'[source].pins = old.pins
         /\ undos'[source].after = old.after
         /\ undos'[source].before = old.before
         /\ undos'[source].asItWas = old.asItWas
    BY <1>2, <1>11, <1>12 DEF UndoRows
  <1>14. UndoRowsKept
    <2>1. undos' \in [DOMAIN undos' -> UndoRows]
      BY <1>2, <1>9, <1>12, <1>13 DEF TypeOK
    <2>. QED
      BY <1>12, <1>13, <2>1 DEF UndoRowsKept
  <1>15. UndoRowAdded(k, state)
    BY <1>7, <1>9, <1>10, <1>12 DEF UndoRowAdded
  <1>16. Undoes(k, old.rev)
    <2>1. k \in Tasks =>
            /\ \A i \in Between(k, old.rev) : \E h \in Between(k, old.rev) :
                  TakesBack(i, h) \/ TakesBack(h, i)
            /\ activity[old.rev].val = 0 => Between(k, old.rev) = {}
      BY <1>1, UndoFindsItsWork
    <2>. QED
      BY <1>1, <1>3, <1>13, <2>1 DEF Undoes
  <1>17. Settles(k, state, old.rev)
    <2>1. k \in Tasks => \A i \in DOMAIN activity :
            activity[i].task = k /\ activity[i].val = 0 /\ ~Undone(i) => i = old.rev
      BY <1>1, UndoFindsItsWork
    <2>2. CASE ~old.asItWas
      <3>1. state.val # 0 => \A i \in DOMAIN activity : ~(i > state.rev)
        BY <1>3, <1>5, <2>2
      <3>. QED
        BY <1>5, <2>1, <2>2, <3>1 DEF Settles
    <2>3. CASE old.asItWas
      <3>1. /\ k \in Tasks /\ old.after.val = 0
            /\ \A i \in DOMAIN activity :
                  activity[i].task = k /\ i > old.before.rev /\ i < old.rev => Paired(i)
        BY <1>1, <2>3 DEF IInv, ClosuresOutlivePairs
      <3>2. activity[old.rev].val = 0 /\ Between(k, old.rev) = {}
        BY <1>1, <3>1, UndoFindsItsWork
      <3>3. \A i \in DOMAIN activity : activity[i].task = k => i <= old.rev
        BY <1>2, <1>3, <3>2 DEF Between
      <3>4. \A i \in DOMAIN activity : activity[i].task = k /\ i > state.rev =>
               Paired(i) \/ (i = old.rev /\ activity[i].val = 0)
        BY <1>2, <1>3, <1>5, <2>3, <3>1, <3>2, <3>3
      <3>5. state.rev <= revision + 1
        BY <1>1, <1>2, <1>3, <1>5, <2>3 DEF IInv, UndoRowsOfReceipts
      <3>6. old.rev # 0
        BY <1>3
      <3>. QED
        BY <2>1, <3>2, <3>4, <3>5, <3>6 DEF Settles
    <2>. QED
      BY <1>2, <2>2, <2>3 DEF UndoRows
  <1>. QED
    BY <1>1, <1>2, <1>4, <1>14, <1>15, <1>16, <1>17, CommitPreserves

-----------------------------------------------------------------------------
(***************************************************************************)
(* The theorems.                                                          *)
(***************************************************************************)

LEMMA StepPreserves == IInv /\ [Next]_vars => IInv'
  <1> SUFFICES ASSUME IInv, [Next]_vars PROVE IInv'
    OBVIOUS
  <1>1. CASE Next
    BY <1>1, TickPreserves, SubmitPreserves, CleanPreserves, ReplayPreserves,
       GiveUpPreserves, ApplyWritePreserves, ApplyUndoPreserves, PrunePreserves,
       AnswerPreserves
    DEF Next
  <1>2. CASE UNCHANGED vars
    <2>1. TypeOK'
      BY <1>2 DEF vars, IInv, TypeOK, LogTypeOK
    <2>2. Quiet /\ clock <= clock'
      BY <1>2 DEF vars, Quiet, IInv, TypeOK
    <2>3. Contiguous' /\ StampsPast' /\ AnswerPending' /\ AnswerNamesItsEffect'
      BY <1>2 DEF vars, IInv, LogShape, Contiguous, StampsPast, AnswerPending,
                  AnswerNamesItsEffect
    <2>. QED
      BY <2>1, <2>2, <2>3, QuietPreserves
  <1>. QED
    BY <1>1, <1>2

\* Everything IInv says holds in every reachable state.
THEOREM Invariance == Spec => []IInv
  <1>1. Init => IInv
    BY InitEstablishes
  <1>2. IInv /\ [Next]_vars => IInv'
    BY StepPreserves
  <1>. QED
    BY <1>1, <1>2, PTL DEF Spec

\* The state of the mutation transaction is well-formed.
THEOREM TypeCorrect == Spec => []TypeOK
  <1>1. IInv => TypeOK
    BY DEF IInv
  <1>. QED
    BY <1>1, Invariance, PTL

\* An operation is applied again only after its receipt has run out.
THEOREM AtMostOnce == Spec => []AtMostOncePerReceiptLife
  <1>1. IInv => AtMostOncePerReceiptLife
    BY DEF IInv
  <1>. QED
    BY <1>1, Invariance, PTL

\* A successful answer is about a commit of exactly that operation and request.
THEOREM AnswersAreTrue == Spec => []AnswerNamesItsEffect
  <1>1. IInv => AnswerNamesItsEffect
    BY DEF IInv
  <1>. QED
    BY <1>1, Invariance, PTL

\* No commit is undone twice, whatever is retried, replayed or crashes in between.
THEOREM UndoneOnce == Spec => []UndoneAtMostOnce
  <1>1. IInv => UndoneAtMostOnce
    BY DEF IInv
  <1>. QED
    BY <1>1, Invariance, PTL

\* No undo loses what was written to its task since: it passes over nothing but
\* deletions and the undos that took them back.
THEOREM UndoIsSafe == Spec => []UndoOverwritesNobody
  <1>1. IInv => UndoOverwritesNobody
    BY DEF IInv
  <1>. QED
    BY <1>1, Invariance, PTL

\* The foreign keys of operation_undo never stop a cleanup.
THEOREM CleanupNeverBlocked == Spec => []UndoRowsFollowReceipts
  <1>1. IInv => UndoRowsFollowReceipts
    BY DEF IInv
  <1>. QED
    BY <1>1, Invariance, PTL

\* A catch-up page never skips a revision.
THEOREM CatchUpIsGapFree == Spec => []CatchUpGapFree
  <1>1. IInv => CatchUpGapFree
    <2> SUFFICES ASSUME IInv, NEW since \in 0 .. revision,
                        ~ResyncRequired(since),
                        NEW page \in Pages(since), NEW r \in page,
                        NEW s \in since + 1 .. r
                 PROVE  s \in page
      BY DEF CatchUpGapFree
    <2>1. events \subseteq 1 .. revision /\ revision \in Nat
      BY DEF IInv, TypeOK, LogTypeOK
    <2>2. After(since) # {}
      BY DEF Pages
    <2>3. PICK last \in After(since) : page = {t \in After(since) : t <= last}
      BY <2>2 DEF Pages
    <2>4. r \in events /\ r > since /\ r <= last
      BY <2>3 DEF After
    <2>5. PICK oldest \in events : oldest <= since + 1
      BY <2>1, <2>4 DEF ResyncRequired
    <2>6. s \in events
      BY <2>1, <2>4, <2>5 DEF IInv, LogShape, Contiguous
    <2>. QED
      BY <2>1, <2>3, <2>4, <2>6 DEF After
  <1>. QED
    BY <1>1, Invariance, PTL

\* The mutation transaction implements the abstract event log.
THEOREM LogRefinement == Spec => ImplementsEventLog
  <1>1. Init => LogInit
    BY DEF Init
  <1>2. [Next]_vars => [LogNext]_logVars
    BY DEF Next, vars, LogNext, logVars, Tick, Submit, Clean, Replay, Mismatch,
           Refuse, ApplyWrite, ApplyUndo, Commit, Prune, Victim, DropOldest,
           Answer, Crash, Finish
  <1>. QED
    BY <1>1, <1>2, PTL DEF Spec, LogSpec, ImplementsEventLog
=============================================================================
