------------------------------- MODULE Profile -------------------------------
(***************************************************************************)
(* A profile directory and the server processes that want it: the lock, the *)
(* schema migrations with their backup, the bearer token, the file that      *)
(* advertises the server, and the way down.  A process may fail or be killed *)
(* between any two steps; a migration is one transaction, so a step of the   *)
(* schema happens whole or not at all, while files keep what was written.    *)
(*                                                                         *)
(* The data a migration changes is that of one task: its row, the log of its *)
(* cancellations and the snapshots its undo entries hold.  A row carries in  *)
(* since, beside the columns, the instant it was cancelled at.              *)
(***************************************************************************)
EXTENDS Integers, FiniteSets, SequencesExt

CONSTANTS None,
          Processes,
          Origins,      \* the databases a profile may begin with
          OldBackups,   \* the sets of backups that may lie there
          Retain,       \* backups kept by a successful migration
          MaxClock, MaxFaults, MaxStarts   \* bounds of the model

ASSUME ProfileAssumption ==
    /\ None \notin Processes \union Nat
    /\ Retain \in Nat \ {0}
    /\ {MaxClock, MaxFaults, MaxStarts} \subseteq Nat

\* a version this program knows or the next one, and backups older than now
ASSUME ProfileOriginAssumption ==
    /\ \A o \in Origins :
          /\ o = [version |-> o.version, data |-> o.data, ragged |-> o.ragged]
          /\ o.version \in 0..5 /\ o.ragged \in BOOLEAN
    /\ \A old \in OldBackups :
          /\ Cardinality(old) \in 0..MaxClock
          /\ \A b \in old : b.stamp \in 0..Cardinality(old) - 1 /\ b.whole \in BOOLEAN

VARIABLES origin,     \* the database at the beginning
          db,         \* [version, data, ragged]
          backups,    \* files: [stamp, whole, data]
          lock,       \* the process that holds profile.lock
          token,      \* what the token file holds
          runtime,    \* the process the runtime file names
          process,    \* [pc, starting, backup, token] of each process
          clock, faults, starts

files == <<backups, token, runtime>>
limits == <<clock, faults, starts>>
vars == <<origin, db, files, lock, process, limits>>

Current == 4
Out == [pc |-> "out", starting |-> None, backup |-> None, token |-> None]
At(p, pc) == process[p].pc = pc
Goto(p, pc) == process' = [process EXCEPT ![p].pc = pc]

-----------------------------------------------------------------------------
(* What the fourth version adds: the instant a cancelled task was cancelled *)

CancelledBy_BadLatest(data, revision) ==
    IF data.activity = <<>> THEN None ELSE data.activity[Len(data.activity)].at

\* the latest recorded cancellation no newer than a revision
CancelledBy(data, revision) ==
    LET known == {i \in DOMAIN data.activity : data.activity[i].revision <= revision}
    IN  IF known = {} THEN None ELSE data.activity[Max(known)].at

OrElse(at, fallback) == IF at = None THEN fallback ELSE at

\* a snapshot of a cancelled task, taken before the column existed
Reconciled(data, task) ==
    IF task.status # "cancelled" \/ task.cancelledAt # None THEN task
    ELSE [task EXCEPT !.cancelledAt = OrElse(CancelledBy(data, task.revision), task.updated)]

ApplyV4(data) ==
    [data EXCEPT
        !.task = IF @.status # "cancelled" THEN @
                 ELSE [@ EXCEPT !.cancelledAt =
                          IF data.activity = <<>> THEN data.task.updated
                          ELSE data.activity[Len(data.activity)].at],
        !.undos = [i \in DOMAIN @ |->
                      [before |-> Reconciled(data, @[i].before),
                       after  |-> Reconciled(data, @[i].after)]]]

-----------------------------------------------------------------------------
(* Opening the profile                                                     *)

\* FileExt::try_lock: held by another, the process gives up
Start(p) ==
    /\ At(p, "out") /\ starts < MaxStarts
    /\ starts' = starts + 1
    /\ IF lock = None
       THEN lock' = p /\ Goto(p, "opening")
       ELSE UNCHANGED <<lock, process>>
    /\ UNCHANGED <<origin, db, files, clock, faults>>

\* a failed start drops what it holds: the storage thread has returned and
\* closed the database before the lock goes
Quit(p) == process' = [process EXCEPT ![p] = [Out EXCEPT !.pc = "unlocking"]]

\* a newer profile is left alone
Open(p) ==
    /\ At(p, "opening")
    /\ IF db.version > Current THEN Quit(p)
       ELSE process' = [process EXCEPT ![p].pc = "migrating", ![p].starting = db.version]
    /\ UNCHANGED <<origin, db, files, lock, limits>>

Version(n) == db' = [db EXCEPT !.version = n]

ApplyEarly(p) ==
    /\ At(p, "migrating") /\ db.version < 2
    /\ Version(db.version + 1)
    /\ UNCHANGED <<origin, files, lock, process, limits>>

\* only a profile that was opened at the second version is backed up; a
\* leftover of the same instant is removed, and the copy begins
BeginBackup(p) ==
    /\ At(p, "migrating") /\ db.version = 2
    /\ process[p].starting = 2 /\ process[p].backup = None
    /\ backups' = {b \in backups : b.stamp # clock}
                  \union {[stamp |-> clock, whole |-> FALSE, data |-> None]}
    /\ process' = [process EXCEPT ![p].pc = "copying", ![p].backup = clock]
    /\ UNCHANGED <<origin, db, token, runtime, lock, limits>>

Own(p) == {b \in backups : b.stamp = process[p].backup}

\* the copy is complete and has been verified
FinishBackup(p) ==
    /\ At(p, "copying")
    /\ backups' = (backups \ Own(p))
                  \union {[stamp |-> process[p].backup, whole |-> TRUE, data |-> db.data]}
    /\ Goto(p, "migrating")
    /\ UNCHANGED <<origin, db, token, runtime, lock, limits>>

\* a copy that fails is removed and the start given up
FailBackup(p) ==
    /\ At(p, "copying") /\ faults < MaxFaults
    /\ backups' = backups \ Own(p)
    /\ Quit(p)
    /\ faults' = faults + 1
    /\ UNCHANGED <<origin, db, token, runtime, lock, clock, starts>>

ApplyThird(p) ==
    /\ At(p, "migrating") /\ db.version = 2
    /\ process[p].starting = 2 => process[p].backup # None
    /\ Version(3)
    /\ UNCHANGED <<origin, files, lock, process, limits>>

ApplyFourth(p) ==
    /\ At(p, "migrating") /\ db.version = 3
    /\ db' = [db EXCEPT !.version = 4, !.data = ApplyV4(@)]
    /\ UNCHANGED <<origin, files, lock, process, limits>>

\* finalize_successful_v2_to_v3, if this start has made a backup
Finalize(p) ==
    /\ At(p, "migrating") /\ db.version = Current
    /\ Goto(p, IF process[p].backup = None THEN "normalising" ELSE "pruning")
    /\ UNCHANGED <<origin, db, files, lock, limits>>

Newer(b) == {other \in backups : other.stamp > b.stamp}
Older(b) == {other \in backups : other.stamp < b.stamp}

Stale_BadOldestKept == {b \in backups : Cardinality(Older(b)) >= Retain}

\* newest first by name, whole or not
Stale == {b \in backups : Cardinality(Newer(b)) >= Retain}

\* one file is removed after the other
Prune(p) ==
    /\ At(p, "pruning")
    /\ IF Stale = {}
       THEN Goto(p, "normalising") /\ UNCHANGED backups
       ELSE /\ \E b \in Stale : backups' = backups \ {b}
            /\ UNCHANGED process
    /\ UNCHANGED <<origin, db, token, runtime, lock, limits>>

\* every start rewrites the reminders' instants to one width
Normalise(p) ==
    /\ At(p, "normalising")
    /\ db' = [db EXCEPT !.ragged = FALSE]
    /\ Goto(p, "opened")
    /\ UNCHANGED <<origin, files, lock, limits>>

-----------------------------------------------------------------------------
(* main, once it owns the profile                                          *)

\* a token of full length is kept, anything else replaced; either is written
\* again, and the write begins by emptying the file
LoadToken(p) ==
    /\ At(p, "opened")
    /\ process' = [process EXCEPT ![p].pc = "writing",
                                  ![p].token = IF token = None THEN starts ELSE token]
    /\ token' = None
    /\ UNCHANGED <<origin, db, backups, runtime, lock, limits>>

WriteToken(p) ==
    /\ At(p, "writing")
    /\ token' = process[p].token
    /\ Goto(p, "bound")
    /\ UNCHANGED <<origin, db, backups, runtime, lock, limits>>

\* RuntimeMetadataFile::create, then axum::serve
Advertise(p) ==
    /\ At(p, "bound")
    /\ runtime' = p
    /\ Goto(p, "serving")
    /\ UNCHANGED <<origin, db, backups, token, lock, limits>>

\* the requests are drained and the coordinator joined (module Server)
Stop(p) ==
    /\ At(p, "serving")
    /\ Goto(p, "stopped")
    /\ UNCHANGED <<origin, db, files, lock, limits>>

\* drop(runtime_metadata) removes the file whatever it says
Withdraw(p) ==
    /\ At(p, "stopped")
    /\ runtime' = None
    /\ Goto(p, "closing")
    /\ UNCHANGED <<origin, db, backups, token, lock, limits>>

JoinWorker_BadUnlocked(p) ==
    /\ \/ At(p, "closing") /\ lock = p /\ lock' = None /\ UNCHANGED process
       \/ At(p, "closing") /\ lock # p /\ Goto(p, "out") /\ UNCHANGED lock
    /\ UNCHANGED <<origin, db, files, limits>>

\* Drop of Worker: the sender goes, the thread ends its queue and is joined
JoinWorker(p) ==
    /\ At(p, "closing")
    /\ Quit(p)
    /\ UNCHANGED <<origin, db, files, lock, limits>>

\* and only then do its fields go, the lock among them
Unlock(p) ==
    /\ At(p, "unlocking")
    /\ lock' = None
    /\ process' = [process EXCEPT ![p] = Out]
    /\ UNCHANGED <<origin, db, files, limits>>

\* an error on the way up: a transaction rolls back, a file is left as it is
Fail(p) ==
    /\ process[p].pc \in {"opening", "migrating", "pruning", "normalising", "opened",
                          "writing", "bound"}
    /\ faults < MaxFaults
    /\ faults' = faults + 1
    /\ Quit(p)
    /\ UNCHANGED <<origin, db, files, lock, clock, starts>>

\* the system releases the lock of a process that is killed
Crash(p) ==
    /\ ~At(p, "out") /\ faults < MaxFaults
    /\ faults' = faults + 1
    /\ lock' = IF lock = p THEN None ELSE lock
    /\ process' = [process EXCEPT ![p] = Out]
    /\ UNCHANGED <<origin, db, files, clock, starts>>

Tick ==
    /\ clock < MaxClock
    /\ clock' = clock + 1
    /\ UNCHANGED <<origin, db, files, lock, process, faults, starts>>

-----------------------------------------------------------------------------
Init ==
    /\ origin \in Origins /\ db = origin
    /\ backups \in OldBackups
    /\ lock = None /\ token = None /\ runtime = None
    /\ process = [p \in Processes |-> Out]
    /\ clock = Cardinality(backups) /\ faults = 0 /\ starts = 0

Migrate(p) ==
    \/ ApplyEarly(p) \/ BeginBackup(p) \/ FinishBackup(p) \/ FailBackup(p)
    \/ ApplyThird(p) \/ ApplyFourth(p) \/ Finalize(p) \/ Prune(p) \/ Normalise(p)

Next ==
    \/ Tick
    \/ \E p \in Processes :
          \/ Start(p) \/ Open(p) \/ Migrate(p) \/ LoadToken(p) \/ WriteToken(p) \/ Advertise(p)
          \/ Stop(p) \/ Withdraw(p) \/ JoinWorker(p) \/ Unlock(p) \/ Fail(p) \/ Crash(p)

Spec == Init /\ [][Next]_vars

-----------------------------------------------------------------------------
TypeOK ==
    /\ db.version \in 0..Current + 1 /\ db.ragged \in BOOLEAN
    /\ lock \in Processes \union {None} /\ runtime \in Processes \union {None}
    /\ token \in 1..MaxStarts \union {None}
    /\ \A b \in backups : b.stamp \in 0..MaxClock /\ b.whole \in BOOLEAN

\* The profile has one server.  No second process has the database open, not even
\* while the last one is on its way down; and the process that serves is the one
\* the runtime file names, with the token that is in the token file, on a database
\* of the current version with reminders in the text the queries compare.
Connected(p) == process[p].pc \notin {"out", "unlocking"}
ServedBy(p) ==
    /\ lock = p /\ runtime = p
    /\ token # None /\ token = process[p].token
    /\ db.version = Current /\ ~db.ragged
OneSoundServer ==
    /\ TypeOK
    /\ \A p, q \in Processes : (Connected(p) /\ Connected(q)) => p = q
    /\ \A p \in Processes : At(p, "serving") => ServedBy(p)

\* The migration gives every cancelled row, live or held by an undo entry, the
\* instant of the cancellation that row stands in, and leaves the newest change
\* as undoable as it was ("the exact transition represented by the snapshot").
Dated(task) == task.cancelledAt = IF task.status = "cancelled" THEN task.since ELSE None
AllDated(data) ==
    /\ Dated(data.task)
    /\ \A i \in DOMAIN data.undos : Dated(data.undos[i].before) /\ Dated(data.undos[i].after)
    /\ data.undos # <<>> => data.undos[Len(data.undos)].after = data.task
CancellationsKeepTheirTime == db.version = Current => AllDated(db.data)

\* A row of the third version: it has no column for the instant yet, and stands in
\* the last cancellation logged up to its revision, or in one that was not logged.
RowFields == {"status", "revision", "updated", "cancelledAt", "since"}
Logged(log, row) ==
    /\ DOMAIN row = RowFields /\ row.revision \in Nat /\ row.cancelledAt = None
    /\ row.status = "cancelled" =>
          \/ \E i \in DOMAIN log :
                /\ log[i].revision <= row.revision /\ row.since = log[i].at
                /\ \A j \in DOMAIN log : j > i => log[j].revision > row.revision
          \/ row.since = row.updated /\ \A j \in DOMAIN log : log[j].revision > row.revision

\* No snapshot is newer than the row, and the newest change left it as it is.
LoggedHistory(data) ==
    LET log == data.activity
        undos == data.undos
    IN  /\ data = [task |-> data.task, activity |-> log, undos |-> undos]
        /\ log \in Seq([revision : 0..data.task.revision, at : Nat])
        /\ undos = [i \in 1..Len(undos) |-> [before |-> undos[i].before, after |-> undos[i].after]]
        /\ Len(undos) \in Nat
        /\ Logged(log, data.task)
        /\ \A i \in DOMAIN undos : Logged(log, undos[i].before) /\ Logged(log, undos[i].after)
        /\ undos # <<>> => undos[Len(undos)].after = data.task

\* What earlier versions of the program, and this one, leave in a database.
ASSUME ProfileHistoryAssumption ==
    \A o \in Origins : /\ o.version < Current => LoggedHistory(o.data)
                       /\ o.version = Current => AllDated(o.data)

\* A profile that was at the second version does not leave it without a whole
\* copy of itself on disk, whatever fails, is retried or is pruned afterwards.
BackedUpBeforeLeaving ==
    (origin.version = 2 /\ db.version > 2) =>
        \E b \in backups : b.whole /\ b.data = origin.data
=============================================================================
