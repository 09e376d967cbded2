---------------------------- MODULE ProfileProofs ----------------------------
(***************************************************************************)
(* Proofs about Profile, for any number of processes, faults and starts.   *)
(*                                                                         *)
(* A process that is not out holds the lock, so all others are out and     *)
(* only its own progress has to be followed: Standing says what each stage *)
(* of a start has established.  SafeCopy is the part about the backup: the *)
(* copy that this start has made is newer than every other file, so that   *)
(* pruning, which counts newer files, never reaches it.                    *)
(***************************************************************************)
EXTENDS Profile, FiniteSetTheorems, TLAPS

Stages == {"out", "opening", "migrating", "copying", "pruning", "normalising", "opened",
           "writing", "bound", "serving", "stopped", "closing", "unlocking"}
ProcessStates == [pc       : Stages,
                  starting : 0..Current \union {None},
                  backup   : 0..MaxClock \union {None},
                  token    : 1..MaxStarts \union {None}]

Typed ==
    /\ TypeOK
    /\ db = [version |-> db.version, data |-> db.data, ragged |-> db.ragged]
    /\ process \in [Processes -> ProcessStates]
    /\ clock \in 0..MaxClock /\ faults \in Nat /\ starts \in 0..MaxStarts

\* Whoever is inside holds the lock, and was started.
LockHeld == \A p \in Processes : ~At(p, "out") => lock = p /\ starts >= 1

\* What a start has established when it has come to a stage.
Upgraded == {"pruning", "normalising", "opened", "writing", "bound", "serving"}
Standing(p) ==
    /\ process[p].pc \in {"migrating", "copying"} =>
          /\ process[p].starting \in 0..db.version
          /\ origin.version = 2 => process[p].starting >= 2
    /\ process[p].pc \in Upgraded => db.version = Current
    /\ process[p].pc \in {"opened", "writing", "bound", "serving"} => ~db.ragged
    /\ process[p].pc \in {"writing", "bound", "serving"} => process[p].token # None
    /\ process[p].pc \in {"bound", "serving"} => token = process[p].token
    /\ process[p].pc = "serving" => runtime = p

\* The copy this start has begun, or made, is the newest file.
SafeCopy(p) ==
    /\ process[p].pc \in {"out", "opening", "unlocking"} => process[p].backup = None
    /\ process[p].pc = "copying" => db.version = 2 /\ process[p].backup <= clock
    /\ process[p].pc \in {"copying", "pruning"} => process[p].backup # None
    /\ (process[p].pc \in {"migrating", "copying", "pruning"} /\ process[p].backup # None) =>
          \A b \in backups : b.stamp <= process[p].backup
    /\ (/\ process[p].pc \in {"migrating", "pruning"} /\ process[p].backup # None
        /\ origin.version = 2) =>
          \E b \in backups : b.stamp = process[p].backup /\ b.whole /\ b.data = origin.data

\* Until the second version is left nothing changes its data.
DataKept ==
    origin.version = 2 => db.version >= 2 /\ (db.version = 2 => db.data = origin.data)

StampsPast == \A b \in backups : b.stamp <= clock

IInv ==
    /\ Typed
    /\ LockHeld
    /\ \A p \in Processes : Standing(p) /\ SafeCopy(p)
    /\ DataKept
    /\ StampsPast
    /\ BackedUpBeforeLeaving

-----------------------------------------------------------------------------
(***************************************************************************)
(* One process is inside.                                                  *)
(***************************************************************************)

LEMMA OthersAreOut ==
    ASSUME IInv, NEW p \in Processes, ~At(p, "out"), NEW q \in Processes, q # p
    PROVE  At(q, "out")
  BY DEF IInv, LockHeld

\* A process that is out has nothing to show.
LEMMA OutStands ==
    ASSUME NEW q \in Processes, process[q].backup = None,
           process[q].pc \in {"out", "opening", "unlocking"}
    PROVE  Standing(q) /\ SafeCopy(q)
  BY DEF Standing, SafeCopy, Upgraded

\* A step of the process that is inside is judged by that process alone.
LEMMA InsideStep ==
    ASSUME IInv, NEW p \in Processes, ~At(p, "out"),
           \A q \in Processes : q # p => process'[q] = process[q],
           Typed', lock' = lock, starts' = starts,
           Standing(p)', SafeCopy(p)', DataKept', StampsPast', BackedUpBeforeLeaving'
    PROVE  IInv'
  <1>1. LockHeld'
    BY OthersAreOut DEF IInv, LockHeld, At
  <1>2. ASSUME NEW q \in Processes PROVE Standing(q)' /\ SafeCopy(q)'
    <2>1. CASE q = p
      BY <2>1
    <2>2. CASE q # p
      <3>1. process'[q].pc = "out"
        BY <2>2, OthersAreOut DEF At
      <3>2. process'[q].backup = None
        BY <2>2, <3>1 DEF IInv, SafeCopy
      <3>. QED
        BY <3>1, <3>2 DEF Standing, SafeCopy, Upgraded
    <2>. QED
      BY <2>1, <2>2
  <1>. QED
    BY <1>1, <1>2 DEF IInv

LEMMA InitEstablishes == Init => IInv
  <1> SUFFICES ASSUME Init PROVE IInv
    OBVIOUS
  <1>1. Typed
    BY ProfileAssumption, ProfileOriginAssumption
    DEF Init, Typed, TypeOK, ProcessStates, Stages, Out, Current
  <1>2. LockHeld
    BY DEF Init, LockHeld, At, Out
  <1>3. \A p \in Processes : Standing(p) /\ SafeCopy(p)
    BY OutStands DEF Init, Out
  <1>4. DataKept /\ StampsPast /\ BackedUpBeforeLeaving
    BY ProfileOriginAssumption DEF Init, DataKept, StampsPast, BackedUpBeforeLeaving
  <1>. QED
    BY <1>1, <1>2, <1>3, <1>4 DEF IInv

-----------------------------------------------------------------------------
(***************************************************************************)
(* Entering and leaving.                                                   *)
(***************************************************************************)

LEMMA StartPreserves ==
    ASSUME IInv, NEW p \in Processes, Start(p)
    PROVE  IInv'
  <1> USE DEF Start, files, At
  <1>1. process[p] \in ProcessStates
    BY DEF IInv, Typed
  <1>2. CASE lock = None
    <2>1. /\ process'[p] = [process[p] EXCEPT !.pc = "opening"]
          /\ \A q \in Processes : q # p => process'[q] = process[q]
          /\ lock' = p
      BY <1>2 DEF Goto, IInv, Typed
    <2>2. Typed'
      BY <1>1, <1>2, <2>1, ProfileAssumption
      DEF IInv, Typed, TypeOK, ProcessStates, Stages, Goto, limits
    <2>3. \A q \in Processes : process[q].pc = "out"
      BY <1>2, ProfileAssumption DEF IInv, LockHeld
    <2>4. LockHeld'
      BY <2>1, <2>3, ProfileAssumption DEF LockHeld, IInv, Typed
    <2>5. ASSUME NEW q \in Processes PROVE Standing(q)' /\ SafeCopy(q)'
      <3>1. process'[q].pc \in {"out", "opening"} /\ process'[q].backup = process[q].backup
        BY <1>1, <2>1, <2>3 DEF ProcessStates
      <3>2. process[q].backup = None
        BY <2>3 DEF IInv, SafeCopy
      <3>. QED
        BY <3>1, <3>2 DEF Standing, SafeCopy, Upgraded
    <2>6. DataKept' /\ StampsPast' /\ BackedUpBeforeLeaving'
      BY DEF IInv, DataKept, StampsPast, BackedUpBeforeLeaving
    <2>. QED
      BY <2>2, <2>4, <2>5, <2>6 DEF IInv
  <1>3. CASE lock # None
    <2>1. Typed' /\ LockHeld'
      BY <1>3, ProfileAssumption DEF IInv, Typed, TypeOK, LockHeld, limits
    <2>2. \A q \in Processes : Standing(q)' /\ SafeCopy(q)'
      BY <1>3 DEF IInv, Standing, SafeCopy, Upgraded
    <2>3. DataKept' /\ StampsPast' /\ BackedUpBeforeLeaving'
      BY DEF IInv, DataKept, StampsPast, BackedUpBeforeLeaving
    <2>. QED
      BY <2>1, <2>2, <2>3 DEF IInv
  <1>. QED
    BY <1>2, <1>3

\* Giving the lock back and being killed with it have the same effect here.
LEMMA LeavePreserves ==
    ASSUME IInv, NEW p \in Processes, ~At(p, "out"),
           process' = [process EXCEPT ![p] = Out], lock' = None,
           faults' \in Nat, UNCHANGED <<origin, db, files, clock, starts>>
    PROVE  IInv'
  <1>1. \A q \in Processes : process'[q] = Out \/ (q # p /\ process'[q] = process[q])
    BY DEF IInv, Typed
  <1>2. \A q \in Processes : process'[q].pc = "out" /\ process'[q].backup = None
    BY <1>1, OthersAreOut DEF At, Out, IInv, SafeCopy
  <1>3. Typed'
    BY DEF IInv, Typed, TypeOK, ProcessStates, Stages, Out, files
  <1>4. LockHeld' /\ \A q \in Processes : Standing(q)' /\ SafeCopy(q)'
    BY <1>2 DEF LockHeld, At, Standing, SafeCopy, Upgraded
  <1>5. DataKept' /\ StampsPast' /\ BackedUpBeforeLeaving'
    BY DEF IInv, DataKept, StampsPast, BackedUpBeforeLeaving, files
  <1>. QED
    BY <1>3, <1>4, <1>5 DEF IInv

LEMMA UnlockPreserves ==
    ASSUME IInv, NEW p \in Processes, Unlock(p)
    PROVE  IInv'
  BY LeavePreserves DEF Unlock, At, limits, IInv, Typed

LEMMA CrashPreserves ==
    ASSUME IInv, NEW p \in Processes, Crash(p)
    PROVE  IInv'
  <1>1. lock = p /\ lock' = None
    BY DEF Crash, IInv, LockHeld
  <1>2. faults' \in Nat
    BY DEF Crash, IInv, Typed
  <1>. QED
    BY <1>1, <1>2, LeavePreserves DEF Crash

LEMMA TickPreserves == IInv /\ Tick => IInv'
  <1> SUFFICES ASSUME IInv, Tick PROVE IInv'
    OBVIOUS
  <1> USE DEF Tick, files
  <1>1. Typed' /\ LockHeld'
    BY ProfileAssumption DEF IInv, Typed, TypeOK, LockHeld, At
  <1>2. \A q \in Processes : Standing(q)'
    BY DEF IInv, Standing, Upgraded
  <1>3. ASSUME NEW q \in Processes PROVE SafeCopy(q)'
    <2>1. clock \in Nat /\ process[q].backup \in Nat \union {None}
      BY DEF IInv, Typed, ProcessStates
    <2>. QED
      BY <2>1, ProfileAssumption DEF IInv, SafeCopy
  <1>4. StampsPast'
    BY DEF IInv, Typed, TypeOK, StampsPast
  <1>5. DataKept' /\ BackedUpBeforeLeaving'
    BY DEF IInv, DataKept, BackedUpBeforeLeaving
  <1>. QED
    BY <1>1, <1>2, <1>3, <1>4, <1>5 DEF IInv

-----------------------------------------------------------------------------
(***************************************************************************)
(* Migrating.                                                              *)
(***************************************************************************)

\* What the state of one process becomes when the process takes a step.
LEMMA StepOf ==
    ASSUME IInv, NEW p \in Processes, NEW next \in ProcessStates,
           process' = [process EXCEPT ![p] = next]
    PROVE  /\ process' \in [Processes -> ProcessStates]
           /\ process'[p] = next
           /\ \A q \in Processes : q # p => process'[q] = process[q]
  BY DEF IInv, Typed

LEMMA QuitPreserves ==
    ASSUME IInv, NEW p \in Processes, ~At(p, "out"), Quit(p), faults' \in Nat,
           UNCHANGED <<origin, db, token, runtime, lock, clock, starts>>,
           backups' = backups \/ db.version = 2, backups' \subseteq backups
    PROVE  IInv'
  <1>1. [Out EXCEPT !.pc = "unlocking"] \in ProcessStates
    BY DEF Out, ProcessStates, Stages
  <1>2. /\ process' \in [Processes -> ProcessStates]
        /\ process'[p] = [Out EXCEPT !.pc = "unlocking"]
        /\ \A q \in Processes : q # p => process'[q] = process[q]
    BY <1>1, StepOf DEF Quit
  <1>3. Typed'
    BY <1>2 DEF IInv, Typed, TypeOK
  <1>4. process'[p].pc = "unlocking" /\ process'[p].backup = None
    BY <1>2 DEF Out
  <1>5. Standing(p)' /\ SafeCopy(p)'
    BY <1>4 DEF Standing, SafeCopy, Upgraded
  <1>6. DataKept' /\ StampsPast' /\ BackedUpBeforeLeaving'
    BY DEF IInv, DataKept, StampsPast, BackedUpBeforeLeaving
  <1>. QED
    BY <1>2, <1>3, <1>5, <1>6, InsideStep

LEMMA OpenPreserves ==
    ASSUME IInv, NEW p \in Processes, Open(p)
    PROVE  IInv'
  <1> USE DEF Open, files, limits, At
  <1>1. CASE db.version > Current
    BY <1>1, QuitPreserves DEF IInv, Typed
  <1>2. CASE ~(db.version > Current)
    <2> DEFINE next == [process[p] EXCEPT !.pc = "migrating", !.starting = db.version]
    <2>1. process[p] \in ProcessStates /\ db.version \in 0..Current
      BY <1>2 DEF IInv, Typed, TypeOK, Current
    <2>2. /\ next \in ProcessStates /\ next.pc = "migrating" /\ next.starting = db.version
          /\ next.backup = process[p].backup
      BY <2>1 DEF ProcessStates, Stages
    <2>3. process' = [process EXCEPT ![p] = next]
      BY <1>2
    <2>4. /\ process' \in [Processes -> ProcessStates]
          /\ process'[p] = next
          /\ \A q \in Processes : q # p => process'[q] = process[q]
      BY <2>2, <2>3, StepOf
    <2> HIDE DEF next
    <2>5. Typed'
      BY <2>4 DEF IInv, Typed, TypeOK
    <2>6. Standing(p)'
      BY <2>1, <2>2, <2>4 DEF IInv, DataKept, Standing, Upgraded
    <2>7. SafeCopy(p)'
      BY <2>2, <2>4 DEF IInv, SafeCopy
    <2>8. DataKept' /\ StampsPast' /\ BackedUpBeforeLeaving'
      BY DEF IInv, DataKept, StampsPast, BackedUpBeforeLeaving
    <2>. QED
      BY <2>4, <2>5, <2>6, <2>7, <2>8, InsideStep
  <1>. QED
    BY <1>1, <1>2

LEMMA ApplyEarlyPreserves ==
    ASSUME IInv, NEW p \in Processes, ApplyEarly(p)
    PROVE  IInv'
  <1> USE DEF ApplyEarly, Version, files, limits, At
  <1>1. /\ db' = [version |-> db.version + 1, data |-> db.data, ragged |-> db.ragged]
        /\ db.version \in 0..1 /\ origin.version # 2
    BY DEF IInv, Typed, TypeOK, DataKept
  <1>2. Typed'
    BY <1>1 DEF IInv, Typed, TypeOK, Current
  <1>3. Standing(p)'
    BY <1>1 DEF IInv, Standing, Upgraded
  <1>4. SafeCopy(p)'
    BY <1>1 DEF IInv, SafeCopy
  <1>5. DataKept' /\ StampsPast' /\ BackedUpBeforeLeaving'
    BY <1>1 DEF IInv, DataKept, StampsPast, BackedUpBeforeLeaving
  <1>. QED
    BY <1>2, <1>3, <1>4, <1>5, InsideStep

\* The new file is at least as new as every file there.
LEMMA BeginBackupPreserves ==
    ASSUME IInv, NEW p \in Processes, BeginBackup(p)
    PROVE  IInv'
  <1> USE DEF BeginBackup, limits, At
  <1> DEFINE next == [process[p] EXCEPT !.pc = "copying", !.backup = clock]
  <1>1. /\ next \in ProcessStates /\ next.pc = "copying" /\ next.backup = clock
        /\ next.starting = process[p].starting
    BY DEF IInv, Typed, ProcessStates, Stages
  <1>2. /\ process' \in [Processes -> ProcessStates]
        /\ process'[p] = next
        /\ \A q \in Processes : q # p => process'[q] = process[q]
    BY <1>1, StepOf
  <1> HIDE DEF next
  <1>3. \A b \in backups' : /\ b.stamp \in 0..MaxClock /\ b.whole \in BOOLEAN
                            /\ b.stamp <= clock
    <2> DEFINE begun == [stamp |-> clock, whole |-> FALSE, data |-> None]
    <2>1. begun.stamp = clock /\ begun.whole = FALSE
      OBVIOUS
    <2>2. \A b \in backups' : b \in backups \/ b = begun
      OBVIOUS
    <2> HIDE DEF begun
    <2>3. clock \in 0..MaxClock /\ clock <= clock
      BY DEF IInv, Typed
    <2>4. \A b \in backups : /\ b.stamp \in 0..MaxClock /\ b.whole \in BOOLEAN
                             /\ b.stamp <= clock
      BY DEF IInv, Typed, TypeOK, StampsPast
    <2> HIDE DEF BeginBackup
    <2>. QED
      BY <2>1, <2>2, <2>3, <2>4
  <1>4. Typed'
    BY <1>2, <1>3 DEF IInv, Typed, TypeOK
  <1>5. Standing(p)'
    BY <1>1, <1>2 DEF IInv, Standing, Upgraded
  <1>6. SafeCopy(p)'
    BY <1>1, <1>2, <1>3, ProfileAssumption DEF SafeCopy, IInv, Typed
  <1>7. DataKept' /\ StampsPast' /\ BackedUpBeforeLeaving'
    BY <1>3 DEF IInv, DataKept, StampsPast, BackedUpBeforeLeaving
  <1>. QED
    BY <1>2, <1>4, <1>5, <1>6, <1>7, InsideStep

LEMMA FinishBackupPreserves ==
    ASSUME IInv, NEW p \in Processes, FinishBackup(p)
    PROVE  IInv'
  <1> USE DEF FinishBackup, Goto, limits, At
  <1> DEFINE next == [process[p] EXCEPT !.pc = "migrating"]
             copy == [stamp |-> process[p].backup, whole |-> TRUE, data |-> db.data]
  <1>1. /\ next \in ProcessStates /\ next.pc = "migrating"
        /\ next.backup = process[p].backup /\ next.starting = process[p].starting
    BY DEF IInv, Typed, ProcessStates, Stages
  <1>2. /\ process' \in [Processes -> ProcessStates]
        /\ process'[p] = next
        /\ \A q \in Processes : q # p => process'[q] = process[q]
    BY <1>1, StepOf
  <1> HIDE DEF next
  <1>3. /\ db.version = 2 /\ process[p].backup \in 0..MaxClock
        /\ \A b \in backups : b.stamp <= process[p].backup
        /\ process[p].backup <= clock
    BY DEF IInv, Typed, ProcessStates, SafeCopy
  <1>4. /\ copy \in backups' /\ copy.whole = TRUE /\ copy.stamp = process[p].backup
        /\ copy.data = db.data
    OBVIOUS
  <1>5. \A b \in backups' : b \in backups \/ b = copy
    OBVIOUS
  <1> HIDE DEF copy
  <1>6. Typed'
    <2>1. \A b \in backups' : b.stamp \in 0..MaxClock /\ b.whole \in BOOLEAN
      BY <1>3, <1>4, <1>5 DEF IInv, Typed, TypeOK
    <2>. QED
      BY <1>2, <2>1 DEF IInv, Typed, TypeOK
  <1>7. Standing(p)'
    BY <1>1, <1>2 DEF IInv, Standing, Upgraded
  <1>8. SafeCopy(p)'
    BY <1>1, <1>2, <1>3, <1>4, <1>5 DEF SafeCopy, IInv, DataKept
  <1>9. DataKept' /\ BackedUpBeforeLeaving'
    BY <1>3 DEF IInv, DataKept, BackedUpBeforeLeaving
  <1>10. StampsPast'
    BY <1>3, <1>4, <1>5 DEF IInv, StampsPast
  <1>. QED
    BY <1>2, <1>6, <1>7, <1>8, <1>9, <1>10, InsideStep

\* Leaving the second version: what was copied is what is left.
LEMMA ApplyThirdPreserves ==
    ASSUME IInv, NEW p \in Processes, ApplyThird(p)
    PROVE  IInv'
  <1> USE DEF ApplyThird, Version, files, limits, At
  <1>1. db' = [version |-> 3, data |-> db.data, ragged |-> db.ragged]
    BY DEF IInv, Typed
  <1>2. Typed'
    BY <1>1 DEF IInv, Typed, TypeOK, Current
  <1>3. Standing(p)'
    BY <1>1 DEF IInv, Standing, Upgraded
  <1>4. SafeCopy(p)'
    BY <1>1 DEF IInv, SafeCopy
  <1>5. BackedUpBeforeLeaving'
    <2> SUFFICES ASSUME origin.version = 2
                 PROVE  \E b \in backups : b.whole /\ b.data = origin.data
      BY DEF BackedUpBeforeLeaving
    <2>1. process[p].starting = 2
      BY DEF IInv, Standing
    <2>. QED
      BY <2>1 DEF IInv, SafeCopy
  <1>6. DataKept' /\ StampsPast'
    BY <1>1 DEF IInv, DataKept, StampsPast
  <1>. QED
    BY <1>2, <1>3, <1>4, <1>5, <1>6, InsideStep

LEMMA ApplyFourthPreserves ==
    ASSUME IInv, NEW p \in Processes, ApplyFourth(p)
    PROVE  IInv'
  <1> USE DEF ApplyFourth, files, limits, At
  <1>1. /\ db' = [version |-> 4, data |-> ApplyV4(db.data), ragged |-> db.ragged]
        /\ db'.version = 4 /\ db'.ragged = db.ragged
        /\ db' = [version |-> db'.version, data |-> db'.data, ragged |-> db'.ragged]
    BY DEF IInv, Typed
  <1>2. Typed'
    <2> HIDE DEF ApplyFourth
    <2>. QED
      BY <1>1 DEF ApplyFourth, IInv, Typed, TypeOK, Current
  <1>3. Standing(p)'
    BY <1>1 DEF IInv, Standing, Upgraded
  <1>4. SafeCopy(p)'
    BY <1>1 DEF IInv, SafeCopy
  <1>5. DataKept' /\ StampsPast' /\ BackedUpBeforeLeaving'
    BY <1>1 DEF IInv, DataKept, StampsPast, BackedUpBeforeLeaving
  <1>. QED
    BY <1>2, <1>3, <1>4, <1>5, InsideStep

-----------------------------------------------------------------------------
(***************************************************************************)
(* Stages that only lead on.  What a stage hands to the next one is in     *)
(* Standing, so these steps are judged by the two stages they join.        *)
(***************************************************************************)

LEMMA GotoOf ==
    ASSUME IInv, NEW p \in Processes, NEW pc \in Stages, Goto(p, pc)
    PROVE  /\ process' \in [Processes -> ProcessStates]
           /\ process'[p] = [process[p] EXCEPT !.pc = pc]
           /\ process'[p].pc = pc
           /\ process'[p].starting = process[p].starting
           /\ process'[p].backup = process[p].backup
           /\ process'[p].token = process[p].token
           /\ \A q \in Processes : q # p => process'[q] = process[q]
  BY DEF IInv, Typed, Goto, ProcessStates

LEMMA FinalizePreserves ==
    ASSUME IInv, NEW p \in Processes, Finalize(p)
    PROVE  IInv'
  <1> USE DEF Finalize, files, limits, At
  <1>1. PICK pc \in {"normalising", "pruning"} :
            Goto(p, pc) /\ (pc = "pruning" => process[p].backup # None)
    OBVIOUS
  <1>2. /\ process' \in [Processes -> ProcessStates]
        /\ process'[p].pc = pc
        /\ process'[p].backup = process[p].backup
        /\ \A q \in Processes : q # p => process'[q] = process[q]
    BY <1>1, GotoOf DEF Stages
  <1>3. Typed'
    BY <1>2 DEF IInv, Typed, TypeOK
  <1>4. Standing(p)'
    BY <1>1, <1>2 DEF Standing
  <1>5. SafeCopy(p)'
    BY <1>1, <1>2 DEF IInv, SafeCopy
  <1>6. DataKept' /\ StampsPast' /\ BackedUpBeforeLeaving'
    BY DEF IInv, DataKept, StampsPast, BackedUpBeforeLeaving
  <1>. QED
    BY <1>2, <1>3, <1>4, <1>5, <1>6, InsideStep

\* Files are counted by those that are newer, and nothing is newer than the copy.
LEMMA PrunePreserves ==
    ASSUME IInv, NEW p \in Processes, Prune(p)
    PROVE  IInv'
  <1> USE DEF Prune, limits, At
  <1>1. CASE Stale = {}
    <2>1. /\ process' \in [Processes -> ProcessStates]
          /\ process'[p].pc = "normalising"
          /\ \A q \in Processes : q # p => process'[q] = process[q]
      BY <1>1, GotoOf DEF Stages
    <2>2. Typed'
      BY <1>1, <2>1 DEF IInv, Typed, TypeOK
    <2>3. Standing(p)' /\ SafeCopy(p)'
      BY <2>1 DEF IInv, Standing, SafeCopy, Upgraded
    <2>4. DataKept' /\ StampsPast' /\ BackedUpBeforeLeaving'
      BY <1>1 DEF IInv, DataKept, StampsPast, BackedUpBeforeLeaving
    <2>. QED
      BY <1>1, <2>1, <2>2, <2>3, <2>4, InsideStep
  <1>2. CASE Stale # {}
    <2>1. PICK old \in Stale : backups' = backups \ {old}
      BY <1>2
    <2>2. /\ process[p].backup \in 0..MaxClock
          /\ \A b \in backups : b.stamp \in Int /\ b.stamp <= process[p].backup
          /\ db.version = Current
      BY DEF IInv, SafeCopy, Standing, Upgraded, Typed, TypeOK, ProcessStates
    <2>3. old.stamp # process[p].backup
      <3>1. SUFFICES ASSUME old.stamp = process[p].backup PROVE FALSE
        OBVIOUS
      <3>2. Newer(old) = {}
        BY <2>2, <3>1 DEF Newer
      <3>3. Cardinality(Newer(old)) = 0
        BY <3>2, FS_EmptySet
      <3>. QED
        BY <3>3, ProfileAssumption DEF Stale
    <2>4. origin.version = 2 =>
             \E b \in backups' : /\ b.stamp = process[p].backup
                                 /\ b.whole /\ b.data = origin.data
      BY <2>1, <2>2, <2>3 DEF IInv, SafeCopy
    <2>5. Typed' /\ Standing(p)'
      BY <1>2, <2>1 DEF IInv, Typed, TypeOK, Standing
    <2>6. SafeCopy(p)'
      BY <1>2, <2>1, <2>4 DEF IInv, SafeCopy
    <2>7. DataKept' /\ StampsPast'
      BY <2>1 DEF IInv, DataKept, StampsPast
    <2>8. BackedUpBeforeLeaving'
      BY <2>4 DEF BackedUpBeforeLeaving
    <2>. QED
      BY <1>2, <2>5, <2>6, <2>7, <2>8, InsideStep
  <1>. QED
    BY <1>1, <1>2

LEMMA NormalisePreserves ==
    ASSUME IInv, NEW p \in Processes, Normalise(p)
    PROVE  IInv'
  <1> USE DEF Normalise, files, limits, At
  <1>1. /\ process' \in [Processes -> ProcessStates]
        /\ process'[p].pc = "opened"
        /\ \A q \in Processes : q # p => process'[q] = process[q]
    BY GotoOf DEF Stages
  <1>2. /\ db' = [version |-> db.version, data |-> db.data, ragged |-> FALSE]
        /\ db'.version = db.version /\ db'.ragged = FALSE
    BY DEF IInv, Typed
  <1>3. Typed'
    BY <1>1, <1>2 DEF IInv, Typed, TypeOK
  <1>4. Standing(p)'
    BY <1>1, <1>2 DEF IInv, Standing, Upgraded
  <1>5. SafeCopy(p)'
    BY <1>1 DEF SafeCopy
  <1>6. DataKept' /\ StampsPast' /\ BackedUpBeforeLeaving'
    BY <1>2 DEF IInv, DataKept, StampsPast, BackedUpBeforeLeaving
  <1>. QED
    BY <1>1, <1>3, <1>4, <1>5, <1>6, InsideStep

\* The token file is emptied first; the token is in the process until it is written.
LEMMA LoadTokenPreserves ==
    ASSUME IInv, NEW p \in Processes, LoadToken(p)
    PROVE  IInv'
  <1> USE DEF LoadToken, limits, At
  <1> DEFINE chosen == IF token = None THEN starts ELSE token
             next == [process[p] EXCEPT !.pc = "writing", !.token = chosen]
  <1>1. starts \in 1..MaxStarts
    BY ProfileAssumption DEF IInv, Typed, LockHeld
  <1>2. chosen \in 1..MaxStarts
    BY <1>1 DEF IInv, Typed, TypeOK
  <1>3. process' = [process EXCEPT ![p] = next]
    OBVIOUS
  <1> HIDE DEF chosen
  <1>4. next \in ProcessStates /\ next.pc = "writing" /\ next.token = chosen
    BY <1>2 DEF IInv, Typed, ProcessStates, Stages
  <1> HIDE DEF next
  <1>5. /\ process' \in [Processes -> ProcessStates]
        /\ process'[p] = next
        /\ \A q \in Processes : q # p => process'[q] = process[q]
    BY <1>3, <1>4, StepOf
  <1>6. Typed'
    BY <1>5 DEF IInv, Typed, TypeOK
  <1>7. Standing(p)'
    <2>1. \A n \in 1..MaxStarts : n # None
      BY ProfileAssumption
    <2>2. process'[p].token # None /\ process'[p].pc = "writing"
      BY <1>2, <1>4, <1>5, <2>1
    <2>. QED
      BY <2>2 DEF IInv, Standing, Upgraded
  <1>8. SafeCopy(p)'
    BY <1>4, <1>5 DEF SafeCopy
  <1>9. DataKept' /\ StampsPast' /\ BackedUpBeforeLeaving'
    BY DEF IInv, DataKept, StampsPast, BackedUpBeforeLeaving
  <1>. QED
    BY <1>5, <1>6, <1>7, <1>8, <1>9, InsideStep

\* The rest of a server's life: each step moves on and touches at most one file.
LEMMA ServeStep ==
    ASSUME IInv, NEW p \in Processes, ~At(p, "out"),
           NEW pc \in {"bound", "serving", "stopped", "closing"}, Goto(p, pc),
           UNCHANGED <<origin, db, backups, lock, limits>>,
           token' \in 1..MaxStarts \union {None}, runtime' \in Processes \union {None},
           pc \in Upgraded => /\ process[p].pc \in {"writing", "bound"}
                              /\ token' = process[p].token,
           pc = "serving" => runtime' = p
    PROVE  IInv'
  <1> USE DEF limits
  <1>1. /\ process' \in [Processes -> ProcessStates]
        /\ process'[p].pc = pc
        /\ process'[p].token = process[p].token
        /\ \A q \in Processes : q # p => process'[q] = process[q]
    BY GotoOf DEF Stages
  <1>2. Typed'
    BY <1>1 DEF IInv, Typed, TypeOK
  <1>3. Standing(p)'
    BY <1>1 DEF IInv, Standing, Upgraded
  <1>4. SafeCopy(p)'
    BY <1>1 DEF SafeCopy
  <1>5. DataKept' /\ StampsPast' /\ BackedUpBeforeLeaving'
    BY DEF IInv, DataKept, StampsPast, BackedUpBeforeLeaving
  <1>. QED
    BY <1>1, <1>2, <1>3, <1>4, <1>5, InsideStep

LEMMA ServePreserves ==
    ASSUME IInv, NEW p \in Processes,
           WriteToken(p) \/ Advertise(p) \/ Stop(p) \/ Withdraw(p)
    PROVE  IInv'
  <1> USE DEF files, At
  <1>1. process[p].token \in 1..MaxStarts \union {None} /\ Typed /\ TypeOK /\ Standing(p)
    BY DEF IInv, Typed, ProcessStates
  <1>2. CASE WriteToken(p)
    BY <1>1, <1>2, ServeStep DEF WriteToken, TypeOK, Upgraded
  <1>3. CASE Advertise(p)
    BY <1>1, <1>3, ServeStep DEF Advertise, TypeOK, Upgraded, Standing
  <1>4. CASE Stop(p)
    BY <1>1, <1>4, ServeStep DEF Stop, TypeOK, Upgraded
  <1>5. CASE Withdraw(p)
    BY <1>1, <1>5, ServeStep DEF Withdraw, TypeOK, Upgraded
  <1>. QED
    BY <1>2, <1>3, <1>4, <1>5

-----------------------------------------------------------------------------
(***************************************************************************)
(* The theorems.                                                           *)
(***************************************************************************)

LEMMA GiveUpPreserves ==
    ASSUME IInv, NEW p \in Processes, FailBackup(p) \/ JoinWorker(p) \/ Fail(p)
    PROVE  IInv'
  <1>1. ~At(p, "out") /\ Quit(p) /\ faults' \in Nat
    BY DEF FailBackup, JoinWorker, Fail, At, limits, IInv, Typed
  <1>2. UNCHANGED <<origin, db, token, runtime, lock, clock, starts>>
    BY DEF FailBackup, JoinWorker, Fail, files, limits
  <1>3. backups' \subseteq backups
    BY DEF FailBackup, JoinWorker, Fail, files
  <1>4. backups' = backups \/ db.version = 2
    BY DEF FailBackup, JoinWorker, Fail, files, IInv, SafeCopy, At
  <1>. QED
    BY <1>1, <1>2, <1>3, <1>4, QuitPreserves

LEMMA StepPreserves == IInv /\ [Next]_vars => IInv'
  <1> SUFFICES ASSUME IInv, [Next]_vars PROVE IInv'
    OBVIOUS
  <1>1. CASE Tick
    BY <1>1, TickPreserves
  <1>2. ASSUME NEW p \in Processes, Migrate(p) PROVE IInv'
    BY <1>2, ApplyEarlyPreserves, BeginBackupPreserves, FinishBackupPreserves,
       GiveUpPreserves, ApplyThirdPreserves, ApplyFourthPreserves, FinalizePreserves,
       PrunePreserves, NormalisePreserves DEF Migrate
  <1>3. ASSUME NEW p \in Processes,
               \/ Start(p) \/ Open(p) \/ LoadToken(p) \/ WriteToken(p) \/ Advertise(p)
               \/ Stop(p) \/ Withdraw(p) \/ JoinWorker(p) \/ Unlock(p) \/ Fail(p)
               \/ Crash(p)
        PROVE  IInv'
    BY <1>3, StartPreserves, OpenPreserves, LoadTokenPreserves, ServePreserves,
       GiveUpPreserves, UnlockPreserves, CrashPreserves
  <1>4. CASE UNCHANGED vars
    BY <1>4 DEF vars, files, limits, IInv, Typed, TypeOK, LockHeld, At, Standing, SafeCopy,
                DataKept, StampsPast, BackedUpBeforeLeaving
  <1>. QED
    BY <1>1, <1>2, <1>3, <1>4 DEF Next

\* Everything IInv says holds in every reachable state.
THEOREM Invariance == Spec => []IInv
  <1>1. Init => IInv
    BY InitEstablishes
  <1>2. IInv /\ [Next]_vars => IInv'
    BY StepPreserves
  <1>. QED
    BY <1>1, <1>2, PTL DEF Spec

\* However many processes race for a profile, fail or are killed: one has it open
\* at a time, and the one that serves does so with everything that names it in order.
THEOREM OneServer == Spec => []OneSoundServer
  <1>1. IInv => OneSoundServer
    <2> SUFFICES ASSUME IInv PROVE OneSoundServer
      OBVIOUS
    <2>1. ASSUME NEW p \in Processes, NEW q \in Processes, Connected(p), Connected(q)
          PROVE  p = q
      BY <2>1, OthersAreOut DEF Connected, At
    <2>2. ASSUME NEW p \in Processes, At(p, "serving") PROVE ServedBy(p)
      BY <2>2 DEF IInv, LockHeld, Standing, Upgraded, ServedBy, At
    <2>. QED
      BY <2>1, <2>2 DEF IInv, Typed, OneSoundServer
  <1>. QED
    BY <1>1, Invariance, PTL

\* A second-version profile is on disk as it was, once its database has moved on.
THEOREM BackupOutlivesMigration == Spec => []BackedUpBeforeLeaving
  <1>1. IInv => BackedUpBeforeLeaving
    BY DEF IInv
  <1>. QED
    BY <1>1, Invariance, PTL

-----------------------------------------------------------------------------
(***************************************************************************)
(* What the fourth version computes.  The data of a profile is what it     *)
(* began with until that step, so the step is judged by the log of origin. *)
(***************************************************************************)

LEMMA MaxOfLast ==
    ASSUME NEW S \in SUBSET Int, NEW i \in S, \A j \in S : i >= j
    PROVE  Max(S) = i
  <1>1. \A x \in S : (\A y \in S : x >= y) <=> x = i
    OBVIOUS
  <1>. QED
    BY <1>1 DEF Max

LEMMA LogEntries ==
    ASSUME NEW data, LoggedHistory(data)
    PROVE  LET log == data.activity
           IN  /\ Len(log) \in Nat /\ DOMAIN log = 1..Len(log)
               /\ data.task.revision \in Nat
               /\ \A i \in DOMAIN log : /\ log[i].revision \in Int
                                       /\ log[i].revision <= data.task.revision
                                       /\ log[i].at \in Nat /\ log[i].at # None
  <1> DEFINE log == data.activity
             Entry == [revision : 0..data.task.revision, at : Nat]
  <1>1. log \in Seq(Entry) /\ data.task.revision \in Nat
    BY DEF LoggedHistory, Logged
  <1>2. \A e \in Entry : /\ e.revision \in Int /\ e.revision <= data.task.revision
                         /\ e.at \in Nat /\ e.at # None
    BY <1>1, ProfileAssumption
  <1> HIDE DEF Entry
  <1>3. Len(log) \in Nat /\ DOMAIN log = 1..Len(log) /\ \A i \in DOMAIN log : log[i] \in Entry
    BY <1>1
  <1>. QED
    BY <1>1, <1>2, <1>3

\* The log says of a row what the row stands in.
LEMMA CancelledByIsSince ==
    ASSUME NEW data, LoggedHistory(data), NEW row, Logged(data.activity, row),
           row.status = "cancelled"
    PROVE  OrElse(CancelledBy(data, row.revision), row.updated) = row.since
  <1> DEFINE log == data.activity
             known == {i \in DOMAIN log : log[i].revision <= row.revision}
  <1>1. /\ DOMAIN log \subseteq Nat
        /\ \A i \in DOMAIN log : log[i].revision \in Int /\ log[i].at # None
    BY LogEntries
  <1>2. row.revision \in Nat
    BY DEF Logged
  <1>3. CASE row.since = row.updated /\ \A j \in DOMAIN log : log[j].revision > row.revision
    <2>1. known = {}
      BY <1>1, <1>2, <1>3
    <2>. QED
      BY <1>3, <2>1 DEF CancelledBy, OrElse
  <1>4. ASSUME NEW i \in DOMAIN log, log[i].revision <= row.revision, row.since = log[i].at,
               \A j \in DOMAIN log : j > i => log[j].revision > row.revision
        PROVE  OrElse(CancelledBy(data, row.revision), row.updated) = row.since
    <2>1. \A j \in known : i >= j
      BY <1>1, <1>2, <1>4
    <2>2. i \in known /\ known \in SUBSET Int
      BY <1>1, <1>4
    <2>3. Max(known) = i
      <3> HIDE DEF known
      <3>. QED
        BY <2>1, <2>2, MaxOfLast
    <2>4. CancelledBy(data, row.revision) = log[i].at
      BY <2>2, <2>3 DEF CancelledBy
    <2>5. log[i].at # None
      BY <1>1
    <2>. QED
      BY <1>4, <2>4, <2>5 DEF OrElse
  <1>. QED
    BY <1>3, <1>4 DEF Logged

LEMMA ReconciledIsDated ==
    ASSUME NEW data, LoggedHistory(data), NEW row, Logged(data.activity, row)
    PROVE  Dated(Reconciled(data, row))
  BY CancelledByIsSince DEF Logged, RowFields, Reconciled, Dated

\* The row itself is dated by the end of the log, and so is its snapshot.
LEMMA LiveRowIsReconciled ==
    ASSUME NEW data, LoggedHistory(data)
    PROVE  ApplyV4(data).task = Reconciled(data, data.task)
  <1> DEFINE log == data.activity
             known == {i \in DOMAIN log : log[i].revision <= data.task.revision}
  <1>1. DOMAIN data.task = RowFields /\ data.task.cancelledAt = None
    BY DEF LoggedHistory, Logged
  <1>2. known = 1..Len(log) /\ Len(log) \in Nat
    BY LogEntries
  <1>3. DOMAIN data = {"task", "activity", "undos"}
    BY DEF LoggedHistory
  <1>4. CASE log = <<>>
    <2>1. CancelledBy(data, data.task.revision) = None
      BY <1>2, <1>4 DEF CancelledBy
    <2>. QED
      BY <1>1, <1>3, <1>4, <2>1 DEF ApplyV4, Reconciled, OrElse
  <1>5. CASE log # <<>>
    <2>1. Len(log) \in known /\ known \in SUBSET Int /\ \A j \in known : Len(log) >= j
      <3>1. Len(log) # 0
        BY <1>5 DEF LoggedHistory
      <3> HIDE DEF known, log
      <3>. QED
        BY <1>2, <3>1
    <2>2. Max(known) = Len(log)
      <3> HIDE DEF known
      <3>. QED
        BY <2>1, MaxOfLast
    <2>3. CancelledBy(data, data.task.revision) = log[Len(log)].at
      BY <2>1, <2>2 DEF CancelledBy
    <2>4. log[Len(log)].at # None
      BY <2>1, LogEntries
    <2>. QED
      BY <1>1, <1>3, <1>5, <2>3, <2>4 DEF ApplyV4, Reconciled, OrElse
  <1>. QED
    BY <1>4, <1>5

LEMMA MigrationDates ==
    ASSUME NEW data, LoggedHistory(data)
    PROVE  AllDated(ApplyV4(data))
  <1> DEFINE undos == data.undos
             new == ApplyV4(data)
  <1>1. /\ DOMAIN undos = 1..Len(undos) /\ Len(undos) \in Nat
        /\ \A i \in DOMAIN undos : Logged(data.activity, undos[i].before)
                                  /\ Logged(data.activity, undos[i].after)
        /\ Logged(data.activity, data.task)
        /\ DOMAIN data = {"task", "activity", "undos"}
        /\ undos # <<>> => undos[Len(undos)].after = data.task
    BY DEF LoggedHistory
  <1>2. new.undos = [i \in 1..Len(undos) |-> [before |-> Reconciled(data, undos[i].before),
                                             after |-> Reconciled(data, undos[i].after)]]
    BY <1>1 DEF ApplyV4
  <1>3. Dated(new.task)
    BY <1>1, LiveRowIsReconciled, ReconciledIsDated
  <1>4. \A i \in DOMAIN new.undos : Dated(new.undos[i].before) /\ Dated(new.undos[i].after)
    BY <1>1, <1>2, ReconciledIsDated
  <1>5. Len(new.undos) = Len(undos)
    BY <1>1, <1>2
  <1>6. new.undos # <<>> => new.undos[Len(new.undos)].after = new.task
    <2> SUFFICES ASSUME new.undos # <<>> PROVE new.undos[Len(undos)].after = new.task
      BY <1>5
    <2>1. Len(undos) # 0
      BY <1>2
    <2>2. Len(undos) \in 1..Len(undos) /\ undos # <<>>
      BY <1>1, <2>1
    <2>. QED
      BY <1>1, <1>2, <2>2, LiveRowIsReconciled
  <1> HIDE DEF new
  <1>7. AllDated(new)
    BY <1>3, <1>4, <1>6 DEF AllDated
  <1>. QED
    BY <1>7 DEF new

\* A database that has not come to the fourth version holds what it began with.
DataAsLogged ==
    /\ origin \in Origins /\ db.version \in Int
    /\ DOMAIN db = {"version", "data", "ragged"}
    /\ db.version < Current => origin.version < Current /\ db.data = origin.data
    /\ db.version = Current => AllDated(db.data)

LEMMA DataStep == DataAsLogged /\ [Next]_vars => DataAsLogged'
  <1> SUFFICES ASSUME DataAsLogged, [Next]_vars PROVE DataAsLogged'
    OBVIOUS
  <1>1. CASE UNCHANGED <<db, origin>>
    BY <1>1 DEF DataAsLogged
  <1>2. ASSUME NEW p \in Processes, ApplyEarly(p) \/ ApplyThird(p) PROVE DataAsLogged'
    <2>1. /\ origin' = origin /\ db'.data = db.data
          /\ db.version < 3 /\ db'.version \in Int /\ db'.version <= 3
          /\ DOMAIN db' = DOMAIN db
      <3>1. db' = [db EXCEPT !.version = 3] \/ db' = [db EXCEPT !.version = db.version + 1]
        BY <1>2 DEF ApplyEarly, ApplyThird, Version
      <3>. QED
        BY <1>2 DEF ApplyEarly, ApplyThird, Version, DataAsLogged
    <2>. QED
      BY <2>1 DEF DataAsLogged, Current
  <1>3. ASSUME NEW p \in Processes, ApplyFourth(p) PROVE DataAsLogged'
    <2>1. /\ origin' = origin /\ origin \in Origins /\ LoggedHistory(origin.data)
          /\ db.data = origin.data
      BY <1>3, ProfileHistoryAssumption DEF ApplyFourth, DataAsLogged, Current
    <2>. QED
      BY <1>3, <2>1, MigrationDates DEF ApplyFourth, DataAsLogged, Current
  <1>4. ASSUME NEW p \in Processes, Normalise(p) PROVE DataAsLogged'
    BY <1>4 DEF Normalise, DataAsLogged
  <1>5. ASSUME NEW p \in Processes,
               \/ Start(p) \/ Open(p) \/ LoadToken(p) \/ WriteToken(p) \/ Advertise(p)
               \/ Stop(p) \/ Withdraw(p) \/ JoinWorker(p) \/ Unlock(p) \/ Fail(p) \/ Crash(p)
               \/ BeginBackup(p) \/ FinishBackup(p) \/ FailBackup(p) \/ Finalize(p) \/ Prune(p)
        PROVE  UNCHANGED <<db, origin>>
    BY <1>5 DEF Start, Open, LoadToken, WriteToken, Advertise, Stop, Withdraw, JoinWorker,
                Unlock, Fail, Crash, BeginBackup, FinishBackup, FailBackup, Finalize, Prune
  <1>. QED
    BY <1>1, <1>2, <1>3, <1>4, <1>5 DEF Next, Migrate, Tick, vars

\* Whatever a task went through before the column existed, the migration dates its
\* row and every snapshot of it by the cancellation they stand in.
THEOREM CancellationsDated == Spec => []CancellationsKeepTheirTime
  <1>1. Init => DataAsLogged
    BY ProfileOriginAssumption, ProfileHistoryAssumption DEF Init, DataAsLogged
  <1>2. DataAsLogged => CancellationsKeepTheirTime
    BY DEF DataAsLogged, CancellationsKeepTheirTime
  <1>. QED
    BY <1>1, <1>2, DataStep, PTL DEF Spec
=============================================================================
