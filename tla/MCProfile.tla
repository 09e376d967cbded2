------------------------------ MODULE MCProfile ------------------------------
EXTENDS Profile

\* what version 3 wrote for a sequence of changes to one task: a status change
\* logs a cancellation, an undo of the newest change logs one if it restores one
Created == [status |-> "pending", revision |-> 1, updated |-> 9, cancelledAt |-> None,
            since |-> None]
Untouched == [task |-> Created, activity |-> <<>>, undos |-> <<>>]

\* the clock runs backwards, so that only revisions tell the order
Instant(revision) == 10 - revision

Changed(data, status) ==
    LET revision == data.task.revision + 1
        at == Instant(revision)
        now == status = "cancelled" /\ data.task.status # "cancelled"
        task == [status |-> status, revision |-> revision, updated |-> at,
                 cancelledAt |-> None,
                 since |-> IF now THEN at ELSE IF status = "cancelled" THEN data.task.since
                           ELSE None]
    IN  [task |-> task,
         activity |-> IF now THEN Append(data.activity, [revision |-> revision, at |-> at])
                      ELSE data.activity,
         undos |-> Append(data.undos, [before |-> data.task, after |-> task])]

Did(data, change) ==
    CASE change = "cancel" -> Changed(data, "cancelled")
      [] change = "reopen" -> Changed(data, "pending")
      [] change = "edit"   -> Changed(data, data.task.status)
      [] change = "undo"   -> IF data.undos = <<>> THEN data
                              ELSE Changed(data, data.undos[Len(data.undos)].before.status)

Histories == UNION {[1..n -> {"cancel", "reopen", "edit", "undo"}] : n \in 0..5}

\* a cancelled task whose log was lost
Unlogged == [Did(Untouched, "cancel") EXCEPT !.activity = <<>>]

Database(version, data) == [version |-> version, data |-> data, ragged |-> version >= 3]

MCOrigins ==
    {Database(version, Untouched) : version \in {0, 1, 5}}
    \union {Database(2, Untouched)}
    \union {Database(2, FoldLeft(Did, Untouched, <<"cancel", "edit", "undo">>))}
    \union {Database(4, ApplyV4(FoldLeft(Did, Untouched, <<"cancel", "edit">>)))}
    \union {Database(3, data) :
               data \in {FoldLeft(Did, Untouched, h) : h \in Histories} \union {Unlogged}}

MCOldBackups ==
    {{}, {[stamp |-> 0, whole |-> TRUE, data |-> None], [stamp |-> 1, whole |-> FALSE, data |-> None]}}
=============================================================================
