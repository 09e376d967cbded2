---------------------------- MODULE MCWorkspace ----------------------------
(* Small instance of Catalog: two projects, one of them below the other,   *)
(* two seeded tasks that share a slot, the second one an occurrence that   *)
(* the first one's completion generated and that was moved below it, and a *)
(* past block linked to the first task and to the slot.                    *)
EXTENDS Catalog

MCBlockPatches == {"locked" :> TRUE, "date" :> 3, "end" :> 1, "start" :> 2,
                   "task" :> None, "task" :> 2}
MCSlotPatches == {"project" :> None, "project" :> "p2"}
MCTaskPatches == {"project" :> "p2", "project" :> None, "section" :> None,
                  "section" :> "s1", [project |-> None, section |-> None], "tags" :> {},
                  "parent" :> 3, "parent" :> None}

Seed ==
    [task |-> [t \in {1, 2} |->
                 [project |-> "p2", section |-> IF t = 1 THEN "s1" ELSE None,
                  tags |-> IF t = 1 THEN {"g1"} ELSE {},
                  parent |-> IF t = 1 THEN None ELSE 1,
                  source |-> IF t = 1 THEN None ELSE 1, revision |-> 0]],
     project |-> "p1" :> None @@ "p2" :> "p1",
     section |-> "s1" :> "p2",
     tag |-> "g1" :> "n1",
     template |-> "m1" :> [project |-> "p2", tags |-> {"g1"}],
     slot |-> "k1" :> [project |-> "p2", tasks |-> <<1, 2>>, revision |-> 0],
     block |-> 1 :> [task |-> 1, slot |-> "k1", date |-> 2, start |-> 1, end |-> 2,
                     locked |-> FALSE, revision |-> 0],
     today |-> 3]

\* What a behaviour can still tell apart: the event just published is history.
MCView == <<task, project, slot, block, revision, today, preview,
            section, tag, template, filter, undo, before>>

MCSeeds == {Seed}
=============================================================================
