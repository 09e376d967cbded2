---------------------------- MODULE ServerProofs ----------------------------
(***************************************************************************)
(* The running server for every number of requests, every router input and  *)
(* every bound: commits are announced once, what was answered is durable,   *)
(* and the coordinator never sleeps past what it was not told.              *)
(***************************************************************************)
EXTENDS Server, FiniteSetTheorems, WellFoundedInduction, NaturalsInduction, TLAPS

\* what the invariant needs to know of the routes
Wakeful(class, notifies) == class = "control" => notifies
Keyed(class, op) == class = "commit" <=> op # None

-----------------------------------------------------------------------------
(* The inductive invariant *)

Resting == {Idle, Left} \union {Done(status, op) : status \in Nat, op \in Ops \union {None}}
Flying ==
    [stage : InFlight, status : Nat, class : Classes, notifies : BOOLEAN,
     op : Ops \union {None}, news : (1..MaxRevision) \union {None}, changed : BOOLEAN]
Entries ==
    [from : Slots \union {None}, class : Classes \union {"wake"}, op : Ops \union {None}]
Timers == Nat \union {None}
Coordinators ==
    {Top, Querying, Unanswered, Gone}
    \union {Answered(wake) : wake \in Wakes}
    \union {Asleep(read, until) : read \in Wakes, until \in Timers}
    \union {Unsure(until) : until \in Timers}

Typed ==
    /\ phase \in Phases /\ worker \in {"running", "dead"}
    /\ requests \in [Slots -> Resting \union Flying]
    /\ attempts \in Seq(Nat) /\ Len(attempts) <= AuthAttempts
    /\ queue \in Seq(Entries)
    /\ revision \in 0..MaxRevision /\ receipts \subseteq Ops /\ nextWake \in Wakes
    /\ announced \in [1..MaxRevision -> Nat] /\ gone \subseteq 1..MaxRevision
    /\ permit \in BOOLEAN /\ heard \in BOOLEAN /\ missed \in BOOLEAN
    /\ coordinator \in Coordinators
    /\ clock \in 0..MaxClock /\ faults \in 0..MaxFaults /\ starts \in 0..MaxStarts

\* a request in flight: its route, what the thread has told it, what it owes
Consistent(q, done) ==
    /\ Wakeful(q.class, q.notifies) /\ Keyed(q.class, q.op)
    /\ q.stage # "replied" => q.news = None /\ ~q.changed
    /\ q.changed => q.news # None \/ (q.status = 200 /\ q.notifies)
    /\ (q.stage = "replied" /\ q.status = 200 /\ q.op # None) => q.op \in done

\* an answered request and the receipts
Settled(q, done) == (q.stage = "done" /\ q.op # None) => q.op \in done

RequestsSound ==
    \A r \in Slots :
        /\ At(r, InFlight) => Consistent(requests[r], receipts)
        /\ Settled(requests[r], receipts)

\* a command and the request that waits for it
Matches(e, q) ==
    /\ q.stage \notin {"idle", "reading"}
    /\ q.stage = "queued" => e.class = q.class /\ e.op = q.op

QueueSound ==
    \A i \in 1..Len(queue) :
        /\ queue[i].class = "wake" <=> queue[i].from = None
        /\ Keyed(queue[i].class, queue[i].op)
        /\ \A r \in Slots : queue[i].from = r => Matches(queue[i], requests[r])

\* where a revision is: nowhere yet, published, left to the log, or with the
\* one handler that is about to publish it
Holds(r, n) == At(r, {"replied"}) /\ requests[r].news = n
Untouched(n) == announced[n] = 0 /\ n \notin gone /\ \A r \in Slots : ~Holds(r, n)
Published(n) == announced[n] = 1 /\ n \notin gone /\ \A r \in Slots : ~Holds(r, n)
Abandoned(n) == announced[n] = 0 /\ n \in gone /\ \A r \in Slots : ~Holds(r, n)
Carried(n) ==
    /\ announced[n] = 0 /\ n \notin gone
    /\ \E r \in Slots : Holds(r, n) /\ \A s \in Slots : Holds(s, n) => s = r

EachOnce ==
    \A n \in 1..MaxRevision :
        /\ n > revision => Untouched(n)
        /\ n <= revision => Published(n) \/ Abandoned(n) \/ Carried(n)

\* what the coordinator holds or sleeps on, when nothing is left to tell it
Unwarned == ~permit /\ ~missed /\ \A r \in Slots : ~Owes(r)
WakeKnown ==
    /\ (coordinator.at = "asleep" /\ Unwarned) => coordinator.read = nextWake
    /\ (coordinator.at = "answered" /\ coordinator.ok /\ Unwarned)
           => coordinator.wake = nextWake

IInv == Typed /\ RequestsSound /\ QueueSound /\ EachOnce /\ WakeKnown

-----------------------------------------------------------------------------
LEMMA LeastNatural ==
    ASSUME NEW T, T \subseteq Nat, T # {}
    PROVE  \E n \in T : \A m \in T : n <= m
  <1>1. IsWellFoundedOn(OpToRel(<, Nat), Nat)
    BY NatLessThanWellFounded
  <1>2. PICK n \in T : \A m \in T : ~(<<m, n>> \in OpToRel(<, Nat))
    BY <1>1, WFMin
  <1>3. \A m \in T : ~(m < n)
    BY <1>2 DEF OpToRel
  <1>. QED
    BY <1>3

-----------------------------------------------------------------------------
(* The routes *)

\* The methods by their class: each is listed once.
CommitMethods ==
    {"create_task", "patch_task", "complete_task", "uncomplete_task", "cancel_task",
     "reopen_task", "delete_task", "move_task", "reorder_tasks", "bulk_tasks",
     "create_project", "patch_project", "delete_project", "create_section",
     "patch_section", "delete_section", "create_tag", "patch_tag", "delete_tag",
     "create_template", "patch_template", "delete_template", "apply_template",
     "create_saved_filter", "patch_saved_filter", "delete_saved_filter",
     "create_comment", "patch_comment", "delete_comment", "add_blocks_relation",
     "remove_blocks_relation", "undo", "reschedule_reminder", "dismiss_reminder",
     "create_time_block", "patch_time_block", "delete_time_block", "move_time_block",
     "resize_time_block", "replan_past_blocks", "create_time_slot", "patch_time_slot",
     "delete_time_slot", "append_slot_task", "remove_slot_task", "reorder_slot_tasks"}
ReadMethods ==
    {"get_task", "list_catalog", "list_comments", "list_relations", "list_task_activity",
     "list_task_reminders", "preview_replan_past_blocks"}
ControlMethods ==
    {"acquire_reminder_lease", "renew_reminder_lease", "release_reminder_lease",
     "claim_due_reminders", "settle_reminder_delivered", "settle_reminder_failed",
     "mark_owner_lost_reminders"}

LEMMA CommitClass == \A m \in CommitMethods : ClassOf(m) = "commit"
  <1> TAKE m \in CommitMethods
  <1>1. <<m, "commit">> \in Methods
    BY DEF Methods, TaskMethods, PlacingMethods, ProjectMethods, TemplateMethods,
           DetailMethods, ScheduleMethods, LeaseMethods, BlockMethods, RangeMethods,
           CommitMethods
  <1>2. ASSUME NEW c \in {"pure", "read", "control"} PROVE <<m, c>> \notin Methods
    BY DEF Methods, TaskMethods, PlacingMethods, ProjectMethods, TemplateMethods,
           DetailMethods, ScheduleMethods, LeaseMethods, BlockMethods, RangeMethods,
           CommitMethods
  <1>. QED
    BY <1>1, <1>2 DEF ClassOf, Classes

LEMMA ReadClass == \A m \in ReadMethods : ClassOf(m) = "read"
  <1> TAKE m \in ReadMethods
  <1>1. <<m, "read">> \in Methods
    BY DEF Methods, TaskMethods, PlacingMethods, ProjectMethods, TemplateMethods,
           DetailMethods, ScheduleMethods, LeaseMethods, BlockMethods, RangeMethods,
           ReadMethods
  <1>2. ASSUME NEW c \in {"pure", "commit", "control"} PROVE <<m, c>> \notin Methods
    BY DEF Methods, TaskMethods, PlacingMethods, ProjectMethods, TemplateMethods,
           DetailMethods, ScheduleMethods, LeaseMethods, BlockMethods, RangeMethods,
           ReadMethods
  <1>. QED
    BY <1>1, <1>2 DEF ClassOf, Classes

LEMMA ControlClass == \A m \in ControlMethods : ClassOf(m) = "control"
  <1> TAKE m \in ControlMethods
  <1>1. <<m, "control">> \in Methods
    BY DEF Methods, TaskMethods, PlacingMethods, ProjectMethods, TemplateMethods,
           DetailMethods, ScheduleMethods, LeaseMethods, BlockMethods, RangeMethods,
           ControlMethods
  <1>2. ASSUME NEW c \in {"pure", "read", "commit"} PROVE <<m, c>> \notin Methods
    BY DEF Methods, TaskMethods, PlacingMethods, ProjectMethods, TemplateMethods,
           DetailMethods, ScheduleMethods, LeaseMethods, BlockMethods, RangeMethods,
           ControlMethods
  <1>. QED
    BY <1>1, <1>2 DEF ClassOf, Classes

LEMMA PureClass == ClassOf("pure") = "pure"
  <1>1. <<"pure", "pure">> \in Methods
    BY DEF Methods, TaskMethods, PlacingMethods, ProjectMethods, TemplateMethods,
           DetailMethods, ScheduleMethods, LeaseMethods, BlockMethods, RangeMethods
  <1>2. ASSUME NEW c \in {"read", "commit", "control"} PROVE <<"pure", c>> \notin Methods
    BY DEF Methods, TaskMethods, PlacingMethods, ProjectMethods, TemplateMethods,
           DetailMethods, ScheduleMethods, LeaseMethods, BlockMethods, RangeMethods
  <1>. QED
    BY <1>1, <1>2 DEF ClassOf, Classes


\* what the guard and the handler are told of a route
Proper(s) ==
    /\ s.class \in Classes /\ s.notifies \in BOOLEAN
    /\ Wakeful(s.class, s.notifies)
    /\ s.class = "commit" <=> "operation" \in Range(s.needs)

LEMMA MutationsAreProper ==
    \A m \in CommitMethods :
        /\ Proper(Shape(Creates(m))) /\ Proper(Shape(Changes(m))) /\ Proper(Shape(Acts(m)))
        /\ Proper(Shape(Handler(<<"path", "operation", "query">>, m)))
  BY CommitClass DEF Proper, Shape, Handler, Creates, Changes, Acts, Wakeful, Classes, Range

LEMMA ReadsAreProper ==
    \A m \in ReadMethods : \A needs \in {<<>>, <<"path">>, <<"path", "query">>} :
        Proper(Shape(Reads(needs, m)))
  BY ReadClass DEF Proper, Shape, Handler, Reads, Wakeful, Classes, Range

LEMMA ControlsAreProper ==
    \A m \in ControlMethods : Proper(Shape(Controls(m)))
  BY ControlClass DEF Proper, Shape, Handler, Controls, Wakeful, Classes, Range

LEMMA ParsersAreProper == Proper(Shape(Handler(<<"body">>, "pure")))
  BY PureClass DEF Proper, Shape, Handler, Wakeful, Classes, Range

\* Every route is proper: the mutations are those that ask for a key, and every
\* control-plane route wakes the coordinator itself.
LEMMA ShapesAreProper == \A s \in Shapes : Proper(s)
  <1>1. \A name \in DOMAIN TaskRoutes : Proper(Shape(TaskRoutes[name]))
    BY MutationsAreProper, ReadsAreProper
       DEF TaskRoutes, CommitMethods, ReadMethods
  <1>2. \A name \in DOMAIN StatusRoutes : Proper(Shape(StatusRoutes[name]))
    BY MutationsAreProper DEF StatusRoutes, CommitMethods
  <1>3. \A name \in DOMAIN PlacingRoutes : Proper(Shape(PlacingRoutes[name]))
    BY MutationsAreProper DEF PlacingRoutes, CommitMethods
  <1>4. \A name \in DOMAIN CatalogReads : Proper(Shape(CatalogReads[name]))
    BY MutationsAreProper, ReadsAreProper
       DEF CatalogReads, CommitMethods, ReadMethods
  <1>5. \A name \in DOMAIN CatalogCreates : Proper(Shape(CatalogCreates[name]))
    BY MutationsAreProper DEF CatalogCreates, CommitMethods
  <1>6. \A name \in DOMAIN CatalogPatches : Proper(Shape(CatalogPatches[name]))
    BY MutationsAreProper DEF CatalogPatches, CommitMethods
  <1>7. \A name \in DOMAIN CatalogDeletes : Proper(Shape(CatalogDeletes[name]))
    BY MutationsAreProper DEF CatalogDeletes, CommitMethods
  <1>8. \A name \in DOMAIN CommentRoutes : Proper(Shape(CommentRoutes[name]))
    BY MutationsAreProper, ReadsAreProper
       DEF CommentRoutes, CommitMethods, ReadMethods
  <1>9. \A name \in DOMAIN RelationRoutes : Proper(Shape(RelationRoutes[name]))
    BY MutationsAreProper, ReadsAreProper
       DEF RelationRoutes, CommitMethods, ReadMethods
  <1>10. \A name \in DOMAIN HistoryRoutes : Proper(Shape(HistoryRoutes[name]))
    BY MutationsAreProper, ReadsAreProper
       DEF HistoryRoutes, CommitMethods, ReadMethods
  <1>11. \A name \in DOMAIN ParserRoutes : Proper(Shape(ParserRoutes[name]))
    BY ParsersAreProper DEF ParserRoutes
  <1>12. \A name \in DOMAIN ReminderRoutes : Proper(Shape(ReminderRoutes[name]))
    BY MutationsAreProper, ReadsAreProper
       DEF ReminderRoutes, CommitMethods, ReadMethods
  <1>13. \A name \in DOMAIN LeaseRoutes : Proper(Shape(LeaseRoutes[name]))
    BY ControlsAreProper DEF LeaseRoutes, ControlMethods
  <1>14. \A name \in DOMAIN DeliveryRoutes : Proper(Shape(DeliveryRoutes[name]))
    BY ControlsAreProper DEF DeliveryRoutes, ControlMethods
  <1>15. \A name \in DOMAIN BlockRoutes : Proper(Shape(BlockRoutes[name]))
    BY MutationsAreProper DEF BlockRoutes, CommitMethods
  <1>16. \A name \in DOMAIN ReplanRoutes : Proper(Shape(ReplanRoutes[name]))
    BY MutationsAreProper, ReadsAreProper
       DEF ReplanRoutes, CommitMethods, ReadMethods
  <1>17. \A name \in DOMAIN SlotRoutes : Proper(Shape(SlotRoutes[name]))
    BY MutationsAreProper DEF SlotRoutes, CommitMethods
  <1>18. \A name \in DOMAIN SlotTaskRoutes : Proper(Shape(SlotTaskRoutes[name]))
    BY MutationsAreProper DEF SlotTaskRoutes, CommitMethods
  <1>. QED
    BY <1>1, <1>2, <1>3, <1>4, <1>5, <1>6, <1>7, <1>8, <1>9,
       <1>10, <1>11, <1>12, <1>13, <1>14, <1>15, <1>16, <1>17, <1>18 DEF Shapes, Routes

-----------------------------------------------------------------------------
(* Requests *)

\* A request at a stage of flight is a record of flight.
LEMMA FlyingRecords ==
    ASSUME Typed, NEW r \in Slots
    PROVE  /\ At(r, InFlight) => requests[r] \in Flying
           /\ requests[r] \in Flying => At(r, InFlight)
           /\ ~At(r, InFlight) => requests[r] \in Resting
  <1>1. requests[r] \in Resting \union Flying
    BY DEF Typed
  <1>2. ASSUME NEW q \in Resting PROVE q.stage \notin InFlight
    BY DEF Resting, Idle, Left, Done, InFlight
  <1>3. ASSUME NEW q \in Flying PROVE q.stage \in InFlight
    BY DEF Flying
  <1>. QED
    BY <1>1, <1>2, <1>3 DEF At

\* A single request is replaced by a sound one, while receipts only grow.
LEMMA OneRequest ==
    ASSUME Typed, RequestsSound, receipts \subseteq receipts',
           NEW r \in Slots, NEW q \in Resting \union Flying,
           requests' = [requests EXCEPT ![r] = q],
           q.stage \in InFlight => Consistent(q, receipts'),
           Settled(q, receipts')
    PROVE  /\ requests' \in [Slots -> Resting \union Flying]
           /\ RequestsSound'
  <1>1. requests \in [Slots -> Resting \union Flying]
    BY DEF Typed
  <1>2. requests' \in [Slots -> Resting \union Flying]
    BY <1>1
  <1>3. ASSUME NEW s \in Slots, s # r PROVE requests'[s] = requests[s]
    BY <1>1, <1>3
  <1>4. requests'[r] = q
    BY <1>1
  <1>5. ASSUME NEW s \in Slots
        PROVE  /\ At(s, InFlight)' => Consistent(requests'[s], receipts')
               /\ Settled(requests'[s], receipts')
    <2>1. CASE s = r
      BY <2>1, <1>4 DEF At
    <2>2. CASE s # r
      <3>1. Settled(requests[s], receipts) /\ (At(s, InFlight) => Consistent(requests[s], receipts))
        BY DEF RequestsSound
      <3>. QED
        BY <2>2, <3>1, <1>3 DEF At, Settled, Consistent
    <2>. QED
      BY <2>1, <2>2
  <1>. QED
    BY <1>2, <1>5 DEF RequestsSound

-----------------------------------------------------------------------------
(* The queue *)

\* A request's way: it does not come back to the door, and waits for the
\* command it was let in with.
Onward(p, q) ==
    /\ q.stage \in {"idle", "reading"} => p.stage \in {"idle", "reading"}
    /\ q.stage = "queued" => p.stage = "queued" /\ q.class = p.class /\ q.op = p.op

LEMMA MatchesOnward ==
    ASSUME NEW p, NEW q, Onward(p, q), NEW e, Matches(e, p)
    PROVE  Matches(e, q)
  BY DEF Onward, Matches

\* A queue that loses some of its commands at either end stays sound.
LEMMA QueueShrinks ==
    ASSUME Typed, QueueSound, \A r \in Slots : Onward(requests[r], requests'[r]),
           queue' = queue \/ queue' = <<>> \/ (queue # <<>> /\ queue' = Tail(queue))
    PROVE  queue' \in Seq(Entries) /\ QueueSound'
  <1>1. queue \in Seq(Entries) /\ Len(queue) \in Nat
    BY DEF Typed
  <1>2. queue' \in Seq(Entries)
    <2>1. <<>> \in Seq(Entries)
      OBVIOUS
    <2>2. queue # <<>> => Tail(queue) \in Seq(Entries)
      BY <1>1
    <2>. QED
      BY <1>1, <2>1, <2>2
  <1>3. ASSUME NEW i \in 1..Len(queue')
        PROVE  \E j \in 1..Len(queue) : queue'[i] = queue[j]
    <2>1. CASE queue' = queue
      BY <2>1, <1>3
    <2>2. CASE queue' = <<>>
      BY <2>2, <1>3
    <2>3. CASE queue # <<>> /\ queue' = Tail(queue)
      <3>1. Len(queue) # 0
        BY <2>3, <1>1
      <3>2. i \in 1..(Len(queue) - 1)
        BY <2>3, <3>1, <1>1, <1>3
      <3>3. queue'[i] = queue[i + 1] /\ i + 1 \in 1..Len(queue)
        BY <2>3, <3>1, <3>2, <1>1
      <3>. QED
        BY <3>3
    <2>. QED
      BY <2>1, <2>2, <2>3
  <1>4. ASSUME NEW i \in 1..Len(queue')
        PROVE  /\ queue'[i].class = "wake" <=> queue'[i].from = None
               /\ Keyed(queue'[i].class, queue'[i].op)
               /\ \A r \in Slots : queue'[i].from = r => Matches(queue'[i], requests'[r])
    <2>1. PICK j \in 1..Len(queue) : queue'[i] = queue[j]
      BY <1>3, <1>4
    <2>2. /\ queue[j].class = "wake" <=> queue[j].from = None
          /\ Keyed(queue[j].class, queue[j].op)
          /\ \A r \in Slots : queue[j].from = r => Matches(queue[j], requests[r])
      BY DEF QueueSound
    <2>3. ASSUME NEW r \in Slots, queue[j].from = r PROVE Matches(queue[j], requests'[r])
      BY <2>2, <2>3, MatchesOnward
    <2>. QED
      BY <2>1, <2>2, <2>3
  <1>. QED
    BY <1>2, <1>4 DEF QueueSound

\* A command is appended for a request that was at the door.
LEMMA QueueGrows ==
    ASSUME Typed, QueueSound, NEW e \in Entries, queue' = Append(queue, e),
           e.class = "wake" <=> e.from = None, Keyed(e.class, e.op),
           \A r \in Slots : e.from = r => Matches(e, requests'[r]),
           \A r \in Slots : e.from = r => At(r, {"reading"}),
           \A r \in Slots : e.from # r => requests'[r] = requests[r]
    PROVE  queue' \in Seq(Entries) /\ QueueSound'
  <1>1. queue \in Seq(Entries) /\ Len(queue) \in Nat
    BY DEF Typed
  <1>2. queue' \in Seq(Entries) /\ Len(queue') = Len(queue) + 1
    BY <1>1
  <1>3. ASSUME NEW i \in 1..Len(queue')
        PROVE  /\ queue'[i].class = "wake" <=> queue'[i].from = None
               /\ Keyed(queue'[i].class, queue'[i].op)
               /\ \A r \in Slots : queue'[i].from = r => Matches(queue'[i], requests'[r])
    <2>1. CASE i = Len(queue) + 1
      <3>1. queue'[i] = e
        BY <2>1, <1>1
      <3>. QED
        BY <3>1
    <2>2. CASE i # Len(queue) + 1
      <3>1. i \in 1..Len(queue)
        BY <2>2, <1>1, <1>2, <1>3
      <3>2. queue'[i] = queue[i]
        BY <3>1, <1>1
      <3>3. /\ queue[i].class = "wake" <=> queue[i].from = None
            /\ Keyed(queue[i].class, queue[i].op)
            /\ \A r \in Slots : queue[i].from = r => Matches(queue[i], requests[r])
        BY <3>1 DEF QueueSound
      <3>4. ASSUME NEW r \in Slots, queue[i].from = r PROVE Matches(queue[i], requests'[r])
        <4>1. Matches(queue[i], requests[r])
          BY <3>3, <3>4
        <4>2. e.from # r
          BY <4>1 DEF Matches, At
        <4>3. requests'[r] = requests[r]
          BY <4>2
        <4>. QED
          BY <4>1, <4>3
      <3>. QED
        BY <3>2, <3>3, <3>4
    <2>. QED
      BY <2>1, <2>2
  <1>. QED
    BY <1>2, <1>3 DEF QueueSound

-----------------------------------------------------------------------------
(* Where a revision is *)

LEMMA OnceKept ==
    ASSUME EachOnce, announced' = announced, gone' = gone, revision' = revision,
           \A r \in Slots : \A n \in 1..MaxRevision : Holds(r, n)' <=> Holds(r, n)
    PROVE  EachOnce'
  BY DEF EachOnce, Untouched, Published, Abandoned, Carried

\* A handler that holds a revision goes: it has published it, or it is lost.
LEMMA OncePassedOn ==
    ASSUME Typed, EachOnce, NEW r \in Slots, NEW m \in 1..MaxRevision, Holds(r, m),
           revision' = revision,
           \A s \in Slots : \A n \in 1..MaxRevision : Holds(s, n)' <=> (Holds(s, n) /\ s # r),
           \/ announced' = [announced EXCEPT ![m] = @ + 1] /\ gone' = gone
           \/ announced' = announced /\ gone' = gone \union {m}
    PROVE  EachOnce'
  <1>1. announced \in [1..MaxRevision -> Nat]
    BY DEF Typed
  <1>2. Carried(m) /\ m <= revision
    <2>1. m > revision => Untouched(m)
      BY DEF EachOnce
    <2>2. m <= revision => Published(m) \/ Abandoned(m) \/ Carried(m)
      BY DEF EachOnce
    <2>3. m \in Nat /\ revision \in Nat
      BY ServerAssumption DEF Typed
    <2>. QED
      BY <2>1, <2>2, <2>3 DEF Untouched, Published, Abandoned
  <1>3. ~(m > revision)
    BY <1>2, ServerAssumption DEF Typed
  <1>4. \A n \in 1..MaxRevision : n # m => ~Holds(r, n)
    BY DEF Holds
  <1>5. \A s \in Slots : ~Holds(s, m)'
    BY <1>2 DEF Carried
  <1>6. Published(m)' \/ Abandoned(m)'
    <2>1. CASE announced' = [announced EXCEPT ![m] = @ + 1] /\ gone' = gone
      <3>1. announced'[m] = 1 /\ m \notin gone'
        BY <2>1, <1>1, <1>2 DEF Carried
      <3>. QED
        BY <3>1, <1>5 DEF Published
    <2>2. CASE announced' = announced /\ gone' = gone \union {m}
      BY <2>2, <1>2, <1>5 DEF Carried, Abandoned
    <2>. QED
      BY <2>1, <2>2
  <1>7. ASSUME NEW n \in 1..MaxRevision, n # m
        PROVE  /\ announced'[n] = announced[n]
               /\ n \in gone' <=> n \in gone
               /\ \A s \in Slots : Holds(s, n)' <=> Holds(s, n)
    <2>1. announced'[n] = announced[n] /\ (n \in gone' <=> n \in gone)
      BY <1>1, <1>7
    <2>2. \A s \in Slots : Holds(s, n)' <=> Holds(s, n)
      BY <1>4, <1>7
    <2>. QED
      BY <2>1, <2>2
  <1>8. ASSUME NEW n \in 1..MaxRevision
        PROVE  /\ n > revision' => Untouched(n)'
               /\ n <= revision' => Published(n)' \/ Abandoned(n)' \/ Carried(n)'
    <2>1. CASE n = m
      BY <2>1, <1>3, <1>6
    <2>2. CASE n # m
      BY <2>2, <1>7 DEF EachOnce, Untouched, Published, Abandoned, Carried
    <2>. QED
      BY <2>1, <2>2
  <1>. QED
    BY <1>8 DEF EachOnce

\* A commit takes the next number, with its handler or, if that has left, without.
LEMMA OnceCommitted ==
    ASSUME Typed, EachOnce, revision < MaxRevision, revision' = revision + 1,
           announced' = announced,
           \/ /\ gone' = gone
              /\ \E r \in Slots : \A s \in Slots : \A n \in 1..MaxRevision :
                     Holds(s, n)' <=> (Holds(s, n) \/ (s = r /\ n = revision + 1))
           \/ /\ gone' = gone \union {revision + 1}
              /\ \A s \in Slots : \A n \in 1..MaxRevision : Holds(s, n)' <=> Holds(s, n)
    PROVE  EachOnce'
  <1>0. PICK m \in 1..MaxRevision : m = revision + 1
    BY ServerAssumption DEF Typed
  <1>1. revision \in Nat /\ MaxRevision \in Nat /\ m \in Nat /\ m > revision
    BY <1>0, ServerAssumption DEF Typed
  <1>2. Untouched(m)
    BY <1>1 DEF EachOnce
  <1>3. Carried(m)' \/ Abandoned(m)'
    <2>1. CASE /\ gone' = gone
               /\ \E r \in Slots : \A s \in Slots : \A n \in 1..MaxRevision :
                     Holds(s, n)' <=> (Holds(s, n) \/ (s = r /\ n = revision + 1))
      BY <2>1, <1>0, <1>2 DEF Untouched, Carried
    <2>2. CASE /\ gone' = gone \union {revision + 1}
               /\ \A s \in Slots : \A n \in 1..MaxRevision : Holds(s, n)' <=> Holds(s, n)
      BY <2>2, <1>0, <1>2 DEF Untouched, Abandoned
    <2>. QED
      BY <2>1, <2>2
  <1>4. ASSUME NEW n \in 1..MaxRevision, n # m
        PROVE  /\ n \in gone' <=> n \in gone
               /\ \A s \in Slots : Holds(s, n)' <=> Holds(s, n)
    BY <1>4, <1>0
  <1>5. ASSUME NEW n \in 1..MaxRevision
        PROVE  /\ n > revision' => Untouched(n)'
               /\ n <= revision' => Published(n)' \/ Abandoned(n)' \/ Carried(n)'
    <2>1. CASE n = m
      <3>1. ~(n > revision')
        BY <2>1, <1>0, <1>1
      <3>. QED
        BY <2>1, <3>1, <1>3
    <2>2. CASE n # m
      <3>1. n \in Nat /\ (n > revision' => n > revision) /\ (n <= revision' => n <= revision)
        BY <2>2, <1>0, <1>1
      <3>2. /\ n > revision => Untouched(n)
            /\ n <= revision => Published(n) \/ Abandoned(n) \/ Carried(n)
        BY DEF EachOnce
      <3>3. /\ Untouched(n) => Untouched(n)'
            /\ Published(n) => Published(n)'
            /\ Abandoned(n) => Abandoned(n)'
            /\ Carried(n) => Carried(n)'
        BY <2>2, <1>4 DEF Untouched, Published, Abandoned, Carried
      <3>. QED
        BY <3>1, <3>2, <3>3
    <2>. QED
      BY <2>1, <2>2
  <1>. QED
    BY <1>5 DEF EachOnce

-----------------------------------------------------------------------------
(* The coordinator's knowledge *)

LEMMA WakeKept ==
    ASSUME WakeKnown, coordinator' = coordinator, nextWake' = nextWake, Unwarned' => Unwarned
    PROVE  WakeKnown'
  BY DEF WakeKnown

LEMMA WakeWarned ==
    ASSUME ~Unwarned'
    PROVE  WakeKnown'
  BY DEF WakeKnown

-----------------------------------------------------------------------------
(* The door *)

LEMMA RecentAttempts ==
    ASSUME Typed
    PROVE  Recent(clock) \in Seq(Nat) /\ Len(Recent(clock)) <= Len(attempts)
  <1> DEFINE fresh == {i \in DOMAIN attempts : clock - attempts[i] < AuthWindow}
  <1>1. attempts \in Seq(Nat) /\ Len(attempts) \in Nat /\ DOMAIN attempts = 1..Len(attempts)
    BY DEF Typed
  <1>2. CASE fresh = {}
    BY <1>1, <1>2 DEF Recent
  <1>3. CASE fresh # {}
    <2>1. fresh \subseteq Nat
      BY <1>1
    <2>2. PICK first \in fresh : \A i \in fresh : first <= i
      <3> HIDE DEF fresh
      <3>. QED
        BY <1>3, <2>1, LeastNatural
    <2>3. Min(fresh) \in fresh
      <3> HIDE DEF fresh
      <3>. QED
        BY <2>2 DEF Min
    <2>4. Min(fresh) \in 1..Len(attempts)
      BY <2>3, <1>1
    <2>5. PICK k \in 1..Len(attempts) : k = Min(fresh)
      <3> HIDE DEF fresh
      <3>. QED
        BY <2>4
    <2>6. Recent(clock) = SubSeq(attempts, k, Len(attempts))
      BY <1>3, <2>5 DEF Recent
    <2>7. k \in Nat /\ 1 <= k /\ k <= Len(attempts)
      BY <1>1
    <2>8. SubSeq(attempts, k, Len(attempts)) \in Seq(Nat)
      BY <1>1, <2>7
    <2>9. Len(SubSeq(attempts, k, Len(attempts))) = Len(attempts) - k + 1
      BY <1>1, <2>7
    <2>. QED
      BY <2>6, <2>7, <2>8, <2>9, <1>1
  <1>. QED
    BY <1>2, <1>3

\* What the guard makes of the attempts it remembers, and its status.
LEMMA GuardFacts ==
    ASSUME Typed, NEW shape \in Shapes, NEW wrong \in Defects
    PROVE  /\ Guard(shape, wrong).status \in Nat
           /\ Guard(shape, wrong).attempts \in Seq(Nat)
           /\ Len(Guard(shape, wrong).attempts) <= AuthAttempts
  <1>1. attempts \in Seq(Nat) /\ Len(attempts) <= AuthAttempts /\ Len(attempts) \in Nat
    BY DEF Typed
  <1>2. AuthAttempts \in Nat /\ clock \in Nat
    BY ServerAssumption DEF Typed
  <1>3. /\ Recent(clock) \in Seq(Nat) /\ Len(Recent(clock)) <= Len(attempts)
        /\ Len(Recent(clock)) \in Nat
    BY RecentAttempts
  <1>4. /\ Limited(clock).status \in Nat /\ Limited(clock).attempts \in Seq(Nat)
        /\ Len(Limited(clock).attempts) <= AuthAttempts
    <2>1. CASE Len(Recent(clock)) >= AuthAttempts
      <3>1. Limited(clock) = [status |-> 429, attempts |-> Recent(clock)]
        BY <2>1 DEF Limited
      <3>. QED
        BY <3>1, <1>1, <1>2, <1>3
    <2>2. CASE ~(Len(Recent(clock)) >= AuthAttempts)
      <3>1. Limited(clock) = [status |-> 401, attempts |-> Append(Recent(clock), clock)]
        BY <2>2 DEF Limited
      <3>2. /\ Append(Recent(clock), clock) \in Seq(Nat)
            /\ Len(Append(Recent(clock), clock)) = Len(Recent(clock)) + 1
        BY <1>2, <1>3
      <3>. QED
        BY <3>1, <3>2, <1>2, <1>3, <2>2
    <2>. QED
      BY <2>1, <2>2
  <1>5. \/ Guard(shape, wrong) = [status |-> 421, attempts |-> attempts]
        \/ Guard(shape, wrong) = [status |-> 403, attempts |-> attempts]
        \/ Guard(shape, wrong) = Limited(clock)
        \/ Guard(shape, wrong) = [status |-> 200, attempts |-> attempts]
    BY DEF Guard
  <1>. QED
    BY <1>1, <1>4, <1>5

LEMMA AdmissionFacts ==
    ASSUME Typed, NEW shape \in Shapes, NEW wrong \in Defects, NEW op \in Ops
    PROVE  LET admission == Admission(shape, wrong, op)
               q == admission.request
           IN  /\ admission.attempts \in Seq(Nat) /\ Len(admission.attempts) <= AuthAttempts
               /\ \/ \E status \in Nat : q = Refused(status)
                  \/ /\ q \in Flying /\ q.stage = "reading"
                     /\ Consistent(q, receipts)
  <1> DEFINE verdict == Guard(shape, wrong)
             status == Demanded(shape, wrong)
             key == IF "operation" \in Range(shape.needs) THEN op ELSE None
             q == Admission(shape, wrong, op).request
  <1>1. Admission(shape, wrong, op).attempts = verdict.attempts
    BY DEF Admission
  <1>2. verdict.status \in Nat
    BY GuardFacts
  <1>3. status \in {200, 400, 413, 422}
    BY DEF Demanded
  <1>4. \/ q = Refused(verdict.status)
        \/ q = Declined(status)
        \/ q = Reading(200, shape, key)
    BY DEF Admission
  <1>5. Proper(shape)
    BY ShapesAreProper
  <1>6. Reading(200, shape, key) \in Flying /\ Reading(200, shape, key).stage = "reading"
    <2>1. key \in Ops \union {None}
      OBVIOUS
    <2>. QED
      BY <2>1, <1>5 DEF Reading, Flying, InFlight, Proper
  <1>7. Consistent(Reading(200, shape, key), receipts)
    <2>1. Keyed(shape.class, key)
      BY <1>5, ServerAssumption DEF Proper, Keyed
    <2>. QED
      BY <2>1, <1>5 DEF Consistent, Reading, Proper
  <1>8. Declined(status) \in Flying /\ Declined(status).stage = "reading"
    <2>1. status \in Nat
      BY <1>3
    <2>. QED
      BY <2>1 DEF Declined, Reading, Flying, InFlight, Classes
  <1>9. Consistent(Declined(status), receipts)
    BY DEF Consistent, Declined, Reading, Wakeful, Keyed
  <1>10. /\ verdict.attempts \in Seq(Nat) /\ Len(verdict.attempts) <= AuthAttempts
    BY GuardFacts
  <1> HIDE DEF verdict, status, key, q
  <1>11. \/ \E s \in Nat : q = Refused(s)
         \/ q \in Flying /\ q.stage = "reading" /\ Consistent(q, receipts)
    BY <1>2, <1>4, <1>6, <1>7, <1>8, <1>9
  <1>. QED
    BY <1>1, <1>10, <1>11 DEF q

-----------------------------------------------------------------------------
(* The steps of a request *)

\* What is common to the steps in which a single request moves on.
LEMMA Moves ==
    ASSUME Typed, NEW r \in Slots, NEW q \in Resting \union Flying,
           requests' = [requests EXCEPT ![r] = q]
    PROVE  /\ requests'[r] = q
           /\ \A s \in Slots : s # r => requests'[s] = requests[s]
           /\ Onward(requests[r], q)
                  => \A s \in Slots : Onward(requests[s], requests'[s])
           /\ \A n \in 1..MaxRevision : ~(q.stage = "replied" /\ q.news = n)
                  => \A s \in Slots : Holds(s, n)' <=> (Holds(s, n) /\ s # r)
           /\ ~(q.stage = "replied" /\ q.changed)
                  => \A s \in Slots : Owes(s)' <=> (Owes(s) /\ s # r)
  <1>1. requests \in [Slots -> Resting \union Flying]
    BY DEF Typed
  <1>2. requests'[r] = q /\ \A s \in Slots : s # r => requests'[s] = requests[s]
    BY <1>1
  <1>3. ASSUME Onward(requests[r], q), NEW s \in Slots PROVE Onward(requests[s], requests'[s])
    BY <1>2, <1>3 DEF Onward
  <1>4. ASSUME NEW n \in 1..MaxRevision, ~(q.stage = "replied" /\ q.news = n), NEW s \in Slots
        PROVE  Holds(s, n)' <=> (Holds(s, n) /\ s # r)
    BY <1>2, <1>4 DEF Holds, At
  <1>5. ASSUME ~(q.stage = "replied" /\ q.changed), NEW s \in Slots
        PROVE  Owes(s)' <=> (Owes(s) /\ s # r)
    BY <1>2, <1>5 DEF Owes
  <1>. QED
    BY <1>2, <1>3, <1>4, <1>5

LEMMA ArriveKeeps ==
    ASSUME IInv, NEW r \in Slots, Arrive(r)
    PROVE  IInv'
  <1>1. Typed /\ RequestsSound /\ QueueSound /\ EachOnce /\ WakeKnown
    BY DEF IInv
  <1>2. PICK shape \in Shapes, wrong \in Defects, op \in Ops :
            /\ attempts' = Admission(shape, wrong, op).attempts
            /\ requests' = [requests EXCEPT ![r] = Admission(shape, wrong, op).request]
    <2>1. PICK c \in Shapes \X Defects \X Ops :
              /\ attempts' = Admission(c[1], c[2], c[3]).attempts
              /\ requests' = [requests EXCEPT ![r] = Admission(c[1], c[2], c[3]).request]
      BY DEF Arrive
    <2>. QED
      BY <2>1
  <1>3. PICK q : q = Admission(shape, wrong, op).request
    OBVIOUS
  <1>4. /\ attempts' \in Seq(Nat) /\ Len(attempts') <= AuthAttempts
        /\ \/ \E status \in Nat : q = Refused(status)
           \/ q \in Flying /\ q.stage = "reading" /\ Consistent(q, receipts)
    BY <1>1, <1>2, <1>3, AdmissionFacts
  <1>5. /\ q \in Resting \union Flying /\ q.stage \in {"done", "reading"}
        /\ q.stage \in InFlight => Consistent(q, receipts)
        /\ Settled(q, receipts)
    BY <1>4 DEF Resting, Refused, Done, Settled, InFlight
  <1>6. requests' = [requests EXCEPT ![r] = q]
    BY <1>2, <1>3
  <1>7. requests' \in [Slots -> Resting \union Flying] /\ RequestsSound'
    BY <1>1, <1>5, <1>6, OneRequest DEF Arrive, database
  <1>8. /\ \A s \in Slots : Onward(requests[s], requests'[s])
        /\ \A n \in 1..MaxRevision, s \in Slots : Holds(s, n)' <=> (Holds(s, n) /\ s # r)
        /\ \A s \in Slots : Owes(s)' <=> (Owes(s) /\ s # r)
    <2>1. Onward(requests[r], q)
      BY <1>5 DEF Onward, Arrive, At
    <2>. QED
      BY <2>1, <1>1, <1>5, <1>6, Moves
  <1>9. \A n \in 1..MaxRevision : ~Holds(r, n) /\ ~Owes(r)
    BY DEF Holds, Arrive, At, Owes
  <1>10. Typed'
    BY <1>1, <1>4, <1>7 DEF Arrive, Typed, database, ghosts, limits
  <1>11. QueueSound'
    BY <1>1, <1>8, QueueShrinks DEF Arrive
  <1>12. EachOnce'
    BY <1>1, <1>8, <1>9, OnceKept DEF Arrive, database, ghosts
  <1>13. WakeKnown'
    <2>1. ~Owes(r)
      BY DEF Arrive, At, Owes
    <2>2. Unwarned' => Unwarned
      BY <1>8, <2>1 DEF Arrive, ghosts, Unwarned
    <2>. QED
      BY <1>1, <2>2, WakeKept DEF Arrive, database
  <1>. QED
    BY <1>7, <1>10, <1>11, <1>12, <1>13 DEF IInv

LEMMA LeaveKeeps ==
    ASSUME IInv, NEW r \in Slots, Leave(r)
    PROVE  IInv'
  <1>1. Typed /\ RequestsSound /\ QueueSound /\ EachOnce /\ WakeKnown
    BY DEF IInv
  <1>2. /\ Left \in Resting \union Flying /\ Left.stage = "left" /\ Settled(Left, receipts)
        /\ requests' = [requests EXCEPT ![r] = Left]
    BY DEF Leave, Left, Resting, Settled
  <1>3. requests' \in [Slots -> Resting \union Flying] /\ RequestsSound'
    BY <1>1, <1>2, OneRequest DEF Leave, database, InFlight
  <1>4. requests[r] \in Flying /\ At(r, InFlight)
    BY <1>1, FlyingRecords DEF Leave
  <1>5. /\ \A s \in Slots : Onward(requests[s], requests'[s])
        /\ \A n \in 1..MaxRevision, s \in Slots : Holds(s, n)' <=> (Holds(s, n) /\ s # r)
        /\ \A s \in Slots : Owes(s)' <=> (Owes(s) /\ s # r)
    <2>1. Onward(requests[r], Left)
      BY <1>2 DEF Onward
    <2>. QED
      BY <2>1, <1>1, <1>2, Moves
  <1>6. gone' \subseteq 1..MaxRevision /\ missed' \in BOOLEAN
    <2>1. requests[r].news \in (1..MaxRevision) \union {None}
      BY <1>4 DEF Flying
    <2>2. missed' \in BOOLEAN
      BY DEF Leave
    <2>. QED
      BY <1>1, <2>1, <2>2 DEF Leave, Typed
  <1>7. Typed'
    BY <1>1, <1>3, <1>6 DEF Leave, Typed, database, limits
  <1>8. QueueSound'
    BY <1>1, <1>5, QueueShrinks DEF Leave
  <1>9. EachOnce'
    <2>1. CASE \E n \in 1..MaxRevision : Holds(r, n)
      <3>1. PICK n \in 1..MaxRevision : Holds(r, n)
        BY <2>1
      <3>2. n # None
        BY ServerAssumption
      <3>3. gone' = gone \union {n}
        BY <3>1, <3>2 DEF Leave, Holds
      <3>. QED
        BY <1>1, <1>5, <3>1, <3>3, OncePassedOn DEF Leave, database
    <2>2. CASE \A n \in 1..MaxRevision : ~Holds(r, n)
      <3>1. requests[r].news \in (1..MaxRevision) \union {None}
        BY <1>4 DEF Flying
      <3>2. gone' = gone
        BY <2>2, <3>1 DEF Leave, Holds
      <3>. QED
        BY <1>1, <1>5, <2>2, <3>2, OnceKept DEF Leave, database
    <2>. QED
      BY <2>1, <2>2
  <1>10. WakeKnown'
    <2>1. Unwarned' => Unwarned
      <3>1. SUFFICES ASSUME Unwarned' PROVE Unwarned
        OBVIOUS
      <3>2. ~missed /\ ~Owes(r) /\ ~permit
        BY <3>1 DEF Leave, Owes, At, Unwarned
      <3>. QED
        BY <1>5, <3>1, <3>2 DEF Unwarned
    <2>. QED
      BY <1>1, <2>1, WakeKept DEF Leave, database
  <1>. QED
    BY <1>3, <1>7, <1>8, <1>9, <1>10 DEF IInv

\* A handler that answers without having waited for the thread.
LEMMA RefusalKeeps ==
    ASSUME IInv, NEW r \in Slots, At(r, {"reading"}), NEW status \in Nat,
           requests' = [requests EXCEPT ![r] = Refused(status)], UNCHANGED queue,
           UNCHANGED <<phase, attempts, worker, database, ghosts, permit, coordinator, limits>>
    PROVE  IInv'
  <1>1. Typed /\ RequestsSound /\ QueueSound /\ EachOnce /\ WakeKnown
    BY DEF IInv
  <1>2. /\ Refused(status) \in Resting \union Flying /\ Refused(status).stage = "done"
        /\ Settled(Refused(status), receipts)
    BY DEF Refused, Done, Resting, Settled
  <1>3. requests' \in [Slots -> Resting \union Flying] /\ RequestsSound'
    BY <1>1, <1>2, OneRequest DEF database, InFlight
  <1>4. /\ \A s \in Slots : Onward(requests[s], requests'[s])
        /\ \A n \in 1..MaxRevision, s \in Slots : Holds(s, n)' <=> (Holds(s, n) /\ s # r)
        /\ \A s \in Slots : Owes(s)' <=> (Owes(s) /\ s # r)
    <2>1. Onward(requests[r], Refused(status))
      BY <1>2 DEF Onward
    <2>. QED
      BY <2>1, <1>1, <1>2, Moves
  <1>5. ~Owes(r) /\ \A n \in 1..MaxRevision : ~Holds(r, n)
    BY DEF Owes, Holds, At
  <1>6. Typed'
    BY <1>1, <1>3 DEF Typed, database, ghosts, limits
  <1>7. QueueSound'
    BY <1>1, <1>4, QueueShrinks
  <1>8. EachOnce'
    BY <1>1, <1>4, <1>5, OnceKept DEF database, ghosts
  <1>9. WakeKnown'
    <2>1. Unwarned' => Unwarned
      BY <1>4, <1>5 DEF ghosts, Unwarned
    <2>. QED
      BY <1>1, <2>1, WakeKept DEF database
  <1>. QED
    BY <1>3, <1>6, <1>7, <1>8, <1>9 DEF IInv

LEMMA SendingKeeps ==
    ASSUME IInv, NEW r \in Slots, At(r, {"reading"}),
           requests' = [requests EXCEPT ![r].stage = "queued"],
           queue' = Append(queue, [from |-> r, class |-> requests[r].class,
                                   op |-> requests[r].op]),
           UNCHANGED <<phase, attempts, worker, database, ghosts, permit, coordinator, limits>>
    PROVE  IInv'
  <1>1. Typed /\ RequestsSound /\ QueueSound /\ EachOnce /\ WakeKnown
    BY DEF IInv
  <1>2. requests[r] \in Flying /\ At(r, InFlight)
    BY <1>1, FlyingRecords DEF At, InFlight
  <1>3. PICK p : p = requests[r]
    OBVIOUS
  <1>4. PICK q : q = [p EXCEPT !.stage = "queued"]
    OBVIOUS
  <1>5. Consistent(p, receipts) /\ p.stage = "reading"
    BY <1>1, <1>2, <1>3 DEF RequestsSound, At
  <1>6. /\ q \in Flying /\ q.stage = "queued" /\ q.status = p.status /\ q.class = p.class
        /\ q.notifies = p.notifies /\ q.op = p.op /\ q.news = p.news /\ q.changed = p.changed
    BY <1>2, <1>3, <1>4 DEF Flying, InFlight
  <1>7. Consistent(q, receipts) /\ Settled(q, receipts)
    BY <1>5, <1>6 DEF Consistent, Settled
  <1>8. requests' = [requests EXCEPT ![r] = q]
    BY <1>1, <1>3, <1>4 DEF Typed
  <1>9. requests' \in [Slots -> Resting \union Flying] /\ RequestsSound'
    BY <1>1, <1>6, <1>7, <1>8, OneRequest DEF database
  <1>10. /\ \A s \in Slots : s # r => requests'[s] = requests[s]
         /\ requests'[r] = q
         /\ \A n \in 1..MaxRevision, s \in Slots : Holds(s, n)' <=> (Holds(s, n) /\ s # r)
         /\ \A s \in Slots : Owes(s)' <=> (Owes(s) /\ s # r)
    BY <1>1, <1>6, <1>8, Moves
  <1>11. ~Owes(r) /\ \A n \in 1..MaxRevision : ~Holds(r, n)
    BY DEF Owes, Holds, At
  <1>12. queue' \in Seq(Entries) /\ QueueSound'
    <2>1. PICK e : e = [from |-> r, class |-> requests[r].class, op |-> requests[r].op]
      OBVIOUS
    <2>2. e.from = r /\ e.class = p.class /\ e.op = p.op /\ queue' = Append(queue, e)
      BY <2>1, <1>3
    <2>3. e \in Entries /\ e.class # "wake"
      BY <2>1, <1>2, <1>3 DEF Entries, Flying, Classes
    <2>4. e.from # None
      BY <2>2, ServerAssumption
    <2>5. Keyed(e.class, e.op)
      BY <2>2, <1>5 DEF Consistent
    <2>6. Matches(e, requests'[r])
      BY <2>2, <1>6, <1>10 DEF Matches
    <2>. QED
      BY <1>1, <1>10, <2>2, <2>3, <2>4, <2>5, <2>6, QueueGrows
  <1>13. Typed'
    BY <1>1, <1>9, <1>12 DEF Typed, database, ghosts, limits
  <1>14. EachOnce'
    BY <1>1, <1>10, <1>11, OnceKept DEF database, ghosts
  <1>15. WakeKnown'
    <2>1. Unwarned' => Unwarned
      BY <1>10, <1>11 DEF ghosts, Unwarned
    <2>. QED
      BY <1>1, <2>1, WakeKept DEF database
  <1>. QED
    BY <1>9, <1>12, <1>13, <1>14, <1>15 DEF IInv

LEMMA HandleKeeps ==
    ASSUME IInv, NEW r \in Slots, Handle(r)
    PROVE  IInv'
  <1>1. requests[r].status \in Nat /\ At(r, {"reading"})
    <2>1. At(r, {"reading"}) /\ Typed
      BY DEF Handle, IInv
    <2>2. requests[r] \in Flying
      BY <2>1, FlyingRecords DEF At, InFlight
    <2>. QED
      BY <2>1, <2>2 DEF Flying
  <1>2. UNCHANGED <<phase, attempts, worker, database, ghosts, permit, coordinator, limits>>
    BY DEF Handle
  <1>3. \/ \E status \in Nat : requests' = [requests EXCEPT ![r] = Refused(status)]
                               /\ UNCHANGED queue
        \/ /\ requests' = [requests EXCEPT ![r].stage = "queued"]
           /\ queue' = Append(queue, [from |-> r, class |-> requests[r].class,
                                      op |-> requests[r].op])
    BY <1>1 DEF Handle, Submit
  <1>. QED
    BY <1>1, <1>2, <1>3, RefusalKeeps, SendingKeeps

\* The handler's last step: what it publishes and whom it tells.
LEMMA ResumeKeeps ==
    ASSUME IInv, NEW r \in Slots, Resume(r)
    PROVE  IInv'
  <1>1. Typed /\ RequestsSound /\ QueueSound /\ EachOnce /\ WakeKnown
    BY DEF IInv
  <1>2. requests[r] \in Flying /\ At(r, InFlight) /\ requests[r].stage = "replied"
    BY <1>1, FlyingRecords DEF Resume, At, InFlight
  <1>3. Consistent(requests[r], receipts)
    BY <1>1, <1>2 DEF RequestsSound
  <1>4. PICK q : q = IF requests[r].status = 200 THEN Done(200, requests[r].op)
                     ELSE Refused(requests[r].status)
    OBVIOUS
  <1>5. requests' = [requests EXCEPT ![r] = q]
    BY <1>4 DEF Resume
  <1>6. q \in Resting /\ q.stage = "done" /\ Settled(q, receipts)
    <2>1. requests[r].status \in Nat /\ requests[r].op \in Ops \union {None}
      BY <1>2 DEF Flying
    <2>2. CASE requests[r].status = 200
      <3>1. q = Done(200, requests[r].op)
        BY <1>4, <2>2
      <3>. QED
        BY <1>2, <1>3, <2>1, <2>2, <3>1 DEF Done, Resting, Settled, Consistent
    <2>3. CASE requests[r].status # 200
      <3>1. q = Done(requests[r].status, None)
        BY <1>4, <2>3 DEF Refused
      <3>2. q \in Resting
        BY <2>1, <3>1 DEF Resting
      <3>3. q.stage = "done" /\ q.op = None
        BY <3>1 DEF Done
      <3>. QED
        BY <3>2, <3>3 DEF Settled
    <2>. QED
      BY <2>2, <2>3
  <1>7. requests' \in [Slots -> Resting \union Flying] /\ RequestsSound'
    BY <1>1, <1>5, <1>6, OneRequest DEF Resume, database, InFlight
  <1>8. /\ \A s \in Slots : Onward(requests[s], requests'[s])
        /\ \A n \in 1..MaxRevision, s \in Slots : Holds(s, n)' <=> (Holds(s, n) /\ s # r)
        /\ \A s \in Slots : Owes(s)' <=> (Owes(s) /\ s # r)
    <2>1. Onward(requests[r], q)
      BY <1>6 DEF Onward
    <2>. QED
      BY <2>1, <1>1, <1>5, <1>6, Moves
  <1>9. requests[r].news \in (1..MaxRevision) \union {None} /\ None \notin 1..MaxRevision
    BY <1>2, ServerAssumption DEF Flying
  <1>10. EachOnce' /\ announced' \in [1..MaxRevision -> Nat]
    <2>1. CASE requests[r].news = None
      <3>1. announced' = announced /\ gone' = gone /\ revision' = revision
        BY <2>1 DEF Resume, database
      <3>2. \A n \in 1..MaxRevision : ~Holds(r, n)
        BY <2>1, <1>9 DEF Holds
      <3>. QED
        BY <1>1, <1>8, <3>1, <3>2, OnceKept DEF Typed
    <2>2. CASE requests[r].news # None
      <3>1. PICK n \in 1..MaxRevision : n = requests[r].news
        BY <2>2, <1>9
      <3>2. /\ announced' = [announced EXCEPT ![n] = @ + 1]
            /\ gone' = gone /\ revision' = revision
        BY <2>2, <3>1 DEF Resume, database
      <3>3. Holds(r, n)
        BY <1>2, <3>1 DEF Holds, At
      <3>4. EachOnce'
        BY <1>1, <1>8, <3>2, <3>3, OncePassedOn
      <3>5. announced' \in [1..MaxRevision -> Nat]
        <4>1. announced \in [1..MaxRevision -> Nat]
          BY <1>1 DEF Typed
        <4>2. announced[n] + 1 \in Nat
          BY <4>1
        <4>. QED
          BY <3>2, <4>1, <4>2
      <3>. QED
        BY <3>4, <3>5
    <2>. QED
      BY <2>1, <2>2
  <1>11. permit' \in BOOLEAN
    BY <1>1 DEF Resume, Notified, Notifies, Typed
  <1>12. Typed'
    BY <1>1, <1>7, <1>10, <1>11 DEF Resume, Typed, database, limits
  <1>13. QueueSound'
    BY <1>1, <1>8, QueueShrinks DEF Resume
  <1>14. WakeKnown'
    <2>1. Owes(r) => Notifies(r)
      BY <1>3 DEF Owes, Notifies, Consistent
    <2>2. Unwarned' => Unwarned
      <3>1. SUFFICES ASSUME Unwarned' PROVE Unwarned
        OBVIOUS
      <3>2. ~permit /\ ~Notifies(r) /\ ~missed
        BY <3>1 DEF Resume, Notified, Unwarned
      <3>3. ~Owes(r)
        BY <3>2, <2>1
      <3>. QED
        BY <3>1, <3>2, <3>3, <1>8 DEF Unwarned
    <2>. QED
      BY <1>1, <2>2, WakeKept DEF Resume, database
  <1>. QED
    BY <1>7, <1>10, <1>12, <1>13, <1>14 DEF IInv

-----------------------------------------------------------------------------
(* The steps of the storage thread *)

LEMMA CommandFacts ==
    ASSUME Typed, QueueSound, NEW class, Execute(class)
    PROVE  /\ Command \in Entries /\ Command.class = class
           /\ Keyed(Command.class, Command.op)
           /\ class # "wake" => Command.from \in Slots
           /\ \A r \in Slots : (Command.from = r /\ At(r, {"queued"}))
                  => requests[r].class = class /\ requests[r].op = Command.op
           /\ queue # <<>> /\ queue' = Tail(queue)
  <1>1. queue \in Seq(Entries) /\ queue # <<>> /\ queue' = Tail(queue) /\ Command.class = class
    BY DEF Typed, Execute
  <1>2. 1 \in 1..Len(queue) /\ Command = queue[1] /\ Command \in Entries
    BY <1>1 DEF Command
  <1>3. /\ queue[1].class = "wake" <=> queue[1].from = None
        /\ Keyed(queue[1].class, queue[1].op)
        /\ \A r \in Slots : queue[1].from = r => Matches(queue[1], requests[r])
    BY <1>2 DEF QueueSound
  <1>4. class # "wake" => Command.from \in Slots
    BY <1>1, <1>2, <1>3 DEF Entries
  <1>. QED
    BY <1>1, <1>2, <1>3, <1>4 DEF Matches, At

\* The thread's reply reaches the handler that waits for it, or nobody.
LEMMA ReplyFacts ==
    ASSUME Typed, RequestsSound, receipts \subseteq receipts',
           NEW r \in Slots, NEW status \in Nat, NEW news \in (1..MaxRevision) \union {None},
           NEW changed \in BOOLEAN, Reply(r, status, news, changed),
           At(r, {"queued"}) =>
               /\ changed => news # None \/ (status = 200 /\ requests[r].notifies)
               /\ (status = 200 /\ requests[r].op # None) => requests[r].op \in receipts'
    PROVE  /\ requests' \in [Slots -> Resting \union Flying] /\ RequestsSound'
           /\ \A s \in Slots : Onward(requests[s], requests'[s])
           /\ \/ /\ gone' = gone /\ missed' = missed
                 /\ \A s \in Slots : \A n \in 1..MaxRevision :
                        Holds(s, n)' <=> (Holds(s, n) \/ (s = r /\ n = news))
                 /\ \A s \in Slots : Owes(s)' <=> (Owes(s) \/ (s = r /\ changed))
              \/ /\ gone' = (gone \union {news}) \ {None} /\ missed' = (missed \/ changed)
                 /\ requests' = requests
  <1>1. CASE At(r, {"queued"})
    <2>1. requests[r] \in Flying /\ At(r, InFlight) /\ requests[r].stage = "queued"
      BY <1>1, FlyingRecords DEF At, InFlight
    <2>2. PICK p \in Flying : p = requests[r]
      BY <2>1
    <2>3. PICK q : q = [p EXCEPT !.stage = "replied", !.status = status, !.news = news,
                                 !.changed = changed]
      OBVIOUS
    <2>4. /\ q \in Flying /\ q.stage = "replied" /\ q.status = status /\ q.news = news
          /\ q.changed = changed /\ q.class = p.class /\ q.notifies = p.notifies
          /\ q.op = p.op
      BY <2>3 DEF Flying, InFlight
    <2>5. requests' = [requests EXCEPT ![r] = q] /\ gone' = gone /\ missed' = missed
      BY <1>1, <2>2, <2>3 DEF Reply, Typed
    <2>6. Consistent(p, receipts)
      BY <2>1, <2>2 DEF RequestsSound
    <2>7. Consistent(q, receipts') /\ Settled(q, receipts')
      <3>1. Wakeful(q.class, q.notifies) /\ Keyed(q.class, q.op)
        BY <2>4, <2>6 DEF Consistent
      <3>2. q.changed => q.news # None \/ (q.status = 200 /\ q.notifies)
        BY <1>1, <2>2, <2>4
      <3>3. (q.status = 200 /\ q.op # None) => q.op \in receipts'
        BY <1>1, <2>2, <2>4
      <3>. QED
        BY <3>1, <3>2, <3>3, <2>4 DEF Consistent, Settled
    <2>8. requests' \in [Slots -> Resting \union Flying] /\ RequestsSound'
      BY <2>4, <2>5, <2>7, OneRequest
    <2>9. /\ requests'[r] = q
          /\ \A s \in Slots : s # r => requests'[s] = requests[s]
          /\ \A s \in Slots : Onward(requests[s], requests'[s])
      <3>1. Onward(requests[r], q)
        BY <2>1, <2>4 DEF Onward
      <3>. QED
        BY <3>1, <2>4, <2>5, Moves
    <2>10. ASSUME NEW s \in Slots, NEW n \in 1..MaxRevision
           PROVE  Holds(s, n)' <=> (Holds(s, n) \/ (s = r /\ n = news))
      <3>1. CASE s = r
        BY <3>1, <2>1, <2>4, <2>9 DEF Holds, At
      <3>2. CASE s # r
        BY <3>2, <2>9 DEF Holds, At
      <3>. QED
        BY <3>1, <3>2
    <2>11. ASSUME NEW s \in Slots
           PROVE  Owes(s)' <=> (Owes(s) \/ (s = r /\ changed))
      <3>1. CASE s = r
        BY <3>1, <2>1, <2>4, <2>9 DEF Owes
      <3>2. CASE s # r
        BY <3>2, <2>9 DEF Owes
      <3>. QED
        BY <3>1, <3>2
    <2>. QED
      BY <2>5, <2>8, <2>9, <2>10, <2>11
  <1>2. CASE ~At(r, {"queued"})
    <2>1. /\ gone' = (gone \union {news}) \ {None} /\ missed' = (missed \/ changed)
          /\ requests' = requests
      BY <1>2 DEF Reply
    <2>2. requests \in [Slots -> Resting \union Flying]
      BY DEF Typed
    <2>3. RequestsSound'
      BY <2>1 DEF RequestsSound, Settled, Consistent, At
    <2>4. \A s \in Slots : Onward(requests[s], requests'[s])
      BY <2>1 DEF Onward
    <2>. QED
      BY <2>1, <2>2, <2>3, <2>4
  <1>. QED
    BY <1>1, <1>2

\* An answer that brings nothing new: a read, a refusal, a replay.
LEMMA PlainReplyKeeps ==
    ASSUME IInv, NEW class \in {"read", "commit", "control"}, Execute(class),
           NEW status \in Nat, Reply(Command.from, status, None, FALSE),
           status = 200 => class = "read" \/ Command.op \in receipts,
           UNCHANGED <<phase, attempts, worker, database, announced, heard, permit, coordinator,
                       limits>>
    PROVE  IInv'
  <1>1. Typed /\ RequestsSound /\ QueueSound /\ EachOnce /\ WakeKnown
    BY DEF IInv
  <1>2. PICK r \in Slots : r = Command.from
    BY <1>1, CommandFacts
  <1>3. At(r, {"queued"}) => requests[r].class = class /\ requests[r].op = Command.op
    BY <1>1, <1>2, CommandFacts
  <1>4. (At(r, {"queued"}) /\ status = 200 /\ requests[r].op # None)
            => requests[r].op \in receipts
    BY <1>1, <1>3, CommandFacts DEF Keyed
  <1>5. receipts' = receipts /\ revision' = revision /\ nextWake' = nextWake
        /\ announced' = announced /\ permit' = permit /\ coordinator' = coordinator
    BY DEF database
  <1>6. None \notin 1..MaxRevision /\ Reply(r, status, None, FALSE)
    <2>1. Reply(r, status, None, FALSE)
      BY <1>2, Zenon
    <2>. QED
      BY <2>1, ServerAssumption DEF Reply
  <1>7. /\ requests' \in [Slots -> Resting \union Flying] /\ RequestsSound'
        /\ \A s \in Slots : Onward(requests[s], requests'[s])
        /\ \/ /\ gone' = gone /\ missed' = missed
              /\ \A s \in Slots : \A n \in 1..MaxRevision :
                     Holds(s, n)' <=> (Holds(s, n) \/ (s = r /\ n = None))
              /\ \A s \in Slots : Owes(s)' <=> (Owes(s) \/ (s = r /\ FALSE))
           \/ /\ gone' = (gone \union {None}) \ {None} /\ missed' = (missed \/ FALSE)
              /\ requests' = requests
    BY <1>1, <1>4, <1>5, <1>6, ReplyFacts
  <1>8. gone' = gone
    BY <1>1, <1>6, <1>7 DEF Typed
  <1>9. missed' = missed
    BY <1>1, <1>7 DEF Typed
  <1>10. \A s \in Slots : \A n \in 1..MaxRevision : Holds(s, n)' <=> Holds(s, n)
    BY <1>6, <1>7 DEF Holds, At
  <1>11. \A s \in Slots : Owes(s)' <=> Owes(s)
    BY <1>7 DEF Owes
  <1>12. queue' \in Seq(Entries) /\ QueueSound'
    BY <1>1, <1>7, CommandFacts, QueueShrinks
  <1>13. Typed'
    BY <1>1, <1>7, <1>8, <1>9, <1>12 DEF Typed, database, limits
  <1>14. EachOnce'
    BY <1>1, <1>5, <1>8, <1>10, OnceKept
  <1>15. WakeKnown'
    <2>1. Unwarned' => Unwarned
      BY <1>5, <1>9, <1>11 DEF Unwarned
    <2>. QED
      BY <1>1, <1>5, <2>1, WakeKept
  <1>. QED
    BY <1>7, <1>12, <1>13, <1>14, <1>15 DEF IInv

\* A write of the control plane moves the next wake; its handler will tell.
LEMMA ControlKeeps ==
    ASSUME IInv, Control
    PROVE  IInv'
  <1>1. Typed /\ RequestsSound /\ QueueSound /\ EachOnce /\ WakeKnown
    BY DEF IInv
  <1>2. Execute("control") /\ Reply(Command.from, 200, None, TRUE)
    BY DEF Control, Reply
  <1>3. PICK r \in Slots : r = Command.from
    BY <1>1, <1>2, CommandFacts
  <1>4. At(r, {"queued"}) => requests[r].class = "control" /\ requests[r].op = Command.op
    BY <1>1, <1>2, <1>3, CommandFacts
  <1>5. At(r, {"queued"}) => requests[r].notifies /\ requests[r].op = None
    <2>1. At(r, {"queued"}) => Consistent(requests[r], receipts)
      BY <1>1 DEF RequestsSound, At, InFlight
    <2>. QED
      BY <1>4, <2>1 DEF Consistent, Wakeful, Keyed
  <1>6. receipts' = receipts /\ revision' = revision /\ announced' = announced
        /\ permit' = permit /\ coordinator' = coordinator
    BY DEF Control
  <1>7. None \notin 1..MaxRevision /\ Reply(r, 200, None, TRUE)
    <2>1. Reply(r, 200, None, TRUE)
      BY <1>2, <1>3, Zenon
    <2>. QED
      BY <2>1, ServerAssumption DEF Reply
  <1>8. /\ requests' \in [Slots -> Resting \union Flying] /\ RequestsSound'
        /\ \A s \in Slots : Onward(requests[s], requests'[s])
        /\ \/ /\ gone' = gone /\ missed' = missed
              /\ \A s \in Slots : \A n \in 1..MaxRevision :
                     Holds(s, n)' <=> (Holds(s, n) \/ (s = r /\ n = None))
              /\ \A s \in Slots : Owes(s)' <=> (Owes(s) \/ (s = r /\ TRUE))
           \/ /\ gone' = (gone \union {None}) \ {None} /\ missed' = (missed \/ TRUE)
              /\ requests' = requests
    <2>1. At(r, {"queued"}) =>
              /\ TRUE => None # None \/ (200 = 200 /\ requests[r].notifies)
              /\ (200 = 200 /\ requests[r].op # None) => requests[r].op \in receipts'
      BY <1>5
    <2>2. 200 \in Nat /\ TRUE \in BOOLEAN /\ None \in (1..MaxRevision) \union {None}
      OBVIOUS
    <2>3. receipts \subseteq receipts'
      BY <1>6
    <2> HIDE DEF Typed, RequestsSound
    <2>. QED
      BY <1>1, <1>7, <2>1, <2>2, <2>3, ReplyFacts, Zenon
  <1>9. gone' = gone
    BY <1>1, <1>7, <1>8 DEF Typed
  <1>10. missed' \in BOOLEAN
    BY <1>1, <1>8 DEF Typed
  <1>11. \A s \in Slots : \A n \in 1..MaxRevision : Holds(s, n)' <=> Holds(s, n)
    BY <1>7, <1>8 DEF Holds, At
  <1>12. queue' \in Seq(Entries) /\ QueueSound'
    BY <1>1, <1>2, <1>8, CommandFacts, QueueShrinks
  <1>13. nextWake' \in Wakes /\ Wakes' = Wakes
    BY DEF Control, Wakes
  <1>14. Typed'
    BY <1>1, <1>8, <1>9, <1>10, <1>12, <1>13 DEF Control, Typed, limits
  <1>15. EachOnce'
    BY <1>1, <1>6, <1>9, <1>11, OnceKept
  <1>16. WakeKnown'
    <2>1. ~Unwarned'
      BY <1>8 DEF Unwarned
    <2>. QED
      BY <2>1, WakeWarned
  <1>. QED
    BY <1>8, <1>12, <1>14, <1>15, <1>16 DEF IInv

\* A commit hands its revision to its handler, or to the log.
LEMMA CommitKeeps ==
    ASSUME IInv, Commit
    PROVE  IInv'
  <1>1. Typed /\ RequestsSound /\ QueueSound /\ EachOnce /\ WakeKnown
    BY DEF IInv
  <1>2. Execute("commit") /\ Reply(Command.from, 200, revision + 1, TRUE)
    BY DEF Commit, Reply
  <1>3. PICK r \in Slots : r = Command.from
    BY <1>1, <1>2, CommandFacts
  <1>4. At(r, {"queued"}) => requests[r].op = Command.op
    BY <1>1, <1>2, <1>3, CommandFacts
  <1>5. PICK m \in 1..MaxRevision : m = revision + 1
    BY <1>1, ServerAssumption DEF Commit, Typed
  <1>6. receipts' = receipts \union {Command.op} /\ revision' = revision + 1
        /\ announced' = announced /\ permit' = permit /\ coordinator' = coordinator
        /\ revision < MaxRevision
    BY DEF Commit
  <1>7. Command.op \in Ops
    BY <1>1, <1>2, CommandFacts DEF Keyed, Entries
  <1>8. m # None /\ Reply(r, 200, m, TRUE)
    <2>1. Reply(r, 200, m, TRUE)
      BY <1>2, <1>3, <1>5, Zenon
    <2>. QED
      BY <2>1, ServerAssumption DEF Reply
  <1>9. /\ requests' \in [Slots -> Resting \union Flying] /\ RequestsSound'
        /\ \A s \in Slots : Onward(requests[s], requests'[s])
        /\ \/ /\ gone' = gone /\ missed' = missed
              /\ \A s \in Slots : \A n \in 1..MaxRevision :
                     Holds(s, n)' <=> (Holds(s, n) \/ (s = r /\ n = m))
              /\ \A s \in Slots : Owes(s)' <=> (Owes(s) \/ (s = r /\ TRUE))
           \/ /\ gone' = (gone \union {m}) \ {None} /\ missed' = (missed \/ TRUE)
              /\ requests' = requests
    <2>1. receipts \subseteq receipts'
      BY <1>6
    <2>2. At(r, {"queued"}) => requests[r].op \in receipts'
      BY <1>4, <1>6
    <2>3. At(r, {"queued"}) =>
              /\ TRUE => m # None \/ (200 = 200 /\ requests[r].notifies)
              /\ (200 = 200 /\ requests[r].op # None) => requests[r].op \in receipts'
      BY <1>8, <2>2
    <2>4. 200 \in Nat /\ TRUE \in BOOLEAN /\ m \in (1..MaxRevision) \union {None}
      OBVIOUS
    <2>. QED
      <3>1. Reply(r, 200, m, TRUE)
        BY <1>8
      <3>. QED
        BY <1>1, <2>1, <2>3, <2>4, <3>1, ReplyFacts, ZenonT(60)
  <1>10. None \notin gone
    <2>1. gone \subseteq 1..MaxRevision
      BY <1>1 DEF Typed
    <2>2. None \notin 1..MaxRevision
      BY ServerAssumption
    <2>. QED
      BY <2>1, <2>2
  <1>11. EachOnce'
    <2>1. CASE /\ gone' = gone /\ missed' = missed
               /\ \A s \in Slots : \A n \in 1..MaxRevision :
                     Holds(s, n)' <=> (Holds(s, n) \/ (s = r /\ n = m))
      BY <1>1, <1>5, <1>6, <2>1, OnceCommitted
    <2>2. CASE gone' = (gone \union {m}) \ {None} /\ requests' = requests
      <3>1. gone' = gone \union {revision + 1}
        BY <1>5, <1>8, <1>10, <2>2
      <3>2. \A s \in Slots : \A n \in 1..MaxRevision : Holds(s, n)' <=> Holds(s, n)
        BY <2>2 DEF Holds, At
      <3>. QED
        BY <1>1, <1>6, <3>1, <3>2, OnceCommitted
    <2>. QED
      BY <1>9, <2>1, <2>2
  <1>12. gone' \subseteq 1..MaxRevision /\ missed' \in BOOLEAN
    <2>1. gone' \subseteq 1..MaxRevision
      BY <1>1, <1>9 DEF Typed
    <2>2. missed' \in BOOLEAN
      BY <1>1, <1>9 DEF Typed
    <2>. QED
      BY <2>1, <2>2
  <1>13. queue' \in Seq(Entries) /\ QueueSound'
    BY <1>1, <1>2, <1>9, CommandFacts, QueueShrinks
  <1>14. /\ nextWake' \in Wakes /\ Wakes' = Wakes
         /\ receipts' \subseteq Ops /\ revision' \in 0..MaxRevision
    <2>1. nextWake' \in Wakes /\ Wakes' = Wakes
      BY DEF Commit, Wakes
    <2>2. receipts' \subseteq Ops
      BY <1>1, <1>6, <1>7 DEF Typed
    <2>3. revision' \in 0..MaxRevision
      BY <1>1, <1>6, ServerAssumption DEF Typed
    <2>. QED
      BY <2>1, <2>2, <2>3
  <1>15. Typed'
    BY <1>1, <1>9, <1>12, <1>13, <1>14 DEF Commit, Typed, limits
  <1>16. WakeKnown'
    <2>1. ~Unwarned'
      BY <1>9 DEF Unwarned
    <2>. QED
      BY <2>1, WakeWarned
  <1>. QED
    BY <1>9, <1>11, <1>13, <1>15, <1>16 DEF IInv

\* The answer to the coordinator is what the database says now.
LEMMA AnswerWakeKeeps ==
    ASSUME IInv, AnswerWake
    PROVE  IInv'
  <1>1. Typed /\ RequestsSound /\ QueueSound /\ EachOnce /\ WakeKnown
    BY DEF IInv
  <1>2. Execute("wake") /\ requests' = requests
    BY DEF AnswerWake
  <1>3. queue' \in Seq(Entries) /\ QueueSound'
    <2>1. \A r \in Slots : Onward(requests[r], requests'[r])
      BY <1>2 DEF Onward
    <2>. QED
      BY <1>1, <1>2, <2>1, CommandFacts, QueueShrinks
  <1>4. coordinator' = Answered(nextWake) \/ coordinator' = Unanswered
    BY DEF AnswerWake
  <1>5. nextWake \in Wakes /\ nextWake' = nextWake
    BY <1>1 DEF AnswerWake, Typed, database
  <1>6. coordinator' \in Coordinators
    BY <1>4, <1>5 DEF Coordinators
  <1>7. faults' \in 0..MaxFaults
    BY <1>1, ServerAssumption DEF AnswerWake, Typed
  <1>8. missed' \in BOOLEAN
    BY DEF AnswerWake
  <1>9. Typed'
    BY <1>1, <1>2, <1>3, <1>6, <1>7, <1>8 DEF AnswerWake, Typed, database
  <1>10. RequestsSound'
    BY <1>1, <1>2 DEF AnswerWake, database, RequestsSound, At
  <1>11. EachOnce'
    <2>1. \A r \in Slots : \A n \in 1..MaxRevision : Holds(r, n)' <=> Holds(r, n)
      BY <1>2 DEF Holds, At
    <2>. QED
      BY <1>1, <2>1, OnceKept DEF AnswerWake, database
  <1>12. WakeKnown'
    BY <1>4, <1>5 DEF WakeKnown, Answered, Unanswered
  <1>. QED
    BY <1>3, <1>9, <1>10, <1>11, <1>12 DEF IInv

\* A dying thread answers everyone who waits, with nothing new.
LEMMA WorkerDiesKeeps ==
    ASSUME IInv, WorkerDies
    PROVE  IInv'
  <1>1. Typed /\ RequestsSound /\ QueueSound /\ EachOnce /\ WakeKnown
    BY DEF IInv
  <1>2. ASSUME NEW r \in Slots
        PROVE  /\ requests'[r] \in Resting \union Flying
               /\ At(r, InFlight)' => Consistent(requests'[r], receipts)
               /\ Settled(requests'[r], receipts)
               /\ Onward(requests[r], requests'[r])
               /\ \A n \in 1..MaxRevision : Holds(r, n)' <=> Holds(r, n)
               /\ Owes(r)' <=> Owes(r)
    <2>1. CASE At(r, {"queued"})
      <3>1. PICK p \in Flying : p = requests[r]
        BY <1>1, <2>1, FlyingRecords DEF At, InFlight
      <3>2. PICK q : q = [p EXCEPT !.stage = "replied", !.status = 503]
        OBVIOUS
      <3>3. requests'[r] = q
        BY <2>1, <3>1, <3>2 DEF WorkerDies
      <3>4. /\ q \in Flying /\ q.stage = "replied" /\ q.status = 503 /\ q.news = p.news
            /\ q.changed = p.changed /\ q.class = p.class /\ q.notifies = p.notifies
            /\ q.op = p.op
        <4>1. q.stage = "replied" /\ q.status = 503
          BY <3>2 DEF Flying
        <4>2. q.news = p.news /\ q.class = p.class /\ q.op = p.op
          BY <3>2 DEF Flying
        <4>3. q.changed = p.changed
          BY <3>2 DEF Flying
        <4>4. q.notifies = p.notifies
          BY <3>2 DEF Flying
        <4>5. q = [stage |-> "replied", status |-> 503, class |-> p.class,
                   notifies |-> p.notifies, op |-> p.op, news |-> p.news,
                   changed |-> p.changed]
          BY <3>2 DEF Flying
        <4>6. /\ p.class \in Classes /\ p.notifies \in BOOLEAN /\ p.op \in Ops \union {None}
              /\ p.news \in (1..MaxRevision) \union {None} /\ p.changed \in BOOLEAN
          BY DEF Flying
        <4>7. q \in Flying
          BY <4>5, <4>6 DEF Flying, InFlight
        <4>. QED
          BY <4>1, <4>2, <4>3, <4>4, <4>7
      <3>5. Consistent(p, receipts) /\ p.stage = "queued"
        BY <1>1, <2>1, <3>1 DEF RequestsSound, At, InFlight
      <3>6. p.news = None /\ ~p.changed
        BY <3>5 DEF Consistent
      <3>7. Consistent(q, receipts) /\ Settled(q, receipts)
        BY <3>4, <3>5, <3>6 DEF Consistent, Settled
      <3>8. Onward(requests[r], requests'[r])
        BY <3>3, <3>4 DEF Onward
      <3>9. ASSUME NEW n \in 1..MaxRevision PROVE Holds(r, n)' <=> Holds(r, n)
        <4>1. n # None
          BY ServerAssumption
        <4>. QED
          BY <3>1, <3>3, <3>4, <3>5, <3>6, <4>1 DEF Holds, At
      <3>10. Owes(r)' <=> Owes(r)
        BY <3>1, <3>3, <3>4, <3>5, <3>6 DEF Owes
      <3>. QED
        BY <3>3, <3>4, <3>7, <3>8, <3>9, <3>10
    <2>2. CASE ~At(r, {"queued"})
      <3>1. requests'[r] = requests[r] /\ requests[r] \in Resting \union Flying
        BY <1>1, <2>2 DEF WorkerDies, Typed
      <3>2. (At(r, InFlight) => Consistent(requests[r], receipts)) /\ Settled(requests[r], receipts)
        BY <1>1 DEF RequestsSound
      <3>. QED
        BY <3>1, <3>2 DEF At, Onward, Holds, Owes
    <2>. QED
      BY <2>1, <2>2
  <1>3. requests' \in [Slots -> Resting \union Flying]
    BY <1>2 DEF WorkerDies
  <1>4. RequestsSound'
    BY <1>2 DEF RequestsSound, WorkerDies, database
  <1>5. queue' \in Seq(Entries) /\ QueueSound'
    BY <1>1, <1>2, QueueShrinks DEF WorkerDies
  <1>6. coordinator' = coordinator \/ coordinator' = Unanswered
    BY DEF WorkerDies
  <1>7. coordinator' \in Coordinators
    <2>1. coordinator \in Coordinators
      BY <1>1 DEF Typed
    <2>. QED
      <3>1. CASE coordinator' = coordinator
        BY <2>1, <3>1
      <3>2. CASE coordinator' = Unanswered
        BY <3>2 DEF Coordinators
      <3>. QED
        BY <1>6, <3>1, <3>2
  <1>8. faults' \in 0..MaxFaults
    <2>1. faults \in 0..MaxFaults /\ MaxFaults \in Nat
      BY <1>1, ServerAssumption DEF Typed
    <2>2. faults' = faults + 1 /\ faults < MaxFaults
      BY DEF WorkerDies
    <2>. QED
      BY <2>1, <2>2
  <1>9. Typed'
    BY <1>1, <1>3, <1>5, <1>7, <1>8 DEF WorkerDies, Typed, database, ghosts
  <1>10. EachOnce'
    BY <1>1, <1>2, OnceKept DEF WorkerDies, database, ghosts
  <1>11. WakeKnown'
    <2>1. Unwarned' => Unwarned
      BY <1>2 DEF WorkerDies, ghosts, Unwarned
    <2>2. CASE coordinator' = coordinator
      BY <1>1, <2>1, <2>2, WakeKept DEF WorkerDies, database
    <2>3. CASE coordinator' = Unanswered
      BY <2>3 DEF WakeKnown, Unanswered
    <2>. QED
      BY <1>6, <2>2, <2>3
  <1>. QED
    BY <1>4, <1>5, <1>9, <1>10, <1>11 DEF IInv

-----------------------------------------------------------------------------
(* The steps of the coordinator and of main *)

LEMMA SameRequests ==
    ASSUME IInv, requests' = requests, receipts' = receipts
    PROVE  /\ RequestsSound'
           /\ \A r \in Slots : Onward(requests[r], requests'[r])
           /\ \A r \in Slots : \A n \in 1..MaxRevision : Holds(r, n)' <=> Holds(r, n)
           /\ \A r \in Slots : Owes(r)' <=> Owes(r)
  <1>1. RequestsSound'
    BY DEF IInv, RequestsSound, At
  <1>2. \A r \in Slots : Onward(requests[r], requests'[r])
    BY DEF Onward
  <1>3. \A r \in Slots : \A n \in 1..MaxRevision : Holds(r, n)' <=> Holds(r, n)
    BY DEF Holds, At
  <1>4. \A r \in Slots : Owes(r)' <=> Owes(r)
    BY DEF Owes
  <1>. QED
    BY <1>1, <1>2, <1>3, <1>4

\* What the coordinator holds, by where it is.
LEMMA CoordinatorFacts ==
    ASSUME Typed
    PROVE  (coordinator.at = "answered" /\ coordinator.ok) => coordinator.wake \in Wakes
  <1>1. coordinator \in Coordinators
    BY DEF Typed
  <1>2. CASE coordinator \in {Top, Querying, Unanswered, Gone}
    BY <1>2 DEF Top, Querying, Unanswered, Gone
  <1>3. CASE \E wake \in Wakes : coordinator = Answered(wake)
    BY <1>3 DEF Answered
  <1>4. CASE \E read \in Wakes, until \in Timers : coordinator = Asleep(read, until)
    BY <1>4 DEF Asleep
  <1>5. CASE \E until \in Timers : coordinator = Unsure(until)
    BY <1>5 DEF Unsure
  <1>. QED
    BY <1>1, <1>2, <1>3, <1>4, <1>5 DEF Coordinators

LEMMA AskKeeps ==
    ASSUME IInv, Ask
    PROVE  IInv'
  <1>1. Typed /\ RequestsSound /\ QueueSound /\ EachOnce /\ WakeKnown
    BY DEF IInv
  <1>2. requests' = requests /\ receipts' = receipts
    BY DEF Ask, database
  <1>3. queue' \in Seq(Entries) /\ QueueSound'
    <2>1. CASE queue' = queue
      BY <1>1, <1>2, <2>1, SameRequests, QueueShrinks
    <2>2. CASE queue' = Append(queue, [from |-> None, class |-> "wake", op |-> None])
      <3>1. PICK e : e = [from |-> None, class |-> "wake", op |-> None]
        OBVIOUS
      <3>2. /\ e \in Entries /\ e.class = "wake" /\ e.from = None
            /\ Keyed(e.class, e.op) /\ queue' = Append(queue, e)
        BY <3>1, <2>2 DEF Entries, Keyed
      <3>3. \A r \in Slots : e.from # r
        BY <3>2, ServerAssumption
      <3>. QED
        BY <1>1, <1>2, <3>2, <3>3, QueueGrows
    <2>. QED
      BY <2>1, <2>2 DEF Ask
  <1>4. coordinator' = coordinator \/ coordinator' \in {Gone, Querying, Unanswered}
    BY DEF Ask
  <1>5. coordinator' \in Coordinators /\ permit' \in BOOLEAN
    <2>1. coordinator \in Coordinators /\ permit \in BOOLEAN
      BY <1>1 DEF Typed
    <2>2. permit' \in BOOLEAN
      BY <2>1 DEF Ask
    <2>3. CASE coordinator' = coordinator
      BY <2>1, <2>2, <2>3
    <2>4. CASE coordinator' \in {Gone, Querying, Unanswered}
      BY <2>2, <2>4 DEF Coordinators
    <2>. QED
      BY <1>4, <2>3, <2>4
  <1>6. Typed'
    BY <1>1, <1>3, <1>5 DEF Ask, Typed, database, ghosts, limits
  <1>7. RequestsSound'
    BY <1>2, SameRequests
  <1>8. EachOnce'
    BY <1>1, <1>2, SameRequests, OnceKept DEF Ask, database, ghosts
  <1>9. WakeKnown'
    BY <1>4 DEF Ask, WakeKnown, Top, Gone, Querying, Unanswered
  <1>. QED
    BY <1>3, <1>6, <1>7, <1>8, <1>9 DEF IInv

LEMMA DecideKeeps ==
    ASSUME IInv, Decide
    PROVE  IInv'
  <1>1. Typed /\ RequestsSound /\ QueueSound /\ EachOnce /\ WakeKnown
    BY DEF IInv
  <1>2. requests' = requests /\ receipts' = receipts /\ queue' = queue /\ nextWake' = nextWake
        /\ missed' = missed /\ coordinator.at = "answered"
    BY DEF Decide, database
  <1>3. queue' \in Seq(Entries) /\ QueueSound'
    BY <1>1, <1>2, SameRequests, QueueShrinks
  <1>4. clock \in Nat /\ Throttle \in Nat /\ Instants \subseteq Nat
    BY <1>1, ServerAssumption DEF Typed
  <1>5. \/ ~coordinator.ok /\ coordinator' = Unsure(RetryAt)
        \/ coordinator.ok /\ permit /\ coordinator' = Top
        \/ /\ coordinator.ok /\ ~permit
           /\ \/ coordinator' = Asleep(coordinator.wake, clock + Throttle)
              \/ coordinator' = Asleep(coordinator.wake, coordinator.wake)
    BY DEF Decide
  <1>6. coordinator.ok => coordinator.wake \in Wakes
    BY <1>1, <1>2, CoordinatorFacts
  <1>7. coordinator' \in Coordinators
    <2>1. CASE coordinator' = Unsure(RetryAt)
      <3>1. RetryAt \in Timers
        BY <1>4 DEF RetryAt, Timers
      <3>. QED
        BY <2>1, <3>1 DEF Coordinators
    <2>2. CASE coordinator' = Top
      BY <2>2 DEF Coordinators
    <2>3. CASE coordinator.ok /\ coordinator' = Asleep(coordinator.wake, clock + Throttle)
      <3>1. clock + Throttle \in Timers
        BY <1>4 DEF Timers
      <3>. QED
        BY <1>6, <2>3, <3>1 DEF Coordinators
    <2>4. CASE coordinator.ok /\ coordinator' = Asleep(coordinator.wake, coordinator.wake)
      <3>1. coordinator.wake \in Timers
        BY <1>4, <1>6, <2>4 DEF Timers, Wakes
      <3>. QED
        BY <1>6, <2>4, <3>1 DEF Coordinators
    <2>. QED
      BY <1>5, <2>1, <2>2, <2>3, <2>4
  <1>8. permit' \in BOOLEAN /\ heard' \in BOOLEAN
    BY DEF Decide
  <1>9. Typed'
    BY <1>1, <1>2, <1>7, <1>8 DEF Decide, Typed, database, limits
  <1>10. RequestsSound'
    BY <1>2, SameRequests
  <1>11. EachOnce'
    BY <1>1, <1>2, SameRequests, OnceKept DEF Decide, database
  <1>12. WakeKnown'
    <2>1. CASE ~coordinator.ok /\ coordinator' = Unsure(RetryAt)
      BY <2>1 DEF WakeKnown, Unsure
    <2>2. CASE coordinator' = Top
      BY <2>2 DEF WakeKnown, Top
    <2>3. CASE /\ coordinator.ok /\ ~permit
               /\ \/ coordinator' = Asleep(coordinator.wake, clock + Throttle)
                  \/ coordinator' = Asleep(coordinator.wake, coordinator.wake)
      <3>1. coordinator'.at = "asleep" /\ coordinator'.read = coordinator.wake
        BY <2>3 DEF Asleep
      <3>2. Unwarned' => Unwarned
        BY <1>2, <2>3, SameRequests DEF Unwarned
      <3>. QED
        BY <1>1, <1>2, <2>3, <3>1, <3>2 DEF WakeKnown
    <2>. QED
      BY <1>5, <2>1, <2>2, <2>3
  <1>. QED
    BY <1>3, <1>9, <1>10, <1>11, <1>12 DEF IInv

LEMMA StirKeeps ==
    ASSUME IInv, Stir
    PROVE  IInv'
  <1>1. Typed /\ RequestsSound /\ QueueSound /\ EachOnce /\ WakeKnown
    BY DEF IInv
  <1>2. requests' = requests /\ receipts' = receipts /\ queue' = queue
    BY DEF Stir, database
  <1>3. queue' \in Seq(Entries) /\ QueueSound'
    BY <1>1, <1>2, SameRequests, QueueShrinks
  <1>4. coordinator' \in {Gone, Top}
    BY DEF Stir
  <1>5. coordinator' \in Coordinators
    BY <1>4 DEF Coordinators
  <1>6. permit' \in BOOLEAN
    BY <1>1 DEF Stir, Typed
  <1>7. Typed'
    BY <1>1, <1>2, <1>5, <1>6 DEF Stir, Typed, database, ghosts, limits
  <1>8. RequestsSound'
    BY <1>2, SameRequests
  <1>9. EachOnce'
    BY <1>1, <1>2, SameRequests, OnceKept DEF Stir, database, ghosts
  <1>10. WakeKnown'
    BY <1>4 DEF WakeKnown, Gone, Top
  <1>. QED
    BY <1>3, <1>7, <1>8, <1>9, <1>10 DEF IInv

\* The process starts with nothing in memory, and ends so.
LEMMA BootKeeps ==
    ASSUME IInv, Boot
    PROVE  IInv'
  <1>1. Typed /\ RequestsSound /\ QueueSound /\ EachOnce /\ WakeKnown
    BY DEF IInv
  <1>2. requests' = requests /\ receipts' = receipts /\ queue' = queue
    BY DEF Boot, database
  <1>3. queue' \in Seq(Entries) /\ QueueSound'
    BY <1>1, <1>2, SameRequests, QueueShrinks
  <1>4. coordinator' \in Coordinators /\ coordinator' = Top
    BY DEF Boot, Coordinators
  <1>5. starts' \in 0..MaxStarts /\ phase' \in Phases
    <2>1. starts \in 0..MaxStarts /\ MaxStarts \in Nat
      BY <1>1, ServerAssumption DEF Typed
    <2>2. starts' \in 0..MaxStarts
      BY <2>1 DEF Boot
    <2>. QED
      BY <2>2 DEF Boot, Phases
  <1>6. Typed'
    BY <1>1, <1>2, <1>4, <1>5 DEF Boot, Typed, database, ghosts
  <1>7. RequestsSound'
    BY <1>2, SameRequests
  <1>8. EachOnce'
    BY <1>1, <1>2, SameRequests, OnceKept DEF Boot, database, ghosts
  <1>9. WakeKnown'
    BY <1>4 DEF WakeKnown, Top
  <1>. QED
    BY <1>3, <1>6, <1>7, <1>8, <1>9 DEF IInv

LEMMA ClosedKeeps ==
    ASSUME IInv, Closed
    PROVE  IInv'
  <1>1. Typed /\ RequestsSound /\ QueueSound /\ EachOnce /\ WakeKnown
    BY DEF IInv
  <1>2. requests' = requests /\ receipts' = receipts /\ queue' = <<>>
    BY DEF Closed, Emptied, database
  <1>3. queue' \in Seq(Entries) /\ QueueSound'
    BY <1>1, <1>2, SameRequests, QueueShrinks
  <1>4. coordinator' \in Coordinators /\ coordinator' = Gone
    BY DEF Closed, Emptied, Coordinators
  <1>5. attempts' \in Seq(Nat) /\ Len(attempts') <= AuthAttempts
    BY ServerAssumption DEF Closed, Emptied
  <1>6. Typed'
    BY <1>1, <1>2, <1>3, <1>4, <1>5 DEF Closed, Emptied, Typed, Phases, database, limits
  <1>7. RequestsSound'
    BY <1>2, SameRequests
  <1>8. EachOnce'
    BY <1>1, <1>2, SameRequests, OnceKept DEF Closed, database
  <1>9. WakeKnown'
    BY <1>4 DEF WakeKnown, Gone
  <1>. QED
    BY <1>3, <1>6, <1>7, <1>8, <1>9 DEF IInv

\* A crash leaves every revision a handler held to the log.
LEMMA CrashKeeps ==
    ASSUME IInv, Crash
    PROVE  IInv'
  <1>1. Typed /\ RequestsSound /\ QueueSound /\ EachOnce /\ WakeKnown
    BY DEF IInv
  <1>2. /\ requests \in [Slots -> Resting \union Flying]
        /\ requests' = [r \in Slots |-> IF At(r, InFlight) THEN Left ELSE requests[r]]
    BY <1>1 DEF Typed, Crash
  <1>3. ASSUME NEW r \in Slots
        PROVE  /\ requests'[r] \in Resting \union Flying
               /\ ~At(r, InFlight)'
               /\ Settled(requests'[r], receipts)
               /\ Onward(requests[r], requests'[r])
    <2>1. CASE At(r, InFlight)
      <3>1. requests'[r] = Left
        BY <1>2, <2>1
      <3>. QED
        BY <3>1 DEF Left, Resting, At, InFlight, Settled, Onward
    <2>2. CASE ~At(r, InFlight)
      <3>1. requests'[r] = requests[r]
        BY <1>2, <2>2
      <3>2. Settled(requests[r], receipts)
        BY <1>1 DEF RequestsSound
      <3>. QED
        BY <1>2, <2>2, <3>1, <3>2 DEF At, Onward
    <2>. QED
      BY <2>1, <2>2
  <1>4. requests' \in [Slots -> Resting \union Flying]
    BY <1>2, <1>3
  <1>5. RequestsSound'
    BY <1>3 DEF RequestsSound, Crash, database
  <1>6. queue' \in Seq(Entries) /\ QueueSound'
    BY <1>1, <1>3, QueueShrinks DEF Crash, Emptied
  <1>7. coordinator' \in Coordinators /\ coordinator' = Gone
    BY DEF Crash, Emptied, Coordinators
  <1>8. attempts' \in Seq(Nat) /\ Len(attempts') <= AuthAttempts
    BY ServerAssumption DEF Crash, Emptied
  <1>9. faults' \in 0..MaxFaults
    <2>1. faults \in 0..MaxFaults /\ MaxFaults \in Nat
      BY <1>1, ServerAssumption DEF Typed
    <2>. QED
      BY <2>1 DEF Crash
  <1>10. None \notin 1..MaxRevision
    BY ServerAssumption
  <1>11. ASSUME NEW n \in 1..MaxRevision
         PROVE  n \in gone' <=> (n \in gone \/ \E r \in Slots : Holds(r, n))
    BY <1>10 DEF Crash, Holds
  <1>12. gone' \subseteq 1..MaxRevision
    <2>1. ASSUME NEW r \in Slots, At(r, {"replied"})
          PROVE  requests[r].news \in (1..MaxRevision) \union {None}
      <3>1. requests[r] \in Flying
        BY <1>1, <2>1, FlyingRecords DEF At, InFlight
      <3>. QED
        BY <3>1 DEF Flying
    <2>2. gone \subseteq 1..MaxRevision
      BY <1>1 DEF Typed
    <2>. QED
      BY <2>1, <2>2 DEF Crash
  <1>13. Typed'
    BY <1>1, <1>4, <1>6, <1>7, <1>8, <1>9, <1>12
       DEF Crash, Emptied, Typed, Phases, database
  <1>14. EachOnce'
    <2>1. \A r \in Slots : \A n \in 1..MaxRevision : ~Holds(r, n)'
      BY <1>3 DEF Holds, At, InFlight
    <2>2. announced' = announced /\ revision' = revision
      BY DEF Crash, database
    <2>3. ASSUME NEW n \in 1..MaxRevision
          PROVE  /\ n > revision' => Untouched(n)'
                 /\ n <= revision' => Published(n)' \/ Abandoned(n)' \/ Carried(n)'
      BY <1>1, <1>11, <2>1, <2>2 DEF EachOnce, Untouched, Published, Abandoned, Carried
    <2>. QED
      BY <2>3 DEF EachOnce
  <1>15. WakeKnown'
    BY <1>7 DEF WakeKnown, Gone
  <1>. QED
    BY <1>5, <1>6, <1>13, <1>14, <1>15 DEF IInv

\* The steps of main that move its phase or the clock alone.
LEMMA PhaseKeeps ==
    ASSUME IInv, Terminate \/ Drained \/ Joined \/ Tick \/ UNCHANGED vars
    PROVE  IInv'
  <1>1. Typed /\ RequestsSound /\ QueueSound /\ EachOnce /\ WakeKnown
    BY DEF IInv
  <1>2. UNCHANGED <<requests, attempts, queue, worker, database, ghosts, permit, coordinator>>
    BY DEF Terminate, Drained, Joined, Tick, vars
  <1>3. queue' \in Seq(Entries) /\ QueueSound'
    BY <1>1, <1>2, SameRequests, QueueShrinks DEF database
  <1>4. phase' \in Phases
    BY <1>1 DEF Terminate, Drained, Joined, Tick, vars, Phases, Typed
  <1>5. clock' \in 0..MaxClock /\ faults' \in 0..MaxFaults /\ starts' \in 0..MaxStarts
    <2>1. /\ clock \in 0..MaxClock /\ MaxClock \in Nat
          /\ faults \in 0..MaxFaults /\ starts \in 0..MaxStarts
      BY <1>1, ServerAssumption DEF Typed
    <2>. QED
      BY <2>1 DEF Terminate, Drained, Joined, Tick, vars, limits
  <1>6. Typed'
    BY <1>1, <1>2, <1>4, <1>5 DEF Typed, database, ghosts
  <1>7. RequestsSound'
    BY <1>2, SameRequests DEF database
  <1>8. EachOnce'
    BY <1>1, <1>2, SameRequests, OnceKept DEF database, ghosts
  <1>9. WakeKnown'
    <2>1. Unwarned' => Unwarned
      BY <1>2, SameRequests DEF Unwarned, database, ghosts
    <2>. QED
      BY <1>1, <1>2, <2>1, WakeKept DEF database
  <1>. QED
    BY <1>3, <1>6, <1>7, <1>8, <1>9 DEF IInv

-----------------------------------------------------------------------------
(* The theorems *)

LEMMA InitSound == Init => IInv
  <1> SUFFICES ASSUME Init PROVE IInv
    OBVIOUS
  <1>1. \A r \in Slots : requests[r] = Idle
    BY DEF Init
  <1>2. Typed
    <2>1. requests \in [Slots -> Resting \union Flying]
      BY DEF Init, Resting
    <2>2. coordinator \in Coordinators
      BY DEF Init, Coordinators
    <2>3. 0 \in 0..MaxRevision /\ 0 \in 0..MaxClock /\ 0 \in 0..MaxFaults /\ 0 \in 0..MaxStarts
      BY ServerAssumption
    <2>4. attempts \in Seq(Nat) /\ Len(attempts) <= AuthAttempts /\ queue \in Seq(Entries)
      BY ServerAssumption DEF Init
    <2>. QED
      BY <2>1, <2>2, <2>3, <2>4 DEF Init, Typed, Phases, Wakes
  <1>3. RequestsSound
    BY <1>1 DEF RequestsSound, Idle, At, InFlight, Settled
  <1>4. QueueSound
    BY DEF Init, QueueSound
  <1>5. EachOnce
    <2>1. \A r \in Slots : \A n \in 1..MaxRevision : ~Holds(r, n)
      BY <1>1 DEF Holds, At, Idle
    <2>2. ASSUME NEW n \in 1..MaxRevision PROVE Untouched(n) /\ ~(n <= revision)
      BY <2>1 DEF Init, Untouched
    <2>. QED
      BY <2>2 DEF EachOnce
  <1>6. WakeKnown
    BY DEF Init, WakeKnown, Gone
  <1>. QED
    BY <1>2, <1>3, <1>4, <1>5, <1>6 DEF IInv

LEMMA NextSound == IInv /\ [Next]_vars => IInv'
  <1> SUFFICES ASSUME IInv, [Next]_vars PROVE IInv'
    OBVIOUS
  <1>1. CASE \E r \in Slots : Arrive(r) \/ Leave(r)
    BY <1>1, ArriveKeeps, LeaveKeeps
  <1>2. CASE Handlers
    BY <1>2, HandleKeeps, ResumeKeeps DEF Handlers
  <1>3. CASE Work
    <2>1. CASE AnswerWake
      BY <2>1, AnswerWakeKeeps
    <2>2. CASE AnswerRead
      BY <2>2, PlainReplyKeeps DEF AnswerRead, Reply
    <2>3. CASE Fail
      <3>1. /\ Reply(Command.from, 409, None, FALSE)
            /\ UNCHANGED <<phase, attempts, worker, database, announced, heard, permit,
                           coordinator, limits>>
        BY <2>3 DEF Fail, Reply
      <3>2. CASE Execute("commit")
        <4>1. "commit" \in {"read", "commit", "control"} /\ 409 \in Nat
          OBVIOUS
        <4>2. 409 = 200 => "commit" = "read" \/ Command.op \in receipts
          OBVIOUS
        <4>. QED
          BY <3>1, <3>2, <4>1, <4>2, PlainReplyKeeps, ZenonT(30)
      <3>3. CASE Execute("control")
        <4>1. "control" \in {"read", "commit", "control"} /\ 409 \in Nat
          OBVIOUS
        <4>2. 409 = 200 => "control" = "read" \/ Command.op \in receipts
          OBVIOUS
        <4>. QED
          BY <3>1, <3>3, <4>1, <4>2, PlainReplyKeeps, ZenonT(30)
      <3>. QED
        BY <2>3, <3>2, <3>3 DEF Fail
    <2>4. CASE Control
      BY <2>4, ControlKeeps
    <2>5. CASE Commit
      BY <2>5, CommitKeeps
    <2>6. CASE Replay
      BY <2>6, PlainReplyKeeps DEF Replay, Reply
    <2>. QED
      BY <1>3, <2>1, <2>2, <2>3, <2>4, <2>5, <2>6 DEF Work
  <1>4. CASE Coordinate
    BY <1>4, AskKeeps, DecideKeeps, StirKeeps DEF Coordinate
  <1>5. CASE Closed
    BY <1>5, ClosedKeeps
  <1>6. CASE WorkerDies
    BY <1>6, WorkerDiesKeeps
  <1>7. CASE Boot
    BY <1>7, BootKeeps
  <1>8. CASE Crash
    BY <1>8, CrashKeeps
  <1>9. CASE Terminate \/ Drained \/ Joined \/ Tick \/ UNCHANGED vars
    BY <1>9, PhaseKeeps
  <1>. QED
    BY <1>1, <1>2, <1>3, <1>4, <1>5, <1>6, <1>7, <1>8, <1>9 DEF Next, Stop

\* In every state the running server, its requests and its coordinator are as
\* the inductive invariant says.
THEOREM Invariance == Spec => []IInv
  <1>1. Init => IInv
    BY InitSound
  <1>2. IInv /\ [Next]_vars => IInv'
    BY NextSound
  <1>. QED
    BY <1>1, <1>2, PTL DEF Spec

\* The four places of a revision are one each.
LEMMA PlacesCount ==
    ASSUME Typed, EachOnce
    PROVE  CommitsAreAnnouncedOnce
  <1> SUFFICES ASSUME NEW n \in 1..MaxRevision
               PROVE  announced[n] + Cardinality(Holding(n)) + (IF n \in gone THEN 1 ELSE 0)
                      = IF n <= revision THEN 1 ELSE 0
    BY DEF CommitsAreAnnouncedOnce
  <1>1. \A r \in Slots : r \in Holding(n) <=> Holds(r, n)
    BY DEF Holding, Holds, At
  <1>2. (\A r \in Slots : ~Holds(r, n)) => Cardinality(Holding(n)) = 0
    <2>1. (\A r \in Slots : ~Holds(r, n)) => Holding(n) = {}
      BY <1>1 DEF Holding
    <2>. QED
      BY <2>1, FS_EmptySet
  <1>3. Carried(n) => Cardinality(Holding(n)) = 1
    <2>1. SUFFICES ASSUME Carried(n) PROVE Cardinality(Holding(n)) = 1
      OBVIOUS
    <2>2. PICK r \in Slots : Holds(r, n) /\ \A s \in Slots : Holds(s, n) => s = r
      BY <2>1 DEF Carried
    <2>3. Holding(n) = {r}
      BY <1>1, <2>2 DEF Holding
    <2>. QED
      BY <2>3, FS_Singleton
  <1>4. n > revision \/ n <= revision
    BY ServerAssumption DEF Typed
  <1>5. CASE n > revision
    <2>1. Untouched(n) /\ ~(n <= revision)
      BY <1>5, ServerAssumption DEF EachOnce, Typed
    <2>. QED
      BY <1>2, <2>1 DEF Untouched
  <1>6. CASE n <= revision
    <2>1. Published(n) \/ Abandoned(n) \/ Carried(n)
      BY <1>6 DEF EachOnce
    <2>2. Published(n) => Cardinality(Holding(n)) = 0
      BY <1>2 DEF Published
    <2>3. Abandoned(n) => Cardinality(Holding(n)) = 0
      BY <1>2 DEF Abandoned
    <2>4. Published(n) => announced[n] = 1 /\ n \notin gone
      BY DEF Published
    <2>5. Abandoned(n) => announced[n] = 0 /\ n \in gone
      BY DEF Abandoned
    <2>6. Carried(n) => announced[n] = 0 /\ n \notin gone
      BY DEF Carried
    <2>. QED
      BY <1>3, <1>6, <2>1, <2>2, <2>3, <2>4, <2>5, <2>6
  <1>. QED
    BY <1>4, <1>5, <1>6

\* Every commit of a live server is published exactly once, by the handler of the
\* command that made it, or left to the durable log; no retry that a receipt
\* answers publishes it again; and a success that was answered keeps its receipt
\* through every fault, crash and restart.
THEOREM CommitsArePublishedOnce == Spec => []ServerSound
  <1>1. IInv => ServerSound
    <2> SUFFICES ASSUME IInv PROVE ServerSound
      OBVIOUS
    <2>1. Typed /\ RequestsSound /\ EachOnce
      BY DEF IInv
    <2>2. TypeOK
      <3>1. ASSUME NEW r \in Slots
            PROVE  requests[r].stage \in {"idle", "done", "left"} \union InFlight
        <4>1. CASE requests[r] \in Flying
          BY <4>1 DEF Flying
        <4>2. CASE requests[r] \in Resting
          BY <4>2 DEF Resting, Idle, Left, Done
        <4>. QED
          BY <2>1, <4>1, <4>2 DEF Typed
      <3>2. {permit, heard, missed} \subseteq BOOLEAN
        BY <2>1 DEF Typed
      <3>. QED
        BY <2>1, <3>1, <3>2 DEF Typed, TypeOK
    <2>3. CommitsAreAnnouncedOnce
      BY <2>1, PlacesCount
    <2>4. AcknowledgedIsDurable
      BY <2>1 DEF RequestsSound, Settled, AcknowledgedIsDurable
    <2>. QED
      BY <2>2, <2>3, <2>4 DEF ServerSound
  <1>. QED
    BY <1>1, Invariance, PTL

\* A coordinator that sleeps with nothing left to wake it sleeps until the instant
\* the database names: no change between its query and its sleep is lost.
THEOREM NoChangeIsSleptThrough == Spec => []NoLostWake
  <1>1. IInv => NoLostWake
    BY DEF IInv, WakeKnown, Unwarned, NoLostWake
  <1>. QED
    BY <1>1, Invariance, PTL
=============================================================================
