------------------------------- MODULE Server -------------------------------
(***************************************************************************)
(* The running server: the guard in front of the handlers, the handlers'    *)
(* futures, the queue of the storage thread, the publication of commits,     *)
(* and the one coordinator that sleeps until the next reminder is due.       *)
(*                                                                         *)
(* Every await of a handler or of the coordinator is a place where others    *)
(* may step.  A client may leave at any of them: its handler is dropped, but *)
(* a command it has sent is still executed.  The process may be killed, may  *)
(* lose its storage thread, and may be asked to stop.  What a command does   *)
(* to the instant of the next wake is any of Wakes: ReminderDelivery says    *)
(* which.                                                                   *)
(***************************************************************************)
EXTENDS Integers, FiniteSets, SequencesExt, Routes

CONSTANTS None,
          Slots,         \* the requests that may arrive, each once
          Ops,           \* idempotency keys
          Defects,       \* sets of things that may be wrong with a request
          AuthAttempts,  \* refused tokens that are answered as such in a window
          AuthWindow,
          Throttle,      \* pause after a due wake
          Instants,      \* the instants a reminder may be due at
          MaxClock, MaxRevision, MaxFaults, MaxStarts   \* bounds of the model

ASSUME ServerAssumption ==
    /\ None \notin Slots \union Ops \union Nat
    /\ {AuthAttempts, AuthWindow, Throttle} \subseteq Nat \ {0}
    /\ {MaxClock, MaxRevision, MaxFaults, MaxStarts} \subseteq Nat
    /\ Instants \subseteq 0..MaxClock

VARIABLES phase,        \* of the process: see Phases
          requests,     \* what became of each request
          attempts,     \* instants of the refused tokens the limiter remembers
          queue,        \* commands sent to the storage thread
          worker,       \* whether the storage thread runs
          revision, receipts, nextWake,   \* the database
          announced,    \* how often each revision was published
          gone,         \* revisions whose handler did not live to publish them
          permit,       \* the permit the Notify holds
          coordinator,
          heard,        \* a due wake was published since the last change
          missed,       \* a change nobody will tell the coordinator of
          clock, faults, starts

database == <<revision, receipts, nextWake>>
ghosts == <<announced, gone, heard, missed>>
limits == <<clock, faults, starts>>
vars == <<phase, requests, attempts, queue, worker, database, ghosts, permit, coordinator, limits>>

Phases == {"serving", "draining", "joining", "closing", "down"}
Wakes == Instants \union {None}

Idle == [stage |-> "idle"]
Left == [stage |-> "left"]
\* an answered request; op is the key it was committed or replayed under
Done(status, op) == [stage |-> "done", status |-> status, op |-> op]
Refused(status) == Done(status, None)
Reading(status, shape, op) ==
    [stage |-> "reading", status |-> status, class |-> shape.class,
     notifies |-> shape.notifies, op |-> op, news |-> None, changed |-> FALSE]
\* a handler that will answer from the request alone
Declined(status) ==
    Reading(status, [class |-> "pure", notifies |-> FALSE], None)
InFlight == {"reading", "queued", "replied"}
At(r, stages) == requests[r].stage \in stages

\* the coordinator's loop: at its top, waiting for the answer of its query,
\* holding it, or asleep until an instant (None: until told)
Top == [at |-> "top"]
Querying == [at |-> "querying"]
Answered(wake) == [at |-> "answered", ok |-> TRUE, wake |-> wake]
Unanswered == [at |-> "answered", ok |-> FALSE]
Asleep(read, until) == [at |-> "asleep", read |-> read, until |-> until]
Unsure(until) == [at |-> "unsure", until |-> until]
Gone == [at |-> "gone"]
Waiting == coordinator.at \in {"asleep", "unsure"}

Stopping == phase # "serving"

-----------------------------------------------------------------------------
(* The guard *)

\* ServerState::AuthLimiter: attempts leave at the front until one is inside the
\* window, and an attempt that is turned away for being too many is not kept
Recent(now) ==
    LET fresh == {i \in DOMAIN attempts : now - attempts[i] < AuthWindow}
    IN  IF fresh = {} THEN <<>> ELSE SubSeq(attempts, Min(fresh), Len(attempts))

Limited(now) ==
    IF Len(Recent(now)) >= AuthAttempts
    THEN [status |-> 429, attempts |-> Recent(now)]
    ELSE [status |-> 401, attempts |-> Append(Recent(now), now)]

\* security_guard: Host, then the Origin of an unsafe method, then the token
Guard(shape, wrong) ==
    CASE "host" \in wrong -> [status |-> 421, attempts |-> attempts]
      [] "host" \notin wrong /\ "origin" \in wrong /\ ~shape.safe
           -> [status |-> 403, attempts |-> attempts]
      [] "host" \notin wrong /\ ("origin" \notin wrong \/ shape.safe) /\ "token" \in wrong
           -> Limited(clock)
      [] OTHER -> [status |-> 200, attempts |-> attempts]

\* the body limit of the guard, then the handler's needs in its own order:
\* parse_path_id and operation_id answer 422, extract_json 400
Demanded(shape, wrong) ==
    LET failing == SelectSeq(shape.needs, LAMBDA need : need \in wrong)
    IN  CASE "large" \in wrong -> 413
          [] "large" \notin wrong /\ failing # <<>>
               -> IF Head(failing) = "body" THEN 400 ELSE 422
          [] OTHER -> 200

\* what becomes of a request: answered by the guard, answered by the handler
\* without the service, or let through with its key if the handler asks for one
Admission(shape, wrong, op) ==
    LET verdict == Guard(shape, wrong)
        status == Demanded(shape, wrong)
    IN  [attempts |-> verdict.attempts,
         request  |-> CASE verdict.status # 200 -> Refused(verdict.status)
                        [] verdict.status = 200 /\ status # 200 -> Declined(status)
                        [] OTHER -> Reading(200, shape,
                                       IF "operation" \in Range(shape.needs) THEN op ELSE None)]

Arrive(r) ==
    /\ phase = "serving"
    /\ At(r, {"idle"})
    /\ \E admission \in {Admission(c[1], c[2], c[3]) : c \in Shapes \X Defects \X Ops} :
          /\ attempts' = admission.attempts
          /\ requests' = [requests EXCEPT ![r] = admission.request]
    /\ UNCHANGED <<phase, queue, worker, database, ghosts, permit, coordinator, limits>>

\* SqliteRepository::request: the command is sent, or the thread has stopped
Submit(r) ==
    IF worker = "running"
    THEN /\ queue' = Append(queue, [from |-> r, class |-> requests[r].class,
                                    op |-> requests[r].op])
         /\ requests' = [requests EXCEPT ![r].stage = "queued"]
    ELSE /\ requests' = [requests EXCEPT ![r] = Refused(503)]
         /\ UNCHANGED queue

\* the body has arrived: the handler runs up to its first await
Handle(r) ==
    /\ phase \in {"serving", "draining"}
    /\ At(r, {"reading"})
    /\ IF requests[r].status # 200 \/ requests[r].class = "pure"
       THEN /\ requests' = [requests EXCEPT ![r] = Refused(requests[r].status)]
            /\ UNCHANGED queue
       ELSE Submit(r)
    /\ UNCHANGED <<phase, attempts, worker, database, ghosts, permit, coordinator, limits>>

\* the client is gone: axum drops the handler's future; what it would have
\* published or told the coordinator is lost, what it has sent is not
Leave(r) ==
    /\ phase \in {"serving", "draining"}
    /\ At(r, InFlight)
    /\ requests' = [requests EXCEPT ![r] = Left]
    /\ gone' = gone \union (IF At(r, {"replied"}) /\ requests[r].news # None
                            THEN {requests[r].news} ELSE {})
    /\ missed' = (missed \/ (At(r, {"replied"}) /\ requests[r].changed))
    /\ UNCHANGED <<phase, attempts, queue, worker, database, announced, permit, coordinator,
                   heard, limits>>

-----------------------------------------------------------------------------
(* The storage thread: run_worker takes one command after the other.  The   *)
(* reply of a handler that has left is dropped.                              *)

\* the command's answer: its status, the revision it has newly committed,
\* and whether it has changed what the coordinator looks at
Reply(r, status, news, changed) ==
    IF At(r, {"queued"})
    THEN /\ requests' = [requests EXCEPT ![r] =
                [@ EXCEPT !.stage = "replied", !.status = status, !.news = news,
                          !.changed = changed]]
         /\ UNCHANGED <<gone, missed>>
    ELSE /\ gone' = (gone \union {news}) \ {None}
         /\ missed' = (missed \/ changed)
         /\ UNCHANGED requests

Command == Head(queue)

Execute(class) ==
    /\ worker = "running" /\ queue # <<>>
    /\ Command.class = class
    /\ queue' = Tail(queue)

\* next_reminder_wake_at, asked by the coordinator; SQLite may fail it
AnswerWake ==
    /\ Execute("wake")
    /\ \/ /\ coordinator' = Answered(nextWake)
          /\ UNCHANGED faults
       \/ /\ faults < MaxFaults
          /\ coordinator' = Unanswered
          /\ faults' = faults + 1
    /\ missed' = (missed /\ ~coordinator'.ok)
    /\ UNCHANGED <<phase, requests, attempts, worker, database, announced, gone, heard, permit,
                   clock, starts>>

AnswerRead ==
    /\ Execute("read")
    /\ Reply(Command.from, 200, None, FALSE)
    /\ UNCHANGED <<phase, attempts, worker, database, announced, heard, permit, coordinator,
                   limits>>

\* a refusal of any kind changes nothing: the transaction is rolled back
Fail ==
    /\ \/ Execute("commit") \/ Execute("control")
    /\ Reply(Command.from, 409, None, FALSE)
    /\ UNCHANGED <<phase, attempts, worker, database, announced, heard, permit, coordinator,
                   limits>>

\* lease, claim, settlement, sweep: no revision, no receipt
Control ==
    /\ Execute("control")
    /\ nextWake' \in Wakes
    /\ heard' = FALSE
    /\ Reply(Command.from, 200, None, TRUE)
    /\ UNCHANGED <<phase, attempts, worker, revision, receipts, announced, permit, coordinator,
                   limits>>

Commit ==
    /\ Execute("commit")
    /\ Command.op \notin receipts
    /\ revision < MaxRevision
    /\ revision' = revision + 1
    /\ receipts' = receipts \union {Command.op}
    /\ nextWake' \in Wakes
    /\ heard' = FALSE
    /\ Reply(Command.from, 200, revision + 1, TRUE)
    /\ UNCHANGED <<phase, attempts, worker, announced, permit, coordinator, limits>>

Replay_BadPublishes ==
    /\ Execute("commit")
    /\ Command.op \in receipts
    /\ Reply(Command.from, 200, revision, FALSE)
    /\ UNCHANGED <<phase, attempts, worker, database, announced, heard, permit, coordinator,
                   limits>>

\* the receipt answers a retry of what is already done
Replay ==
    /\ Execute("commit")
    /\ Command.op \in receipts
    /\ Reply(Command.from, 200, None, FALSE)
    /\ UNCHANGED <<phase, attempts, worker, database, announced, heard, permit, coordinator,
                   limits>>

\* a panic unwinds the thread: the transaction rolls back, the queue and every
\* reply in it are dropped, and no later command can be sent
WorkerDies ==
    /\ worker = "running" /\ queue # <<>> /\ faults < MaxFaults
    /\ worker' = "dead" /\ queue' = <<>> /\ faults' = faults + 1
    /\ requests' = [r \in Slots |->
          IF At(r, {"queued"})
          THEN [requests[r] EXCEPT !.stage = "replied", !.status = 503]
          ELSE requests[r]]
    /\ coordinator' = IF coordinator = Querying THEN Unanswered ELSE coordinator
    /\ UNCHANGED <<phase, attempts, database, ghosts, permit, clock, starts>>

-----------------------------------------------------------------------------
(* The handler resumes                                                      *)

\* BroadcastEventSink::publish sends a new commit to the streams and notifies;
\* a handler of the control plane notifies after success
Notifies(r) ==
    \/ requests[r].news # None
    \/ requests[r].status = 200 /\ requests[r].notifies

Notified_BadForgotten(r) == permit \/ (Notifies(r) /\ Waiting)

\* Notify::notify_one keeps a permit when nobody waits for it yet
Notified(r) == permit \/ Notifies(r)

Resume(r) ==
    /\ phase \in {"serving", "draining"}
    /\ At(r, {"replied"})
    /\ announced' = IF requests[r].news = None THEN announced
                    ELSE [announced EXCEPT ![requests[r].news] = @ + 1]
    /\ permit' = Notified(r)
    /\ requests' = [requests EXCEPT ![r] =
          IF requests[r].status = 200 THEN Done(200, requests[r].op)
          ELSE Refused(requests[r].status)]
    /\ UNCHANGED <<phase, attempts, queue, worker, database, gone, heard, missed, coordinator,
                   limits>>

-----------------------------------------------------------------------------
(* run_reminder_coordinator.  A permit stored while it works is found before  *)
(* it sleeps; asleep, it is woken by the shutdown, a notification or its      *)
(* timer.  Time ends at MaxClock, where every timer is taken to fire.         *)

Expired(until) == until # None /\ (clock >= until \/ clock = MaxClock)

\* the top of the loop: a stored permit restarts it, then the query is sent
Ask ==
    /\ coordinator = Top
    /\ IF permit
       THEN /\ permit' = FALSE
            /\ UNCHANGED <<coordinator, queue>>
       ELSE /\ permit' = permit
            /\ IF Stopping
               THEN coordinator' = Gone /\ UNCHANGED queue
               ELSE IF worker = "running"
               THEN /\ coordinator' = Querying
                    /\ queue' = Append(queue, [from |-> None, class |-> "wake", op |-> None])
               ELSE coordinator' = Unanswered /\ UNCHANGED queue
    /\ UNCHANGED <<phase, requests, attempts, worker, database, ghosts, limits>>

\* a failed query is asked again after five seconds
RetryAt_BadNever == None
RetryAt == clock + 1

\* the answer is here: a notification since the query asks again, a due instant
\* is published, a later one is slept for
Decide ==
    /\ coordinator \notin {Top, Querying, Gone} /\ coordinator.at = "answered"
    /\ permit' = (permit /\ ~coordinator.ok)
    /\ LET due == /\ coordinator.ok /\ ~permit
                  /\ coordinator.wake # None /\ coordinator.wake <= clock
       IN  /\ heard' = (heard \/ due)
           /\ coordinator' =
                CASE ~coordinator.ok -> Unsure(RetryAt)
                  [] coordinator.ok /\ permit -> Top
                  [] due -> Asleep(coordinator.wake, clock + Throttle)
                  [] OTHER -> Asleep(coordinator.wake, coordinator.wake)
    /\ UNCHANGED <<phase, requests, attempts, queue, worker, database, announced, gone, missed,
                   limits>>

\* the select is biased: shutdown, notification, timer
Stir_BadDeaf ==
    /\ Waiting
    /\ \/ /\ permit
          /\ coordinator' = Top /\ permit' = FALSE
       \/ /\ ~permit /\ Expired(coordinator.until)
          /\ coordinator' = Top /\ UNCHANGED permit
    /\ UNCHANGED <<phase, requests, attempts, queue, worker, database, ghosts, limits>>

Stir ==
    /\ Waiting
    /\ \/ /\ Stopping
          /\ coordinator' = Gone /\ UNCHANGED permit
       \/ /\ ~Stopping /\ permit
          /\ coordinator' = Top /\ permit' = FALSE
       \/ /\ ~Stopping /\ ~permit /\ Expired(coordinator.until)
          /\ coordinator' = Top /\ UNCHANGED permit
    /\ UNCHANGED <<phase, requests, attempts, queue, worker, database, ghosts, limits>>

-----------------------------------------------------------------------------
(* main: start, graceful shutdown, crash                                     *)

\* what the process kept in memory is gone
Emptied ==
    /\ phase' = "down" /\ worker' = "dead" /\ queue' = <<>> /\ coordinator' = Gone
    /\ attempts' = <<>> /\ permit' = FALSE /\ heard' = FALSE /\ missed' = FALSE

Boot ==
    /\ phase = "down" /\ starts < MaxStarts
    /\ phase' = "serving" /\ starts' = starts + 1
    /\ worker' = "running" /\ coordinator' = Top
    /\ UNCHANGED <<requests, attempts, queue, database, ghosts, permit, clock, faults>>

\* SIGTERM or Ctrl-C: the token is cancelled, axum accepts nothing more
Terminate ==
    /\ phase = "serving"
    /\ phase' = "draining"
    /\ UNCHANGED <<requests, attempts, queue, worker, database, ghosts, permit, coordinator, limits>>

\* axum::serve returns when the last response is out
Drained ==
    /\ phase = "draining"
    /\ \A r \in Slots : ~At(r, InFlight)
    /\ phase' = "joining"
    /\ UNCHANGED <<requests, attempts, queue, worker, database, ghosts, permit, coordinator, limits>>

\* main awaits the coordinator before it drops the owner of the profile
Joined ==
    /\ phase = "joining"
    /\ coordinator = Gone
    /\ phase' = "closing"
    /\ UNCHANGED <<requests, attempts, queue, worker, database, ghosts, permit, coordinator, limits>>

\* the last sender is dropped; the thread works off its queue and is joined
Closed ==
    /\ phase = "closing"
    /\ queue = <<>>
    /\ Emptied
    /\ UNCHANGED <<requests, database, announced, gone, limits>>

Crash ==
    /\ phase # "down" /\ faults < MaxFaults
    /\ Emptied /\ faults' = faults + 1
    /\ requests' = [r \in Slots |-> IF At(r, InFlight) THEN Left ELSE requests[r]]
    /\ gone' = gone \union ({requests[r].news : r \in {s \in Slots : At(s, {"replied"})}} \ {None})
    /\ UNCHANGED <<database, announced, clock, starts>>

Tick ==
    /\ clock < MaxClock
    /\ clock' = clock + 1
    /\ UNCHANGED <<phase, requests, attempts, queue, worker, database, ghosts, permit, coordinator,
                   faults, starts>>

-----------------------------------------------------------------------------
Init ==
    /\ phase = "down" /\ worker = "dead" /\ queue = <<>> /\ coordinator = Gone
    /\ requests = [r \in Slots |-> Idle]
    /\ attempts = <<>> /\ permit = FALSE
    /\ revision = 0 /\ receipts = {} /\ nextWake = None
    /\ announced = [n \in 1..MaxRevision |-> 0] /\ gone = {}
    /\ heard = FALSE /\ missed = FALSE
    /\ clock = 0 /\ faults = 0 /\ starts = 0

Handlers == \E r \in Slots : Handle(r) \/ Resume(r)

Work == AnswerWake \/ AnswerRead \/ Fail \/ Control \/ Commit \/ Replay

Coordinate == Ask \/ Decide \/ Stir

Stop == Drained \/ Joined \/ Closed

Next ==
    \/ \E r \in Slots : Arrive(r) \/ Leave(r)
    \/ Handlers \/ Work \/ Coordinate \/ Stop
    \/ WorkerDies \/ Boot \/ Terminate \/ Crash \/ Tick

Spec == Init /\ [][Next]_vars

\* The runtime polls every task that is ready and the storage thread takes every
\* command; a client that was let in sends its body to the end or goes away.
\* A request has finitely many steps, so one fairness serves all handlers.
FairSpec ==
    /\ Spec
    /\ WF_vars(Handlers) /\ WF_vars(Work) /\ WF_vars(Coordinate) /\ WF_vars(Stop) /\ WF_vars(Tick)

-----------------------------------------------------------------------------
TypeOK ==
    /\ phase \in Phases /\ worker \in {"running", "dead"}
    /\ \A r \in Slots : requests[r].stage \in {"idle", "done", "left"} \union InFlight
    /\ Len(attempts) <= AuthAttempts
    /\ revision \in 0..MaxRevision /\ receipts \subseteq Ops /\ nextWake \in Wakes
    /\ announced \in [1..MaxRevision -> Nat] /\ gone \subseteq 1..MaxRevision
    /\ {permit, heard, missed} \subseteq BOOLEAN
    /\ clock \in 0..MaxClock /\ faults \in 0..MaxFaults /\ starts \in 0..MaxStarts

\* A coordinator that sleeps with nothing left to wake it sleeps for the right
\* instant: what it has read is what the database says, unless the handler that
\* would have told it went away with its client (reminder_wake.rs, "a mutation
\* cannot be lost in that window").
Owes(r) == requests[r].stage = "replied" /\ requests[r].changed
NoLostWake ==
    (/\ coordinator.at = "asleep" /\ ~permit /\ ~missed
     /\ \A r \in Slots : ~Owes(r))
    => coordinator.read = nextWake

\* Every commit is published exactly once, by the handler of the command that
\* made it and never by a retry the receipt answers; the commit of a handler
\* that is gone is left to the durable log.
Holding(n) == {r \in Slots : requests[r].stage = "replied" /\ requests[r].news = n}
CommitsAreAnnouncedOnce ==
    \A n \in 1..MaxRevision :
        announced[n] + Cardinality(Holding(n)) + (IF n \in gone THEN 1 ELSE 0)
        = IF n <= revision THEN 1 ELSE 0

\* A success that was answered stays true: whatever crashed since, the key of
\* every request that was told 200 has its receipt.
AcknowledgedIsDurable ==
    \A r \in Slots :
        (requests[r].stage = "done" /\ requests[r].op # None) => requests[r].op \in receipts

\* The two, for every state of the model's types.
ServerSound == TypeOK /\ CommitsAreAnnouncedOnce /\ AcknowledgedIsDurable

\* A reminder that is due is signalled, unless its instant is moved, the storage
\* thread is lost, the server stops or the change went unreported.
Due == nextWake # None /\ nextWake <= clock
DueIsSignalled ==
    (phase = "serving" /\ Due)
    ~> (heard \/ ~Due \/ missed \/ worker = "dead" \/ phase # "serving")

\* A shutdown ends: no request, sleep or queued command keeps the process.
ShutdownCompletes == (phase = "draining") ~> (phase = "down")
=============================================================================
