----------------------------- MODULE LiveEvents -----------------------------
(***************************************************************************)
(* Live delivery of committed events, from the service that publishes a   *)
(* commit (crates/junban-app/src/service.rs) through the in-process       *)
(* broadcast and the per-client forwarder                                 *)
(* (crates/junban-server/src/sse.rs) to the browser's subscription        *)
(* (src/ui/api/client.ts subscribeToEvents).                              *)
(*                                                                         *)
(* The storage thread commits; the request handler publishes afterwards,  *)
(* when it is next polled, so handlers publish in any order and a handler *)
(* whose client hung up never publishes.  A stream subscribes to the      *)
(* broadcast, then catches up from the durable log page by page, then     *)
(* forwards what the broadcast queued; a queue that overflowed sends it   *)
(* back to the log.                                                       *)
(***************************************************************************)
EXTENDS EventLog, Sequences

CONSTANTS
    Clients,        \* browser subscriptions
    MaxStreams,     \* MAX_SSE_CONNECTIONS
    QueueMax,       \* capacity of the broadcast
    OutMax,         \* capacity of a stream's mpsc channel
    RetainCount,    \* EVENT_RETAIN_MAX_COUNT
    MaxRevision,    \* bound of the model: commits
    MaxFailures,    \* bound of the model: broken streams and restarts
    MaxAbandoned    \* bound of the model: handlers dropped before publishing

ASSUME LiveAssumption ==
    /\ MaxStreams \in Nat
    /\ QueueMax \in Nat \ {0}
    /\ OutMax \in Nat \ {0}
    /\ MaxFailures \in Nat

VARIABLES
    unpublished,    \* committed revisions whose handler has yet to publish
    abandoned,      \* those whose handler was dropped in this process
    overtaken,      \* history: revisions some later one was published before
    stream,         \* the server's side of each subscription
    client,         \* the browser's side
    failures        \* count of broken streams and restarts

vars == <<revision, events, unpublished, abandoned, overtaken, stream, client,
          failures>>

Message(r, resync) == [rev |-> r, resync |-> resync]
Messages == [rev : Nat, resync : BOOLEAN]

Closed == [phase |-> "closed", queue |-> << >>, lagged |-> FALSE, last |-> 0,
           page |-> {}, more |-> FALSE, out |-> << >>]

LiveTypeOK ==
    /\ LogTypeOK
    /\ unpublished \subseteq 1 .. revision
    /\ abandoned \subseteq 1 .. revision
    /\ overtaken \subseteq 1 .. revision
    /\ \A c \in Clients :
         /\ stream[c].phase \in {"closed", "opening", "paging", "live"}
         /\ stream[c].queue \in Seq(1 .. revision)
         /\ Len(stream[c].queue) <= QueueMax
         /\ stream[c].lagged \in BOOLEAN
         /\ stream[c].last \in 0 .. revision
         /\ stream[c].page \subseteq Messages
         /\ stream[c].more \in BOOLEAN
         /\ stream[c].out \in Seq(Messages)
         /\ Len(stream[c].out) <= OutMax
         /\ client[c].seen \in 0 .. revision
         /\ client[c].known \subseteq 1 .. revision
         /\ client[c].stopped \in BOOLEAN
    /\ failures \in 0 .. MaxFailures

Init ==
    /\ LogInit
    /\ unpublished = {}
    /\ abandoned = {}
    /\ overtaken = {}
    /\ stream = [c \in Clients |-> Closed]
    /\ client = [c \in Clients |->
                    [seen |-> 0, known |-> {}, stopped |-> FALSE]]
    /\ failures = 0

-----------------------------------------------------------------------------
(***************************************************************************)
(* Commits and their publication.                                         *)
(***************************************************************************)

CommitMutation ==
    /\ revision < MaxRevision
    /\ AppendEvent
    /\ unpublished' = unpublished \union {revision + 1}
    /\ UNCHANGED <<abandoned, overtaken, stream, client, failures>>

Prune ==
    /\ Cardinality(events) > RetainCount
    /\ DropOldest
    /\ UNCHANGED <<unpublished, abandoned, overtaken, stream, client, failures>>

Subscribed_BadAfterCatchUp(s) == s.phase = "live"
Subscribed(s) == s.phase # "closed"

\* The broadcast keeps the newest QueueMax messages for each receiver.
Enqueue(s, r) ==
    IF Len(s.queue) < QueueMax
    THEN [s EXCEPT !.queue = Append(@, r)]
    ELSE [s EXCEPT !.queue = Append(Tail(@), r), !.lagged = TRUE]

\* The handler of revision r resumes after its commit and publishes.
Publish(r) ==
    /\ r \in unpublished
    /\ unpublished' = unpublished \ {r}
    /\ overtaken' = overtaken \union
                    {q \in unpublished \union abandoned : q < r}
    /\ stream' = [c \in Clients |->
                    IF Subscribed(stream[c]) THEN Enqueue(stream[c], r)
                    ELSE stream[c]]
    /\ UNCHANGED <<revision, events, abandoned, client, failures>>

\* The requesting client hung up: its handler is dropped between the commit and
\* the publication.
Abandon(r) ==
    /\ r \in unpublished
    /\ Cardinality(abandoned) < MaxAbandoned
    /\ unpublished' = unpublished \ {r}
    /\ abandoned' = abandoned \union {r}
    /\ UNCHANGED <<revision, events, overtaken, stream, client, failures>>

-----------------------------------------------------------------------------
(***************************************************************************)
(* The server's side of a stream.                                         *)
(***************************************************************************)

OpenStreams == {c \in Clients : stream[c].phase # "closed"}

\* GET /events: a permit, and the subscription before the first catch-up query.
Open(c) ==
    /\ stream[c].phase = "closed"
    /\ ~client[c].stopped
    /\ Cardinality(OpenStreams) < MaxStreams
    /\ stream' = [stream EXCEPT ![c] =
                    [Closed EXCEPT !.phase = "opening", !.last = client[c].seen]]
    /\ UNCHANGED <<revision, events, unpublished, abandoned, overtaken, client,
                   failures>>

\* An error response makes the browser give up for good: no permit is left,
TurnAway(c) ==
    /\ stream[c].phase = "closed"
    /\ ~client[c].stopped
    /\ Cardinality(OpenStreams) >= MaxStreams
    /\ client' = [client EXCEPT ![c].stopped = TRUE]
    /\ UNCHANGED <<revision, events, unpublished, abandoned, overtaken, stream,
                   failures>>

\* or the first catch-up query fails.
FirstQueryFails(c) ==
    /\ stream[c].phase = "opening"
    /\ failures < MaxFailures
    /\ failures' = failures + 1
    /\ stream' = [stream EXCEPT ![c] = Closed]
    /\ client' = [client EXCEPT ![c].stopped = TRUE]
    /\ UNCHANGED <<revision, events, unpublished, abandoned, overtaken>>

HasMore_BadNever(s, p) == FALSE
HasMore(s, p) == p # After(s.last)

\* list_events for this stream: a page, or the order to reload everything.
ListEvents(c) ==
    /\ \/ stream[c].phase = "opening"
       \/ stream[c].phase = "paging" /\ stream[c].page = {} /\ stream[c].more
    /\ LET s == stream[c]
       IN IF ResyncRequired(s.last)
          THEN stream' = [stream EXCEPT ![c] =
                 [s EXCEPT !.phase = "paging", !.more = FALSE,
                           !.page = {Message(revision, TRUE)}]]
          ELSE \E p \in Pages(s.last) :
                 stream' = [stream EXCEPT ![c] =
                   [s EXCEPT !.phase = "paging", !.more = HasMore(s, p),
                             !.page = {Message(r, FALSE) : r \in p}]]
    /\ UNCHANGED <<revision, events, unpublished, abandoned, overtaken, client,
                   failures>>

\* send_event: a revision at or below the last one sent is suppressed, another
\* waits for room in the channel.
Duplicate_BadNever(s, m) == FALSE
Duplicate(s, m) == m.rev <= s.last
CanSend(s, m) == Duplicate(s, m) \/ Len(s.out) < OutMax
Sent(s, m) ==
    IF Duplicate(s, m) THEN s
    ELSE [s EXCEPT !.out = Append(@, m), !.last = m.rev]

\* forward_catch_up sends the page in order.
ForwardPage(c) ==
    /\ stream[c].phase = "paging"
    /\ \E m \in stream[c].page :
         /\ \A n \in stream[c].page : m.rev <= n.rev
         /\ CanSend(stream[c], m)
         /\ stream' = [stream EXCEPT ![c] =
                [Sent(stream[c], m) EXCEPT !.page = @ \ {m}]]
    /\ UNCHANGED <<revision, events, unpublished, abandoned, overtaken, client,
                   failures>>

\* The last page is out: on to the live queue.
CaughtUp(c) ==
    /\ stream[c].phase = "paging"
    /\ stream[c].page = {}
    /\ ~stream[c].more
    /\ stream' = [stream EXCEPT ![c].phase = "live"]
    /\ UNCHANGED <<revision, events, unpublished, abandoned, overtaken, client,
                   failures>>

\* live.recv: the next queued revision, or Lagged and back to the log.
Receive(c) ==
    /\ stream[c].phase = "live"
    /\ ~stream[c].lagged
    /\ stream[c].queue # << >>
    /\ LET m == Message(Head(stream[c].queue), FALSE)
       IN /\ CanSend(stream[c], m)
          /\ stream' = [stream EXCEPT ![c] =
                 [Sent(stream[c], m) EXCEPT !.queue = Tail(@)]]
    /\ UNCHANGED <<revision, events, unpublished, abandoned, overtaken, client,
                   failures>>

ReceiveLagged(c) ==
    /\ stream[c].phase = "live"
    /\ stream[c].lagged
    /\ stream' = [stream EXCEPT ![c] =
           [stream[c] EXCEPT !.phase = "paging", !.more = TRUE, !.lagged = FALSE]]
    /\ UNCHANGED <<revision, events, unpublished, abandoned, overtaken, client,
                   failures>>

-----------------------------------------------------------------------------
(***************************************************************************)
(* The browser's side, and failures.                                      *)
(***************************************************************************)

\* subscribeToEvents: frames at or below the last revision are ignored; a resync
\* makes every view reload.
Deliver(c) ==
    /\ stream[c].out # << >>
    /\ LET m == Head(stream[c].out)
       IN /\ client' =
               IF m.rev <= client[c].seen THEN client
               ELSE [client EXCEPT
                       ![c].seen = m.rev,
                       ![c].known = @ \union (IF m.resync THEN 1 .. m.rev
                                              ELSE {m.rev})]
          /\ stream' = [stream EXCEPT ![c].out = Tail(@)]
    /\ UNCHANGED <<revision, events, unpublished, abandoned, overtaken, failures>>

\* A stream breaks (network, a failed query while forwarding); what was in its
\* channel is gone.  The browser reconnects from the last revision it saw.
Break(c) ==
    /\ stream[c].phase # "closed"
    /\ failures < MaxFailures
    /\ failures' = failures + 1
    /\ stream' = [stream EXCEPT ![c] = Closed]
    /\ UNCHANGED <<revision, events, unpublished, abandoned, overtaken, client>>

\* The server process stops and restarts.
Restart ==
    /\ failures < MaxFailures
    /\ failures' = failures + 1
    /\ unpublished' = {}
    /\ abandoned' = {}
    /\ stream' = [c \in Clients |-> Closed]
    /\ UNCHANGED <<revision, events, overtaken, client>>

Next ==
    \/ CommitMutation
    \/ Prune
    \/ \E r \in unpublished : Publish(r) \/ Abandon(r)
    \/ \E c \in Clients :
         \/ Open(c) \/ TurnAway(c) \/ FirstQueryFails(c)
         \/ ListEvents(c) \/ ForwardPage(c) \/ CaughtUp(c)
         \/ Receive(c) \/ ReceiveLagged(c)
         \/ Deliver(c) \/ Break(c)
    \/ Restart

Spec == Init /\ [][Next]_vars

\* The runtime polls every task that is ready, and the browser keeps reading its
\* stream and reconnecting.  Nobody has to commit, and nothing has to fail.
Fairness ==
    /\ \A r \in 1 .. MaxRevision : WF_vars(Publish(r))
    /\ \A c \in Clients :
         /\ WF_vars(Open(c))
         /\ WF_vars(TurnAway(c))
         /\ WF_vars(ListEvents(c))
         /\ WF_vars(ForwardPage(c))
         /\ WF_vars(CaughtUp(c))
         /\ WF_vars(Receive(c))
         /\ WF_vars(ReceiveLagged(c))
         /\ WF_vars(Deliver(c))

FairSpec == Spec /\ Fairness

-----------------------------------------------------------------------------
(***************************************************************************)
(* Properties.                                                            *)
(***************************************************************************)

\* What is on the wire is ascending and newer than anything the browser saw:
\* the overlap of catch-up and live queue, lag recovery and reconnects never
\* repeat or rewind a revision.  sse.rs send_event, forward_catch_up.
EachRevisionOnce ==
    \A c \in Clients :
        LET out == stream[c].out
        IN \A i \in DOMAIN out :
             /\ out[i].rev > client[c].seen
             /\ \A j \in 1 .. i - 1 : out[j].rev < out[i].rev

\* A stream never holds more than its queue and its channel, nor repeats itself.
WireIsSound == LiveTypeOK /\ EachRevisionOnce

\* A browser that has seen revision n knows every revision up to n, except those
\* overtaken on the way from commit to broadcast.  So lag, retention, paging,
\* broken streams and restarts lose nothing on their own.  sse.rs
\* forward_events, routes.rs events (subscribe before the catch-up query).
GapsOnlyByOvertaking ==
    \A c \in Clients :
        1 .. client[c].seen \subseteq client[c].known \union overtaken

\* Every commit reaches every subscribed browser, or the browser was turned away
\* for good, or the commit was overtaken or never published.
EventuallyInformed ==
    \A c \in Clients : \A r \in 1 .. MaxRevision :
        r <= revision ~> \/ r \in client[c].known
                         \/ client[c].stopped
                         \/ r \in overtaken \union abandoned

\* The documented authority of SQLite over the broadcast queue
\* (docs/architecture.md:57): nothing the browser passed over is missing.
NoRevisionSkipped ==
    \A c \in Clients : 1 .. client[c].seen \subseteq client[c].known
=============================================================================
