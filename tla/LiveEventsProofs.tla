-------------------------- MODULE LiveEventsProofs --------------------------
(***************************************************************************)
(* Proofs about LiveEvents, for any clients, capacities, page sizes and    *)
(* retention: what is on the wire never repeats or rewinds a revision, and *)
(* nothing is passed over but what was overtaken before it was published.  *)
(***************************************************************************)
EXTENDS LiveEvents, SequenceTheorems, TLAPS

-----------------------------------------------------------------------------
(***************************************************************************)
(* The invariant: of the log, and of every stream s with its browser k.    *)
(* "waiting" are the commits that are not published (yet), "over" those    *)
(* overtaken.                                                              *)
(***************************************************************************)

Streams ==
    [phase : {"closed", "opening", "paging", "live"}, queue : Seq(Nat), lagged : BOOLEAN,
     last : Nat, page : SUBSET Messages, more : BOOLEAN, out : Seq(Messages)]
Browsers == [seen : Nat, known : SUBSET Nat, stopped : BOOLEAN]

Queue(s) == {s.queue[i] : i \in DOMAIN s.queue}

Bounded(s, k, rev) ==
    /\ s.phase = "closed" => s = Closed
    /\ s.last <= rev
    /\ \A r \in Queue(s) : r \in 1..rev
    /\ \A m \in s.page : m.rev <= rev
    /\ \A i \in DOMAIN s.out : s.out[i].rev <= rev
    /\ k.seen <= rev /\ k.known \subseteq 1..rev
    /\ Len(s.queue) <= QueueMax /\ Len(s.out) <= OutMax

\* The wire ascends from what the browser has seen to what was sent last, and
\* between two messages only overtaken revisions are passed over.
Prior(s, k, i) == IF i = 1 THEN k.seen ELSE s.out[i - 1].rev
Wire(s, k, over) ==
    /\ \A i \in DOMAIN s.out :
          /\ s.out[i].rev > k.seen
          /\ \A j \in 1..(i - 1) : s.out[j].rev < s.out[i].rev
          /\ \/ s.out[i].resync
             \/ \A q \in Nat : Prior(s, k, i) < q /\ q < s.out[i].rev => q \in over
    /\ s.phase # "closed" =>
          s.last = IF s.out = <<>> THEN k.seen ELSE s.out[Len(s.out)].rev
    /\ 1..k.seen \subseteq k.known \union over

\* A page begins right behind what was sent last and has no hole, or is a resync.
Paged(s) ==
    /\ s.phase # "paging" => s.page = {}
    /\ \/ \E r \in Nat : s.page = {Message(r, TRUE)}
       \/ \A m \in s.page :
             /\ ~m.resync /\ m.rev > s.last
             /\ \A q \in (s.last + 1)..m.rev : Message(q, FALSE) \in s.page

\* Whoever stands behind a later revision, in the queue or not published, is overtaken.
Queued(s, waiting, over) ==
    /\ \A i, j \in DOMAIN s.queue :
          i < j /\ s.queue[j] < s.queue[i] => s.queue[j] \in over
    /\ \A r \in Queue(s), q \in waiting : q < r => q \in over

\* A stream that will not ask the log again has the rest before it.
Covered(s, rev, waiting, over) ==
    (s.phase = "live" \/ (s.phase = "paging" /\ ~s.more)) /\ ~s.lagged =>
        \A q \in (s.last + 1)..rev :
            q \in Queue(s) \union waiting \union over \/ \E m \in s.page : q <= m.rev

StreamOK(s, k, rev, waiting, over) ==
    /\ Bounded(s, k, rev)
    /\ Wire(s, k, over)
    /\ Paged(s)
    /\ Queued(s, waiting, over)
    /\ Covered(s, rev, waiting, over)

Waiting == unpublished \union abandoned

LogSound ==
    /\ LogTypeOK /\ Contiguous
    /\ unpublished \subseteq 1..revision
    /\ abandoned \subseteq 1..revision /\ unpublished \intersect abandoned = {}
    /\ overtaken \subseteq 1..revision
    /\ failures \in 0..MaxFailures

StreamsTyped == stream \in [Clients -> Streams] /\ client \in [Clients -> Browsers]

IInv ==
    /\ LogSound /\ StreamsTyped
    /\ \A c \in Clients : StreamOK(stream[c], client[c], revision, Waiting, overtaken)

-----------------------------------------------------------------------------
(***************************************************************************)
(* Queues: what Append, Tail and Head leave in them.                       *)
(***************************************************************************)

\* A revision put at the end of a queue is in it, behind everything that was.
LEMMA Appended ==
    ASSUME NEW S, NEW w \in Seq(S), NEW x \in S
    PROVE  /\ Append(w, x) \in Seq(S)
           /\ Len(Append(w, x)) = Len(w) + 1
           /\ DOMAIN Append(w, x) = 1..(Len(w) + 1)
           /\ \A i \in 1..Len(w) : Append(w, x)[i] = w[i]
           /\ Append(w, x)[Len(w) + 1] = x
  BY LenProperties, AppendProperties

\* Without its head a queue keeps the rest, one place earlier.
LEMMA Advanced ==
    ASSUME NEW S, NEW w \in Seq(S), w # <<>>
    PROVE  /\ Tail(w) \in Seq(S)
           /\ Len(w) \in Nat \ {0}
           /\ Len(Tail(w)) = Len(w) - 1
           /\ DOMAIN Tail(w) = 1..(Len(w) - 1)
           /\ \A i \in 1..(Len(w) - 1) : Tail(w)[i] = w[i + 1]
           /\ Head(w) = w[1]
           /\ (Tail(w) = <<>>) <=> (Len(w) = 1)
  <1>1. Tail(w) \in Seq(S) /\ Len(Tail(w)) = Len(w) - 1
        /\ \A i \in 1..Len(Tail(w)) : Tail(w)[i] = w[i + 1]
    BY HeadTailProperties
  <1>2. Len(w) \in Nat \ {0}
    BY EmptySeq
  <1>3. DOMAIN Tail(w) = 1..Len(Tail(w))
    BY <1>1, LenProperties
  <1>4. (Tail(w) = <<>>) <=> (Len(Tail(w)) = 0)
    BY <1>1, EmptySeq
  <1> QED
    BY <1>1, <1>2, <1>3, <1>4

\* The broadcast to one stream: the queue never outgrows its capacity, and unless
\* it lags it keeps everything it held.
LEMMA Enqueued ==
    ASSUME NEW s \in Streams, NEW r \in Nat, Len(s.queue) <= QueueMax
    PROVE  LET t == Enqueue(s, r)
           IN  /\ t \in Streams
               /\ Len(t.queue) <= QueueMax
               /\ t.phase = s.phase /\ t.last = s.last /\ t.page = s.page
               /\ t.more = s.more /\ t.out = s.out
               /\ ~t.lagged => ~s.lagged /\ Queue(t) = Queue(s) \union {r}
               /\ Queue(t) \subseteq Queue(s) \union {r}
               /\ \A i, j \in DOMAIN t.queue : i < j =>
                     \/ t.queue[j] = r /\ t.queue[i] \in Queue(s)
                     \/ \E x, y \in DOMAIN s.queue :
                           /\ x < y /\ s.queue[x] = t.queue[i] /\ s.queue[y] = t.queue[j]
  <1> DEFINE t == Enqueue(s, r)
  <1>q. s.queue \in Seq(Nat) /\ Len(s.queue) \in Nat /\ DOMAIN s.queue = 1..Len(s.queue)
    <2>1. s.queue \in Seq(Nat)
      BY DEF Streams
    <2> QED
      BY <2>1, LenProperties
  <1>1. CASE Len(s.queue) < QueueMax
    <2>1. t = [s EXCEPT !.queue = Append(s.queue, r)]
      BY <1>1 DEF Enqueue, Streams
    <2>2. /\ Append(s.queue, r) \in Seq(Nat)
          /\ Len(Append(s.queue, r)) = Len(s.queue) + 1
          /\ DOMAIN Append(s.queue, r) = 1..(Len(s.queue) + 1)
          /\ \A i \in 1..Len(s.queue) : Append(s.queue, r)[i] = s.queue[i]
          /\ Append(s.queue, r)[Len(s.queue) + 1] = r
      BY <1>q, Appended
    <2>3. t \in Streams /\ t.queue = Append(s.queue, r) /\ t.lagged = s.lagged
          /\ t.phase = s.phase /\ t.last = s.last /\ t.page = s.page
          /\ t.more = s.more /\ t.out = s.out
      BY <2>1, <2>2 DEF Streams
    <2> HIDE DEF t
    <2>4. Queue(t) = Queue(s) \union {r}
      BY <2>2, <2>3, <1>q DEF Queue
    <2>5. \A i, j \in DOMAIN t.queue : i < j =>
             \/ t.queue[j] = r /\ t.queue[i] \in Queue(s)
             \/ \E x, y \in DOMAIN s.queue :
                   /\ x < y /\ s.queue[x] = t.queue[i] /\ s.queue[y] = t.queue[j]
      <3> SUFFICES ASSUME NEW i \in DOMAIN t.queue, NEW j \in DOMAIN t.queue, i < j
                   PROVE  \/ t.queue[j] = r /\ t.queue[i] \in Queue(s)
                          \/ \E x, y \in DOMAIN s.queue :
                               x < y /\ s.queue[x] = t.queue[i] /\ s.queue[y] = t.queue[j]
        OBVIOUS
      <3>1. i \in 1..Len(s.queue) /\ t.queue[i] = s.queue[i]
        BY <2>2, <2>3, <1>q
      <3>2. CASE j = Len(s.queue) + 1
        BY <3>1, <3>2, <2>2, <2>3, <1>q DEF Queue
      <3>3. CASE j # Len(s.queue) + 1
        <4>1. j \in 1..Len(s.queue) /\ t.queue[j] = s.queue[j]
          BY <3>3, <2>2, <2>3, <1>q
        <4> QED
          BY <4>1, <3>1, <1>q
      <3> QED
        BY <3>2, <3>3
    <2>6. Len(t.queue) <= QueueMax
      BY <1>1, <2>2, <2>3, <1>q, LiveAssumption
    <2> QED
      BY <2>3, <2>4, <2>5, <2>6 DEF t
  <1>2. CASE ~(Len(s.queue) < QueueMax)
    <2>0. Len(s.queue) = QueueMax /\ s.queue # <<>>
      BY <1>2, <1>q, LiveAssumption, EmptySeq
    <2> DEFINE w == Tail(s.queue)
    <2>1. t = [s EXCEPT !.queue = Append(w, r), !.lagged = TRUE]
      BY <1>2 DEF Enqueue, Streams
    <2>w. /\ w \in Seq(Nat) /\ Len(w) = Len(s.queue) - 1
          /\ \A i \in 1..(Len(s.queue) - 1) : w[i] = s.queue[i + 1]
      BY <2>0, <1>q, Advanced
    <2> HIDE DEF w
    <2>2. /\ Append(w, r) \in Seq(Nat)
          /\ Len(Append(w, r)) = Len(s.queue)
          /\ DOMAIN Append(w, r) = 1..Len(s.queue)
          /\ \A i \in 1..(Len(s.queue) - 1) : Append(w, r)[i] = s.queue[i + 1]
          /\ Append(w, r)[Len(s.queue)] = r
      <3>1. /\ Append(w, r) \in Seq(Nat)
            /\ Len(Append(w, r)) = Len(w) + 1
            /\ DOMAIN Append(w, r) = 1..(Len(w) + 1)
            /\ \A i \in 1..Len(w) : Append(w, r)[i] = w[i]
            /\ Append(w, r)[Len(w) + 1] = r
        BY <2>w, Appended
      <3>2. Len(w) + 1 = Len(s.queue) /\ Len(w) = Len(s.queue) - 1
        BY <2>w, <1>q
      <3> QED
        BY <3>1, <3>2, <2>w
    <2>3. t \in Streams /\ t.queue = Append(w, r) /\ t.lagged = TRUE
          /\ t.phase = s.phase /\ t.last = s.last /\ t.page = s.page
          /\ t.more = s.more /\ t.out = s.out
      BY <2>1, <2>2 DEF Streams
    <2> HIDE DEF t
    <2>e. \A i \in DOMAIN t.queue :
             \/ i = Len(s.queue) /\ t.queue[i] = r
             \/ i < Len(s.queue) /\ i + 1 \in DOMAIN s.queue /\ t.queue[i] = s.queue[i + 1]
      <3>1. DOMAIN t.queue = 1..Len(s.queue)
        BY <2>2, <2>3
      <3>2. \A i \in 1..(Len(s.queue) - 1) : t.queue[i] = s.queue[i + 1]
        BY <2>2, <2>3
      <3>3. t.queue[Len(s.queue)] = r
        BY <2>2, <2>3
      <3> QED
        BY <3>1, <3>2, <3>3, <1>q
    <2>4. Queue(t) \subseteq Queue(s) \union {r}
      BY <2>e DEF Queue
    <2>5. \A i, j \in DOMAIN t.queue : i < j =>
             \/ t.queue[j] = r /\ t.queue[i] \in Queue(s)
             \/ \E x, y \in DOMAIN s.queue :
                   /\ x < y /\ s.queue[x] = t.queue[i] /\ s.queue[y] = t.queue[j]
      <3> SUFFICES ASSUME NEW i \in DOMAIN t.queue, NEW j \in DOMAIN t.queue, i < j
                   PROVE  \/ t.queue[j] = r /\ t.queue[i] \in Queue(s)
                          \/ \E x, y \in DOMAIN s.queue :
                               x < y /\ s.queue[x] = t.queue[i] /\ s.queue[y] = t.queue[j]
        OBVIOUS
      <3>d. i \in 1..Len(s.queue) /\ j \in 1..Len(s.queue)
        BY <2>2, <2>3
      <3>1. i < Len(s.queue) /\ i + 1 \in DOMAIN s.queue /\ t.queue[i] = s.queue[i + 1]
        BY <2>e, <3>d, <1>q
      <3>2. CASE j = Len(s.queue)
        BY <3>1, <3>2, <3>d, <2>e DEF Queue
      <3>3. CASE j # Len(s.queue)
        <4>1. j + 1 \in DOMAIN s.queue /\ t.queue[j] = s.queue[j + 1]
          BY <3>3, <2>e
        <4>2. i + 1 < j + 1
          BY <3>d
        <4> QED
          BY <4>1, <4>2, <3>1
      <3> QED
        BY <3>2, <3>3
    <2>6. Len(t.queue) <= QueueMax
      BY <2>0, <2>2, <2>3, <1>q, LiveAssumption
    <2> QED
      BY <2>3, <2>4, <2>5, <2>6 DEF t
  <1> QED
    BY <1>1, <1>2

-----------------------------------------------------------------------------
(***************************************************************************)
(* One stream, one operation.                                              *)
(***************************************************************************)

\* What a stream holds, piece by piece.
LEMMA StreamTyped ==
    ASSUME NEW s \in Streams
    PROVE  /\ s.queue \in Seq(Nat) /\ s.out \in Seq(Messages) /\ s.page \subseteq Messages
           /\ s.last \in Nat
           /\ Len(s.out) \in Nat /\ DOMAIN s.out = 1..Len(s.out)
           /\ \A i \in 1..Len(s.out) : s.out[i] \in Messages /\ s.out[i].rev \in Nat
           /\ s.out = <<>> <=> Len(s.out) = 0
           /\ Len(s.queue) \in Nat /\ DOMAIN s.queue = 1..Len(s.queue)
           /\ \A i \in 1..Len(s.queue) : s.queue[i] \in Nat
           /\ \A m \in s.page : m.rev \in Nat /\ m \in Messages
  <1>1. s.queue \in Seq(Nat) /\ s.out \in Seq(Messages) /\ s.page \subseteq Messages
        /\ s.last \in Nat
    BY DEF Streams
  <1>2. Len(s.out) \in Nat /\ DOMAIN s.out = 1..Len(s.out)
        /\ \A i \in 1..Len(s.out) : s.out[i] \in Messages
    BY <1>1, LenProperties
  <1>3. Len(s.queue) \in Nat /\ DOMAIN s.queue = 1..Len(s.queue)
        /\ \A i \in 1..Len(s.queue) : s.queue[i] \in Nat
    BY <1>1, LenProperties
  <1>4. \A m \in Messages : m.rev \in Nat
    BY DEF Messages
  <1>5. s.out = <<>> <=> Len(s.out) = 0
    BY <1>1, EmptySeq
  <1> QED
    BY <1>1, <1>2, <1>3, <1>4, <1>5

\* A closed stream is sound whatever happens around it.
LEMMA ClosedIsSound ==
    ASSUME NEW k \in Browsers, NEW rev \in Nat, NEW waiting, NEW over,
           k.seen <= rev, k.known \subseteq 1..rev,
           1..k.seen \subseteq k.known \union over
    PROVE  Closed \in Streams /\ StreamOK(Closed, k, rev, waiting, over)
  <1>1. <<>> \in Seq(Nat) /\ <<>> \in Seq(Messages) /\ Len(<<>>) = 0 /\ DOMAIN <<>> = {}
    BY EmptySeq
  <1>2. Closed \in Streams
    BY <1>1 DEF Closed, Streams
  <1>3. Closed.phase = "closed" /\ Closed.queue = <<>> /\ Closed.out = <<>>
        /\ Closed.page = {} /\ Closed.last = 0
    BY DEF Closed
  <1>4. Queue(Closed) = {}
    BY <1>1, <1>3 DEF Queue
  <1>5. Bounded(Closed, k, rev)
    BY <1>1, <1>3, <1>4, LiveAssumption DEF Bounded
  <1>6. Wire(Closed, k, over)
    BY <1>1, <1>3 DEF Wire
  <1>7. Paged(Closed)
    BY <1>3 DEF Paged
  <1>8. Queued(Closed, waiting, over)
    BY <1>1, <1>3, <1>4 DEF Queued
  <1>9. Covered(Closed, rev, waiting, over)
    BY <1>3 DEF Covered
  <1> QED
    BY <1>2, <1>5, <1>6, <1>7, <1>8, <1>9 DEF StreamOK

\* A commit is later than all a stream holds, and waits to be published.
LEMMA CommitKeeps ==
    ASSUME NEW s \in Streams, NEW k \in Browsers, NEW rev \in Nat,
           NEW waiting, NEW over, StreamOK(s, k, rev, waiting, over)
    PROVE  StreamOK(s, k, rev + 1, waiting \union {rev + 1}, over)
  <1>t. s.last \in Nat /\ k.seen \in Nat /\ s.queue \in Seq(Nat)
        /\ s.page \subseteq Messages /\ s.out \in Seq(Messages)
    BY DEF Streams, Browsers
  <1>0. Bounded(s, k, rev) /\ Wire(s, k, over) /\ Paged(s)
        /\ Queued(s, waiting, over) /\ Covered(s, rev, waiting, over)
    BY DEF StreamOK
  <1>1. Bounded(s, k, rev + 1)
    <2>1. \A m \in s.page : m.rev <= rev + 1
      BY <1>0, <1>t DEF Bounded, Messages
    <2>2. \A i \in DOMAIN s.out : s.out[i].rev <= rev + 1
      <3>1. \A i \in DOMAIN s.out : s.out[i].rev \in Nat
        BY StreamTyped
      <3> QED
        BY <3>1, <1>0 DEF Bounded
    <2>3. k.known \subseteq 1..(rev + 1) /\ k.seen <= rev + 1 /\ s.last <= rev + 1
          /\ \A r \in Queue(s) : r \in 1..(rev + 1)
      BY <1>0, <1>t DEF Bounded
    <2> QED
      BY <2>1, <2>2, <2>3, <1>0 DEF Bounded
  <1>2. Queued(s, waiting \union {rev + 1}, over)
    BY <1>0 DEF Queued, Bounded
  <1>3. Covered(s, rev + 1, waiting \union {rev + 1}, over)
    BY <1>0, <1>t DEF Covered
  <1> QED
    BY <1>0, <1>1, <1>2, <1>3 DEF StreamOK

\* Fewer waiting, or more overtaken, and nothing else changes.
LEMMA Settles ==
    ASSUME NEW s \in Streams, NEW k \in Browsers, NEW rev \in Nat,
           NEW waiting, NEW over, NEW more, over \subseteq more,
           Wire(s, k, over)
    PROVE  Wire(s, k, more)
  BY DEF Wire

\* A publication: what it overtakes is recorded before it stands in any queue.
LEMMA PublishKeeps ==
    ASSUME NEW s \in Streams, NEW k \in Browsers, NEW rev \in Nat,
           NEW waiting \in SUBSET (1..rev), NEW over, NEW r \in waiting,
           NEW left, left = waiting \ {r},
           NEW more, more = over \union {q \in waiting : q < r},
           StreamOK(s, k, rev, waiting, over)
    PROVE  LET t == IF Subscribed(s) THEN Enqueue(s, r) ELSE s
           IN  t \in Streams /\ StreamOK(t, k, rev, left, more)
  <1>0. Bounded(s, k, rev) /\ Wire(s, k, over) /\ Paged(s)
        /\ Queued(s, waiting, over) /\ Covered(s, rev, waiting, over)
    BY DEF StreamOK
  <1>w. Wire(s, k, more)
    BY <1>0, Settles
  <1>r. r \in 1..rev /\ r \in Nat
    OBVIOUS
  <1>1. CASE s.phase = "closed"
    <2>1. Closed.phase = "closed" /\ s = Closed
      BY <1>1, <1>0 DEF Bounded, Closed
    <2>2. k.seen <= rev /\ k.known \subseteq 1..rev /\ 1..k.seen \subseteq k.known \union more
      BY <1>0, <1>w DEF Bounded, Wire
    <2>3. Closed \in Streams /\ StreamOK(Closed, k, rev, left, more)
      BY <2>2, ClosedIsSound
    <2> QED
      BY <2>1, <2>3, <1>1 DEF Subscribed
  <1>2. CASE s.phase # "closed"
    <2> DEFINE t == Enqueue(s, r)
    <2>1. /\ t \in Streams
          /\ Len(t.queue) <= QueueMax
          /\ t.phase = s.phase /\ t.last = s.last /\ t.page = s.page
          /\ t.more = s.more /\ t.out = s.out
          /\ ~t.lagged => ~s.lagged /\ Queue(t) = Queue(s) \union {r}
          /\ Queue(t) \subseteq Queue(s) \union {r}
          /\ \A i, j \in DOMAIN t.queue : i < j =>
                \/ t.queue[j] = r /\ t.queue[i] \in Queue(s)
                \/ \E x, y \in DOMAIN s.queue :
                      /\ x < y /\ s.queue[x] = t.queue[i] /\ s.queue[y] = t.queue[j]
      BY <1>r, <1>0, Enqueued DEF Bounded
    <2> HIDE DEF t
    <2>2. Bounded(t, k, rev)
      BY <2>1, <1>0, <1>2, <1>r DEF Bounded
    <2>3. Wire(t, k, more)
      BY <2>1, <1>w DEF Wire, Prior
    <2>4. Paged(t)
      BY <2>1, <1>0 DEF Paged
    <2>5. Queued(t, left, more)
      <3>1. \A i, j \in DOMAIN t.queue :
               i < j /\ t.queue[j] < t.queue[i] => t.queue[j] \in more
        BY <2>1, <1>0 DEF Queued
      <3>2. \A x \in Queue(t), q \in left : q < x => q \in more
        BY <2>1, <1>0 DEF Queued
      <3> QED
        BY <3>1, <3>2 DEF Queued
    <2>6. Covered(t, rev, left, more)
      BY <2>1, <1>0 DEF Covered
    <2>7. t \in Streams /\ StreamOK(t, k, rev, left, more)
      BY <2>1, <2>2, <2>3, <2>4, <2>5, <2>6 DEF StreamOK
    <2> QED
      BY <2>7, <1>2 DEF Subscribed, t
  <1> QED
    BY <1>1, <1>2

\* One more message on the wire, behind the others.
LEMMA WireGrows ==
    ASSUME NEW s \in Streams, NEW t \in Streams, NEW k \in Browsers, NEW over,
           NEW m \in Messages, Wire(s, k, over), s.phase # "closed", m.rev > s.last,
           m.resync \/ \A q \in Nat : s.last < q /\ q < m.rev => q \in over,
           t.out = Append(s.out, m), t.last = m.rev
    PROVE  Wire(t, k, over)
  <1>1. s.out \in Seq(Messages) /\ s.last \in Nat /\ m.rev \in Nat /\ k.seen \in Nat
    BY DEF Streams, Messages, Browsers
  <1>2. Len(s.out) \in Nat /\ DOMAIN s.out = 1..Len(s.out)
        /\ \A i \in 1..Len(s.out) : s.out[i] \in Messages
    BY <1>1, LenProperties
  <1>3. DOMAIN t.out = 1..(Len(s.out) + 1) /\ Len(t.out) = Len(s.out) + 1
        /\ (\A i \in 1..Len(s.out) : t.out[i] = s.out[i])
        /\ t.out[Len(s.out) + 1] = m
    BY <1>1, Appended
  <1>4. \A i \in 1..Len(s.out) : s.out[i].rev \in Nat
    BY <1>2 DEF Messages
  <1>e. s.out = <<>> <=> Len(s.out) = 0
    BY <1>1, EmptySeq
  <1>5. s.last = IF Len(s.out) = 0 THEN k.seen ELSE s.out[Len(s.out)].rev
    BY <1>e DEF Wire
  <1>l. k.seen <= s.last /\ \A j \in 1..Len(s.out) : s.out[j].rev <= s.last
    <2>1. CASE Len(s.out) = 0
      BY <2>1, <1>5, <1>1
    <2>2. CASE Len(s.out) # 0
      <3>1. Len(s.out) \in DOMAIN s.out
        BY <2>2, <1>2
      <3>2. s.out[Len(s.out)].rev > k.seen
            /\ \A j \in 1..(Len(s.out) - 1) : s.out[j].rev < s.out[Len(s.out)].rev
        BY <3>1 DEF Wire
      <3>3. s.last = s.out[Len(s.out)].rev
        BY <1>5, <2>2
      <3>4. k.seen <= s.last
        BY <3>2, <3>3, <1>1
      <3>5. ASSUME NEW j \in 1..Len(s.out) PROVE s.out[j].rev <= s.last
        <4>1. j = Len(s.out) \/ j \in 1..(Len(s.out) - 1)
          BY <1>2
        <4> QED
          BY <4>1, <3>2, <3>3, <1>4, <1>1
      <3> QED
        BY <3>4, <3>5
    <2> QED
      BY <2>1, <2>2
  <1>6. ASSUME NEW i \in DOMAIN t.out
        PROVE  /\ t.out[i].rev > k.seen
               /\ \A j \in 1..(i - 1) : t.out[j].rev < t.out[i].rev
               /\ \/ t.out[i].resync
                  \/ \A q \in Nat : Prior(t, k, i) < q /\ q < t.out[i].rev => q \in over
    <2>1. CASE i = Len(s.out) + 1
      <3>1. t.out[i] = m
        BY <2>1, <1>3
      <3>2. t.out[i].rev > k.seen
        BY <3>1, <1>l, <1>1
      <3>3. \A j \in 1..(i - 1) : t.out[j].rev < t.out[i].rev
        BY <2>1, <3>1, <1>3, <1>l, <1>2, <1>4, <1>1
      <3>4. Prior(t, k, i) = s.last
        BY <2>1, <1>5, <1>3, <1>2 DEF Prior
      <3> QED
        BY <3>1, <3>2, <3>3, <3>4
    <2>2. CASE i # Len(s.out) + 1
      <3>1. i \in DOMAIN s.out /\ i \in Nat
        BY <2>2, <1>3, <1>2
      <3>2. Prior(t, k, i) = Prior(s, k, i)
        BY <3>1, <1>3, <1>2 DEF Prior
      <3>3. t.out[i] = s.out[i] /\ \A j \in 1..(i - 1) : t.out[j] = s.out[j]
        BY <3>1, <1>3, <1>2
      <3> QED
        BY <3>1, <3>2, <3>3 DEF Wire
    <2> QED
      BY <2>1, <2>2
  <1>7. t.last = IF t.out = <<>> THEN k.seen ELSE t.out[Len(t.out)].rev
    <2>1. t.out \in Seq(Messages) /\ t.out # <<>>
      <3>1. t.out \in Seq(Messages)
        BY DEF Streams
      <3> QED
        BY <3>1, <1>3, <1>2, EmptySeq
    <2> QED
      BY <2>1, <1>3
  <1> QED
    BY <1>6, <1>7 DEF Wire


\* send_event for a message that has nothing but overtaken revisions before it.
LEMMA SentIsSound ==
    ASSUME NEW s \in Streams, NEW k \in Browsers, NEW over, NEW rev \in Nat,
           NEW m \in Messages, m.rev <= rev, CanSend(s, m), s.phase # "closed",
           Wire(s, k, over), Bounded(s, k, rev),
           m.resync \/ \A q \in Nat : s.last < q /\ q < m.rev => q \in over
    PROVE  LET t == Sent(s, m)
           IN  /\ t \in Streams /\ Wire(t, k, over) /\ Bounded(t, k, rev)
               /\ t.phase = s.phase /\ t.queue = s.queue /\ t.page = s.page
               /\ t.more = s.more /\ t.lagged = s.lagged
               /\ t.last = (IF m.rev <= s.last THEN s.last ELSE m.rev)
  <1> DEFINE t == Sent(s, m)
  <1>t. m.rev \in Nat /\ s.last \in Nat /\ s.out \in Seq(Messages)
    BY DEF Messages, Streams
  <1>1. CASE m.rev <= s.last
    <2>1. t = s
      BY <1>1 DEF Sent, Duplicate
    <2> QED
      BY <2>1, <1>1
  <1>2. CASE ~(m.rev <= s.last)
    <2>1. t = [s EXCEPT !.out = Append(s.out, m), !.last = m.rev]
      BY <1>2 DEF Sent, Duplicate, Streams
    <2>2. /\ Append(s.out, m) \in Seq(Messages)
          /\ Len(Append(s.out, m)) = Len(s.out) + 1
          /\ DOMAIN Append(s.out, m) = 1..(Len(s.out) + 1)
          /\ \A i \in 1..Len(s.out) : Append(s.out, m)[i] = s.out[i]
          /\ Append(s.out, m)[Len(s.out) + 1] = m
      BY <1>t, Appended
    <2>3. /\ t \in Streams /\ t.out = Append(s.out, m) /\ t.last = m.rev
          /\ t.phase = s.phase /\ t.queue = s.queue /\ t.page = s.page
          /\ t.more = s.more /\ t.lagged = s.lagged
      BY <2>1, <2>2, <1>t DEF Streams
    <2> HIDE DEF t
    <2>4. Wire(t, k, over)
      <3>1. m.rev > s.last
        BY <1>2, <1>t
      <3> QED
        BY <3>1, <2>3, WireGrows
    <2>5. Bounded(t, k, rev)
      <3>1. \A i \in DOMAIN t.out : t.out[i].rev <= rev
        <4> SUFFICES ASSUME NEW i \in DOMAIN t.out PROVE t.out[i].rev <= rev
          OBVIOUS
        <4>d. DOMAIN t.out = 1..(Len(s.out) + 1)
          BY <2>2, <2>3
        <4>n. Len(s.out) \in Nat /\ DOMAIN s.out = 1..Len(s.out)
          BY StreamTyped
        <4>0. i \in 1..(Len(s.out) + 1) /\ Len(s.out) \in Nat /\ DOMAIN s.out = 1..Len(s.out)
          BY <4>d, <4>n
        <4>1. i = Len(s.out) + 1 \/ (i \in DOMAIN s.out /\ t.out[i] = s.out[i])
          BY <4>0, <2>2, <2>3
        <4> QED
          BY <4>1, <2>2, <2>3 DEF Bounded
      <3>2. Len(t.out) <= OutMax
        <4>1. Len(s.out) < OutMax
          BY <1>2 DEF CanSend, Duplicate
        <4>2. Len(t.out) = Len(s.out) + 1
          BY <2>2, <2>3
        <4> QED
          BY <4>1, <4>2, StreamTyped, LiveAssumption
      <3>3. t.phase # "closed" /\ Queue(t) = Queue(s)
        BY <2>3 DEF Queue
      <3> QED
        BY <3>1, <3>2, <3>3, <2>3 DEF Bounded
    <2> QED
      BY <2>3, <2>4, <2>5, <1>2 DEF t
  <1> QED
    BY <1>1, <1>2

\* Open: a new stream starts where the browser stands, before any catch-up.
LEMMA OpenKeeps ==
    ASSUME NEW k \in Browsers, NEW rev \in Nat, NEW waiting, NEW over,
           k.seen <= rev, k.known \subseteq 1..rev,
           1..k.seen \subseteq k.known \union over
    PROVE  LET t == [Closed EXCEPT !.phase = "opening", !.last = k.seen]
           IN  t \in Streams /\ StreamOK(t, k, rev, waiting, over)
  <1> DEFINE t == [Closed EXCEPT !.phase = "opening", !.last = k.seen]
  <1>1. <<>> \in Seq(Nat) /\ <<>> \in Seq(Messages) /\ Len(<<>>) = 0 /\ DOMAIN <<>> = {}
    BY EmptySeq
  <1>2. k.seen \in Nat
    BY DEF Browsers
  <1>3. Closed \in Streams
    BY <1>1 DEF Closed, Streams
  <1>4. t \in Streams
    BY <1>2, <1>3 DEF Streams
  <1>5. t.phase = "opening" /\ t.queue = <<>> /\ t.page = {} /\ t.out = <<>> /\ t.last = k.seen
    BY DEF Closed
  <1> HIDE DEF t
  <1>6. Queue(t) = {}
    BY <1>1, <1>5 DEF Queue
  <1>7. Bounded(t, k, rev)
    BY <1>1, <1>5, <1>6, LiveAssumption DEF Bounded
  <1>8. Wire(t, k, over) /\ Paged(t)
    BY <1>1, <1>5 DEF Wire, Paged
  <1>9. Queued(t, waiting, over) /\ Covered(t, rev, waiting, over)
    BY <1>1, <1>5, <1>6 DEF Queued, Covered
  <1>10. t \in Streams /\ StreamOK(t, k, rev, waiting, over)
    BY <1>4, <1>7, <1>8, <1>9 DEF StreamOK
  <1> QED
    BY <1>10 DEF t

\* ForwardPage: the page's next revision is the very next one, or a resync.
LEMMA ForwardKeeps ==
    ASSUME NEW s \in Streams, NEW k \in Browsers, NEW rev \in Nat, NEW waiting, NEW over,
           StreamOK(s, k, rev, waiting, over), s.phase = "paging",
           NEW m \in s.page, \A n \in s.page : m.rev <= n.rev, CanSend(s, m)
    PROVE  LET t == [Sent(s, m) EXCEPT !.page = @ \ {m}]
           IN  t \in Streams /\ StreamOK(t, k, rev, waiting, over)
  <1> DEFINE u == Sent(s, m)  t == [u EXCEPT !.page = @ \ {m}]
  <1>0. Bounded(s, k, rev) /\ Wire(s, k, over) /\ Paged(s)
        /\ Queued(s, waiting, over) /\ Covered(s, rev, waiting, over)
    BY DEF StreamOK
  <1>t. m \in Messages /\ m.rev \in Nat /\ s.last \in Nat /\ m.rev <= rev
        /\ s.page \subseteq Messages
    BY <1>0, StreamTyped DEF Bounded
  <1>1. \/ \E r \in Nat : s.page = {Message(r, TRUE)}
        \/ /\ ~m.resync /\ m.rev = s.last + 1
           /\ \A n \in s.page :
                 /\ ~n.resync /\ n.rev > s.last
                 /\ \A q \in (s.last + 1)..n.rev : Message(q, FALSE) \in s.page
    <2>1. CASE \A n \in s.page :
                 /\ ~n.resync /\ n.rev > s.last
                 /\ \A q \in (s.last + 1)..n.rev : Message(q, FALSE) \in s.page
      <3>0. m.rev > s.last /\ ~m.resync
            /\ \A q \in (s.last + 1)..m.rev : Message(q, FALSE) \in s.page
        BY <2>1
      <3>1. s.last + 1 \in (s.last + 1)..m.rev
        BY <3>0, <1>t
      <3>2. Message(s.last + 1, FALSE) \in s.page
        BY <3>0, <3>1
      <3>3. m.rev <= s.last + 1
        BY <3>2 DEF Message
      <3>4. m.rev = s.last + 1
        BY <3>0, <3>3, <1>t
      <3> QED
        BY <2>1, <3>0, <3>4
    <2> QED
      BY <2>1, <1>0 DEF Paged
  <1>2. m.resync \/ \A q \in Nat : s.last < q /\ q < m.rev => q \in over
    <2>1. ASSUME NEW r \in Nat, s.page = {Message(r, TRUE)} PROVE m.resync
      BY <2>1 DEF Message
    <2>2. ASSUME m.rev = s.last + 1, NEW q \in Nat, s.last < q, q < m.rev PROVE FALSE
      BY <2>2, <1>t
    <2> QED
      BY <1>1, <2>1, <2>2
  <1>3. /\ u \in Streams /\ Wire(u, k, over) /\ Bounded(u, k, rev)
        /\ u.phase = s.phase /\ u.queue = s.queue /\ u.page = s.page
        /\ u.more = s.more /\ u.lagged = s.lagged
        /\ u.last = IF m.rev <= s.last THEN s.last ELSE m.rev
    BY <1>0, <1>2, <1>t, SentIsSound
  <1> HIDE DEF u
  <1>4. /\ t \in Streams /\ t.page = s.page \ {m} /\ t.phase = "paging" /\ t.queue = s.queue
        /\ t.more = s.more /\ t.lagged = s.lagged /\ t.last = u.last /\ t.out = u.out
    BY <1>3 DEF Streams
  <1> HIDE DEF t
  <1>5. Bounded(t, k, rev)
    BY <1>3, <1>4 DEF Bounded, Queue
  <1>6. Wire(t, k, over)
    BY <1>3, <1>4 DEF Wire, Prior
  <1>7. Paged(t)
    <2>1. ASSUME NEW r \in Nat, s.page = {Message(r, TRUE)} PROVE t.page = {}
      BY <2>1, <1>4
    <2>2. ASSUME m.rev = s.last + 1, ~m.resync, NEW n \in t.page,
                 ~n.resync /\ n.rev > s.last,
                 \A q \in (s.last + 1)..n.rev : Message(q, FALSE) \in s.page
          PROVE  /\ ~n.resync /\ n.rev > t.last
                 /\ \A q \in (t.last + 1)..n.rev : Message(q, FALSE) \in t.page
      <3>1. t.last = m.rev
        BY <1>3, <1>4, <2>2, <1>t
      <3>2. n \in Messages /\ n # m /\ n.rev \in Nat
        BY <1>4, <1>t DEF Messages
      <3>3. n.rev # m.rev
        BY <3>2, <1>t, <2>2 DEF Messages
      <3>4. n.rev > t.last
        BY <3>1, <3>2, <3>3, <2>2, <1>t
      <3>5. ASSUME NEW q \in (t.last + 1)..n.rev PROVE Message(q, FALSE) \in t.page
        <4>1. q \in (s.last + 1)..n.rev /\ q # m.rev
          BY <3>1, <2>2, <3>2, <1>t
        <4>2. Message(q, FALSE) # m
          BY <4>1 DEF Message
        <4> QED
          BY <4>1, <4>2, <2>2, <1>4
      <3> QED
        BY <3>4, <3>5, <2>2
    <2>3. t.page = {} \/ \A n \in t.page :
             /\ ~n.resync /\ n.rev > t.last
             /\ \A q \in (t.last + 1)..n.rev : Message(q, FALSE) \in t.page
      BY <1>1, <2>1, <2>2, <1>4
    <2> QED
      BY <2>3, <1>4 DEF Paged
  <1>8. Queued(t, waiting, over)
    BY <1>0, <1>4 DEF Queued, Queue
  <1>9. Covered(t, rev, waiting, over)
    <2> SUFFICES ASSUME ~t.more, ~t.lagged, NEW q \in (t.last + 1)..rev
                 PROVE  q \in Queue(t) \union waiting \union over \/ \E n \in t.page : q <= n.rev
      BY <1>4 DEF Covered
    <2>1. q \in Nat /\ q > s.last /\ q > m.rev /\ q \in (s.last + 1)..rev
      BY <1>3, <1>4, <1>t
    <2>2. q \in Queue(s) \union waiting \union over \/ \E n \in s.page : q <= n.rev
      BY <2>1, <1>0, <1>4 DEF Covered
    <2>3. ~(q <= m.rev)
      BY <2>1, <1>t
    <2> QED
      BY <2>2, <2>3, <1>4 DEF Queue
  <1>10. t \in Streams /\ StreamOK(t, k, rev, waiting, over)
    BY <1>4, <1>5, <1>6, <1>7, <1>8, <1>9 DEF StreamOK
  <1> QED
    BY <1>10 DEF t, u


\* CaughtUp and ReceiveLagged change only how the stream goes on.
LEMMA CaughtUpKeeps ==
    ASSUME NEW s \in Streams, NEW k \in Browsers, NEW rev \in Nat, NEW waiting, NEW over,
           StreamOK(s, k, rev, waiting, over), s.phase = "paging", s.page = {}, ~s.more
    PROVE  LET t == [s EXCEPT !.phase = "live"]
           IN  t \in Streams /\ StreamOK(t, k, rev, waiting, over)
  <1> DEFINE t == [s EXCEPT !.phase = "live"]
  <1>1. /\ t \in Streams /\ t.phase = "live" /\ t.queue = s.queue /\ t.page = s.page
        /\ t.lagged = s.lagged /\ t.last = s.last /\ t.out = s.out
    BY DEF Streams
  <1> HIDE DEF t
  <1>2. Bounded(t, k, rev) /\ Wire(t, k, over) /\ Paged(t) /\ Queued(t, waiting, over)
    BY <1>1 DEF StreamOK, Bounded, Wire, Paged, Queued, Queue, Prior
  <1>3. Covered(t, rev, waiting, over)
    BY <1>1 DEF StreamOK, Covered, Queue
  <1>4. t \in Streams /\ StreamOK(t, k, rev, waiting, over)
    BY <1>1, <1>2, <1>3 DEF StreamOK
  <1> QED
    BY <1>4 DEF t

LEMMA ReceiveLaggedKeeps ==
    ASSUME NEW s \in Streams, NEW k \in Browsers, NEW rev \in Nat, NEW waiting, NEW over,
           StreamOK(s, k, rev, waiting, over), s.phase = "live"
    PROVE  LET t == [s EXCEPT !.phase = "paging", !.more = TRUE, !.lagged = FALSE]
           IN  t \in Streams /\ StreamOK(t, k, rev, waiting, over)
  <1> DEFINE t == [s EXCEPT !.phase = "paging", !.more = TRUE, !.lagged = FALSE]
  <1>1. /\ t \in Streams /\ t.phase = "paging" /\ t.queue = s.queue /\ t.page = s.page
        /\ t.last = s.last /\ t.out = s.out
    BY DEF Streams
  <1>2. t.more
    BY DEF Streams
  <1> HIDE DEF t
  <1>3. Bounded(t, k, rev) /\ Wire(t, k, over) /\ Paged(t) /\ Queued(t, waiting, over)
    BY <1>1 DEF StreamOK, Bounded, Wire, Paged, Queued, Queue, Prior
  <1>4. Covered(t, rev, waiting, over)
    BY <1>1, <1>2 DEF Covered
  <1>5. t \in Streams /\ StreamOK(t, k, rev, waiting, over)
    BY <1>1, <1>3, <1>4 DEF StreamOK
  <1> QED
    BY <1>5 DEF t

\* Receive: what the queue's head passes over was overtaken.
LEMMA ReceiveKeeps ==
    ASSUME NEW s \in Streams, NEW k \in Browsers, NEW rev \in Nat, NEW waiting, NEW over,
           StreamOK(s, k, rev, waiting, over), s.phase = "live", ~s.lagged, s.queue # <<>>,
           CanSend(s, Message(Head(s.queue), FALSE))
    PROVE  LET t == [Sent(s, Message(Head(s.queue), FALSE)) EXCEPT !.queue = Tail(@)]
           IN  t \in Streams /\ StreamOK(t, k, rev, waiting, over)
  <1> DEFINE r == Head(s.queue)
             m == Message(r, FALSE)
             u == Sent(s, m)
             t == [u EXCEPT !.queue = Tail(@)]
  <1>0. Bounded(s, k, rev) /\ Wire(s, k, over) /\ Paged(s)
        /\ Queued(s, waiting, over) /\ Covered(s, rev, waiting, over)
    BY DEF StreamOK
  <1>q. /\ s.queue \in Seq(Nat) /\ Tail(s.queue) \in Seq(Nat)
        /\ Len(s.queue) \in Nat \ {0} /\ Len(Tail(s.queue)) = Len(s.queue) - 1
        /\ DOMAIN Tail(s.queue) = 1..(Len(s.queue) - 1)
        /\ \A i \in 1..(Len(s.queue) - 1) : Tail(s.queue)[i] = s.queue[i + 1]
        /\ r = s.queue[1]
    <2>1. s.queue \in Seq(Nat)
      BY StreamTyped
    <2> QED
      BY <2>1, Advanced
  <1>d. DOMAIN s.queue = 1..Len(s.queue) /\ \A i \in 1..Len(s.queue) : s.queue[i] \in Nat
    BY StreamTyped
  <1>1. r \in Queue(s) /\ r \in Nat /\ r <= rev /\ s.last \in Nat
    <2>1. 1 \in DOMAIN s.queue
      BY <1>q, <1>d
    <2>2. r \in Queue(s)
      BY <2>1, <1>q DEF Queue
    <2>3. r \in 1..rev
      BY <2>2, <1>0 DEF Bounded
    <2> QED
      BY <2>2, <2>3, StreamTyped
  <1> HIDE DEF r
  <1>2. m \in Messages /\ m.rev = r
    BY <1>1 DEF Messages, Message
  <1> HIDE DEF m
  <1>3. s.page = {}
    BY <1>0 DEF Paged
  <1>4. \A q \in (s.last + 1)..rev : q \in Queue(s) \union waiting \union over
    BY <1>0, <1>3 DEF Covered
  <1>5. \A q \in Nat : s.last < q /\ q < r => q \in over
    <2> SUFFICES ASSUME NEW q \in Nat, s.last < q, q < r PROVE q \in over
      OBVIOUS
    <2>1. q \in (s.last + 1)..rev
      BY <1>1
    <2>2. CASE q \in waiting
      BY <2>2, <1>0, <1>1 DEF Queued
    <2>3. CASE q \in Queue(s)
      <3>1. PICK j \in DOMAIN s.queue : s.queue[j] = q
        BY <2>3 DEF Queue
      <3>2. 1 \in DOMAIN s.queue /\ 1 < j /\ s.queue[j] < s.queue[1]
        BY <3>1, <1>q, <1>d, <1>1
      <3> QED
        BY <3>1, <3>2, <1>0 DEF Queued
    <2> QED
      BY <2>1, <2>2, <2>3, <1>4
  <1>6. /\ u \in Streams /\ Wire(u, k, over) /\ Bounded(u, k, rev)
        /\ u.phase = s.phase /\ u.queue = s.queue /\ u.page = s.page
        /\ u.more = s.more /\ u.lagged = s.lagged
        /\ u.last = IF m.rev <= s.last THEN s.last ELSE m.rev
    <2>1. CanSend(s, m) /\ m.rev <= rev /\ s.phase # "closed"
      BY <1>1, <1>2 DEF r, m
    <2>2. m.resync \/ \A q \in Nat : s.last < q /\ q < m.rev => q \in over
      BY <1>2, <1>5
    <2> QED
      BY <2>1, <2>2, <1>0, <1>2, SentIsSound
  <1> HIDE DEF u
  <1>7. /\ t \in Streams /\ t.queue = Tail(s.queue) /\ t.phase = "live" /\ t.page = {}
        /\ t.last = u.last /\ t.out = u.out
    BY <1>3, <1>6, <1>q DEF Streams
  <1> HIDE DEF t
  <1>8. \A i \in DOMAIN t.queue : i + 1 \in DOMAIN s.queue /\ t.queue[i] = s.queue[i + 1]
    <2>1. DOMAIN t.queue = 1..(Len(s.queue) - 1)
      BY <1>7, <1>q
    <2> QED
      BY <2>1, <1>7, <1>q, <1>d
  <1>9. Queue(t) \subseteq Queue(s) /\ \A q \in Queue(s) : q = r \/ q \in Queue(t)
    <2>1. Queue(t) \subseteq Queue(s)
      BY <1>8 DEF Queue
    <2>2. ASSUME NEW q \in Queue(s), q # r PROVE q \in Queue(t)
      <3>1. PICK j \in DOMAIN s.queue : s.queue[j] = q
        BY DEF Queue
      <3>n. j \in 1..Len(s.queue) /\ j # 1 /\ Len(s.queue) \in Nat
        BY <3>1, <2>2, <1>q, <1>d
      <3>i. j - 1 \in 1..(Len(s.queue) - 1) /\ (j - 1) + 1 = j
        BY <3>n
      <3>2. j - 1 \in DOMAIN t.queue /\ t.queue[j - 1] = q
        BY <3>1, <3>i, <1>7, <1>q
      <3> QED
        BY <3>2 DEF Queue
    <2> QED
      BY <2>1, <2>2
  <1>10. Bounded(t, k, rev)
    <2>1. Len(t.queue) <= QueueMax
      <3>1. Len(t.queue) = Len(s.queue) - 1 /\ Len(s.queue) <= QueueMax
        BY <1>7, <1>q, <1>0 DEF Bounded
      <3> QED
        BY <3>1, <1>q, LiveAssumption
    <2> QED
      BY <2>1, <1>6, <1>7, <1>9, <1>0 DEF Bounded
  <1>11. Wire(t, k, over) /\ Paged(t)
    BY <1>6, <1>7 DEF Wire, Prior, Paged
  <1>12. Queued(t, waiting, over)
    <2>1. ASSUME NEW i \in DOMAIN t.queue, NEW j \in DOMAIN t.queue,
                 i < j, t.queue[j] < t.queue[i]
          PROVE  t.queue[j] \in over
      <3>1. i + 1 < j + 1
        BY <2>1, <1>7, <1>q
      <3> QED
        BY <3>1, <2>1, <1>8, <1>0 DEF Queued
    <2> QED
      BY <2>1, <1>9, <1>0 DEF Queued
  <1>13. Covered(t, rev, waiting, over)
    <2> SUFFICES ASSUME NEW q \in (t.last + 1)..rev
                 PROVE  q \in Queue(t) \union waiting \union over
      BY DEF Covered
    <2>1. q \in (s.last + 1)..rev /\ q # r
      BY <1>1, <1>2, <1>6, <1>7
    <2> QED
      BY <2>1, <1>4, <1>9
  <1>14. t \in Streams /\ StreamOK(t, k, rev, waiting, over)
    BY <1>7, <1>10, <1>11, <1>12, <1>13 DEF StreamOK
  <1> QED
    BY <1>14 DEF t, u, m, r


\* Deliver: what the browser passes over was overtaken, and the wire goes on from there.
Informed(k, m) ==
    [k EXCEPT !.seen = m.rev,
              !.known = @ \union (IF m.resync THEN 1 .. m.rev ELSE {m.rev})]

LEMMA DeliverKeeps ==
    ASSUME NEW s \in Streams, NEW k \in Browsers, NEW rev \in Nat, NEW waiting, NEW over,
           StreamOK(s, k, rev, waiting, over), s.out # <<>>
    PROVE  LET t == [s EXCEPT !.out = Tail(@)]
               l == Informed(k, Head(s.out))
           IN  /\ ~(Head(s.out).rev <= k.seen)
               /\ t \in Streams /\ l \in Browsers /\ StreamOK(t, l, rev, waiting, over)
  <1> DEFINE t == [s EXCEPT !.out = Tail(@)]
             m == Head(s.out)
             l == Informed(k, m)
  <1>0. Bounded(s, k, rev) /\ Wire(s, k, over) /\ Paged(s)
        /\ Queued(s, waiting, over) /\ Covered(s, rev, waiting, over)
    BY DEF StreamOK
  <1>q. /\ Tail(s.out) \in Seq(Messages)
        /\ Len(s.out) \in Nat \ {0} /\ Len(Tail(s.out)) = Len(s.out) - 1
        /\ DOMAIN Tail(s.out) = 1..(Len(s.out) - 1)
        /\ \A i \in 1..(Len(s.out) - 1) : Tail(s.out)[i] = s.out[i + 1]
        /\ m = s.out[1] /\ (Tail(s.out) = <<>> <=> Len(s.out) = 1)
    <2>1. s.out \in Seq(Messages)
      BY StreamTyped
    <2> QED
      BY <2>1, Advanced
  <1>d. DOMAIN s.out = 1..Len(s.out)
        /\ \A i \in 1..Len(s.out) : s.out[i] \in Messages /\ s.out[i].rev \in Nat
    BY StreamTyped
  <1>1. 1 \in DOMAIN s.out
    BY <1>q, <1>d
  <1>p. s.phase # "closed"
    BY <1>0 DEF Bounded, Closed
  <1> HIDE DEF m
  <1>2. m.rev \in Nat /\ m.rev > k.seen /\ m.rev <= rev /\ m.rev # 0
        /\ (m.resync \/ \A q \in Nat : k.seen < q /\ q < m.rev => q \in over)
    <2>1. m.rev \in Nat /\ m.rev > k.seen /\ m.rev <= rev
      BY <1>q, <1>d, <1>1, <1>0 DEF Wire, Bounded
    <2>2. Prior(s, k, 1) = k.seen
      BY DEF Prior
    <2>3. m.resync \/ \A q \in Nat : Prior(s, k, 1) < q /\ q < m.rev => q \in over
      BY <1>q, <1>1, <1>0 DEF Wire
    <2>4. k.seen \in Nat
      BY DEF Browsers
    <2> QED
      BY <2>1, <2>2, <2>3, <2>4
  <1>3. l \in Browsers /\ l.seen = m.rev
        /\ l.known = k.known \union (IF m.resync THEN 1..m.rev ELSE {m.rev})
    <2> DEFINE new == IF m.resync THEN 1..m.rev ELSE {m.rev}
    <2>1. new \subseteq Nat
      BY <1>2
    <2> HIDE DEF new
    <2>2. [k EXCEPT !.seen = m.rev, !.known = @ \union new] \in Browsers
          /\ [k EXCEPT !.seen = m.rev, !.known = @ \union new].seen = m.rev
          /\ [k EXCEPT !.seen = m.rev, !.known = @ \union new].known = k.known \union new
      BY <1>2, <2>1 DEF Browsers
    <2> QED
      BY <2>2 DEF new, l, Informed
  <1> HIDE DEF l
  <1>4. /\ t \in Streams /\ t.out = Tail(s.out) /\ t.phase = s.phase /\ t.queue = s.queue
        /\ t.page = s.page /\ t.more = s.more /\ t.lagged = s.lagged /\ t.last = s.last
    BY <1>q DEF Streams
  <1> HIDE DEF t
  <1>5. \A i \in DOMAIN t.out : /\ i \in Nat /\ i + 1 \in DOMAIN s.out
                                /\ t.out[i] = s.out[i + 1]
    <2>1. DOMAIN t.out = 1..(Len(s.out) - 1)
      BY <1>4, <1>q
    <2> QED
      BY <2>1, <1>4, <1>q, <1>d
  <1>6. Bounded(t, l, rev)
    <2>1. l.known \subseteq 1..rev
      BY <1>3, <1>2, <1>0 DEF Bounded
    <2>2. Len(t.out) <= OutMax
      <3>1. Len(t.out) = Len(s.out) - 1 /\ Len(s.out) <= OutMax
        BY <1>4, <1>q, <1>0 DEF Bounded
      <3> QED
        BY <3>1, <1>q, LiveAssumption
    <2>3. \A i \in DOMAIN t.out : t.out[i].rev <= rev
      BY <1>5, <1>0 DEF Bounded
    <2> QED
      BY <2>1, <2>2, <2>3, <1>p, <1>0, <1>2, <1>3, <1>4 DEF Bounded, Queue
  <1>7. Wire(t, l, over)
    <2>1. ASSUME NEW i \in DOMAIN t.out
          PROVE  /\ t.out[i].rev > l.seen
                 /\ \A j \in 1..(i - 1) : t.out[j].rev < t.out[i].rev
                 /\ \/ t.out[i].resync
                    \/ \A q \in Nat : Prior(t, l, i) < q /\ q < t.out[i].rev => q \in over
      <3>1. i \in Nat /\ i + 1 \in DOMAIN s.out /\ t.out[i] = s.out[i + 1] /\ i >= 1
            /\ i <= Len(s.out) - 1
        <4>1. i \in 1..(Len(s.out) - 1)
          BY <1>4, <1>q
        <4> QED
          BY <4>1, <1>5
      <3>2. \A j \in 1..((i + 1) - 1) : s.out[j].rev < s.out[i + 1].rev
        BY <3>1, <1>0 DEF Wire
      <3>3. t.out[i].rev > l.seen
        BY <3>1, <3>2, <1>3, <1>q, <1>d
      <3>4. \A j \in 1..(i - 1) : t.out[j].rev < t.out[i].rev
        <4> SUFFICES ASSUME NEW j \in 1..(i - 1) PROVE t.out[j].rev < t.out[i].rev
          OBVIOUS
        <4>1. t.out[j] = s.out[j + 1]
          BY <3>1, <1>4, <1>q
        <4>2. j + 1 \in 1..((i + 1) - 1)
          BY <3>1
        <4> QED
          BY <4>1, <4>2, <3>1, <3>2
      <3>5. Prior(t, l, i) = Prior(s, k, i + 1)
        <4>1. CASE i = 1
          BY <4>1, <1>3, <1>q DEF Prior
        <4>2. CASE i # 1
          <5>1. t.out[i - 1] = s.out[i]
            <6>1. i - 1 \in 1..(Len(s.out) - 1) /\ (i - 1) + 1 = i
              BY <4>2, <3>1, <1>q
            <6> QED
              BY <6>1, <1>4, <1>q
          <5>2. Prior(s, k, i + 1) = s.out[i].rev
            BY <3>1 DEF Prior
          <5> QED
            BY <4>2, <5>1, <5>2 DEF Prior
        <4> QED
          BY <4>1, <4>2
      <3>6. \/ s.out[i + 1].resync
            \/ \A q \in Nat : Prior(s, k, i + 1) < q /\ q < s.out[i + 1].rev => q \in over
        BY <3>1, <1>0 DEF Wire
      <3> QED
        BY <3>1, <3>3, <3>4, <3>5, <3>6
    <2>2. t.last = IF t.out = <<>> THEN l.seen ELSE t.out[Len(t.out)].rev
      <3>1. s.last = s.out[Len(s.out)].rev
        BY <1>p, <1>0 DEF Wire
      <3>2. CASE Len(s.out) = 1
        BY <3>1, <3>2, <1>3, <1>4, <1>q
      <3>3. CASE Len(s.out) # 1
        <4>1. Len(t.out) \in 1..(Len(s.out) - 1) /\ Len(t.out) + 1 = Len(s.out)
          BY <3>3, <1>4, <1>q
        <4>2. t.out[Len(t.out)] = s.out[Len(s.out)]
          BY <4>1, <1>4, <1>q
        <4>3. t.out # <<>>
          BY <3>3, <1>4, <1>q
        <4> QED
          BY <3>1, <4>2, <4>3, <1>4
      <3> QED
        BY <3>2, <3>3
    <2>3. 1..l.seen \subseteq l.known \union over
      <3> SUFFICES ASSUME NEW q \in 1..m.rev PROVE q \in l.known \union over
        BY <1>3
      <3>0. k.seen \in Nat /\ 1..k.seen \subseteq k.known \union over
        BY <1>0 DEF Wire, Browsers
      <3>1. CASE q <= k.seen
        <4>1. q \in 1..k.seen
          BY <3>0, <3>1
        <4> QED
          BY <4>1, <3>0, <1>3
      <3>2. CASE k.seen < q /\ q < m.rev
        <4>1. CASE m.resync
          BY <4>1, <1>3
        <4>2. CASE ~m.resync
          BY <4>2, <3>2, <1>2
        <4> QED
          BY <4>1, <4>2
      <3>3. CASE q = m.rev
        BY <3>3, <1>3
      <3> QED
        BY <3>0, <3>1, <3>2, <3>3, <1>2
    <2> QED
      BY <2>1, <2>2, <2>3 DEF Wire
  <1>8. Paged(t) /\ Queued(t, waiting, over)
    BY <1>0, <1>4 DEF Paged, Queued, Queue
  <1>9. Covered(t, rev, waiting, over)
    BY <1>0, <1>4 DEF Covered, Queue
  <1>10. ~(m.rev <= k.seen) /\ t \in Streams /\ l \in Browsers
         /\ StreamOK(t, l, rev, waiting, over)
    <2>1. ~(m.rev <= k.seen)
      BY <1>2 DEF Browsers
    <2> QED
      BY <2>1, <1>3, <1>4, <1>6, <1>7, <1>8, <1>9 DEF StreamOK
  <1> QED
    BY <1>10 DEF t, l, m

\* list_events tells the stream to resync, or its page and the rest of the log
\* reach without a hole from what the stream has sent to the newest revision.
LEMMA NoHoleBehind ==
    ASSUME LogTypeOK, Contiguous, NEW since \in Nat, ~ResyncRequired(since)
    PROVE  \A q \in (since + 1)..revision : q \in After(since)
  <1> SUFFICES ASSUME NEW q \in (since + 1)..revision PROVE q \in After(since)
    OBVIOUS
  <1>1. PICK r \in events : ~(r > since + 1)
    BY DEF ResyncRequired, LogTypeOK
  <1>2. r \in Nat /\ r <= since + 1 /\ q \in r..revision
    BY <1>1 DEF LogTypeOK
  <1>3. q \in events
    BY <1>2 DEF Contiguous
  <1> QED
    BY <1>3 DEF After

\* A message is one.
LEMMA MessageTyped ==
    \A r \in Nat, b \in BOOLEAN :
        /\ Message(r, b) \in Messages /\ Message(r, b).rev = r
        /\ Message(r, b).resync = b
  BY DEF Message, Messages

\* ListEvents when the window no longer reaches back: reload everything.
LEMMA ResyncKeeps ==
    ASSUME NEW s \in Streams, NEW k \in Browsers, NEW rev \in Nat, NEW waiting, NEW over,
           StreamOK(s, k, rev, waiting, over), s.phase # "closed"
    PROVE  LET t == [s EXCEPT !.phase = "paging", !.more = FALSE,
                              !.page = {Message(rev, TRUE)}]
           IN  t \in Streams /\ StreamOK(t, k, rev, waiting, over)
  <1> DEFINE t == [s EXCEPT !.phase = "paging", !.more = FALSE,
                            !.page = {Message(rev, TRUE)}]
  <1>1. Message(rev, TRUE) \in Messages /\ Message(rev, TRUE).rev = rev
    BY MessageTyped
  <1>2. /\ t \in Streams /\ t.phase = "paging" /\ t.page = {Message(rev, TRUE)}
        /\ t.queue = s.queue /\ t.last = s.last /\ t.out = s.out
    BY <1>1 DEF Streams
  <1> HIDE DEF t
  <1>3. Bounded(t, k, rev)
    <2>1. \A m \in t.page : m.rev <= rev
      BY <1>2 DEF Message
    <2> QED
      BY <2>1, <1>2 DEF StreamOK, Bounded, Queue
  <1>4. Wire(t, k, over)
    BY <1>2 DEF StreamOK, Wire, Prior
  <1>5. Paged(t)
    BY <1>2 DEF Paged
  <1>6. Queued(t, waiting, over)
    BY <1>2 DEF StreamOK, Queued, Queue
  <1>7. Covered(t, rev, waiting, over)
    <2>1. \A q \in (t.last + 1)..rev : \E m \in t.page : q <= m.rev
      BY <1>2 DEF Message
    <2> QED
      BY <2>1 DEF Covered
  <1>8. t \in Streams /\ StreamOK(t, k, rev, waiting, over)
    BY <1>2, <1>3, <1>4, <1>5, <1>6, <1>7 DEF StreamOK
  <1> QED
    BY <1>8 DEF t

\* ListEvents when it does: the page starts right behind what was sent last.
LEMMA PageKeeps ==
    ASSUME NEW s \in Streams, NEW k \in Browsers, NEW waiting, NEW over,
           LogTypeOK, Contiguous, ~ResyncRequired(s.last),
           StreamOK(s, k, revision, waiting, over), s.phase # "closed",
           NEW p \in Pages(s.last)
    PROVE  LET t == [s EXCEPT !.phase = "paging", !.more = HasMore(s, p),
                              !.page = {Message(r, FALSE) : r \in p}]
           IN  t \in Streams /\ StreamOK(t, k, revision, waiting, over)
  <1> DEFINE t == [s EXCEPT !.phase = "paging", !.more = HasMore(s, p),
                            !.page = {Message(r, FALSE) : r \in p}]
  <1>0. revision \in Nat /\ events \subseteq 1..revision /\ s.last \in Nat
    BY StreamTyped DEF LogTypeOK
  <1>1. p \subseteq After(s.last) /\ \A r \in p, q \in After(s.last) : q <= r => q \in p
    <2>1. CASE p = {}
      BY <2>1
    <2>2. CASE p # {}
      <3>1. PICK last \in After(s.last) : p = {r \in After(s.last) : r <= last}
        BY <2>2 DEF Pages
      <3>2. \A q \in After(s.last) : q \in Nat
        BY <1>0 DEF After
      <3> QED
        BY <3>1, <3>2
    <2> QED
      BY <2>1, <2>2
  <1>2. \A q \in (s.last + 1)..revision : q \in After(s.last)
    BY <1>0, NoHoleBehind
  <1>3. \A r \in p : r \in 1..revision /\ r > s.last
    BY <1>0, <1>1 DEF After
  <1>4. \A r \in p : /\ Message(r, FALSE) \in Messages /\ Message(r, FALSE).rev = r
                     /\ ~Message(r, FALSE).resync
    BY <1>3 DEF Message, Messages
  <1>5. /\ t \in Streams /\ t.phase = "paging" /\ t.page = {Message(r, FALSE) : r \in p}
        /\ t.queue = s.queue /\ t.last = s.last /\ t.out = s.out /\ t.more = HasMore(s, p)
    <2>1. {Message(r, FALSE) : r \in p} \subseteq Messages /\ HasMore(s, p) \in BOOLEAN
      BY <1>4 DEF HasMore
    <2> QED
      BY <2>1 DEF Streams
  <1> HIDE DEF t
  <1>6. Bounded(t, k, revision)
    <2>1. \A m \in t.page : m.rev <= revision
      BY <1>3, <1>5 DEF Message
    <2> QED
      BY <2>1, <1>5 DEF StreamOK, Bounded, Queue
  <1>7. Wire(t, k, over)
    BY <1>5 DEF StreamOK, Wire, Prior
  <1>8. Paged(t)
    <2>1. ASSUME NEW m \in t.page
          PROVE  /\ ~m.resync /\ m.rev > t.last
                 /\ \A q \in (t.last + 1)..m.rev : Message(q, FALSE) \in t.page
      <3>1. PICK r \in p : m = Message(r, FALSE)
        BY <1>5
      <3>2. m.rev = r /\ ~m.resync /\ r > s.last /\ r \in 1..revision
        BY <3>1, <1>3, <1>4
      <3>3. ASSUME NEW q \in (s.last + 1)..r PROVE q \in p
        <4>1. q \in (s.last + 1)..revision /\ q <= r
          BY <3>2, <1>0
        <4> QED
          BY <4>1, <1>1, <1>2
      <3> QED
        BY <3>2, <3>3, <1>5
    <2> QED
      BY <2>1, <1>5 DEF Paged
  <1>9. Queued(t, waiting, over)
    BY <1>5 DEF StreamOK, Queued, Queue
  <1>10. Covered(t, revision, waiting, over)
    <2> SUFFICES ASSUME ~t.more, NEW q \in (t.last + 1)..revision
                 PROVE  \E m \in t.page : q <= m.rev
      BY <1>5 DEF Covered
    <2>1. p = After(s.last)
      BY <1>5 DEF HasMore
    <2>2. q \in p
      BY <2>1, <1>2, <1>5
    <2>3. Message(q, FALSE) \in t.page
      BY <2>2, <1>5
    <2>4. q \in 1..revision /\ Message(q, FALSE).rev = q
      BY <2>2, <1>3 DEF Message
    <2>5. q <= Message(q, FALSE).rev
      BY <2>4, <1>0 DEF Message
    <2> QED
      BY <2>3, <2>5
  <1>11. t \in Streams /\ StreamOK(t, k, revision, waiting, over)
    BY <1>5, <1>6, <1>7, <1>8, <1>9, <1>10 DEF StreamOK
  <1> QED
    BY <1>11 DEF t

-----------------------------------------------------------------------------
(***************************************************************************)
(* The system: every action keeps the invariant.                           *)
(***************************************************************************)

\* An operation on one stream and its browser leaves the others alone.
LEMMA OneStream ==
    ASSUME IInv, NEW c \in Clients, NEW t \in Streams, NEW l \in Browsers,
           stream' = [stream EXCEPT ![c] = t], client' = [client EXCEPT ![c] = l],
           UNCHANGED <<revision, events, unpublished, abandoned, overtaken>>,
           failures' \in 0..MaxFailures,
           StreamOK(t, l, revision, Waiting, overtaken)
    PROVE  IInv'
  <1>1. LogSound'
    BY DEF IInv, LogSound, LogTypeOK, Contiguous
  <1>2. StreamsTyped'
    BY DEF IInv, StreamsTyped
  <1>3. Waiting' = Waiting /\ revision' = revision /\ overtaken' = overtaken
    BY DEF Waiting
  <1>4. ASSUME NEW d \in Clients
        PROVE  StreamOK(stream'[d], client'[d], revision, Waiting, overtaken)
    <2>1. CASE d = c
      BY <2>1 DEF IInv, StreamsTyped
    <2>2. CASE d # c
      BY <2>2 DEF IInv, StreamsTyped
    <2> QED
      BY <2>1, <2>2
  <1>5. \A d \in Clients :
            StreamOK(stream'[d], client'[d], revision', Waiting', overtaken')
    BY <1>3, <1>4
  <1> QED
    BY <1>1, <1>2, <1>5 DEF IInv

\* What the invariant says of one client.
LEMMA ClientSound ==
    ASSUME IInv, NEW c \in Clients
    PROVE  /\ stream[c] \in Streams /\ client[c] \in Browsers
           /\ StreamOK(stream[c], client[c], revision, Waiting, overtaken)
           /\ revision \in Nat /\ LogTypeOK /\ Contiguous
           /\ client = [client EXCEPT ![c] = client[c]]
           /\ failures \in 0..MaxFailures
           /\ client[c].seen <= revision /\ client[c].known \subseteq 1..revision
           /\ 1..client[c].seen \subseteq client[c].known \union overtaken
  BY DEF IInv, LogSound, LogTypeOK, StreamsTyped, StreamOK, Bounded, Wire

LEMMA InitSound == Init => IInv
  <1> SUFFICES ASSUME Init PROVE IInv
    OBVIOUS
  <1>1. LogSound
    BY LiveAssumption DEF Init, LogInit, LogSound, LogTypeOK, Contiguous
  <1> DEFINE k == [seen |-> 0, known |-> {}, stopped |-> FALSE]
  <1>2. k \in Browsers /\ k.seen = 0 /\ k.known = {}
    BY DEF Browsers
  <1>3. \A c \in Clients : stream[c] = Closed /\ client[c] = k
    BY DEF Init
  <1>s. stream = [c \in Clients |-> Closed] /\ client = [c \in Clients |-> k]
    BY DEF Init
  <1> HIDE DEF k
  <1>4. revision = 0 /\ 0 \in Nat
    BY DEF Init, LogInit
  <1>5. k.seen <= 0 /\ k.known \subseteq 1..0 /\ 1..k.seen \subseteq k.known \union overtaken
    BY <1>2
  <1>6. Closed \in Streams /\ StreamOK(Closed, k, 0, Waiting, overtaken)
    BY <1>2, <1>4, <1>5, ClosedIsSound
  <1>7. StreamsTyped
    BY <1>2, <1>6, <1>s DEF StreamsTyped
  <1> QED
    BY <1>1, <1>3, <1>4, <1>6, <1>7 DEF IInv

LEMMA CommitSound == IInv /\ CommitMutation => IInv'
  <1> SUFFICES ASSUME IInv, CommitMutation PROVE IInv'
    OBVIOUS
  <1>1. /\ revision' = revision + 1 /\ events' = events \union {revision + 1}
        /\ unpublished' = unpublished \union {revision + 1}
        /\ UNCHANGED <<abandoned, overtaken, stream, client, failures>>
    BY DEF CommitMutation, AppendEvent
  <1>2. LogSound'
    <2>1. LogTypeOK' /\ Contiguous'
      BY <1>1 DEF IInv, LogSound, LogTypeOK, Contiguous
    <2>2. unpublished' \subseteq 1..revision' /\ abandoned' \subseteq 1..revision'
          /\ overtaken' \subseteq 1..revision' /\ failures' \in 0..MaxFailures
          /\ unpublished' \intersect abandoned' = {}
      BY <1>1 DEF IInv, LogSound, LogTypeOK
    <2> QED
      BY <2>1, <2>2 DEF LogSound
  <1>3. StreamsTyped'
    BY <1>1 DEF IInv, StreamsTyped
  <1>4. Waiting' = Waiting \union {revision + 1}
    BY <1>1 DEF Waiting
  <1>5. ASSUME NEW c \in Clients
        PROVE  StreamOK(stream'[c], client'[c], revision', Waiting', overtaken')
    <2>1. /\ stream[c] \in Streams /\ client[c] \in Browsers /\ revision \in Nat
          /\ StreamOK(stream[c], client[c], revision, Waiting, overtaken)
      BY ClientSound
    <2>2. StreamOK(stream[c], client[c], revision + 1, Waiting \union {revision + 1}, overtaken)
      BY <2>1, CommitKeeps
    <2> QED
      BY <2>2, <1>1, <1>4
  <1> QED
    BY <1>2, <1>3, <1>5 DEF IInv

LEMMA PruneSound == IInv /\ Prune => IInv'
  <1> SUFFICES ASSUME IInv, Prune PROVE IInv'
    OBVIOUS
  <1>1. PICK r \in events : IsOldest(r) /\ events' = events \ {r}
    BY DEF Prune, DropOldest
  <1>2. UNCHANGED <<revision, unpublished, abandoned, overtaken, stream, client, failures>>
    BY DEF Prune, DropOldest
  <1>n. revision \in Nat /\ events \subseteq 1..revision /\ r \in Nat
    BY DEF IInv, LogSound, LogTypeOK
  <1>3. LogTypeOK' /\ Contiguous'
    <2>1. LogTypeOK'
      BY <1>1, <1>2, <1>n DEF LogTypeOK
    <2>2. ASSUME NEW x \in events \ {r}, NEW y \in x..revision PROVE y \in events \ {r}
      <3>1. y \in events
        BY DEF IInv, LogSound, Contiguous
      <3>2. r <= x /\ r # x /\ x \in Nat
        BY <1>1, <1>n DEF IsOldest
      <3> QED
        BY <3>1, <3>2, <1>n
    <2> QED
      BY <2>1, <2>2, <1>1, <1>2 DEF Contiguous
  <1>4. LogSound'
    BY <1>2, <1>3 DEF IInv, LogSound
  <1>5. StreamsTyped'
    BY <1>2 DEF IInv, StreamsTyped
  <1>6. Waiting' = Waiting
    BY <1>2 DEF Waiting
  <1> QED
    BY <1>2, <1>4, <1>5, <1>6 DEF IInv

LEMMA PublishSound == \A r \in unpublished : IInv /\ Publish(r) => IInv'
  <1> SUFFICES ASSUME IInv, NEW r \in unpublished, Publish(r) PROVE IInv'
    OBVIOUS
  <1> DEFINE left == Waiting \ {r}
             more == overtaken \union {q \in Waiting : q < r}
  <1>1. /\ unpublished' = unpublished \ {r}
        /\ overtaken' = more
        /\ stream' = [c \in Clients |->
                        IF Subscribed(stream[c]) THEN Enqueue(stream[c], r) ELSE stream[c]]
        /\ UNCHANGED <<revision, events, abandoned, client, failures>>
    BY DEF Publish, Waiting
  <1>2. revision \in Nat /\ r \in Waiting /\ Waiting \subseteq 1..revision
    BY DEF IInv, LogSound, LogTypeOK, Waiting
  <1>3. LogSound'
    BY <1>1, <1>2 DEF IInv, LogSound, LogTypeOK, Contiguous
  <1>4. Waiting' = left
    BY <1>1 DEF IInv, LogSound, Waiting
  <1>5. \A c \in Clients :
           /\ stream'[c] \in Streams
           /\ StreamOK(stream'[c], client[c], revision, left, more)
    <2> SUFFICES ASSUME NEW c \in Clients
                 PROVE  /\ stream'[c] \in Streams
                        /\ StreamOK(stream'[c], client[c], revision, left, more)
      OBVIOUS
    <2>1. /\ stream[c] \in Streams /\ client[c] \in Browsers
          /\ StreamOK(stream[c], client[c], revision, Waiting, overtaken)
      BY ClientSound
    <2>2. stream'[c] = IF Subscribed(stream[c]) THEN Enqueue(stream[c], r) ELSE stream[c]
      BY <1>1
    <2> HIDE DEF left, more
    <2>3. left = Waiting \ {r} /\ more = overtaken \union {q \in Waiting : q < r}
      BY DEF left, more
    <2>4. revision \in Nat /\ Waiting \in SUBSET (1..revision) /\ r \in Waiting
      BY <1>2
    <2>5. LET t == IF Subscribed(stream[c]) THEN Enqueue(stream[c], r) ELSE stream[c]
          IN  t \in Streams /\ StreamOK(t, client[c], revision, left, more)
      BY <2>1, <2>3, <2>4, PublishKeeps
    <2> QED
      BY <2>2, <2>5
  <1> HIDE DEF left, more
  <1>6. \A c \in Clients :
           StreamOK(stream'[c], client'[c], revision', Waiting', overtaken')
    BY <1>1, <1>4, <1>5
  <1>7. StreamsTyped'
    <2>1. stream' = [c \in Clients |-> stream'[c]]
      BY <1>1
    <2> QED
      BY <2>1, <1>1, <1>5 DEF IInv, StreamsTyped
  <1> QED
    BY <1>3, <1>6, <1>7 DEF IInv

LEMMA AbandonSound == \A r \in unpublished : IInv /\ Abandon(r) => IInv'
  <1> SUFFICES ASSUME IInv, NEW r \in unpublished, Abandon(r) PROVE IInv'
    OBVIOUS
  <1>1. /\ unpublished' = unpublished \ {r} /\ abandoned' = abandoned \union {r}
        /\ UNCHANGED <<revision, events, overtaken, stream, client, failures>>
    BY DEF Abandon
  <1>2. Waiting' = Waiting
    BY <1>1 DEF Waiting
  <1>3. LogSound'
    BY <1>1 DEF IInv, LogSound, LogTypeOK, Contiguous
  <1> QED
    BY <1>1, <1>2, <1>3 DEF IInv, StreamsTyped

LEMMA OpenSound == \A c \in Clients : IInv /\ Open(c) => IInv'
  <1> SUFFICES ASSUME IInv, NEW c \in Clients, Open(c) PROVE IInv'
    OBVIOUS
  <1> DEFINE t == [Closed EXCEPT !.phase = "opening", !.last = client[c].seen]
  <1>1. /\ stream' = [stream EXCEPT ![c] = t]
        /\ UNCHANGED <<revision, events, unpublished, abandoned, overtaken, client, failures>>
    BY DEF Open
  <1>2. t \in Streams /\ StreamOK(t, client[c], revision, Waiting, overtaken)
    BY ClientSound, OpenKeeps
  <1> HIDE DEF t
  <1> QED
    BY <1>1, <1>2, ClientSound, OneStream

\* A browser that gives up keeps what it knows.
LEMMA StopKeeps ==
    ASSUME NEW s \in Streams, NEW k \in Browsers, NEW rev \in Nat, NEW waiting, NEW over,
           StreamOK(s, k, rev, waiting, over)
    PROVE  LET l == [k EXCEPT !.stopped = TRUE]
           IN  /\ l \in Browsers /\ l.seen = k.seen /\ l.known = k.known
               /\ StreamOK(s, l, rev, waiting, over)
  <1> DEFINE l == [k EXCEPT !.stopped = TRUE]
  <1>1. l \in Browsers /\ l.seen = k.seen /\ l.known = k.known
    BY DEF Browsers
  <1> HIDE DEF l
  <1>2. StreamOK(s, l, rev, waiting, over)
    BY <1>1 DEF StreamOK, Bounded, Wire, Prior
  <1> QED
    BY <1>1, <1>2 DEF l

LEMMA TurnAwaySound == \A c \in Clients : IInv /\ TurnAway(c) => IInv'
  <1> SUFFICES ASSUME IInv, NEW c \in Clients, TurnAway(c) PROVE IInv'
    OBVIOUS
  <1> DEFINE l == [client[c] EXCEPT !.stopped = TRUE]
  <1>1. /\ client' = [client EXCEPT ![c] = l]
        /\ UNCHANGED <<revision, events, unpublished, abandoned, overtaken, stream, failures>>
    BY ClientSound DEF TurnAway, Browsers
  <1>2. l \in Browsers /\ StreamOK(stream[c], l, revision, Waiting, overtaken)
    BY ClientSound, StopKeeps
  <1> HIDE DEF l
  <1>3. stream' = [stream EXCEPT ![c] = stream[c]]
    BY <1>1 DEF IInv, StreamsTyped
  <1> QED
    BY <1>1, <1>2, <1>3, ClientSound, OneStream

LEMMA FirstQueryFailsSound == \A c \in Clients : IInv /\ FirstQueryFails(c) => IInv'
  <1> SUFFICES ASSUME IInv, NEW c \in Clients, FirstQueryFails(c) PROVE IInv'
    OBVIOUS
  <1> DEFINE l == [client[c] EXCEPT !.stopped = TRUE]
  <1>1. /\ client' = [client EXCEPT ![c] = l] /\ stream' = [stream EXCEPT ![c] = Closed]
        /\ UNCHANGED <<revision, events, unpublished, abandoned, overtaken>>
    BY ClientSound DEF FirstQueryFails, Browsers
  <1>2. failures' \in 0..MaxFailures
    BY ClientSound, LiveAssumption DEF FirstQueryFails
  <1>3. l \in Browsers /\ l.seen = client[c].seen /\ l.known = client[c].known
    BY ClientSound, StopKeeps
  <1> HIDE DEF l
  <1>4. Closed \in Streams /\ StreamOK(Closed, l, revision, Waiting, overtaken)
    BY <1>3, ClientSound, ClosedIsSound
  <1> QED
    BY <1>1, <1>2, <1>3, <1>4, OneStream

LEMMA ListEventsSound == \A c \in Clients : IInv /\ ListEvents(c) => IInv'
  <1> SUFFICES ASSUME IInv, NEW c \in Clients, ListEvents(c) PROVE IInv'
    OBVIOUS
  <1> DEFINE s == stream[c]
  <1>1. UNCHANGED <<revision, events, unpublished, abandoned, overtaken, client, failures>>
        /\ s.phase # "closed"
    BY DEF ListEvents
  <1>2. PICK t : stream' = [stream EXCEPT ![c] = t]
               /\ t \in Streams /\ StreamOK(t, client[c], revision, Waiting, overtaken)
    <2>1. CASE ResyncRequired(s.last)
      <3> DEFINE u == [s EXCEPT !.phase = "paging", !.more = FALSE,
                                !.page = {Message(revision, TRUE)}]
      <3>1. stream' = [stream EXCEPT ![c] = u]
        BY <2>1 DEF ListEvents
      <3>2. u \in Streams /\ StreamOK(u, client[c], revision, Waiting, overtaken)
        BY <1>1, ClientSound, ResyncKeeps
      <3> QED
        BY <3>1, <3>2
    <2>2. CASE ~ResyncRequired(s.last)
      <3> DEFINE u(p) == [s EXCEPT !.phase = "paging", !.more = HasMore(s, p),
                                   !.page = {Message(r, FALSE) : r \in p}]
      <3>1. PICK p \in Pages(s.last) : stream' = [stream EXCEPT ![c] = u(p)]
        BY <2>2 DEF ListEvents
      <3>2. u(p) \in Streams /\ StreamOK(u(p), client[c], revision, Waiting, overtaken)
        BY <1>1, <2>2, ClientSound, PageKeeps
      <3> QED
        BY <3>1, <3>2
    <2> QED
      BY <2>1, <2>2
  <1> QED
    BY <1>1, <1>2, ClientSound, OneStream

LEMMA ForwardPageSound == \A c \in Clients : IInv /\ ForwardPage(c) => IInv'
  <1> SUFFICES ASSUME IInv, NEW c \in Clients, ForwardPage(c) PROVE IInv'
    OBVIOUS
  <1>1. UNCHANGED <<revision, events, unpublished, abandoned, overtaken, client, failures>>
        /\ stream[c].phase = "paging"
    BY DEF ForwardPage
  <1> DEFINE t(m) == [Sent(stream[c], m) EXCEPT !.page = @ \ {m}]
  <1>2. PICK m \in stream[c].page :
            /\ \A n \in stream[c].page : m.rev <= n.rev
            /\ CanSend(stream[c], m)
            /\ stream' = [stream EXCEPT ![c] = t(m)]
    BY DEF ForwardPage
  <1>3. t(m) \in Streams /\ StreamOK(t(m), client[c], revision, Waiting, overtaken)
    BY <1>1, <1>2, ClientSound, ForwardKeeps
  <1> HIDE DEF t
  <1> QED
    BY <1>1, <1>2, <1>3, ClientSound, OneStream

LEMMA CaughtUpSound == \A c \in Clients : IInv /\ CaughtUp(c) => IInv'
  <1> SUFFICES ASSUME IInv, NEW c \in Clients, CaughtUp(c) PROVE IInv'
    OBVIOUS
  <1> DEFINE t == [stream[c] EXCEPT !.phase = "live"]
  <1>1. /\ stream' = [stream EXCEPT ![c] = t]
        /\ UNCHANGED <<revision, events, unpublished, abandoned, overtaken, client, failures>>
        /\ stream[c].phase = "paging" /\ stream[c].page = {} /\ ~stream[c].more
    BY ClientSound DEF CaughtUp, Streams
  <1>2. t \in Streams /\ StreamOK(t, client[c], revision, Waiting, overtaken)
    BY <1>1, ClientSound, CaughtUpKeeps
  <1> HIDE DEF t
  <1> QED
    BY <1>1, <1>2, ClientSound, OneStream

LEMMA ReceiveSound == \A c \in Clients : IInv /\ Receive(c) => IInv'
  <1> SUFFICES ASSUME IInv, NEW c \in Clients, Receive(c) PROVE IInv'
    OBVIOUS
  <1> DEFINE t == [Sent(stream[c], Message(Head(stream[c].queue), FALSE))
                        EXCEPT !.queue = Tail(@)]
  <1>1. /\ stream' = [stream EXCEPT ![c] = t]
        /\ UNCHANGED <<revision, events, unpublished, abandoned, overtaken, client, failures>>
        /\ stream[c].phase = "live" /\ ~stream[c].lagged /\ stream[c].queue # <<>>
        /\ CanSend(stream[c], Message(Head(stream[c].queue), FALSE))
    BY DEF Receive
  <1>2. t \in Streams /\ StreamOK(t, client[c], revision, Waiting, overtaken)
    BY <1>1, ClientSound, ReceiveKeeps
  <1> HIDE DEF t
  <1> QED
    BY <1>1, <1>2, ClientSound, OneStream

LEMMA ReceiveLaggedSound == \A c \in Clients : IInv /\ ReceiveLagged(c) => IInv'
  <1> SUFFICES ASSUME IInv, NEW c \in Clients, ReceiveLagged(c) PROVE IInv'
    OBVIOUS
  <1> DEFINE t == [stream[c] EXCEPT !.phase = "paging", !.more = TRUE, !.lagged = FALSE]
  <1>1. /\ stream' = [stream EXCEPT ![c] = t]
        /\ UNCHANGED <<revision, events, unpublished, abandoned, overtaken, client, failures>>
        /\ stream[c].phase = "live"
    BY DEF ReceiveLagged
  <1>2. t \in Streams /\ StreamOK(t, client[c], revision, Waiting, overtaken)
    BY <1>1, ClientSound, ReceiveLaggedKeeps
  <1> HIDE DEF t
  <1> QED
    BY <1>1, <1>2, ClientSound, OneStream

LEMMA DeliverSound == \A c \in Clients : IInv /\ Deliver(c) => IInv'
  <1> SUFFICES ASSUME IInv, NEW c \in Clients, Deliver(c) PROVE IInv'
    OBVIOUS
  <1> DEFINE m == Head(stream[c].out)
             t == [stream[c] EXCEPT !.out = Tail(@)]
             l == Informed(client[c], m)
  <1>1. /\ UNCHANGED <<revision, events, unpublished, abandoned, overtaken, failures>>
        /\ stream[c].out # <<>>
    BY DEF Deliver
  <1>2. /\ ~(m.rev <= client[c].seen)
        /\ t \in Streams /\ l \in Browsers
        /\ StreamOK(t, l, revision, Waiting, overtaken)
    BY <1>1, ClientSound, DeliverKeeps
  <1>3. client' = [client EXCEPT ![c].seen = m.rev,
                       ![c].known = @ \union (IF m.resync THEN 1..m.rev ELSE {m.rev})]
    BY <1>2 DEF Deliver
  <1>4. client' = [client EXCEPT ![c] = l]
    BY <1>3 DEF Informed, IInv, StreamsTyped, Browsers
  <1>5. stream' = [stream EXCEPT ![c] = t]
    BY DEF Deliver, IInv, StreamsTyped, Streams
  <1> HIDE DEF t, l
  <1> QED
    BY <1>1, <1>2, <1>4, <1>5, ClientSound, OneStream

LEMMA BreakSound == \A c \in Clients : IInv /\ Break(c) => IInv'
  <1> SUFFICES ASSUME IInv, NEW c \in Clients, Break(c) PROVE IInv'
    OBVIOUS
  <1>1. /\ stream' = [stream EXCEPT ![c] = Closed]
        /\ UNCHANGED <<revision, events, unpublished, abandoned, overtaken, client>>
    BY DEF Break
  <1>2. failures' \in 0..MaxFailures
    BY ClientSound, LiveAssumption DEF Break
  <1>3. Closed \in Streams /\ StreamOK(Closed, client[c], revision, Waiting, overtaken)
    BY ClientSound, ClosedIsSound
  <1> QED
    BY <1>1, <1>2, <1>3, ClientSound, OneStream

LEMMA RestartSound == IInv /\ Restart => IInv'
  <1> SUFFICES ASSUME IInv, Restart PROVE IInv'
    OBVIOUS
  <1>1. /\ unpublished' = {} /\ abandoned' = {} /\ stream' = [c \in Clients |-> Closed]
        /\ UNCHANGED <<revision, events, overtaken, client>>
    BY DEF Restart
  <1>2. failures' \in 0..MaxFailures
    BY LiveAssumption DEF Restart, IInv, LogSound
  <1>3. LogSound'
    BY <1>1, <1>2 DEF IInv, LogSound, LogTypeOK, Contiguous
  <1>4. \A c \in Clients :
           /\ stream'[c] \in Streams
           /\ StreamOK(stream'[c], client'[c], revision', Waiting', overtaken')
    <2> SUFFICES ASSUME NEW c \in Clients
                 PROVE  /\ stream'[c] \in Streams
                        /\ StreamOK(stream'[c], client'[c], revision', Waiting', overtaken')
      OBVIOUS
    <2>1. Closed \in Streams /\ StreamOK(Closed, client[c], revision, Waiting', overtaken)
      BY ClientSound, ClosedIsSound
    <2> QED
      BY <2>1, <1>1
  <1>5. StreamsTyped'
    <2>1. stream' = [c \in Clients |-> stream'[c]]
      BY <1>1
    <2> QED
      BY <2>1, <1>1, <1>4 DEF IInv, StreamsTyped
  <1> QED
    BY <1>3, <1>4, <1>5 DEF IInv

LEMMA StutterSound == IInv /\ UNCHANGED vars => IInv'
  BY DEF vars, IInv, LogSound, LogTypeOK, Contiguous, StreamsTyped, Waiting

LEMMA StepSound == IInv /\ [Next]_vars => IInv'
  BY CommitSound, PruneSound, PublishSound, AbandonSound, OpenSound, TurnAwaySound,
     FirstQueryFailsSound, ListEventsSound, ForwardPageSound, CaughtUpSound, ReceiveSound,
     ReceiveLaggedSound, DeliverSound, BreakSound, RestartSound, StutterSound DEF Next

-----------------------------------------------------------------------------
(***************************************************************************)
(* The theorems.                                                           *)
(***************************************************************************)

\* The log, every stream and every browser stay sound, whatever the order of commits,
\* publications, catch-up pages, lag, broken streams and restarts.
THEOREM Invariance == Spec => []IInv
  BY InitSound, StepSound, PTL DEF Spec

\* No stream outgrows its queue or its channel, and what is on the wire is ascending and
\* newer than anything the browser saw (sse.rs send_event, forward_catch_up).
THEOREM WireNeverRepeats == Spec => []WireIsSound
  <1>1. IInv => WireIsSound
    <2> SUFFICES ASSUME IInv PROVE WireIsSound
      OBVIOUS
    <2>1. LiveTypeOK
      <3>1. ASSUME NEW c \in Clients
            PROVE  /\ stream[c].phase \in {"closed", "opening", "paging", "live"}
                   /\ stream[c].queue \in Seq(1 .. revision)
                   /\ Len(stream[c].queue) <= QueueMax
                   /\ stream[c].lagged \in BOOLEAN
                   /\ stream[c].last \in 0 .. revision
                   /\ stream[c].page \subseteq Messages
                   /\ stream[c].more \in BOOLEAN
                   /\ stream[c].out \in Seq(Messages)
                   /\ Len(stream[c].out) <= OutMax
                   /\ client[c].seen \in 0 .. revision
                   /\ client[c].known \subseteq 1 .. revision
                   /\ client[c].stopped \in BOOLEAN
        <4> DEFINE s == stream[c]  k == client[c]
        <4>1. /\ s \in Streams /\ k \in Browsers /\ revision \in Nat
              /\ Bounded(s, k, revision)
          BY ClientSound DEF StreamOK
        <4> HIDE DEF s, k
        <4>2. s.queue \in Seq(1..revision)
          <5>1. Len(s.queue) \in Nat /\ s.queue \in [1..Len(s.queue) -> Nat]
            BY <4>1, StreamTyped, LenProperties
          <5>2. \A i \in 1..Len(s.queue) : s.queue[i] \in 1..revision
            BY <4>1, <5>1 DEF Bounded, Queue
          <5>3. s.queue \in [1..Len(s.queue) -> 1..revision]
            BY <5>1, <5>2
          <5> QED
            BY <5>1, <5>3, SeqDef
        <4>3. s.phase \in {"closed", "opening", "paging", "live"} /\ s.lagged \in BOOLEAN
              /\ s.page \subseteq Messages /\ s.more \in BOOLEAN /\ s.out \in Seq(Messages)
          BY <4>1 DEF Streams
        <4>4. k.stopped \in BOOLEAN
          BY <4>1 DEF Browsers
        <4>5. s.last \in 0..revision /\ k.seen \in 0..revision /\ k.known \subseteq 1..revision
              /\ Len(s.queue) <= QueueMax /\ Len(s.out) <= OutMax
          BY <4>1 DEF Streams, Browsers, Bounded
        <4> QED
          BY <4>2, <4>3, <4>4, <4>5 DEF s, k
      <3> QED
        BY <3>1 DEF LiveTypeOK, IInv, LogSound
    <2>2. EachRevisionOnce
      BY DEF EachRevisionOnce, IInv, StreamOK, Wire
    <2> QED
      BY <2>1, <2>2 DEF WireIsSound
  <1> QED
    BY <1>1, Invariance, PTL

\* A browser that has seen a revision knows every earlier one, unless it was overtaken
\* on its way from commit to publication: lag, retention, paging, broken streams and
\* restarts lose nothing (sse.rs forward_events, routes.rs events).
THEOREM NothingIsLost == Spec => []GapsOnlyByOvertaking
  <1>1. IInv => GapsOnlyByOvertaking
    BY DEF GapsOnlyByOvertaking, IInv, StreamOK, Wire
  <1> QED
    BY <1>1, Invariance, PTL

=============================================================================
