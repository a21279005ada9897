--------------------------- MODULE EventBus_proofs ---------------------------
(***************************************************************************)
(* Proofs about EventBus, for any number of clients, segments and chunks.  *)
(*                                                                         *)
(* The types of what a client shows follow from those of what is on its    *)
(* way to it: every event in a queue or a replay has been numbered by the  *)
(* log, or is live, and carries a chunk if it is one.  The order of the    *)
(* rows follows from where replay and queue stand in the log, and the text *)
(* from the balance of what is shown, passed and on its way with what was  *)
(* sent.                                                                   *)
(***************************************************************************)
EXTENDS EventBus, SequenceTheorems, TLAPS

Events == [seq : Nat, type : {"start", "chunk", "aggregate", "end", "terminal"},
           seg : Segments \cup {"round"}, part : 0 .. MaxChunks]

\* An event that may be published: a chunk has a number, and all but the
\* terminal belong to a segment.
WellFormed(e) ==
    /\ e.type = "chunk" => e.part # 0
    /\ e.type # "terminal" => e.seg \in Segments

\* e can be shown: it is one of the first n of the log, or live.
Known(e, n) == WellFormed(e) /\ e.seq <= n /\ (e.seq = 0 => e.seg \in Segments)

LogInv ==
    /\ log \in Seq(Events)
    /\ \A i \in DOMAIN log : log[i].seq = i /\ Known(log[i], Len(log))

ProducerInv ==
    /\ driver \in {"on", "parked", "lost", "gone"}
    /\ stage \in [Segments -> {"new", "open", "done"}]
    /\ sent \in [Segments -> 0 .. MaxChunks]
    /\ buffer \in [Segments -> 0 .. MaxChunks]
    /\ \A s \in Segments : buffer[s] <= sent[s]

LinkInv ==
    /\ registered \subseteq {c \in Clients : link[c] \in {"registered", "live"}}
    /\ link \in [Clients -> {"off", "direct", "draining", "replay", "last",
                             "ensured", "registered", "live"}]

OnTheWay(q) == q \in [Clients -> Seq(Events)] /\ \A c \in Clients : \A i \in DOMAIN q[c] : Known(q[c][i], Len(log))
WayInv == OnTheWay(todo) /\ OnTheWay(queue)

SubscriptionInv ==
    /\ latest \in [Clients -> 0 .. Len(log)]
    /\ seen \in [Clients -> SUBSET (1 .. Len(log))]
    /\ raw \in [Clients -> SUBSET Segments]
    /\ replayed \in [Clients -> SUBSET Segments]
    /\ required \in [Clients -> SUBSET Segments]

ViewInv ==
    /\ cursor \in [Clients -> 0 .. Len(log)]
    /\ content \in [Clients -> [Segments -> Seq(1 .. MaxChunks)]]

BusInv == LogInv /\ ProducerInv /\ LinkInv /\ WayInv /\ SubscriptionInv /\ ViewInv
-----------------------------------------------------------------------------
LEMMA WholeIsText == ASSUME NEW n \in 0 .. MaxChunks PROVE Whole(n) \in Seq(1 .. MaxChunks)
  <1>1. Whole(n) \in [1 .. n -> 1 .. MaxChunks]
    BY EventBusAssumption DEF Whole
  <1> QED  BY <1>1, EventBusAssumption, SeqDef

\* The log only grows, so that what was typed by its length stays so.
LEMMA Grows ==
    ASSUME BusInv, LogInv', Len(log') >= Len(log)
    PROVE  /\ UNCHANGED todo => OnTheWay(todo)'
           /\ UNCHANGED queue => OnTheWay(queue)'
           /\ UNCHANGED subscription => SubscriptionInv'
           /\ UNCHANGED view => ViewInv'
  <1> Len(log) \in Nat /\ Len(log') \in Nat
    BY DEF BusInv, LogInv
  <1>1. ASSUME NEW e \in Events, Known(e, Len(log)) PROVE Known(e, Len(log'))
    BY <1>1 DEF Known, WellFormed, Events
  <1>2. UNCHANGED todo => OnTheWay(todo)'
    BY <1>1 DEF BusInv, WayInv, OnTheWay
  <1>3. UNCHANGED queue => OnTheWay(queue)'
    BY <1>1 DEF BusInv, WayInv, OnTheWay
  <1>4. UNCHANGED subscription => SubscriptionInv'
    BY DEF BusInv, SubscriptionInv, subscription, filter
  <1>5. UNCHANGED view => ViewInv'
    BY DEF BusInv, ViewInv, view
  <1> QED  BY <1>2, <1>3, <1>4, <1>5

\* What the fanout hands over is on its way.
LEMMA FannedOut ==
    ASSUME BusInv, LogInv', Len(log') >= Len(log),
           NEW events \in Seq(Events), events # <<>>,
           \A i \in DOMAIN events : Known(events[i], Len(log')),
           NEW D, Fanout(events, D)
    PROVE  OnTheWay(queue)'
  <1>1. ASSUME NEW e \in Events, Known(e, Len(log)) PROVE Known(e, Len(log'))
    BY <1>1 DEF Known, WellFormed, Events, BusInv, LogInv
  <1>2. Last(events) \in Events /\ Known(Last(events), Len(log'))
    BY DEF Last
  <1>3. ASSUME NEW c \in Clients
        PROVE  queue'[c] \in Seq(Events) /\ \A i \in DOMAIN queue'[c] : Known(queue'[c][i], Len(log'))
    <2>1. queue[c] \in Seq(Events) /\ \A i \in DOMAIN queue[c] : Known(queue[c][i], Len(log'))
      BY <1>1 DEF BusInv, WayInv, OnTheWay
    <2>2. CASE queue'[c] = queue[c] \o events
      BY <2>1, <2>2, ConcatProperties
    <2>3. CASE queue'[c] = Append(queue[c], Last(events))
      BY <2>1, <2>3, <1>2, AppendProperties
    <2>4. CASE queue'[c] = queue[c]
      BY <2>1, <2>4
    <2> QED  BY <2>2, <2>3, <2>4 DEF Fanout
  <1> QED  BY <1>3 DEF Fanout, OnTheWay

LEMMA Published ==
    ASSUME BusInv, NEW rows \in Seq(Events), rows # <<>>,
           \A i \in DOMAIN rows : WellFormed(rows[i]),
           NEW D, PublishRows(rows, D)
    PROVE  /\ LogInv' /\ Len(log') = Len(log) + Len(rows) /\ OnTheWay(queue)'
           /\ \A i \in 1 .. Len(log') :
                 log'[i].type = IF i <= Len(log) THEN log[i].type ELSE rows[i - Len(log)].type
  <1> DEFINE stored == [i \in DOMAIN rows |-> [rows[i] EXCEPT !.seq = Len(log) + i]]
  <1>0. log' = log \o stored /\ Fanout(stored, D)
    BY DEF PublishRows
  <1>1. Len(log) \in Nat /\ Len(rows) \in Nat /\ log \in Seq(Events) /\ DOMAIN rows = 1 .. Len(rows)
    BY DEF BusInv, LogInv
  <1>2. \A i \in 1 .. Len(rows) : /\ stored[i] \in Events /\ stored[i].seq = Len(log) + i
                                 /\ stored[i].type = rows[i].type /\ stored[i].part = rows[i].part
                                 /\ stored[i].seg = rows[i].seg
    <2> TAKE i \in 1 .. Len(rows)
    <2>1. rows[i] \in Events
      OBVIOUS
    <2>2. stored[i] = [rows[i] EXCEPT !.seq = Len(log) + i]
      BY <1>1
    <2>3. Len(log) + i \in Nat
      BY <1>1
    <2> HIDE DEF stored
    <2> QED  BY <2>1, <2>2, <2>3 DEF Events
  <1>3. stored \in Seq(Events) /\ Len(stored) = Len(rows)
    <2>1. stored \in [1 .. Len(rows) -> Events]
      BY <1>1, <1>2
    <2>2. DOMAIN stored = 1 .. Len(rows)
      BY <1>1
    <2> HIDE DEF stored
    <2> QED  BY <2>1, <2>2, <1>1, SeqDef, LenProperties
  <1> HIDE DEF stored
  <1>4. /\ log' \in Seq(Events) /\ Len(log') = Len(log) + Len(rows)
        /\ \A i \in 1 .. Len(log') : log'[i] = IF i <= Len(log) THEN log[i] ELSE stored[i - Len(log)]
    <2>1. log' = log \o stored
      BY <1>0
    <2>2. /\ log \o stored \in Seq(Events) /\ Len(log \o stored) = Len(log) + Len(stored)
          /\ \A i \in 1 .. Len(log) + Len(stored) :
                (log \o stored)[i] = IF i <= Len(log) THEN log[i] ELSE stored[i - Len(log)]
      BY <1>1, <1>3, ConcatProperties
    <2> QED  BY <2>1, <2>2, <1>3
  <1>5. \A i \in 1 .. Len(rows) : Known(stored[i], Len(log'))
    <2> TAKE i \in 1 .. Len(rows)
    <2>1. WellFormed(rows[i]) /\ rows[i] \in Events
      BY <1>1
    <2>2. WellFormed(stored[i])
      BY <2>1, <1>2 DEF WellFormed
    <2>3. stored[i].seq = Len(log) + i /\ Len(log') = Len(log) + Len(rows)
      BY <1>2, <1>4
    <2> QED  BY <2>2, <2>3, <1>1 DEF Known
  <1>6. LogInv'
    <2>1. ASSUME NEW i \in 1 .. Len(log') PROVE log'[i].seq = i /\ Known(log'[i], Len(log'))
      <3>1. CASE i <= Len(log)
        <4>1. log'[i] = log[i] /\ i \in DOMAIN log /\ log[i] \in Events
          BY <1>1, <1>4, <3>1
        <4>2. log[i].seq = i /\ Known(log[i], Len(log))
          BY <4>1 DEF BusInv, LogInv
        <4> QED  BY <4>1, <4>2, <1>1, <1>4 DEF Known, WellFormed
      <3>2. CASE i > Len(log)
        <4>1. i - Len(log) \in 1 .. Len(rows) /\ log'[i] = stored[i - Len(log)]
          BY <1>1, <1>4, <3>2
        <4> QED  BY <4>1, <1>1, <1>2, <1>5
      <3> QED  BY <3>1, <3>2, <1>1
    <2> QED  BY <2>1, <1>4 DEF LogInv
  <1>7. OnTheWay(queue)'
    <2>1. stored # <<>> /\ DOMAIN stored = 1 .. Len(rows)
      BY <1>1, <1>3
    <2>2. Len(log') >= Len(log)
      BY <1>1, <1>4
    <2> QED  BY <2>1, <2>2, <1>0, <1>3, <1>5, <1>6, FannedOut
  <1>8. ASSUME NEW i \in 1 .. Len(log')
        PROVE  log'[i].type = IF i <= Len(log) THEN log[i].type ELSE rows[i - Len(log)].type
    BY <1>1, <1>2, <1>4
  <1> QED  BY <1>1, <1>4, <1>6, <1>7, <1>8

-----------------------------------------------------------------------------
LEMMA HeadAndTail ==
    ASSUME NEW q \in Seq(Events), q # <<>>, NEW n, \A i \in DOMAIN q : Known(q[i], n)
    PROVE  /\ Head(q) \in Events /\ Known(Head(q), n)
           /\ Tail(q) \in Seq(Events) /\ \A i \in DOMAIN Tail(q) : Known(Tail(q)[i], n)
  <1>1. Head(q) = q[1] /\ 1 \in DOMAIN q /\ Head(q) \in Events
    OBVIOUS
  <1>2. Tail(q) \in Seq(Events) /\ Len(Tail(q)) = Len(q) - 1
        /\ \A i \in 1 .. Len(Tail(q)) : Tail(q)[i] = q[i + 1]
    BY HeadTailProperties
  <1>3. \A i \in DOMAIN Tail(q) : i + 1 \in DOMAIN q /\ Tail(q)[i] = q[i + 1]
    BY <1>2
  <1> QED  BY <1>1, <1>2, <1>3

LEMMA Rest ==
    ASSUME BusInv, NEW n \in 0 .. Len(log)
    PROVE  After(n) \in Seq(Events) /\ \A i \in DOMAIN After(n) : Known(After(n)[i], Len(log))
  <1>1. log \in Seq(Events) /\ Len(log) \in Nat /\ n + 1 \in 1 .. Len(log) + 1
    BY DEF BusInv, LogInv
  <1>2. /\ SubSeq(log, n + 1, Len(log)) \in Seq(Events)
        /\ Len(SubSeq(log, n + 1, Len(log))) = Len(log) - n
        /\ \A i \in 1 .. Len(log) - n : SubSeq(log, n + 1, Len(log))[i] = log[n + i]
    BY <1>1, SubSeqProperties
  <1>3. \A i \in DOMAIN After(n) : n + i \in DOMAIN log /\ After(n)[i] = log[n + i]
    BY <1>1, <1>2 DEF After
  <1> QED  BY <1>2, <1>3 DEF After, BusInv, LogInv

LEMMA ShownTyped ==
    ASSUME BusInv, UNCHANGED log, NEW c \in Clients, NEW e \in Events, Known(e, Len(log)), Show(c, e)
    PROVE  ViewInv'
  <1>1. CASE UNCHANGED view
    BY <1>1 DEF BusInv, ViewInv, view
  <1>2. CASE /\ cursor' = [cursor EXCEPT ![c] = IF e.seq = 0 THEN @ ELSE e.seq]
             /\ content' = IF e.seg \in Segments
                           THEN [content EXCEPT ![c][e.seg] = Fold(@, e)] ELSE content
    <2>1. e.seq \in 0 .. Len(log) /\ cursor' \in [Clients -> 0 .. Len(log)]
      BY <1>2 DEF BusInv, LogInv, ViewInv, Known, Events
    <2>2. ASSUME e.seg \in Segments PROVE Fold(content[c][e.seg], e) \in Seq(1 .. MaxChunks)
      <3>1. content[c][e.seg] \in Seq(1 .. MaxChunks)
        BY <2>2 DEF BusInv, ViewInv
      <3>2. e.part \in 0 .. MaxChunks /\ Whole(e.part) \in Seq(1 .. MaxChunks)
        BY WholeIsText DEF Events
      <3>3. CASE e.type = "chunk"
        <4>1. e.part \in 1 .. MaxChunks
          BY <3>2, <3>3, EventBusAssumption DEF Known, WellFormed
        <4> QED  BY <4>1, <3>1, <3>3, AppendProperties DEF Fold
      <3>4. CASE e.type # "chunk"
        BY <3>1, <3>2, <3>4, EmptySeq DEF Fold, Events
      <3> QED  BY <3>3, <3>4
    <2>3. content' \in [Clients -> [Segments -> Seq(1 .. MaxChunks)]]
      BY <1>2, <2>2 DEF BusInv, ViewInv
    <2> QED  BY <2>1, <2>3 DEF ViewInv
  <1> QED  BY <1>1, <1>2 DEF Show

LEMMA Yielded ==
    ASSUME BusInv, UNCHANGED log, NEW c \in Clients, NEW e \in Events, Known(e, Len(log)), Yield(c, e)
    PROVE  SubscriptionInv' /\ ViewInv'
  <1>1. CASE UNCHANGED <<subscription, view>>
    BY <1>1 DEF BusInv, SubscriptionInv, ViewInv, subscription, filter, view
  <1>2. CASE e.seq \notin seen[c]
    <2>1. e.seq \in 0 .. Len(log) /\ Len(log) \in Nat
      BY DEF BusInv, LogInv, Known, Events
    <2>2. seen' \in [Clients -> SUBSET (1 .. Len(log))] /\ latest' \in [Clients -> 0 .. Len(log)]
      <3>1. /\ seen' = [seen EXCEPT ![c] = IF Live(e) THEN @ ELSE @ \cup {e.seq}]
            /\ latest' = [latest EXCEPT ![c] = IF e.seq > @ THEN e.seq ELSE @]
        BY <1>2 DEF Yield
      <3>2. ~Live(e) => e.seq \in 1 .. Len(log)
        BY <2>1 DEF Live
      <3> QED  BY <2>1, <3>1, <3>2 DEF BusInv, SubscriptionInv
    <2>3. Note(c, e)
      BY <1>2 DEF Yield
    <2>4. Live(e) \/ e.type = "aggregate" => e.seg \in Segments
      BY DEF Live, Known, WellFormed
    <2>5. /\ raw' \in [Clients -> SUBSET Segments] /\ replayed' \in [Clients -> SUBSET Segments]
          /\ required' \in [Clients -> SUBSET Segments]
      BY <2>3, <2>4 DEF Note, BusInv, SubscriptionInv
    <2>6. ViewInv'
      <3>1. CASE Duplicate(c, e)
        BY <1>2, <3>1 DEF Yield, BusInv, ViewInv, view
      <3>2. CASE ~Duplicate(c, e)
        BY <1>2, <3>2, ShownTyped DEF Yield
      <3> QED  BY <3>1, <3>2
    <2> QED  BY <2>2, <2>5, <2>6 DEF SubscriptionInv
  <1> QED  BY <1>1, <1>2 DEF Yield

LEMMA HungUp ==
    ASSUME BusInv, UNCHANGED log, NEW c \in Clients, Hangup(c)
    PROVE  LinkInv' /\ WayInv'
  <1>1. LinkInv'
    BY DEF BusInv, LinkInv, Hangup
  <1>2. OnTheWay(todo)' /\ OnTheWay(queue)'
    <2>1. <<>> \in Seq(Events) /\ DOMAIN <<>> = {}
      BY EmptySeq
    <2> QED  BY <2>1 DEF BusInv, WayInv, OnTheWay, Hangup
  <1> QED  BY <1>1, <1>2 DEF WayInv

-----------------------------------------------------------------------------
(* The steps.  A step that publishes keeps what has nothing to do with the *)
(* log; a step of a connection keeps the log and the producer.             *)

LEMMA PublishStep ==
    ASSUME BusInv, ProducerInv', LinkInv', UNCHANGED <<todo, subscription, view>>,
           NEW rows \in Seq(Events), rows # <<>>,
           \A i \in DOMAIN rows : WellFormed(rows[i]),
           NEW D, PublishRows(rows, D)
    PROVE  BusInv'
  <1>1. LogInv' /\ Len(log') = Len(log) + Len(rows) /\ OnTheWay(queue)'
    BY Published
  <1>2. Len(log') >= Len(log)
    BY <1>1 DEF BusInv, LogInv
  <1> QED  BY <1>1, <1>2, Grows DEF BusInv, WayInv

LEMMA QuietStep ==
    ASSUME BusInv, UNCHANGED <<log, producer>>, LinkInv', WayInv', SubscriptionInv', ViewInv'
    PROVE  BusInv'
  BY DEF BusInv, LogInv, ProducerInv, producer

LEMMA OneRow ==
    ASSUME NEW e \in Events, WellFormed(e)
    PROVE  <<e>> \in Seq(Events) /\ <<e>> # <<>> /\ \A i \in DOMAIN <<e>> : WellFormed(<<e>>[i]) /\ <<e>>[i] = e
  OBVIOUS

LEMMA TerminalRow == TerminalEvent \in Events /\ WellFormed(TerminalEvent)
  BY EventBusAssumption DEF TerminalEvent, Event, Events, WellFormed

LEMMA ProduceStep == ASSUME BusInv, Produce PROVE BusInv'
  <1> USE DEF Event
  <1>1. ASSUME NEW s \in Segments, StartSegment(s) PROVE BusInv'
    <2> DEFINE e == Event("start", s, 0)
    <2>1. e \in Events /\ WellFormed(e)
      BY EventBusAssumption DEF Events, WellFormed
    <2>2. ProducerInv' /\ LinkInv'
      BY <1>1 DEF BusInv, ProducerInv, LinkInv, StartSegment
    <2>3. PublishRows(<<e>>, Direct) /\ UNCHANGED <<todo, subscription, view>>
      BY <1>1 DEF StartSegment
    <2> HIDE DEF e
    <2> QED  BY <2>1, <2>2, <2>3, OneRow, PublishStep
  <1>2. ASSUME NEW s \in Segments, Chunk(s) PROVE BusInv'
    <2> DEFINE e == Event("chunk", s, sent[s] + 1)
    <2>1. sent[s] \in 0 .. MaxChunks - 1
      BY <1>2, EventBusAssumption DEF BusInv, ProducerInv, Chunk
    <2>2. e \in Events /\ WellFormed(e) /\ e.seq = 0 /\ e.seg \in Segments
      BY <2>1, EventBusAssumption DEF Events, WellFormed
    <2>3. ProducerInv' /\ LinkInv'
      BY <1>2, <2>1, EventBusAssumption DEF BusInv, ProducerInv, LinkInv, Chunk
    <2>4. CASE s \in TextSegments
      <3>1. PublishRows(<<e>>, Direct) /\ UNCHANGED <<todo, subscription, view>>
        BY <1>2, <2>4 DEF Chunk
      <3> HIDE DEF e
      <3> QED  BY <2>2, <2>3, <3>1, OneRow, PublishStep
    <2>5. CASE s \notin TextSegments
      <3>1. Fanout(<<e>>, Direct) /\ UNCHANGED <<log, todo, subscription, view>>
        BY <1>2, <2>5 DEF Chunk
      <3> HIDE DEF e
      <3>2. LogInv' /\ Len(log') >= Len(log) /\ Known(e, Len(log'))
        BY <2>2, <3>1 DEF BusInv, LogInv, Known
      <3>3. OnTheWay(queue)'
        BY <2>2, <3>1, <3>2, OneRow, FannedOut
      <3> QED  BY <2>3, <3>1, <3>2, <3>3, Grows DEF BusInv, WayInv
    <2> QED  BY <2>4, <2>5
  <1>3. ASSUME NEW s \in Segments, EndSegment(s) PROVE BusInv'
    <2> DEFINE agg == Event("aggregate", s, buffer[s])
               end == Event("end", s, 0)
               rows == IF buffer[s] = 0 THEN <<end>> ELSE <<agg, end>>
    <2>1. agg \in Events /\ end \in Events /\ WellFormed(agg) /\ WellFormed(end)
      BY EventBusAssumption DEF BusInv, ProducerInv, Events, WellFormed
    <2>2. rows \in Seq(Events) /\ rows # <<>> /\ \A i \in DOMAIN rows : WellFormed(rows[i])
      BY <2>1
    <2>3. ProducerInv' /\ LinkInv'
      BY <1>3, EventBusAssumption DEF BusInv, ProducerInv, LinkInv, EndSegment
    <2>4. PublishRows(rows, Direct) /\ UNCHANGED <<todo, subscription, view>>
      BY <1>3 DEF EndSegment
    <2> HIDE DEF rows
    <2> QED  BY <2>2, <2>3, <2>4, PublishStep
  <1>4. ASSUME FinishStream PROVE BusInv'
    <2>1. ProducerInv' /\ LinkInv'
      BY <1>4 DEF BusInv, ProducerInv, LinkInv, FinishStream, CloseDirect, Direct
    <2> QED  BY <1>4, <2>1, TerminalRow, OneRow, PublishStep DEF FinishStream
  <1>5. ASSUME Fail PROVE BusInv'
    <2>1. ProducerInv' /\ LinkInv'
      BY <1>5, EventBusAssumption DEF BusInv, ProducerInv, LinkInv, Fail, CloseDirect, Direct
    <2>2. CASE PublishRows(<<TerminalEvent>>, {})
      BY <1>5, <2>1, <2>2, TerminalRow, OneRow, PublishStep DEF Fail
    <2>3. CASE UNCHANGED <<log, queue>>
      <3>1. LogInv' /\ Len(log') >= Len(log)
        BY <2>3 DEF BusInv, LogInv
      <3> QED  BY <1>5, <2>1, <2>3, <3>1, Grows DEF Fail, BusInv, WayInv
    <2> QED  BY <1>5, <2>2, <2>3 DEF Fail
  <1>6. ASSUME StopDriver PROVE BusInv'
    <2>1. ProducerInv' /\ LinkInv'
      BY <1>6 DEF BusInv, ProducerInv, LinkInv, StopDriver, CloseDirect, Direct
    <2>2. LogInv' /\ Len(log') >= Len(log)
      BY <1>6 DEF StopDriver, BusInv, LogInv
    <2>3. log # <<>> /\ Last(log) \in Events /\ Known(Last(log), Len(log))
      BY <1>6 DEF StopDriver, Over, BusInv, LogInv, Last
    <2>4. OnTheWay(queue)'
      <3>1. ASSUME NEW c \in Clients
            PROVE  queue'[c] \in Seq(Events) /\ \A i \in DOMAIN queue'[c] : Known(queue'[c][i], Len(log))
        <4>1. queue[c] \in Seq(Events) /\ \A i \in DOMAIN queue[c] : Known(queue[c][i], Len(log))
          BY DEF BusInv, WayInv, OnTheWay
        <4>2. CASE queue'[c] = Append(queue[c], Last(log))
          BY <2>3, <4>1, <4>2, AppendProperties
        <4>3. CASE queue'[c] = queue[c]
          BY <4>1, <4>3
        <4> QED  BY <1>6, <4>2, <4>3 DEF StopDriver
      <3> QED  BY <1>6, <3>1 DEF OnTheWay, StopDriver
    <2> QED  BY <1>6, <2>1, <2>2, <2>4, Grows DEF StopDriver, BusInv, WayInv
  <1>7. ASSUME Suspend \/ LoseLiveness \/ \E c \in Clients : Resume(c) PROVE BusInv'
    <2>1. ProducerInv' /\ LinkInv'
      BY <1>7 DEF BusInv, ProducerInv, LinkInv, Suspend, LoseLiveness, Resume, CloseDirect, Direct
    <2>2. LogInv' /\ Len(log') >= Len(log) /\ UNCHANGED <<todo, queue, subscription, view>>
      BY <1>7 DEF Suspend, LoseLiveness, Resume, BusInv, LogInv
    <2> QED  BY <2>1, <2>2, Grows DEF BusInv, WayInv
  <1> QED  BY <1>1, <1>2, <1>3, <1>4, <1>5, <1>6, <1>7 DEF Produce

LEMMA ConvergeStep == ASSUME BusInv, Converge PROVE BusInv'
  <1>1. ASSUME AbortRound PROVE BusInv'
    <2>1. ProducerInv' /\ LinkInv'
      BY <1>1 DEF BusInv, ProducerInv, LinkInv, AbortRound, producer
    <2> QED  BY <1>1, <2>1, TerminalRow, OneRow, PublishStep DEF AbortRound
  <1>2. ASSUME NEW elsewhere \in BOOLEAN, RecoverRound(elsewhere) PROVE BusInv'
    <2>1. ProducerInv' /\ LinkInv' /\ UNCHANGED <<todo, subscription, view>>
      BY <1>2 DEF BusInv, ProducerInv, LinkInv, RecoverRound, producer
    <2>2. CASE ~elsewhere
      BY <1>2, <2>1, <2>2, TerminalRow, OneRow, PublishStep DEF RecoverRound
    <2>3. CASE elsewhere
      <3> DEFINE e == [TerminalEvent EXCEPT !.seq = Len(log) + 1]
      <3>0. log \in Seq(Events) /\ Len(log) \in Nat
        BY DEF BusInv, LogInv
      <3>1. e \in Events /\ e.seq = Len(log) + 1 /\ e.type = "terminal"
        BY <3>0, EventBusAssumption DEF TerminalEvent, Event, Events
      <3>2. log' = Append(log, e) /\ UNCHANGED queue
        BY <1>2, <2>3 DEF RecoverRound
      <3> HIDE DEF e
      <3>3. /\ log' \in Seq(Events) /\ Len(log') = Len(log) + 1
            /\ \A i \in 1 .. Len(log') : log'[i] = IF i = Len(log) + 1 THEN e ELSE log[i]
        BY <3>0, <3>1, <3>2, AppendProperties
      <3>4. LogInv'
        <4>1. ASSUME NEW i \in 1 .. Len(log') PROVE log'[i].seq = i /\ Known(log'[i], Len(log'))
          <5>1. CASE i = Len(log) + 1
            BY <3>0, <3>1, <3>3, <5>1 DEF Known, WellFormed
          <5>2. CASE i # Len(log) + 1
            <6>1. i \in DOMAIN log /\ log[i] \in Events /\ log'[i] = log[i]
              BY <3>0, <3>3, <5>2
            <6>2. log[i].seq = i /\ Known(log[i], Len(log))
              BY <6>1 DEF BusInv, LogInv
            <6> QED  BY <6>1, <6>2, <3>0, <3>3 DEF Known, WellFormed
          <5> QED  BY <5>1, <5>2
        <4> QED  BY <3>3, <4>1 DEF LogInv
      <3>5. Len(log') >= Len(log)
        BY <3>0, <3>3
      <3> QED  BY <2>1, <3>2, <3>4, <3>5, Grows DEF BusInv, WayInv
    <2> QED  BY <2>2, <2>3
  <1>3. ASSUME CrashProcess PROVE BusInv'
    <2>1. ProducerInv' /\ LinkInv'
      BY <1>3, EventBusAssumption DEF BusInv, ProducerInv, LinkInv, CrashProcess
    <2>2. WayInv'
      BY <1>3, EmptySeq DEF BusInv, WayInv, OnTheWay, CrashProcess
    <2>3. LogInv' /\ Len(log') >= Len(log) /\ UNCHANGED <<subscription, view>>
      BY <1>3 DEF CrashProcess, BusInv, LogInv
    <2> QED  BY <2>1, <2>2, <2>3, Grows DEF BusInv
  <1>4. \A elsewhere \in {FALSE, RollingStart} : elsewhere \in BOOLEAN
    BY EventBusAssumption
  <1> QED  BY <1>1, <1>2, <1>3, <1>4 DEF Converge

LEMMA ConnectionStep ==
    ASSUME BusInv, NEW c \in Clients, Subscribe(c) \/ Disconnect(c) \/ Stream(c)
    PROVE  BusInv'
  <1>0. /\ LinkInv /\ WayInv /\ SubscriptionInv /\ ViewInv
        /\ cursor[c] \in 0 .. Len(log) /\ latest[c] \in 0 .. Len(log)
    BY DEF BusInv, ViewInv, SubscriptionInv
  <1>q. ASSUME queue[c] # <<>>
        PROVE  /\ Head(queue[c]) \in Events /\ Known(Head(queue[c]), Len(log))
               /\ queue' = [queue EXCEPT ![c] = Tail(@)] /\ UNCHANGED <<log, todo>> => WayInv'
    BY <1>q, HeadAndTail DEF BusInv, WayInv, OnTheWay
  <1>t. ASSUME todo[c] # <<>>
        PROVE  /\ Head(todo[c]) \in Events /\ Known(Head(todo[c]), Len(log))
               /\ todo' = [todo EXCEPT ![c] = Tail(@)] /\ UNCHANGED <<log, queue>> => WayInv'
    BY <1>t, HeadAndTail DEF BusInv, WayInv, OnTheWay
  <1>r. ASSUME NEW n \in 0 .. Len(log), UNCHANGED <<log, queue>>,
               todo' = [todo EXCEPT ![c] = After(n)]
        PROVE  WayInv'
    BY <1>r, Rest DEF BusInv, WayInv, OnTheWay
  <1>1. ASSUME Subscribe(c) PROVE BusInv'
    <2>1. LinkInv'
      BY <1>1 DEF BusInv, LinkInv, Subscribe
    <2>2. WayInv'
      BY <1>0, <1>1, <1>r DEF Subscribe
    <2>3. SubscriptionInv' /\ ViewInv'
      BY <1>0, <1>1 DEF SubscriptionInv, ViewInv, Subscribe, view
    <2> QED  BY <1>1, <2>1, <2>2, <2>3, QuietStep DEF Subscribe
  <1>2. ASSUME Disconnect(c) \/ DirectEnds(c) \/ LastReplayEnds(c) PROVE BusInv'
    <2>1. Hangup(c) /\ UNCHANGED <<log, producer, subscription, view>>
      BY <1>2 DEF Disconnect, DirectEnds, LastReplayEnds
    <2> QED  BY <1>0, <2>1, HungUp, QuietStep DEF SubscriptionInv, ViewInv, subscription, filter, view
  <1>3. ASSUME ReadDirect(c) PROVE BusInv'
    <2>1. ViewInv'
      BY <1>3, <1>q, ShownTyped DEF ReadDirect
    <2>2. LinkInv' /\ WayInv'
      <3>1. CASE Hangup(c)
        BY <1>3, <3>1, HungUp DEF ReadDirect
      <3>2. CASE queue' = [queue EXCEPT ![c] = Tail(@)] /\ UNCHANGED <<link, registered, todo>>
        BY <1>0, <1>3, <3>2, <1>q DEF LinkInv, ReadDirect
      <3> QED  BY <1>3, <3>1, <3>2 DEF ReadDirect
    <2> QED  BY <1>0, <1>3, <2>1, <2>2, QuietStep DEF ReadDirect, SubscriptionInv, subscription, filter
  <1>4. ASSUME Replay(c) PROVE BusInv'
    <2>1. SubscriptionInv' /\ ViewInv'
      BY <1>4, <1>t, Yielded DEF Replay
    <2>2. LinkInv' /\ WayInv'
      <3>1. CASE Hangup(c)
        BY <1>4, <3>1, HungUp DEF Replay
      <3>2. CASE todo' = [todo EXCEPT ![c] = Tail(@)] /\ UNCHANGED <<link, registered, queue>>
        BY <1>0, <1>4, <3>2, <1>t DEF LinkInv, Replay
      <3> QED  BY <1>4, <3>1, <3>2 DEF Replay
    <2> QED  BY <1>4, <2>1, <2>2, QuietStep DEF Replay
  <1>5. ASSUME EnsureTerminal(c) PROVE BusInv'
    <2>1. WayInv'
      <3>1. CASE Over
        BY <1>0, <1>5, <3>1, <1>r DEF EnsureTerminal
      <3>2. CASE ~Over
        BY <1>0, <1>5, <3>2, EmptySeq DEF EnsureTerminal, WayInv, OnTheWay
      <3> QED  BY <3>1, <3>2
    <2>2. LinkInv'
      BY <1>0, <1>5 DEF EnsureTerminal, LinkInv
    <2> QED  BY <1>0, <1>5, <2>1, <2>2, QuietStep
             DEF EnsureTerminal, SubscriptionInv, ViewInv, subscription, filter, view
  <1>6. ASSUME Register(c) PROVE BusInv'
    <2>1. LinkInv' /\ WayInv' /\ SubscriptionInv' /\ ViewInv'
      BY <1>0, <1>6 DEF Register, LinkInv, WayInv, OnTheWay, SubscriptionInv, ViewInv, view
    <2> QED  BY <1>6, <2>1, QuietStep DEF Register
  <1>7. ASSUME CatchUp(c) PROVE BusInv'
    <2>1. WayInv'
      BY <1>0, <1>7, <1>r DEF CatchUp
    <2>2. LinkInv' /\ SubscriptionInv' /\ ViewInv'
      BY <1>0, <1>7 DEF CatchUp, LinkInv, SubscriptionInv, ViewInv, subscription, filter, view
    <2> QED  BY <1>7, <2>1, <2>2, QuietStep DEF CatchUp
  <1>8. ASSUME Receive(c) PROVE BusInv'
    <2>1. SubscriptionInv' /\ ViewInv'
      BY <1>8, <1>q, Yielded DEF Receive
    <2>2. LinkInv' /\ WayInv'
      <3>1. CASE Hangup(c)
        BY <1>8, <3>1, HungUp DEF Receive
      <3>2. CASE queue' = [queue EXCEPT ![c] = Tail(@)] /\ UNCHANGED <<link, registered, todo>>
        BY <1>0, <1>8, <3>2, <1>q DEF LinkInv, Receive
      <3> QED  BY <1>8, <3>1, <3>2 DEF Receive
    <2> QED  BY <1>8, <2>1, <2>2, QuietStep DEF Receive
  <1> QED  BY <1>1, <1>2, <1>3, <1>4, <1>5, <1>6, <1>7, <1>8 DEF Stream

-----------------------------------------------------------------------------
THEOREM BusInvariance == BusSpec => []BusInv
  <1>1. BusInit => BusInv
    BY EmptySeq, EventBusAssumption
       DEF BusInit, BusInv, LogInv, ProducerInv, LinkInv, WayInv, OnTheWay, SubscriptionInv, ViewInv
  <1>2. BusInv /\ [BusNext]_busVars => BusInv'
    <2> SUFFICES ASSUME BusInv, [BusNext]_busVars PROVE BusInv'
      OBVIOUS
    <2>1. CASE UNCHANGED busVars
      BY <2>1 DEF busVars, producer, subscription, filter, view, BusInv, LogInv, ProducerInv,
                  LinkInv, WayInv, OnTheWay, SubscriptionInv, ViewInv
    <2> QED  BY <2>1, ProduceStep, ConvergeStep, ConnectionStep DEF BusNext
  <1> QED  BY <1>1, <1>2, PTL DEF BusSpec

\* The types of the log, the producer, the connections and the clients' views.
THEOREM BusTypeCorrect == BusSpec => []BusTypeOK
  <1>1. BusInv => BusTypeOK
    <2> SUFFICES ASSUME BusInv PROVE BusTypeOK
      OBVIOUS
    <2>1. \A i \in DOMAIN log : log[i] \in Events /\ log[i].seq = i
      BY DEF BusInv, LogInv
    <2>2. \A i \in DOMAIN log : /\ log[i].type \in {"start", "chunk", "aggregate", "end", "terminal"}
                              /\ log[i].seg \in Segments \cup {"round"} /\ log[i].part \in 0 .. MaxChunks
      BY <2>1 DEF Events
    <2> QED  BY <2>1, <2>2 DEF BusTypeOK, BusInv, ProducerInv, LinkInv, SubscriptionInv, ViewInv
  <1> QED  BY <1>1, BusInvariance, PTL

-----------------------------------------------------------------------------
(* Whoever publishes looks at the Round first, and of what one commit      *)
(* writes only the last row may be the terminal.                           *)

LEMMA LastIsLast ==
    ASSUME BusInv, ~Over, NEW rows \in Seq(Events), rows # <<>>,
           \A i \in DOMAIN rows : WellFormed(rows[i]),
           \A i \in DOMAIN rows : rows[i].type = "terminal" => i = Len(rows),
           NEW D, PublishRows(rows, D)
    PROVE  TerminalIsLast'
  <1>1. /\ Len(log) \in Nat /\ Len(rows) \in Nat /\ Len(log') = Len(log) + Len(rows)
        /\ DOMAIN log = 1 .. Len(log) /\ DOMAIN rows = 1 .. Len(rows) /\ DOMAIN log' = 1 .. Len(log')
        /\ \A i \in 1 .. Len(log') :
              log'[i].type = IF i <= Len(log) THEN log[i].type ELSE rows[i - Len(log)].type
    BY Published DEF BusInv, LogInv
  <1>2. ASSUME NEW i \in 1 .. Len(log'), log'[i].type = "terminal" PROVE i = Len(log')
    <2>1. i > Len(log)
      BY <1>1, <1>2 DEF Over
    <2>2. i - Len(log) \in DOMAIN rows /\ rows[i - Len(log)].type = "terminal"
      BY <1>1, <1>2, <2>1
    <2>3. i - Len(log) = Len(rows)
      BY <2>2
    <2> QED  BY <1>1, <2>3
  <1> QED  BY <1>1, <1>2 DEF TerminalIsLast

LEMMA LastTerminal ==
    ASSUME BusInv, ~Over, NEW D, PublishRows(<<TerminalEvent>>, D) PROVE TerminalIsLast'
  <1>1. \A i \in DOMAIN <<TerminalEvent>> : i = Len(<<TerminalEvent>>)
    OBVIOUS
  <1> QED  BY <1>1, TerminalRow, OneRow, LastIsLast

\* Nothing is written behind the terminal event (RoundTerminalWriteSuppressed).
THEOREM TerminalIsLastHolds == BusSpec => []TerminalIsLast
  <1>1. BusInit => TerminalIsLast
    BY DEF BusInit, TerminalIsLast
  <1>2. BusInv /\ TerminalIsLast /\ [BusNext]_busVars => TerminalIsLast'
    <2> SUFFICES ASSUME BusInv, TerminalIsLast, [BusNext]_busVars PROVE TerminalIsLast'
      OBVIOUS
    <2>1. CASE UNCHANGED log
      BY <2>1 DEF TerminalIsLast
    <2>2. ASSUME NEW s \in Segments, StartSegment(s) \/ Chunk(s), log' # log PROVE TerminalIsLast'
      <3>0. PICK e : /\ e = Event("start", s, 0) \/ (Chunk(s) /\ e = Event("chunk", s, sent[s] + 1))
                     /\ PublishRows(<<e>>, Direct)
        <4>1. CASE StartSegment(s)
          BY <4>1 DEF StartSegment
        <4>2. CASE Chunk(s)
          BY <2>2, <4>2 DEF Chunk
        <4> QED  BY <2>2, <4>1, <4>2
      <3>1. e.type # "terminal" /\ ~Over
        BY <2>2, <3>0 DEF Event, StartSegment, Chunk
      <3>2. e \in Events /\ WellFormed(e)
        BY <3>0, EventBusAssumption DEF Event, Events, WellFormed, Chunk, BusInv, ProducerInv
      <3>3. \A i \in DOMAIN <<e>> : i = Len(<<e>>)
        OBVIOUS
      <3> QED  BY <3>0, <3>1, <3>2, <3>3, OneRow, LastIsLast
    <2>3. ASSUME NEW s \in Segments, EndSegment(s) PROVE TerminalIsLast'
      <3> DEFINE agg == Event("aggregate", s, buffer[s])
                 end == Event("end", s, 0)
                 rows == IF buffer[s] = 0 THEN <<end>> ELSE <<agg, end>>
      <3>1. agg \in Events /\ end \in Events /\ WellFormed(agg) /\ WellFormed(end)
            /\ agg.type # "terminal" /\ end.type # "terminal"
        BY EventBusAssumption DEF Event, BusInv, ProducerInv, Events, WellFormed
      <3>2. rows \in Seq(Events) /\ rows # <<>>
            /\ \A i \in DOMAIN rows : WellFormed(rows[i]) /\ rows[i].type # "terminal"
        BY <3>1
      <3>3. PublishRows(rows, Direct) /\ ~Over
        BY <2>3 DEF EndSegment
      <3> HIDE DEF rows
      <3> QED  BY <3>2, <3>3, LastIsLast
    <2>4. ASSUME FinishStream \/ Fail \/ AbortRound, log' # log PROVE TerminalIsLast'
      BY <2>4, LastTerminal DEF FinishStream, Fail, AbortRound
    <2>5. ASSUME NEW elsewhere \in BOOLEAN, RecoverRound(elsewhere) PROVE TerminalIsLast'
      <3>1. CASE ~elsewhere
        BY <2>5, <3>1, LastTerminal DEF RecoverRound
      <3>2. CASE elsewhere
        <4>1. ~Over /\ \E e : log' = Append(log, e)
          BY <2>5, <3>2 DEF RecoverRound
        <4>2. log \in Seq(Events) /\ Len(log) \in Nat
          BY DEF BusInv, LogInv
        <4>3. /\ Len(log') = Len(log) + 1 /\ DOMAIN log' = 1 .. Len(log')
              /\ \A i \in 1 .. Len(log) : log'[i] = log[i]
          <5> PICK e : log' = Append(log, e)
            BY <4>1
          <5>1. log \in Seq(Events \cup {e})
            BY <4>2, SeqDef
          <5> QED  BY <5>1, <4>2, AppendProperties
        <4> QED  BY <4>1, <4>2, <4>3 DEF Over, TerminalIsLast
      <3> QED  BY <3>1, <3>2
    <2>6. \A elsewhere \in {FALSE, RollingStart} : elsewhere \in BOOLEAN
      BY EventBusAssumption
    <2>7. ASSUME NEW c \in Clients, Subscribe(c) \/ Disconnect(c) \/ Stream(c) \/ Resume(c)
          PROVE  UNCHANGED log
      BY <2>7 DEF Subscribe, Disconnect, Stream, Resume, ReadDirect, DirectEnds, Replay,
                  EnsureTerminal, LastReplayEnds, Register, CatchUp, Receive
    <2>8. ASSUME StopDriver \/ Suspend \/ LoseLiveness \/ CrashProcess PROVE UNCHANGED log
      BY <2>8 DEF StopDriver, Suspend, LoseLiveness, CrashProcess
    <2> QED  BY <2>1, <2>2, <2>3, <2>4, <2>5, <2>6, <2>7, <2>8 DEF BusNext, Produce, Converge, busVars
  <1> QED  BY <1>1, <1>2, BusInvariance, PTL DEF BusSpec

-----------------------------------------------------------------------------
(* The order of rows.                                                      *)

\* A replay has the rows behind latest, one after the other.
ReplaysOn(c) == \A i \in DOMAIN todo[c] : latest[c] + i \in DOMAIN log /\ todo[c][i] = log[latest[c] + i]

InOrder(q) == \A i, j \in DOMAIN q : i < j /\ q[i].seq # 0 /\ q[j].seq # 0 => q[i].seq < q[j].seq

\* A queue has rows of the log as they are, in their order.
QueuesRows(c) ==
    /\ \A i \in DOMAIN queue[c] : queue[c][i].seq # 0 => queue[c][i] = log[queue[c][i].seq]
    /\ InOrder(queue[c])
    /\ link[c] \in {"off", "replay", "last", "ensured"} => queue[c] = <<>>
    /\ link[c] = "direct" => \A i \in DOMAIN queue[c] : queue[c][i].type # "terminal"
    /\ link[c] \in {"direct", "draining"} =>
          \A i \in DOMAIN queue[c] : queue[c][i].seq # 0 => queue[c][i].seq > cursor[c]

\* What a queue has of the rows up to latest was delivered by the catch-up.
SeesAll(c) ==
    /\ seen[c] \subseteq 1 .. latest[c]
    /\ link[c] \in {"registered", "live"} =>
          \A i \in DOMAIN queue[c] : queue[c][i].seq \in 1 .. latest[c] => queue[c][i].seq \in seen[c]

Rises(c) ==
    /\ \A i, j \in DOMAIN yielded[c] : i < j => yielded[c][i] < yielded[c][j]
    /\ \A i \in DOMAIN yielded[c] : yielded[c][i] <= latest[c]

\* Who has got past the terminal has shown it, and a last replay goes up to it.
Ends(c) ==
    /\ c \in Subscribed /\ Over /\ latest[c] = Len(log) => cursor[c] = Len(log)
    /\ link[c] = "last" => Over /\ latest[c] + Len(todo[c]) = Len(log)
    /\ link[c] = "direct" /\ Over => cursor[c] < Len(log)

Ordered(c) == ReplaysOn(c) /\ QueuesRows(c) /\ SeesAll(c) /\ Rises(c) /\ Ends(c)
OrderInv == yielded \in [Clients -> Seq(Nat)] /\ \A c \in Clients : Ordered(c)

\* In this step c is handed the last k rows of the log.
Handed(c, k) ==
    /\ k \in Nat /\ Len(queue'[c]) = Len(queue[c]) + k /\ DOMAIN queue'[c] = 1 .. Len(queue'[c])
    /\ \A i \in 1 .. Len(queue[c]) : queue'[c][i] = queue[c][i]
    /\ \A i \in 1 .. k : queue'[c][Len(queue[c]) + i] = log'[Len(log') - k + i]

\* Every registered client is handed all that is published, those of D the last
\* row of it, the others nothing.
LEMMA Spread ==
    ASSUME BusInv, NEW rows \in Seq(Events), rows # <<>>, NEW D, PublishRows(rows, D)
    PROVE  /\ Len(log) \in Nat /\ Len(rows) \in Nat \ {0} /\ Len(log') = Len(log) + Len(rows)
           /\ log' \in Seq(Events)
           /\ \A i \in 1 .. Len(log) : log'[i] = log[i]
           /\ \A i \in 1 .. Len(rows) : log'[Len(log) + i] = [rows[i] EXCEPT !.seq = Len(log) + i]
           /\ \A c \in Clients : Handed(c, IF c \in registered THEN Len(rows) ELSE IF c \in D THEN 1 ELSE 0)
  <1> DEFINE stored == [i \in DOMAIN rows |-> [rows[i] EXCEPT !.seq = Len(log) + i]]
  <1>0. log' = log \o stored /\ Fanout(stored, D)
    BY DEF PublishRows
  <1>1. Len(log) \in Nat /\ Len(rows) \in Nat \ {0} /\ log \in Seq(Events) /\ DOMAIN rows = 1 .. Len(rows)
    BY EmptySeq DEF BusInv, LogInv
  <1>2. \A i \in 1 .. Len(rows) : stored[i] = [rows[i] EXCEPT !.seq = Len(log) + i] /\ stored[i] \in Events
    <2> TAKE i \in 1 .. Len(rows)
    <2>1. rows[i] \in Events /\ Len(log) + i \in Nat
      BY <1>1
    <2>2. stored[i] = [rows[i] EXCEPT !.seq = Len(log) + i]
      BY <1>1
    <2> HIDE DEF stored
    <2> QED  BY <2>1, <2>2 DEF Events
  <1>3. stored \in Seq(Events) /\ Len(stored) = Len(rows) /\ stored # <<>>
    <2>1. stored \in [1 .. Len(rows) -> Events]
      BY <1>1, <1>2
    <2>2. DOMAIN stored = 1 .. Len(rows)
      BY <1>1
    <2> HIDE DEF stored
    <2>3. stored \in Seq(Events) /\ Len(stored) = Len(rows)
      BY <2>1, <2>2, <1>1, SeqDef, LenProperties
    <2> QED  BY <2>3, <1>1
  <1> HIDE DEF stored
  <1>4. /\ log' \in Seq(Events) /\ Len(log') = Len(log) + Len(rows)
        /\ \A i \in 1 .. Len(log) : log'[i] = log[i]
        /\ \A i \in 1 .. Len(rows) : log'[Len(log) + i] = stored[i]
    <2>1. /\ log \o stored \in Seq(Events) /\ Len(log \o stored) = Len(log) + Len(stored)
          /\ \A i \in 1 .. Len(log) + Len(stored) :
                (log \o stored)[i] = IF i <= Len(log) THEN log[i] ELSE stored[i - Len(log)]
      BY <1>1, <1>3, ConcatProperties
    <2> QED  BY <1>0, <1>1, <1>3, <2>1
  <1>5. ASSUME NEW c \in Clients
        PROVE  Handed(c, IF c \in registered THEN Len(rows) ELSE IF c \in D THEN 1 ELSE 0)
    <2>0. queue[c] \in Seq(Events) /\ Len(queue[c]) \in Nat
      BY DEF BusInv, WayInv, OnTheWay
    <2>1. CASE c \in registered
      <3>1. queue'[c] = queue[c] \o stored
        BY <1>0, <2>1 DEF Fanout
      <3>2. /\ queue'[c] \in Seq(Events) /\ Len(queue'[c]) = Len(queue[c]) + Len(rows)
            /\ \A i \in 1 .. Len(queue[c]) + Len(rows) :
                  queue'[c][i] = IF i <= Len(queue[c]) THEN queue[c][i] ELSE stored[i - Len(queue[c])]
        <4>1. /\ queue[c] \o stored \in Seq(Events)
              /\ Len(queue[c] \o stored) = Len(queue[c]) + Len(stored)
              /\ \A i \in 1 .. Len(queue[c]) + Len(stored) :
                    (queue[c] \o stored)[i] = IF i <= Len(queue[c]) THEN queue[c][i]
                                              ELSE stored[i - Len(queue[c])]
          BY <2>0, <1>3, ConcatProperties
        <4> QED  BY <4>1, <3>1, <1>3
      <3>3. \A i \in 1 .. Len(rows) : queue'[c][Len(queue[c]) + i] = stored[i]
        <4> TAKE i \in 1 .. Len(rows)
        <4>1. Len(queue[c]) + i \in 1 .. Len(queue[c]) + Len(rows) /\ ~(Len(queue[c]) + i <= Len(queue[c]))
              /\ (Len(queue[c]) + i) - Len(queue[c]) = i
          BY <2>0, <1>1
        <4> QED  BY <3>2, <4>1
      <3>4. \A i \in 1 .. Len(queue[c]) : queue'[c][i] = queue[c][i]
        BY <2>0, <1>1, <3>2
      <3>5. Len(log') - Len(rows) = Len(log)
        BY <1>1, <1>4
      <3>6. Handed(c, Len(rows))
        BY <1>1, <1>4, <3>2, <3>3, <3>4, <3>5 DEF Handed
      <3> QED  BY <2>1, <3>6
    <2>2. CASE c \notin registered /\ c \in D
      <3>1. queue'[c] = Append(queue[c], Last(stored))
        BY <1>0, <2>2 DEF Fanout
      <3>2. Last(stored) = stored[Len(rows)] /\ Len(rows) \in 1 .. Len(rows)
        BY <1>1, <1>3 DEF Last
      <3>3. Last(stored) = log'[Len(log')] /\ Last(stored) \in Events
        BY <1>2, <1>4, <3>2
      <3>4. /\ Len(queue'[c]) = Len(queue[c]) + 1 /\ queue'[c] \in Seq(Events)
            /\ \A i \in 1 .. Len(queue[c]) : queue'[c][i] = queue[c][i]
            /\ queue'[c][Len(queue[c]) + 1] = log'[Len(log')]
        BY <2>0, <3>1, <3>3, AppendProperties
      <3>5. Len(log') - 1 + 1 = Len(log')
        BY <1>1, <1>4
      <3>6. Handed(c, 1)
        <4>1. \A i \in 1 .. 1 : i = 1
          OBVIOUS
        <4> QED  BY <3>4, <3>5, <4>1 DEF Handed
      <3> QED  BY <2>2, <3>6
    <2>3. CASE c \notin registered /\ c \notin D
      <3>1. queue'[c] = queue[c]
        BY <1>0, <2>3 DEF Fanout
      <3>2. Handed(c, 0)
        BY <2>0, <3>1 DEF Handed
      <3> QED  BY <2>3, <3>2
    <2> QED  BY <2>1, <2>2, <2>3
  <1> QED  BY <1>1, <1>2, <1>4, <1>5

\* What a step leaves alone of a client.
Still(c) ==
    /\ log' = log /\ link'[c] = link[c] /\ todo'[c] = todo[c] /\ queue'[c] = queue[c]
    /\ latest'[c] = latest[c] /\ seen'[c] = seen[c] /\ yielded'[c] = yielded[c] /\ cursor'[c] = cursor[c]

LEMMA StaysOrdered == ASSUME NEW c \in Clients, Ordered(c), Still(c) PROVE Ordered(c)'
  <1>1. Over' = Over /\ (c \in Subscribed)' = (c \in Subscribed)
    BY DEF Still, Over, Subscribed
  <1>2. ReplaysOn(c)' /\ QueuesRows(c)' /\ SeesAll(c)' /\ Rises(c)'
    BY DEF Ordered, Still, ReplaysOn, QueuesRows, InOrder, SeesAll, Rises
  <1>3. Ends(c)'
    BY <1>1 DEF Ordered, Still, Ends
  <1> QED  BY <1>2, <1>3 DEF Ordered

\* The queue of c gets longer, by live events and by rows above all it has.
LEMMA QueueGrows ==
    ASSUME BusInv, BusInv', NEW c \in Clients, QueuesRows(c), SeesAll(c), NEW n \in Nat,
           \A i \in 1 .. Len(log) : log'[i] = log[i],
           Len(queue'[c]) >= Len(queue[c]),
           \A i \in 1 .. Len(queue[c]) : queue'[c][i] = queue[c][i] /\ queue[c][i].seq <= n,
           \A i \in Len(queue[c]) + 1 .. Len(queue'[c]) :
              queue'[c][i].seq # 0 => queue'[c][i].seq > n /\ queue'[c][i] = log'[queue'[c][i].seq],
           \A i, j \in Len(queue[c]) + 1 .. Len(queue'[c]) :
              i < j /\ queue'[c][i].seq # 0 /\ queue'[c][j].seq # 0 => queue'[c][i].seq < queue'[c][j].seq,
           link'[c] = link[c] \/ (link[c] = "direct" /\ link'[c] = "draining"),
           link[c] \in {"off", "replay", "last", "ensured"} => queue'[c] = queue[c],
           link'[c] = "direct" => \A i \in Len(queue[c]) + 1 .. Len(queue'[c]) : queue'[c][i].type # "terminal",
           link[c] \in {"direct", "draining"} => cursor[c] <= n,
           link[c] \in {"registered", "live"} => latest[c] <= n,
           cursor'[c] = cursor[c], latest'[c] = latest[c], seen'[c] = seen[c]
    PROVE  QueuesRows(c)' /\ SeesAll(c)'
  <1>0. /\ Len(log) \in Nat /\ Len(queue[c]) \in Nat /\ Len(queue'[c]) \in Nat
        /\ DOMAIN log = 1 .. Len(log)
        /\ DOMAIN queue[c] = 1 .. Len(queue[c]) /\ DOMAIN queue'[c] = 1 .. Len(queue'[c])
        /\ cursor[c] \in Nat /\ latest[c] \in Nat
    <2>1. queue[c] \in Seq(Events) /\ queue'[c] \in Seq(Events) /\ log \in Seq(Events)
      BY DEF BusInv, WayInv, OnTheWay, LogInv
    <2> QED  BY <2>1 DEF BusInv, SubscriptionInv, ViewInv
  <1>1. /\ \A i \in 1 .. Len(queue[c]) : queue[c][i].seq \in 0 .. Len(log) /\ queue[c][i].seq <= n
        /\ \A i \in 1 .. Len(queue'[c]) : queue'[c][i].seq \in Nat
    <2>1. \A i \in 1 .. Len(queue[c]) : queue[c][i] \in Events /\ Known(queue[c][i], Len(log))
      BY <1>0 DEF BusInv, WayInv, OnTheWay
    <2>2. \A i \in 1 .. Len(queue'[c]) : queue'[c][i] \in Events
      BY <1>0 DEF BusInv, WayInv, OnTheWay
    <2> QED  BY <2>1, <2>2, <1>0 DEF Known, Events
  <1>2. \A i \in 1 .. Len(queue'[c]) : i \in 1 .. Len(queue[c]) \/ i \in Len(queue[c]) + 1 .. Len(queue'[c])
    BY <1>0
  <1>3. ASSUME NEW i \in DOMAIN queue'[c], queue'[c][i].seq # 0
        PROVE  queue'[c][i] = log'[queue'[c][i].seq]
    <2>1. CASE i \in 1 .. Len(queue[c])
      <3>1. queue'[c][i] = queue[c][i] /\ queue[c][i].seq \in 1 .. Len(log)
        BY <2>1, <1>1, <1>3
      <3>2. queue[c][i] = log[queue[c][i].seq]
        BY <2>1, <3>1, <1>0, <1>3 DEF QueuesRows
      <3> QED  BY <3>1, <3>2
    <2>2. CASE i \in Len(queue[c]) + 1 .. Len(queue'[c])
      BY <2>2, <1>3
    <2> QED  BY <2>1, <2>2, <1>0, <1>2, <1>3
  <1>4. ASSUME NEW i \in DOMAIN queue'[c], NEW j \in DOMAIN queue'[c], i < j,
               queue'[c][i].seq # 0, queue'[c][j].seq # 0
        PROVE  queue'[c][i].seq < queue'[c][j].seq
    <2>1. CASE j \in 1 .. Len(queue[c])
      <3>1. i \in 1 .. Len(queue[c])
        BY <2>1, <1>0, <1>4
      <3> QED  BY <2>1, <3>1, <1>0, <1>4 DEF QueuesRows, InOrder
    <2>2. CASE i \in 1 .. Len(queue[c]) /\ j \in Len(queue[c]) + 1 .. Len(queue'[c])
      <3>1. queue'[c][i].seq <= n /\ queue'[c][i].seq \in Nat
        BY <2>2, <1>1
      <3>2. queue'[c][j].seq > n /\ queue'[c][j].seq \in Nat
        BY <2>2, <1>0, <1>1, <1>4
      <3> QED  BY <3>1, <3>2
    <2>3. CASE i \in Len(queue[c]) + 1 .. Len(queue'[c]) /\ j \in Len(queue[c]) + 1 .. Len(queue'[c])
      BY <2>3, <1>4
    <2> QED  BY <2>1, <2>2, <2>3, <1>0, <1>2, <1>4
  <1>5. InOrder(queue'[c])
    BY <1>4 DEF InOrder
  <1>6. ASSUME link'[c] = "direct", NEW i \in DOMAIN queue'[c] PROVE queue'[c][i].type # "terminal"
    <2>1. link[c] = "direct"
      BY <1>6
    <2> QED  BY <2>1, <1>0, <1>2, <1>6 DEF QueuesRows
  <1>7. ASSUME link'[c] \in {"direct", "draining"}, NEW i \in DOMAIN queue'[c], queue'[c][i].seq # 0
        PROVE  queue'[c][i].seq > cursor[c]
    <2>1. link[c] \in {"direct", "draining"}
      BY <1>7
    <2>2. CASE i \in 1 .. Len(queue[c])
      BY <2>1, <2>2, <1>0, <1>7 DEF QueuesRows
    <2>3. CASE i \in Len(queue[c]) + 1 .. Len(queue'[c])
      <3>1. queue'[c][i].seq > n /\ cursor[c] <= n /\ queue'[c][i].seq \in Nat
        BY <2>1, <2>3, <1>0, <1>1, <1>7
      <3> QED  BY <3>1, <1>0
    <2> QED  BY <2>2, <2>3, <1>0, <1>2, <1>7
  <1>8. ASSUME link'[c] \in {"registered", "live"}, NEW i \in DOMAIN queue'[c],
               queue'[c][i].seq \in 1 .. latest[c]
        PROVE  queue'[c][i].seq \in seen[c]
    <2>1. link[c] \in {"registered", "live"}
      BY <1>8
    <2>2. CASE i \in 1 .. Len(queue[c])
      BY <2>1, <2>2, <1>0, <1>8 DEF SeesAll
    <2>3. CASE i \in Len(queue[c]) + 1 .. Len(queue'[c])
      <3>1. queue'[c][i].seq > n /\ latest[c] <= n /\ queue'[c][i].seq # 0
        BY <2>1, <2>3, <1>0, <1>1, <1>8
      <3> QED  BY <3>1, <1>0, <1>8
    <2> QED  BY <2>2, <2>3, <1>0, <1>2, <1>8
  <1>9. link'[c] \in {"off", "replay", "last", "ensured"} => queue'[c] = <<>>
    BY DEF QueuesRows
  <1> QED  BY <1>3, <1>5, <1>6, <1>7, <1>8, <1>9 DEF QueuesRows, SeesAll

LEMMA LastRows ==
    ASSUME NEW a \in Nat, NEW b \in Nat, NEW k \in Nat, k <= b - a, NEW j \in 1 .. k
    PROVE  b - k + j \in a + 1 .. b /\ b - k + j \in 1 .. b
  OBVIOUS

LEMMA Shifted ==
    ASSUME NEW a \in Int, NEW d \in Int, NEW i \in Int, NEW j \in Int, i < j
    PROVE  a + (i - d) < a + (j - d)
  OBVIOUS

\* Rows are committed and handed to c, or not.
LEMMA CommitKeepsOrder ==
    ASSUME BusInv, BusInv', ~Over, Len(log') > Len(log),
           \A i \in 1 .. Len(log) : log'[i] = log[i],
           NEW c \in Clients, Ordered(c), NEW k \in Nat, Handed(c, k), k <= Len(log') - Len(log),
           link'[c] = link[c] \/ (link[c] = "direct" /\ link'[c] = "draining"),
           link[c] \in {"off", "replay", "last", "ensured"} => k = 0,
           link'[c] = "direct" /\ k # 0 => \A i \in Len(log) + 1 .. Len(log') : log'[i].type # "terminal",
           UNCHANGED <<todo, latest, seen, yielded, cursor>>
    PROVE  Ordered(c)'
  <1>0. /\ Len(log) \in Nat /\ Len(log') \in Nat /\ Len(queue[c]) \in Nat /\ Len(queue'[c]) \in Nat
        /\ DOMAIN log = 1 .. Len(log) /\ DOMAIN log' = 1 .. Len(log')
        /\ queue[c] \in Seq(Events) /\ queue'[c] \in Seq(Events)
        /\ cursor[c] \in 0 .. Len(log) /\ latest[c] \in 0 .. Len(log) /\ k \in Nat
        /\ \A i \in 1 .. Len(log') : log'[i].seq = i
    <2>1. queue[c] \in Seq(Events) /\ queue'[c] \in Seq(Events) /\ log \in Seq(Events) /\ log' \in Seq(Events)
      BY DEF BusInv, WayInv, OnTheWay, LogInv
    <2>2. \A i \in DOMAIN log' : log'[i].seq = i
      BY DEF BusInv, LogInv
    <2> QED  BY <2>1, <2>2 DEF BusInv, SubscriptionInv, ViewInv, Handed
  <1>1. \A i \in 1 .. Len(queue[c]) : queue[c][i].seq <= Len(log)
    <2>1. \A i \in 1 .. Len(queue[c]) : Known(queue[c][i], Len(log))
      BY <1>0 DEF BusInv, WayInv, OnTheWay
    <2> QED  BY <2>1 DEF Known
  <1>2. ASSUME NEW i \in Len(queue[c]) + 1 .. Len(queue'[c])
        PROVE  /\ queue'[c][i].seq = Len(log') - k + (i - Len(queue[c])) /\ queue'[c][i].seq > Len(log)
               /\ queue'[c][i].seq \in Len(log) + 1 .. Len(log')
               /\ queue'[c][i] = log'[queue'[c][i].seq]
    <2>0. PICK j \in 1 .. k : j = i - Len(queue[c]) /\ i = Len(queue[c]) + j
      <3>1. i - Len(queue[c]) \in 1 .. k /\ i = Len(queue[c]) + (i - Len(queue[c]))
        BY <1>0 DEF Handed
      <3> QED  BY <3>1
    <2>2. queue'[c][i] = log'[Len(log') - k + j]
      BY <2>0 DEF Handed
    <2>3. PICK n \in 1 .. Len(log') : n = Len(log') - k + j /\ n \in Len(log) + 1 .. Len(log')
      BY <1>0, LastRows
    <2>4. queue'[c][i] = log'[n] /\ log'[n].seq = n
      BY <1>0, <2>2, <2>3
    <2>5. n > Len(log)
      BY <1>0, <2>3
    <2>6. n = Len(log') - k + (i - Len(queue[c]))
      BY <2>0, <2>3
    <2> QED  BY <2>3, <2>4, <2>5, <2>6
  <1>3. QueuesRows(c)' /\ SeesAll(c)'
    <2>1. \A i \in Len(queue[c]) + 1 .. Len(queue'[c]) :
             queue'[c][i].seq # 0 => queue'[c][i].seq > Len(log) /\ queue'[c][i] = log'[queue'[c][i].seq]
      BY <1>2
    <2>2. ASSUME NEW i \in Len(queue[c]) + 1 .. Len(queue'[c]), NEW j \in Len(queue[c]) + 1 .. Len(queue'[c]), i < j
          PROVE  queue'[c][i].seq < queue'[c][j].seq
      <3>1. queue'[c][i].seq = Len(log') - k + (i - Len(queue[c]))
        BY <1>2
      <3>2. queue'[c][j].seq = Len(log') - k + (j - Len(queue[c]))
        BY <1>2
      <3>3. i \in Int /\ j \in Int /\ Len(log') - k \in Int /\ Len(queue[c]) \in Int
        BY <1>0
      <3>4. Len(log') - k + (i - Len(queue[c])) < Len(log') - k + (j - Len(queue[c]))
        BY <2>2, <3>3, Shifted
      <3> QED  BY <3>1, <3>2, <3>4
    <2>3. k = 0 => queue'[c] = queue[c]
      <3>1. k = 0 => Len(queue'[c]) = Len(queue[c]) /\ \A i \in 1 .. Len(queue[c]) : queue'[c][i] = queue[c][i]
        BY <1>0 DEF Handed
      <3> QED  BY <3>1, <1>0, SeqEqual
    <2>4. link'[c] = "direct" => \A i \in Len(queue[c]) + 1 .. Len(queue'[c]) : queue'[c][i].type # "terminal"
      <3> SUFFICES ASSUME link'[c] = "direct", NEW i \in Len(queue[c]) + 1 .. Len(queue'[c])
                   PROVE  queue'[c][i].type # "terminal"
        OBVIOUS
      <3>1. k # 0
        BY <1>0 DEF Handed
      <3> QED  BY <1>2, <3>1
    <2>5. \A i \in 1 .. Len(queue[c]) : queue'[c][i] = queue[c][i] /\ queue[c][i].seq <= Len(log)
      BY <1>1 DEF Handed
    <2>6. Len(queue'[c]) >= Len(queue[c])
      BY <1>0 DEF Handed
    <2>7. cursor[c] <= Len(log) /\ latest[c] <= Len(log)
      BY <1>0
    <2> QED  BY <1>0, <2>1, <2>2, <2>3, <2>4, <2>5, <2>6, <2>7, QueueGrows DEF Ordered
  <1>4. ReplaysOn(c)'
    BY <1>0 DEF Ordered, ReplaysOn
  <1>5. Rises(c)'
    BY DEF Ordered, Rises
  <1>6. Ends(c)'
    <2>1. link[c] # "last"
      BY DEF Ordered, Ends
    <2>2. latest'[c] # Len(log') /\ cursor'[c] < Len(log')
      BY <1>0
    <2> QED  BY <2>1, <2>2 DEF Ends
  <1> QED  BY <1>3, <1>4, <1>5, <1>6 DEF Ordered

\* One event is put into the queue of c, a live one or a row above all it has.
LEMMA OneMore ==
    ASSUME BusInv, BusInv', UNCHANGED log, NEW c \in Clients, QueuesRows(c), SeesAll(c), NEW n \in Nat,
           NEW e \in Events, queue'[c] = Append(queue[c], e),
           e.seq # 0 => e.seq > n /\ e = log[e.seq],
           \A i \in 1 .. Len(queue[c]) : queue[c][i].seq <= n,
           link'[c] = link[c] \/ (link[c] = "direct" /\ link'[c] = "draining"),
           link[c] \in {"direct", "draining", "registered", "live"},
           link'[c] = "direct" => e.type # "terminal",
           link[c] \in {"direct", "draining"} => cursor[c] <= n,
           link[c] \in {"registered", "live"} => latest[c] <= n,
           cursor'[c] = cursor[c], latest'[c] = latest[c], seen'[c] = seen[c]
    PROVE  QueuesRows(c)' /\ SeesAll(c)'
  <1>0. queue[c] \in Seq(Events) /\ Len(queue[c]) \in Nat
    BY DEF BusInv, WayInv, OnTheWay
  <1>1. /\ Len(queue'[c]) = Len(queue[c]) + 1
        /\ \A i \in 1 .. Len(queue[c]) : queue'[c][i] = queue[c][i]
        /\ queue'[c][Len(queue[c]) + 1] = e
    BY <1>0, AppendProperties
  <1>2. \A i \in Len(queue[c]) + 1 .. Len(queue'[c]) : i = Len(queue[c]) + 1 /\ queue'[c][i] = e
    BY <1>0, <1>1
  <1>3. Len(queue'[c]) >= Len(queue[c])
    BY <1>0, <1>1
  <1>4. \A i, j \in Len(queue[c]) + 1 .. Len(queue'[c]) : ~(i < j)
    BY <1>0, <1>1
  <1> HIDE <1>0
  <1> QED  BY <1>1, <1>2, <1>3, <1>4, QueueGrows

LEMMA SeqsInLog ==
    ASSUME BusInv, NEW c \in Clients
    PROVE  /\ Len(log) \in Nat /\ DOMAIN log = 1 .. Len(log) /\ queue[c] \in Seq(Events)
           /\ Len(queue[c]) \in Nat /\ DOMAIN queue[c] = 1 .. Len(queue[c])
           /\ cursor[c] \in 0 .. Len(log) /\ latest[c] \in 0 .. Len(log)
           /\ \A i \in 1 .. Len(queue[c]) : queue[c][i] \in Events /\ queue[c][i].seq \in 0 .. Len(log)
           /\ \A i \in 1 .. Len(log) : log[i] \in Events /\ log[i].seq = i
  <1>1. queue[c] \in Seq(Events) /\ log \in Seq(Events)
    BY DEF BusInv, WayInv, OnTheWay, LogInv
  <1>2. \A i \in 1 .. Len(queue[c]) : queue[c][i] \in Events /\ queue[c][i].seq <= Len(log)
    BY <1>1 DEF BusInv, WayInv, OnTheWay, Known
  <1>3. \A i \in 1 .. Len(queue[c]) : queue[c][i].seq \in 0 .. Len(log)
    BY <1>1, <1>2 DEF Events
  <1> QED  BY <1>1, <1>2, <1>3 DEF BusInv, LogInv, SubscriptionInv, ViewInv

\* A chunk is handed to the registered queues and the direct stream, live.
LEMMA LiveChunkKeepsOrder ==
    ASSUME BusInv, BusInv', OrderInv, NEW e \in Events, e.seq = 0, e.type # "terminal",
           Fanout(<<e>>, Direct), UNCHANGED <<log, link, todo, subscription, view>>
    PROVE  OrderInv'
  <1> SUFFICES ASSUME NEW c \in Clients PROVE Ordered(c)'
    BY DEF OrderInv, subscription
  <1>0. Ordered(c) /\ UNCHANGED <<latest, seen, yielded, cursor>>
    BY DEF OrderInv, subscription, view
  <1>1. CASE c \in registered \/ c \in Direct
    <2>1. queue'[c] = Append(queue[c], e)
      <3>1. Last(<<e>>) = e
        BY DEF Last
      <3>2. queue[c] \in Seq(Events) /\ queue[c] \o <<e>> = Append(queue[c], e)
        BY SeqsInLog, AppendIsConcat
      <3> QED  BY <1>1, <3>1, <3>2 DEF Fanout
    <2>2. link[c] \in {"direct", "draining", "registered", "live"}
      BY <1>1 DEF BusInv, LinkInv, Direct
    <2>3. /\ Len(log) \in Nat /\ cursor[c] <= Len(log) /\ latest[c] <= Len(log)
          /\ \A i \in 1 .. Len(queue[c]) : queue[c][i].seq <= Len(log)
      BY SeqsInLog
    <2>4. QueuesRows(c)' /\ SeesAll(c)'
      BY <1>0, <2>1, <2>2, <2>3, OneMore DEF Ordered
    <2>5. Over' = Over /\ (c \in Subscribed)' = (c \in Subscribed)
      BY DEF Over, Subscribed
    <2>6. ReplaysOn(c)' /\ Rises(c)' /\ Ends(c)'
      BY <1>0, <2>5 DEF Ordered, ReplaysOn, Rises, Ends
    <2> QED  BY <2>4, <2>6 DEF Ordered
  <1>2. CASE c \notin registered /\ c \notin Direct
    <2>1. Still(c)
      BY <1>0, <1>2 DEF Fanout, Still
    <2> QED  BY <1>0, <2>1, StaysOrdered
  <1> QED  BY <1>1, <1>2

\* The terminal is above all that a direct stream has been given.
LEMMA StopDriverKeepsOrder ==
    ASSUME BusInv, BusInv', OrderInv, TerminalIsLast, StopDriver PROVE OrderInv'
  <1> SUFFICES ASSUME NEW c \in Clients PROVE Ordered(c)'
    BY DEF OrderInv, StopDriver, subscription
  <1>0. Ordered(c) /\ UNCHANGED <<log, todo, latest, seen, yielded, cursor>>
    BY DEF OrderInv, StopDriver, subscription, view
  <1>1. CASE c \in Direct
    <2>1. queue'[c] = Append(queue[c], Last(log)) /\ link[c] = "direct" /\ link'[c] = "draining"
      BY <1>1 DEF StopDriver, CloseDirect, Direct
    <2>2. Len(log) \in Nat \ {0} /\ log[Len(log)].type = "terminal"
      BY SeqsInLog DEF StopDriver, Over, TerminalIsLast
    <2>3. Last(log) = log[Len(log)] /\ Last(log) \in Events /\ Last(log).seq = Len(log)
      BY <2>2, SeqsInLog DEF Last
    <2>4. \A i \in 1 .. Len(queue[c]) : queue[c][i].seq <= Len(log) - 1
      <3> TAKE i \in 1 .. Len(queue[c])
      <3>1. queue[c][i].type # "terminal"
        BY <1>0, <2>1, SeqsInLog DEF Ordered, QueuesRows
      <3>2. queue[c][i].seq # 0 => queue[c][i] = log[queue[c][i].seq]
        BY <1>0, SeqsInLog DEF Ordered, QueuesRows
      <3>3. queue[c][i].seq # Len(log)
        BY <2>2, <3>1, <3>2
      <3>4. queue[c][i].seq \in 0 .. Len(log)
        BY SeqsInLog
      <3> QED  BY <2>2, <3>3, <3>4
    <2>5. cursor[c] <= Len(log) - 1
      <3>1. cursor[c] < Len(log)
        BY <1>0, <2>1 DEF Ordered, Ends, StopDriver
      <3> QED  BY <3>1, <2>2, SeqsInLog
    <2>6. Len(log) - 1 \in Nat /\ Last(log).seq > Len(log) - 1
      BY <2>2, <2>3
    <2>7. QueuesRows(c)' /\ SeesAll(c)'
      BY <1>0, <2>1, <2>3, <2>4, <2>5, <2>6, OneMore DEF Ordered
    <2>8. ReplaysOn(c)' /\ Rises(c)'
      BY <1>0 DEF Ordered, ReplaysOn, Rises
    <2>9. Ends(c)'
      BY <2>1 DEF Ends, Subscribed
    <2> QED  BY <2>7, <2>8, <2>9 DEF Ordered
  <1>2. CASE c \notin Direct
    <2>1. Still(c)
      BY <1>0, <1>2 DEF StopDriver, CloseDirect, Still
    <2> QED  BY <1>0, <2>1, StaysOrdered
  <1> QED  BY <1>1, <1>2

\* The direct streams are closed, or one of them is opened.
LEMMA LinksKeepOrder ==
    ASSUME BusInv, OrderInv, UNCHANGED <<log, todo, queue, subscription, view>>, NEW c \in Clients,
           \/ link'[c] = link[c]
           \/ link[c] = "direct" /\ link'[c] = "draining"
           \/ link[c] = "off" /\ link'[c] = "direct" /\ ~Over
    PROVE  Ordered(c)'
  <1>0. Ordered(c) /\ UNCHANGED <<latest, seen, yielded, cursor>>
    BY DEF OrderInv, subscription, view
  <1>1. CASE link'[c] = link[c]
    <2>1. Still(c)
      BY <1>0, <1>1 DEF Still
    <2> QED  BY <1>0, <2>1, StaysOrdered
  <1>2. CASE link[c] = "direct" /\ link'[c] = "draining"
    BY <1>0, <1>2 DEF Ordered, ReplaysOn, QueuesRows, SeesAll, Rises, Ends, Subscribed
  <1>3. CASE link[c] = "off" /\ link'[c] = "direct" /\ ~Over
    <2>1. queue[c] = <<>> /\ DOMAIN queue[c] = {}
      BY <1>0, <1>3 DEF Ordered, QueuesRows
    <2>2. QueuesRows(c)' /\ SeesAll(c)'
      BY <1>0, <1>3, <2>1 DEF Ordered, QueuesRows, InOrder, SeesAll
    <2>3. ~Over'
      BY <1>3 DEF Over
    <2>4. ReplaysOn(c)' /\ Rises(c)' /\ Ends(c)'
      BY <1>0, <1>3, <2>3 DEF Ordered, ReplaysOn, Rises, Ends, Subscribed
    <2> QED  BY <2>2, <2>4 DEF Ordered
  <1> QED  BY <1>1, <1>2, <1>3

LEMMA PublishKeepsOrder ==
    ASSUME BusInv, BusInv', OrderInv, ~Over,
           NEW rows \in Seq(Events), rows # <<>>, \A i \in DOMAIN rows : WellFormed(rows[i]),
           NEW D \in SUBSET Direct, PublishRows(rows, D),
           UNCHANGED <<todo, subscription, view>>,
           \A c \in Clients : link'[c] = link[c] \/ (link[c] = "direct" /\ link'[c] = "draining"),
           \A c \in D : link'[c] = "direct" => \A i \in DOMAIN rows : rows[i].type # "terminal"
    PROVE  OrderInv'
  <1> SUFFICES ASSUME NEW c \in Clients PROVE Ordered(c)'
    BY DEF OrderInv, subscription
  <1>0. Ordered(c) /\ UNCHANGED <<todo, latest, seen, yielded, cursor>>
    BY DEF OrderInv, subscription, view
  <1>1. /\ Len(log) \in Nat /\ Len(rows) \in Nat \ {0} /\ Len(log') = Len(log) + Len(rows)
        /\ \A i \in 1 .. Len(log) : log'[i] = log[i]
        /\ Handed(c, IF c \in registered THEN Len(rows) ELSE IF c \in D THEN 1 ELSE 0)
    BY Spread
  <1>2. PICK k \in Nat : /\ Handed(c, k) /\ k <= Len(rows)
                         /\ k # 0 => c \in registered \/ c \in D
                         /\ k # 0 /\ link[c] = "direct" => c \in D
    <2>1. CASE c \in registered
      <3>1. link[c] # "direct"
        BY <2>1 DEF BusInv, LinkInv
      <3> QED  BY <2>1, <3>1, <1>1
    <2>2. CASE c \notin registered /\ c \in D
      <3>1. 1 \in Nat /\ 1 <= Len(rows)
        BY <1>1
      <3> QED  BY <2>2, <3>1, <1>1
    <2>3. CASE c \notin registered /\ c \notin D
      <3>1. 0 \in Nat /\ 0 <= Len(rows)
        BY <1>1
      <3> QED  BY <2>3, <3>1, <1>1
    <2> QED  BY <2>1, <2>2, <2>3
  <1>3. link[c] \in {"off", "replay", "last", "ensured"} => k = 0
    BY <1>2 DEF BusInv, LinkInv, Direct
  <1>4. ASSUME link'[c] = "direct", k # 0, NEW i \in Len(log) + 1 .. Len(log')
        PROVE  log'[i].type # "terminal"
    <2>1. link[c] = "direct" /\ c \in D
      BY <1>2, <1>4
    <2>2. i \in 1 .. Len(log') /\ ~(i <= Len(log)) /\ i - Len(log) \in 1 .. Len(rows)
      BY <1>1, <1>4
    <2>3. log'[i].type = rows[i - Len(log)].type
      BY <2>2, Published
    <2> QED  BY <1>4, <2>1, <2>2, <2>3
  <1>5. Len(log') > Len(log) /\ k <= Len(log') - Len(log)
    BY <1>1, <1>2
  <1> QED  BY <1>0, <1>1, <1>2, <1>3, <1>4, <1>5, CommitKeepsOrder

\* Someone else than the producer closes the Round.
LEMMA CloseKeepsOrder ==
    ASSUME BusInv, BusInv', OrderInv, ~Over, PublishRows(<<TerminalEvent>>, {}),
           UNCHANGED <<todo, subscription, view>>,
           \A c \in Clients : link'[c] = link[c] \/ (link[c] = "direct" /\ link'[c] = "draining")
    PROVE  OrderInv'
  <1>1. {} \in SUBSET Direct /\ \A c \in {} : FALSE
    OBVIOUS
  <1>2. <<TerminalEvent>> \in Seq(Events) /\ <<TerminalEvent>> # <<>>
        /\ \A i \in DOMAIN <<TerminalEvent>> : WellFormed(<<TerminalEvent>>[i])
    BY TerminalRow, OneRow
  <1> QED  BY <1>1, <1>2, PublishKeepsOrder

LEMMA ProduceKeepsOrder ==
    ASSUME BusInv, BusInv', OrderInv, TerminalIsLast, Produce PROVE OrderInv'
  <1> USE DEF Event
  <1>q. ASSUME UNCHANGED <<log, todo, queue, subscription, view>>,
               \A c \in Clients : \/ link'[c] = link[c]
                                  \/ link[c] = "direct" /\ link'[c] = "draining"
                                  \/ link[c] = "off" /\ link'[c] = "direct" /\ ~Over
        PROVE  OrderInv'
    <2>1. \A c \in Clients : Ordered(c)'
      BY <1>q, LinksKeepOrder
    <2> QED  BY <2>1, <1>q DEF OrderInv, subscription
  <1>c. CloseDirect => \A c \in Clients : link'[c] = link[c] \/ (link[c] = "direct" /\ link'[c] = "draining")
    BY DEF CloseDirect, Direct
  <1>1. ASSUME NEW s \in Segments, StartSegment(s) PROVE OrderInv'
    <2> DEFINE e == Event("start", s, 0)
    <2>1. e \in Events /\ WellFormed(e) /\ e.type # "terminal"
      BY EventBusAssumption DEF Events, WellFormed
    <2>2. PublishRows(<<e>>, Direct) /\ ~Over /\ UNCHANGED <<link, todo, subscription, view>>
      BY <1>1 DEF StartSegment
    <2> HIDE DEF e
    <2>3. \A i \in DOMAIN <<e>> : WellFormed(<<e>>[i]) /\ <<e>>[i].type # "terminal"
      BY <2>1
    <2> QED  BY <2>1, <2>2, <2>3, OneRow, PublishKeepsOrder
  <1>2. ASSUME NEW s \in Segments, Chunk(s) PROVE OrderInv'
    <2> DEFINE e == Event("chunk", s, sent[s] + 1)
    <2>1. sent[s] \in 0 .. MaxChunks - 1
      BY <1>2, EventBusAssumption DEF BusInv, ProducerInv, Chunk
    <2>2. e \in Events /\ WellFormed(e) /\ e.seq = 0 /\ e.type # "terminal"
      BY <2>1, EventBusAssumption DEF Events, WellFormed
    <2>3. ~Over /\ UNCHANGED <<link, todo, subscription, view>>
      BY <1>2 DEF Chunk
    <2>4. CASE s \in TextSegments
      <3>1. PublishRows(<<e>>, Direct)
        BY <1>2, <2>4 DEF Chunk
      <3> HIDE DEF e
      <3>2. \A i \in DOMAIN <<e>> : WellFormed(<<e>>[i]) /\ <<e>>[i].type # "terminal"
        BY <2>2
      <3> QED  BY <2>2, <2>3, <3>1, <3>2, OneRow, PublishKeepsOrder
    <2>5. CASE s \notin TextSegments
      <3>1. Fanout(<<e>>, Direct) /\ UNCHANGED log
        BY <1>2, <2>5 DEF Chunk
      <3> HIDE DEF e
      <3> QED  BY <2>2, <2>3, <3>1, LiveChunkKeepsOrder
    <2> QED  BY <2>4, <2>5
  <1>3. ASSUME NEW s \in Segments, EndSegment(s) PROVE OrderInv'
    <2> DEFINE agg == Event("aggregate", s, buffer[s])
               end == Event("end", s, 0)
               rows == IF buffer[s] = 0 THEN <<end>> ELSE <<agg, end>>
    <2>1. agg \in Events /\ end \in Events /\ WellFormed(agg) /\ WellFormed(end)
          /\ agg.type # "terminal" /\ end.type # "terminal"
      BY EventBusAssumption DEF BusInv, ProducerInv, Events, WellFormed
    <2>2. rows \in Seq(Events) /\ rows # <<>>
          /\ \A i \in DOMAIN rows : WellFormed(rows[i]) /\ rows[i].type # "terminal"
      BY <2>1
    <2>3. PublishRows(rows, Direct) /\ ~Over /\ UNCHANGED <<link, todo, subscription, view>>
      BY <1>3 DEF EndSegment
    <2> HIDE DEF rows
    <2> QED  BY <2>2, <2>3, PublishKeepsOrder
  <1>4. ASSUME FinishStream PROVE OrderInv'
    <2>1. /\ PublishRows(<<TerminalEvent>>, Direct) /\ ~Over /\ UNCHANGED <<todo, subscription, view>>
          /\ CloseDirect
      BY <1>4 DEF FinishStream
    <2>2. \A c \in Direct : link'[c] # "direct"
      BY <2>1 DEF CloseDirect, Direct
    <2> QED  BY <2>1, <2>2, <1>c, TerminalRow, OneRow, PublishKeepsOrder
  <1>5. ASSUME Fail PROVE OrderInv'
    <2>1. CASE PublishRows(<<TerminalEvent>>, {})
      <3>1. ~Over /\ UNCHANGED <<todo, subscription, view>> /\ CloseDirect
        BY <1>5 DEF Fail
      <3> QED  BY <2>1, <3>1, <1>c, CloseKeepsOrder
    <2>2. CASE UNCHANGED <<log, queue>>
      BY <1>5, <2>2, <1>c, <1>q DEF Fail
    <2> QED  BY <1>5, <2>1, <2>2 DEF Fail
  <1>6. ASSUME Suspend \/ LoseLiveness PROVE OrderInv'
    BY <1>6, <1>c, <1>q DEF Suspend, LoseLiveness
  <1>7. ASSUME NEW c \in Clients, Resume(c) PROVE OrderInv'
    BY <1>7, <1>q DEF Resume, BusInv, LinkInv
  <1> QED  BY <1>1, <1>2, <1>3, <1>4, <1>5, <1>6, <1>7, StopDriverKeepsOrder DEF Produce

LEMMA ConvergeKeepsOrder ==
    ASSUME BusInv, BusInv', OrderInv, Converge PROVE OrderInv'
  <1>t. ASSUME ~Over, PublishRows(<<TerminalEvent>>, {}), UNCHANGED <<link, todo, subscription, view>>
        PROVE  OrderInv'
    BY <1>t, CloseKeepsOrder
  <1>1. ASSUME AbortRound PROVE OrderInv'
    BY <1>1, <1>t DEF AbortRound
  <1>2. ASSUME CrashProcess PROVE OrderInv'
    <2> SUFFICES ASSUME NEW c \in Clients PROVE Ordered(c)'
      BY <1>2 DEF OrderInv, CrashProcess, subscription
    <2>1. /\ Ordered(c) /\ UNCHANGED <<log, latest, seen, yielded, cursor>>
          /\ link'[c] = "off" /\ todo'[c] = <<>> /\ queue'[c] = <<>> /\ DOMAIN <<>> = {}
      BY <1>2 DEF OrderInv, CrashProcess, subscription, view
    <2>2. ReplaysOn(c)' /\ QueuesRows(c)' /\ SeesAll(c)' /\ Rises(c)' /\ Ends(c)'
      BY <2>1 DEF Ordered, ReplaysOn, QueuesRows, InOrder, SeesAll, Rises, Ends, Subscribed
    <2> QED  BY <2>2 DEF Ordered
  <1>3. ASSUME NEW elsewhere \in BOOLEAN, RecoverRound(elsewhere) PROVE OrderInv'
    <2>0. ~Over /\ UNCHANGED <<link, todo, subscription, view>>
      BY <1>3 DEF RecoverRound
    <2>1. CASE ~elsewhere
      BY <1>3, <2>0, <2>1, <1>t DEF RecoverRound
    <2>2. CASE elsewhere
      <3> DEFINE e == [TerminalEvent EXCEPT !.seq = Len(log) + 1]
      <3>1. log' = Append(log, e) /\ UNCHANGED queue
        BY <1>3, <2>2 DEF RecoverRound
      <3>2. log \in Seq(Events) /\ Len(log) \in Nat /\ e \in Events
        <4>1. log \in Seq(Events) /\ Len(log) \in Nat
          BY DEF BusInv, LogInv
        <4> QED  BY <4>1, EventBusAssumption DEF TerminalEvent, Event, Events
      <3> HIDE DEF e
      <3>3. Len(log') > Len(log) /\ \A i \in 1 .. Len(log) : log'[i] = log[i]
        BY <3>1, <3>2, AppendProperties
      <3> SUFFICES ASSUME NEW c \in Clients PROVE Ordered(c)'
        BY <2>0 DEF OrderInv, subscription
      <3>4. Handed(c, 0)
        BY <3>1, SeqsInLog DEF Handed
      <3>5. Ordered(c) /\ UNCHANGED <<todo, latest, seen, yielded, cursor>>
        BY <2>0 DEF OrderInv, subscription, view
      <3>6. 0 \in Nat /\ 0 <= Len(log') - Len(log)
        BY <3>2, <3>3, SeqsInLog DEF BusInv, LogInv
      <3> QED  BY <2>0, <3>3, <3>4, <3>5, <3>6, CommitKeepsOrder
    <2> QED  BY <2>1, <2>2
  <1>4. \A elsewhere \in {FALSE, RollingStart} : elsewhere \in BOOLEAN
    BY EventBusAssumption
  <1> QED  BY <1>1, <1>2, <1>3, <1>4 DEF Converge

-----------------------------------------------------------------------------
\* The rest of a queue is in order too, and above its head.
LEMMA RestOfQueue ==
    ASSUME BusInv, NEW c \in Clients, QueuesRows(c), queue[c] # <<>>
    PROVE  /\ 1 \in DOMAIN queue[c] /\ Head(queue[c]) = queue[c][1]
           /\ Head(queue[c]) \in Events /\ Head(queue[c]).seq \in 0 .. Len(log)
           /\ Head(queue[c]).seq # 0 => Head(queue[c]) = log[Head(queue[c]).seq]
           /\ InOrder(Tail(queue[c]))
           /\ \A i \in DOMAIN Tail(queue[c]) :
                 /\ i + 1 \in DOMAIN queue[c] /\ Tail(queue[c])[i] = queue[c][i + 1]
                 /\ Tail(queue[c])[i].seq # 0 => Tail(queue[c])[i].seq > Head(queue[c]).seq
  <1>1. /\ queue[c] \in Seq(Events) /\ Len(queue[c]) \in Nat \ {0} /\ DOMAIN queue[c] = 1 .. Len(queue[c])
        /\ \A i \in 1 .. Len(queue[c]) : queue[c][i] \in Events /\ queue[c][i].seq \in 0 .. Len(log)
    BY SeqsInLog
  <1>2. 1 \in DOMAIN queue[c] /\ Head(queue[c]) = queue[c][1]
    BY <1>1
  <1>3. \A i \in DOMAIN Tail(queue[c]) : i \in Nat /\ i + 1 \in DOMAIN queue[c]
                                         /\ 1 < i + 1 /\ Tail(queue[c])[i] = queue[c][i + 1]
    <2>1. Tail(queue[c]) \in Seq(Events) /\ Len(Tail(queue[c])) = Len(queue[c]) - 1
          /\ \A i \in 1 .. Len(Tail(queue[c])) : Tail(queue[c])[i] = queue[c][i + 1]
      BY <1>1, HeadTailProperties
    <2> QED  BY <2>1, <1>1
  <1>4. InOrder(Tail(queue[c]))
    <2> SUFFICES ASSUME NEW i \in DOMAIN Tail(queue[c]), NEW j \in DOMAIN Tail(queue[c]), i < j,
                        Tail(queue[c])[i].seq # 0, Tail(queue[c])[j].seq # 0
                 PROVE  Tail(queue[c])[i].seq < Tail(queue[c])[j].seq
      BY DEF InOrder
    <2>1. i + 1 < j + 1
      BY <1>3
    <2>2. InOrder(queue[c])
      BY DEF QueuesRows
    <2> QED  BY <1>3, <2>1, <2>2 DEF InOrder
  <1>5. ASSUME NEW i \in DOMAIN Tail(queue[c]), Tail(queue[c])[i].seq # 0
        PROVE  Tail(queue[c])[i].seq > Head(queue[c]).seq
    <2>1. queue[c][i + 1].seq \in 0 .. Len(log) /\ queue[c][1].seq \in 0 .. Len(log) /\ Len(log) \in Nat
      BY <1>1, <1>2, <1>3, SeqsInLog
    <2>2. CASE queue[c][1].seq = 0
      BY <1>2, <1>3, <1>5, <2>1, <2>2
    <2>3. CASE queue[c][1].seq # 0
      <3>1. queue[c][1].seq < queue[c][i + 1].seq
        BY <1>2, <1>3, <1>5, <2>3 DEF QueuesRows, InOrder
      <3> QED  BY <3>1, <1>2, <1>3, <2>1
    <2> QED  BY <2>2, <2>3
  <1>6. Head(queue[c]) \in Events /\ Head(queue[c]).seq \in 0 .. Len(log)
        /\ (Head(queue[c]).seq # 0 => Head(queue[c]) = log[Head(queue[c]).seq])
    BY <1>1, <1>2 DEF QueuesRows
  <1> QED  BY <1>2, <1>3, <1>4, <1>5, <1>6

LEMMA HangupKeepsOrder ==
    ASSUME BusInv, NEW c \in Clients, Hangup(c), SeesAll(c)', Rises(c)'
    PROVE  Ordered(c)'
  <1>1. link'[c] = "off" /\ todo'[c] = <<>> /\ queue'[c] = <<>> /\ DOMAIN <<>> = {}
    BY DEF Hangup, BusInv, LinkInv, WayInv, OnTheWay
  <1> QED  BY <1>1 DEF Ordered, ReplaysOn, QueuesRows, InOrder, Ends, Subscribed

\* What a hangup, a read or a yield of c leaves alone of another client.
LEMMA OthersKeepOrder ==
    ASSUME BusInv, OrderInv, UNCHANGED log, NEW c \in Clients, Ordered(c)',
           yielded' \in [Clients -> Seq(Nat)], \A d \in Clients \ {c} : Still(d)
    PROVE  OrderInv'
  <1>1. \A d \in Clients \ {c} : Ordered(d)'
    BY StaysOrdered DEF OrderInv
  <1> QED  BY <1>1 DEF OrderInv

\* The cursor goes to e if it is a row behind it.
LEMMA ShownCursor ==
    ASSUME BusInv, NEW c \in Clients, NEW e \in Events, Show(c, e)
    PROVE  /\ cursor'[c] = IF e.seq > cursor[c] THEN e.seq ELSE cursor[c]
           /\ \A d \in Clients \ {c} : cursor'[d] = cursor[d]
  <1>1. cursor \in [Clients -> Nat] /\ e.seq \in Nat /\ cursor[c] \in Nat
    BY DEF BusInv, LogInv, ViewInv, Events
  <1>2. CASE e.seq # 0 /\ e.seq <= cursor[c]
    BY <1>1, <1>2 DEF Show, view
  <1>3. CASE ~(e.seq # 0 /\ e.seq <= cursor[c])
    <2>1. cursor' = [cursor EXCEPT ![c] = IF e.seq = 0 THEN @ ELSE e.seq]
      BY <1>3 DEF Show
    <2> QED  BY <1>1, <1>3, <2>1
  <1> QED  BY <1>2, <1>3

LEMMA HungStill ==
    ASSUME BusInv, NEW c \in Clients, Hangup(c), NEW d \in Clients \ {c}
    PROVE  link'[d] = link[d] /\ todo'[d] = todo[d] /\ queue'[d] = queue[d]
  BY DEF BusInv, LinkInv, WayInv, OnTheWay, Hangup

\* The next row, or a live event, is looked at.
LEMMA YieldKeepsOrder ==
    ASSUME BusInv, OrderInv, UNCHANGED log, NEW c \in Clients, NEW e \in Events,
           e.seq \in 0 .. Len(log), e.seq = 0 \/ e.seq > latest[c], Yield(c, e)
    PROVE  /\ yielded' \in [Clients -> Seq(Nat)]
           /\ latest'[c] = IF e.seq = 0 THEN latest[c] ELSE e.seq
           /\ seen'[c] = IF e.seq = 0 THEN seen[c] ELSE seen[c] \cup {e.seq}
           /\ seen'[c] \subseteq 1 .. latest'[c]
           /\ Rises(c)'
           /\ cursor'[c] = IF e.seq > cursor[c] /\ ~Duplicate(c, e) THEN e.seq ELSE cursor[c]
           /\ \A d \in Clients \ {c} : /\ latest'[d] = latest[d] /\ seen'[d] = seen[d]
                                       /\ yielded'[d] = yielded[d] /\ cursor'[d] = cursor[d]
  <1>0. /\ latest \in [Clients -> Nat] /\ seen \in [Clients -> SUBSET (1 .. Len(log))]
        /\ yielded \in [Clients -> Seq(Nat)] /\ seen[c] \subseteq 1 .. latest[c] /\ Rises(c)
        /\ e.seq \in Nat /\ Len(log) \in Nat /\ latest[c] \in Nat /\ cursor \in [Clients -> Nat]
    BY DEF OrderInv, Ordered, SeesAll, BusInv, LogInv, SubscriptionInv, ViewInv
  <1>1. e.seq \notin seen[c]
    BY <1>0
  <1>2. /\ seen' = [seen EXCEPT ![c] = IF Live(e) THEN @ ELSE @ \cup {e.seq}]
        /\ latest' = [latest EXCEPT ![c] = IF e.seq > @ THEN e.seq ELSE @]
    BY <1>1 DEF Yield
  <1>3. /\ latest'[c] = IF e.seq = 0 THEN latest[c] ELSE e.seq
        /\ seen'[c] = IF e.seq = 0 THEN seen[c] ELSE seen[c] \cup {e.seq}
        /\ \A d \in Clients \ {c} : latest'[d] = latest[d] /\ seen'[d] = seen[d]
    BY <1>0, <1>2 DEF Live
  <1>4. seen'[c] \subseteq 1 .. latest'[c] /\ latest'[c] >= latest[c] /\ latest'[c] \in Nat
    BY <1>0, <1>3
  <1>5. /\ cursor'[c] = IF e.seq > cursor[c] /\ ~Duplicate(c, e) THEN e.seq ELSE cursor[c]
        /\ \A d \in Clients \ {c} : cursor'[d] = cursor[d]
    <2>1. CASE Duplicate(c, e)
      BY <1>1, <2>1 DEF Yield, view
    <2>2. CASE ~Duplicate(c, e)
      BY <1>1, <2>2, ShownCursor DEF Yield
    <2> QED  BY <2>1, <2>2
  <1>6. CASE Duplicate(c, e) \/ e.seq = 0
    <2>1. yielded' = yielded
      BY <1>1, <1>6 DEF Yield, Live
    <2>2. Rises(c)'
      <3>1. \A i \in DOMAIN yielded[c] : yielded[c][i] \in Nat /\ yielded[c][i] <= latest[c]
        BY <1>0 DEF Rises
      <3> QED  BY <1>0, <1>4, <2>1, <3>1 DEF Rises
    <2> QED  BY <1>0, <1>3, <1>4, <1>5, <2>1, <2>2
  <1>7. CASE ~Duplicate(c, e) /\ e.seq # 0
    <2>1. yielded' = [yielded EXCEPT ![c] = Append(@, e.seq)]
      BY <1>1, <1>7 DEF Yield, Live
    <2>2. yielded'[c] = Append(yielded[c], e.seq) /\ \A d \in Clients \ {c} : yielded'[d] = yielded[d]
      BY <1>0, <2>1
    <2>3. yielded[c] \in Seq(Nat) /\ Append(yielded[c], e.seq) \in Seq(Nat)
      BY <1>0, AppendProperties
    <2>4. yielded' \in [Clients -> Seq(Nat)]
      BY <1>0, <2>1, <2>3
    <2>5. /\ DOMAIN yielded'[c] = 1 .. Len(yielded[c]) + 1 /\ Len(yielded[c]) \in Nat
          /\ DOMAIN yielded[c] = 1 .. Len(yielded[c])
          /\ \A i \in 1 .. Len(yielded[c]) : yielded'[c][i] = yielded[c][i]
          /\ yielded'[c][Len(yielded[c]) + 1] = e.seq
      BY <1>0, <2>2, <2>3, AppendProperties
    <2>6. \A i \in 1 .. Len(yielded[c]) : yielded[c][i] \in Nat /\ yielded[c][i] < e.seq
      <3> TAKE i \in 1 .. Len(yielded[c])
      <3>1. yielded[c][i] \in Nat
        BY <2>3
      <3>2. yielded[c][i] <= latest[c]
        BY <1>0, <2>5 DEF Rises
      <3>3. latest[c] < e.seq
        BY <1>0, <1>7
      <3> QED  BY <1>0, <3>1, <3>2, <3>3
    <2>7. ASSUME NEW i \in DOMAIN yielded'[c] PROVE yielded'[c][i] <= latest'[c]
      <3>1. CASE i \in 1 .. Len(yielded[c])
        BY <1>0, <1>3, <1>7, <2>5, <2>6, <3>1
      <3>2. CASE i = Len(yielded[c]) + 1
        BY <1>0, <1>3, <1>7, <2>5, <3>2
      <3> QED  BY <2>5, <3>1, <3>2
    <2>8. ASSUME NEW i \in DOMAIN yielded'[c], NEW j \in DOMAIN yielded'[c], i < j
          PROVE  yielded'[c][i] < yielded'[c][j]
      <3>1. i \in 1 .. Len(yielded[c])
        BY <2>5, <2>8
      <3>2. CASE j \in 1 .. Len(yielded[c])
        BY <1>0, <2>5, <2>8, <3>1, <3>2 DEF Rises
      <3>3. CASE j = Len(yielded[c]) + 1
        BY <2>5, <2>6, <3>1, <3>3
      <3> QED  BY <2>5, <3>2, <3>3
    <2>9. Rises(c)'
      BY <2>7, <2>8 DEF Rises
    <2> QED  BY <1>3, <1>4, <1>5, <2>2, <2>4, <2>9
  <1> QED  BY <1>6, <1>7

LEMMA AfterRows ==
    ASSUME BusInv, NEW n \in 0 .. Len(log)
    PROVE  /\ Len(After(n)) = Len(log) - n
           /\ \A i \in DOMAIN After(n) : n + i \in DOMAIN log /\ After(n)[i] = log[n + i]
  <1>1. log \in Seq(Events) /\ Len(log) \in Nat /\ n + 1 \in 1 .. Len(log) + 1
    BY DEF BusInv, LogInv
  <1>2. /\ SubSeq(log, n + 1, Len(log)) \in Seq(Events)
        /\ Len(SubSeq(log, n + 1, Len(log))) = Len(log) - n
        /\ \A i \in 1 .. Len(log) - n : SubSeq(log, n + 1, Len(log))[i] = log[n + i]
    BY <1>1, SubSeqProperties
  <1> QED  BY <1>1, <1>2 DEF After

LEMMA ConnectionKeepsOrder ==
    ASSUME BusInv, OrderInv, TerminalIsLast, NEW c \in Clients, Subscribe(c) \/ Disconnect(c) \/ Stream(c)
    PROVE  OrderInv'
  <1>0. /\ UNCHANGED <<log, producer>>
        /\ Ordered(c) /\ yielded \in [Clients -> Seq(Nat)]
        /\ ReplaysOn(c) /\ QueuesRows(c) /\ SeesAll(c) /\ Rises(c) /\ Ends(c)
        /\ log \in Seq(Events) /\ Len(log) \in Nat /\ DOMAIN log = 1 .. Len(log)
        /\ \A i \in 1 .. Len(log) : log[i] \in Events /\ log[i].seq = i
        /\ cursor[c] \in 0 .. Len(log) /\ latest[c] \in 0 .. Len(log)
    <2>1. UNCHANGED <<log, producer>>
      BY DEF Subscribe, Disconnect, Stream, ReadDirect, DirectEnds, Replay, EnsureTerminal,
             LastReplayEnds, Register, CatchUp, Receive
    <2> QED  BY <2>1, SeqsInLog DEF OrderInv, Ordered, BusInv, LogInv
  <1>f. /\ link \in [Clients -> {"off", "direct", "draining", "replay", "last", "ensured", "registered", "live"}]
        /\ todo \in [Clients -> Seq(Events)] /\ queue \in [Clients -> Seq(Events)]
        /\ latest \in [Clients -> 0 .. Len(log)] /\ cursor \in [Clients -> 0 .. Len(log)]
        /\ seen \in [Clients -> SUBSET (1 .. Len(log))]
    BY DEF BusInv, LinkInv, WayInv, OnTheWay, SubscriptionInv, ViewInv
  <1>o. Over' = Over
    BY <1>0 DEF Over
  <1>e. Over /\ Len(log) \in Nat => log[Len(log)].type = "terminal" /\ Len(log) \in 1 .. Len(log)
    BY <1>0 DEF Over, TerminalIsLast
  <1>a. ASSUME NEW n \in 0 .. Len(log)
        PROVE  /\ Len(After(n)) = Len(log) - n
               /\ \A i \in DOMAIN After(n) : n + i \in DOMAIN log /\ After(n)[i] = log[n + i]
    BY AfterRows
  <1>h. ASSUME Hangup(c), SeesAll(c)', Rises(c)', yielded' \in [Clients -> Seq(Nat)],
               \A d \in Clients \ {c} : /\ latest'[d] = latest[d] /\ seen'[d] = seen[d]
                                        /\ yielded'[d] = yielded[d] /\ cursor'[d] = cursor[d]
        PROVE  OrderInv'
    <2>1. Ordered(c)'
      BY <1>h, HangupKeepsOrder
    <2>2. \A d \in Clients \ {c} : Still(d)
      BY <1>0, <1>h, HungStill DEF Still
    <2> QED  BY <1>0, <1>h, <2>1, <2>2, OthersKeepOrder
  <1>q. ASSUME Hangup(c), UNCHANGED subscription, \A d \in Clients \ {c} : cursor'[d] = cursor[d]
        PROVE  OrderInv'
    <2>1. UNCHANGED <<latest, seen, yielded>>
      BY <1>q DEF subscription
    <2>2. SeesAll(c)'
      <3>1. queue'[c] = <<>> /\ DOMAIN <<>> = {}
        BY <1>q, <1>f DEF Hangup
      <3> QED  BY <1>0, <2>1, <3>1 DEF SeesAll
    <2>3. Rises(c)'
      BY <1>0, <2>1 DEF Rises
    <2> QED  BY <1>0, <1>h, <1>q, <2>1, <2>2, <2>3
  <1>1. ASSUME Subscribe(c) PROVE OrderInv'
    <2>1. /\ link'[c] = "replay" /\ todo'[c] = After(cursor[c]) /\ latest'[c] = cursor[c] /\ seen'[c] = {}
          /\ yielded'[c] = <<>> /\ queue'[c] = <<>> /\ cursor'[c] = cursor[c] /\ log' = log
      BY <1>0, <1>1, <1>f DEF Subscribe, QueuesRows, view
    <2>2. DOMAIN <<>> = {}
      OBVIOUS
    <2>3. ReplaysOn(c)'
      BY <2>1, <1>0, <1>a DEF ReplaysOn
    <2>4. QueuesRows(c)' /\ SeesAll(c)' /\ Rises(c)'
      BY <2>1, <2>2 DEF QueuesRows, InOrder, SeesAll, Rises
    <2>5. Ends(c)'
      BY <2>1 DEF Ends
    <2>6. yielded' \in [Clients -> Seq(Nat)]
      BY <1>0, <1>1, EmptySeq DEF Subscribe
    <2>7. \A d \in Clients \ {c} : Still(d)
      BY <1>0, <1>1, <1>f DEF Subscribe, Still, view
    <2> QED  BY <1>0, <2>3, <2>4, <2>5, <2>6, <2>7, OthersKeepOrder DEF Ordered
  <1>2. ASSUME Disconnect(c) \/ DirectEnds(c) \/ LastReplayEnds(c) PROVE OrderInv'
    BY <1>2, <1>q DEF Disconnect, DirectEnds, LastReplayEnds, view
  <1>3. ASSUME ReadDirect(c) PROVE OrderInv'
    <2> DEFINE e == Head(queue[c])
    <2>1. link[c] \in {"direct", "draining"} /\ queue[c] # <<>> /\ Show(c, e) /\ UNCHANGED subscription
      BY <1>3 DEF ReadDirect
    <2>2. /\ e \in Events /\ e.seq \in 0 .. Len(log) /\ e = queue[c][1] /\ 1 \in DOMAIN queue[c]
          /\ InOrder(Tail(queue[c])) /\ (e.seq # 0 => e = log[e.seq])
          /\ \A i \in DOMAIN Tail(queue[c]) :
                /\ i + 1 \in DOMAIN queue[c] /\ Tail(queue[c])[i] = queue[c][i + 1]
                /\ Tail(queue[c])[i].seq # 0 => Tail(queue[c])[i].seq > e.seq
      BY <1>0, <2>1, RestOfQueue
    <2>3. /\ cursor'[c] = IF e.seq > cursor[c] THEN e.seq ELSE cursor[c]
          /\ \A d \in Clients \ {c} : cursor'[d] = cursor[d]
      BY <2>1, <2>2, ShownCursor
    <2>4. CASE e.type = "terminal"
      BY <1>3, <2>1, <2>3, <2>4, <1>q DEF ReadDirect
    <2>5. CASE e.type # "terminal"
      <3>1. queue' = [queue EXCEPT ![c] = Tail(@)] /\ UNCHANGED <<link, registered, todo>>
        BY <1>3, <2>5 DEF ReadDirect
      <3>2. queue'[c] = Tail(queue[c]) /\ UNCHANGED <<latest, seen, yielded>>
        BY <1>f, <2>1, <3>1 DEF subscription
      <3> HIDE DEF e
      <3>3. QueuesRows(c)'
        <4>1. ASSUME NEW i \in DOMAIN queue'[c], queue'[c][i].seq # 0
              PROVE  queue'[c][i] = log[queue'[c][i].seq] /\ queue'[c][i].seq > cursor'[c]
          BY <1>0, <2>1, <2>2, <2>3, <3>2, <4>1 DEF QueuesRows
        <4>2. ASSUME link[c] = "direct", NEW i \in DOMAIN queue'[c] PROVE queue'[c][i].type # "terminal"
          BY <1>0, <2>2, <3>2, <4>2 DEF QueuesRows
        <4> QED  BY <1>0, <2>1, <2>2, <3>1, <3>2, <4>1, <4>2 DEF QueuesRows
      <3>4. Ends(c)'
        <4>1. link[c] = "direct" /\ Over => cursor'[c] < Len(log)
          <5> SUFFICES ASSUME link[c] = "direct", Over PROVE cursor'[c] < Len(log)
            OBVIOUS
          <5>1. cursor[c] < Len(log)
            BY <1>0 DEF Ends
          <5>2. e.seq # Len(log)
            BY <1>e, <1>0, <2>2, <2>5
          <5> QED  BY <1>0, <2>2, <2>3, <5>1, <5>2
        <4> QED  BY <2>1, <3>1, <1>o, <1>0, <4>1 DEF Ends, Subscribed
      <3>5. ReplaysOn(c)' /\ SeesAll(c)' /\ Rises(c)'
        BY <1>0, <2>1, <3>1, <3>2 DEF ReplaysOn, SeesAll, Rises
      <3>6. \A d \in Clients \ {c} : Still(d)
        BY <1>0, <1>f, <2>3, <3>1, <3>2 DEF Still
      <3> QED  BY <1>0, <3>2, <3>3, <3>4, <3>5, <3>6, OthersKeepOrder DEF Ordered
    <2> QED  BY <2>4, <2>5
  <1>s. ASSUME UNCHANGED <<queue, subscription, view>>, ReplaysOn(c)', QueuesRows(c)', SeesAll(c)', Ends(c)',
               \A d \in Clients \ {c} : link'[d] = link[d] /\ todo'[d] = todo[d]
        PROVE  OrderInv'
    <2>1. UNCHANGED <<latest, seen, yielded, cursor>>
      BY <1>s DEF subscription, view
    <2>2. Rises(c)'
      BY <1>0, <2>1 DEF Rises
    <2>3. \A d \in Clients \ {c} : Still(d)
      BY <1>0, <1>s, <2>1 DEF Still
    <2> QED  BY <1>0, <1>s, <2>1, <2>2, <2>3, OthersKeepOrder DEF Ordered
  <1>4. ASSUME Replay(c) PROVE OrderInv'
    <2> DEFINE e == Head(todo[c])
    <2>1. link[c] \in {"replay", "last", "live"} /\ todo[c] # <<>> /\ Yield(c, e)
      BY <1>4 DEF Replay
    <2>2. /\ todo[c] \in Seq(Events) /\ Len(todo[c]) \in Nat \ {0} /\ DOMAIN todo[c] = 1 .. Len(todo[c])
          /\ e = todo[c][1] /\ Tail(todo[c]) \in Seq(Events) /\ Len(Tail(todo[c])) = Len(todo[c]) - 1
          /\ \A i \in 1 .. Len(Tail(todo[c])) : Tail(todo[c])[i] = todo[c][i + 1]
      BY <1>f, <2>1, HeadTailProperties
    <2> HIDE DEF e
    <2>3. latest[c] + 1 \in 1 .. Len(log) /\ e = log[latest[c] + 1] /\ e \in Events /\ e.seq = latest[c] + 1
      <3>1. 1 \in DOMAIN todo[c]
        BY <2>2
      <3>2. latest[c] + 1 \in DOMAIN log /\ e = log[latest[c] + 1]
        BY <1>0, <2>2, <3>1 DEF ReplaysOn
      <3> QED  BY <1>0, <3>2
    <2>4. e.seq \in 0 .. Len(log) /\ e.seq > latest[c] /\ e.seq # 0
      BY <1>0, <2>3
    <2>5. /\ yielded' \in [Clients -> Seq(Nat)] /\ latest'[c] = e.seq /\ seen'[c] = seen[c] \cup {e.seq}
          /\ seen'[c] \subseteq 1 .. latest'[c] /\ Rises(c)'
          /\ cursor'[c] = IF e.seq > cursor[c] /\ ~Duplicate(c, e) THEN e.seq ELSE cursor[c]
          /\ \A d \in Clients \ {c} : /\ latest'[d] = latest[d] /\ seen'[d] = seen[d]
                                      /\ yielded'[d] = yielded[d] /\ cursor'[d] = cursor[d]
      BY <1>0, <2>1, <2>3, <2>4, YieldKeepsOrder
    <2>6. CASE e.type = "terminal"
      <3>1. Hangup(c)
        BY <1>4, <2>6 DEF Replay, e
      <3>2. queue'[c] = <<>> /\ DOMAIN <<>> = {}
        BY <1>f, <3>1 DEF Hangup
      <3>3. SeesAll(c)'
        BY <2>5, <3>2 DEF SeesAll
      <3> QED  BY <1>h, <2>5, <3>1, <3>3
    <2>7. CASE e.type # "terminal"
      <3>1. todo' = [todo EXCEPT ![c] = Tail(@)] /\ UNCHANGED <<link, registered, queue>>
        BY <1>4, <2>7 DEF Replay, e
      <3>2. todo'[c] = Tail(todo[c]) /\ log' = log
        BY <1>0, <1>f, <3>1
      <3>3. ReplaysOn(c)'
        <4> SUFFICES ASSUME NEW i \in 1 .. Len(todo[c]) - 1
                     PROVE  latest'[c] + i \in DOMAIN log /\ todo'[c][i] = log[latest'[c] + i]
          BY <2>2, <3>2 DEF ReplaysOn
        <4>1. i + 1 \in DOMAIN todo[c] /\ todo'[c][i] = todo[c][i + 1]
          BY <2>2, <3>2
        <4>2. latest[c] + (i + 1) \in DOMAIN log /\ todo[c][i + 1] = log[latest[c] + (i + 1)]
          BY <1>0, <4>1 DEF ReplaysOn
        <4>3. latest'[c] + i = latest[c] + (i + 1)
          <5>1. latest'[c] = latest[c] + 1 /\ latest[c] \in Nat /\ i \in Nat
            BY <1>0, <2>2, <2>3, <2>5
          <5> QED  BY <5>1
        <4> QED  BY <4>1, <4>2, <4>3
      <3>4. QueuesRows(c)'
        BY <1>0, <2>1, <3>1, <3>2 DEF QueuesRows
      <3>5. SeesAll(c)'
        <4> SUFFICES ASSUME link[c] \in {"registered", "live"}, NEW i \in DOMAIN queue[c],
                            queue[c][i].seq \in 1 .. latest'[c]
                     PROVE  queue[c][i].seq \in seen'[c]
          BY <2>5, <3>1 DEF SeesAll
        <4>1. queue[c][i].seq \in 1 .. latest[c] \/ queue[c][i].seq = e.seq
          BY <1>0, <2>3, <2>5
        <4> QED  BY <1>0, <2>5, <4>1 DEF SeesAll
      <3>6. Ends(c)'
        <4>1. ASSUME Over PROVE latest'[c] # Len(log)
          BY <1>e, <1>0, <2>3, <2>5, <2>7, <4>1
        <4>2. latest'[c] + Len(todo'[c]) = latest[c] + Len(todo[c])
          BY <1>0, <2>2, <2>3, <2>5, <3>2
        <4> QED  BY <1>0, <1>o, <2>1, <3>1, <3>2, <4>1, <4>2 DEF Ends
      <3>7. \A d \in Clients \ {c} : Still(d)
        BY <1>0, <1>f, <2>5, <3>1 DEF Still
      <3> QED  BY <1>0, <2>5, <3>3, <3>4, <3>5, <3>6, <3>7, OthersKeepOrder DEF Ordered
    <2> QED  BY <2>6, <2>7
  <1>5. ASSUME EnsureTerminal(c) PROVE OrderInv'
    <2>1. /\ link'[c] = IF Over THEN "last" ELSE "ensured"
          /\ todo'[c] = IF Over THEN After(latest[c]) ELSE <<>>
          /\ queue[c] = <<>> /\ UNCHANGED <<log, queue, latest, seen, cursor, subscription, view>>
          /\ link[c] = "replay"
          /\ \A d \in Clients \ {c} : link'[d] = link[d] /\ todo'[d] = todo[d]
      BY <1>0, <1>5, <1>f DEF EnsureTerminal, QueuesRows, subscription, view
    <2>2. ReplaysOn(c)'
      <3>1. DOMAIN <<>> = {}
        OBVIOUS
      <3>2. CASE Over
        <4>1. todo'[c] = After(latest[c]) /\ latest'[c] = latest[c] /\ log' = log
          BY <2>1, <3>2
        <4>2. \A i \in DOMAIN After(latest[c]) :
                 latest[c] + i \in DOMAIN log /\ After(latest[c])[i] = log[latest[c] + i]
          BY <1>0, <1>a
        <4> QED  BY <4>1, <4>2 DEF ReplaysOn
      <3>3. CASE ~Over
        BY <2>1, <3>1, <3>3 DEF ReplaysOn
      <3> QED  BY <3>2, <3>3
    <2>3. QueuesRows(c)' /\ SeesAll(c)'
      BY <1>0, <2>1 DEF QueuesRows, InOrder, SeesAll
    <2>4. Ends(c)'
      <3>1. Over => latest[c] + Len(todo'[c]) = Len(log)
        <4>1. Len(After(latest[c])) = Len(log) - latest[c] /\ latest[c] \in Nat /\ Len(log) \in Nat
          BY <1>0, <1>a
        <4> QED  BY <2>1, <4>1
      <3> QED  BY <1>0, <1>o, <2>1, <3>1 DEF Ends, Subscribed
    <2> QED  BY <1>s, <2>1, <2>2, <2>3, <2>4
  <1>6. ASSUME Register(c) PROVE OrderInv'
    <2>1. /\ link[c] = "ensured" /\ link'[c] = "registered" /\ queue[c] = <<>> /\ DOMAIN <<>> = {}
          /\ UNCHANGED <<log, todo, queue, latest, seen, yielded, cursor>>
          /\ \A d \in Clients \ {c} : link'[d] = link[d]
      BY <1>0, <1>6, <1>f DEF Register, QueuesRows, view
    <2>2. ReplaysOn(c)' /\ QueuesRows(c)' /\ SeesAll(c)' /\ Rises(c)'
      BY <1>0, <2>1 DEF ReplaysOn, QueuesRows, InOrder, SeesAll, Rises
    <2>3. Ends(c)'
      BY <1>0, <1>o, <2>1 DEF Ends, Subscribed
    <2>4. \A d \in Clients \ {c} : Still(d)
      BY <2>1 DEF Still
    <2> QED  BY <1>0, <2>1, <2>2, <2>3, <2>4, OthersKeepOrder DEF Ordered
  <1>7. ASSUME CatchUp(c) PROVE OrderInv'
    <2>1. /\ link[c] = "registered" /\ link'[c] = "live" /\ todo'[c] = After(latest[c])
          /\ UNCHANGED <<log, queue, latest, seen, cursor, subscription, view>>
          /\ \A d \in Clients \ {c} : link'[d] = link[d] /\ todo'[d] = todo[d]
      BY <1>0, <1>7, <1>f DEF CatchUp, subscription, view
    <2>2. ReplaysOn(c)'
      BY <1>0, <1>a, <2>1 DEF ReplaysOn
    <2>3. QueuesRows(c)' /\ SeesAll(c)'
      BY <1>0, <2>1 DEF QueuesRows, SeesAll
    <2>4. Ends(c)'
      BY <1>0, <1>o, <2>1 DEF Ends, Subscribed
    <2> QED  BY <1>s, <2>1, <2>2, <2>3, <2>4
  <1>8. ASSUME Receive(c) PROVE OrderInv'
    <2> DEFINE e == Head(queue[c])
    <2>1. link[c] = "live" /\ queue[c] # <<>> /\ todo[c] = <<>> /\ Yield(c, e)
      BY <1>8 DEF Receive
    <2>2. /\ e \in Events /\ e.seq \in 0 .. Len(log) /\ e = queue[c][1] /\ 1 \in DOMAIN queue[c]
          /\ InOrder(Tail(queue[c])) /\ (e.seq # 0 => e = log[e.seq])
          /\ \A i \in DOMAIN Tail(queue[c]) :
                /\ i + 1 \in DOMAIN queue[c] /\ Tail(queue[c])[i] = queue[c][i + 1]
                /\ Tail(queue[c])[i].seq # 0 => Tail(queue[c])[i].seq > e.seq
      BY <1>0, <2>1, RestOfQueue
    <2>3. ASSUME queue' = [queue EXCEPT ![c] = Tail(@)], UNCHANGED <<link, registered, todo>>
          PROVE  /\ queue'[c] = Tail(queue[c])
                 /\ \A d \in Clients \ {c} : link'[d] = link[d] /\ todo'[d] = todo[d] /\ queue'[d] = queue[d]
                 /\ ReplaysOn(c)' /\ QueuesRows(c)'
      <3>1. queue'[c] = Tail(queue[c]) /\ todo'[c] = <<>> /\ DOMAIN <<>> = {}
        BY <1>f, <2>1, <2>3
      <3>2. ReplaysOn(c)'
        BY <3>1 DEF ReplaysOn
      <3>3. ASSUME NEW i \in DOMAIN queue'[c], queue'[c][i].seq # 0
            PROVE  queue'[c][i] = log'[queue'[c][i].seq]
        BY <1>0, <2>2, <3>1, <3>3 DEF QueuesRows
      <3>4. QueuesRows(c)'
        BY <2>1, <2>2, <2>3, <3>1, <3>3 DEF QueuesRows
      <3> QED  BY <1>f, <2>3, <3>1, <3>2, <3>4
    <2> HIDE DEF e
    <2>4. CASE e.seq \in seen[c]
      <3>1. UNCHANGED <<subscription, view>> /\ queue' = [queue EXCEPT ![c] = Tail(@)]
            /\ UNCHANGED <<link, registered, todo>>
        BY <1>8, <2>1, <2>4 DEF Receive, Yield, e
      <3>2. UNCHANGED <<latest, seen, yielded, cursor>>
        BY <3>1 DEF subscription, view
      <3>3. SeesAll(c)'
        <4> SUFFICES ASSUME NEW i \in DOMAIN Tail(queue[c]), Tail(queue[c])[i].seq \in 1 .. latest[c]
                     PROVE  Tail(queue[c])[i].seq \in seen[c]
          BY <1>0, <2>3, <3>1, <3>2 DEF SeesAll
        <4>1. i + 1 \in DOMAIN queue[c] /\ Tail(queue[c])[i] = queue[c][i + 1]
          BY <2>2
        <4> QED  BY <1>0, <2>1, <4>1 DEF SeesAll
      <3>4. Rises(c)' /\ Ends(c)'
        BY <1>0, <1>o, <2>1, <3>1, <3>2 DEF Rises, Ends, Subscribed
      <3>5. \A d \in Clients \ {c} : Still(d)
        BY <1>0, <2>3, <3>1, <3>2 DEF Still
      <3> QED  BY <1>0, <2>3, <3>1, <3>2, <3>3, <3>4, <3>5, OthersKeepOrder DEF Ordered
    <2>5. CASE e.seq \notin seen[c]
      <3>0. e.seq = 0 \/ e.seq > latest[c]
        <4>1. e.seq \notin 1 .. latest[c]
          BY <1>0, <2>1, <2>2, <2>5 DEF SeesAll
        <4> QED  BY <1>0, <2>2, <4>1
      <3>1. /\ yielded' \in [Clients -> Seq(Nat)]
            /\ latest'[c] = IF e.seq = 0 THEN latest[c] ELSE e.seq
            /\ seen'[c] = IF e.seq = 0 THEN seen[c] ELSE seen[c] \cup {e.seq}
            /\ seen'[c] \subseteq 1 .. latest'[c] /\ Rises(c)'
            /\ cursor'[c] = IF e.seq > cursor[c] /\ ~Duplicate(c, e) THEN e.seq ELSE cursor[c]
            /\ \A d \in Clients \ {c} : /\ latest'[d] = latest[d] /\ seen'[d] = seen[d]
                                        /\ yielded'[d] = yielded[d] /\ cursor'[d] = cursor[d]
        BY <1>0, <2>1, <2>2, <3>0, YieldKeepsOrder
      <3>2. CASE e.type = "terminal"
        <4>1. Hangup(c)
          BY <1>8, <2>5, <3>2 DEF Receive, e
        <4>2. queue'[c] = <<>> /\ DOMAIN <<>> = {}
          BY <1>f, <4>1 DEF Hangup
        <4>3. SeesAll(c)'
          BY <3>1, <4>2 DEF SeesAll
        <4> QED  BY <1>h, <3>1, <4>1, <4>3
      <3>3. CASE e.type # "terminal"
        <4>1. queue' = [queue EXCEPT ![c] = Tail(@)] /\ UNCHANGED <<link, registered, todo>>
          BY <1>8, <3>3 DEF Receive, e
        <4>2. SeesAll(c)'
          <5> SUFFICES ASSUME NEW i \in DOMAIN Tail(queue[c]), Tail(queue[c])[i].seq \in 1 .. latest'[c]
                       PROVE  Tail(queue[c])[i].seq \in seen'[c]
            BY <2>3, <3>1, <4>1 DEF SeesAll
          <5>1. Tail(queue[c])[i].seq > e.seq /\ Tail(queue[c])[i].seq # 0
            BY <2>2
          <5>2. e.seq = 0
            BY <1>0, <2>2, <3>1, <5>1
          <5> QED  BY <1>0, <2>1, <2>2, <3>1, <5>2 DEF SeesAll
        <4>3. Ends(c)'
          <5>1. ASSUME Over, latest'[c] = Len(log) PROVE cursor'[c] = Len(log)
            <6>1. CASE e.seq = 0
              BY <1>0, <2>1, <3>1, <5>1, <6>1 DEF Ends, Subscribed
            <6>2. CASE e.seq # 0
              BY <1>e, <1>0, <2>2, <3>1, <3>3, <5>1, <6>2
            <6> QED  BY <6>1, <6>2
          <5> QED  BY <1>0, <1>o, <2>1, <4>1, <5>1 DEF Ends
        <4>4. \A d \in Clients \ {c} : Still(d)
          BY <1>0, <2>3, <3>1, <4>1 DEF Still
        <4> QED  BY <1>0, <2>3, <3>1, <4>1, <4>2, <4>3, <4>4, OthersKeepOrder DEF Ordered
      <3> QED  BY <3>2, <3>3
    <2> QED  BY <2>4, <2>5
  <1> QED  BY <1>1, <1>2, <1>3, <1>4, <1>5, <1>6, <1>7, <1>8 DEF Stream

-----------------------------------------------------------------------------
THEOREM OrderInvariance == BusSpec => []OrderInv
  <1>1. BusInit => OrderInv
    <2> SUFFICES ASSUME BusInit PROVE OrderInv
      OBVIOUS
    <2>1. yielded \in [Clients -> Seq(Nat)]
      BY EmptySeq DEF BusInit
    <2>2. ASSUME NEW c \in Clients PROVE Ordered(c)
      <3>1. /\ log = <<>> /\ todo[c] = <<>> /\ queue[c] = <<>> /\ yielded[c] = <<>> /\ seen[c] = {}
            /\ DOMAIN <<>> = {} /\ link[c] \in {"direct", "off"}
        BY DEF BusInit
      <3>2. ~Over
        BY <3>1 DEF Over
      <3> QED  BY <3>1, <3>2 DEF Ordered, ReplaysOn, QueuesRows, InOrder, SeesAll, Rises, Ends, Subscribed
    <2> QED  BY <2>1, <2>2 DEF OrderInv
  <1>2. BusInv /\ BusInv' /\ TerminalIsLast /\ OrderInv /\ [BusNext]_busVars => OrderInv'
    <2> SUFFICES ASSUME BusInv, BusInv', TerminalIsLast, OrderInv, [BusNext]_busVars PROVE OrderInv'
      OBVIOUS
    <2>1. CASE UNCHANGED busVars
      <3>1. \A c \in Clients : Still(c) /\ UNCHANGED yielded
        BY <2>1 DEF busVars, subscription, view, Still
      <3> QED  BY <2>1, <3>1, StaysOrdered DEF OrderInv, busVars, subscription
    <2> QED  BY <2>1, ProduceKeepsOrder, ConvergeKeepsOrder, ConnectionKeepsOrder DEF BusNext
  <1> QED  BY <1>1, <1>2, BusInvariance, TerminalIsLastHolds, PTL DEF BusSpec

\* A subscription yields the rows of the log in order and each at most once,
\* whatever its replays and its queue have in common (seen_sequences).
THEOREM YieldsInOrderHolds == BusSpec => []YieldsInOrder
  <1>1. OrderInv => YieldsInOrder
    BY DEF OrderInv, Ordered, Rises, YieldsInOrder
  <1> QED  BY <1>1, OrderInvariance, PTL

\* A subscription that ends without a terminal event ends at a cursor that is
\* past the terminal (ensure_terminal and the last replay).
THEOREM CleanEofHolds == BusSpec => CleanEof
  <1>1. BusInv /\ OrderInv /\ [BusNext]_busVars
        => [\A c \in Clients : LastReplayEnds(c) => Over /\ cursor[c] = Len(log)]_busVars
    <2> SUFFICES ASSUME BusInv, OrderInv, NEW c \in Clients, LastReplayEnds(c)
                 PROVE  Over /\ cursor[c] = Len(log)
      OBVIOUS
    <2>1. link[c] = "last" /\ todo[c] = <<>> /\ c \in Subscribed /\ Len(<<>>) = 0
      BY DEF LastReplayEnds, Subscribed
    <2>2. Over /\ latest[c] + 0 = Len(log)
      BY <2>1 DEF OrderInv, Ordered, Ends
    <2>3. latest[c] = Len(log)
      BY <2>2, SeqsInLog
    <2> QED  BY <2>1, <2>2, <2>3 DEF OrderInv, Ordered, Ends
  <1> QED  BY <1>1, BusInvariance, OrderInvariance, PTL DEF BusSpec, CleanEof
-----------------------------------------------------------------------------
(* The text of a segment.                                                  *)

RowOf(n, type, s) == log[n].type = type /\ log[n].seg = s

\* The rows of a segment: the start comes first and the end last, and chunks by
\* their numbers.
RowsInLine == \A i, j \in DOMAIN log :
    i < j /\ log[i].seg = log[j].seg /\ log[j].type # "terminal" =>
        /\ log[j].type # "start" /\ log[i].type # "end"
        /\ log[i].type = "chunk" /\ log[j].type = "chunk" => log[i].part < log[j].part

ChunksAreRows ==
    /\ \A i \in DOMAIN log : log[i].type = "chunk" =>
          log[i].seg \in TextSegments /\ log[i].part <= sent[log[i].seg]
    /\ \A t \in TextSegments : \A m \in 1 .. sent[t] :
          \E i \in DOMAIN log : log[i].type = "chunk" /\ log[i].seg = t /\ log[i].part = m

\* The chunks that are no rows are summed up before the end of their segment.
SummedUp ==
    /\ \A i \in DOMAIN log : log[i].type = "aggregate" =>
          /\ log[i].seg \notin TextSegments /\ log[i].part = sent[log[i].seg]
          /\ i + 1 \in DOMAIN log /\ RowOf(i + 1, "end", log[i].seg)
    /\ \A i \in DOMAIN log : log[i].type = "end" =>
          \/ log[i].seg \in TextSegments \/ sent[log[i].seg] = 0
          \/ i - 1 \in DOMAIN log /\ RowOf(i - 1, "aggregate", log[i].seg)

Staged ==
    /\ \A i \in DOMAIN log : log[i].type # "terminal" => stage[log[i].seg] # "new"
    /\ \A i \in DOMAIN log : log[i].type \in {"aggregate", "end"} => stage[log[i].seg] = "done"

Buffered ==
    /\ \A s \in Segments : stage[s] = "new" => sent[s] = 0
    /\ \A s \in Segments : s \in TextSegments => buffer[s] = 0
    /\ \A s \in Segments \ TextSegments : driver = "on" /\ stage[s] = "open" => buffer[s] = sent[s]
    /\ driver = "parked" => \A s \in Segments : stage[s] # "open"

LogText == RowsInLine /\ ChunksAreRows /\ SummedUp /\ Staged /\ Buffered

\* The number of chunks of s that c shows.
Shown(c, s) == Len(content[c][s])

\* What a client shows is decided by its cursor, but for the chunks that are no
\* rows: it shows all of them behind their aggregate and none before the start.
Shows(c) ==
    /\ \A s \in Segments : Shown(c, s) <= sent[s] /\ content[c][s] = Whole(Shown(c, s))
    /\ \A n \in DOMAIN log : log[n].type = "chunk" => (n <= cursor[c] <=> log[n].part <= Shown(c, log[n].seg))
    /\ \A n \in DOMAIN log : log[n].type = "start" /\ n > cursor[c] => Shown(c, log[n].seg) = 0
    /\ \A n \in DOMAIN log : log[n].type \in {"aggregate", "end"} /\ n <= cursor[c] =>
          Shown(c, log[n].seg) = sent[log[n].seg]

\* The rows up to n that c has not been given are aggregates of what it shows.
PassedUpTo(c, n) == \A k \in cursor[c] + 1 .. n :
    log[k].type = "aggregate" /\ Shown(c, log[k].seg) = sent[log[k].seg]

Passes(c) == c \in Subscribed =>
    /\ cursor[c] <= latest[c] /\ PassedUpTo(c, latest[c])
    /\ raw[c] \cap (replayed[c] \cup required[c]) = {}
    /\ raw[c] # {} => link[c] = "live" /\ todo[c] = <<>>
    /\ link[c] \notin {"registered", "live"} => required[c] = {}

\* The rows and the live chunks of a segment are queued in their order.
InLine(c) ==
    /\ \A i \in DOMAIN queue[c] : Live(queue[c][i]) =>
          /\ queue[c][i].type = "chunk" /\ queue[c][i].seg \in Segments \ TextSegments
          /\ queue[c][i].part \in 1 .. sent[queue[c][i].seg]
    /\ \A i, j \in DOMAIN queue[c] : i < j /\ queue[c][i].seg = queue[c][j].seg =>
          /\ Live(queue[c][i]) => queue[c][j].type # "start"
          /\ Live(queue[c][j]) => queue[c][i].type \notin {"aggregate", "end"}
          /\ Live(queue[c][i]) /\ Live(queue[c][j]) => queue[c][i].part < queue[c][j].part

\* The rows behind From(c) reach c by its queue.
From(c) ==
    CASE link[c] = "registered" -> Len(log)
      [] link[c] = "live" -> latest[c] + Len(todo[c])
      [] OTHER -> cursor[c]

Attached == {c \in Clients : link[c] \in {"direct", "draining", "registered", "live"}}
Queued(c, n) == \E i \in DOMAIN queue[c] : queue[c][i].seq = n

\* The direct stream is not given the aggregates.
Reached(c, n) == Queued(c, n) \/ (link[c] \in {"direct", "draining"} /\ log[n].type = "aggregate")

Gapless(c) == c \in Attached =>
    /\ \A i \in DOMAIN queue[c] : \A n \in From(c) + 1 .. queue[c][i].seq - 1 : Reached(c, n)
    /\ link[c] # "draining" => \A n \in From(c) + 1 .. Len(log) : log[n].type = "terminal" \/ Reached(c, n)
    /\ \A i \in DOMAIN queue[c] : Live(queue[c][i]) =>
          \A n \in DOMAIN log : RowOf(n, "start", queue[c][i].seg) => n <= From(c) \/ Queued(c, n)
    /\ link[c] \in {"registered", "live"} => c \in registered \/ Over

\* The chunks of s are shown as they come.
ShowsLive(c, s) ==
    \/ link[c] \in {"direct", "draining"}
    \/ s \notin replayed[c] \cup required[c] /\ \A n \in latest[c] + 1 .. From(c) : ~RowOf(n, "aggregate", s)

Coming(c, s, m) == \E i \in DOMAIN queue[c] :
    Live(queue[c][i]) /\ queue[c][i].seg = s /\ queue[c][i].part = m
ComingUpTo(c, s, n) == \A m \in Shown(c, s) + 1 .. n : Coming(c, s, m)

Hears(c, s) == c \in Attached /\ ShowsLive(c, s) =>
    /\ \A i \in DOMAIN queue[c] : Live(queue[c][i]) /\ queue[c][i].seg = s =>
          queue[c][i].part > Shown(c, s) /\ ComingUpTo(c, s, queue[c][i].part - 1)
    /\ \A i \in DOMAIN queue[c] : queue[c][i].type \in {"aggregate", "end"} /\ queue[c][i].seg = s =>
          ComingUpTo(c, s, sent[s])
    /\ driver = "on" /\ stage[s] = "open" /\ link[c] # "draining" => ComingUpTo(c, s, sent[s])

Told(c) == Shows(c) /\ Passes(c) /\ InLine(c) /\ Gapless(c) /\ \A s \in Segments \ TextSegments : Hears(c, s)
TextInv == LogText /\ \A c \in Clients : Told(c)
-----------------------------------------------------------------------------
(* The rows of the log.                                                    *)

\* What the log was before still is.
Extends ==
    /\ Len(log') \in Nat /\ Len(log') >= Len(log) /\ DOMAIN log' = 1 .. Len(log')
    /\ \A i \in 1 .. Len(log) : log'[i] = log[i]

LEMMA LogFacts ==
    ASSUME BusInv
    PROVE  /\ Len(log) \in Nat /\ DOMAIN log = 1 .. Len(log)
           /\ \A i \in 1 .. Len(log) : log[i] \in Events /\ log[i].part \in Nat /\ (log[i].type # "terminal" => log[i].seg \in Segments)
           /\ sent \in [Segments -> Nat] /\ buffer \in [Segments -> Nat] /\ \A s \in Segments : buffer[s] <= sent[s]
           /\ stage \in [Segments -> {"new", "open", "done"}]
  <1>0. \A e \in Events : e.part \in Nat
    BY EventBusAssumption DEF Events
  <1>1. \A i \in DOMAIN log : log[i] \in Events /\ log[i].part \in Nat /\ (log[i].type # "terminal" => log[i].seg \in Segments)
    BY <1>0 DEF BusInv, LogInv, Known, WellFormed
  <1>2. DOMAIN log = 1 .. Len(log) /\ Len(log) \in Nat
    BY DEF BusInv, LogInv
  <1>3. sent \in [Segments -> Nat] /\ buffer \in [Segments -> Nat]
    BY EventBusAssumption DEF BusInv, ProducerInv
  <1> QED  BY <1>1, <1>2, <1>3 DEF BusInv, ProducerInv

\* One row for a segment that is not at its end is added, and sent follows.
RowAdded(s, r) ==
    /\ r.type = log'[Len(log')].type /\ r.seg = log'[Len(log')].seg /\ r.part = log'[Len(log')].part
    /\ r.seg = s
    /\ \/ r.type = "start" /\ stage[s] = "new" /\ stage' = [stage EXCEPT ![s] = "open"] /\ UNCHANGED sent
       \/ r.type = "chunk" /\ s \in TextSegments /\ stage[s] = "open" /\ UNCHANGED stage
          /\ r.part = sent[s] + 1 /\ sent' = [sent EXCEPT ![s] = @ + 1]

LEMMA RowKeepsLog ==
    ASSUME BusInv, ~Over, LogText, Extends, Len(log') = Len(log) + 1,
           NEW s \in Segments, NEW r, RowAdded(s, r)
    PROVE  RowsInLine' /\ ChunksAreRows' /\ SummedUp' /\ Staged'
  <1> DEFINE L == Len(log)
  <1>z. /\ L \in Nat /\ DOMAIN log = 1 .. L /\ DOMAIN log' = 1 .. L + 1
        /\ \A i \in 1 .. L : log'[i] = log[i]
    BY LogFacts DEF Extends
  <1>y. /\ \A i \in 1 .. L : log[i].type # "terminal" /\ log[i].seg \in Segments
        /\ \A i \in 1 .. L : log[i].part \in Nat
    BY <1>z, LogFacts DEF Over
  <1>x. /\ log'[L + 1].type = r.type /\ log'[L + 1].seg = s /\ log'[L + 1].part = r.part
    BY <1>z DEF RowAdded
  <1>w. sent \in [Segments -> Nat] /\ stage \in [Segments -> {"new", "open", "done"}]
    BY LogFacts
  <1>v. /\ sent'[s] \in Nat /\ sent[s] \in Nat /\ sent'[s] >= sent[s] /\ stage'[s] = "open"
        /\ \A t \in Segments : t # s => sent'[t] = sent[t] /\ stage'[t] = stage[t]
        /\ r.type \in {"start", "chunk"}
        /\ r.type = "start" => stage[s] = "new" /\ sent'[s] = sent[s]
        /\ r.type = "chunk" => s \in TextSegments /\ stage[s] = "open" /\ r.part = sent[s] + 1 /\ sent'[s] = r.part
    BY <1>w DEF RowAdded
  <1> HIDE DEF L
  <1>u. /\ L + 1 \in 1 .. L + 1 /\ L + 1 \notin 1 .. L
        /\ \A i \in 1 .. L : i \in 1 .. L + 1 /\ i # L + 1
        /\ \A i \in 1 .. L + 1 : i \in 1 .. L \/ i = L + 1
    BY <1>z
  <1>0. /\ L \in Nat /\ DOMAIN log = 1 .. L /\ DOMAIN log' = 1 .. L + 1 /\ L + 1 \in 1 .. L + 1 /\ L + 1 \notin 1 .. L
        /\ \A i \in 1 .. L : log'[i] = log[i] /\ i \in 1 .. L + 1 /\ i # L + 1
        /\ \A i \in 1 .. L : log[i].part \in Nat
        /\ \A i \in 1 .. L + 1 : i \in 1 .. L \/ i = L + 1
        /\ log'[L + 1].type = r.type /\ log'[L + 1].seg = s /\ log'[L + 1].part = r.part
        /\ \A i \in 1 .. L : log[i].type # "terminal" /\ log[i].seg \in Segments
    BY <1>z, <1>y, <1>x, <1>u
  <1>1. \A i \in 1 .. L : log[i].seg = s =>
            r.type = "chunk" /\ log[i].type \notin {"aggregate", "end"}
            /\ (log[i].type = "chunk" => log[i].part <= sent[s])
    <2> SUFFICES ASSUME NEW i \in 1 .. L, log[i].seg = s
                 PROVE  r.type = "chunk" /\ log[i].type \notin {"aggregate", "end"}
                        /\ (log[i].type = "chunk" => log[i].part <= sent[s])
      OBVIOUS
    <2>1. stage[s] # "new" /\ (log[i].type \in {"aggregate", "end"} => stage[s] = "done")
      BY <1>0 DEF LogText, Staged
    <2>2. log[i].type = "chunk" => log[i].part <= sent[s]
      BY <1>0 DEF LogText, ChunksAreRows
    <2> QED  BY <1>v, <2>1, <2>2
  <1>2. RowsInLine'
    <2> SUFFICES ASSUME NEW i \in 1 .. L + 1, NEW j \in 1 .. L + 1, i < j, log'[i].seg = log'[j].seg
                 PROVE  /\ log'[j].type # "start" /\ log'[i].type # "end"
                        /\ log'[i].type = "chunk" /\ log'[j].type = "chunk" => log'[i].part < log'[j].part
      BY <1>0 DEF RowsInLine
    <2>1. i \in 1 .. L
      BY <1>0
    <2>2. CASE j \in 1 .. L
      BY <1>0, <2>1, <2>2 DEF LogText, RowsInLine
    <2>3. CASE j = L + 1
      <3>1. log[i].seg = s /\ log'[i] = log[i]
        BY <1>0, <2>1, <2>3
      <3>2. log[i].type = "chunk" => log[i].part < r.part
        BY <1>0, <1>1, <1>v, <2>1, <3>1
      <3> QED  BY <1>0, <1>1, <1>v, <2>1, <2>3, <3>1, <3>2
    <2> QED  BY <1>0, <2>2, <2>3
  <1>3. \A t \in Segments : t # s => sent'[t] = sent[t] /\ stage'[t] = stage[t]
    BY <1>v
  <1>4. sent'[s] >= sent[s] /\ sent[s] \in Nat /\ sent'[s] \in Nat /\ stage'[s] = "open"
        /\ (r.type = "chunk" => sent'[s] = r.part /\ s \in TextSegments)
        /\ (r.type # "chunk" => sent'[s] = sent[s])
    BY <1>v
  <1>5. ChunksAreRows'
    <2>1. ASSUME NEW i \in 1 .. L + 1, log'[i].type = "chunk"
          PROVE  log'[i].seg \in TextSegments /\ log'[i].part <= sent'[log'[i].seg]
      <3>1. CASE i \in 1 .. L
        <4>1. log[i].seg \in TextSegments /\ log[i].part <= sent[log[i].seg] /\ log[i].part \in Nat
              /\ log[i].seg \in Segments
          BY <1>0, <2>1, <3>1 DEF LogText, ChunksAreRows
        <4> QED  BY <1>0, <1>3, <1>4, <3>1, <4>1
      <3>2. CASE i = L + 1
        BY <1>0, <1>4, <2>1, <3>2
      <3> QED  BY <1>0, <3>1, <3>2
    <2>2. ASSUME NEW t \in TextSegments, NEW m \in 1 .. sent'[t]
          PROVE  \E i \in 1 .. L + 1 : log'[i].type = "chunk" /\ log'[i].seg = t /\ log'[i].part = m
      <3>0. t \in Segments
        BY EventBusAssumption
      <3>1. CASE m \in 1 .. sent[t]
        <4>1. PICK i \in DOMAIN log : log[i].type = "chunk" /\ log[i].seg = t /\ log[i].part = m
          BY <3>1 DEF LogText, ChunksAreRows
        <4> QED  BY <1>0, <4>1
      <3>2. CASE m \notin 1 .. sent[t]
        <4>1. t = s /\ r.type = "chunk" /\ m = r.part
          BY <1>v, <2>2, <3>0, <3>2
        <4> QED  BY <1>0, <4>1
      <3> QED  BY <3>1, <3>2
    <2>3. \A i \in DOMAIN log' : log'[i].type = "chunk" => log'[i].seg \in TextSegments /\ log'[i].part <= sent'[log'[i].seg]
      BY <1>0, <2>1
    <2>4. \A t \in TextSegments : \A m \in 1 .. sent'[t] :
             \E i \in DOMAIN log' : log'[i].type = "chunk" /\ log'[i].seg = t /\ log'[i].part = m
      BY <1>0, <2>2
    <2> QED  BY <2>3, <2>4 DEF ChunksAreRows
  <1>6. \A i \in 1 .. L + 1 : log'[i].type \in {"aggregate", "end"} =>
            i \in 1 .. L /\ log'[i] = log[i] /\ log[i].seg # s /\ log[i].seg \in Segments
            /\ sent'[log[i].seg] = sent[log[i].seg] /\ stage'[log[i].seg] = "done"
    <2> SUFFICES ASSUME NEW i \in 1 .. L + 1, log'[i].type \in {"aggregate", "end"}
                 PROVE  i \in 1 .. L /\ log'[i] = log[i] /\ log[i].seg # s /\ log[i].seg \in Segments
                        /\ sent'[log[i].seg] = sent[log[i].seg] /\ stage'[log[i].seg] = "done"
      OBVIOUS
    <2>1. i \in 1 .. L
      BY <1>0, <1>v
    <2>2. log[i].seg # s /\ log[i].seg \in Segments /\ stage[log[i].seg] = "done"
      BY <1>0, <1>1, <2>1 DEF LogText, Staged
    <2> QED  BY <1>0, <1>3, <2>1, <2>2
  <1>7. SummedUp'
    <2>1. ASSUME NEW i \in 1 .. L + 1, log'[i].type = "aggregate"
          PROVE  /\ log'[i].seg \notin TextSegments /\ log'[i].part = sent'[log'[i].seg]
                 /\ i + 1 \in 1 .. L + 1 /\ log'[i + 1].type = "end" /\ log'[i + 1].seg = log'[i].seg
      <3>1. i \in 1 .. L /\ log'[i] = log[i] /\ sent'[log[i].seg] = sent[log[i].seg]
        BY <1>6, <2>1
      <3>2. i \in DOMAIN log /\ log[i].type = "aggregate" /\ SummedUp
        BY <1>0, <2>1, <3>1 DEF LogText
      <3>3. /\ log[i].seg \notin TextSegments /\ log[i].part = sent[log[i].seg]
            /\ i + 1 \in 1 .. L /\ log[i + 1].type = "end" /\ log[i + 1].seg = log[i].seg
        BY <1>0, <3>2 DEF SummedUp, RowOf
      <3> QED  BY <1>0, <3>1, <3>3
    <2>2. ASSUME NEW i \in 1 .. L + 1, log'[i].type = "end"
          PROVE  \/ log'[i].seg \in TextSegments \/ sent'[log'[i].seg] = 0
                 \/ i - 1 \in 1 .. L + 1 /\ log'[i - 1].type = "aggregate" /\ log'[i - 1].seg = log'[i].seg
      <3>1. i \in 1 .. L /\ log'[i] = log[i] /\ sent'[log[i].seg] = sent[log[i].seg]
        BY <1>6, <2>2
      <3>2. \/ log[i].seg \in TextSegments \/ sent[log[i].seg] = 0
            \/ i - 1 \in 1 .. L /\ log[i - 1].type = "aggregate" /\ log[i - 1].seg = log[i].seg
        BY <1>0, <2>2, <3>1 DEF LogText, SummedUp, RowOf
      <3> QED  BY <1>0, <3>1, <3>2
    <2> QED  BY <1>0, <2>1, <2>2 DEF SummedUp, RowOf
  <1>8. Staged'
    <2>1. \A i \in 1 .. L + 1 : stage'[log'[i].seg] # "new"
      <3> TAKE i \in 1 .. L + 1
      <3>1. CASE i = L + 1
        BY <1>0, <1>4, <3>1
      <3>2. CASE i \in 1 .. L
        <4>1. log[i].seg \in Segments /\ stage[log[i].seg] # "new"
          BY <1>0, <3>2 DEF LogText, Staged
        <4> QED  BY <1>0, <1>3, <1>4, <3>2, <4>1
      <3> QED  BY <1>0, <3>1, <3>2
    <2> QED  BY <1>0, <1>6, <2>1 DEF Staged
  <1> QED  BY <1>2, <1>5, <1>7, <1>8

\* The end of a segment is added, behind the aggregate of its chunks.
ClosingAdded(s) ==
    /\ stage[s] = "open" /\ stage' = [stage EXCEPT ![s] = "done"] /\ UNCHANGED sent
    /\ log'[Len(log')].type = "end" /\ log'[Len(log')].seg = s
    /\ \/ Len(log') = Len(log) + 1 /\ (s \in TextSegments \/ sent[s] = 0)
       \/ /\ Len(log') = Len(log) + 2 /\ s \notin TextSegments
          /\ log'[Len(log) + 1].type = "aggregate" /\ log'[Len(log) + 1].seg = s
          /\ log'[Len(log) + 1].part = sent[s]

LEMMA ClosingKeepsLog ==
    ASSUME BusInv, ~Over, LogText, Extends, NEW s \in Segments, ClosingAdded(s)
    PROVE  RowsInLine' /\ ChunksAreRows' /\ SummedUp' /\ Staged'
  <1> DEFINE L == Len(log)
             M == Len(log')
  <1>z. /\ L \in Nat /\ M \in Nat /\ DOMAIN log = 1 .. L /\ DOMAIN log' = 1 .. M
        /\ \A i \in 1 .. L : log'[i] = log[i]
    BY LogFacts DEF Extends
  <1>y. \A i \in 1 .. L : log[i].type # "terminal" /\ log[i].seg \in Segments
    BY <1>z, LogFacts DEF Over
  <1>w. sent' = sent /\ sent \in [Segments -> Nat] /\ stage \in [Segments -> {"new", "open", "done"}]
    BY LogFacts DEF ClosingAdded
  <1>v. stage[s] = "open" /\ stage'[s] = "done" /\ \A t \in Segments : t # s => stage'[t] = stage[t]
    BY <1>w DEF ClosingAdded
  <1>x. /\ M = L + 1 \/ M = L + 2
        /\ log'[M].type = "end" /\ log'[M].seg = s
        /\ M = L + 1 => s \in TextSegments \/ sent[s] = 0
        /\ M = L + 2 => s \notin TextSegments /\ log'[L + 1].type = "aggregate" /\ log'[L + 1].seg = s
                        /\ log'[L + 1].part = sent[s]
    <2>1. log'[M].type = "end" /\ log'[M].seg = s
      BY DEF ClosingAdded
    <2>2. CASE M = L + 1 /\ (s \in TextSegments \/ sent[s] = 0)
      <3>1. M # L + 2
        BY <1>z, <2>2
      <3> HIDE DEF L, M
      <3> QED  BY <2>1, <2>2, <3>1
    <2>3. CASE /\ M = L + 2 /\ s \notin TextSegments
               /\ log'[L + 1].type = "aggregate" /\ log'[L + 1].seg = s /\ log'[L + 1].part = sent[s]
      <3>1. M # L + 1
        BY <1>z, <2>3
      <3> HIDE DEF L, M
      <3> QED  BY <2>1, <2>3, <3>1
    <2> QED  BY <2>2, <2>3 DEF ClosingAdded
  <1> HIDE DEF L, M
  <1>u. /\ \A i \in 1 .. L : i \in 1 .. M /\ i # M /\ i <= L
        /\ \A i \in 1 .. M : i \in 1 .. L \/ i = M \/ (M = L + 2 /\ i = L + 1)
        /\ M \in 1 .. M /\ M \notin 1 .. L /\ (M = L + 2 => L + 1 \in 1 .. M /\ M - 1 = L + 1 /\ (L + 1) + 1 = M)
    <2>0. L \in Nat /\ M \in Nat /\ (M = L + 1 \/ M = L + 2)
      BY <1>z, <1>x
    <2>1. CASE M = L + 1
      BY <2>0, <2>1
    <2>2. CASE M = L + 2
      BY <2>0, <2>2
    <2> QED  BY <2>0, <2>1, <2>2
  <1>t. \A i \in 1 .. L : log[i].seg = s => log[i].type \notin {"aggregate", "end"}
    BY <1>v, <1>y, <1>z DEF LogText, Staged
  <1>n. \A i \in 1 .. M : i \notin 1 .. L =>
            log'[i].seg = s /\ log'[i].type \in {"aggregate", "end"}
            /\ (log'[i].type = "end" => i = M) /\ (log'[i].type = "aggregate" => M = L + 2 /\ i = L + 1)
    <2> SUFFICES ASSUME NEW i \in 1 .. M, i \notin 1 .. L
                 PROVE  log'[i].seg = s /\ log'[i].type \in {"aggregate", "end"}
                        /\ (log'[i].type = "end" => i = M) /\ (log'[i].type = "aggregate" => M = L + 2 /\ i = L + 1)
      OBVIOUS
    <2>1. CASE i = M
      BY <1>x, <2>1
    <2>2. CASE M = L + 2 /\ i = L + 1
      BY <1>x, <2>2
    <2> QED  BY <1>u, <2>1, <2>2
  <1>2. RowsInLine'
    <2> SUFFICES ASSUME NEW i \in 1 .. M, NEW j \in 1 .. M, i < j, log'[i].seg = log'[j].seg
                 PROVE  /\ log'[j].type # "start" /\ log'[i].type # "end"
                        /\ log'[i].type = "chunk" /\ log'[j].type = "chunk" => log'[i].part < log'[j].part
      BY <1>z DEF RowsInLine
    <2>1. CASE j \in 1 .. L
      <3>1. i \in 1 .. L
        BY <1>z, <2>1
      <3> QED  BY <1>z, <1>y, <2>1, <3>1 DEF LogText, RowsInLine
    <2>2. CASE j \notin 1 .. L
      <3>1. log'[j].type \in {"aggregate", "end"} /\ log'[j].seg = s
        BY <1>n, <2>2
      <3>2. i # M
        BY <1>z
      <3>3. log'[i].type # "end"
        <4>1. CASE i \in 1 .. L
          BY <1>t, <1>z, <3>1, <4>1
        <4>2. CASE i \notin 1 .. L
          BY <1>n, <3>2, <4>2
        <4> QED  BY <4>1, <4>2
      <3> QED  BY <3>1, <3>3
    <2> QED  BY <2>1, <2>2
  <1>3. ChunksAreRows'
    <2>1. ASSUME NEW i \in 1 .. M, log'[i].type = "chunk"
          PROVE  log'[i].seg \in TextSegments /\ log'[i].part <= sent[log'[i].seg]
      <3>1. i \in 1 .. L
        BY <1>n, <2>1
      <3> QED  BY <1>z, <2>1, <3>1 DEF LogText, ChunksAreRows
    <2>2. ASSUME NEW t \in TextSegments, NEW m \in 1 .. sent[t]
          PROVE  \E i \in 1 .. M : log'[i].type = "chunk" /\ log'[i].seg = t /\ log'[i].part = m
      <3>1. PICK i \in DOMAIN log : log[i].type = "chunk" /\ log[i].seg = t /\ log[i].part = m
        BY DEF LogText, ChunksAreRows
      <3> QED  BY <1>z, <1>u, <3>1
    <2> QED  BY <1>z, <1>w, <2>1, <2>2 DEF ChunksAreRows
  <1>4. SummedUp'
    <2>1. ASSUME NEW i \in 1 .. M, log'[i].type = "aggregate"
          PROVE  /\ log'[i].seg \notin TextSegments /\ log'[i].part = sent[log'[i].seg]
                 /\ i + 1 \in 1 .. M /\ log'[i + 1].type = "end" /\ log'[i + 1].seg = log'[i].seg
      <3>1. CASE i \in 1 .. L
        <4>1. i \in DOMAIN log /\ log[i].type = "aggregate" /\ SummedUp
          BY <1>z, <2>1, <3>1 DEF LogText
        <4>2. /\ log[i].seg \notin TextSegments /\ log[i].part = sent[log[i].seg]
              /\ i + 1 \in 1 .. L /\ log[i + 1].type = "end" /\ log[i + 1].seg = log[i].seg
          BY <1>z, <4>1 DEF SummedUp, RowOf
        <4> QED  BY <1>z, <1>u, <3>1, <4>2
      <3>2. CASE i \notin 1 .. L
        <4>1. M = L + 2 /\ i = L + 1
          BY <1>n, <2>1, <3>2
        <4> QED  BY <1>x, <1>u, <4>1
      <3> QED  BY <3>1, <3>2
    <2>2. ASSUME NEW i \in 1 .. M, log'[i].type = "end"
          PROVE  \/ log'[i].seg \in TextSegments \/ sent[log'[i].seg] = 0
                 \/ i - 1 \in 1 .. M /\ log'[i - 1].type = "aggregate" /\ log'[i - 1].seg = log'[i].seg
      <3>1. CASE i \in 1 .. L
        <4>1. i \in DOMAIN log /\ log[i].type = "end" /\ SummedUp
          BY <1>z, <2>2, <3>1 DEF LogText
        <4>2. \/ log[i].seg \in TextSegments \/ sent[log[i].seg] = 0
              \/ i - 1 \in 1 .. L /\ log[i - 1].type = "aggregate" /\ log[i - 1].seg = log[i].seg
          BY <1>z, <4>1 DEF SummedUp, RowOf
        <4> QED  BY <1>z, <1>u, <3>1, <4>2
      <3>2. CASE i \notin 1 .. L
        <4>1. i = M
          BY <1>n, <2>2, <3>2
        <4> QED  BY <1>x, <1>u, <4>1
      <3> QED  BY <3>1, <3>2
    <2> QED  BY <1>z, <1>w, <2>1, <2>2 DEF SummedUp, RowOf
  <1>5. Staged'
    <2>1. ASSUME NEW i \in 1 .. M PROVE stage'[log'[i].seg] # "new" /\ log'[i].seg \in Segments
                                        /\ (log'[i].type \in {"aggregate", "end"} => stage'[log'[i].seg] = "done")
      <3>1. CASE i \in 1 .. L
        <4>1. /\ log[i].seg \in Segments /\ stage[log[i].seg] # "new" /\ log'[i] = log[i]
              /\ log[i].type \in {"aggregate", "end"} => stage[log[i].seg] = "done"
          BY <1>z, <1>y, <3>1 DEF LogText, Staged
        <4> QED  BY <1>v, <4>1
      <3>2. CASE i \notin 1 .. L
        BY <1>n, <1>v, <3>2
      <3> QED  BY <3>1, <3>2
    <2> QED  BY <1>z, <2>1 DEF Staged
  <1> QED  BY <1>2, <1>3, <1>4, <1>5

\* The terminal is added.
LEMMA TerminalKeepsLog ==
    ASSUME BusInv, ~Over, LogText, Extends, UNCHANGED <<sent, stage>>,
           Len(log') = Len(log) + 1, log'[Len(log')].type = "terminal"
    PROVE  RowsInLine' /\ ChunksAreRows' /\ SummedUp' /\ Staged'
  <1> DEFINE L == Len(log)
  <1>z. /\ L \in Nat /\ DOMAIN log = 1 .. L /\ DOMAIN log' = 1 .. L + 1 /\ log'[L + 1].type = "terminal"
        /\ \A i \in 1 .. L : log'[i] = log[i]
    BY LogFacts DEF Extends
  <1>y. \A i \in 1 .. L : log[i].type # "terminal"
    BY <1>z, LogFacts DEF Over
  <1> HIDE DEF L
  <1>u. /\ L + 1 \in 1 .. L + 1 /\ L + 1 \notin 1 .. L
        /\ \A i \in 1 .. L : i \in 1 .. L + 1 /\ i # L + 1
        /\ \A i \in 1 .. L + 1 : i \in 1 .. L \/ i = L + 1
    BY <1>z
  <1>n. \A i \in 1 .. L + 1 : log'[i].type # "terminal" => i \in 1 .. L /\ log'[i] = log[i]
    BY <1>z, <1>u
  <1>2. RowsInLine'
    <2> SUFFICES ASSUME NEW i \in 1 .. L + 1, NEW j \in 1 .. L + 1, i < j, log'[i].seg = log'[j].seg,
                        log'[j].type # "terminal"
                 PROVE  /\ log'[j].type # "start" /\ log'[i].type # "end"
                        /\ log'[i].type = "chunk" /\ log'[j].type = "chunk" => log'[i].part < log'[j].part
      BY <1>z DEF RowsInLine
    <2>1. j \in 1 .. L /\ i \in 1 .. L
      BY <1>n, <1>z
    <2> QED  BY <1>z, <1>y, <2>1 DEF LogText, RowsInLine
  <1>3. ChunksAreRows'
    <2>1. ASSUME NEW i \in 1 .. L + 1, log'[i].type = "chunk"
          PROVE  log'[i].seg \in TextSegments /\ log'[i].part <= sent[log'[i].seg]
      BY <1>n, <1>z, <2>1 DEF LogText, ChunksAreRows
    <2>2. ASSUME NEW t \in TextSegments, NEW m \in 1 .. sent[t]
          PROVE  \E i \in 1 .. L + 1 : log'[i].type = "chunk" /\ log'[i].seg = t /\ log'[i].part = m
      <3>1. PICK i \in DOMAIN log : log[i].type = "chunk" /\ log[i].seg = t /\ log[i].part = m
        BY DEF LogText, ChunksAreRows
      <3> QED  BY <1>z, <1>u, <3>1
    <2> QED  BY <1>z, <2>1, <2>2 DEF ChunksAreRows
  <1>4. SummedUp'
    <2>1. ASSUME NEW i \in 1 .. L + 1, log'[i].type = "aggregate"
          PROVE  /\ log'[i].seg \notin TextSegments /\ log'[i].part = sent[log'[i].seg]
                 /\ i + 1 \in 1 .. L + 1 /\ log'[i + 1].type = "end" /\ log'[i + 1].seg = log'[i].seg
      <3>1. i \in DOMAIN log /\ log'[i] = log[i] /\ SummedUp
        BY <1>n, <1>z, <2>1 DEF LogText
      <3>2. /\ log[i].seg \notin TextSegments /\ log[i].part = sent[log[i].seg]
            /\ i + 1 \in 1 .. L /\ log[i + 1].type = "end" /\ log[i + 1].seg = log[i].seg
        BY <1>z, <2>1, <3>1 DEF SummedUp, RowOf
      <3> QED  BY <1>z, <1>u, <3>1, <3>2
    <2>2. ASSUME NEW i \in 1 .. L + 1, log'[i].type = "end"
          PROVE  \/ log'[i].seg \in TextSegments \/ sent[log'[i].seg] = 0
                 \/ i - 1 \in 1 .. L + 1 /\ log'[i - 1].type = "aggregate" /\ log'[i - 1].seg = log'[i].seg
      <3>1. i \in DOMAIN log /\ log'[i] = log[i] /\ SummedUp
        BY <1>n, <1>z, <2>2 DEF LogText
      <3>2. \/ log[i].seg \in TextSegments \/ sent[log[i].seg] = 0
            \/ i - 1 \in 1 .. L /\ log[i - 1].type = "aggregate" /\ log[i - 1].seg = log[i].seg
        BY <1>z, <2>2, <3>1 DEF SummedUp, RowOf
      <3> QED  BY <1>z, <1>u, <3>1, <3>2
    <2> QED  BY <1>z, <2>1, <2>2 DEF SummedUp, RowOf
  <1>5. Staged'
    BY <1>z, <1>n DEF LogText, Staged
  <1> QED  BY <1>2, <1>3, <1>4, <1>5

\* What one row, or two, add to the log.
LEMMA OneRowMore ==
    ASSUME BusInv, NEW e \in Events, NEW D, PublishRows(<<e>>, D)
    PROVE  /\ Extends /\ Len(log') = Len(log) + 1
           /\ log'[Len(log')].type = e.type /\ log'[Len(log')].seg = e.seg /\ log'[Len(log')].part = e.part
           /\ \A c \in Clients : Handed(c, IF c \in registered \/ c \in D THEN 1 ELSE 0)
  <1>1. <<e>> \in Seq(Events) /\ <<e>> # <<>> /\ Len(<<e>>) = 1 /\ <<e>>[1] = e
    OBVIOUS
  <1> DEFINE rows == <<e>>
  <1>2. rows \in Seq(Events) /\ rows # <<>> /\ Len(rows) = 1 /\ rows[1] = e /\ PublishRows(rows, D)
    BY <1>1
  <1> HIDE DEF rows
  <1>3. /\ Len(log) \in Nat /\ Len(log') = Len(log) + 1 /\ log' \in Seq(Events)
        /\ \A i \in 1 .. Len(log) : log'[i] = log[i]
        /\ \A i \in 1 .. 1 : log'[Len(log) + i] = [rows[i] EXCEPT !.seq = Len(log) + i]
        /\ \A c \in Clients : Handed(c, IF c \in registered THEN 1 ELSE IF c \in D THEN 1 ELSE 0)
    BY <1>2, Spread
  <1>4. log'[Len(log) + 1] = [e EXCEPT !.seq = Len(log) + 1]
    BY <1>2, <1>3
  <1>5. [e EXCEPT !.seq = Len(log) + 1].type = e.type /\ [e EXCEPT !.seq = Len(log) + 1].seg = e.seg
        /\ [e EXCEPT !.seq = Len(log) + 1].part = e.part
    BY DEF Events
  <1>6. Extends
    BY <1>3 DEF Extends
  <1>7. \A c \in Clients : Handed(c, IF c \in registered \/ c \in D THEN 1 ELSE 0)
    <2> TAKE c \in Clients
    <2>1. CASE c \in registered
      BY <1>3, <2>1
    <2>2. CASE c \notin registered /\ c \in D
      BY <1>3, <2>2
    <2>3. CASE c \notin registered /\ c \notin D
      BY <1>3, <2>3
    <2> QED  BY <2>1, <2>2, <2>3
  <1> QED  BY <1>3, <1>4, <1>5, <1>6, <1>7

LEMMA TwoRowsMore ==
    ASSUME BusInv, NEW a \in Events, NEW e \in Events, NEW D, PublishRows(<<a, e>>, D)
    PROVE  /\ Extends /\ Len(log') = Len(log) + 2
           /\ log'[Len(log) + 1].type = a.type /\ log'[Len(log) + 1].seg = a.seg /\ log'[Len(log) + 1].part = a.part
           /\ log'[Len(log')].type = e.type /\ log'[Len(log')].seg = e.seg /\ log'[Len(log')].part = e.part
           /\ \A c \in Clients : Handed(c, IF c \in registered THEN 2 ELSE IF c \in D THEN 1 ELSE 0)
  <1>1. <<a, e>> \in Seq(Events) /\ <<a, e>> # <<>> /\ Len(<<a, e>>) = 2 /\ <<a, e>>[1] = a /\ <<a, e>>[2] = e
    OBVIOUS
  <1> DEFINE rows == <<a, e>>
  <1>2. rows \in Seq(Events) /\ rows # <<>> /\ Len(rows) = 2 /\ rows[1] = a /\ rows[2] = e /\ PublishRows(rows, D)
    BY <1>1
  <1> HIDE DEF rows
  <1>3. /\ Len(log) \in Nat /\ Len(log') = Len(log) + 2 /\ log' \in Seq(Events)
        /\ \A i \in 1 .. Len(log) : log'[i] = log[i]
        /\ \A i \in 1 .. 2 : log'[Len(log) + i] = [rows[i] EXCEPT !.seq = Len(log) + i]
        /\ \A c \in Clients : Handed(c, IF c \in registered THEN 2 ELSE IF c \in D THEN 1 ELSE 0)
    BY <1>2, Spread
  <1>4. log'[Len(log) + 1] = [a EXCEPT !.seq = Len(log) + 1] /\ log'[Len(log) + 2] = [e EXCEPT !.seq = Len(log) + 2]
    <2>1. 1 \in 1 .. 2 /\ 2 \in 1 .. 2
      OBVIOUS
    <2>2. log'[Len(log) + 1] = [rows[1] EXCEPT !.seq = Len(log) + 1]
      BY <1>3, <2>1
    <2>3. log'[Len(log) + 2] = [rows[2] EXCEPT !.seq = Len(log) + 2]
      BY <1>3, <2>1
    <2> QED  BY <1>2, <2>2, <2>3
  <1>5. [a EXCEPT !.seq = Len(log) + 1].type = a.type /\ [a EXCEPT !.seq = Len(log) + 1].seg = a.seg
        /\ [a EXCEPT !.seq = Len(log) + 1].part = a.part
    BY DEF Events
  <1>6. [e EXCEPT !.seq = Len(log) + 2].type = e.type /\ [e EXCEPT !.seq = Len(log) + 2].seg = e.seg
        /\ [e EXCEPT !.seq = Len(log) + 2].part = e.part
    BY DEF Events
  <1>7. Extends
    BY <1>3 DEF Extends
  <1> QED  BY <1>3, <1>4, <1>5, <1>6, <1>7

LEMMA ChunkEvent ==
    ASSUME BusInv, NEW s \in Segments, sent[s] < MaxChunks
    PROVE  LET e == Event("chunk", s, sent[s] + 1)
           IN e \in Events /\ e.seq = 0 /\ e.type = "chunk" /\ e.seg = s /\ e.part = sent[s] + 1 /\ sent[s] + 1 \in 1 .. MaxChunks
  <1>1. sent[s] \in 0 .. MaxChunks - 1
    BY EventBusAssumption DEF BusInv, ProducerInv
  <1> QED  BY <1>1, EventBusAssumption DEF Event, Events

LEMMA ClosingEvents ==
    ASSUME BusInv, NEW s \in Segments
    PROVE  LET a == Event("aggregate", s, buffer[s])
               e == Event("end", s, 0)
           IN /\ a \in Events /\ a.type = "aggregate" /\ a.seg = s /\ a.part = buffer[s]
              /\ e \in Events /\ e.type = "end" /\ e.seg = s
  BY EventBusAssumption DEF Event, Events, BusInv, ProducerInv

\* A segment ends: what is added is its closing.
LEMMA SegmentCloses ==
    ASSUME BusInv, LogText, NEW s \in Segments, EndSegment(s)
    PROVE  /\ Extends /\ ClosingAdded(s)
           /\ \A c \in Clients : Handed(c, IF c \in registered THEN Len(log') - Len(log)
                                           ELSE IF c \in Direct THEN 1 ELSE 0)
  <1> DEFINE a == Event("aggregate", s, buffer[s])
             e == Event("end", s, 0)
  <1>0. /\ a \in Events /\ a.type = "aggregate" /\ a.seg = s /\ a.part = buffer[s]
        /\ e \in Events /\ e.type = "end" /\ e.seg = s
    BY ClosingEvents
  <1>1. /\ driver = "on" /\ stage[s] = "open" /\ stage' = [stage EXCEPT ![s] = "done"] /\ UNCHANGED sent
        /\ PublishRows(IF buffer[s] = 0 THEN <<e>> ELSE <<a, e>>, Direct)
    BY DEF EndSegment
  <1>2. (s \in TextSegments => buffer[s] = 0) /\ (s \notin TextSegments => buffer[s] = sent[s])
    BY <1>1 DEF LogText, Buffered
  <1>3. Len(log) \in Nat /\ Len(log) + 1 - Len(log) = 1 /\ Len(log) + 2 - Len(log) = 2
    BY LogFacts
  <1> HIDE DEF a, e
  <1>4. CASE buffer[s] = 0
    <2>1. PublishRows(<<e>>, Direct)
      BY <1>1, <1>4
    <2>2. /\ Extends /\ Len(log') = Len(log) + 1
          /\ log'[Len(log')].type = e.type /\ log'[Len(log')].seg = e.seg
          /\ \A c \in Clients : Handed(c, IF c \in registered \/ c \in Direct THEN 1 ELSE 0)
      BY <1>0, <2>1, OneRowMore
    <2>3. ClosingAdded(s)
      BY <1>0, <1>1, <1>2, <1>4, <2>2 DEF ClosingAdded
    <2>4. \A c \in Clients : Handed(c, IF c \in registered THEN 1 ELSE IF c \in Direct THEN 1 ELSE 0)
      <3> TAKE c \in Clients
      <3>1. CASE c \in registered
        BY <2>2, <3>1
      <3>2. CASE c \notin registered /\ c \in Direct
        BY <2>2, <3>2
      <3>3. CASE c \notin registered /\ c \notin Direct
        BY <2>2, <3>3
      <3> QED  BY <3>1, <3>2, <3>3
    <2> QED  BY <1>3, <2>2, <2>3, <2>4
  <1>5. CASE buffer[s] # 0
    <2>1. PublishRows(<<a, e>>, Direct)
      BY <1>1, <1>5
    <2>2. /\ Extends /\ Len(log') = Len(log) + 2
          /\ log'[Len(log) + 1].type = a.type /\ log'[Len(log) + 1].seg = a.seg /\ log'[Len(log) + 1].part = a.part
          /\ log'[Len(log')].type = e.type /\ log'[Len(log')].seg = e.seg
          /\ \A c \in Clients : Handed(c, IF c \in registered THEN 2 ELSE IF c \in Direct THEN 1 ELSE 0)
      BY <1>0, <2>1, TwoRowsMore
    <2>3. ClosingAdded(s)
      BY <1>0, <1>1, <1>2, <1>5, <2>2 DEF ClosingAdded
    <2> QED  BY <1>3, <2>2, <2>3
  <1> QED  BY <1>4, <1>5

\* The terminal is committed by whoever closes the Round.
LEMMA RoundCloses ==
    ASSUME BusInv, NEW D, PublishRows(<<TerminalEvent>>, D)
    PROVE  /\ Extends /\ Len(log') = Len(log) + 1 /\ log'[Len(log')].type = "terminal"
           /\ \A c \in Clients : Handed(c, IF c \in registered \/ c \in D THEN 1 ELSE 0)
  <1>1. TerminalEvent.type = "terminal"
    BY DEF TerminalEvent, Event
  <1> QED  BY <1>1, TerminalRow, OneRowMore

LEMMA RoundClosesElsewhere ==
    ASSUME BusInv, log' = Append(log, [TerminalEvent EXCEPT !.seq = Len(log) + 1])
    PROVE  Extends /\ Len(log') = Len(log) + 1 /\ log'[Len(log')].type = "terminal"
  <1> DEFINE e == [TerminalEvent EXCEPT !.seq = Len(log) + 1]
  <1>1. log \in Seq(Events) /\ Len(log) \in Nat /\ e \in Events /\ e.type = "terminal"
    <2>1. log \in Seq(Events) /\ Len(log) \in Nat
      BY DEF BusInv, LogInv
    <2> QED  BY <2>1, EventBusAssumption DEF TerminalEvent, Event, Events
  <1>2. log' = Append(log, e)
    OBVIOUS
  <1> HIDE DEF e
  <1>3. /\ Len(log') = Len(log) + 1 /\ log' \in Seq(Events) /\ log'[Len(log) + 1] = e
        /\ \A i \in 1 .. Len(log) : log'[i] = log[i]
    BY <1>1, <1>2, AppendProperties
  <1>4. DOMAIN log' = 1 .. Len(log') /\ Len(log') \in Nat /\ Len(log') >= Len(log)
    BY <1>1, <1>3
  <1>5. log'[Len(log')] = e
    BY <1>3
  <1> QED  BY <1>1, <1>3, <1>4, <1>5 DEF Extends

\* The log is one that a Round can leave, whoever writes it.
LEMMA LogTextStep == ASSUME BusInv, LogText, [BusNext]_busVars PROVE LogText'
  <1> DEFINE Rows == RowsInLine' /\ ChunksAreRows' /\ SummedUp' /\ Staged'
  <1>0. ASSUME UNCHANGED <<log, stage, sent>> PROVE Rows
    BY <1>0 DEF LogText, RowsInLine, ChunksAreRows, SummedUp, RowOf, Staged
  <1>g. \A s \in Segments : buffer[s] <= sent[s] /\ buffer[s] \in Nat /\ sent[s] \in Nat
    BY LogFacts
  <1>1. ASSUME NEW s \in Segments, StartSegment(s) PROVE LogText'
    <2> DEFINE e == Event("start", s, 0)
    <2>1. e \in Events /\ e.type = "start" /\ e.seg = s
      BY EventBusAssumption DEF Event, Events
    <2>2. PublishRows(<<e>>, Direct) /\ ~Over
      BY <1>1 DEF StartSegment
    <2> HIDE DEF e
    <2>3. /\ Extends /\ Len(log') = Len(log) + 1
          /\ log'[Len(log')].type = e.type /\ log'[Len(log')].seg = e.seg /\ log'[Len(log')].part = e.part
      BY <2>1, <2>2, OneRowMore
    <2>4. RowAdded(s, e)
      BY <1>1, <2>1, <2>3 DEF RowAdded, StartSegment
    <2>5. Rows
      BY <2>2, <2>3, <2>4, RowKeepsLog
    <2>6. Buffered'
      <3>1. stage[s] = "new" /\ sent[s] = 0 /\ buffer[s] = 0
        BY <1>1, <1>g DEF StartSegment, LogText, Buffered
      <3> QED  BY <1>1, <3>1, LogFacts DEF StartSegment, LogText, Buffered
    <2> QED  BY <2>5, <2>6 DEF LogText
  <1>2. ASSUME NEW s \in Segments, Chunk(s) PROVE LogText'
    <2> DEFINE e == Event("chunk", s, sent[s] + 1)
    <2>1. e \in Events /\ e.type = "chunk" /\ e.seg = s /\ e.part = sent[s] + 1
      BY <1>2, ChunkEvent DEF Chunk
    <2>2. ~Over /\ driver = "on" /\ stage[s] = "open" /\ sent' = [sent EXCEPT ![s] = @ + 1] /\ UNCHANGED <<driver, stage>>
      BY <1>2 DEF Chunk
    <2>3. CASE s \in TextSegments
      <3>1. PublishRows(<<e>>, Direct) /\ UNCHANGED buffer
        BY <1>2, <2>3 DEF Chunk
      <3> HIDE DEF e
      <3>2. /\ Extends /\ Len(log') = Len(log) + 1
            /\ log'[Len(log')].type = e.type /\ log'[Len(log')].seg = e.seg /\ log'[Len(log')].part = e.part
        BY <2>1, <3>1, OneRowMore
      <3>3. RowAdded(s, e)
        BY <2>1, <2>2, <2>3, <3>2 DEF RowAdded
      <3>4. Rows
        BY <2>2, <3>2, <3>3, RowKeepsLog
      <3>5. Buffered'
        BY <2>2, <2>3, <3>1, LogFacts DEF LogText, Buffered
      <3> QED  BY <3>4, <3>5 DEF LogText
    <2>4. CASE s \notin TextSegments
      <3>1. UNCHANGED log /\ buffer' = [buffer EXCEPT ![s] = @ + 1]
        BY <1>2, <2>4 DEF Chunk
      <3>2. sent'[s] >= sent[s] /\ \A t \in Segments : t # s => sent'[t] = sent[t]
        BY <2>2, LogFacts
      <3>3. \A i \in DOMAIN log : log[i].type \in {"chunk", "aggregate", "end"} =>
                log[i].seg \in Segments /\ log[i].seg # s
        BY <2>2, <2>4, LogFacts DEF LogText, ChunksAreRows, Staged
      <3>4. RowsInLine' /\ Staged'
        BY <2>2, <3>1 DEF LogText, RowsInLine, Staged
      <3>5. ChunksAreRows'
        <4>1. \A t \in TextSegments : t # s /\ t \in Segments
          BY <2>4, EventBusAssumption
        <4> QED  BY <3>1, <3>2, <3>3, <4>1 DEF LogText, ChunksAreRows
      <3>6. SummedUp'
        BY <3>1, <3>2, <3>3 DEF LogText, SummedUp, RowOf
      <3>7. Buffered'
        BY <2>2, <2>4, <3>1, LogFacts DEF LogText, Buffered
      <3> QED  BY <3>4, <3>5, <3>6, <3>7 DEF LogText
    <2> QED  BY <2>3, <2>4
  <1>3. ASSUME NEW s \in Segments, EndSegment(s) PROVE LogText'
    <2>1. ~Over /\ Extends /\ ClosingAdded(s)
      BY <1>3, SegmentCloses DEF EndSegment
    <2>2. Rows
      BY <2>1, ClosingKeepsLog
    <2>3. Buffered'
      BY <1>3, LogFacts DEF EndSegment, LogText, Buffered
    <2> QED  BY <2>2, <2>3 DEF LogText
  <1>t. ASSUME ~Over, UNCHANGED <<sent, stage>>, NEW D, PublishRows(<<TerminalEvent>>, D) PROVE Rows
    BY <1>t, RoundCloses, TerminalKeepsLog
  <1>b. ASSUME UNCHANGED <<sent, stage>>, driver' \notin {"on", "parked"},
               \A s \in Segments : buffer'[s] = buffer[s] \/ buffer'[s] = 0
        PROVE  Buffered'
    BY <1>b DEF LogText, Buffered
  <1>4. ASSUME FinishStream PROVE LogText'
    BY <1>4, <1>t, <1>b DEF FinishStream, LogText
  <1>5. ASSUME Fail PROVE LogText'
    <2>1. Rows
      BY <1>5, <1>0, <1>t DEF Fail
    <2>2. \A s \in Segments : buffer'[s] = buffer[s] \/ buffer'[s] = 0
      BY <1>5, LogFacts DEF Fail
    <2>3. Buffered'
      BY <1>5, <2>2, <1>b DEF Fail
    <2> QED  BY <2>1, <2>3 DEF LogText
  <1>6. ASSUME StopDriver \/ LoseLiveness PROVE LogText'
    <2>1. Rows
      BY <1>6, <1>0 DEF StopDriver, LoseLiveness
    <2>2. Buffered'
      BY <1>6, <1>b DEF StopDriver, LoseLiveness
    <2> QED  BY <2>1, <2>2 DEF LogText
  <1>7. ASSUME Suspend \/ \E c \in Clients : Resume(c) PROVE LogText'
    <2>1. Rows
      BY <1>7, <1>0 DEF Suspend, Resume
    <2>2. Buffered'
      BY <1>7 DEF Suspend, Resume, LogText, Buffered
    <2> QED  BY <2>1, <2>2 DEF LogText
  <1>8. ASSUME AbortRound PROVE LogText'
    <2>1. Rows
      BY <1>8, <1>t DEF AbortRound, producer
    <2>2. Buffered'
      BY <1>8 DEF AbortRound, producer, LogText, Buffered
    <2> QED  BY <2>1, <2>2 DEF LogText
  <1>9. ASSUME NEW elsewhere \in BOOLEAN, RecoverRound(elsewhere) PROVE LogText'
    <2>1. ~Over /\ UNCHANGED producer
      BY <1>9 DEF RecoverRound
    <2>2. Rows
      <3>1. CASE elsewhere
        <4>1. log' = Append(log, [TerminalEvent EXCEPT !.seq = Len(log) + 1])
          BY <1>9, <3>1 DEF RecoverRound
        <4> QED  BY <2>1, <4>1, RoundClosesElsewhere, TerminalKeepsLog DEF producer
      <3>2. CASE ~elsewhere
        BY <1>9, <2>1, <3>2, <1>t DEF RecoverRound, producer
      <3> QED  BY <3>1, <3>2
    <2>3. Buffered'
      BY <2>1 DEF producer, LogText, Buffered
    <2> QED  BY <2>2, <2>3 DEF LogText
  <1>10. ASSUME CrashProcess PROVE LogText'
    <2>1. Rows
      BY <1>10, <1>0 DEF CrashProcess
    <2>2. Buffered'
      BY <1>10 DEF CrashProcess, LogText, Buffered
    <2> QED  BY <2>1, <2>2 DEF LogText
  <1>11. ASSUME UNCHANGED <<log, producer>> PROVE LogText'
    <2>1. Rows
      BY <1>11, <1>0 DEF producer
    <2>2. Buffered'
      BY <1>11 DEF producer, LogText, Buffered
    <2> QED  BY <2>1, <2>2 DEF LogText
  <1>12. ASSUME NEW c \in Clients, Subscribe(c) \/ Disconnect(c) \/ Stream(c) PROVE UNCHANGED <<log, producer>>
    BY <1>12 DEF Subscribe, Disconnect, Stream, ReadDirect, DirectEnds, Replay, EnsureTerminal,
                 LastReplayEnds, Register, CatchUp, Receive
  <1>13. \A elsewhere \in {FALSE, RollingStart} : elsewhere \in BOOLEAN
    BY EventBusAssumption
  <1>14. CASE UNCHANGED busVars
    BY <1>14, <1>11 DEF busVars
  <1>15. CASE BusNext
    <2>1. CASE Produce
      BY <2>1, <1>1, <1>2, <1>3, <1>4, <1>5, <1>6, <1>7 DEF Produce
    <2>2. CASE Converge
      BY <2>2, <1>8, <1>9, <1>10, <1>13 DEF Converge
    <2> QED  BY <1>15, <2>1, <2>2, <1>11, <1>12 DEF BusNext
  <1> QED  BY <1>14, <1>15
-----------------------------------------------------------------------------
(* What a client shows.                                                    *)

LEMMA WholeFacts ==
    ASSUME NEW n \in Nat
    PROVE  Len(Whole(n)) = n /\ Append(Whole(n), n + 1) = Whole(n + 1) /\ Whole(0) = <<>>
  <1>1. \A k \in Nat : Whole(k) \in Seq(Nat) /\ Len(Whole(k)) = k /\ DOMAIN Whole(k) = 1 .. k
                       /\ \A i \in 1 .. k : Whole(k)[i] = i
    <2> TAKE k \in Nat
    <2>1. Whole(k) \in [1 .. k -> Nat] /\ DOMAIN Whole(k) = 1 .. k
      BY DEF Whole
    <2>2. Whole(k) \in Seq(Nat) /\ Len(Whole(k)) = k
      BY <2>1, SeqDef, LenProperties
    <2>3. \A i \in 1 .. k : Whole(k)[i] = i
      BY DEF Whole
    <2> QED  BY <2>1, <2>2, <2>3
  <1>2. Append(Whole(n), n + 1) = Whole(n + 1)
    <2>1. /\ Append(Whole(n), n + 1) \in Seq(Nat) /\ Len(Append(Whole(n), n + 1)) = n + 1
          /\ \A i \in 1 .. n : Append(Whole(n), n + 1)[i] = Whole(n)[i]
          /\ Append(Whole(n), n + 1)[n + 1] = n + 1
      BY <1>1, AppendProperties
    <2>2. \A i \in 1 .. n + 1 : Append(Whole(n), n + 1)[i] = Whole(n + 1)[i]
      BY <1>1, <2>1
    <2>3. Whole(n + 1) \in Seq(Nat) /\ Len(Whole(n + 1)) = n + 1
      BY <1>1
    <2> QED  BY <2>1, <2>2, <2>3, SeqEqual
  <1>3. Whole(0) = <<>>
    BY <1>1, EmptySeq
  <1> QED  BY <1>1, <1>2, <1>3

LEMMA TextFacts ==
    ASSUME BusInv, NEW c \in Clients
    PROVE  /\ \A s \in Segments : Shown(c, s) \in Nat
           /\ cursor[c] \in 0 .. Len(log) /\ latest[c] \in 0 .. Len(log)
  <1>1. \A s \in Segments : content[c][s] \in Seq(1 .. MaxChunks)
    BY DEF BusInv, ViewInv
  <1> QED  BY <1>1 DEF Shown, BusInv, ViewInv, SubscriptionInv

\* What an event changes in the text of a client that has not had it yet.
LEMMA ShowText ==
    ASSUME BusInv, NEW c \in Clients, NEW e, e.seq = 0 \/ ~(e.seq <= cursor[c]), Show(c, e)
    PROVE  /\ cursor'[c] = IF e.seq = 0 THEN cursor[c] ELSE e.seq
           /\ \A s \in Segments : content'[c][s] = IF s = e.seg THEN Fold(content[c][s], e) ELSE content[c][s]
           /\ \A d \in Clients \ {c} : content'[d] = content[d] /\ cursor'[d] = cursor[d]
  <1>1. cursor \in [Clients -> 0 .. Len(log)] /\ content \in [Clients -> [Segments -> Seq(1 .. MaxChunks)]]
    BY DEF BusInv, ViewInv
  <1>2. /\ cursor' = [cursor EXCEPT ![c] = IF e.seq = 0 THEN @ ELSE e.seq]
        /\ content' = IF e.seg \in Segments THEN [content EXCEPT ![c][e.seg] = Fold(@, e)] ELSE content
    BY DEF Show
  <1>3. cursor'[c] = (IF e.seq = 0 THEN cursor[c] ELSE e.seq) /\ \A d \in Clients \ {c} : cursor'[d] = cursor[d]
    BY <1>1, <1>2
  <1>4. CASE e.seg \in Segments
    <2>1. content' = [content EXCEPT ![c][e.seg] = Fold(content[c][e.seg], e)]
      BY <1>2, <1>4
    <2> QED  BY <1>1, <1>3, <1>4, <2>1
  <1>5. CASE e.seg \notin Segments
    BY <1>1, <1>2, <1>3, <1>5
  <1> QED  BY <1>4, <1>5

\* Folding the next row, or the next live chunk, into what is there.
LEMMA FoldText ==
    ASSUME BusInv, NEW c \in Clients, Shows(c), NEW e, e.part \in Nat, NEW s \in Segments,
           NEW new \in Seq(1 .. MaxChunks), new = Fold(content[c][s], e)
    PROVE  /\ e.type = "start" => new = Whole(0) /\ Len(new) = 0
           /\ e.type = "aggregate" => new = Whole(e.part) /\ Len(new) = e.part
           /\ e.type = "chunk" /\ e.part = Shown(c, s) + 1 => new = Whole(e.part) /\ Len(new) = e.part
           /\ e.type \notin {"start", "aggregate", "chunk"} => new = content[c][s] /\ Len(new) = Shown(c, s)
  <1>1. content[c][s] = Whole(Shown(c, s)) /\ Shown(c, s) \in Nat
    BY TextFacts DEF Shows
  <1>2. e.type = "start" => new = Whole(0) /\ Len(new) = 0
    BY WholeFacts DEF Fold
  <1>3. e.type = "aggregate" => new = Whole(e.part) /\ Len(new) = e.part
    BY WholeFacts DEF Fold
  <1>4. e.type = "chunk" /\ e.part = Shown(c, s) + 1 => new = Whole(e.part) /\ Len(new) = e.part
    <2> SUFFICES ASSUME e.type = "chunk", e.part = Shown(c, s) + 1 PROVE new = Whole(e.part) /\ Len(new) = e.part
      OBVIOUS
    <2>1. new = Append(Whole(Shown(c, s)), Shown(c, s) + 1)
      BY <1>1 DEF Fold
    <2> QED  BY <1>1, <2>1, WholeFacts
  <1>5. e.type \notin {"start", "aggregate", "chunk"} => new = content[c][s] /\ Len(new) = Shown(c, s)
    BY DEF Fold, Shown
  <1> QED  BY <1>2, <1>3, <1>4, <1>5
-----------------------------------------------------------------------------
(* What a client is shown next.                                            *)

\* Behind the aggregate of a segment there is only its end, behind that nothing.
LEMMA ClosedBehind ==
    ASSUME BusInv, LogText, NEW i \in 1 .. Len(log), NEW j \in 1 .. Len(log), i < j,
           log[i].seg = log[j].seg, log[i].type \in {"aggregate", "end"}, log[j].type # "terminal"
    PROVE  log[j].type = "end" /\ log[i].type = "aggregate" /\ j = i + 1
  <1>0. Len(log) \in Nat /\ DOMAIN log = 1 .. Len(log)
    BY LogFacts
  <1>1. log[i].type = "aggregate"
    BY <1>0 DEF LogText, RowsInLine
  <1>2. i + 1 \in 1 .. Len(log) /\ log[i + 1].type = "end" /\ log[i + 1].seg = log[i].seg
    BY <1>0, <1>1 DEF LogText, SummedUp, RowOf
  <1>3. ~(i + 1 < j)
    BY <1>0, <1>2 DEF LogText, RowsInLine
  <1> QED  BY <1>0, <1>1, <1>2, <1>3

\* The rows of a segment as they follow each other.
LEMMA RowsFollow ==
    ASSUME BusInv, LogText, NEW i \in 1 .. Len(log), NEW j \in 1 .. Len(log), i < j,
           log[i].seg = log[j].seg, log[j].type # "terminal"
    PROVE  /\ log[j].type # "start" /\ log[i].type # "end"
           /\ log[i].type = "chunk" /\ log[j].type = "chunk" => log[i].part < log[j].part
  BY LogFacts DEF LogText, RowsInLine

\* c is given the row n of the log, and has all before it but aggregates of what
\* it shows.
NextRow(c, n) ==
    /\ n \in 1 .. Len(log) /\ n > cursor[c] /\ PassedUpTo(c, n - 1) /\ Show(c, log[n])

\* A chunk row is the one that the text lacks, an end finds it complete.
LEMMA RowFits ==
    ASSUME BusInv, LogText, NEW c \in Clients, Shows(c), NEW n, NextRow(c, n)
    PROVE  /\ log[n].type = "chunk" => log[n].part = Shown(c, log[n].seg) + 1
           /\ log[n].type = "start" => Shown(c, log[n].seg) = 0
           /\ log[n].type = "end" => Shown(c, log[n].seg) = sent[log[n].seg]
  <1>0. /\ Len(log) \in Nat /\ DOMAIN log = 1 .. Len(log) /\ sent \in [Segments -> Nat] /\ cursor[c] \in 0 .. Len(log)
        /\ \A i \in 1 .. Len(log) : log[i].part \in Nat /\ (log[i].type # "terminal" => log[i].seg \in Segments)
        /\ \A s \in Segments : Shown(c, s) \in Nat /\ Shown(c, s) <= sent[s]
    BY LogFacts, TextFacts DEF Shows
  <1>1. n \in 1 .. Len(log) /\ n > cursor[c]
    BY DEF NextRow
  <1>2. ASSUME NEW k \in 1 .. Len(log), k < n, log[k].type # "aggregate" PROVE k <= cursor[c]
    BY <1>0, <1>1, <1>2 DEF NextRow, PassedUpTo
  <1>3. ASSUME NEW t \in TextSegments, NEW m \in 1 .. sent[t],
               \A k \in 1 .. Len(log) : log[k].type = "chunk" /\ log[k].seg = t /\ log[k].part = m => k < n
        PROVE  m <= Shown(c, t)
    <2>1. PICK k \in 1 .. Len(log) : log[k].type = "chunk" /\ log[k].seg = t /\ log[k].part = m
      BY <1>0 DEF LogText, ChunksAreRows
    <2>2. k <= cursor[c]
      BY <1>2, <1>3, <2>1
    <2> QED  BY <1>0, <2>1, <2>2 DEF Shows
  <1>4. ASSUME log[n].type = "chunk" PROVE log[n].part = Shown(c, log[n].seg) + 1
    <2> DEFINE t == log[n].seg
               p == log[n].part
    <2>1. t \in Segments /\ t \in TextSegments /\ p \in Nat /\ p <= sent[t] /\ p # 0 /\ sent[t] \in Nat
      <3>1. log[n].part # 0
        BY <1>0, <1>1, <1>4 DEF BusInv, LogInv, Known, WellFormed
      <3> QED  BY <1>0, <1>1, <1>4, <3>1 DEF LogText, ChunksAreRows
    <2>2. ~(p <= Shown(c, t))
      BY <1>0, <1>1, <1>4 DEF Shows
    <2>3. CASE p = 1
      BY <1>0, <2>1, <2>2, <2>3
    <2>4. CASE p # 1
      <3>1. p - 1 \in 1 .. sent[t]
        BY <2>1, <2>4
      <3>2. \A k \in 1 .. Len(log) : log[k].type = "chunk" /\ log[k].seg = t /\ log[k].part = p - 1 => k < n
        <4> SUFFICES ASSUME NEW k \in 1 .. Len(log), log[k].type = "chunk", log[k].seg = t, log[k].part = p - 1
                     PROVE  k < n
          OBVIOUS
        <4>1. k # n
          BY <2>1
        <4>2. ~(n < k)
          BY <1>1, <1>4, <2>1, RowsFollow
        <4> QED  BY <1>0, <1>1, <4>1, <4>2
      <3>3. p - 1 <= Shown(c, t)
        BY <1>3, <2>1, <3>1, <3>2
      <3> QED  BY <1>0, <2>1, <2>2, <3>3
    <2> QED  BY <2>3, <2>4
  <1>5. ASSUME log[n].type = "start" PROVE Shown(c, log[n].seg) = 0
    BY <1>0, <1>1, <1>5 DEF Shows
  <1>6. ASSUME log[n].type = "end" PROVE Shown(c, log[n].seg) = sent[log[n].seg]
    <2> DEFINE t == log[n].seg
    <2>1. t \in Segments /\ sent[t] \in Nat /\ Shown(c, t) \in Nat /\ Shown(c, t) <= sent[t]
      BY <1>0, <1>1, <1>6
    <2>2. CASE sent[t] = 0
      BY <2>1, <2>2
    <2>3. CASE sent[t] # 0 /\ t \in TextSegments
      <3>1. sent[t] \in 1 .. sent[t]
        BY <2>1, <2>3
      <3>2. \A k \in 1 .. Len(log) : log[k].type = "chunk" /\ log[k].seg = t /\ log[k].part = sent[t] => k < n
        <4> SUFFICES ASSUME NEW k \in 1 .. Len(log), log[k].type = "chunk", log[k].seg = t PROVE k < n
          OBVIOUS
        <4>1. k # n
          BY <1>6
        <4>2. ~(n < k)
          BY <1>1, <1>6, RowsFollow
        <4> QED  BY <1>0, <1>1, <4>1, <4>2
      <3>3. sent[t] <= Shown(c, t)
        BY <1>3, <2>3, <3>1, <3>2
      <3> QED  BY <2>1, <3>3
    <2>4. CASE sent[t] # 0 /\ t \notin TextSegments
      <3>1. n - 1 \in 1 .. Len(log) /\ log[n - 1].type = "aggregate" /\ log[n - 1].seg = t
        BY <1>0, <1>1, <1>6, <2>4 DEF LogText, SummedUp, RowOf
      <3>2. CASE n - 1 <= cursor[c]
        BY <1>0, <3>1, <3>2 DEF Shows
      <3>3. CASE n - 1 > cursor[c]
        <4>1. n - 1 \in cursor[c] + 1 .. n - 1
          BY <1>0, <1>1, <3>1, <3>3
        <4> QED  BY <3>1, <4>1 DEF NextRow, PassedUpTo
      <3> QED  BY <1>0, <1>1, <3>1, <3>2, <3>3
    <2> QED  BY <2>2, <2>3, <2>4
  <1> QED  BY <1>4, <1>5, <1>6

\* What the number of chunks shown becomes when c is given e.
Showing(c, e) ==
    /\ \A s \in Segments : content'[c][s] = Whole(Shown(c, s)') /\ Shown(c, s)' \in Nat
    /\ \A s \in Segments : Shown(c, s)' =
          IF s = e.seg /\ e.type = "aggregate" THEN sent[s]
          ELSE IF s = e.seg /\ e.type = "chunk" THEN e.part ELSE Shown(c, s)

LEMMA ShowingText ==
    ASSUME BusInv, BusInv', NEW c \in Clients, Shows(c), NEW e, e.part \in Nat,
           e.seq = 0 \/ ~(e.seq <= cursor[c]), Show(c, e), e.seg \in Segments,
           e.type = "chunk" => e.part = Shown(c, e.seg) + 1,
           e.type = "start" => Shown(c, e.seg) = 0,
           e.type = "aggregate" => e.part = sent[e.seg]
    PROVE  Showing(c, e)
  <1>0. \A s \in Segments : content[c][s] = Whole(Shown(c, s)) /\ Shown(c, s) \in Nat
    BY TextFacts DEF Shows
  <1>1. \A s \in Segments : content'[c][s] = IF s = e.seg THEN Fold(content[c][s], e) ELSE content[c][s]
    BY ShowText
  <1>2. ASSUME NEW s \in Segments
        PROVE  /\ content'[c][s] = Whole(Shown(c, s)') /\ Shown(c, s)' \in Nat
               /\ Shown(c, s)' = IF s = e.seg /\ e.type = "aggregate" THEN sent[s]
                                 ELSE IF s = e.seg /\ e.type = "chunk" THEN e.part ELSE Shown(c, s)
    <2>0. Shown(c, s)' = Len(content'[c][s])
      BY DEF Shown
    <2>1. CASE s # e.seg
      <3>1. content'[c][s] = content[c][s]
        BY <1>1, <2>1
      <3> QED  BY <1>0, <2>0, <2>1, <3>1 DEF Shown
    <2>2. CASE s = e.seg
      <3> DEFINE new == content'[c][s]
      <3>1. new \in Seq(1 .. MaxChunks) /\ new = Fold(content[c][s], e)
        BY <1>1, <2>2 DEF BusInv, ViewInv
      <3> HIDE DEF new
      <3>2. /\ e.type = "start" => new = Whole(0) /\ Len(new) = 0
            /\ e.type = "aggregate" => new = Whole(e.part) /\ Len(new) = e.part
            /\ e.type = "chunk" => new = Whole(e.part) /\ Len(new) = e.part
            /\ e.type \notin {"start", "aggregate", "chunk"} => new = content[c][s] /\ Len(new) = Shown(c, s)
        BY <2>2, <3>1, FoldText
      <3>3. Shown(c, s)' = Len(new) /\ content'[c][s] = new
        BY <2>0 DEF new
      <3>4. CASE e.type = "start"
        BY <1>0, <2>2, <3>2, <3>3, <3>4
      <3>5. CASE e.type = "aggregate"
        BY <1>0, <2>2, <3>2, <3>3, <3>5
      <3>6. CASE e.type = "chunk"
        BY <1>0, <2>2, <3>2, <3>3, <3>6
      <3>7. CASE e.type \notin {"start", "aggregate", "chunk"}
        BY <1>0, <2>2, <3>2, <3>3, <3>7
      <3> QED  BY <3>4, <3>5, <3>6, <3>7
    <2> QED  BY <2>1, <2>2
  <1> QED  BY <1>2 DEF Showing

\* A terminal changes no text.
LEMMA TerminalText ==
    ASSUME BusInv, NEW c \in Clients, Shows(c), NEW e, e.type = "terminal",
           e.seq = 0 \/ ~(e.seq <= cursor[c]), Show(c, e)
    PROVE  Showing(c, e)
  <1>0. \A s \in Segments : content[c][s] = Whole(Shown(c, s)) /\ Shown(c, s) \in Nat
    BY TextFacts DEF Shows
  <1>1. \A s \in Segments : content'[c][s] = content[c][s]
    BY ShowText DEF Fold
  <1>2. \A s \in Segments : Shown(c, s)' = Shown(c, s)
    BY <1>1 DEF Shown
  <1> QED  BY <1>0, <1>1, <1>2 DEF Showing

\* The next row keeps what c shows in step with its cursor.
LEMMA RowShown ==
    ASSUME BusInv, BusInv', LogText, UNCHANGED <<log, sent>>, NEW c \in Clients, Shows(c), NEW n, NextRow(c, n)
    PROVE  Shows(c)' /\ Showing(c, log[n]) /\ cursor'[c] = n
           /\ \A d \in Clients \ {c} : content'[d] = content[d] /\ cursor'[d] = cursor[d]
  <1> DEFINE e == log[n]
             t == log[n].seg
  <1>0. /\ Len(log) \in Nat /\ DOMAIN log = 1 .. Len(log) /\ sent \in [Segments -> Nat] /\ cursor[c] \in 0 .. Len(log)
        /\ \A i \in 1 .. Len(log) : log[i].part \in Nat /\ (log[i].type # "terminal" => log[i].seg \in Segments)
        /\ \A s \in Segments : Shown(c, s) \in Nat /\ Shown(c, s) <= sent[s]
    BY LogFacts, TextFacts DEF Shows
  <1>1. n \in 1 .. Len(log) /\ n > cursor[c] /\ Show(c, e) /\ e.seq = n /\ e.part \in Nat /\ ~(e.seq <= cursor[c]) /\ n # 0
    BY <1>0 DEF NextRow, BusInv, LogInv
  <1>2. ASSUME NEW k \in 1 .. Len(log), k < n, k > cursor[c]
        PROVE  log[k].type = "aggregate" /\ Shown(c, log[k].seg) = sent[log[k].seg]
    BY <1>0, <1>1, <1>2 DEF NextRow, PassedUpTo
  <1>3. /\ e.type = "chunk" => e.part = Shown(c, t) + 1
        /\ e.type = "start" => Shown(c, t) = 0
        /\ e.type = "end" => Shown(c, t) = sent[t]
    BY RowFits
  <1>4. e.type = "aggregate" => e.part = sent[t] /\ t \notin TextSegments
    BY <1>0, <1>1 DEF LogText, SummedUp
  <1>5. e.type = "chunk" => e.part <= sent[t] /\ t \in TextSegments
    BY <1>0, <1>1 DEF LogText, ChunksAreRows
  <1>6. Showing(c, e)
    <2>1. CASE e.type = "terminal"
      BY <1>1, <2>1, TerminalText
    <2>2. CASE e.type # "terminal"
      BY <1>0, <1>1, <1>3, <1>4, <2>2, ShowingText
    <2> QED  BY <2>1, <2>2
  <1>7. cursor'[c] = n /\ \A d \in Clients \ {c} : content'[d] = content[d] /\ cursor'[d] = cursor[d]
    BY <1>1, ShowText
  <1>8. e.type # "terminal" => t \in Segments
    BY <1>0, <1>1
  <1> HIDE DEF e, t
  <1>p. \A s \in Segments : /\ content'[c][s] = Whole(Shown(c, s)') /\ Shown(c, s)' \in Nat
                            /\ s = e.seg /\ e.type = "aggregate" => Shown(c, s)' = sent[s]
                            /\ s = e.seg /\ e.type = "chunk" => Shown(c, s)' = e.part
                            /\ s # e.seg \/ e.type \notin {"aggregate", "chunk"} => Shown(c, s)' = Shown(c, s)
    BY <1>6 DEF Showing
  <1>9. t = e.seg /\ e = log[n]
    BY DEF e, t
  <1>10. \A s \in Segments : Shown(c, s)' <= sent'[s] /\ content'[c][s] = Whole(Shown(c, s)')
    <2> SUFFICES ASSUME NEW s \in Segments PROVE Shown(c, s)' <= sent[s]
      BY <1>p
    <2> QED  BY <1>0, <1>5, <1>p, <1>9
  <1>11. ASSUME NEW k \in 1 .. Len(log), log[k].type = "chunk"
         PROVE  k <= n <=> log[k].part <= Shown(c, log[k].seg)'
    <2> DEFINE u == log[k].seg
    <2>0. u \in Segments /\ u \in TextSegments /\ log[k].part \in Nat /\ Shown(c, u) \in Nat
      BY <1>0, <1>11 DEF LogText, ChunksAreRows
    <2>1. k <= cursor[c] <=> log[k].part <= Shown(c, u)
      BY <1>0, <1>11 DEF Shows
    <2>2. CASE u = t /\ e.type = "chunk"
      <3>1. Shown(c, u)' = e.part /\ e.part \in Nat
        BY <1>1, <1>p, <1>9, <2>0, <2>2
      <3>2. k < n => log[k].part < e.part
        BY <1>1, <1>9, <1>11, <2>2, RowsFollow
      <3>3. n < k => e.part < log[k].part
        BY <1>1, <1>9, <1>11, <2>2, RowsFollow
      <3>4. k = n => e.part = log[k].part
        BY <1>9
      <3> QED  BY <1>0, <1>1, <2>0, <3>1, <3>2, <3>3, <3>4
    <2>3. CASE ~(u = t /\ e.type = "chunk")
      <3>1. Shown(c, u)' = Shown(c, u)
        BY <1>p, <1>9, <1>4, <2>0, <2>3
      <3>2. k # n
        BY <1>9, <1>11, <2>3
      <3>3. ~(k < n /\ k > cursor[c])
        BY <1>2, <1>11
      <3> QED  BY <1>0, <1>1, <2>1, <3>1, <3>2, <3>3
    <2> QED  BY <2>2, <2>3
  <1>12. ASSUME NEW k \in 1 .. Len(log), log[k].type = "start", k > n
         PROVE  Shown(c, log[k].seg)' = 0
    <2>1. Shown(c, log[k].seg) = 0 /\ log[k].seg \in Segments
      BY <1>0, <1>1, <1>12 DEF Shows
    <2>2. log[k].seg # t
      BY <1>1, <1>9, <1>12, RowsFollow
    <2> QED  BY <1>p, <1>9, <2>1, <2>2
  <1>13. ASSUME NEW k \in 1 .. Len(log), log[k].type \in {"aggregate", "end"}, k <= n
         PROVE  Shown(c, log[k].seg)' = sent[log[k].seg]
    <2>0. log[k].seg \in Segments
      BY <1>0, <1>13
    <2>1. CASE k = n
      BY <1>3, <1>9, <1>13, <1>p, <2>0, <2>1
    <2>2. CASE k # n
      <3>1. Shown(c, log[k].seg) = sent[log[k].seg]
        <4>1. CASE k <= cursor[c]
          BY <1>0, <1>13, <4>1 DEF Shows
        <4>2. CASE k > cursor[c]
          BY <1>0, <1>1, <1>2, <1>13, <2>2, <4>2
        <4> QED  BY <1>0, <4>1, <4>2
      <3>2. log[k].seg = t => e.type \notin {"aggregate", "chunk"}
        BY <1>0, <1>1, <1>9, <1>13, <2>2, ClosedBehind
      <3> QED  BY <1>p, <1>9, <2>0, <3>1, <3>2
    <2> QED  BY <2>1, <2>2
  <1>14. log' = log /\ sent' = sent
    OBVIOUS
  <1>15. Shows(c)'
    <2>1. \A k \in DOMAIN log' : log'[k].type = "chunk" => (k <= cursor'[c] <=> log'[k].part <= Shown(c, log[k].seg)')
      BY <1>0, <1>7, <1>11, <1>14
    <2>2. \A k \in DOMAIN log' : log'[k].type = "start" /\ k > cursor'[c] => Shown(c, log[k].seg)' = 0
      BY <1>0, <1>7, <1>12, <1>14
    <2>3. \A k \in DOMAIN log' : log'[k].type \in {"aggregate", "end"} /\ k <= cursor'[c] => Shown(c, log[k].seg)' = sent'[log'[k].seg]
      BY <1>0, <1>7, <1>13, <1>14
    <2>4. \A k \in DOMAIN log' : log'[k] = log[k]
      BY <1>14
    <2> QED  BY <1>10, <2>1, <2>2, <2>3, <2>4 DEF Shows, Shown
  <1> QED  BY <1>6, <1>7, <1>15 DEF e

\* So does the next live chunk.
LEMMA LiveShown ==
    ASSUME BusInv, BusInv', LogText, UNCHANGED <<log, sent>>, NEW c \in Clients, Shows(c), NEW e, Show(c, e),
           e.seq = 0, e.type = "chunk", NEW s \in Segments \ TextSegments, e.seg = s,
           e.part = Shown(c, s) + 1, e.part <= sent[s],
           \A n \in DOMAIN log : RowOf(n, "start", s) => n <= cursor[c]
    PROVE  Shows(c)' /\ Showing(c, e) /\ cursor'[c] = cursor[c]
           /\ \A n \in 0 .. Len(log) : PassedUpTo(c, n) => PassedUpTo(c, n)'
           /\ \A d \in Clients \ {c} : content'[d] = content[d] /\ cursor'[d] = cursor[d]
  <1>0. /\ Len(log) \in Nat /\ DOMAIN log = 1 .. Len(log) /\ sent \in [Segments -> Nat] /\ cursor[c] \in 0 .. Len(log)
        /\ \A i \in 1 .. Len(log) : log[i].part \in Nat /\ (log[i].type # "terminal" => log[i].seg \in Segments)
        /\ \A t \in Segments : Shown(c, t) \in Nat /\ Shown(c, t) <= sent[t]
    BY LogFacts, TextFacts DEF Shows
  <1>1. cursor'[c] = cursor[c] /\ \A d \in Clients \ {c} : content'[d] = content[d] /\ cursor'[d] = cursor[d]
    BY ShowText
  <1>2. Showing(c, e)
    <2>1. e.part \in Nat
      BY <1>0
    <2> QED  BY <2>1, ShowingText
  <1>3. \A t \in Segments : content'[c][t] = Whole(Shown(c, t)') /\ Shown(c, t)' = IF t = s THEN e.part ELSE Shown(c, t)
    BY <1>2 DEF Showing
  <1>4. \A k \in 1 .. Len(log) : log[k].type = "chunk" => log[k].seg # s
    BY <1>0 DEF LogText, ChunksAreRows
  <1>5. \A k \in 1 .. Len(log) : log[k].type \in {"aggregate", "end"} /\ Shown(c, log[k].seg) = sent[log[k].seg] => log[k].seg # s
    BY <1>0
  <1>6. \A k \in 1 .. Len(log) : log[k].type = "start" /\ k > cursor[c] => log[k].seg # s
    BY <1>0 DEF RowOf
  <1>7. log' = log /\ sent' = sent
    OBVIOUS
  <1>8. Shows(c)'
    <2>1. \A t \in Segments : Shown(c, t)' <= sent'[t] /\ content'[c][t] = Whole(Shown(c, t)')
      BY <1>0, <1>3
    <2>2. \A k \in DOMAIN log' : log'[k].type = "chunk" => (k <= cursor'[c] <=> log'[k].part <= Shown(c, log[k].seg)')
      BY <1>0, <1>1, <1>3, <1>4, <1>7 DEF Shows
    <2>3. \A k \in DOMAIN log' : log'[k].type = "start" /\ k > cursor'[c] => Shown(c, log[k].seg)' = 0
      BY <1>0, <1>1, <1>3, <1>6, <1>7 DEF Shows
    <2>4. \A k \in DOMAIN log' : log'[k].type \in {"aggregate", "end"} /\ k <= cursor'[c] => Shown(c, log[k].seg)' = sent'[log'[k].seg]
      BY <1>0, <1>1, <1>3, <1>5, <1>7 DEF Shows
    <2>5. \A k \in DOMAIN log' : log'[k] = log[k]
      BY <1>7
    <2> QED  BY <2>1, <2>2, <2>3, <2>4, <2>5 DEF Shows, Shown
  <1>9. ASSUME NEW n \in 0 .. Len(log), PassedUpTo(c, n) PROVE PassedUpTo(c, n)'
    <2> SUFFICES ASSUME NEW k \in cursor[c] + 1 .. n
                 PROVE  log[k].type = "aggregate" /\ Shown(c, log[k].seg)' = sent[log[k].seg]
      BY <1>1, <1>7 DEF PassedUpTo, Shown
    <2>1. k \in 1 .. Len(log) /\ log[k].type = "aggregate" /\ Shown(c, log[k].seg) = sent[log[k].seg]
      BY <1>0, <1>9 DEF PassedUpTo
    <2>2. log[k].seg # s /\ log[k].seg \in Segments
      BY <1>0, <1>5, <2>1
    <2> QED  BY <1>3, <2>1, <2>2
  <1> QED  BY <1>1, <1>2, <1>8, <1>9
-----------------------------------------------------------------------------
(* A connection takes the head of its queue.                               *)

LEMMA QueueShifts ==
    ASSUME BusInv, NEW c \in Clients, queue[c] # <<>>, queue'[c] = Tail(queue[c])
    PROVE  /\ 1 \in DOMAIN queue[c] /\ queue[c][1] = Head(queue[c]) /\ DOMAIN queue[c] \subseteq Nat
           /\ \A i \in DOMAIN queue[c] : i >= 1 /\ queue[c][i].seq \in 0 .. Len(log)
           /\ \A i \in DOMAIN queue'[c] : i \in Nat /\ i + 1 \in DOMAIN queue[c] /\ queue'[c][i] = queue[c][i + 1] /\ 1 < i + 1
           /\ \A j \in DOMAIN queue[c] : j = 1 \/ (j - 1 \in DOMAIN queue'[c] /\ queue'[c][j - 1] = queue[c][j])
  <1>1. queue[c] \in Seq(Events) /\ Len(queue[c]) \in Nat /\ DOMAIN queue[c] = 1 .. Len(queue[c])
        /\ \A i \in 1 .. Len(queue[c]) : queue[c][i].seq \in 0 .. Len(log)
    BY SeqsInLog
  <1>2. Len(queue[c]) # 0 /\ queue[c][1] = Head(queue[c])
    BY <1>1, EmptySeq
  <1>3. /\ queue'[c] \in Seq(Events) /\ Len(queue'[c]) = Len(queue[c]) - 1
        /\ \A i \in 1 .. Len(queue'[c]) : queue'[c][i] = queue[c][i + 1]
    BY <1>1, HeadTailProperties
  <1>4. DOMAIN queue'[c] = 1 .. Len(queue[c]) - 1
    BY <1>3
  <1>5. ASSUME NEW j \in DOMAIN queue[c], j # 1 PROVE j - 1 \in DOMAIN queue'[c] /\ queue'[c][j - 1] = queue[c][j]
    <2>1. j - 1 \in 1 .. Len(queue'[c]) /\ (j - 1) + 1 = j
      BY <1>1, <1>3, <1>5
    <2> QED  BY <1>3, <1>4, <2>1
  <1>6. \A i \in DOMAIN queue'[c] : i \in Nat /\ i + 1 \in DOMAIN queue[c] /\ queue'[c][i] = queue[c][i + 1] /\ 1 < i + 1
    BY <1>1, <1>3, <1>4
  <1>7. 1 \in DOMAIN queue[c] /\ DOMAIN queue[c] \subseteq Nat /\ \A i \in DOMAIN queue[c] : i >= 1
    BY <1>1, <1>2
  <1> QED  BY <1>1, <1>2, <1>5, <1>6, <1>7

LEMMA FromFacts ==
    ASSUME BusInv, NEW c \in Clients
    PROVE  /\ From(c) \in Nat
           /\ link[c] \in {"direct", "draining"} => From(c) = cursor[c]
           /\ link[c] = "live" => From(c) = latest[c] + Len(todo[c])
           /\ link[c] = "registered" => From(c) = Len(log)
  <1>1. Len(log) \in Nat /\ cursor[c] \in Nat /\ latest[c] \in Nat /\ todo[c] \in Seq(Events)
    BY SeqsInLog DEF BusInv, WayInv, OnTheWay
  <1>2. Len(todo[c]) \in Nat
    BY <1>1
  <1>3. CASE link[c] = "registered"
    BY <1>1, <1>3 DEF From
  <1>4. CASE link[c] = "live"
    BY <1>1, <1>2, <1>4 DEF From
  <1>5. CASE link[c] \notin {"registered", "live"}
    BY <1>1, <1>5 DEF From
  <1> QED  BY <1>3, <1>4, <1>5

HeadTaken(c) ==
    /\ c \in Attached /\ link'[c] = link[c] /\ UNCHANGED <<log, producer, registered>>
    /\ queue[c] # <<>> /\ queue'[c] = Tail(queue[c])
    /\ From(c)' = IF Head(queue[c]).seq > From(c) THEN Head(queue[c]).seq ELSE From(c)

\* The head is shown, or passes for what has been.
HeadShown(c, s) ==
    ShowsLive(c, s)' =>
        /\ ShowsLive(c, s)
        /\ Live(Head(queue[c])) /\ Head(queue[c]).seg = s => Shown(c, s)' = Head(queue[c]).part
        /\ \/ Live(Head(queue[c])) /\ Head(queue[c]).seg = s
           \/ Shown(c, s)' = Shown(c, s)
           \/ Head(queue[c]).type = "aggregate" /\ Head(queue[c]).seg = s /\ Shown(c, s)' = sent[s]

LEMMA HeadKeepsLine ==
    ASSUME BusInv, NEW c \in Clients, InLine(c), Gapless(c), HeadTaken(c)
    PROVE  InLine(c)' /\ Gapless(c)'
  <1> DEFINE h == Head(queue[c])
  <1>0. /\ 1 \in DOMAIN queue[c] /\ queue[c][1] = h /\ DOMAIN queue[c] \subseteq Nat
        /\ \A i \in DOMAIN queue[c] : i >= 1 /\ queue[c][i].seq \in 0 .. Len(log)
        /\ \A i \in DOMAIN queue'[c] : i \in Nat /\ i + 1 \in DOMAIN queue[c] /\ queue'[c][i] = queue[c][i + 1] /\ 1 < i + 1
        /\ \A j \in DOMAIN queue[c] : j = 1 \/ (j - 1 \in DOMAIN queue'[c] /\ queue'[c][j - 1] = queue[c][j])
    BY QueueShifts DEF HeadTaken
  <1>1. /\ link'[c] = link[c] /\ log' = log /\ sent' = sent /\ driver' = driver /\ stage' = stage /\ registered' = registered
        /\ From(c)' = IF h.seq > From(c) THEN h.seq ELSE From(c)
        /\ c \in Attached
    BY DEF HeadTaken, producer
  <1>2. From(c) \in Nat /\ h.seq \in Nat /\ Len(log) \in Nat /\ DOMAIN log = 1 .. Len(log)
    BY <1>0, FromFacts, LogFacts
  <1> HIDE DEF h
  <1>3. From(c)' \in Nat /\ From(c) <= From(c)' /\ h.seq <= From(c)'
    BY <1>1, <1>2
  <1>4. InLine(c)'
    <2>1. ASSUME NEW i \in DOMAIN queue'[c], Live(queue'[c][i])
          PROVE  /\ queue'[c][i].type = "chunk" /\ queue'[c][i].seg \in Segments \ TextSegments
                 /\ queue'[c][i].part \in 1 .. sent'[queue'[c][i].seg]
      BY <1>0, <1>1, <2>1 DEF InLine
    <2>2. ASSUME NEW i \in DOMAIN queue'[c], NEW j \in DOMAIN queue'[c], i < j, queue'[c][i].seg = queue'[c][j].seg
          PROVE  /\ Live(queue'[c][i]) => queue'[c][j].type # "start"
                 /\ Live(queue'[c][j]) => queue'[c][i].type \notin {"aggregate", "end"}
                 /\ Live(queue'[c][i]) /\ Live(queue'[c][j]) => queue'[c][i].part < queue'[c][j].part
      <3>1. i + 1 \in DOMAIN queue[c] /\ j + 1 \in DOMAIN queue[c] /\ i + 1 < j + 1
            /\ queue'[c][i] = queue[c][i + 1] /\ queue'[c][j] = queue[c][j + 1]
        BY <1>0, <2>2
      <3> QED  BY <2>2, <3>1 DEF InLine
    <2> QED  BY <2>1, <2>2 DEF InLine, Live
  <1>5. ASSUME NEW n \in Nat, Queued(c, n), n # h.seq PROVE Queued(c, n)'
    <2>1. PICK j \in DOMAIN queue[c] : queue[c][j].seq = n
      BY <1>5 DEF Queued
    <2>2. j - 1 \in DOMAIN queue'[c] /\ queue'[c][j - 1].seq = n
      BY <1>0, <1>5, <2>1
    <2> QED  BY <2>2 DEF Queued
  <1>6. ASSUME NEW n \in Nat, n > From(c)', Reached(c, n) PROVE Reached(c, n)'
    <2>1. n # h.seq
      BY <1>2, <1>3, <1>6
    <2> QED  BY <1>1, <1>5, <1>6, <2>1 DEF Reached
  <1>7. ASSUME NEW i \in DOMAIN queue'[c], NEW n \in From(c)' + 1 .. queue'[c][i].seq - 1 PROVE Reached(c, n)'
    <2>1. i + 1 \in DOMAIN queue[c] /\ queue'[c][i] = queue[c][i + 1] /\ queue[c][i + 1].seq \in Nat
      BY <1>0, <1>2
    <2>2. n \in From(c) + 1 .. queue[c][i + 1].seq - 1 /\ n \in Nat /\ n > From(c)'
      BY <1>2, <1>3, <1>7, <2>1
    <2>3. Reached(c, n)
      BY <1>1, <2>1, <2>2 DEF Gapless
    <2> QED  BY <1>6, <2>2, <2>3
  <1>8. ASSUME link'[c] # "draining", NEW n \in From(c)' + 1 .. Len(log') PROVE log'[n].type = "terminal" \/ Reached(c, n)'
    <2>1. n \in From(c) + 1 .. Len(log) /\ n \in Nat /\ n > From(c)' /\ link[c] # "draining"
      BY <1>1, <1>2, <1>3, <1>8
    <2>2. log[n].type = "terminal" \/ Reached(c, n)
      BY <1>1, <2>1 DEF Gapless
    <2> QED  BY <1>1, <1>6, <2>1, <2>2
  <1>9. ASSUME NEW i \in DOMAIN queue'[c], Live(queue'[c][i]), NEW n \in DOMAIN log', RowOf(n, "start", queue[c][i].seg)'
        PROVE  n <= From(c)' \/ Queued(c, n)'
    <2>1. i + 1 \in DOMAIN queue[c] /\ queue'[c][i] = queue[c][i + 1]
      BY <1>0
    <2>2. n \in DOMAIN log /\ RowOf(n, "start", queue[c][i + 1].seg) /\ n \in Nat
      BY <1>1, <1>2, <1>9, <2>1 DEF RowOf
    <2>3. n <= From(c) \/ Queued(c, n)
      BY <1>1, <1>9, <2>1, <2>2 DEF Gapless
    <2> QED  BY <1>2, <1>3, <1>5, <2>2, <2>3
  <1>10. link'[c] \in {"registered", "live"} => c \in registered' \/ Over'
    BY <1>1 DEF Gapless, Over
  <1>11. Gapless(c)'
    <2>1. \A i \in DOMAIN queue'[c] : Live(queue'[c][i]) =>
             \A n \in DOMAIN log' : RowOf(n, "start", queue[c][i].seg)' => n <= From(c)' \/ Queued(c, n)'
      BY <1>9
    <2> QED  BY <1>7, <1>8, <1>10, <2>1 DEF Gapless, Live
  <1> QED  BY <1>4, <1>11

LEMMA HeadKeepsHearing ==
    ASSUME BusInv, NEW c \in Clients, InLine(c), HeadTaken(c), NEW s \in Segments \ TextSegments, Hears(c, s),
           HeadShown(c, s), Shown(c, s)' \in Nat
    PROVE  Hears(c, s)'
  <1> DEFINE h == Head(queue[c])
  <1>0. /\ 1 \in DOMAIN queue[c] /\ queue[c][1] = h /\ DOMAIN queue[c] \subseteq Nat
        /\ \A i \in DOMAIN queue'[c] : i \in Nat /\ i + 1 \in DOMAIN queue[c] /\ queue'[c][i] = queue[c][i + 1] /\ 1 < i + 1
        /\ \A j \in DOMAIN queue[c] : j = 1 \/ (j - 1 \in DOMAIN queue'[c] /\ queue'[c][j - 1] = queue[c][j])
    BY QueueShifts DEF HeadTaken
  <1>1. /\ link'[c] = link[c] /\ log' = log /\ sent' = sent /\ driver' = driver /\ stage' = stage
        /\ c \in Attached
    BY DEF HeadTaken, producer
  <1> SUFFICES ASSUME ShowsLive(c, s)'
               PROVE  Hears(c, s)'
    BY DEF Hears
  <1>2. /\ ShowsLive(c, s)
        /\ Live(h) /\ h.seg = s => Shown(c, s)' = h.part
        /\ \/ Live(h) /\ h.seg = s
           \/ Shown(c, s)' = Shown(c, s)
           \/ h.type = "aggregate" /\ h.seg = s /\ Shown(c, s)' = sent[s]
    BY DEF HeadShown
  <1> HIDE DEF h
  <1>3. /\ \A i \in DOMAIN queue[c] : Live(queue[c][i]) /\ queue[c][i].seg = s =>
              queue[c][i].part > Shown(c, s) /\ ComingUpTo(c, s, queue[c][i].part - 1)
        /\ \A i \in DOMAIN queue[c] : queue[c][i].type \in {"aggregate", "end"} /\ queue[c][i].seg = s => ComingUpTo(c, s, sent[s])
        /\ driver = "on" /\ stage[s] = "open" /\ link[c] # "draining" => ComingUpTo(c, s, sent[s])
    BY <1>1, <1>2 DEF Hears
  <1>n. Shown(c, s) \in Nat /\ sent[s] \in Nat /\ Shown(c, s)' \in Nat
    BY TextFacts, LogFacts
  <1>l. \A i \in DOMAIN queue[c] : queue[c][i].part \in Nat
    <2>1. \A i \in DOMAIN queue[c] : queue[c][i] \in Events
      BY SeqsInLog
    <2> QED  BY <2>1, EventBusAssumption DEF Events
  <1>g. Live(h) /\ h.seg = s => h.part > Shown(c, s) /\ h.part \in Nat
    BY <1>0, <1>3, <1>l
  <1>4. ASSUME NEW n \in Nat, ComingUpTo(c, s, n), Shown(c, s)' < n => ~(h.type = "aggregate" /\ h.seg = s /\ Shown(c, s)' = sent[s]),
               NEW m \in Shown(c, s)' + 1 .. n
        PROVE  Coming(c, s, m)'
    <2>1. m \in Shown(c, s) + 1 .. n /\ (Live(h) /\ h.seg = s => m # h.part)
      BY <1>n, <1>g, <1>2, <1>4
    <2>2. PICK j \in DOMAIN queue[c] : Live(queue[c][j]) /\ queue[c][j].seg = s /\ queue[c][j].part = m
      BY <1>4, <2>1 DEF ComingUpTo, Coming
    <2>3. j # 1
      BY <1>0, <2>1, <2>2
    <2>4. j - 1 \in DOMAIN queue'[c] /\ queue'[c][j - 1] = queue[c][j]
      BY <1>0, <2>3
    <2> QED  BY <2>2, <2>4 DEF Coming, Live
  <1>5. ASSUME ComingUpTo(c, s, sent[s]), NEW m \in Shown(c, s)' + 1 .. sent[s] PROVE Coming(c, s, m)'
    <2>1. CASE h.type = "aggregate" /\ h.seg = s /\ Shown(c, s)' = sent[s]
      BY <1>5, <1>n, <2>1
    <2>2. CASE ~(h.type = "aggregate" /\ h.seg = s /\ Shown(c, s)' = sent[s])
      BY <1>4, <1>5, <1>n, <2>2
    <2> QED  BY <2>1, <2>2
  <1>6. ASSUME NEW i \in DOMAIN queue'[c], Live(queue'[c][i]), queue'[c][i].seg = s
        PROVE  queue'[c][i].part > Shown(c, s)' /\ \A m \in Shown(c, s)' + 1 .. queue'[c][i].part - 1 : Coming(c, s, m)'
    <2>1. i + 1 \in DOMAIN queue[c] /\ queue'[c][i] = queue[c][i + 1] /\ 1 < i + 1
      BY <1>0
    <2> DEFINE p == queue[c][i + 1].part
    <2>2. p > Shown(c, s) /\ ComingUpTo(c, s, p - 1) /\ p \in Nat
      BY <1>3, <1>6, <1>l, <2>1
    <2>3. ~(h.type = "aggregate" /\ h.seg = s)
      BY <1>0, <1>6, <2>1 DEF InLine
    <2>4. Live(h) /\ h.seg = s => h.part < p
      BY <1>0, <1>6, <2>1 DEF InLine
    <2>5. p > Shown(c, s)' /\ p - 1 \in Nat
      <3> HIDE DEF p
      <3>1. CASE Live(h) /\ h.seg = s
        BY <1>2, <1>n, <1>g, <2>2, <2>4, <3>1
      <3>2. CASE ~(Live(h) /\ h.seg = s)
        BY <1>2, <1>n, <2>2, <2>3, <3>2
      <3> QED  BY <3>1, <3>2
    <2>6. \A m \in Shown(c, s)' + 1 .. p - 1 : Coming(c, s, m)'
      <3> HIDE DEF p
      <3> QED  BY <1>4, <2>2, <2>3, <2>5
    <2>7. queue'[c][i].part = p
      BY <2>1
    <2> QED  BY <2>5, <2>6, <2>7
  <1>7. ASSUME NEW i \in DOMAIN queue'[c], queue'[c][i].type \in {"aggregate", "end"}, queue'[c][i].seg = s
        PROVE  ComingUpTo(c, s, sent[s])
    <2>1. i + 1 \in DOMAIN queue[c] /\ queue'[c][i] = queue[c][i + 1]
      BY <1>0
    <2> QED  BY <1>3, <1>7, <2>1
  <1>8. ASSUME driver' = "on", stage'[s] = "open", link'[c] # "draining" PROVE ComingUpTo(c, s, sent[s])
    BY <1>1, <1>3, <1>8
  <1>9. \A m \in Shown(c, s)' + 1 .. sent'[s] : ComingUpTo(c, s, sent[s]) => Coming(c, s, m)'
    BY <1>1, <1>5
  <1>10. /\ \A i \in DOMAIN queue'[c] : Live(queue'[c][i]) /\ queue'[c][i].seg = s =>
               queue'[c][i].part > Shown(c, s)' /\ \A m \in Shown(c, s)' + 1 .. queue'[c][i].part - 1 : Coming(c, s, m)'
         /\ \A i \in DOMAIN queue'[c] : queue'[c][i].type \in {"aggregate", "end"} /\ queue'[c][i].seg = s =>
               \A m \in Shown(c, s)' + 1 .. sent'[s] : Coming(c, s, m)'
         /\ driver' = "on" /\ stage'[s] = "open" /\ link'[c] # "draining" =>
               \A m \in Shown(c, s)' + 1 .. sent'[s] : Coming(c, s, m)'
    BY <1>6, <1>7, <1>8, <1>9
  <1> QED  BY <1>10 DEF Hears, ComingUpTo, Live
-----------------------------------------------------------------------------
(* What the head of a queue can be.                                        *)

\* The next live chunk is the one that the text lacks.
LEMMA LiveHeadFits ==
    ASSUME BusInv, NEW c \in Clients, QueuesRows(c), InLine(c), Gapless(c), c \in Attached, queue[c] # <<>>,
           Live(Head(queue[c])), NEW s, s = Head(queue[c]).seg, Hears(c, s), ShowsLive(c, s)
    PROVE  /\ Head(queue[c]).type = "chunk" /\ s \in Segments \ TextSegments
           /\ Head(queue[c]).part = Shown(c, s) + 1 /\ Head(queue[c]).part <= sent[s]
           /\ \A n \in DOMAIN log : RowOf(n, "start", s) => n <= From(c)
  <1> DEFINE h == Head(queue[c])
  <1>0. /\ 1 \in DOMAIN queue[c] /\ queue[c][1] = h /\ DOMAIN queue[c] = 1 .. Len(queue[c]) /\ Len(queue[c]) \in Nat
        /\ Len(log) \in Nat /\ DOMAIN log = 1 .. Len(log)
        /\ \A i \in DOMAIN queue[c] : queue[c][i].part \in Nat
    <2>1. queue[c] \in Seq(Events) /\ Len(queue[c]) \in Nat /\ DOMAIN queue[c] = 1 .. Len(queue[c])
          /\ \A i \in DOMAIN queue[c] : queue[c][i] \in Events
      BY SeqsInLog
    <2>2. Len(queue[c]) # 0 /\ queue[c][1] = h
      BY <2>1, EmptySeq
    <2>3. \A i \in DOMAIN queue[c] : queue[c][i].part \in Nat
      BY <2>1, EventBusAssumption DEF Events
    <2> QED  BY <2>1, <2>2, <2>3, LogFacts
  <1> HIDE DEF h
  <1>1. Live(h) /\ h.seg = s
    BY DEF h
  <1>2. h.type = "chunk" /\ s \in Segments \ TextSegments /\ h.part \in 1 .. sent[s] /\ sent[s] \in Nat
    <2>1. h.type = "chunk" /\ s \in Segments \ TextSegments /\ h.part \in 1 .. sent[s]
      BY <1>0, <1>1 DEF InLine
    <2> QED  BY <2>1, LogFacts
  <1>3. h.part > Shown(c, s) /\ ComingUpTo(c, s, h.part - 1) /\ Shown(c, s) \in Nat
    BY <1>0, <1>1, <1>2, TextFacts DEF Hears
  <1>4. h.part = Shown(c, s) + 1
    <2> SUFFICES ASSUME h.part # Shown(c, s) + 1 PROVE FALSE
      OBVIOUS
    <2>1. h.part - 1 \in Shown(c, s) + 1 .. h.part - 1
      BY <1>2, <1>3
    <2>2. PICK j \in DOMAIN queue[c] : Live(queue[c][j]) /\ queue[c][j].seg = s /\ queue[c][j].part = h.part - 1
      BY <1>3, <2>1 DEF ComingUpTo, Coming
    <2>3. j # 1
      BY <1>0, <1>2, <2>2
    <2>4. 1 < j
      BY <1>0, <2>3
    <2>5. h.part < queue[c][j].part
      BY <1>0, <1>1, <2>2, <2>4 DEF InLine
    <2> QED  BY <1>0, <1>2, <2>2, <2>5
  <1>5. ASSUME NEW n \in DOMAIN log, RowOf(n, "start", s) PROVE n <= From(c)
    <2> SUFFICES ASSUME ~(n <= From(c)) PROVE FALSE
      OBVIOUS
    <2>1. Queued(c, n)
      BY <1>0, <1>1, <1>5 DEF Gapless
    <2>2. PICK j \in DOMAIN queue[c] : queue[c][j].seq = n
      BY <2>1 DEF Queued
    <2>3. n # 0 /\ queue[c][j] = log[n]
      BY <1>0, <2>2 DEF QueuesRows
    <2>4. j # 1
      BY <1>0, <1>1, <2>2, <2>3 DEF Live
    <2>5. 1 < j /\ queue[c][j].seg = s /\ queue[c][j].type = "start"
      BY <1>0, <1>5, <2>3, <2>4 DEF RowOf
    <2> QED  BY <1>0, <1>1, <2>5 DEF InLine
  <1> QED  BY <1>2, <1>4, <1>5 DEF h

\* Who has heard all finds the text complete when the segment closes.
LEMMA ClosedHeadFits ==
    ASSUME BusInv, NEW c \in Clients, Shows(c), InLine(c), c \in Attached, queue[c] # <<>>,
           NEW s \in Segments, Hears(c, s), ShowsLive(c, s),
           Head(queue[c]).type \in {"aggregate", "end"}, Head(queue[c]).seg = s
    PROVE  Shown(c, s) = sent[s]
  <1> DEFINE h == Head(queue[c])
  <1>0. 1 \in DOMAIN queue[c] /\ queue[c][1] = h /\ DOMAIN queue[c] = 1 .. Len(queue[c]) /\ Len(queue[c]) \in Nat
    <2>1. queue[c] \in Seq(Events) /\ Len(queue[c]) \in Nat /\ DOMAIN queue[c] = 1 .. Len(queue[c])
      BY SeqsInLog
    <2>2. Len(queue[c]) # 0 /\ queue[c][1] = h
      BY <2>1, EmptySeq
    <2> QED  BY <2>1, <2>2
  <1> HIDE DEF h
  <1>1. h.type \in {"aggregate", "end"} /\ h.seg = s
    BY DEF h
  <1>2. ComingUpTo(c, s, sent[s])
    BY <1>0, <1>1 DEF Hears
  <1>3. Shown(c, s) \in Nat /\ sent[s] \in Nat /\ Shown(c, s) <= sent[s]
    BY TextFacts, LogFacts DEF Shows
  <1> SUFFICES ASSUME Shown(c, s) # sent[s] PROVE FALSE
    OBVIOUS
  <1>4. sent[s] \in Shown(c, s) + 1 .. sent[s]
    BY <1>3
  <1>5. PICK j \in DOMAIN queue[c] : Live(queue[c][j]) /\ queue[c][j].seg = s
    BY <1>2, <1>4 DEF ComingUpTo, Coming
  <1>6. ASSUME j = 1 PROVE FALSE
    <2>1. h.type = "chunk"
      BY <1>0, <1>5, <1>6 DEF InLine
    <2> QED  BY <1>1, <2>1
  <1>7. 1 < j
    BY <1>0, <1>6
  <1> QED  BY <1>0, <1>1, <1>5, <1>7 DEF InLine

\* No row is missed before the one at the head.
LEMMA RowHeadFits ==
    ASSUME BusInv, NEW c \in Clients, QueuesRows(c), Gapless(c), c \in Attached, queue[c] # <<>>,
           Head(queue[c]).seq # 0, NEW m \in From(c) + 1 .. Head(queue[c]).seq - 1
    PROVE  link[c] \in {"direct", "draining"} /\ log[m].type = "aggregate"
  <1> DEFINE h == Head(queue[c])
  <1>0. 1 \in DOMAIN queue[c] /\ queue[c][1] = h /\ DOMAIN queue[c] = 1 .. Len(queue[c]) /\ Len(queue[c]) \in Nat
        /\ h.seq \in Nat /\ From(c) \in Nat
    <2>1. queue[c] \in Seq(Events) /\ Len(queue[c]) \in Nat /\ DOMAIN queue[c] = 1 .. Len(queue[c])
          /\ \A i \in DOMAIN queue[c] : queue[c][i].seq \in 0 .. Len(log)
      BY SeqsInLog
    <2>2. Len(queue[c]) # 0 /\ queue[c][1] = h
      BY <2>1, EmptySeq
    <2> QED  BY <2>1, <2>2, FromFacts
  <1> HIDE DEF h
  <1>1. h.seq # 0 /\ m \in From(c) + 1 .. h.seq - 1
    BY DEF h
  <1>2. Reached(c, m)
    BY <1>0, <1>1 DEF Gapless
  <1>3. ASSUME Queued(c, m) PROVE FALSE
    <2>1. PICK j \in DOMAIN queue[c] : queue[c][j].seq = m
      BY <1>3 DEF Queued
    <2>2. m # 0 /\ m < h.seq
      BY <1>0, <1>1
    <2>3. j # 1
      BY <1>0, <2>1, <2>2
    <2>4. 1 < j
      BY <1>0, <2>3
    <2>5. h.seq < m
      BY <1>0, <1>1, <2>1, <2>2, <2>4 DEF QueuesRows, InOrder
    <2> QED  BY <1>0, <1>1, <2>2, <2>5
  <1> QED  BY <1>2, <1>3 DEF Reached

-----------------------------------------------------------------------------
(* The steps of a connection.                                              *)

\* Of a client nothing is touched.
Unmoved(c) ==
    /\ UNCHANGED <<log, producer>>
    /\ link'[c] = link[c] /\ todo'[c] = todo[c] /\ queue'[c] = queue[c] /\ latest'[c] = latest[c]
    /\ raw'[c] = raw[c] /\ replayed'[c] = replayed[c] /\ required'[c] = required[c]
    /\ cursor'[c] = cursor[c] /\ content'[c] = content[c] /\ (c \in registered' <=> c \in registered)

LEMMA UnmovedTold == ASSUME NEW c \in Clients, Told(c), Unmoved(c) PROVE Told(c)'
  <1>1. /\ log' = log /\ driver' = driver /\ stage' = stage /\ sent' = sent
        /\ link'[c] = link[c] /\ todo'[c] = todo[c] /\ queue'[c] = queue[c] /\ latest'[c] = latest[c]
        /\ raw'[c] = raw[c] /\ replayed'[c] = replayed[c] /\ required'[c] = required[c]
        /\ cursor'[c] = cursor[c] /\ content'[c] = content[c] /\ (c \in registered' <=> c \in registered)
    BY DEF Unmoved, producer
  <1>2. Shows(c) /\ Passes(c) /\ InLine(c) /\ Gapless(c) /\ \A s \in Segments \ TextSegments : Hears(c, s)
    BY DEF Told
  <1>3. From(c)' = From(c) /\ (c \in Attached <=> (c \in Attached)') /\ (c \in Subscribed <=> (c \in Subscribed)') /\ (Over <=> Over')
    BY <1>1 DEF From, Attached, Subscribed, Over
  <1>4. Shows(c)'
    BY <1>1, <1>2 DEF Shows, Shown
  <1>5. Passes(c)'
    BY <1>1, <1>2, <1>3 DEF Passes, PassedUpTo, Shown
  <1>6. InLine(c)'
    BY <1>1, <1>2 DEF InLine, Live
  <1>7. Gapless(c)'
    BY <1>1, <1>2, <1>3 DEF Gapless, Reached, Queued, RowOf, Live
  <1>8. ASSUME NEW s \in Segments \ TextSegments PROVE Hears(c, s)'
    <2>1. ShowsLive(c, s)' <=> ShowsLive(c, s)
      BY <1>1, <1>3 DEF ShowsLive, RowOf
    <2> QED  BY <1>1, <1>2, <1>3, <2>1 DEF Hears, ComingUpTo, Coming, Shown, Live
  <1> QED  BY <1>4, <1>5, <1>6, <1>7, <1>8 DEF Told

\* Who is off, or only replays, hears nothing.
LEMMA DeafTold ==
    ASSUME NEW c \in Clients, Shows(c)', Passes(c)', queue'[c] = <<>>, link'[c] \in {"off", "replay", "last", "ensured"}
    PROVE  Told(c)'
  <1>1. DOMAIN queue'[c] = {}
    OBVIOUS
  <1>2. (c \notin Attached)'
    BY DEF Attached
  <1>3. InLine(c)'
    BY <1>1 DEF InLine
  <1>4. Gapless(c)' /\ \A s \in Segments \ TextSegments : Hears(c, s)'
    BY <1>2 DEF Gapless, Hears
  <1> QED  BY <1>3, <1>4 DEF Told

LEMMA HungTold ==
    ASSUME BusInv, NEW c \in Clients, Shows(c)', Hangup(c) PROVE Told(c)'
  <1>1. link'[c] = "off" /\ queue'[c] = <<>>
    BY DEF Hangup, BusInv, LinkInv, WayInv, OnTheWay
  <1>2. Passes(c)'
    BY <1>1 DEF Passes, Subscribed
  <1> QED  BY <1>1, <1>2, DeafTold

LEMMA ShowingHead ==
    ASSUME NEW c \in Clients, Showing(c, Head(queue[c])), NEW s \in Segments \ TextSegments,
           Live(Head(queue[c])) => Head(queue[c]).type = "chunk",
           Head(queue[c]).type = "chunk" => Live(Head(queue[c])) \/ Head(queue[c]).seg \in TextSegments,
           ShowsLive(c, s)' => ShowsLive(c, s)
    PROVE  HeadShown(c, s)
  <1> DEFINE h == Head(queue[c])
  <1>1. Shown(c, s)' = IF s = h.seg /\ h.type = "aggregate" THEN sent[s]
                       ELSE IF s = h.seg /\ h.type = "chunk" THEN h.part ELSE Shown(c, s)
    BY DEF Showing
  <1> HIDE DEF h
  <1>2. (Live(h) => h.type = "chunk") /\ (h.type = "chunk" => Live(h) \/ h.seg \in TextSegments)
    BY DEF h
  <1>3. /\ Live(h) /\ h.seg = s => Shown(c, s)' = h.part
        /\ \/ Live(h) /\ h.seg = s
           \/ Shown(c, s)' = Shown(c, s)
           \/ h.type = "aggregate" /\ h.seg = s /\ Shown(c, s)' = sent[s]
    <2>1. CASE h.seg # s
      BY <1>1, <2>1
    <2>2. CASE h.seg = s /\ h.type = "aggregate"
      BY <1>1, <1>2, <2>2
    <2>3. CASE h.seg = s /\ h.type = "chunk"
      BY <1>1, <1>2, <2>3
    <2>4. CASE h.seg = s /\ h.type \notin {"aggregate", "chunk"}
      BY <1>1, <1>2, <2>4
    <2> QED  BY <2>1, <2>2, <2>3, <2>4
  <1>4. ShowsLive(c, s)' => ShowsLive(c, s)
    OBVIOUS
  <1>5. h = Head(queue[c])
    BY DEF h
  <1> QED  BY <1>3, <1>4, <1>5 DEF HeadShown

LEMMA HeadTold ==
    ASSUME BusInv, BusInv', NEW c \in Clients, Told(c), HeadTaken(c), Shows(c)', Passes(c)',
           \A s \in Segments \ TextSegments : HeadShown(c, s)
    PROVE  Told(c)'
  <1>1. InLine(c) /\ Gapless(c) /\ \A s \in Segments \ TextSegments : Hears(c, s)
    BY DEF Told
  <1>2. InLine(c)' /\ Gapless(c)'
    BY <1>1, HeadKeepsLine
  <1>3. ASSUME NEW s \in Segments \ TextSegments PROVE Hears(c, s)'
    <2>1. Shown(c, s)' \in Nat
      <3>1. content'[c][s] \in Seq(1 .. MaxChunks)
        BY DEF BusInv, ViewInv
      <3> QED  BY <3>1 DEF Shown
    <2> QED  BY <1>1, <2>1, HeadKeepsHearing
  <1> QED  BY <1>2, <1>3 DEF Told

LEMMA HeadRow ==
    ASSUME BusInv, LogText, NEW c \in Clients, QueuesRows(c), InLine(c), queue[c] # <<>>
    PROVE  /\ Head(queue[c]).seq \in 0 .. Len(log)
           /\ Live(Head(queue[c])) <=> Head(queue[c]).seq = 0
           /\ ~Live(Head(queue[c])) => Head(queue[c]) = log[Head(queue[c]).seq] /\ Head(queue[c]).seq \in 1 .. Len(log)
           /\ Live(Head(queue[c])) => Head(queue[c]).type = "chunk" /\ Head(queue[c]).seg \in Segments \ TextSegments
           /\ Head(queue[c]).type = "chunk" => Live(Head(queue[c])) \/ Head(queue[c]).seg \in TextSegments
  <1>1. /\ 1 \in DOMAIN queue[c] /\ Head(queue[c]) = queue[c][1] /\ Head(queue[c]).seq \in 0 .. Len(log)
        /\ Head(queue[c]).seq # 0 => Head(queue[c]) = log[Head(queue[c]).seq]
    BY RestOfQueue
  <1>2. Live(Head(queue[c])) <=> Head(queue[c]).seq = 0
    BY DEF Live
  <1>3. Len(log) \in Nat /\ DOMAIN log = 1 .. Len(log)
    BY LogFacts
  <1>4. Live(Head(queue[c])) => Head(queue[c]).type = "chunk" /\ Head(queue[c]).seg \in Segments \ TextSegments
    BY <1>1 DEF InLine
  <1>5. Head(queue[c]).seq # 0 => Head(queue[c]).seq \in 1 .. Len(log)
    BY <1>1, <1>3
  <1>6. \A n \in 1 .. Len(log) : log[n].type = "chunk" => log[n].seg \in TextSegments
    BY <1>3 DEF LogText, ChunksAreRows
  <1> QED  BY <1>1, <1>2, <1>4, <1>5, <1>6

LEMMA ReadDirectTold ==
    ASSUME BusInv, BusInv', LogText, NEW c \in Clients, Ordered(c), Told(c), ReadDirect(c) PROVE Told(c)'
  <1> DEFINE h == Head(queue[c])
  <1>0. /\ Shows(c) /\ Passes(c) /\ InLine(c) /\ Gapless(c) /\ (\A s \in Segments \ TextSegments : Hears(c, s))
        /\ QueuesRows(c)
    BY DEF Told, Ordered
  <1>1. /\ link[c] \in {"direct", "draining"} /\ queue[c] # <<>> /\ Show(c, h) /\ UNCHANGED <<log, producer>>
        /\ UNCHANGED <<log, sent>> /\ c \in Attached /\ From(c) = cursor[c]
        /\ IF h.type = "terminal" THEN Hangup(c)
           ELSE queue' = [queue EXCEPT ![c] = Tail(@)] /\ UNCHANGED <<link, registered, todo>>
    BY FromFacts DEF ReadDirect, producer, Attached
  <1>2. /\ h.seq \in 0 .. Len(log) /\ (Live(h) <=> h.seq = 0)
        /\ ~Live(h) => h = log[h.seq] /\ h.seq \in 1 .. Len(log)
        /\ Live(h) => h.type = "chunk" /\ h.seg \in Segments \ TextSegments
        /\ h.type = "chunk" => Live(h) \/ h.seg \in TextSegments
    BY <1>0, <1>1, HeadRow
  <1>n. cursor[c] \in Nat /\ Len(log) \in Nat /\ DOMAIN log = 1 .. Len(log)
    BY SeqsInLog
  <1>l. \A s : ShowsLive(c, s)
    BY <1>1 DEF ShowsLive
  <1>k. ASSUME Shows(c)', Showing(c, h), h.type # "terminal", cursor'[c] = IF h.seq = 0 THEN cursor[c] ELSE h.seq,
               h.seq # 0 => h.seq > cursor[c]
        PROVE  Told(c)'
    <2>1. queue'[c] = Tail(queue[c]) /\ link'[c] = link[c] /\ registered' = registered
      BY <1>1, <1>k DEF BusInv, WayInv, OnTheWay
    <2>2. From(c)' = cursor'[c]
      BY <1>1, <2>1 DEF From
    <2>3. HeadTaken(c)
      BY <1>1, <1>2, <1>k, <1>n, <2>1, <2>2 DEF HeadTaken
    <2>4. Passes(c)'
      BY <1>1, <2>1 DEF Passes, Subscribed
    <2>5. \A s \in Segments \ TextSegments : HeadShown(c, s)
      BY <1>k, <1>l, <1>2, ShowingHead
    <2> QED  BY <1>k, <2>3, <2>4, <2>5, HeadTold
  <1>3. CASE Live(h)
    <2>1. /\ h.seg \in Segments \ TextSegments /\ h.type = "chunk" /\ h.seq = 0
          /\ h.part = Shown(c, h.seg) + 1 /\ h.part <= sent[h.seg]
          /\ \A n \in DOMAIN log : RowOf(n, "start", h.seg) => n <= cursor[c]
      BY <1>0, <1>1, <1>2, <1>3, <1>l, LiveHeadFits
    <2> HIDE DEF h
    <2>2. Shows(c)' /\ Showing(c, h) /\ cursor'[c] = cursor[c]
      BY <1>0, <1>1, <2>1, LiveShown
    <2> QED  BY <1>k, <2>1, <2>2
  <1>4. CASE ~Live(h)
    <2> DEFINE n == h.seq
    <2>1. n \in 1 .. Len(log) /\ h = log[n] /\ n > cursor[c] /\ n # 0
      BY <1>0, <1>1, <1>2, <1>4, RestOfQueue DEF QueuesRows
    <2>2. ASSUME NEW m \in cursor[c] + 1 .. n - 1
          PROVE  log[m].type = "aggregate" /\ Shown(c, log[m].seg) = sent[log[m].seg]
      <3>1. \A k \in cursor[c] + 1 .. n - 1 : log[k].type = "aggregate"
        BY <1>0, <1>1, <2>1, RowHeadFits
      <3>2. m \in 1 .. Len(log) /\ log[m].type = "aggregate"
        BY <1>n, <2>1, <2>2, <3>1
      <3>3. log[m].seg \in Segments \ TextSegments /\ m + 1 \in 1 .. Len(log) /\ log[m + 1].type = "end" /\ log[m + 1].seg = log[m].seg
        BY <1>n, <3>2, LogFacts DEF LogText, SummedUp, RowOf
      <3>4. m + 1 = n
        <4>1. m + 1 \notin cursor[c] + 1 .. n - 1
          BY <3>1, <3>3
        <4> QED  BY <1>n, <2>1, <2>2, <4>1
      <3>5. h.type = "end" /\ h.seg = log[m].seg
        BY <2>1, <3>3, <3>4
      <3>6. Shown(c, log[m].seg) = sent[log[m].seg]
        BY <1>0, <1>1, <1>l, <3>3, <3>5, ClosedHeadFits
      <3> QED  BY <3>2, <3>6
    <2>3. NextRow(c, n)
      BY <1>1, <2>1, <2>2 DEF NextRow, PassedUpTo
    <2>4. Shows(c)' /\ Showing(c, log[n]) /\ cursor'[c] = n
      BY <1>0, <1>1, <2>3, RowShown
    <2>5. CASE h.type = "terminal"
      BY <1>1, <2>4, <2>5, HungTold
    <2>6. CASE h.type # "terminal"
      <3>1. Showing(c, h)
        BY <2>1, <2>4
      <3> QED  BY <1>k, <2>1, <2>4, <2>6, <3>1
    <2> QED  BY <2>5, <2>6
  <1> QED  BY <1>3, <1>4

\* A replayed row is never a duplicate: what is shown live, is so behind the replay.
LEMMA ReplayTold ==
    ASSUME BusInv, BusInv', LogText, OrderInv, NEW c \in Clients, Told(c), Replay(c) PROVE Told(c)'
  <1> DEFINE h == Head(todo[c])
             n == latest[c] + 1
  <1>0. /\ Shows(c) /\ Passes(c) /\ InLine(c) /\ Gapless(c) /\ (\A s \in Segments \ TextSegments : Hears(c, s))
        /\ ReplaysOn(c) /\ QueuesRows(c) /\ SeesAll(c)
    BY DEF Told, OrderInv, Ordered
  <1>1. /\ link[c] \in {"replay", "last", "live"} /\ todo[c] # <<>> /\ Yield(c, h) /\ UNCHANGED <<log, producer>>
        /\ UNCHANGED <<log, sent>> /\ UNCHANGED <<driver, stage>> /\ c \in Subscribed
        /\ IF h.type = "terminal" THEN Hangup(c)
           ELSE todo' = [todo EXCEPT ![c] = Tail(@)] /\ UNCHANGED <<link, registered, queue>>
    BY DEF Replay, producer, Subscribed
  <1>n. /\ cursor[c] \in Nat /\ latest[c] \in Nat /\ Len(log) \in Nat /\ DOMAIN log = 1 .. Len(log)
        /\ \A i \in 1 .. Len(log) : log[i].seq = i /\ log[i] \in Events
    BY SeqsInLog DEF BusInv, LogInv
  <1>2. /\ todo[c] \in Seq(Events) /\ Len(todo[c]) \in Nat \ {0} /\ h = todo[c][1] /\ 1 \in DOMAIN todo[c]
        /\ Len(Tail(todo[c])) = Len(todo[c]) - 1
    <2>1. todo[c] \in Seq(Events)
      BY DEF BusInv, WayInv, OnTheWay
    <2>2. Len(todo[c]) # 0 /\ Len(todo[c]) \in Nat
      BY <1>1, <2>1, EmptySeq
    <2>3. 1 \in DOMAIN todo[c] /\ h = todo[c][1] /\ Len(Tail(todo[c])) = Len(todo[c]) - 1
      BY <1>1, <2>1, <2>2, HeadTailProperties
    <2> QED  BY <2>1, <2>2, <2>3
  <1>3. n \in 1 .. Len(log) /\ h = log[n] /\ h.seq = n /\ n # 0 /\ h \in Events
    BY <1>0, <1>2, <1>n DEF ReplaysOn
  <1>4. /\ cursor[c] <= latest[c] /\ PassedUpTo(c, latest[c]) /\ raw[c] = {}
        /\ link[c] \notin {"registered", "live"} => required[c] = {}
    BY <1>0, <1>1 DEF Passes
  <1> HIDE DEF h
  <1>5. h.seq \notin seen[c] /\ ~Duplicate(c, h) /\ ~Live(h)
    BY <1>0, <1>3, <1>4, <1>n DEF SeesAll, Duplicate, Live
  <1>6. Show(c, h) /\ Note(c, h) /\ latest' = [latest EXCEPT ![c] = IF h.seq > @ THEN h.seq ELSE @]
    BY <1>1, <1>5 DEF Yield
  <1>7. latest'[c] = n
    BY <1>3, <1>6, <1>n DEF BusInv, SubscriptionInv
  <1>8. /\ raw'[c] = {}
        /\ replayed'[c] = IF h.type = "aggregate" THEN replayed[c] \cup {h.seg} ELSE replayed[c]
        /\ required'[c] = IF h.type = "aggregate" THEN required[c] \ {h.seg} ELSE required[c]
    BY <1>4, <1>5, <1>6 DEF Note, BusInv, SubscriptionInv
  <1>9. NextRow(c, n)
    <2>1. n - 1 = latest[c] /\ n > cursor[c]
      BY <1>4, <1>n
    <2> QED  BY <1>3, <1>4, <1>6, <2>1 DEF NextRow
  <1>10. Shows(c)' /\ Showing(c, log[n]) /\ cursor'[c] = n
    BY <1>0, <1>1, <1>9, RowShown
  <1> HIDE DEF n
  <1>11. CASE h.type = "terminal"
    BY <1>1, <1>10, <1>11, HungTold
  <1>12. CASE h.type # "terminal"
    <2>1. todo'[c] = Tail(todo[c]) /\ link'[c] = link[c] /\ registered' = registered /\ queue' = queue
      BY <1>1, <1>12 DEF BusInv, WayInv, OnTheWay
    <2>2. Passes(c)'
      <3>1. cursor'[c] <= latest'[c] /\ PassedUpTo(c, latest[c])'
        <4>1. n <= n /\ \A k \in n + 1 .. n : FALSE
          BY <1>3, <1>n
        <4> QED  BY <1>7, <1>10, <4>1 DEF PassedUpTo
      <3>2. link'[c] \notin {"registered", "live"} => required'[c] = {}
        BY <1>4, <1>8, <2>1
      <3> QED  BY <1>8, <3>1, <3>2 DEF Passes
    <2>3. From(c)' = From(c) \/ link[c] # "live"
      <3>1. ASSUME link[c] = "live" PROVE From(c)' = From(c)
        <4>1. From(c)' = latest'[c] + Len(todo'[c]) /\ From(c) = latest[c] + Len(todo[c])
          BY <2>1, <3>1 DEF From
        <4>2. latest'[c] = latest[c] + 1 /\ Len(todo'[c]) = Len(todo[c]) - 1
          BY <1>2, <1>7, <2>1 DEF n
        <4> QED  BY <1>2, <1>n, <4>1, <4>2
      <3> QED  BY <3>1
    <2>4. CASE link[c] # "live"
      <3>1. queue'[c] = <<>> /\ link'[c] \in {"off", "replay", "last", "ensured"}
        BY <1>0, <1>1, <2>1, <2>4 DEF QueuesRows
      <3> QED  BY <1>10, <2>2, <3>1, DeafTold
    <2>5. CASE link[c] = "live"
      <3>0. From(c)' = From(c) /\ c \in Attached /\ (Over' <=> Over) /\ log' = log /\ sent' = sent /\ driver' = driver /\ stage' = stage
            /\ From(c) \in Nat /\ link'[c] = "live"
        BY <1>1, <2>1, <2>3, <2>5, FromFacts DEF Attached, Over
      <3>1. InLine(c)'
        BY <1>0, <2>1, <3>0 DEF InLine, Live
      <3>2. Gapless(c)'
        BY <1>0, <2>1, <2>5, <3>0 DEF Gapless, Reached, Queued, RowOf, Live
      <3>3. ASSUME NEW s \in Segments \ TextSegments PROVE Hears(c, s)'
        <4> SUFFICES ASSUME ShowsLive(c, s)' PROVE Hears(c, s)'
          BY DEF Hears
        <4>1. s \notin replayed'[c] \cup required'[c] /\ \A k \in latest'[c] + 1 .. From(c) : ~RowOf(k, "aggregate", s)
          BY <2>1, <2>5, <3>0 DEF ShowsLive, RowOf
        <4>2. ~(h.type = "aggregate" /\ h.seg = s)
          BY <1>8, <4>1
        <4>3. ShowsLive(c, s)
          <5>1. s \notin replayed[c] \cup required[c]
            BY <1>8, <4>1, <4>2
          <5>2. ASSUME NEW k \in latest[c] + 1 .. From(c) PROVE ~RowOf(k, "aggregate", s)
            <6>1. CASE k = n
              BY <1>3, <4>2, <6>1 DEF RowOf
            <6>2. CASE k # n
              <7>1. k \in latest'[c] + 1 .. From(c)
                BY <1>7, <1>n, <3>0, <5>2, <6>2 DEF n
              <7> QED  BY <4>1, <7>1
            <6> QED  BY <6>1, <6>2
          <5> QED  BY <5>1, <5>2 DEF ShowsLive
        <4>4. Shown(c, s)' = Shown(c, s)
          <5>1. h.type = "chunk" => h.seg \in TextSegments
            BY <1>3, <1>n DEF LogText, ChunksAreRows
          <5> QED  BY <1>3, <1>10, <4>2, <5>1 DEF Showing
        <4>5. /\ \A i \in DOMAIN queue[c] : Live(queue[c][i]) /\ queue[c][i].seg = s =>
                    queue[c][i].part > Shown(c, s) /\ ComingUpTo(c, s, queue[c][i].part - 1)
              /\ \A i \in DOMAIN queue[c] : queue[c][i].type \in {"aggregate", "end"} /\ queue[c][i].seg = s => ComingUpTo(c, s, sent[s])
              /\ driver = "on" /\ stage[s] = "open" /\ link[c] # "draining" => ComingUpTo(c, s, sent[s])
          BY <1>0, <3>0, <4>3 DEF Hears
        <4>6. \A m : Coming(c, s, m) => Coming(c, s, m)'
          BY <2>1 DEF Coming, Live
        <4> QED  BY <2>1, <2>5, <3>0, <4>4, <4>5, <4>6 DEF Hears, ComingUpTo, Live
      <3> QED  BY <1>10, <2>2, <3>1, <3>2, <3>3 DEF Told
    <2> QED  BY <2>4, <2>5
  <1> QED  BY <1>11, <1>12

LEMMA ReceiveTold ==
    ASSUME BusInv, BusInv', LogText, OrderInv, NEW c \in Clients, Told(c), Receive(c) PROVE Told(c)'
  <1> DEFINE h == Head(queue[c])
  <1>0. /\ Shows(c) /\ Passes(c) /\ InLine(c) /\ Gapless(c) /\ (\A s \in Segments \ TextSegments : Hears(c, s))
        /\ QueuesRows(c) /\ SeesAll(c)
    BY DEF Told, OrderInv, Ordered
  <1>1. /\ link[c] = "live" /\ todo[c] = <<>> /\ queue[c] # <<>> /\ Yield(c, h) /\ UNCHANGED <<log, producer>>
        /\ UNCHANGED <<log, sent>> /\ c \in Attached /\ c \in Subscribed /\ From(c) = latest[c]
        /\ IF h.type = "terminal" /\ h.seq \notin seen[c] THEN Hangup(c)
           ELSE queue' = [queue EXCEPT ![c] = Tail(@)] /\ UNCHANGED <<link, registered, todo>>
    <2>1. link[c] = "live" /\ todo[c] = <<>> /\ latest[c] \in Nat
      BY SeqsInLog DEF Receive
    <2>2. From(c) = latest[c]
      BY <2>1, FromFacts
    <2> QED  BY <2>2 DEF Receive, producer, Attached, Subscribed
  <1>2. /\ h.seq \in 0 .. Len(log) /\ (Live(h) <=> h.seq = 0)
        /\ ~Live(h) => h = log[h.seq] /\ h.seq \in 1 .. Len(log)
        /\ Live(h) => h.type = "chunk" /\ h.seg \in Segments \ TextSegments
        /\ h.type = "chunk" => Live(h) \/ h.seg \in TextSegments
    BY <1>0, <1>1, HeadRow
  <1>n. cursor[c] \in Nat /\ latest[c] \in Nat /\ latest[c] <= Len(log) /\ Len(log) \in Nat /\ DOMAIN log = 1 .. Len(log)
    BY SeqsInLog
  <1>3. /\ cursor[c] <= latest[c] /\ PassedUpTo(c, latest[c]) /\ raw[c] \cap (replayed[c] \cup required[c]) = {}
    BY <1>0, <1>1 DEF Passes
  <1>l. ASSUME NEW s PROVE ShowsLive(c, s) <=> s \notin replayed[c] \cup required[c]
    <2>1. \A n \in latest[c] + 1 .. From(c) : FALSE
      BY <1>1, <1>n
    <2> QED  BY <1>1, <2>1 DEF ShowsLive
  <1>m. ASSUME h.type # "terminal" \/ h.seq \in seen[c]
        PROVE  queue'[c] = Tail(queue[c]) /\ link'[c] = "live" /\ registered' = registered /\ todo'[c] = <<>>
    BY <1>1, <1>m DEF BusInv, WayInv, OnTheWay
  <1>k. ASSUME h.type # "terminal" \/ h.seq \in seen[c],
               Shows(c)', cursor'[c] <= latest'[c], PassedUpTo(c, latest[c])',
               raw'[c] \cap (replayed'[c] \cup required'[c]) = {},
               latest'[c] = IF h.seq > latest[c] THEN h.seq ELSE latest[c],
               \A s \in Segments \ TextSegments : s \notin replayed'[c] \cup required'[c] => HeadShown(c, s)
        PROVE  Told(c)'
    <2>1. queue'[c] = Tail(queue[c]) /\ link'[c] = link[c] /\ link'[c] = "live" /\ registered' = registered /\ todo'[c] = <<>>
      BY <1>1, <1>k, <1>m
    <2>2. From(c)' = latest'[c]
      <3>1. From(c)' = latest'[c] + Len(todo'[c]) /\ Len(todo'[c]) = 0
        BY <2>1 DEF From
      <3> QED  BY <1>k, <1>2, <1>n, <3>1
    <2>3. HeadTaken(c)
      BY <1>1, <1>k, <2>1, <2>2 DEF HeadTaken
    <2>4. Passes(c)'
      BY <1>k, <2>1 DEF Passes
    <2>5. \A s \in Segments \ TextSegments : HeadShown(c, s)
      <3> TAKE s \in Segments \ TextSegments
      <3>1. ShowsLive(c, s)' => s \notin replayed'[c] \cup required'[c]
        BY <2>1 DEF ShowsLive
      <3> QED  BY <1>k, <3>1 DEF HeadShown
    <2> QED  BY <1>k, <2>3, <2>4, <2>5, HeadTold
  <1>s. ASSUME UNCHANGED content, NEW s \in Segments, Live(h) => h.seg \in replayed[c] \cup required[c],
               ShowsLive(c, s)' => s \notin replayed[c] \cup required[c]
        PROVE  HeadShown(c, s)
    BY <1>s, <1>l DEF HeadShown, Shown
  <1> HIDE DEF h
  <1>4. CASE h.seq \in seen[c]
    <2>1. /\ UNCHANGED <<subscription, view>> /\ h.seq \in 1 .. latest[c] /\ ~Live(h)
      BY <1>0, <1>1, <1>4, <1>n DEF Yield, SeesAll, Live, h
    <2>2. /\ latest' = latest /\ raw' = raw /\ replayed' = replayed /\ required' = required
          /\ cursor' = cursor /\ content' = content
      BY <2>1 DEF subscription, filter, view
    <2>3. Shows(c)' /\ PassedUpTo(c, latest[c])'
      BY <1>0, <1>1, <1>3, <2>2 DEF Shows, Shown, PassedUpTo
    <2>4. latest'[c] = IF h.seq > latest[c] THEN h.seq ELSE latest[c]
      BY <1>n, <2>1, <2>2
    <2>5. ASSUME NEW s \in Segments \ TextSegments, s \notin replayed'[c] \cup required'[c] PROVE HeadShown(c, s)
      BY <1>s, <2>1, <2>2, <2>5
    <2> QED  BY <1>3, <1>4, <1>k, <2>2, <2>3, <2>4, <2>5
  <1>5. CASE Live(h)
    <2>0. h.seq = 0 /\ h.seq \notin seen[c] /\ h.type = "chunk" /\ h.seg \in Segments \ TextSegments /\ h.type # "terminal"
      BY <1>0, <1>2, <1>5, <1>n DEF SeesAll
    <2>1. /\ Note(c, h) /\ latest' = [latest EXCEPT ![c] = IF h.seq > @ THEN h.seq ELSE @]
          /\ IF Duplicate(c, h) THEN UNCHANGED <<yielded, view>> ELSE Show(c, h)
      BY <1>1, <2>0 DEF Yield, h
    <2>2. latest'[c] = latest[c]
      BY <1>n, <2>0, <2>1
    <2>3. replayed' = replayed /\ required' = required /\ (Duplicate(c, h) <=> h.seg \in replayed[c] \cup required[c])
      BY <1>5, <2>0, <2>1 DEF Note, Duplicate
    <2>4. raw'[c] = IF Duplicate(c, h) THEN raw[c] ELSE raw[c] \cup {h.seg}
      BY <1>5, <2>1 DEF Note, BusInv, SubscriptionInv
    <2>5. latest'[c] = IF h.seq > latest[c] THEN h.seq ELSE latest[c]
      BY <1>n, <2>0, <2>2
    <2>6. CASE Duplicate(c, h)
      <3>1. cursor' = cursor /\ content' = content
        BY <2>1, <2>6 DEF view
      <3>2. Shows(c)' /\ PassedUpTo(c, latest[c])'
        BY <1>0, <1>1, <1>3, <2>2, <3>1 DEF Shows, Shown, PassedUpTo
      <3>3. ASSUME NEW s \in Segments \ TextSegments, s \notin replayed'[c] \cup required'[c] PROVE HeadShown(c, s)
        BY <1>s, <2>3, <2>6, <3>1, <3>3
      <3> QED  BY <1>3, <1>k, <2>0, <2>2, <2>3, <2>4, <2>5, <2>6, <3>1, <3>2, <3>3
    <2>7. CASE ~Duplicate(c, h)
      <3>0. ShowsLive(c, h.seg)
        BY <1>l, <2>3, <2>7
      <3>1. /\ h.part = Shown(c, h.seg) + 1 /\ h.part <= sent[h.seg]
            /\ \A n \in DOMAIN log : RowOf(n, "start", h.seg) => n <= From(c)
        BY <1>0, <1>1, <1>5, <2>0, <3>0, LiveHeadFits DEF h
      <3>2. \A n \in DOMAIN log : RowOf(n, "start", h.seg) => n <= cursor[c]
        <4> SUFFICES ASSUME NEW n \in 1 .. Len(log), RowOf(n, "start", h.seg), n > cursor[c] PROVE FALSE
          BY <1>n
        <4>1. n <= latest[c]
          BY <1>1, <1>n, <3>1
        <4>2. n \in cursor[c] + 1 .. latest[c]
          BY <1>n, <4>1
        <4> QED  BY <1>3, <4>2 DEF PassedUpTo, RowOf
      <3>3. Shows(c)' /\ Showing(c, h) /\ cursor'[c] = cursor[c] /\ \A n \in 0 .. Len(log) : PassedUpTo(c, n) => PassedUpTo(c, n)'
        BY <1>0, <1>1, <2>0, <2>1, <2>7, <3>1, <3>2, LiveShown
      <3>4. PassedUpTo(c, latest[c])'
        <4>1. \A n \in 0 .. Len(log) : n = latest[c] => PassedUpTo(c, n)'
          BY <1>3, <3>3
        <4> QED  BY <1>n, <2>2, <4>1 DEF PassedUpTo
      <3>5. ASSUME NEW s \in Segments \ TextSegments, s \notin replayed'[c] \cup required'[c] PROVE HeadShown(c, s)
        <4>1. ShowsLive(c, s)
          BY <1>l, <2>3, <3>5
        <4> QED  BY <1>2, <3>3, <4>1, ShowingHead DEF h
      <3>6. raw'[c] \cap (replayed'[c] \cup required'[c]) = {}
        BY <1>3, <2>3, <2>4, <2>7
      <3> QED  BY <1>3, <1>k, <2>0, <2>2, <2>5, <3>3, <3>4, <3>5, <3>6
    <2> QED  BY <2>6, <2>7
  <1>6. CASE h.seq \notin seen[c] /\ ~Live(h)
    <2> DEFINE n == h.seq
    <2>1. n \in 1 .. Len(log) /\ h = log[n] /\ n > latest[c] /\ n # 0 /\ h.seq = n
      <3>1. n \notin 1 .. latest[c]
        <4>1. 1 \in DOMAIN queue[c] /\ queue[c][1] = h
          BY <1>0, <1>1, RestOfQueue DEF h
        <4> QED  BY <1>0, <1>1, <1>6, <4>1 DEF SeesAll
      <3> QED  BY <1>2, <1>6, <1>n, <3>1
    <2>2. n = latest[c] + 1
      <3>1. \A m \in latest[c] + 1 .. n - 1 : FALSE
        BY <1>0, <1>1, <2>1, RowHeadFits DEF h
      <3>2. latest[c] + 1 \notin latest[c] + 1 .. n - 1
        BY <3>1
      <3> QED  BY <1>n, <2>1, <3>2
    <2>3. /\ Note(c, h) /\ latest' = [latest EXCEPT ![c] = IF h.seq > @ THEN h.seq ELSE @]
          /\ IF Duplicate(c, h) THEN UNCHANGED <<yielded, view>> ELSE Show(c, h)
      BY <1>1, <1>6 DEF Yield, h
    <2>4. latest'[c] = n /\ latest'[c] = IF h.seq > latest[c] THEN h.seq ELSE latest[c]
      BY <1>n, <2>1, <2>3 DEF BusInv, SubscriptionInv
    <2>5. raw' = raw /\ (Duplicate(c, h) <=> h.type = "aggregate" /\ h.seg \in raw[c] \ required[c])
      BY <1>6, <2>3 DEF Note, Duplicate
    <2>6. /\ replayed'[c] = IF h.type = "aggregate" /\ ~Duplicate(c, h) THEN replayed[c] \cup {h.seg} ELSE replayed[c]
          /\ required'[c] = IF h.type = "aggregate" THEN required[c] \ {h.seg} ELSE required[c]
      BY <2>3 DEF Note, BusInv, SubscriptionInv
    <2>7. CASE Duplicate(c, h)
      <3>0. h.type = "aggregate" /\ h.seg \in raw[c] /\ h.seg \notin replayed[c] \cup required[c] /\ h.type # "terminal"
        BY <1>3, <2>5, <2>7
      <3>1. cursor' = cursor /\ content' = content /\ replayed'[c] = replayed[c] /\ required'[c] = required[c]
        BY <2>3, <2>6, <2>7, <3>0 DEF view
      <3>2. h.seg \in Segments \ TextSegments
        BY <1>n, <2>1, <3>0, LogFacts DEF LogText, SummedUp
      <3>3. Shown(c, h.seg) = sent[h.seg]
        <4>1. ShowsLive(c, h.seg) /\ Hears(c, h.seg)
          BY <1>0, <1>l, <3>0, <3>2
        <4> QED  BY <1>0, <1>1, <3>0, <3>2, <4>1, ClosedHeadFits DEF h
      <3>4. PassedUpTo(c, n)
        <4> SUFFICES ASSUME NEW k \in cursor[c] + 1 .. n PROVE log[k].type = "aggregate" /\ Shown(c, log[k].seg) = sent[log[k].seg]
          BY DEF PassedUpTo
        <4>1. CASE k = n
          BY <2>1, <3>0, <3>3, <4>1
        <4>2. CASE k # n
          <5>1. k \in cursor[c] + 1 .. latest[c]
            BY <1>n, <2>2, <4>2
          <5> QED  BY <1>3, <5>1 DEF PassedUpTo
        <4> QED  BY <4>1, <4>2
      <3>5. Shows(c)' /\ PassedUpTo(c, latest[c])'
        <4>1. Shows(c)'
          BY <1>0, <1>1, <3>1 DEF Shows, Shown
        <4>2. PassedUpTo(c, latest[c])'
          BY <1>1, <2>4, <3>1, <3>4 DEF PassedUpTo, Shown
        <4> QED  BY <4>1, <4>2
      <3>6. ASSUME NEW s \in Segments \ TextSegments, s \notin replayed'[c] \cup required'[c] PROVE HeadShown(c, s)
        BY <1>s, <1>6, <3>1, <3>6
      <3>7. cursor'[c] <= latest'[c] /\ raw'[c] \cap (replayed'[c] \cup required'[c]) = {}
        BY <1>3, <1>n, <2>1, <2>4, <2>5, <3>1
      <3> QED  BY <1>k, <2>4, <3>0, <3>5, <3>6, <3>7
    <2>8. CASE ~Duplicate(c, h)
      <3>0. NextRow(c, n)
        <4>1. n > cursor[c] /\ n - 1 = latest[c]
          BY <1>3, <1>n, <2>1, <2>2
        <4> QED  BY <1>3, <2>1, <2>3, <2>8, <4>1 DEF NextRow
      <3>1. Shows(c)' /\ Showing(c, log[n]) /\ cursor'[c] = n
        BY <1>0, <1>1, <3>0, RowShown
      <3>2. Showing(c, h)
        BY <2>1, <3>1
      <3>3. CASE h.type = "terminal"
        BY <1>1, <1>6, <3>1, <3>3, HungTold
      <3>4. CASE h.type # "terminal"
        <4>1. cursor'[c] <= latest'[c] /\ PassedUpTo(c, latest[c])'
          <5>1. n <= n /\ \A k \in n + 1 .. n : FALSE
            BY <1>n, <2>1
          <5> QED  BY <2>4, <3>1, <5>1 DEF PassedUpTo
        <4>2. raw'[c] \cap (replayed'[c] \cup required'[c]) = {}
          BY <1>3, <2>5, <2>6, <2>8
        <4>3. ASSUME NEW s \in Segments \ TextSegments, s \notin replayed'[c] \cup required'[c] PROVE HeadShown(c, s)
          <5>1. s \notin replayed[c] \cup required[c]
            BY <2>6, <2>8, <4>3
          <5>2. ShowsLive(c, s)
            BY <1>l, <5>1
          <5> QED  BY <1>2, <3>2, <5>2, ShowingHead DEF h
        <4> QED  BY <1>k, <2>4, <3>1, <3>4, <4>1, <4>2, <4>3
      <3> QED  BY <3>3, <3>4
    <2> QED  BY <2>7, <2>8
  <1> QED  BY <1>4, <1>5, <1>6

\* Until its queue is registered a client hears nothing; from then on it hears
\* of every segment but those that are under way.
LEMMA RegisterTold ==
    ASSUME BusInv, BusInv', LogText, OrderInv, NEW c \in Clients, Told(c), Register(c) PROVE Told(c)'
  <1>0. Shows(c) /\ Passes(c) /\ QueuesRows(c)
    BY DEF Told, OrderInv, Ordered
  <1>1. /\ link[c] = "ensured" /\ link'[c] = "registered" /\ c \in registered' /\ queue'[c] = <<>>
        /\ log' = log /\ driver' = driver /\ stage' = stage /\ sent' = sent /\ buffer' = buffer /\ latest' = latest
        /\ cursor' = cursor /\ content' = content /\ raw' = raw /\ replayed' = replayed
        /\ required'[c] = {s \in Segments : buffer[s] # 0}
    BY <1>0 DEF Register, BusInv, LinkInv, SubscriptionInv, QueuesRows, view, producer
  <1>2. DOMAIN queue'[c] = {}
    BY <1>1
  <1>3. Shows(c)'
    BY <1>0, <1>1 DEF Shows, Shown
  <1>4. Passes(c)'
    <2>1. cursor[c] <= latest[c] /\ PassedUpTo(c, latest[c]) /\ raw[c] = {}
      BY <1>0, <1>1 DEF Passes, Subscribed
    <2>2. PassedUpTo(c, latest[c])'
      BY <1>1, <2>1 DEF PassedUpTo, Shown
    <2> QED  BY <1>1, <2>1, <2>2 DEF Passes
  <1>5. InLine(c)'
    BY <1>2 DEF InLine
  <1>6. Gapless(c)'
    <2>1. From(c)' = Len(log) /\ Len(log) \in Nat
      BY <1>1, LogFacts DEF From
    <2>2. \A n \in Len(log) + 1 .. Len(log) : FALSE
      BY <2>1
    <2> QED  BY <1>1, <1>2, <2>1, <2>2 DEF Gapless
  <1>7. ASSUME NEW s \in Segments \ TextSegments PROVE Hears(c, s)'
    <2> SUFFICES ASSUME ShowsLive(c, s)', driver = "on", stage[s] = "open"
                 PROVE  \A m \in Shown(c, s)' + 1 .. sent[s] : Coming(c, s, m)'
      BY <1>1, <1>2 DEF Hears, ComingUpTo
    <2>1. buffer[s] = 0
      BY <1>1 DEF ShowsLive
    <2>2. sent[s] = 0
      BY <2>1 DEF LogText, Buffered
    <2>3. Shown(c, s)' \in Nat
      BY <1>1, TextFacts DEF Shown
    <2>4. \A m \in Shown(c, s)' + 1 .. sent[s] : FALSE
      BY <2>2, <2>3
    <2> QED  BY <2>4
  <1> QED  BY <1>3, <1>4, <1>5, <1>6, <1>7 DEF Told

LEMMA CatchUpTold ==
    ASSUME BusInv, BusInv', LogText, OrderInv, NEW c \in Clients, Told(c), CatchUp(c) PROVE Told(c)'
  <1>0. Shows(c) /\ Passes(c) /\ InLine(c) /\ Gapless(c) /\ \A s \in Segments \ TextSegments : Hears(c, s)
    BY DEF Told
  <1>1. /\ link[c] = "registered" /\ link'[c] = "live" /\ registered' = registered /\ queue' = queue
        /\ log' = log /\ driver' = driver /\ stage' = stage /\ sent' = sent /\ latest' = latest
        /\ cursor' = cursor /\ content' = content /\ raw' = raw /\ replayed' = replayed /\ required' = required
        /\ todo'[c] = After(latest[c])
    BY DEF CatchUp, BusInv, LinkInv, WayInv, OnTheWay, view, subscription, filter, producer
  <1>2. From(c)' = From(c) /\ c \in Attached /\ (c \in Attached)' /\ (Over' <=> Over) /\ c \in Subscribed
    <2>1. Len(After(latest[c])) = Len(log) - latest[c] /\ latest[c] \in Nat /\ Len(log) \in Nat
      BY AfterRows, SeqsInLog
    <2>2. latest'[c] + Len(todo'[c]) = Len(log)
      BY <1>1, <2>1
    <2>3. From(c)' = Len(log) /\ From(c) = Len(log)
      BY <1>1, <2>2 DEF From
    <2> QED  BY <1>1, <2>3 DEF Attached, Subscribed, Over
  <1>3. Shows(c)'
    BY <1>0, <1>1 DEF Shows, Shown
  <1>4. Passes(c)'
    <2>1. cursor[c] <= latest[c] /\ PassedUpTo(c, latest[c]) /\ raw[c] = {}
      BY <1>0, <1>1, <1>2 DEF Passes
    <2>2. PassedUpTo(c, latest[c])'
      BY <1>1, <2>1 DEF PassedUpTo, Shown
    <2> QED  BY <1>1, <2>1, <2>2 DEF Passes
  <1>5. InLine(c)'
    BY <1>0, <1>1 DEF InLine, Live
  <1>6. Gapless(c)'
    BY <1>0, <1>1, <1>2 DEF Gapless, Reached, Queued, RowOf, Live
  <1>7. ASSUME NEW s \in Segments \ TextSegments PROVE Hears(c, s)'
    <2>1. ShowsLive(c, s)' <=> ShowsLive(c, s)
      BY <1>1, <1>2 DEF ShowsLive, RowOf
    <2>2. Hears(c, s)
      BY <1>0
    <2> QED  BY <1>1, <1>2, <2>1, <2>2 DEF Hears, ComingUpTo, Coming, Shown, Live
  <1> QED  BY <1>3, <1>4, <1>5, <1>6, <1>7 DEF Told

LEMMA SubscribeTold ==
    ASSUME BusInv, BusInv', OrderInv, NEW c \in Clients, Told(c), Subscribe(c) \/ EnsureTerminal(c) PROVE Told(c)'
  <1>0. Shows(c) /\ Passes(c) /\ QueuesRows(c)
    BY DEF Told, OrderInv, Ordered
  <1>1. CASE Subscribe(c)
    <2>1. /\ link'[c] = "replay" /\ queue'[c] = <<>> /\ latest'[c] = cursor[c]
          /\ raw'[c] = {} /\ replayed'[c] = {} /\ required'[c] = {}
          /\ log' = log /\ sent' = sent /\ cursor' = cursor /\ content' = content
      BY <1>0, <1>1 DEF Subscribe, BusInv, LinkInv, SubscriptionInv, QueuesRows, view, producer
    <2>2. Shows(c)'
      BY <1>0, <2>1 DEF Shows, Shown
    <2>3. Passes(c)'
      <3>1. cursor[c] \in Nat
        BY SeqsInLog
      <3>2. cursor[c] <= cursor[c] /\ \A k \in cursor[c] + 1 .. cursor[c] : FALSE
        BY <3>1
      <3>3. PassedUpTo(c, latest[c])'
        BY <2>1, <3>2 DEF PassedUpTo
      <3> QED  BY <2>1, <3>2, <3>3 DEF Passes
    <2> QED  BY <2>1, <2>2, <2>3, DeafTold
  <1>2. CASE EnsureTerminal(c)
    <2>1. /\ link[c] = "replay" /\ link'[c] \in {"last", "ensured"} /\ queue'[c] = <<>> /\ log' = log /\ sent' = sent /\ latest' = latest
          /\ cursor' = cursor /\ content' = content /\ raw' = raw /\ replayed' = replayed /\ required' = required
      BY <1>0, <1>2 DEF EnsureTerminal, BusInv, LinkInv, QueuesRows, view, subscription, filter, producer
    <2>2. Shows(c)'
      BY <1>0, <2>1 DEF Shows, Shown
    <2>3. Passes(c)'
      <3>1. cursor[c] <= latest[c] /\ PassedUpTo(c, latest[c]) /\ raw[c] = {} /\ required[c] = {}
        BY <1>0, <2>1 DEF Passes, Subscribed
      <3>2. PassedUpTo(c, latest[c])'
        BY <2>1, <3>1 DEF PassedUpTo, Shown
      <3> QED  BY <2>1, <3>1, <3>2 DEF Passes
    <2> QED  BY <2>1, <2>2, <2>3, DeafTold
  <1> QED  BY <1>1, <1>2

\* The steps of one connection leave the others' clients alone.
LEMMA OthersUnmoved ==
    ASSUME BusInv, BusInv', OrderInv, NEW c \in Clients, Subscribe(c) \/ Disconnect(c) \/ Stream(c), NEW d \in Clients \ {c}
    PROVE  Unmoved(d)
  <1>f. /\ link \in [Clients -> {"off", "direct", "draining", "replay", "last", "ensured", "registered", "live"}]
        /\ todo \in [Clients -> Seq(Events)] /\ queue \in [Clients -> Seq(Events)]
        /\ latest \in [Clients -> 0 .. Len(log)] /\ cursor \in [Clients -> 0 .. Len(log)]
        /\ raw \in [Clients -> SUBSET Segments] /\ replayed \in [Clients -> SUBSET Segments]
        /\ required \in [Clients -> SUBSET Segments]
        /\ content \in [Clients -> [Segments -> Seq(1 .. MaxChunks)]]
    BY DEF BusInv, LinkInv, WayInv, OnTheWay, SubscriptionInv, ViewInv
  <1> DEFINE Links == link'[d] = link[d] /\ todo'[d] = todo[d] /\ queue'[d] = queue[d] /\ (d \in registered' <=> d \in registered)
             Subs == latest'[d] = latest[d] /\ raw'[d] = raw[d] /\ replayed'[d] = replayed[d] /\ required'[d] = required[d]
             Views == cursor'[d] = cursor[d] /\ content'[d] = content[d]
  <1>u. ASSUME UNCHANGED <<log, producer>>, Links, Subs, Views PROVE Unmoved(d)
    BY <1>u DEF Unmoved
  <1>h. ASSUME Hangup(c) PROVE Links
    BY <1>h, <1>f DEF Hangup
  <1>s. ASSUME UNCHANGED subscription PROVE Subs
    BY <1>s DEF subscription, filter
  <1>v. ASSUME UNCHANGED view PROVE Views
    BY <1>v DEF view
  <1>w. ASSUME NEW e, Show(c, e) PROVE Views
    <2>1. CASE e.seq # 0 /\ e.seq <= cursor[c]
      BY <1>v, <1>w, <2>1 DEF Show
    <2>2. CASE ~(e.seq # 0 /\ e.seq <= cursor[c])
      BY <1>w, <2>2, ShowText
    <2> QED  BY <2>1, <2>2
  <1>y. ASSUME NEW e, Yield(c, e) PROVE Subs /\ Views
    <2>1. CASE e.seq \in seen[c]
      BY <1>s, <1>v, <1>y, <2>1 DEF Yield
    <2>2. CASE e.seq \notin seen[c]
      <3>1. /\ latest' = [latest EXCEPT ![c] = IF e.seq > @ THEN e.seq ELSE @] /\ Note(c, e)
            /\ IF Duplicate(c, e) THEN UNCHANGED <<yielded, view>> ELSE Show(c, e)
        BY <1>y, <2>2 DEF Yield
      <3>2. latest'[d] = latest[d]
        BY <3>1, <1>f
      <3>3. raw'[d] = raw[d]
        BY <3>1, <1>f DEF Note
      <3>4. replayed'[d] = replayed[d]
        BY <3>1, <1>f DEF Note
      <3>5. required'[d] = required[d]
        BY <3>1, <1>f DEF Note
      <3> QED  BY <1>v, <1>w, <3>1, <3>2, <3>3, <3>4, <3>5
    <2> QED  BY <2>1, <2>2
  <1> HIDE DEF Subs, Views
  <1>1. CASE Subscribe(c)
    <2>1. Links
      BY <1>1, <1>f DEF Subscribe
    <2>2. Subs
      BY <1>1, <1>f DEF Subscribe, Subs
    <2> QED  BY <1>1, <1>u, <1>v, <2>1, <2>2 DEF Subscribe
  <1>2. CASE Disconnect(c) \/ DirectEnds(c) \/ LastReplayEnds(c)
    BY <1>2, <1>u, <1>h, <1>s, <1>v DEF Disconnect, DirectEnds, LastReplayEnds
  <1>3. CASE ReadDirect(c)
    <2>1. Links
      BY <1>3, <1>f, <1>h DEF ReadDirect
    <2> QED  BY <1>3, <1>u, <1>s, <1>w, <2>1 DEF ReadDirect
  <1>4. CASE Replay(c)
    <2>1. Links
      BY <1>4, <1>f, <1>h DEF Replay
    <2> QED  BY <1>4, <1>u, <1>y, <2>1 DEF Replay
  <1>5. CASE EnsureTerminal(c) \/ CatchUp(c)
    <2>1. Links
      BY <1>5, <1>f DEF EnsureTerminal, CatchUp
    <2> QED  BY <1>5, <1>u, <1>s, <1>v, <2>1 DEF EnsureTerminal, CatchUp
  <1>6. CASE Register(c)
    <2>1. Links
      BY <1>6, <1>f DEF Register
    <2>2. Subs
      BY <1>6, <1>f DEF Register, Subs
    <2> QED  BY <1>6, <1>u, <1>v, <2>1, <2>2 DEF Register
  <1>7. CASE Receive(c)
    <2>1. Links
      BY <1>7, <1>f, <1>h DEF Receive
    <2> QED  BY <1>7, <1>u, <1>y, <2>1 DEF Receive
  <1> QED  BY <1>1, <1>2, <1>3, <1>4, <1>5, <1>6, <1>7 DEF Stream

LEMMA ConnectionTold ==
    ASSUME BusInv, BusInv', LogText, OrderInv, NEW c \in Clients, Subscribe(c) \/ Disconnect(c) \/ Stream(c),
           \A d \in Clients : Told(d)
    PROVE  \A d \in Clients : Told(d)'
  <1>1. ASSUME NEW d \in Clients \ {c} PROVE Told(d)'
    BY <1>1, OthersUnmoved, UnmovedTold
  <1>2. ASSUME Disconnect(c) \/ DirectEnds(c) \/ LastReplayEnds(c) PROVE Told(c)'
    <2>1. Hangup(c) /\ log' = log /\ sent' = sent /\ cursor' = cursor /\ content' = content
      BY <1>2 DEF Disconnect, DirectEnds, LastReplayEnds, view, producer
    <2>2. Shows(c)'
      <3>1. Shows(c)
        BY DEF Told
      <3> QED  BY <2>1, <3>1 DEF Shows, Shown
    <2> QED  BY <2>1, <2>2, HungTold
  <1>3. ASSUME ReadDirect(c) PROVE Told(c)'
    BY <1>3, ReadDirectTold DEF OrderInv
  <1>4. Told(c)'
    BY <1>2, <1>3, ReplayTold, ReceiveTold, RegisterTold, CatchUpTold, SubscribeTold DEF Stream
  <1> QED  BY <1>1, <1>4
-----------------------------------------------------------------------------
(* The log gets longer.                                                    *)

\* New rows are of segments that are under way, and sent follows them.
Adds ==
    /\ Extends
    /\ \A s \in Segments : sent'[s] >= sent[s]
    /\ \A i \in 1 .. Len(log) : log[i].type \in {"aggregate", "end"} => sent'[log[i].seg] = sent[log[i].seg]
    /\ \A i \in Len(log) + 1 .. Len(log') :
          /\ log'[i].type = "start" => log'[i].seg \in Segments /\ sent[log'[i].seg] = 0
          /\ log'[i].type = "chunk" => log'[i].seg \in Segments /\ log'[i].part > sent[log'[i].seg]
          /\ log'[i].type \in {"aggregate", "end"} =>
                /\ log'[i].seg \in Segments /\ driver = "on" /\ stage[log'[i].seg] = "open"
                /\ sent'[log'[i].seg] = sent[log'[i].seg]

LEMMA ShowsGrows ==
    ASSUME BusInv, BusInv', Adds, NEW c \in Clients, Shows(c), cursor'[c] = cursor[c], content'[c] = content[c]
    PROVE  Shows(c)' /\ \A n \in 0 .. Len(log) : PassedUpTo(c, n) => PassedUpTo(c, n)'
  <1>0. /\ Len(log) \in Nat /\ DOMAIN log = 1 .. Len(log) /\ cursor[c] \in 0 .. Len(log) /\ sent \in [Segments -> Nat]
        /\ \A s \in Segments : Shown(c, s) \in Nat /\ Shown(c, s) <= sent[s] /\ sent'[s] \in Nat
        /\ \A i \in 1 .. Len(log) : log[i].type # "terminal" => log[i].seg \in Segments
    <2>1. sent' \in [Segments -> Nat]
      BY EventBusAssumption DEF BusInv, ProducerInv
    <2> QED  BY <2>1, LogFacts, TextFacts DEF Shows
  <1>1. /\ Len(log') \in Nat /\ DOMAIN log' = 1 .. Len(log') /\ Len(log) <= Len(log')
        /\ \A i \in 1 .. Len(log) : log'[i] = log[i]
        /\ \A s \in Segments : sent'[s] >= sent[s]
        /\ \A i \in 1 .. Len(log) : log[i].type \in {"aggregate", "end"} => sent'[log[i].seg] = sent[log[i].seg]
    BY DEF Adds, Extends
  <1>2. \A s : Shown(c, s)' = Shown(c, s)
    BY DEF Shown
  <1>3. \A s \in Segments : Shown(c, s) <= sent'[s] /\ content'[c][s] = Whole(Shown(c, s))
    BY <1>0, <1>1 DEF Shows
  <1>i. \A i \in DOMAIN log' : i \in 1 .. Len(log) \/ i \in Len(log) + 1 .. Len(log')
    BY <1>0, <1>1
  <1>4. ASSUME NEW i \in DOMAIN log', log'[i].type = "chunk"
        PROVE  i <= cursor[c] <=> log'[i].part <= Shown(c, log'[i].seg)
    <2>1. CASE i \in 1 .. Len(log)
      BY <1>0, <1>1, <1>4, <2>1 DEF Shows
    <2>2. CASE i \in Len(log) + 1 .. Len(log')
      <3>1. log'[i].seg \in Segments /\ log'[i].part > sent[log'[i].seg] /\ log'[i].part \in Nat
        <4>1. log'[i] \in Events
          BY <1>1 DEF BusInv, LogInv
        <4>2. log'[i].part \in Nat
          BY <4>1, EventBusAssumption DEF Events
        <4> QED  BY <1>4, <2>2, <4>2 DEF Adds
      <3>2. ~(i <= cursor[c])
        BY <1>0, <2>2
      <3>3. Shown(c, log'[i].seg) <= sent[log'[i].seg] /\ Shown(c, log'[i].seg) \in Nat /\ sent[log'[i].seg] \in Nat
        BY <1>0, <3>1
      <3> QED  BY <3>1, <3>2, <3>3
    <2> QED  BY <1>i, <2>1, <2>2
  <1>5. ASSUME NEW i \in DOMAIN log', log'[i].type = "start", i > cursor[c] PROVE Shown(c, log'[i].seg) = 0
    <2>1. CASE i \in 1 .. Len(log)
      BY <1>0, <1>1, <1>5, <2>1 DEF Shows
    <2>2. CASE i \in Len(log) + 1 .. Len(log')
      <3>1. log'[i].seg \in Segments /\ sent[log'[i].seg] = 0
        BY <1>5, <2>2 DEF Adds
      <3> QED  BY <1>0, <3>1
    <2> QED  BY <1>i, <2>1, <2>2
  <1>6. ASSUME NEW i \in DOMAIN log', log'[i].type \in {"aggregate", "end"}, i <= cursor[c]
        PROVE  Shown(c, log'[i].seg) = sent'[log'[i].seg]
    <2>1. i \in 1 .. Len(log)
      BY <1>0, <1>1, <1>6
    <2> QED  BY <1>0, <1>1, <1>6, <2>1 DEF Shows
  <1>7. Shows(c)'
    BY <1>2, <1>3, <1>4, <1>5, <1>6 DEF Shows, Shown
  <1>8. ASSUME NEW n \in 0 .. Len(log), PassedUpTo(c, n) PROVE PassedUpTo(c, n)'
    <2> SUFFICES ASSUME NEW k \in cursor[c] + 1 .. n
                 PROVE  log'[k].type = "aggregate" /\ Shown(c, log'[k].seg) = sent'[log'[k].seg]
      BY DEF PassedUpTo, Shown
    <2>1. k \in 1 .. Len(log) /\ log[k].type = "aggregate" /\ Shown(c, log[k].seg) = sent[log[k].seg]
      BY <1>0, <1>8 DEF PassedUpTo
    <2> QED  BY <1>1, <2>1
  <1> QED  BY <1>7, <1>8

\* What a producer's step may do to a connection: it hands on to its queue.
Queues(c) ==
    /\ \/ link'[c] = link[c]
       \/ link[c] = "direct" /\ link'[c] = "draining"
    /\ todo'[c] = todo[c] /\ latest'[c] = latest[c] /\ raw'[c] = raw[c] /\ replayed'[c] = replayed[c]
    /\ required'[c] = required[c] /\ cursor'[c] = cursor[c] /\ content'[c] = content[c]
    /\ link[c] \in {"registered", "live"} => c \in registered' \/ Over'
    /\ DOMAIN queue'[c] = 1 .. Len(queue'[c]) /\ Len(queue'[c]) \in Nat /\ Len(queue'[c]) >= Len(queue[c])
    /\ \A i \in 1 .. Len(queue[c]) : queue'[c][i] = queue[c][i]

\* What is handed on are rows, after those that were missing.
QueuesNext(c) ==
    /\ \A i \in Len(queue[c]) + 1 .. Len(queue'[c]) :
          /\ queue'[c][i].seq \in 1 .. Len(log') /\ queue'[c][i] = log'[queue'[c][i].seq]
          /\ queue'[c][i].seq > Len(log) \/ queue'[c][i].type = "terminal"
          /\ link[c] \in {"direct", "registered", "live"}
          /\ \A n \in From(c) + 1 .. queue'[c][i].seq - 1 :
                (n \in 1 .. Len(log) /\ log[n].type # "terminal") \/ Reached(c, n)'
    /\ c \in Attached /\ link'[c] # "draining" =>
          \A n \in Len(log) + 1 .. Len(log') : log'[n].type = "terminal" \/ Reached(c, n)'

\* No live chunk is published.
Steady == \A s \in Segments \ TextSegments :
    driver' = "on" /\ stage'[s] = "open" =>
        sent'[s] = 0 \/ (driver = "on" /\ stage[s] = "open" /\ sent'[s] = sent[s])

LEMMA FromInLog == ASSUME BusInv, NEW c \in Clients, ReplaysOn(c) PROVE From(c) <= Len(log)
  <1>0. Len(log) \in Nat /\ DOMAIN log = 1 .. Len(log) /\ cursor[c] \in 0 .. Len(log) /\ latest[c] \in 0 .. Len(log)
    BY SeqsInLog
  <1>1. CASE link[c] = "registered"
    BY <1>0, <1>1 DEF From
  <1>2. CASE link[c] \notin {"registered", "live"}
    BY <1>0, <1>2 DEF From
  <1>3. CASE link[c] = "live"
    <2>1. From(c) = latest[c] + Len(todo[c]) /\ todo[c] \in Seq(Events)
      BY <1>3 DEF From, BusInv, WayInv, OnTheWay
    <2>2. Len(todo[c]) \in Nat /\ DOMAIN todo[c] = 1 .. Len(todo[c])
      BY <2>1
    <2>3. CASE Len(todo[c]) = 0
      BY <1>0, <2>1, <2>3
    <2>4. CASE Len(todo[c]) # 0
      <3>1. Len(todo[c]) \in DOMAIN todo[c]
        BY <2>2, <2>4
      <3>2. latest[c] + Len(todo[c]) \in 1 .. Len(log)
        BY <1>0, <3>1 DEF ReplaysOn
      <3> QED  BY <1>0, <2>1, <3>2
    <2> QED  BY <2>3, <2>4
  <1> QED  BY <1>1, <1>2, <1>3

\* What follows from a longer queue alone.
LEMMA QueuesFacts ==
    ASSUME BusInv, BusInv', Adds, NEW c \in Clients, Queues(c), ReplaysOn(c)
    PROVE  /\ Len(queue[c]) \in Nat /\ DOMAIN queue[c] = 1 .. Len(queue[c])
           /\ \A i \in DOMAIN queue[c] : i \in DOMAIN queue'[c] /\ queue'[c][i] = queue[c][i]
           /\ \A i \in DOMAIN queue'[c] : i \in DOMAIN queue[c] \/ i \in Len(queue[c]) + 1 .. Len(queue'[c])
           /\ From(c) \in Nat /\ From(c)' \in Nat /\ From(c) <= From(c)'
           /\ link[c] # "registered" => From(c)' = From(c)
           /\ \A n \in 1 .. Len(log) : Reached(c, n) => Reached(c, n)'
           /\ \A n : Queued(c, n) => Queued(c, n)'
           /\ \A s, m : Coming(c, s, m) => Coming(c, s, m)'
           /\ \A s : ShowsLive(c, s)' => ShowsLive(c, s)
           /\ (c \in Attached)' <=> c \in Attached
           /\ (c \in Subscribed)' <=> c \in Subscribed
           /\ \A s : Shown(c, s)' = Shown(c, s)
  <1>0. /\ Len(queue[c]) \in Nat /\ DOMAIN queue[c] = 1 .. Len(queue[c]) /\ Len(log) \in Nat /\ DOMAIN log = 1 .. Len(log)
        /\ cursor[c] \in 0 .. Len(log) /\ latest[c] \in 0 .. Len(log)
    BY SeqsInLog
  <1>1. /\ \/ link'[c] = link[c]
           \/ link[c] = "direct" /\ link'[c] = "draining"
        /\ todo'[c] = todo[c] /\ latest'[c] = latest[c] /\ replayed'[c] = replayed[c] /\ required'[c] = required[c]
        /\ cursor'[c] = cursor[c] /\ content'[c] = content[c]
        /\ DOMAIN queue'[c] = 1 .. Len(queue'[c]) /\ Len(queue'[c]) \in Nat /\ Len(queue'[c]) >= Len(queue[c])
        /\ \A i \in 1 .. Len(queue[c]) : queue'[c][i] = queue[c][i]
    BY DEF Queues
  <1>2. Len(log') \in Nat /\ Len(log') >= Len(log) /\ \A i \in 1 .. Len(log) : log'[i] = log[i]
    BY DEF Adds, Extends
  <1>3. /\ \A i \in DOMAIN queue[c] : i \in DOMAIN queue'[c] /\ queue'[c][i] = queue[c][i]
        /\ \A i \in DOMAIN queue'[c] : i \in DOMAIN queue[c] \/ i \in Len(queue[c]) + 1 .. Len(queue'[c])
    BY <1>0, <1>1
  <1>4. From(c) \in Nat /\ From(c)' \in Nat /\ From(c) <= From(c)' /\ (link[c] # "registered" => From(c)' = From(c))
    <2>1. CASE link[c] = "registered"
      <3>1. From(c) = Len(log) /\ From(c)' = Len(log')
        BY <1>1, <2>1 DEF From
      <3> QED  BY <1>0, <1>2, <2>1, <3>1
    <2>2. CASE link[c] # "registered"
      <3>1. From(c)' = From(c)
        BY <1>1, <2>2 DEF From
      <3> QED  BY <2>2, <3>1, FromFacts
    <2> QED  BY <2>1, <2>2
  <1>5. \A n : Queued(c, n) => Queued(c, n)'
    BY <1>3 DEF Queued
  <1>6. \A n \in 1 .. Len(log) : Reached(c, n) => Reached(c, n)'
    BY <1>1, <1>2, <1>5 DEF Reached
  <1>7. \A s, m : Coming(c, s, m) => Coming(c, s, m)'
    BY <1>3 DEF Coming, Live
  <1>8. ASSUME NEW s, ShowsLive(c, s)' PROVE ShowsLive(c, s)
    <2>1. CASE link[c] \in {"direct", "draining"}
      BY <2>1 DEF ShowsLive
    <2>2. CASE link[c] \notin {"direct", "draining"}
      <3>1. s \notin replayed[c] \cup required[c] /\ \A n \in latest[c] + 1 .. From(c)' : ~RowOf(n, "aggregate", s)'
        BY <1>1, <1>8, <2>2 DEF ShowsLive
      <3>2. From(c) <= Len(log)
        BY FromInLog
      <3>3. ASSUME NEW n \in latest[c] + 1 .. From(c), RowOf(n, "aggregate", s) PROVE FALSE
        <4>1. n \in latest[c] + 1 .. From(c)'
          BY <1>0, <1>4
        <4>2. ~(log'[n].type = "aggregate" /\ log'[n].seg = s)
          BY <3>1, <4>1 DEF RowOf
        <4>3. ~(n \in 1 .. Len(log))
          BY <1>2, <3>3, <4>2 DEF RowOf
        <4>4. n \in 1 .. Len(log)
          BY <1>0, <1>4, <3>2
        <4> QED  BY <4>3, <4>4
      <3> QED  BY <3>1, <3>3 DEF ShowsLive
    <2> QED  BY <2>1, <2>2
  <1>9. ((c \in Attached)' <=> c \in Attached) /\ ((c \in Subscribed)' <=> c \in Subscribed) /\ \A s : Shown(c, s)' = Shown(c, s)
    BY <1>1 DEF Attached, Subscribed, Shown
  <1> QED  BY <1>0, <1>3, <1>4, <1>5, <1>6, <1>7, <1>8, <1>9

\* A client that reads nothing passes what it passed.
LEMMA PassesOn ==
    ASSUME BusInv, BusInv', Adds, NEW c \in Clients, Passes(c), (c \in Subscribed)' <=> c \in Subscribed,
           c \in Subscribed => link'[c] = link[c],
           todo'[c] = todo[c], latest'[c] = latest[c], raw'[c] = raw[c], replayed'[c] = replayed[c],
           required'[c] = required[c], cursor'[c] = cursor[c], content'[c] = content[c]
    PROVE  Passes(c)'
  <1> SUFFICES ASSUME c \in Subscribed
               PROVE  /\ cursor'[c] <= latest'[c] /\ PassedUpTo(c, latest[c])'
                      /\ raw'[c] \cap (replayed'[c] \cup required'[c]) = {}
                      /\ raw'[c] # {} => link'[c] = "live" /\ todo'[c] = <<>>
                      /\ link'[c] \notin {"registered", "live"} => required'[c] = {}
    BY DEF Passes
  <1>1. /\ Len(log) \in Nat /\ latest[c] \in 0 .. Len(log) /\ cursor[c] \in 0 .. Len(log)
        /\ \A i \in 1 .. Len(log) : log'[i] = log[i]
        /\ \A i \in 1 .. Len(log) : log[i].type \in {"aggregate", "end"} => sent'[log[i].seg] = sent[log[i].seg]
    BY SeqsInLog DEF Adds, Extends
  <1>2. PassedUpTo(c, latest[c])
    BY DEF Passes
  <1>3. ASSUME NEW k \in cursor[c] + 1 .. latest[c]
        PROVE  log'[k].type = "aggregate" /\ Len(content'[c][log'[k].seg]) = sent'[log'[k].seg]
    <2>1. k \in 1 .. Len(log) /\ log[k].type = "aggregate" /\ Len(content[c][log[k].seg]) = sent[log[k].seg]
      BY <1>1, <1>2 DEF PassedUpTo, Shown
    <2> QED  BY <1>1, <2>1
  <1>4. PassedUpTo(c, latest[c])'
    BY <1>3 DEF PassedUpTo, Shown
  <1> QED  BY <1>4 DEF Passes

\* A longer log, and a longer queue that has what was added, keep a client told.
LEMMA RowsTold ==
    ASSUME BusInv, BusInv', NEW c \in Clients, QueuesRows(c), ReplaysOn(c), Told(c), Adds, Queues(c), QueuesNext(c),
           c \in Attached /\ link'[c] # "draining" => Steady
    PROVE  Told(c)'
  <1>0. /\ Shows(c) /\ Passes(c) /\ InLine(c) /\ Gapless(c)
        /\ \A s \in Segments \ TextSegments : Hears(c, s)
    BY DEF Told
  <1>1. /\ Len(queue[c]) \in Nat /\ DOMAIN queue[c] = 1 .. Len(queue[c])
        /\ \A i \in DOMAIN queue[c] : i \in DOMAIN queue'[c] /\ queue'[c][i] = queue[c][i]
        /\ \A i \in DOMAIN queue'[c] : i \in DOMAIN queue[c] \/ i \in Len(queue[c]) + 1 .. Len(queue'[c])
        /\ From(c) \in Nat /\ From(c)' \in Nat /\ From(c) <= From(c)' /\ From(c) <= Len(log)
        /\ link[c] # "registered" => From(c)' = From(c)
        /\ \A n \in 1 .. Len(log) : Reached(c, n) => Reached(c, n)'
        /\ \A n : Queued(c, n) => Queued(c, n)'
        /\ \A s, m : Coming(c, s, m) => Coming(c, s, m)'
        /\ \A s : ShowsLive(c, s)' => ShowsLive(c, s)
        /\ (c \in Attached)' <=> c \in Attached
        /\ (c \in Subscribed)' <=> c \in Subscribed
        /\ \A s : Shown(c, s)' = Shown(c, s)
        /\ c \in Subscribed => link[c] # "direct"
    BY QueuesFacts, FromInLog DEF Subscribed
  <1>2. /\ \/ link'[c] = link[c]
           \/ link[c] = "direct" /\ link'[c] = "draining"
        /\ todo'[c] = todo[c] /\ latest'[c] = latest[c] /\ raw'[c] = raw[c] /\ replayed'[c] = replayed[c]
        /\ required'[c] = required[c] /\ cursor'[c] = cursor[c] /\ content'[c] = content[c]
        /\ link[c] \in {"registered", "live"} => c \in registered' \/ Over'
        /\ DOMAIN queue'[c] = 1 .. Len(queue'[c]) /\ Len(queue'[c]) \in Nat
    BY DEF Queues
  <1>3. /\ Len(log) \in Nat /\ DOMAIN log = 1 .. Len(log) /\ latest[c] \in 0 .. Len(log)
        /\ \A i \in DOMAIN queue[c] : queue[c][i] \in Events /\ queue[c][i].seq \in 0 .. Len(log)
        /\ Len(log') \in Nat /\ DOMAIN log' = 1 .. Len(log') /\ Len(log) <= Len(log')
        /\ \A i \in 1 .. Len(log) : log'[i] = log[i]
    BY SeqsInLog DEF Adds, Extends
  <1>4. /\ \A s \in Segments : sent[s] \in Nat /\ sent'[s] \in Nat /\ sent'[s] >= sent[s] /\ Shown(c, s) \in Nat
        /\ \A i \in 1 .. Len(log) : log[i].type \in {"aggregate", "end"} => sent'[log[i].seg] = sent[log[i].seg]
    <2>1. sent' \in [Segments -> Nat]
      BY EventBusAssumption DEF BusInv, ProducerInv
    <2> QED  BY <2>1, LogFacts, TextFacts DEF Adds
  <1>5. \A i \in Len(queue[c]) + 1 .. Len(queue'[c]) :
          /\ queue'[c][i].seq \in 1 .. Len(log') /\ queue'[c][i] = log'[queue'[c][i].seq]
          /\ queue'[c][i].seq > Len(log) \/ queue'[c][i].type = "terminal"
          /\ link[c] \in {"direct", "registered", "live"}
          /\ ~Live(queue'[c][i])
    BY <1>3 DEF QueuesNext, Live
  <1>6. Shows(c)' /\ \A n \in 0 .. Len(log) : PassedUpTo(c, n) => PassedUpTo(c, n)'
    BY <1>0, <1>2, ShowsGrows
  <1>7. Passes(c)'
    BY <1>0, <1>1, <1>2, PassesOn
  <1>live. ASSUME NEW i \in DOMAIN queue'[c], Live(queue'[c][i])
           PROVE  /\ i \in DOMAIN queue[c] /\ queue'[c][i] = queue[c][i] /\ Live(queue[c][i])
                  /\ queue[c][i].type = "chunk" /\ queue[c][i].seg \in Segments \ TextSegments
                  /\ queue[c][i].part \in 1 .. sent[queue[c][i].seg]
    <2>1. i \in DOMAIN queue[c]
      BY <1>1, <1>5, <1>live
    <2> QED  BY <1>0, <1>1, <1>live, <2>1 DEF InLine
  <1>start. ASSUME NEW i \in DOMAIN queue'[c], Live(queue'[c][i]), NEW n \in Len(log) + 1 .. Len(log'),
                   log'[n].type = "start", log'[n].seg = queue'[c][i].seg
            PROVE  FALSE
    <2>1. queue[c][i].part \in 1 .. sent[queue[c][i].seg] /\ queue'[c][i] = queue[c][i]
      BY <1>live, <1>start
    <2>2. sent[log'[n].seg] = 0
      BY <1>start DEF Adds
    <2> QED  BY <1>start, <2>1, <2>2
  <1>8. InLine(c)'
    <2>1. ASSUME NEW i \in DOMAIN queue'[c], Live(queue'[c][i])
          PROVE  /\ queue'[c][i].type = "chunk" /\ queue'[c][i].seg \in Segments \ TextSegments
                 /\ queue'[c][i].part \in 1 .. sent'[queue'[c][i].seg]
      <3>1. /\ queue'[c][i] = queue[c][i] /\ queue[c][i].type = "chunk" /\ queue[c][i].seg \in Segments \ TextSegments
            /\ queue[c][i].part \in 1 .. sent[queue[c][i].seg]
        BY <1>live, <2>1
      <3> QED  BY <1>4, <3>1
    <2>2. ASSUME NEW i \in DOMAIN queue'[c], NEW j \in DOMAIN queue'[c], i < j, queue'[c][i].seg = queue'[c][j].seg
          PROVE  /\ Live(queue'[c][i]) => queue'[c][j].type # "start"
                 /\ Live(queue'[c][j]) => queue'[c][i].type \notin {"aggregate", "end"}
                 /\ Live(queue'[c][i]) /\ Live(queue'[c][j]) => queue'[c][i].part < queue'[c][j].part
      <3>1. CASE j \in DOMAIN queue[c]
        <4>1. i \in DOMAIN queue[c] /\ queue'[c][i] = queue[c][i] /\ queue'[c][j] = queue[c][j]
          BY <1>1, <1>2, <2>2, <3>1
        <4>2. queue[c][i].seg = queue[c][j].seg /\ InLine(c)
          BY <1>0, <2>2, <4>1
        <4>3. /\ Live(queue[c][i]) => queue[c][j].type # "start"
              /\ Live(queue[c][j]) => queue[c][i].type \notin {"aggregate", "end"}
              /\ Live(queue[c][i]) /\ Live(queue[c][j]) => queue[c][i].part < queue[c][j].part
          BY <2>2, <3>1, <4>1, <4>2 DEF InLine
        <4> QED  BY <4>1, <4>3
      <3>2. CASE j \in Len(queue[c]) + 1 .. Len(queue'[c])
        <4>1. /\ ~Live(queue'[c][j]) /\ queue'[c][j].seq \in 1 .. Len(log') /\ queue'[c][j] = log'[queue'[c][j].seq]
              /\ queue'[c][j].seq > Len(log) \/ queue'[c][j].type = "terminal"
          BY <1>5, <3>2
        <4>2. ASSUME Live(queue'[c][i]), queue'[c][j].type = "start" PROVE FALSE
          <5>1. queue'[c][j].seq \in Len(log) + 1 .. Len(log')
            BY <1>3, <4>1, <4>2
          <5> QED  BY <1>start, <2>2, <4>1, <4>2, <5>1
        <4> QED  BY <4>1, <4>2
      <3> QED  BY <1>1, <3>1, <3>2
    <2> QED  BY <2>1, <2>2 DEF InLine, Live
  <1>9. Gapless(c)'
    <2> SUFFICES ASSUME c \in Attached PROVE Gapless(c)'
      BY <1>1 DEF Gapless
    <2>0. link[c] = "registered" => From(c)' = Len(log')
      BY <1>2 DEF From
    <2>2. ASSUME NEW i \in DOMAIN queue'[c], NEW n \in From(c)' + 1 .. queue'[c][i].seq - 1 PROVE Reached(c, n)'
      <3>0. queue'[c][i].seq \in 0 .. Len(log')
        <4>1. CASE i \in DOMAIN queue[c]
          BY <1>1, <1>3, <4>1
        <4>2. CASE i \in Len(queue[c]) + 1 .. Len(queue'[c])
          BY <1>3, <1>5, <4>2
        <4> QED  BY <1>1, <4>1, <4>2
      <3>1. link[c] # "registered" /\ From(c)' = From(c)
        BY <1>1, <1>3, <2>0, <2>2, <3>0
      <3>2. CASE i \in DOMAIN queue[c]
        <4>1. queue'[c][i] = queue[c][i] /\ n \in 1 .. Len(log)
          BY <1>1, <1>3, <3>1, <3>2
        <4>2. Reached(c, n)
          BY <1>0, <3>1, <3>2, <4>1 DEF Gapless
        <4> QED  BY <1>1, <4>1, <4>2
      <3>3. CASE i \in Len(queue[c]) + 1 .. Len(queue'[c])
        <4>1. (n \in 1 .. Len(log) /\ log[n].type # "terminal") \/ Reached(c, n)'
          BY <3>1, <3>3 DEF QueuesNext
        <4>2. ASSUME n \in 1 .. Len(log), log[n].type # "terminal" PROVE Reached(c, n)'
          <5>1. link[c] # "draining" /\ n \in From(c) + 1 .. Len(log)
            BY <1>1, <1>3, <1>5, <3>1, <3>3, <4>2
          <5>2. Reached(c, n)
            BY <1>0, <4>2, <5>1 DEF Gapless
          <5> QED  BY <1>1, <4>2, <5>2
        <4> QED  BY <4>1, <4>2
      <3> QED  BY <1>1, <3>2, <3>3
    <2>3. ASSUME link'[c] # "draining", NEW n \in From(c)' + 1 .. Len(log')
          PROVE  log'[n].type = "terminal" \/ Reached(c, n)'
      <3>1. link[c] # "registered" /\ From(c)' = From(c)
        BY <1>1, <1>3, <2>0, <2>3
      <3>2. CASE n \in Len(log) + 1 .. Len(log')
        BY <2>3, <3>2 DEF QueuesNext
      <3>3. CASE n \in 1 .. Len(log)
        <4>1. link[c] # "draining" /\ n \in From(c) + 1 .. Len(log)
          BY <1>1, <1>2, <1>3, <2>3, <3>1, <3>3
        <4>2. log[n].type = "terminal" \/ Reached(c, n)
          BY <1>0, <4>1 DEF Gapless
        <4> QED  BY <1>1, <1>3, <3>3, <4>2
      <3> QED  BY <1>1, <1>3, <3>2, <3>3
    <2>4. ASSUME NEW i \in DOMAIN queue'[c], Live(queue'[c][i]), NEW n \in DOMAIN log',
                 RowOf(n, "start", queue[c][i].seg)'
          PROVE  n <= From(c)' \/ Queued(c, n)'
      <3>1. CASE n \in Len(log) + 1 .. Len(log')
        BY <1>start, <2>4, <3>1 DEF RowOf
      <3>2. CASE n \in 1 .. Len(log)
        <4>1. i \in DOMAIN queue[c] /\ queue'[c][i] = queue[c][i] /\ Live(queue[c][i])
          BY <1>live, <2>4
        <4>2. RowOf(n, "start", queue[c][i].seg)
          BY <1>3, <2>4, <3>2, <4>1 DEF RowOf
        <4>3. n <= From(c) \/ Queued(c, n)
          <5>1. \A k \in DOMAIN log : RowOf(k, "start", queue[c][i].seg) => k <= From(c) \/ Queued(c, k)
            BY <1>0, <4>1 DEF Gapless
          <5> QED  BY <1>3, <3>2, <4>2, <5>1
        <4> QED  BY <1>1, <1>3, <3>2, <4>3
      <3> QED  BY <1>3, <3>1, <3>2
    <2>5. link'[c] \in {"registered", "live"} => c \in registered' \/ Over'
      BY <1>2
    <2>6. \A i \in DOMAIN queue'[c] : Live(queue'[c][i]) =>
             \A n \in DOMAIN log' : RowOf(n, "start", queue[c][i].seg)' => n <= From(c)' \/ Queued(c, n)'
      BY <2>4
    <2> QED  BY <2>2, <2>3, <2>5, <2>6 DEF Gapless, Live
  <1>10. ASSUME NEW s \in Segments \ TextSegments PROVE Hears(c, s)'
    <2> SUFFICES ASSUME c \in Attached, ShowsLive(c, s)
                 PROVE  /\ \A i \in DOMAIN queue'[c] : Live(queue'[c][i]) /\ queue'[c][i].seg = s =>
                              /\ queue'[c][i].part > Shown(c, s)
                              /\ \A m \in Shown(c, s) + 1 .. queue'[c][i].part - 1 : Coming(c, s, m)'
                        /\ \A i \in DOMAIN queue'[c] :
                              queue'[c][i].type \in {"aggregate", "end"} /\ queue'[c][i].seg = s =>
                              \A m \in Shown(c, s) + 1 .. sent'[s] : Coming(c, s, m)'
                        /\ driver' = "on" /\ stage'[s] = "open" /\ link'[c] # "draining" =>
                              \A m \in Shown(c, s) + 1 .. sent'[s] : Coming(c, s, m)'
      BY <1>1 DEF Hears, ComingUpTo, Live
    <2>1. ASSUME NEW i \in DOMAIN queue'[c], Live(queue'[c][i]), queue'[c][i].seg = s
          PROVE  /\ queue'[c][i].part > Shown(c, s)
                 /\ \A m \in Shown(c, s) + 1 .. queue'[c][i].part - 1 : Coming(c, s, m)'
      <3>1. i \in DOMAIN queue[c] /\ queue'[c][i] = queue[c][i] /\ Live(queue[c][i])
        BY <1>live, <2>1
      <3>2. queue[c][i].part > Shown(c, s) /\ ComingUpTo(c, s, queue[c][i].part - 1)
        BY <1>0, <2>1, <3>1 DEF Hears
      <3> QED  BY <1>1, <3>1, <3>2 DEF ComingUpTo
    <2>c. ASSUME ComingUpTo(c, s, sent[s]), sent'[s] = sent[s]
          PROVE  \A m \in Shown(c, s) + 1 .. sent'[s] : Coming(c, s, m)'
      BY <1>1, <2>c DEF ComingUpTo
    <2>2. ASSUME NEW i \in DOMAIN queue'[c], queue'[c][i].type \in {"aggregate", "end"}, queue'[c][i].seg = s
          PROVE  \A m \in Shown(c, s) + 1 .. sent'[s] : Coming(c, s, m)'
      <3>1. CASE i \in DOMAIN queue[c]
        <4>1. queue'[c][i] = queue[c][i]
          BY <1>1, <3>1
        <4>2. ~Live(queue[c][i])
          BY <1>0, <2>2, <3>1, <4>1 DEF InLine
        <4>3. queue[c][i].seq \in 1 .. Len(log) /\ queue[c][i] = log[queue[c][i].seq]
          BY <1>3, <3>1, <4>2 DEF Live, QueuesRows
        <4>4. sent'[s] = sent[s]
          BY <1>4, <2>2, <4>1, <4>3
        <4>5. ComingUpTo(c, s, sent[s])
          BY <1>0, <2>2, <3>1, <4>1 DEF Hears
        <4> QED  BY <2>c, <4>4, <4>5
      <3>2. CASE i \in Len(queue[c]) + 1 .. Len(queue'[c])
        <4>1. /\ queue'[c][i].seq \in Len(log) + 1 .. Len(log') /\ queue'[c][i] = log'[queue'[c][i].seq]
              /\ link[c] # "draining"
          BY <1>3, <1>5, <2>2, <3>2
        <4>2. driver = "on" /\ stage[s] = "open" /\ sent'[s] = sent[s]
          BY <2>2, <4>1 DEF Adds
        <4>3. ComingUpTo(c, s, sent[s])
          BY <1>0, <4>1, <4>2 DEF Hears
        <4> QED  BY <2>c, <4>2, <4>3
      <3> QED  BY <1>1, <3>1, <3>2
    <2>3. ASSUME driver' = "on", stage'[s] = "open", link'[c] # "draining"
          PROVE  \A m \in Shown(c, s) + 1 .. sent'[s] : Coming(c, s, m)'
      <3>1. sent'[s] = 0 \/ (driver = "on" /\ stage[s] = "open" /\ sent'[s] = sent[s])
        BY <2>3 DEF Steady
      <3>2. CASE sent'[s] = 0
        BY <1>4, <3>2
      <3>3. CASE driver = "on" /\ stage[s] = "open" /\ sent'[s] = sent[s]
        <4>1. link[c] # "draining"
          BY <1>2, <2>3
        <4>2. ComingUpTo(c, s, sent[s])
          BY <1>0, <3>3, <4>1 DEF Hears
        <4> QED  BY <2>c, <3>3, <4>2
      <3> QED  BY <3>1, <3>2, <3>3
    <2> QED  BY <2>1, <2>2, <2>3
  <1> QED  BY <1>6, <1>7, <1>8, <1>9, <1>10 DEF Told

\* c is handed all rows of a commit, the last row when the others are aggregates
\* and it is a direct stream, or nothing that it waits for.
Given(c, k) ==
    /\ Handed(c, k)
    /\ \/ k = Len(log') - Len(log) /\ link[c] \in {"registered", "live"}
       \/ k = 1 /\ link[c] = "direct" /\ \A i \in Len(log) + 1 .. Len(log') - 1 : log'[i].type = "aggregate"
       \/ k = 0 /\ (c \in Attached /\ link'[c] # "draining" =>
                       \A i \in Len(log) + 1 .. Len(log') : log'[i].type = "terminal")

LEMMA GivenFollows ==
    ASSUME BusInv, BusInv', ~Over, Adds, Len(log') > Len(log), NEW c \in Clients, NEW k, Given(c, k),
           \/ link'[c] = link[c]
           \/ link[c] = "direct" /\ link'[c] = "draining"
    PROVE  QueuesNext(c)
  <1> DEFINE L == Len(log)
             M == Len(log')
             Q == Len(queue[c])
  <1>0. /\ L \in Nat /\ DOMAIN log = 1 .. L /\ M \in Nat /\ DOMAIN log' = 1 .. M /\ Q \in Nat /\ From(c) \in Nat
        /\ L < M /\ Len(queue'[c]) = Q + k /\ k \in Nat /\ DOMAIN queue'[c] = 1 .. Q + k
        /\ \A i \in 1 .. k : queue'[c][Q + i] = log'[M - k + i]
    BY SeqsInLog, FromFacts DEF Adds, Extends, Given, Handed
  <1>1. \A i \in 1 .. M : log'[i].seq = i
    BY <1>0 DEF BusInv, LogInv
  <1>2. \A n \in 1 .. L : log[n].type # "terminal"
    BY <1>0 DEF Over
  <1> HIDE DEF L, M, Q
  <1>3. ASSUME NEW i \in 1 .. k, k <= M - L
        PROVE  /\ M - k + i \in L + 1 .. M /\ Q + i \in DOMAIN queue'[c]
               /\ queue'[c][Q + i].seq = M - k + i /\ queue'[c][Q + i] = log'[M - k + i]
               /\ \A n : n = M - k + i => Queued(c, n)'
    <2>1. M - k + i \in L + 1 .. M /\ M - k + i \in 1 .. M /\ Q + i \in DOMAIN queue'[c]
      BY <1>0, <1>3
    <2>2. queue'[c][Q + i].seq = M - k + i /\ queue'[c][Q + i] = log'[M - k + i]
      BY <1>0, <1>1, <2>1
    <2>3. ASSUME NEW n, n = M - k + i PROVE Queued(c, n)'
      BY <2>1, <2>2, <2>3 DEF Queued
    <2> QED  BY <2>1, <2>2, <2>3
  <1>4. \A n \in From(c) + 1 .. L : n \in 1 .. L /\ log[n].type # "terminal"
    BY <1>0, <1>2
  <1>q. ASSUME link[c] \in {"direct", "registered", "live"}, \A n \in L + 1 .. M : Reached(c, n)',
               \A i \in Q + 1 .. Q + k :
                  /\ queue'[c][i].seq \in L + 1 .. M /\ queue'[c][i] = log'[queue'[c][i].seq]
                  /\ \A n \in From(c) + 1 .. queue'[c][i].seq - 1 :
                        (n \in 1 .. L /\ log[n].type # "terminal") \/ Reached(c, n)'
        PROVE  QueuesNext(c)
    <2>1. \A i \in Len(queue[c]) + 1 .. Len(queue'[c]) :
             /\ queue'[c][i].seq \in 1 .. Len(log') /\ queue'[c][i] = log'[queue'[c][i].seq] /\ queue'[c][i].seq > Len(log)
             /\ \A n \in From(c) + 1 .. queue'[c][i].seq - 1 :
                   (n \in 1 .. Len(log) /\ log[n].type # "terminal") \/ Reached(c, n)'
      <3>1. Len(queue'[c]) = Q + k /\ Q = Len(queue[c])
        BY <1>0 DEF Q
      <3>2. \A m \in L + 1 .. M : m \in 1 .. Len(log') /\ m > Len(log)
        BY <1>0 DEF L, M
      <3> QED  BY <1>q, <3>1, <3>2 DEF L
    <2>2. \A n \in Len(log) + 1 .. Len(log') : Reached(c, n)'
      BY <1>q DEF L, M
    <2> QED  BY <1>q, <2>1, <2>2 DEF QueuesNext
  <1>5. CASE k = M - L /\ link[c] \in {"registered", "live"}
    <2>1. ASSUME NEW n \in L + 1 .. M PROVE Reached(c, n)'
      <3>1. n - L \in 1 .. k /\ M - k + (n - L) = n /\ k <= M - L
        BY <1>0, <1>5
      <3>2. Queued(c, n)'
        BY <1>3, <3>1
      <3> QED  BY <3>2 DEF Reached
    <2>2. ASSUME NEW i \in Q + 1 .. Q + k
          PROVE  /\ queue'[c][i].seq \in L + 1 .. M /\ queue'[c][i] = log'[queue'[c][i].seq]
                 /\ \A n \in From(c) + 1 .. queue'[c][i].seq - 1 :
                       (n \in 1 .. L /\ log[n].type # "terminal") \/ Reached(c, n)'
      <3>1. i - Q \in 1 .. k /\ Q + (i - Q) = i /\ k <= M - L
        BY <1>0, <1>5
      <3>2. queue'[c][i].seq \in L + 1 .. M /\ queue'[c][i] = log'[queue'[c][i].seq]
        BY <1>3, <3>1
      <3>3. ASSUME NEW n \in From(c) + 1 .. queue'[c][i].seq - 1
            PROVE  (n \in 1 .. L /\ log[n].type # "terminal") \/ Reached(c, n)'
        <4>1. n \in From(c) + 1 .. L \/ n \in L + 1 .. M
          BY <1>0, <3>2
        <4> QED  BY <1>4, <2>1, <4>1
      <3> QED  BY <3>2, <3>3
    <2> QED  BY <1>q, <1>5, <2>1, <2>2
  <1>6. CASE k = 1 /\ link[c] = "direct" /\ \A i \in L + 1 .. M - 1 : log'[i].type = "aggregate"
    <2>1. ASSUME NEW n \in L + 1 .. M PROVE Reached(c, n)'
      <3>1. CASE n = M
        <4>1. 1 \in 1 .. k /\ M - k + 1 = n /\ k <= M - L
          BY <1>0, <1>6, <3>1
        <4>2. Queued(c, n)'
          BY <1>3, <4>1
        <4> QED  BY <4>2 DEF Reached
      <3>2. CASE n # M
        <4>1. log'[n].type = "aggregate"
          BY <1>0, <1>6, <3>2
        <4>2. link'[c] \in {"direct", "draining"}
          BY <1>6
        <4> QED  BY <4>1, <4>2 DEF Reached
      <3> QED  BY <3>1, <3>2
    <2>2. ASSUME NEW i \in Q + 1 .. Q + k
          PROVE  /\ queue'[c][i].seq \in L + 1 .. M /\ queue'[c][i] = log'[queue'[c][i].seq]
                 /\ \A n \in From(c) + 1 .. queue'[c][i].seq - 1 :
                       (n \in 1 .. L /\ log[n].type # "terminal") \/ Reached(c, n)'
      <3>1. i - Q \in 1 .. k /\ Q + (i - Q) = i /\ k <= M - L
        BY <1>0, <1>6
      <3>2. queue'[c][i].seq \in L + 1 .. M /\ queue'[c][i] = log'[queue'[c][i].seq]
        BY <1>3, <3>1
      <3>3. ASSUME NEW n \in From(c) + 1 .. queue'[c][i].seq - 1
            PROVE  (n \in 1 .. L /\ log[n].type # "terminal") \/ Reached(c, n)'
        <4>1. n \in From(c) + 1 .. L \/ n \in L + 1 .. M
          BY <1>0, <3>2
        <4> QED  BY <1>4, <2>1, <4>1
      <3> QED  BY <3>2, <3>3
    <2> QED  BY <1>q, <1>6, <2>1, <2>2
  <1>7. CASE k = 0 /\ (c \in Attached /\ link'[c] # "draining" => \A i \in L + 1 .. M : log'[i].type = "terminal")
    <2>1. \A i \in Q + 1 .. Len(queue'[c]) : FALSE
      BY <1>0, <1>7
    <2> QED  BY <1>7, <2>1 DEF QueuesNext, L, M, Q
  <1> QED  BY <1>5, <1>6, <1>7 DEF Given, L, M

\* c is told what is committed, or it does not wait for it.
LEMMA CommitTold ==
    ASSUME BusInv, BusInv', ~Over, Adds, Steady, Len(log') > Len(log), UNCHANGED <<todo, subscription, view>>,
           NEW c \in Clients, Ordered(c), Told(c), NEW k, Given(c, k),
           \/ link'[c] = link[c]
           \/ link[c] = "direct" /\ link'[c] = "draining",
           c \in registered => c \in registered' \/ Over'
    PROVE  Told(c)'
  <1>1. QueuesRows(c) /\ ReplaysOn(c)
    BY DEF Ordered
  <1>2. QueuesNext(c)
    BY GivenFollows
  <1>3. link[c] \in {"registered", "live"} => c \in registered
    BY DEF Told, Gapless, Attached
  <1>4. /\ Len(queue[c]) \in Nat /\ k \in Nat /\ Len(queue'[c]) = Len(queue[c]) + k /\ DOMAIN queue'[c] = 1 .. Len(queue'[c])
        /\ \A i \in 1 .. Len(queue[c]) : queue'[c][i] = queue[c][i]
    BY SeqsInLog DEF Given, Handed
  <1>5. Len(queue'[c]) \in Nat /\ Len(queue'[c]) >= Len(queue[c])
    BY <1>4
  <1>6. Queues(c)
    BY <1>3, <1>4, <1>5 DEF Queues, subscription, filter, view
  <1> QED  BY <1>1, <1>2, <1>6, RowsTold

LEMMA QuietAdds == ASSUME BusInv, log' = log, sent' = sent PROVE Adds
  <1>1. Len(log) \in Nat /\ DOMAIN log = 1 .. Len(log) /\ sent \in [Segments -> Nat]
    BY LogFacts
  <1>2. Extends
    BY <1>1 DEF Extends
  <1>3. \A i \in Len(log) + 1 .. Len(log') : FALSE
    BY <1>1
  <1>4. \A s \in Segments : sent'[s] >= sent[s]
    BY <1>1
  <1> QED  BY <1>2, <1>3, <1>4 DEF Adds

\* c is given nothing.
LEMMA QuietTold ==
    ASSUME BusInv, BusInv', NEW c \in Clients, Ordered(c), Told(c), Adds, log' = log, queue'[c] = queue[c],
           UNCHANGED <<todo, subscription, view>>,
           \/ link'[c] = link[c]
           \/ link[c] = "direct" /\ link'[c] = "draining",
           c \in registered => c \in registered' \/ Over',
           c \in Attached /\ link'[c] # "draining" => Steady
    PROVE  Told(c)'
  <1>1. QueuesRows(c) /\ ReplaysOn(c)
    BY DEF Ordered
  <1>2. Len(queue[c]) \in Nat /\ DOMAIN queue[c] = 1 .. Len(queue[c]) /\ Len(log) \in Nat
    BY SeqsInLog
  <1>3. (\A i \in Len(queue[c]) + 1 .. Len(queue'[c]) : FALSE) /\ (\A n \in Len(log) + 1 .. Len(log') : FALSE)
    BY <1>2
  <1>4. QueuesNext(c)
    BY <1>3 DEF QueuesNext
  <1>5. link[c] \in {"registered", "live"} => c \in registered' \/ Over'
    BY DEF Told, Gapless, Attached, Over
  <1>6. Queues(c)
    BY <1>2, <1>5 DEF Queues, subscription, filter, view
  <1> QED  BY <1>1, <1>4, <1>6, RowsTold

\* The direct stream of a producer that is stopped is given the terminal.
LEMMA StoppedTold ==
    ASSUME BusInv, BusInv', TerminalIsLast, NEW c \in Clients, Ordered(c), Told(c), StopDriver
    PROVE  Told(c)'
  <1>1. /\ log' = log /\ sent' = sent /\ driver' = "gone" /\ registered' = registered /\ Over
        /\ UNCHANGED <<todo, subscription, view>>
    BY DEF StopDriver
  <1>2. Adds /\ Steady
    BY <1>1, QuietAdds DEF Steady
  <1>3. CASE c \notin Direct
    <2>1. queue'[c] = queue[c] /\ link'[c] = link[c]
      BY <1>3 DEF StopDriver, CloseDirect
    <2> QED  BY <1>1, <1>2, <2>1, QuietTold
  <1>4. CASE c \in Direct
    <2>1. link[c] = "direct" /\ link'[c] = "draining" /\ queue'[c] = Append(queue[c], Last(log))
      BY <1>4 DEF StopDriver, CloseDirect, Direct
    <2>2. /\ Len(log) \in Nat /\ DOMAIN log = 1 .. Len(log) /\ From(c) \in Nat
          /\ Len(queue[c]) \in Nat /\ DOMAIN queue[c] = 1 .. Len(queue[c])
          /\ queue[c] \in Seq(Events) /\ \A i \in 1 .. Len(log) : log[i] \in Events /\ log[i].seq = i
      BY SeqsInLog, FromFacts
    <2>3. /\ Len(log) \in 1 .. Len(log) /\ log[Len(log)].type = "terminal" /\ Last(log) = log[Len(log)]
          /\ \A n \in 1 .. Len(log) : n # Len(log) => log[n].type # "terminal"
      BY <1>1, <2>2 DEF Over, TerminalIsLast, Last
    <2>4. /\ Len(queue'[c]) = Len(queue[c]) + 1 /\ DOMAIN queue'[c] = 1 .. Len(queue'[c])
          /\ \A i \in 1 .. Len(queue[c]) : queue'[c][i] = queue[c][i]
          /\ queue'[c][Len(queue[c]) + 1] = log[Len(log)]
      <3> DEFINE q == queue[c]
                 e == Last(log)
      <3>1. e \in Events /\ q \in Seq(Events)
        BY <2>2, <2>3
      <3> HIDE DEF q, e
      <3>2. /\ Len(Append(q, e)) = Len(q) + 1 /\ DOMAIN Append(q, e) = 1 .. Len(q) + 1
            /\ \A i \in 1 .. Len(q) : Append(q, e)[i] = q[i]
            /\ Append(q, e)[Len(q) + 1] = e
        BY <3>1, AppendProperties
      <3> QED  BY <2>1, <2>3, <3>2 DEF q, e
    <2>5. QueuesNext(c)
      <3>1. ASSUME NEW i \in Len(queue[c]) + 1 .. Len(queue'[c])
            PROVE  /\ queue'[c][i].seq \in 1 .. Len(log') /\ queue'[c][i] = log'[queue'[c][i].seq]
                   /\ queue'[c][i].type = "terminal"
                   /\ \A n \in From(c) + 1 .. queue'[c][i].seq - 1 : n \in 1 .. Len(log) /\ log[n].type # "terminal"
        <4>1. i = Len(queue[c]) + 1
          BY <2>2, <2>4
        <4>2. queue'[c][i] = log[Len(log)] /\ queue'[c][i].seq = Len(log)
          BY <2>2, <2>3, <2>4, <4>1
        <4>3. \A n \in From(c) + 1 .. Len(log) - 1 : n \in 1 .. Len(log) /\ n # Len(log)
          <5>1. Len(log) \in Nat /\ From(c) \in Nat
            BY <2>2
          <5> QED  BY <5>1
        <4> QED  BY <1>1, <2>3, <4>2, <4>3
      <3> QED  BY <2>1, <3>1 DEF QueuesNext
    <2>6. Queues(c)
      BY <1>1, <2>1, <2>2, <2>4 DEF Queues, subscription, filter, view
    <2> QED  BY <1>2, <2>5, <2>6, RowsTold DEF Ordered
  <1> QED  BY <1>3, <1>4

\* Who answers the question has shown all there is.
LEMMA ResumedTold ==
    ASSUME BusInv, BusInv', LogText, NEW c \in Clients, Ordered(c), Told(c), Resume(c) PROVE Told(c)'
  <1>1. /\ log' = log /\ sent' = sent /\ stage' = stage /\ driver = "parked" /\ cursor' = cursor /\ content' = content
        /\ link[c] = "off" /\ cursor[c] = Len(log) /\ queue' = queue /\ link'[c] = "direct"
    BY DEF Resume, view, BusInv, LinkInv
  <1>2. Len(log) \in Nat /\ queue'[c] = <<>> /\ \A i \in DOMAIN queue'[c] : FALSE
    <2>1. \A i \in DOMAIN <<>> : FALSE
      OBVIOUS
    <2> QED  BY <1>1, <2>1, SeqsInLog DEF Ordered, QueuesRows
  <1>3. \A s \in Segments : stage[s] # "open"
    BY <1>1 DEF LogText, Buffered
  <1>4. Shows(c)'
    BY <1>1 DEF Told, Shows, Shown
  <1>5. Passes(c)' /\ InLine(c)'
    BY <1>1, <1>2 DEF Passes, InLine, Subscribed
  <1>6. From(c)' = Len(log') /\ Len(log') \in Nat
    BY <1>1, <1>2 DEF From
  <1>7. Gapless(c)'
    <2>1. \A n \in From(c)' + 1 .. Len(log') : FALSE
      BY <1>6
    <2> QED  BY <1>1, <1>2, <2>1 DEF Gapless
  <1>8. ASSUME NEW s \in Segments \ TextSegments PROVE Hears(c, s)'
    BY <1>1, <1>2, <1>3 DEF Hears
  <1> QED  BY <1>4, <1>5, <1>7, <1>8 DEF Told

\* A chunk that is no row is published and c is handed it.
LiveChunk(c, s, e) ==
    /\ log' = log /\ driver = "on" /\ stage[s] = "open" /\ UNCHANGED <<driver, stage>>
    /\ sent' = [sent EXCEPT ![s] = @ + 1]
    /\ e \in Events /\ e.seq = 0 /\ e.type = "chunk" /\ e.seg = s /\ e.part = sent[s] + 1
    /\ queue'[c] = Append(queue[c], e)
    /\ link'[c] = link[c] /\ (c \in registered' <=> c \in registered)
    /\ UNCHANGED <<todo, subscription, view>>

LEMMA ChunkAdds ==
    ASSUME BusInv, LogText, NEW s \in Segments, stage[s] = "open", sent' = [sent EXCEPT ![s] = @ + 1], log' = log
    PROVE  /\ Adds
           /\ sent'[s] = sent[s] + 1 /\ \A t \in Segments : t # s => sent'[t] = sent[t]
           /\ \A i \in 1 .. Len(log) : log[i].type \in {"aggregate", "end"} => log[i].seg \in Segments /\ log[i].seg # s
  <1>1. /\ Len(log) \in Nat /\ DOMAIN log = 1 .. Len(log) /\ sent \in [Segments -> Nat]
        /\ \A i \in 1 .. Len(log) : log[i].type # "terminal" => log[i].seg \in Segments
    BY LogFacts
  <1>2. sent'[s] = sent[s] + 1 /\ \A t \in Segments : t # s => sent'[t] = sent[t]
    BY <1>1
  <1>3. \A i \in 1 .. Len(log) : log[i].type \in {"aggregate", "end"} => log[i].seg \in Segments /\ log[i].seg # s
    BY <1>1 DEF LogText, Staged
  <1>4. Extends
    BY <1>1 DEF Extends
  <1>5. \A i \in Len(log) + 1 .. Len(log') : FALSE
    BY <1>1
  <1>6. \A t \in Segments : sent'[t] >= sent[t]
    BY <1>1, <1>2
  <1> QED  BY <1>2, <1>3, <1>4, <1>5, <1>6 DEF Adds

LEMMA LiveTold ==
    ASSUME BusInv, BusInv', LogText, NEW c \in Clients, Ordered(c), Told(c), c \in Attached, link[c] # "draining",
           NEW s \in Segments \ TextSegments, NEW e, LiveChunk(c, s, e)
    PROVE  Told(c)'
  <1> DEFINE Q == Len(queue[c])
  <1>0. /\ Shows(c) /\ Passes(c) /\ InLine(c) /\ Gapless(c)
        /\ \A t \in Segments \ TextSegments : Hears(c, t)
    BY DEF Told
  <1>1. /\ log' = log /\ driver' = driver /\ stage' = stage /\ driver = "on" /\ stage[s] = "open"
        /\ e \in Events /\ e.seq = 0 /\ e.type = "chunk" /\ e.seg = s /\ e.part = sent[s] + 1
        /\ link'[c] = link[c] /\ (c \in registered' <=> c \in registered)
        /\ todo'[c] = todo[c] /\ latest'[c] = latest[c] /\ raw'[c] = raw[c] /\ replayed'[c] = replayed[c]
        /\ required'[c] = required[c] /\ cursor'[c] = cursor[c] /\ content'[c] = content[c]
    BY DEF LiveChunk, subscription, filter, view
  <1>2. /\ Adds
        /\ sent'[s] = sent[s] + 1 /\ \A t \in Segments : t # s => sent'[t] = sent[t]
        /\ \A i \in 1 .. Len(log) : log[i].type \in {"aggregate", "end"} => log[i].seg \in Segments /\ log[i].seg # s
    BY ChunkAdds DEF LiveChunk
  <1>3. /\ Len(log) \in Nat /\ DOMAIN log = 1 .. Len(log) /\ Q \in Nat /\ DOMAIN queue[c] = 1 .. Q
        /\ queue[c] \in Seq(Events) /\ From(c) \in Nat
        /\ \A i \in DOMAIN queue[c] : queue[c][i] \in Events /\ queue[c][i].seq \in 0 .. Len(log)
        /\ \A t \in Segments : sent[t] \in Nat /\ Shown(c, t) \in Nat /\ Shown(c, t) <= sent[t]
    BY SeqsInLog, FromFacts, LogFacts, TextFacts, <1>0 DEF Shows
  <1>4. /\ DOMAIN queue'[c] = 1 .. Q + 1 /\ queue'[c][Q + 1] = e
        /\ \A i \in 1 .. Q : queue'[c][i] = queue[c][i]
    <2> DEFINE q == queue[c]
    <2>1. q \in Seq(Events) /\ e \in Events /\ queue'[c] = Append(q, e) /\ Q = Len(q)
      BY <1>1, <1>3 DEF LiveChunk
    <2> HIDE DEF q, Q
    <2>2. /\ DOMAIN Append(q, e) = 1 .. Len(q) + 1 /\ Append(q, e)[Len(q) + 1] = e
          /\ \A i \in 1 .. Len(q) : Append(q, e)[i] = q[i]
      BY <2>1, AppendProperties
    <2> QED  BY <2>1, <2>2 DEF q
  <1> HIDE DEF Q
  <1>5. /\ \A i \in DOMAIN queue[c] : i \in DOMAIN queue'[c] /\ queue'[c][i] = queue[c][i] /\ i \in Nat /\ i <= Q
        /\ \A i \in DOMAIN queue'[c] : i \in DOMAIN queue[c] \/ (i = Q + 1 /\ queue'[c][i] = e)
        /\ Q + 1 \in DOMAIN queue'[c]
    BY <1>3, <1>4
  <1>6. /\ \A n : Queued(c, n) => Queued(c, n)'
        /\ \A n : Reached(c, n) => Reached(c, n)'
        /\ \A t, m : Coming(c, t, m) => Coming(c, t, m)'
        /\ From(c)' = From(c)
        /\ \A t : ShowsLive(c, t)' => ShowsLive(c, t)
        /\ \A t : Shown(c, t)' = Shown(c, t)
    <2>1. \A n : Queued(c, n) => Queued(c, n)'
      BY <1>5 DEF Queued
    <2>2. \A n : Reached(c, n) => Reached(c, n)'
      BY <1>1, <2>1 DEF Reached
    <2>3. \A t, m : Coming(c, t, m) => Coming(c, t, m)'
      BY <1>5 DEF Coming, Live
    <2>4. From(c)' = From(c)
      BY <1>1 DEF From
    <2>5. \A t : ShowsLive(c, t)' => ShowsLive(c, t)
      BY <1>1, <2>4 DEF ShowsLive, RowOf
    <2> QED  BY <1>1, <2>1, <2>2, <2>3, <2>4, <2>5 DEF Shown
  <1>7. Shows(c)'
    BY <1>0, <1>1, <1>2, ShowsGrows
  <1>8. Passes(c)'
    BY <1>0, <1>1, <1>2, PassesOn DEF Subscribed
  <1>closed. ASSUME NEW i \in DOMAIN queue[c], queue[c][i].type \in {"aggregate", "end"} PROVE queue[c][i].seg # s
    <2>1. queue[c][i].seq \in 1 .. Len(log) /\ queue[c][i] = log[queue[c][i].seq]
      BY <1>0, <1>3, <1>closed DEF InLine, Live, Ordered, QueuesRows
    <2> QED  BY <1>2, <1>closed, <2>1
  <1>9. InLine(c)'
    <2>1. ASSUME NEW i \in DOMAIN queue'[c], Live(queue'[c][i])
          PROVE  /\ queue'[c][i].type = "chunk" /\ queue'[c][i].seg \in Segments \ TextSegments
                 /\ queue'[c][i].part \in 1 .. sent'[queue'[c][i].seg]
      <3>1. CASE i = Q + 1 /\ queue'[c][i] = e
        BY <1>1, <1>2, <1>3, <3>1
      <3>2. CASE i \in DOMAIN queue[c]
        <4>1. /\ queue[c][i].type = "chunk" /\ queue[c][i].seg \in Segments \ TextSegments
              /\ queue[c][i].part \in 1 .. sent[queue[c][i].seg] /\ queue'[c][i] = queue[c][i]
          BY <1>0, <1>5, <2>1, <3>2 DEF InLine
        <4>2. \A t \in Segments : sent'[t] \in Nat /\ sent'[t] >= sent[t]
          BY <1>2, <1>3
        <4> QED  BY <1>3, <4>1, <4>2
      <3> QED  BY <1>5, <3>1, <3>2
    <2>2. ASSUME NEW i \in DOMAIN queue'[c], NEW j \in DOMAIN queue'[c], i < j, queue'[c][i].seg = queue'[c][j].seg
          PROVE  /\ Live(queue'[c][i]) => queue'[c][j].type # "start"
                 /\ Live(queue'[c][j]) => queue'[c][i].type \notin {"aggregate", "end"}
                 /\ Live(queue'[c][i]) /\ Live(queue'[c][j]) => queue'[c][i].part < queue'[c][j].part
      <3>0. i \in DOMAIN queue[c] /\ queue'[c][i] = queue[c][i]
        BY <1>3, <1>4, <1>5, <2>2
      <3>1. CASE j = Q + 1 /\ queue'[c][j] = e
        <4>1. queue[c][i].seg = s
          BY <1>1, <2>2, <3>0, <3>1
        <4>2. Live(queue[c][i]) => queue[c][i].part \in 1 .. sent[s]
          BY <1>0, <3>0, <4>1 DEF InLine
        <4> QED  BY <1>1, <1>3, <1>closed, <3>0, <3>1, <4>1, <4>2
      <3>2. CASE j \in DOMAIN queue[c]
        <4>1. queue'[c][j] = queue[c][j] /\ queue[c][i].seg = queue[c][j].seg
          BY <1>5, <2>2, <3>0, <3>2
        <4>2. /\ Live(queue[c][i]) => queue[c][j].type # "start"
              /\ Live(queue[c][j]) => queue[c][i].type \notin {"aggregate", "end"}
              /\ Live(queue[c][i]) /\ Live(queue[c][j]) => queue[c][i].part < queue[c][j].part
          BY <1>0, <2>2, <3>0, <3>2, <4>1 DEF InLine
        <4> QED  BY <3>0, <4>1, <4>2
      <3> QED  BY <1>5, <3>1, <3>2
    <2> QED  BY <2>1, <2>2 DEF InLine, Live
  <1>10. Gapless(c)'
    <2>1. ASSUME NEW i \in DOMAIN queue'[c], NEW n \in From(c) + 1 .. queue'[c][i].seq - 1 PROVE Reached(c, n)'
      <3>1. CASE i = Q + 1 /\ queue'[c][i] = e
        BY <1>1, <1>3, <2>1, <3>1
      <3>2. CASE i \in DOMAIN queue[c]
        BY <1>0, <1>5, <1>6, <2>1, <3>2 DEF Gapless
      <3> QED  BY <1>5, <3>1, <3>2
    <2>2. ASSUME NEW n \in From(c) + 1 .. Len(log) PROVE log[n].type = "terminal" \/ Reached(c, n)
      BY <1>0, <2>2 DEF Gapless
    <2>3. ASSUME NEW i \in DOMAIN queue'[c], Live(queue'[c][i]), NEW n \in DOMAIN log, RowOf(n, "start", queue[c][i].seg)'
          PROVE  n <= From(c) \/ Queued(c, n)'
      <3>1. CASE i = Q + 1 /\ queue'[c][i] = e
        <4>1. log[n].type = "start"
          BY <1>1, <2>3 DEF RowOf
        <4>2. n <= From(c) \/ n \in From(c) + 1 .. Len(log)
          BY <1>3
        <4>3. n <= From(c) \/ Queued(c, n)
          BY <2>2, <4>1, <4>2 DEF Reached
        <4> QED  BY <1>3, <1>6, <4>3
      <3>2. CASE i \in DOMAIN queue[c]
        <4>1. Live(queue[c][i]) /\ RowOf(n, "start", queue[c][i].seg)
          BY <1>1, <1>5, <2>3, <3>2 DEF RowOf
        <4>2. \A k \in DOMAIN log : RowOf(k, "start", queue[c][i].seg) => k <= From(c) \/ Queued(c, k)
          BY <1>0, <3>2, <4>1 DEF Gapless
        <4> QED  BY <1>3, <1>6, <4>1, <4>2
      <3> QED  BY <1>5, <3>1, <3>2
    <2>4. link'[c] \in {"registered", "live"} => c \in registered' \/ Over'
      BY <1>0, <1>1 DEF Gapless, Over
    <2>5. \A i \in DOMAIN queue'[c] : \A n \in From(c)' + 1 .. queue'[c][i].seq - 1 : Reached(c, n)'
      BY <1>6, <2>1
    <2>6. \A n \in From(c)' + 1 .. Len(log') : log'[n].type = "terminal" \/ Reached(c, n)'
      BY <1>1, <1>6, <2>2
    <2>7. \A i \in DOMAIN queue'[c] : Live(queue'[c][i]) =>
             \A n \in DOMAIN log' : RowOf(n, "start", queue[c][i].seg)' => n <= From(c)' \/ Queued(c, n)'
      BY <1>1, <1>6, <2>3
    <2> QED  BY <2>4, <2>5, <2>6, <2>7 DEF Gapless, Live
  <1>11. ASSUME NEW t \in Segments \ TextSegments PROVE Hears(c, t)'
    <2> SUFFICES ASSUME ShowsLive(c, t)
                 PROVE  /\ \A i \in DOMAIN queue'[c] : Live(queue'[c][i]) /\ queue'[c][i].seg = t =>
                              /\ queue'[c][i].part > Shown(c, t)
                              /\ \A m \in Shown(c, t) + 1 .. queue'[c][i].part - 1 : Coming(c, t, m)'
                        /\ \A i \in DOMAIN queue'[c] :
                              queue'[c][i].type \in {"aggregate", "end"} /\ queue'[c][i].seg = t =>
                              \A m \in Shown(c, t) + 1 .. sent'[t] : Coming(c, t, m)'
                        /\ driver' = "on" /\ stage'[t] = "open" /\ link'[c] # "draining" =>
                              \A m \in Shown(c, t) + 1 .. sent'[t] : Coming(c, t, m)'
      BY <1>6 DEF Hears, ComingUpTo, Live
    <2>0. /\ \A i \in DOMAIN queue[c] : Live(queue[c][i]) /\ queue[c][i].seg = t =>
                queue[c][i].part > Shown(c, t) /\ ComingUpTo(c, t, queue[c][i].part - 1)
          /\ \A i \in DOMAIN queue[c] : queue[c][i].type \in {"aggregate", "end"} /\ queue[c][i].seg = t =>
                ComingUpTo(c, t, sent[t])
          /\ stage[t] = "open" => ComingUpTo(c, t, sent[t])
      BY <1>0, <1>1 DEF Hears
    <2>1. ASSUME NEW i \in DOMAIN queue'[c], Live(queue'[c][i]), queue'[c][i].seg = t
          PROVE  /\ queue'[c][i].part > Shown(c, t)
                 /\ \A m \in Shown(c, t) + 1 .. queue'[c][i].part - 1 : Coming(c, t, m)'
      <3>1. CASE i = Q + 1 /\ queue'[c][i] = e
        <4>1. t = s /\ ComingUpTo(c, s, sent[s]) /\ queue'[c][i].part = sent[s] + 1
          BY <1>1, <2>0, <2>1, <3>1
        <4> QED  BY <1>3, <1>6, <4>1 DEF ComingUpTo
      <3>2. CASE i \in DOMAIN queue[c]
        <4>1. queue[c][i].part > Shown(c, t) /\ ComingUpTo(c, t, queue[c][i].part - 1) /\ queue'[c][i] = queue[c][i]
          BY <1>5, <2>0, <2>1, <3>2
        <4> QED  BY <1>6, <4>1 DEF ComingUpTo
      <3> QED  BY <1>5, <3>1, <3>2
    <2>2. ASSUME NEW i \in DOMAIN queue'[c], queue'[c][i].type \in {"aggregate", "end"}, queue'[c][i].seg = t
          PROVE  \A m \in Shown(c, t) + 1 .. sent'[t] : Coming(c, t, m)'
      <3>1. i \in DOMAIN queue[c] /\ queue'[c][i] = queue[c][i]
        BY <1>1, <1>5, <2>2
      <3>2. t # s /\ ComingUpTo(c, t, sent[t])
        BY <1>closed, <2>0, <2>2, <3>1
      <3> QED  BY <1>2, <1>6, <3>2 DEF ComingUpTo
    <2>3. ASSUME stage[t] = "open" PROVE \A m \in Shown(c, t) + 1 .. sent'[t] : Coming(c, t, m)'
      <3>0. ComingUpTo(c, t, sent[t])
        BY <2>0, <2>3
      <3>1. CASE t # s
        BY <1>2, <1>6, <3>0, <3>1 DEF ComingUpTo
      <3>2. CASE t = s
        <4>1. ASSUME NEW m \in Shown(c, t) + 1 .. sent[s] + 1 PROVE Coming(c, t, m)'
          <5>1. CASE m = sent[s] + 1
            BY <1>1, <1>5, <1>4, <3>2, <5>1 DEF Coming, Live
          <5>2. CASE m # sent[s] + 1
            <6>1. m \in Shown(c, t) + 1 .. sent[t]
              <7>1. sent[s] \in Nat /\ Shown(c, t) \in Nat /\ t = s
                BY <1>3, <3>2
              <7> QED  BY <5>2, <7>1
            <6> QED  BY <1>6, <3>0, <6>1 DEF ComingUpTo
          <5> QED  BY <5>1, <5>2
        <4> QED  BY <1>2, <3>2, <4>1
      <3> QED  BY <3>1, <3>2
    <2> QED  BY <1>1, <2>1, <2>2, <2>3
  <1> QED  BY <1>7, <1>8, <1>9, <1>10, <1>11 DEF Told
-----------------------------------------------------------------------------
(* The steps, one by one, and what they keep.                              *)

\* Rows are committed and handed on as they are.
LEMMA PublishTold ==
    ASSUME BusInv, BusInv', OrderInv, ~Over, Adds, Steady, Len(log') > Len(log), UNCHANGED <<todo, subscription, view>>,
           NEW D \in SUBSET Direct,
           \A c \in Clients : Handed(c, IF c \in registered THEN Len(log') - Len(log) ELSE IF c \in D THEN 1 ELSE 0),
           \A i \in Len(log) + 1 .. Len(log') - 1 : log'[i].type = "aggregate",
           \A c \in Clients : \/ link'[c] = link[c]
                              \/ link[c] = "direct" /\ link'[c] = "draining",
           \A c \in Direct \ D : link'[c] = "draining" \/ \A i \in Len(log) + 1 .. Len(log') : log'[i].type = "terminal",
           registered' = registered \/ Over',
           \A c \in Clients : Told(c)
    PROVE  \A c \in Clients : Told(c)'
  <1> TAKE c \in Clients
  <1>0. Ordered(c) /\ Told(c) /\ (c \in registered => c \in registered' \/ Over')
    BY DEF OrderInv
  <1>1. c \in registered => link[c] \in {"registered", "live"}
    BY DEF BusInv, LinkInv
  <1>2. link[c] \in {"registered", "live"} => c \in registered
    BY DEF Told, Gapless, Attached
  <1>3. CASE c \in registered
    <2>1. Given(c, Len(log') - Len(log))
      BY <1>1, <1>3 DEF Given
    <2> QED  BY <1>0, <2>1, CommitTold
  <1>4. CASE c \notin registered /\ c \in D
    <2>1. Given(c, 1)
      BY <1>4 DEF Given, Direct
    <2> QED  BY <1>0, <2>1, CommitTold
  <1>5. CASE c \notin registered /\ c \notin D
    <2>1. Handed(c, 0)
      BY <1>5
    <2>2. c \in Attached /\ link'[c] # "draining" => c \in Direct
      BY <1>2, <1>5 DEF Attached, Direct
    <2>3. Given(c, 0)
      BY <1>5, <2>1, <2>2 DEF Given
    <2> QED  BY <1>0, <2>3, CommitTold
  <1> QED  BY <1>3, <1>4, <1>5

LEMMA CloseTold ==
    ASSUME BusInv, BusInv', OrderInv, ~Over, NEW D \in SUBSET Direct, PublishRows(<<TerminalEvent>>, D),
           UNCHANGED <<todo, subscription, view>>, UNCHANGED sent, UNCHANGED <<stage, driver>> \/ driver' # "on",
           \A c \in Clients : \/ link'[c] = link[c]
                              \/ link[c] = "direct" /\ link'[c] = "draining",
           registered' = registered \/ Over',
           \A c \in Clients : Told(c)
    PROVE  \A c \in Clients : Told(c)'
  <1>1. /\ Extends /\ Len(log') = Len(log) + 1 /\ log'[Len(log')].type = "terminal"
        /\ \A c \in Clients : Handed(c, IF c \in registered \/ c \in D THEN 1 ELSE 0)
    BY RoundCloses
  <1>2. Adds /\ Len(log) \in Nat /\ \A i \in Len(log) + 1 .. Len(log') : log'[i].type = "terminal"
    <2>1. Len(log) \in Nat /\ sent \in [Segments -> Nat]
      BY LogFacts
    <2>2. \A i \in Len(log) + 1 .. Len(log') : i = Len(log')
      BY <1>1, <2>1
    <2> QED  BY <1>1, <2>1, <2>2 DEF Adds
  <1>3. Steady
    BY DEF Steady
  <1>4. \A c \in Clients : Handed(c, IF c \in registered THEN Len(log') - Len(log) ELSE IF c \in D THEN 1 ELSE 0)
    <2>1. Len(log') - Len(log) = 1
      BY <1>1, <1>2
    <2> QED  BY <1>1, <2>1
  <1>5. Len(log') > Len(log) /\ \A i \in Len(log) + 1 .. Len(log') - 1 : FALSE
    BY <1>1, <1>2
  <1> QED  BY <1>2, <1>3, <1>4, <1>5, PublishTold

LEMMA StartTold ==
    ASSUME BusInv, BusInv', LogText, OrderInv, NEW s \in Segments, StartSegment(s), \A c \in Clients : Told(c)
    PROVE  \A c \in Clients : Told(c)'
  <1> DEFINE e == Event("start", s, 0)
  <1>1. e \in Events /\ e.type = "start" /\ e.seg = s
    BY EventBusAssumption DEF Event, Events
  <1>2. /\ PublishRows(<<e>>, Direct) /\ ~Over /\ stage[s] = "new" /\ stage' = [stage EXCEPT ![s] = "open"]
        /\ driver = "on" /\ UNCHANGED <<driver, sent, registered, link>> /\ UNCHANGED <<todo, subscription, view>>
    BY DEF StartSegment
  <1> HIDE DEF e
  <1>3. /\ Extends /\ Len(log') = Len(log) + 1
        /\ log'[Len(log')].type = "start" /\ log'[Len(log')].seg = s
        /\ \A c \in Clients : Handed(c, IF c \in registered \/ c \in Direct THEN 1 ELSE 0)
    BY <1>1, <1>2, OneRowMore
  <1>4. /\ Len(log) \in Nat /\ sent \in [Segments -> Nat] /\ stage \in [Segments -> {"new", "open", "done"}]
        /\ sent[s] = 0
    BY <1>2, LogFacts DEF LogText, Buffered
  <1>5. Adds
    <2>1. \A i \in Len(log) + 1 .. Len(log') : i = Len(log')
      BY <1>3, <1>4
    <2> QED  BY <1>2, <1>3, <1>4, <2>1 DEF Adds
  <1>6. Steady
    BY <1>2, <1>4 DEF Steady
  <1>7. \A c \in Clients : Handed(c, IF c \in registered THEN Len(log') - Len(log) ELSE IF c \in Direct THEN 1 ELSE 0)
    <2>1. Len(log') - Len(log) = 1
      BY <1>3, <1>4
    <2> QED  BY <1>3, <2>1
  <1>8. Len(log') > Len(log) /\ \A i \in Len(log) + 1 .. Len(log') - 1 : FALSE
    BY <1>3, <1>4
  <1> QED  BY <1>2, <1>5, <1>6, <1>7, <1>8, PublishTold

LEMMA EndTold ==
    ASSUME BusInv, BusInv', LogText, OrderInv, NEW s \in Segments, EndSegment(s), \A c \in Clients : Told(c)
    PROVE  \A c \in Clients : Told(c)'
  <1>1. /\ Extends /\ ClosingAdded(s)
        /\ \A c \in Clients : Handed(c, IF c \in registered THEN Len(log') - Len(log) ELSE IF c \in Direct THEN 1 ELSE 0)
    BY SegmentCloses
  <1>2. /\ ~Over /\ driver = "on" /\ UNCHANGED <<driver, sent, registered, link>> /\ UNCHANGED <<todo, subscription, view>>
        /\ stage[s] = "open" /\ stage' = [stage EXCEPT ![s] = "done"]
    BY DEF EndSegment
  <1>3. Len(log) \in Nat /\ sent \in [Segments -> Nat] /\ stage \in [Segments -> {"new", "open", "done"}]
    BY LogFacts
  <1>4. /\ Len(log') > Len(log)
        /\ \A i \in Len(log) + 1 .. Len(log') : log'[i].type \in {"aggregate", "end"} /\ log'[i].seg = s
        /\ \A i \in Len(log) + 1 .. Len(log') - 1 : log'[i].type = "aggregate"
    <2>1. CASE Len(log') = Len(log) + 1
      <3>1. \A i \in Len(log) + 1 .. Len(log') : i = Len(log')
        BY <1>3, <2>1
      <3>2. \A i \in Len(log) + 1 .. Len(log') - 1 : FALSE
        BY <1>3, <2>1
      <3> QED  BY <1>1, <1>3, <2>1, <3>1, <3>2 DEF ClosingAdded
    <2>2. CASE Len(log') # Len(log) + 1
      <3>1. /\ Len(log') = Len(log) + 2
            /\ log'[Len(log) + 1].type = "aggregate" /\ log'[Len(log) + 1].seg = s
            /\ log'[Len(log')].type = "end" /\ log'[Len(log')].seg = s
        BY <1>1, <2>2 DEF ClosingAdded
      <3>2. \A i \in Len(log) + 1 .. Len(log') : i = Len(log) + 1 \/ i = Len(log')
        BY <1>3, <3>1
      <3>3. \A i \in Len(log) + 1 .. Len(log') - 1 : i = Len(log) + 1
        BY <1>3, <3>1
      <3> QED  BY <1>3, <3>1, <3>2, <3>3
    <2> QED  BY <2>1, <2>2
  <1>5. Adds
    BY <1>1, <1>2, <1>3, <1>4 DEF Adds
  <1>6. Steady
    BY <1>2, <1>3 DEF Steady
  <1> QED  BY <1>1, <1>2, <1>4, <1>5, <1>6, PublishTold

LEMMA ChunkTold ==
    ASSUME BusInv, BusInv', LogText, OrderInv, NEW s \in Segments, Chunk(s), \A c \in Clients : Told(c)
    PROVE  \A c \in Clients : Told(c)'
  <1> DEFINE e == Event("chunk", s, sent[s] + 1)
  <1>1. e \in Events /\ e.seq = 0 /\ e.type = "chunk" /\ e.seg = s /\ e.part = sent[s] + 1
    BY ChunkEvent DEF Chunk
  <1>2. /\ ~Over /\ driver = "on" /\ stage[s] = "open" /\ sent' = [sent EXCEPT ![s] = @ + 1]
        /\ UNCHANGED <<driver, stage, registered, link>> /\ UNCHANGED <<todo, subscription, view>>
        /\ IF s \in TextSegments THEN PublishRows(<<e>>, Direct) ELSE Fanout(<<e>>, Direct) /\ log' = log
    BY DEF Chunk
  <1> HIDE DEF e
  <1>3. /\ Len(log) \in Nat /\ sent \in [Segments -> Nat] /\ DOMAIN log = 1 .. Len(log)
        /\ \A i \in 1 .. Len(log) : log[i].type # "terminal" => log[i].seg \in Segments
    BY LogFacts
  <1>4. CASE s \in TextSegments
    <2>1. /\ Extends /\ Len(log') = Len(log) + 1
          /\ log'[Len(log')].type = "chunk" /\ log'[Len(log')].seg = s /\ log'[Len(log')].part = sent[s] + 1
          /\ \A c \in Clients : Handed(c, IF c \in registered \/ c \in Direct THEN 1 ELSE 0)
      BY <1>1, <1>2, <1>4, OneRowMore
    <2>2. Adds
      <3>1. \A i \in Len(log) + 1 .. Len(log') : i = Len(log')
        BY <1>3, <2>1
      <3>2. \A i \in 1 .. Len(log) : log[i].type \in {"aggregate", "end"} => log[i].seg \in Segments /\ log[i].seg # s
        BY <1>2, <1>3 DEF LogText, Staged
      <3>3. sent'[s] = sent[s] + 1 /\ \A t \in Segments : t # s => sent'[t] = sent[t]
        BY <1>2, <1>3
      <3>4. \A t \in Segments : sent'[t] >= sent[t]
        BY <1>3, <3>3
      <3>5. sent[s] + 1 > sent[s]
        BY <1>3
      <3> QED  BY <2>1, <3>1, <3>2, <3>3, <3>4, <3>5 DEF Adds
    <2>3. Steady
      BY <1>2, <1>3, <1>4 DEF Steady
    <2>4. \A c \in Clients : Handed(c, IF c \in registered THEN Len(log') - Len(log) ELSE IF c \in Direct THEN 1 ELSE 0)
      <3>1. Len(log') - Len(log) = 1
        BY <1>3, <2>1
      <3> QED  BY <2>1, <3>1
    <2>5. Len(log') > Len(log) /\ \A i \in Len(log) + 1 .. Len(log') - 1 : FALSE
      BY <1>3, <2>1
    <2> QED  BY <1>2, <2>2, <2>3, <2>4, <2>5, PublishTold
  <1>5. CASE s \notin TextSegments
    <2> SUFFICES ASSUME NEW c \in Clients PROVE Told(c)'
      OBVIOUS
    <2>1. Ordered(c) /\ Told(c) /\ Adds /\ log' = log
      BY <1>2, <1>5, ChunkAdds DEF OrderInv
    <2>2. Last(<<e>>) = e
      BY DEF Last
    <2>3. /\ queue'[c] = IF c \in registered THEN queue[c] \o <<e>>
                         ELSE IF c \in Direct THEN Append(queue[c], e) ELSE queue[c]
          /\ queue[c] \in Seq(Events)
      BY <1>2, <1>5, <2>2, SeqsInLog DEF Fanout
    <2>4. CASE c \in registered \/ c \in Direct
      <3>1. queue'[c] = Append(queue[c], e)
        BY <1>1, <2>3, <2>4, AppendIsConcat
      <3>2. c \in Attached /\ link[c] # "draining"
        BY <2>4 DEF BusInv, LinkInv, Direct, Attached
      <3>3. LiveChunk(c, s, e)
        BY <1>1, <1>2, <2>1, <3>1 DEF LiveChunk
      <3> QED  BY <1>5, <2>1, <3>2, <3>3, LiveTold
    <2>5. CASE c \notin registered /\ c \notin Direct
      <3>1. ~(c \in Attached /\ link'[c] # "draining")
        BY <1>2, <2>1, <2>5 DEF Told, Gapless, Attached, Direct
      <3> QED  BY <1>2, <2>1, <2>3, <2>5, <3>1, QuietTold
    <2> QED  BY <2>4, <2>5
  <1> QED  BY <1>4, <1>5

LEMMA ProduceTold ==
    ASSUME BusInv, BusInv', LogText, OrderInv, TerminalIsLast, \A c \in Clients : Told(c), Produce
    PROVE  \A c \in Clients : Told(c)'
  <1>0. \A c \in Clients : Ordered(c) /\ link[c] \in {"off", "direct", "draining", "replay", "last", "ensured", "registered", "live"}
    BY DEF OrderInv, BusInv, LinkInv
  <1>c. ASSUME CloseDirect PROVE /\ \A c \in Clients : \/ link'[c] = link[c]
                                                       \/ link[c] = "direct" /\ link'[c] = "draining"
                                 /\ \A c \in Direct : link'[c] = "draining"
    BY <1>c DEF CloseDirect, Direct
  <1>q. ASSUME log' = log, queue' = queue, sent' = sent, UNCHANGED <<todo, subscription, view>>, registered' = registered,
               CloseDirect, driver' # "on"
        PROVE  \A c \in Clients : Told(c)'
    <2>1. Adds /\ Steady
      BY <1>q, QuietAdds DEF Steady
    <2> QED  BY <1>0, <1>c, <1>q, <2>1, QuietTold
  <1>1. CASE FinishStream
    <2>1. /\ ~Over /\ driver' = "gone" /\ PublishRows(<<TerminalEvent>>, Direct) /\ CloseDirect
          /\ UNCHANGED <<todo, subscription, view>> /\ sent' = sent /\ registered' = registered
      BY <1>1 DEF FinishStream
    <2>2. Direct \in SUBSET Direct
      OBVIOUS
    <2> QED  BY <1>c, <2>1, <2>2, CloseTold
  <1>2. CASE Fail
    <2>1. /\ ~Over /\ CloseDirect /\ UNCHANGED <<todo, subscription, view>> /\ sent' = sent /\ registered' = registered
          /\ \/ driver' = "gone" /\ PublishRows(<<TerminalEvent>>, {})
             \/ driver' = "lost" /\ log' = log /\ queue' = queue
      BY <1>2 DEF Fail
    <2>2. CASE driver' = "gone" /\ PublishRows(<<TerminalEvent>>, {})
      <3>1. {} \in SUBSET Direct
        OBVIOUS
      <3> QED  BY <1>c, <2>1, <2>2, <3>1, CloseTold
    <2>3. CASE driver' = "lost" /\ log' = log /\ queue' = queue
      BY <1>q, <2>1, <2>3
    <2> QED  BY <2>1, <2>2, <2>3
  <1>3. CASE StopDriver
    BY <1>0, <1>3, StoppedTold
  <1>4. CASE Suspend \/ LoseLiveness
    <2>1. /\ log' = log /\ queue' = queue /\ sent' = sent /\ UNCHANGED <<todo, subscription, view>>
          /\ registered' = registered /\ CloseDirect /\ driver' # "on"
      BY <1>4 DEF Suspend, LoseLiveness
    <2> QED  BY <1>q, <2>1
  <1>5. ASSUME NEW d \in Clients, Resume(d) PROVE \A c \in Clients : Told(c)'
    <2> TAKE c \in Clients
    <2>1. CASE c = d
      BY <1>0, <1>5, <2>1, ResumedTold
    <2>2. CASE c # d
      <3>1. /\ log' = log /\ queue' = queue /\ sent' = sent /\ stage' = stage /\ driver = "parked"
            /\ UNCHANGED <<todo, subscription, view>> /\ registered' = registered /\ link'[c] = link[c]
        BY <1>5, <2>2 DEF Resume, BusInv, LinkInv
      <3>2. \A s \in Segments : stage[s] # "open"
        BY <3>1 DEF LogText, Buffered
      <3>3. Adds /\ Steady
        BY <3>1, <3>2, QuietAdds DEF Steady
      <3> QED  BY <1>0, <3>1, <3>3, QuietTold
    <2> QED  BY <2>1, <2>2
  <1> QED  BY <1>1, <1>2, <1>3, <1>4, <1>5, StartTold, ChunkTold, EndTold DEF Produce

LEMMA ConvergeTold ==
    ASSUME BusInv, BusInv', LogText, OrderInv, \A c \in Clients : Told(c), Converge
    PROVE  \A c \in Clients : Told(c)'
  <1>0. {} \in SUBSET Direct /\ \A c \in Clients : Ordered(c)
    BY DEF OrderInv
  <1>1. CASE AbortRound
    <2>1. /\ ~Over /\ PublishRows(<<TerminalEvent>>, {}) /\ UNCHANGED <<todo, subscription, view>>
          /\ UNCHANGED <<sent, stage, driver, link>>
      BY <1>1 DEF AbortRound, producer
    <2>2. Over'
      <3>1. Extends /\ log'[Len(log')].type = "terminal" /\ Len(log') = Len(log) + 1
        BY <2>1, RoundCloses
      <3>2. Len(log') \in DOMAIN log'
        BY <3>1, LogFacts DEF Extends
      <3> QED  BY <3>1, <3>2 DEF Over
    <2> QED  BY <1>0, <2>1, <2>2, CloseTold
  <1>2. ASSUME NEW elsewhere, RecoverRound(elsewhere) PROVE \A c \in Clients : Told(c)'
    <2>1. /\ ~Over /\ UNCHANGED <<todo, subscription, view>> /\ UNCHANGED <<sent, stage, driver, link>> /\ registered' = registered
          /\ IF elsewhere THEN log' = Append(log, [TerminalEvent EXCEPT !.seq = Len(log) + 1]) /\ queue' = queue
             ELSE PublishRows(<<TerminalEvent>>, {})
      BY <1>2 DEF RecoverRound, producer
    <2>2. CASE ~elsewhere
      BY <1>0, <2>1, <2>2, CloseTold
    <2>3. CASE elsewhere
      <3>1. Extends /\ Len(log') = Len(log) + 1 /\ log'[Len(log')].type = "terminal"
        BY <2>1, <2>3, RoundClosesElsewhere
      <3>2. Len(log) \in Nat /\ sent \in [Segments -> Nat]
        BY LogFacts
      <3>3. \A i \in Len(log) + 1 .. Len(log') : i = Len(log')
        BY <3>1, <3>2
      <3>4. Adds /\ Steady /\ Len(log') > Len(log)
        BY <2>1, <3>1, <3>2, <3>3 DEF Adds, Steady
      <3> TAKE c \in Clients
      <3>5. Handed(c, 0)
        <4>1. queue'[c] = queue[c] /\ Len(queue[c]) \in Nat /\ DOMAIN queue[c] = 1 .. Len(queue[c])
          BY <2>1, <2>3, SeqsInLog
        <4> QED  BY <4>1 DEF Handed
      <3>6. Given(c, 0)
        BY <3>1, <3>3, <3>5 DEF Given
      <3> QED  BY <1>0, <2>1, <3>4, <3>6, CommitTold
    <2> QED  BY <2>2, <2>3
  <1>3. CASE CrashProcess
    <2> TAKE c \in Clients
    <2>1. link'[c] = "off" /\ queue'[c] = <<>> /\ UNCHANGED <<log, sent>> /\ cursor' = cursor /\ content' = content
      BY <1>3 DEF CrashProcess, view
    <2>2. Shows(c)'
      BY <2>1 DEF Told, Shows, Shown
    <2>3. Passes(c)'
      BY <2>1 DEF Passes, Subscribed
    <2> QED  BY <2>1, <2>2, <2>3, DeafTold
  <1> QED  BY <1>1, <1>2, <1>3 DEF Converge

\* What every client shows, what it has passed and what is on its way to it add
\* up to what the producer has sent.
THEOREM TextInvariance == BusSpec => []TextInv
  <1>1. BusInit => TextInv
    <2> SUFFICES ASSUME BusInit PROVE TextInv
      OBVIOUS
    <2>1. /\ log = <<>> /\ driver = "on" /\ \A i \in DOMAIN log : FALSE
          /\ \A s \in Segments : stage[s] = "new" /\ sent[s] = 0 /\ buffer[s] = 0
      BY DEF BusInit
    <2>2. LogText
      <3>1. \A t \in TextSegments : \A m \in 1 .. sent[t] : FALSE
        BY <2>1, EventBusAssumption
      <3> QED  BY <2>1, <3>1 DEF LogText, RowsInLine, ChunksAreRows, SummedUp, Staged, Buffered
    <2>3. ASSUME NEW c \in Clients PROVE Told(c)
      <3>1. /\ queue[c] = <<>> /\ \A i \in DOMAIN queue[c] : FALSE
            /\ link[c] \in {"direct", "off"} /\ cursor[c] = 0 /\ Len(log) = 0
            /\ \A s \in Segments : content[c][s] = <<>>
        BY <2>1 DEF BusInit
      <3>2. \A s \in Segments : Shown(c, s) = 0 /\ content[c][s] = Whole(0)
        BY <3>1, WholeFacts DEF Shown
      <3>3. Shows(c)
        BY <2>1, <3>2 DEF Shows
      <3>4. Passes(c) /\ InLine(c)
        BY <3>1 DEF Passes, InLine, Subscribed
      <3>5. Gapless(c)
        <4>1. From(c) = 0
          BY <3>1 DEF From
        <4>2. \A n \in From(c) + 1 .. Len(log) : FALSE
          BY <3>1, <4>1
        <4> QED  BY <3>1, <4>2 DEF Gapless
      <3>6. ASSUME NEW s \in Segments \ TextSegments PROVE Hears(c, s)
        BY <2>1, <3>1 DEF Hears
      <3> QED  BY <3>3, <3>4, <3>5, <3>6 DEF Told
    <2> QED  BY <2>2, <2>3 DEF TextInv
  <1>2. BusInv /\ BusInv' /\ TerminalIsLast /\ OrderInv /\ TextInv /\ [BusNext]_busVars => TextInv'
    <2> SUFFICES ASSUME BusInv, BusInv', TerminalIsLast, OrderInv, TextInv, [BusNext]_busVars PROVE TextInv'
      OBVIOUS
    <2>1. LogText /\ (\A c \in Clients : Told(c)) /\ LogText'
      BY LogTextStep DEF TextInv
    <2>2. CASE UNCHANGED busVars
      <3>1. \A c \in Clients : Unmoved(c)
        BY <2>2 DEF busVars, subscription, filter, view, Unmoved
      <3> QED  BY <2>1, <3>1, UnmovedTold DEF TextInv
    <2>3. CASE BusNext
      <3>1. CASE Produce
        BY <2>1, <3>1, ProduceTold DEF TextInv
      <3>2. CASE Converge
        BY <2>1, <3>2, ConvergeTold DEF TextInv
      <3>3. ASSUME NEW c \in Clients, Subscribe(c) \/ Disconnect(c) \/ Stream(c) PROVE TextInv'
        BY <2>1, <3>3, ConnectionTold DEF TextInv
      <3> QED  BY <2>3, <3>1, <3>2, <3>3 DEF BusNext
    <2> QED  BY <2>2, <2>3
  <1> QED  BY <1>1, <1>2, BusInvariance, TerminalIsLastHolds, OrderInvariance, PTL DEF BusSpec

\* A client shows the first chunks of a segment, each once and in their order,
\* and all of them once its cursor is past the end (publish, subscribe,
\* _StreamViewFilter, applyThinkingDelta).
THEOREM ContentIsExactHolds == BusSpec => []ContentIsExact
  <1>1. BusInv /\ TextInv => ContentIsExact
    <2> SUFFICES ASSUME BusInv, TextInv, NEW c \in Clients
                 PROVE  /\ \A s \in Segments : IsPrefix(content[c][s], Whole(sent[s]))
                        /\ \A i \in 1 .. cursor[c] :
                              log[i].type = "end" => content[c][log[i].seg] = Whole(sent[log[i].seg])
      BY DEF ContentIsExact
    <2>1. Shows(c)
      BY DEF TextInv, Told
    <2>2. ASSUME NEW s \in Segments PROVE IsPrefix(content[c][s], Whole(sent[s]))
      <3>1. Shown(c, s) \in Nat /\ sent[s] \in Nat /\ Shown(c, s) <= sent[s] /\ content[c][s] = Whole(Shown(c, s))
        BY <2>1, TextFacts, LogFacts DEF Shows
      <3> DEFINE m == Shown(c, s)
                 n == sent[s]
      <3>2. m \in Nat /\ n \in Nat /\ m <= n /\ content[c][s] = Whole(m)
        BY <3>1
      <3> HIDE DEF m, n
      <3>3. Whole(m) \in Seq(Nat) /\ Whole(n) \in Seq(Nat)
        BY <3>2 DEF Whole
      <3>4. Len(Whole(m)) = m /\ Len(Whole(n)) = n
        BY <3>2, WholeFacts
      <3>5. SubSeq(Whole(m), 1, m) = SubSeq(Whole(n), 1, m)
        BY <3>2 DEF Whole
      <3>6. IsPrefix(Whole(m), Whole(n))
        BY <3>2, <3>4, <3>5 DEF IsPrefix
      <3> QED  BY <3>2, <3>6 DEF n
    <2>3. ASSUME NEW i \in 1 .. cursor[c], log[i].type = "end" PROVE content[c][log[i].seg] = Whole(sent[log[i].seg])
      <3>1. i \in DOMAIN log /\ log[i].seg \in Segments /\ i <= cursor[c]
        BY <2>3, LogFacts, TextFacts
      <3> QED  BY <2>1, <2>3, <3>1 DEF Shows
    <2> QED  BY <2>2, <2>3
  <1> QED  BY <1>1, BusInvariance, TextInvariance, PTL
-----------------------------------------------------------------------------
(* What an open connection still waits for is on its way to it.            *)

\* c shows the row n, or all that it stands for.
Passed(c, n) ==
    \/ n <= cursor[c]
    \/ log[n].type = "aggregate" /\ Shown(c, log[n].seg) = sent[log[n].seg]

OnItsWay(c, n) == \/ \E i \in DOMAIN todo[c] : todo[c][i] = log[n]
                  \/ \E i \in DOMAIN queue[c] : queue[c][i] = log[n]

\* Every row committed so far that a live subscriber does not show is in its
\* replay or in its queue (subscribe: register, then catch up).  The terminal
\* is the matter of TerminalIsAhead.
RowsAreAhead ==
    \A c \in Clients : link[c] = "live" =>
        \A n \in DOMAIN log : log[n].type = "terminal" \/ Passed(c, n) \/ OnItsWay(c, n)

\* Whoever is still connected to a Round that was closed will be told: a direct
\* stream has a producer that comes to its next write, a subscriber is to catch
\* up with the terminal, or has it before it.  With RollingStart the cleanup of
\* another process may have closed the Round behind a live subscriber's back.
TerminalIsAhead ==
    Over => \A c \in Clients :
        /\ link[c] = "direct" => driver = "on"
        /\ link[c] \in {"ensured", "registered"} => latest[c] < Len(log)
        /\ link[c] = "live" /\ ~RollingStart => OnItsWay(c, Len(log))

Waits(c) == Over =>
    /\ link[c] \in {"ensured", "registered", "live"} => latest[c] < Len(log)
    /\ link[c] = "live" /\ ~RollingStart /\ latest[c] + Len(todo[c]) < Len(log) => Queued(c, Len(log))
Driven == \A c \in Clients : link[c] = "direct" => driver = "on"
WaitInv == Driven /\ \A c \in Clients : Waits(c)

\* A direct stream is there as long as its producer.
LEMMA DrivenStep == ASSUME BusInv, Driven, [BusNext]_busVars PROVE Driven'
  <1> SUFFICES ASSUME NEW c \in Clients, link'[c] = "direct" PROVE driver' = "on"
    BY DEF Driven
  <1>0. link \in [Clients -> {"off", "direct", "draining", "replay", "last", "ensured", "registered", "live"}]
    BY DEF BusInv, LinkInv
  <1>1. CASE \/ UNCHANGED busVars
             \/ \E s \in Segments : StartSegment(s) \/ Chunk(s) \/ EndSegment(s)
             \/ AbortRound \/ \E elsewhere \in {FALSE, RollingStart} : RecoverRound(elsewhere)
    <2>1. UNCHANGED <<driver, link>>
      BY <1>1 DEF busVars, producer, StartSegment, Chunk, EndSegment, AbortRound, RecoverRound
    <2> QED  BY <2>1 DEF Driven
  <1>2. CASE FinishStream \/ Fail \/ StopDriver \/ Suspend \/ LoseLiveness
    <2>1. CloseDirect
      BY <1>2 DEF FinishStream, Fail, StopDriver, Suspend, LoseLiveness
    <2> QED  BY <2>1 DEF CloseDirect, Direct
  <1>3. ASSUME NEW d \in Clients, Resume(d) PROVE driver' = "on"
    BY <1>3 DEF Resume
  <1>4. CASE CrashProcess
    BY <1>4 DEF CrashProcess
  <1>5. ASSUME NEW d \in Clients, Subscribe(d) \/ Disconnect(d) \/ Stream(d) PROVE driver' = "on"
    <2>1. UNCHANGED driver
      BY <1>5 DEF Subscribe, Disconnect, Stream, ReadDirect, DirectEnds, Replay, EnsureTerminal,
                  LastReplayEnds, Register, CatchUp, Receive, producer
    <2>2. link'[c] = "direct" => link[c] = "direct"
      BY <1>0, <1>5 DEF Subscribe, Disconnect, Stream, ReadDirect, DirectEnds, Replay, EnsureTerminal,
                        LastReplayEnds, Register, CatchUp, Receive, Hangup
    <2> QED  BY <2>1, <2>2 DEF Driven
  <1> QED  BY <1>1, <1>2, <1>3, <1>4, <1>5 DEF BusNext, Produce, Converge

\* Whoever is live is handed what is committed, the terminal too.
LEMMA CommitIsHanded ==
    ASSUME BusInv, BusInv', ~Over, NEW c \in Clients, Gapless(c),
           NEW rows \in Seq(Events), rows # <<>>, NEW D, PublishRows(rows, D),
           UNCHANGED latest, link'[c] = link[c] \/ link'[c] = "draining"
    PROVE  Waits(c)'
  <1>1. /\ Len(log) \in Nat /\ Len(rows) \in Nat \ {0} /\ Len(log') = Len(log) + Len(rows)
        /\ Handed(c, IF c \in registered THEN Len(rows) ELSE IF c \in D THEN 1 ELSE 0)
    BY Spread
  <1>2. latest[c] \in 0 .. Len(log)
    BY SeqsInLog
  <1>3. ASSUME link[c] = "live" PROVE Queued(c, Len(log))'
    <2>1. c \in registered
      BY <1>3 DEF Gapless, Attached
    <2>2. Handed(c, Len(rows))
      BY <1>1, <2>1
    <2>3. Len(queue[c]) \in Nat /\ \A i \in 1 .. Len(log') : log'[i].seq = i
      <3>1. \A i \in DOMAIN log' : log'[i].seq = i
        BY DEF BusInv, LogInv
      <3>2. log' \in Seq(Events)
        BY DEF BusInv, LogInv
      <3> QED  BY <3>1, <3>2, SeqsInLog
    <2>4. queue'[c][Len(queue[c]) + Len(rows)] = log'[Len(log') - Len(rows) + Len(rows)]
      BY <1>1, <2>2 DEF Handed
    <2>5. Len(queue[c]) + Len(rows) \in DOMAIN queue'[c]
      <3>1. DOMAIN queue'[c] = 1 .. Len(queue'[c]) /\ Len(queue'[c]) = Len(queue[c]) + Len(rows)
        BY <2>2 DEF Handed
      <3>2. Len(queue[c]) + Len(rows) \in 1 .. Len(queue[c]) + Len(rows)
        BY <1>1, <2>3
      <3> QED  BY <3>1, <3>2
    <2>6. Len(log') - Len(rows) + Len(rows) = Len(log') /\ Len(log') \in 1 .. Len(log')
      BY <1>1
    <2> QED  BY <2>3, <2>4, <2>5, <2>6 DEF Queued
  <1> QED  BY <1>1, <1>2, <1>3 DEF Waits

\* A step that keeps the log keeps Waits, unless it concerns c.
LEMMA NoNewRow ==
    ASSUME NEW c \in Clients, Waits(c), UNCHANGED log, latest'[c] = latest[c], todo'[c] = todo[c],
           link'[c] = link[c], link[c] = "live" => queue'[c] = queue[c]
    PROVE  Waits(c)'
  BY DEF Waits, Over, Queued

LEMMA ProducerKeepsWaits ==
    ASSUME BusInv, BusInv', TextInv, WaitInv, Produce \/ Converge, NEW c \in Clients
    PROVE  Waits(c)'
  <1>0. /\ Waits(c) /\ Gapless(c)
        /\ link \in [Clients -> {"off", "direct", "draining", "replay", "last", "ensured", "registered", "live"}]
        /\ todo \in [Clients -> Seq(Events)] /\ queue \in [Clients -> Seq(Events)] /\ Len(log) \in Nat
    BY DEF WaitInv, TextInv, Told, BusInv, LinkInv, WayInv, OnTheWay, LogInv
  <1>c. CloseDirect => link'[c] = link[c] \/ (link[c] = "direct" /\ link'[c] = "draining")
    BY DEF CloseDirect, Direct
  <1>o. ASSUME ~Over, UNCHANGED log PROVE Waits(c)'
    BY <1>o DEF Waits, Over
  <1>p. ASSUME ~Over, NEW rows \in Seq(Events), rows # <<>>, NEW D, PublishRows(rows, D), UNCHANGED latest,
               link'[c] = link[c] \/ link'[c] = "draining"
        PROVE  Waits(c)'
    BY <1>0, <1>p, CommitIsHanded
  <1>t. <<TerminalEvent>> \in Seq(Events) /\ <<TerminalEvent>> # <<>>
    BY TerminalRow
  <1>1. ASSUME NEW s \in Segments, StartSegment(s) PROVE Waits(c)'
    <2>1. <<Event("start", s, 0)>> \in Seq(Events)
      BY EventBusAssumption DEF Event, Events
    <2> QED  BY <1>1, <1>p, <2>1 DEF StartSegment, subscription
  <1>2. ASSUME NEW s \in Segments, Chunk(s) PROVE Waits(c)'
    <2> DEFINE e == Event("chunk", s, sent[s] + 1)
    <2>1. sent[s] + 1 \in 0 .. MaxChunks
      BY <1>2, EventBusAssumption DEF BusInv, ProducerInv, Chunk
    <2>2. e \in Events
      BY <2>1, EventBusAssumption DEF Event, Events
    <2>3. ~Over /\ UNCHANGED <<latest, link>> /\ (PublishRows(<<e>>, Direct) \/ UNCHANGED log)
      BY <1>2 DEF Chunk, subscription
    <2> HIDE DEF e
    <2>4. <<e>> \in Seq(Events) /\ <<e>> # <<>>
      BY <2>2
    <2> QED  BY <1>o, <1>p, <2>3, <2>4
  <1>3. ASSUME NEW s \in Segments, EndSegment(s) PROVE Waits(c)'
    <2> DEFINE agg == Event("aggregate", s, buffer[s])
               end == Event("end", s, 0)
               rows == IF buffer[s] = 0 THEN <<end>> ELSE <<agg, end>>
    <2>1. agg \in Events /\ end \in Events
      BY EventBusAssumption DEF BusInv, ProducerInv, Event, Events
    <2>2. PublishRows(rows, Direct) /\ ~Over /\ UNCHANGED <<link, latest>>
      BY <1>3 DEF EndSegment, subscription
    <2> HIDE DEF agg, end
    <2>3. rows \in Seq(Events) /\ rows # <<>>
      BY <2>1
    <2> HIDE DEF rows
    <2> QED  BY <1>p, <2>2, <2>3
  <1>4. CASE FinishStream
    BY <1>4, <1>c, <1>p, <1>t DEF FinishStream, subscription
  <1>5. CASE Fail
    <2>1. ~Over /\ CloseDirect /\ UNCHANGED latest
      BY <1>5 DEF Fail, subscription
    <2>2. CASE PublishRows(<<TerminalEvent>>, {})
      BY <1>c, <1>p, <1>t, <2>1, <2>2
    <2>3. CASE UNCHANGED log
      BY <1>o, <2>1, <2>3
    <2> QED  BY <1>5, <2>2, <2>3 DEF Fail
  <1>6. CASE Suspend \/ LoseLiveness \/ CrashProcess \/ \E d \in Clients : Resume(d)
    BY <1>6, <1>o DEF Suspend, LoseLiveness, CrashProcess, Resume
  <1>7. CASE StopDriver
    <2>1. UNCHANGED <<log, latest, todo>> /\ CloseDirect
      BY <1>7 DEF StopDriver, subscription
    <2>2. link[c] = "live" => queue'[c] = queue[c]
      BY <1>0, <1>7 DEF StopDriver, Direct
    <2>3. CASE link'[c] = link[c]
      BY <1>0, <2>1, <2>2, <2>3, NoNewRow
    <2>4. CASE link'[c] = "draining"
      BY <2>4 DEF Waits
    <2> QED  BY <1>c, <2>1, <2>3, <2>4
  <1>8. CASE AbortRound
    BY <1>8, <1>p, <1>t DEF AbortRound, subscription
  <1>9. ASSUME NEW elsewhere \in {FALSE, RollingStart}, RecoverRound(elsewhere) PROVE Waits(c)'
    <2>1. ~Over /\ UNCHANGED <<link, latest>>
      BY <1>9 DEF RecoverRound, subscription
    <2>2. CASE ~elsewhere
      BY <1>9, <1>p, <1>t, <2>1, <2>2 DEF RecoverRound
    <2>3. CASE elsewhere
      <3>1. RollingStart /\ log' = Append(log, [TerminalEvent EXCEPT !.seq = Len(log) + 1])
        BY <1>9, <2>3 DEF RecoverRound
      <3>2. Len(log') = Len(log) + 1 /\ latest[c] \in 0 .. Len(log)
        <4>1. log \in Seq(Events)
          BY DEF BusInv, LogInv
        <4> QED  BY <3>1, <4>1, AppendProperties, SeqsInLog
      <3> QED  BY <1>0, <2>1, <3>1, <3>2 DEF Waits
    <2> QED  BY <2>2, <2>3
  <1> QED  BY <1>1, <1>2, <1>3, <1>4, <1>5, <1>6, <1>7, <1>8, <1>9 DEF Produce, Converge

\* A connection that is not cut goes towards the terminal, and does not get past it.
LEMMA ConnectionWaits ==
    ASSUME BusInv, OrderInv, TerminalIsLast, NEW c \in Clients, Waits(c),
           Subscribe(c) \/ Disconnect(c) \/ Stream(c)
    PROVE  Waits(c)'
  <1>0. /\ UNCHANGED log
        /\ ReplaysOn(c) /\ QueuesRows(c) /\ SeesAll(c) /\ Ends(c)
        /\ log \in Seq(Events) /\ Len(log) \in Nat /\ DOMAIN log = 1 .. Len(log)
        /\ \A i \in 1 .. Len(log) : log[i] \in Events /\ log[i].seq = i
        /\ latest[c] \in 0 .. Len(log) /\ seen[c] \subseteq 1 .. latest[c]
    <2>1. UNCHANGED log
      BY DEF Subscribe, Disconnect, Stream, ReadDirect, DirectEnds, Replay, EnsureTerminal,
             LastReplayEnds, Register, CatchUp, Receive
    <2> QED  BY <2>1, SeqsInLog DEF OrderInv, Ordered, SeesAll, BusInv, LogInv
  <1>f. /\ link \in [Clients -> {"off", "direct", "draining", "replay", "last", "ensured", "registered", "live"}]
        /\ todo \in [Clients -> Seq(Events)] /\ queue \in [Clients -> Seq(Events)]
        /\ latest \in [Clients -> 0 .. Len(log)] /\ seen \in [Clients -> SUBSET (1 .. Len(log))]
    BY DEF BusInv, LinkInv, WayInv, OnTheWay, SubscriptionInv
  <1>o. Over' = Over
    BY <1>0 DEF Over
  <1>e. Over => log[Len(log)].type = "terminal" /\ Len(log) \in 1 .. Len(log)
    BY <1>0 DEF Over, TerminalIsLast
  <1>h. ASSUME link'[c] \notin {"ensured", "registered", "live"} PROVE Waits(c)'
    BY <1>h DEF Waits
  <1>1. CASE Subscribe(c)
    BY <1>1, <1>f, <1>h DEF Subscribe
  <1>2. CASE Disconnect(c) \/ DirectEnds(c) \/ LastReplayEnds(c)
    BY <1>2, <1>f, <1>h DEF Disconnect, DirectEnds, LastReplayEnds, Hangup
  <1>3. CASE ReadDirect(c)
    BY <1>3, <1>f, <1>h DEF ReadDirect, Hangup
  <1>4. CASE EnsureTerminal(c)
    <2>1. CASE Over
      BY <1>4, <2>1, <1>f, <1>h DEF EnsureTerminal
    <2>2. CASE ~Over
      BY <2>2, <1>o DEF Waits
    <2> QED  BY <2>1, <2>2
  <1>5. CASE Register(c)
    <2>1. link[c] = "ensured" /\ link'[c] = "registered" /\ latest'[c] = latest[c]
      BY <1>5, <1>f DEF Register
    <2> QED  BY <1>0, <1>o, <2>1 DEF Waits
  <1>6. CASE CatchUp(c)
    <2>1. link[c] = "registered" /\ latest'[c] = latest[c] /\ todo'[c] = After(latest[c])
      BY <1>6, <1>f DEF CatchUp, subscription
    <2>2. Len(After(latest[c])) = Len(log) - latest[c]
      BY <1>0, AfterRows
    <2>3. ~(latest'[c] + Len(todo'[c]) < Len(log'))
      BY <1>0, <2>1, <2>2
    <2> QED  BY <1>0, <1>o, <2>1, <2>3 DEF Waits
  <1>7. CASE Replay(c)
    <2> DEFINE e == Head(todo[c])
    <2>1. link[c] \in {"replay", "last", "live"} /\ todo[c] # <<>> /\ Yield(c, e)
      BY <1>7 DEF Replay
    <2>2. /\ Len(todo[c]) \in Nat \ {0} /\ e = todo[c][1] /\ 1 \in DOMAIN todo[c]
          /\ Len(Tail(todo[c])) = Len(todo[c]) - 1
      BY <1>f, <2>1, HeadTailProperties
    <2> HIDE DEF e
    <2>3. latest[c] + 1 \in 1 .. Len(log) /\ e = log[latest[c] + 1] /\ e \in Events /\ e.seq = latest[c] + 1
      <3>1. latest[c] + 1 \in DOMAIN log /\ e = log[latest[c] + 1]
        BY <1>0, <2>2 DEF ReplaysOn
      <3> QED  BY <1>0, <3>1
    <2>4. latest'[c] = latest[c] + 1
      <3>1. e.seq \in 0 .. Len(log) /\ e.seq > latest[c] /\ e.seq # 0
        BY <1>0, <2>3
      <3> QED  BY <1>0, <2>1, <2>3, <3>1, YieldKeepsOrder
    <2>5. CASE e.type = "terminal"
      BY <1>7, <2>5, <1>f, <1>h DEF Replay, Hangup, e
    <2>6. CASE e.type # "terminal"
      <3>1. todo'[c] = Tail(todo[c]) /\ UNCHANGED <<link, queue>>
        BY <1>7, <1>f, <2>6 DEF Replay, e
      <3>2. Over => latest'[c] < Len(log)
        BY <1>0, <1>e, <2>3, <2>4, <2>6
      <3>3. latest'[c] + Len(todo'[c]) = latest[c] + Len(todo[c])
        <4>1. Len(todo'[c]) = Len(todo[c]) - 1
          BY <2>2, <3>1
        <4> QED  BY <1>0, <2>2, <2>4, <4>1
      <3> QED  BY <1>0, <1>o, <3>1, <3>2, <3>3 DEF Waits, Queued
    <2> QED  BY <2>5, <2>6
  <1>8. CASE Receive(c)
    <2> DEFINE e == Head(queue[c])
    <2>1. link[c] = "live" /\ todo[c] = <<>> /\ queue[c] # <<>> /\ Yield(c, e)
      BY <1>8 DEF Receive
    <2>2. /\ e \in Events /\ e.seq \in 0 .. Len(log) /\ e = queue[c][1] /\ (e.seq # 0 => e = log[e.seq])
      BY <1>0, <2>1, RestOfQueue
    <2>3. CASE e.type = "terminal" /\ e.seq \notin seen[c]
      BY <1>8, <2>3, <1>f, <1>h DEF Receive, Hangup
    <2>4. CASE ~(e.type = "terminal" /\ e.seq \notin seen[c])
      <3>1. queue'[c] = Tail(queue[c]) /\ UNCHANGED <<link, todo>>
        BY <1>8, <1>f, <2>4 DEF Receive
      <3> SUFFICES ASSUME Over PROVE Waits(c)'
        BY <1>o DEF Waits
      <3>2. latest[c] < Len(log)
        BY <2>1 DEF Waits
      <3>3. e.seq # Len(log)
        <4>1. e.seq \in seen[c] => e.seq <= latest[c]
          BY <1>0
        <4> QED  BY <1>0, <1>e, <2>2, <2>4, <3>2, <4>1
      <3>4. latest'[c] < Len(log)
        <4>1. latest'[c] \in {latest[c], e.seq}
          BY <1>f, <2>1 DEF Yield, subscription
        <4> QED  BY <1>0, <2>2, <3>2, <3>3, <4>1
      <3>5. ~RollingStart => Queued(c, Len(log))'
        <4> SUFFICES ASSUME ~RollingStart PROVE Queued(c, Len(log))'
          OBVIOUS
        <4>1. latest[c] + Len(todo[c]) < Len(log)
          BY <1>0, <2>1, <3>2
        <4>2. PICK j \in DOMAIN queue[c] : queue[c][j].seq = Len(log)
          BY <2>1, <4>1 DEF Waits, Queued
        <4>3. j # 1
          BY <2>2, <3>3, <4>2
        <4>4. j - 1 \in DOMAIN queue'[c] /\ queue'[c][j - 1] = queue[c][j]
          BY <2>1, <3>1, <4>3, QueueShifts
        <4> QED  BY <1>0, <4>2, <4>4 DEF Queued
      <3> QED  BY <1>0, <3>4, <3>5 DEF Waits
    <2> QED  BY <2>3, <2>4
  <1> QED  BY <1>1, <1>2, <1>3, <1>4, <1>5, <1>6, <1>7, <1>8 DEF Stream

LEMMA OthersWait ==
    ASSUME BusInv, NEW c \in Clients, Subscribe(c) \/ Disconnect(c) \/ Stream(c),
           NEW d \in Clients \ {c}, Waits(d)
    PROVE  Waits(d)'
  <1>1. UNCHANGED log
    BY DEF Subscribe, Disconnect, Stream, ReadDirect, DirectEnds, Replay, EnsureTerminal,
           LastReplayEnds, Register, CatchUp, Receive
  <1>f. /\ link \in [Clients -> {"off", "direct", "draining", "replay", "last", "ensured", "registered", "live"}]
        /\ todo \in [Clients -> Seq(Events)] /\ queue \in [Clients -> Seq(Events)]
        /\ latest \in [Clients -> 0 .. Len(log)]
    BY DEF BusInv, LinkInv, WayInv, OnTheWay, SubscriptionInv
  <1>2. link'[d] = link[d] /\ todo'[d] = todo[d] /\ queue'[d] = queue[d]
    BY <1>f DEF Subscribe, Disconnect, Stream, ReadDirect, DirectEnds, Replay, EnsureTerminal,
                LastReplayEnds, Register, CatchUp, Receive, Hangup
  <1>3. latest'[d] = latest[d]
    BY <1>f DEF Subscribe, Disconnect, Stream, ReadDirect, DirectEnds, Replay, EnsureTerminal,
                LastReplayEnds, Register, CatchUp, Receive, Yield, subscription
  <1> QED  BY <1>1, <1>2, <1>3, NoNewRow

THEOREM WaitInvariance == BusSpec => []WaitInv
  <1>1. BusInit => WaitInv
    <2> SUFFICES ASSUME BusInit PROVE WaitInv
      OBVIOUS
    <2>1. DOMAIN log = {} /\ driver = "on"
      BY DEF BusInit
    <2> QED  BY <2>1 DEF WaitInv, Driven, Waits, Over
  <1>2. BusInv /\ BusInv' /\ TerminalIsLast /\ OrderInv /\ TextInv /\ WaitInv /\ [BusNext]_busVars => WaitInv'
    <2> SUFFICES ASSUME BusInv, BusInv', TerminalIsLast, OrderInv, TextInv, WaitInv, [BusNext]_busVars
                 PROVE  WaitInv'
      OBVIOUS
    <2>1. Driven'
      BY DrivenStep DEF WaitInv
    <2> SUFFICES ASSUME NEW c \in Clients PROVE Waits(c)'
      BY <2>1 DEF WaitInv
    <2>2. Waits(c)
      BY DEF WaitInv
    <2>3. CASE UNCHANGED busVars
      BY <2>2, <2>3, NoNewRow DEF busVars, subscription
    <2>4. CASE Produce \/ Converge
      BY <2>4, ProducerKeepsWaits
    <2>5. ASSUME NEW d \in Clients, Subscribe(d) \/ Disconnect(d) \/ Stream(d) PROVE Waits(c)'
      BY <2>2, <2>5, ConnectionWaits, OthersWait
    <2> QED  BY <2>3, <2>4, <2>5 DEF BusNext
  <1> QED  BY <1>1, <1>2, BusInvariance, TerminalIsLastHolds, OrderInvariance, TextInvariance, PTL DEF BusSpec

\* No live subscriber misses a row: what it does not show yet is before it.
THEOREM RowsAreAheadHolds == BusSpec => []RowsAreAhead
  <1>1. BusInv /\ OrderInv /\ TextInv => RowsAreAhead
    <2> SUFFICES ASSUME BusInv, OrderInv, TextInv, NEW c \in Clients, link[c] = "live",
                        NEW n \in DOMAIN log, log[n].type # "terminal", ~Passed(c, n)
                 PROVE  OnItsWay(c, n)
      BY DEF RowsAreAhead
    <2>1. ReplaysOn(c) /\ QueuesRows(c) /\ Passes(c) /\ Gapless(c) /\ c \in Subscribed /\ c \in Attached
      BY DEF OrderInv, Ordered, TextInv, Told, Subscribed, Attached
    <2>2. /\ Len(log) \in Nat /\ n \in 1 .. Len(log) /\ cursor[c] \in 0 .. Len(log) /\ latest[c] \in 0 .. Len(log)
          /\ Len(todo[c]) \in Nat /\ DOMAIN todo[c] = 1 .. Len(todo[c])
      <3>1. todo[c] \in Seq(Events)
        BY DEF BusInv, WayInv, OnTheWay
      <3> QED  BY <3>1, SeqsInLog
    <2>3. ~(n <= latest[c])
      <3> SUFFICES ASSUME n <= latest[c] PROVE FALSE
        OBVIOUS
      <3>1. n \in cursor[c] + 1 .. latest[c]
        BY <2>2 DEF Passed
      <3>2. PassedUpTo(c, latest[c])
        BY <2>1 DEF Passes
      <3>3. log[n].type = "aggregate" /\ Shown(c, log[n].seg) = sent[log[n].seg]
        BY <3>1, <3>2 DEF PassedUpTo
      <3> QED  BY <3>3 DEF Passed
    <2>4. CASE n <= latest[c] + Len(todo[c])
      <3>1. n - latest[c] \in DOMAIN todo[c] /\ latest[c] + (n - latest[c]) = n
        BY <2>2, <2>3, <2>4
      <3> QED  BY <2>1, <3>1 DEF ReplaysOn, OnItsWay
    <2>5. CASE n > latest[c] + Len(todo[c])
      <3>1. n \in From(c) + 1 .. Len(log)
        BY <2>2, <2>5 DEF From
      <3>2. PICK i \in DOMAIN queue[c] : queue[c][i].seq = n
        BY <2>1, <3>1 DEF Gapless, Reached, Queued
      <3>3. n # 0
        BY <2>2
      <3> QED  BY <2>1, <3>2, <3>3 DEF QueuesRows, OnItsWay
    <2> QED  BY <2>2, <2>4, <2>5
  <1> QED  BY <1>1, BusInvariance, OrderInvariance, TextInvariance, PTL

\* Nobody waits in vain on a Round that was closed (publish_committed_nowait).
THEOREM TerminalIsAheadHolds == BusSpec => []TerminalIsAhead
  <1>1. BusInv /\ OrderInv /\ WaitInv => TerminalIsAhead
    <2> SUFFICES ASSUME BusInv, OrderInv, WaitInv, Over, NEW c \in Clients
                 PROVE  /\ link[c] = "direct" => driver = "on"
                        /\ link[c] \in {"ensured", "registered"} => latest[c] < Len(log)
                        /\ link[c] = "live" /\ ~RollingStart => OnItsWay(c, Len(log))
      BY DEF TerminalIsAhead
    <2>1. Waits(c) /\ Driven /\ ReplaysOn(c) /\ QueuesRows(c)
      BY DEF WaitInv, OrderInv, Ordered
    <2>2. /\ Len(log) \in Nat /\ latest[c] \in 0 .. Len(log)
          /\ Len(todo[c]) \in Nat /\ DOMAIN todo[c] = 1 .. Len(todo[c])
      <3>1. todo[c] \in Seq(Events)
        BY DEF BusInv, WayInv, OnTheWay
      <3> QED  BY <3>1, SeqsInLog
    <2>3. ASSUME link[c] = "live", ~RollingStart PROVE OnItsWay(c, Len(log))
      <3>1. latest[c] < Len(log)
        BY <2>1, <2>3 DEF Waits
      <3>2. CASE Len(log) <= latest[c] + Len(todo[c])
        <4>1. Len(log) - latest[c] \in DOMAIN todo[c] /\ latest[c] + (Len(log) - latest[c]) = Len(log)
          BY <2>2, <3>1, <3>2
        <4> QED  BY <2>1, <4>1 DEF ReplaysOn, OnItsWay
      <3>3. CASE latest[c] + Len(todo[c]) < Len(log)
        <4>1. PICK i \in DOMAIN queue[c] : queue[c][i].seq = Len(log)
          BY <2>1, <2>3, <3>3 DEF Waits, Queued
        <4>2. Len(log) # 0
          BY <2>2, <3>1
        <4> QED  BY <2>1, <4>1, <4>2 DEF QueuesRows, OnItsWay
      <3> QED  BY <2>2, <3>2, <3>3
    <2> QED  BY <2>1, <2>3 DEF Waits, Driven
  <1> QED  BY <1>1, BusInvariance, OrderInvariance, WaitInvariance, PTL
=============================================================================
