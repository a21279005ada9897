------------------------------ MODULE EventBus ------------------------------
(***************************************************************************)
(* The AG-UI event stream of one Round: the durable log with its sequence  *)
(* numbers, the buffers of the thinking and tool-argument segments, the    *)
(* in-process fanout to subscribers, subscribe with its replay, register   *)
(* and catch-up phases and its view filter, the direct SSE stream of the   *)
(* request that drives the Round, and the web client that folds what it is *)
(* given into text and reconnects from its cursor.                         *)
(*                                                                         *)
(* A segment is one message or tool call.  Its text is a sequence of       *)
(* chunks, known by their numbers.  Text chunks are rows of the log; the   *)
(* chunks of the other segments are live only, and one aggregate row holds *)
(* them all when the segment ends.  Commit and fanout are one step: the    *)
(* event loop does not change hands between them.                          *)
(***************************************************************************)
EXTENDS Naturals, FiniteSets, Sequences, SequencesExt

CONSTANTS Clients,       \* browser connections that show the Round
          Sender,        \* the client whose request drives the Round
          Segments,      \* messages and tool calls the Round streams
          TextSegments,  \* those whose chunks are durable
          MaxChunks,     \* bound on the chunks of a segment
          RollingStart   \* another process starts and cleans up stale Rounds

ASSUME EventBusAssumption ==
    /\ Sender \in Clients
    /\ TextSegments \subseteq Segments
    /\ MaxChunks \in Nat \ {0}
    /\ RollingStart \in BOOLEAN

VARIABLES
    log,         \* agui_events of the Round; the index is the sequence
    driver,      \* the producer: "on", "parked", "lost", "gone"
    stage,       \* segment -> "new", "open", "done"
    sent,        \* segment -> chunks the producer has published
    buffer,      \* segment -> chunks accumulated in _stream_buffers
    registered,  \* clients whose queue is in _subscribers
    link,       \* client -> what its connection is doing
    todo,        \* client -> replayed rows still to be yielded
    queue,       \* client -> its live queue
    latest,      \* client -> latest_sequence of the subscription
    seen,        \* client -> seen_sequences of the subscription
    raw,         \* client -> _live_raw_segments
    replayed,    \* client -> _replayed_aggregate_segments
    required,    \* client -> _aggregate_required_segments
    yielded,     \* client -> sequences the subscription has yielded
    cursor,      \* client -> lastSequence of the run it shows
    content      \* client -> segment -> the chunks it shows

producer == <<driver, stage, sent, buffer>>
filter == <<raw, replayed, required>>
subscription == <<latest, seen, filter, yielded>>
view == <<cursor, content>>
busVars == <<log, producer, registered, link, todo, queue, subscription, view>>

-----------------------------------------------------------------------------
\* A live-only event has sequence 0; an aggregate stands for chunks 1 .. part.
Event(type, s, part) == [seq |-> 0, type |-> type, seg |-> s, part |-> part]
TerminalEvent == Event("terminal", "round", 0)

Over == \E i \in DOMAIN log : log[i].type = "terminal"
After(n) == SubSeq(log, n + 1, Len(log))
Connected(c) == link[c] # "off"
Subscribed == {c \in Clients : link[c] \in {"replay", "last", "ensured", "registered", "live"}}
Direct == {c \in Clients : link[c] = "direct"}
Whole(n) == [i \in 1 .. n |-> i]

BusTypeOK ==
    /\ \A i \in DOMAIN log :
          /\ log[i].seq = i
          /\ log[i].type \in {"start", "chunk", "aggregate", "end", "terminal"}
          /\ log[i].seg \in Segments \cup {"round"}
          /\ log[i].part \in 0 .. MaxChunks
    /\ driver \in {"on", "parked", "lost", "gone"}
    /\ stage \in [Segments -> {"new", "open", "done"}]
    /\ sent \in [Segments -> 0 .. MaxChunks]
    /\ buffer \in [Segments -> 0 .. MaxChunks]
    /\ registered \subseteq {c \in Clients : link[c] \in {"registered", "live"}}
    /\ link \in [Clients -> {"off", "direct", "draining", "replay", "last",
                              "ensured", "registered", "live"}]
    /\ \A c \in Clients :
          /\ latest[c] \in 0 .. Len(log)
          /\ cursor[c] \in 0 .. Len(log)
          /\ seen[c] \subseteq 1 .. Len(log)
          /\ raw[c] \cup replayed[c] \cup required[c] \subseteq Segments
          /\ content[c] \in [Segments -> Seq(1 .. MaxChunks)]

BusInit ==
    /\ log = <<>>
    /\ driver = "on"
    /\ stage = [s \in Segments |-> "new"]
    /\ sent = [s \in Segments |-> 0]
    /\ buffer = [s \in Segments |-> 0]
    /\ registered = {}
    /\ link = [c \in Clients |-> IF c = Sender THEN "direct" ELSE "off"]
    /\ todo = [c \in Clients |-> <<>>]
    /\ queue = [c \in Clients |-> <<>>]
    /\ latest = [c \in Clients |-> 0]
    /\ seen = [c \in Clients |-> {}]
    /\ raw = [c \in Clients |-> {}]
    /\ replayed = [c \in Clients |-> {}]
    /\ required = [c \in Clients |-> {}]
    /\ yielded = [c \in Clients |-> <<>>]
    /\ cursor = [c \in Clients |-> 0]
    /\ content = [c \in Clients |-> [s \in Segments |-> <<>>]]

-----------------------------------------------------------------------------
(* The producer.                                                           *)

\* Hand events to the registered queues, and the last one to the clients D.
Fanout(events, D) ==
    queue' = [c \in Clients |-> IF c \in registered THEN queue[c] \o events
                                ELSE IF c \in D THEN Append(queue[c], Last(events))
                                ELSE queue[c]]

\* Commit rows under the next sequence numbers, then fan them out.  The direct
\* stream is given the event itself, not the aggregate that precedes it.
PublishRows(rows, D) ==
    LET stored == [i \in DOMAIN rows |-> [rows[i] EXCEPT !.seq = Len(log) + i]]
    IN log' = log \o stored /\ Fanout(stored, D)

StartSegment(s) ==
    /\ driver = "on" /\ ~Over /\ stage[s] = "new"
    /\ stage' = [stage EXCEPT ![s] = "open"]
    /\ PublishRows(<<Event("start", s, 0)>>, Direct)
    /\ UNCHANGED <<driver, sent, buffer, registered, link, todo, subscription, view>>

\* Mutant: the write does not look at the Round's status.
ChunkUnchecked(s) ==
    /\ driver = "on" /\ stage[s] = "open" /\ sent[s] < MaxChunks
    /\ sent' = [sent EXCEPT ![s] = @ + 1]
    /\ LET e == Event("chunk", s, sent[s] + 1)
       IN IF s \in TextSegments
          THEN PublishRows(<<e>>, Direct) /\ UNCHANGED buffer
          ELSE /\ Fanout(<<e>>, Direct)
               /\ buffer' = [buffer EXCEPT ![s] = @ + 1]
               /\ UNCHANGED log
    /\ UNCHANGED <<driver, stage, registered, link, todo, subscription, view>>

\* A text chunk is committed before anyone sees it; any other chunk goes into
\* the buffer and is fanned out while the Round is locked.
Chunk(s) ==
    /\ driver = "on" /\ ~Over /\ stage[s] = "open" /\ sent[s] < MaxChunks
    /\ sent' = [sent EXCEPT ![s] = @ + 1]
    /\ LET e == Event("chunk", s, sent[s] + 1)
       IN IF s \in TextSegments
          THEN PublishRows(<<e>>, Direct) /\ UNCHANGED buffer
          ELSE /\ Fanout(<<e>>, Direct)
               /\ buffer' = [buffer EXCEPT ![s] = @ + 1]
               /\ UNCHANGED log
    /\ UNCHANGED <<driver, stage, registered, link, todo, subscription, view>>

\* The end of a segment is committed together with the aggregate of its buffer.
EndSegment(s) ==
    /\ driver = "on" /\ ~Over /\ stage[s] = "open"
    /\ stage' = [stage EXCEPT ![s] = "done"]
    /\ buffer' = [buffer EXCEPT ![s] = 0]
    /\ LET end == Event("end", s, 0)
       IN PublishRows(IF buffer[s] = 0 THEN <<end>>
                  ELSE <<Event("aggregate", s, buffer[s]), end>>, Direct)
    /\ UNCHANGED <<driver, sent, registered, link, todo, subscription, view>>

\* The producer's stream closes behind what it has already been given.
CloseDirect == link' = [c \in Clients |-> IF c \in Direct THEN "draining" ELSE link[c]]

FinishStream ==
    /\ driver = "on" /\ ~Over
    /\ driver' = "gone"
    /\ PublishRows(<<TerminalEvent>>, Direct)
    /\ CloseDirect
    /\ UNCHANGED <<stage, sent, buffer, registered, todo, subscription, view>>

\* The write of some event raised, for an end after its buffer was emptied: the
\* Round is closed as failed, or that fails too and the Round is left running.
Fail ==
    /\ driver = "on" /\ ~Over
    /\ \/ UNCHANGED buffer
       \/ \E s \in Segments : stage[s] = "open" /\ buffer' = [buffer EXCEPT ![s] = 0]
    /\ \/ driver' = "gone" /\ PublishRows(<<TerminalEvent>>, {})
       \/ driver' = "lost" /\ UNCHANGED <<log, queue>>
    /\ CloseDirect
    /\ UNCHANGED <<stage, sent, registered, todo, subscription, view>>

\* Somebody else has closed the Round: the next write is suppressed and the
\* direct stream is given the terminal that is there.
StopDriver ==
    /\ driver = "on" /\ Over
    /\ driver' = "gone"
    /\ queue' = [c \in Clients |-> IF c \in Direct THEN Append(queue[c], Last(log)) ELSE queue[c]]
    /\ CloseDirect
    /\ UNCHANGED <<log, stage, sent, buffer, registered, todo, subscription, view>>

\* The Round waits for its user.
Suspend ==
    /\ driver = "on" /\ ~Over /\ \A s \in Segments : stage[s] # "open"
    /\ driver' = "parked"
    /\ CloseDirect
    /\ UNCHANGED <<log, stage, sent, buffer, registered, todo, queue, subscription, view>>

\* A client that has been shown the question, the last row so far, answers it:
\* the continuation is driven over a direct stream of its own.
Resume(c) ==
    /\ driver = "parked" /\ ~Over
    /\ link[c] = "off" /\ cursor[c] = Len(log)
    /\ driver' = "on"
    /\ link' = [link EXCEPT ![c] = "direct"]
    /\ UNCHANGED <<log, stage, sent, buffer, registered, todo, queue, subscription, view>>

\* The lock was lost: the producer exits and leaves the Round to recovery.
LoseLiveness ==
    /\ driver = "on" /\ ~Over
    /\ driver' = "lost"
    /\ CloseDirect
    /\ UNCHANGED <<log, stage, sent, buffer, registered, todo, queue, subscription, view>>

-----------------------------------------------------------------------------
(* Others that close the Round.                                            *)

\* The abort endpoint tells the subscribers, then forgets them.
AbortRound ==
    /\ ~Over
    /\ PublishRows(<<TerminalEvent>>, {})
    /\ registered' = {}
    /\ UNCHANGED <<producer, link, todo, subscription, view>>

\* Mutant: the terminal is committed and nobody is told.
RecoverSilently(elsewhere) ==
    /\ elsewhere \in BOOLEAN /\ driver = "lost" /\ ~Over
    /\ log' = Append(log, [TerminalEvent EXCEPT !.seq = Len(log) + 1])
    /\ UNCHANGED <<producer, registered, link, todo, queue, subscription, view>>

\* The coordinator or the history reader closes the orphan; or the startup
\* cleanup of another process does, which tells no subscriber of this one.
RecoverRound(elsewhere) ==
    /\ driver = "lost" /\ ~Over
    /\ IF elsewhere
       THEN log' = Append(log, [TerminalEvent EXCEPT !.seq = Len(log) + 1]) /\ UNCHANGED queue
       ELSE PublishRows(<<TerminalEvent>>, {})
    /\ UNCHANGED <<producer, registered, link, todo, subscription, view>>

\* The process ends: connections, registry and buffers with it.
CrashProcess ==
    /\ driver \in {"on", "parked", "lost"} /\ ~Over
    /\ driver' = IF driver = "parked" THEN "parked" ELSE "lost"
    /\ buffer' = [s \in Segments |-> 0]
    /\ registered' = {}
    /\ link' = [c \in Clients |-> "off"]
    /\ todo' = [c \in Clients |-> <<>>]
    /\ queue' = [c \in Clients |-> <<>>]
    /\ UNCHANGED <<log, stage, sent, subscription, view>>

-----------------------------------------------------------------------------
(* The web client.                                                         *)

\* A start empties the segment, an aggregate replaces it, a chunk extends it.
Fold(text, e) ==
    CASE e.type = "start" -> <<>>
      [] e.type = "aggregate" -> Whole(e.part)
      [] e.type = "chunk" -> Append(text, e.part)
      [] OTHER -> text

\* What the client already has by its cursor is dropped, live events are not.
Show(c, e) ==
    IF e.seq # 0 /\ e.seq <= cursor[c]
    THEN UNCHANGED view
    ELSE /\ cursor' = [cursor EXCEPT ![c] = IF e.seq = 0 THEN @ ELSE e.seq]
         /\ content' = IF e.seg \in Segments
                       THEN [content EXCEPT ![c][e.seg] = Fold(@, e)]
                       ELSE content

Hangup(c) ==
    /\ link' = [link EXCEPT ![c] = "off"]
    /\ registered' = registered \ {c}
    /\ todo' = [todo EXCEPT ![c] = <<>>]
    /\ queue' = [queue EXCEPT ![c] = <<>>]

\* An event of the direct stream, which ends at the terminal.
ReadDirect(c) ==
    /\ link[c] \in {"direct", "draining"} /\ queue[c] # <<>>
    /\ Show(c, Head(queue[c]))
    /\ IF Head(queue[c]).type = "terminal"
       THEN Hangup(c)
       ELSE /\ queue' = [queue EXCEPT ![c] = Tail(@)]
            /\ UNCHANGED <<link, registered, todo>>
    /\ UNCHANGED <<log, producer, subscription>>

DirectEnds(c) ==
    /\ link[c] = "draining" /\ queue[c] = <<>>
    /\ Hangup(c)
    /\ UNCHANGED <<log, producer, subscription, view>>

Disconnect(c) ==
    /\ Connected(c)
    /\ Hangup(c)
    /\ UNCHANGED <<log, producer, subscription, view>>

-----------------------------------------------------------------------------
(* subscribe: replay, ensure_terminal, register, catch up, go live.        *)

\* A client subscribes from its cursor.
Subscribe(c) ==
    /\ link[c] = "off"
    /\ link' = [link EXCEPT ![c] = "replay"]
    /\ todo' = [todo EXCEPT ![c] = After(cursor[c])]
    /\ latest' = [latest EXCEPT ![c] = cursor[c]]
    /\ seen' = [seen EXCEPT ![c] = {}]
    /\ raw' = [raw EXCEPT ![c] = {}]
    /\ replayed' = [replayed EXCEPT ![c] = {}]
    /\ required' = [required EXCEPT ![c] = {}]
    /\ yielded' = [yielded EXCEPT ![c] = <<>>]
    /\ UNCHANGED <<log, producer, registered, queue, view>>

Live(e) == e.seq = 0

\* Mutant: the aggregate of a segment that was suppressed live is dropped too.
DuplicateOfRequired(c, e) ==
    \/ Live(e) /\ e.seg \in replayed[c] \cup required[c]
    \/ e.type = "aggregate" /\ e.seg \in raw[c] \cup required[c]

\* _StreamViewFilter.is_duplicate: a segment is shown either live or as an
\* aggregate.  Only the aggregate will do when chunks went by before the queue
\* was registered.
Duplicate(c, e) ==
    \/ Live(e) /\ e.seg \in replayed[c] \cup required[c]
    \/ e.type = "aggregate" /\ e.seg \in raw[c] \ required[c]

Note(c, e) ==
    /\ raw' = IF Live(e) /\ ~Duplicate(c, e)
              THEN [raw EXCEPT ![c] = @ \cup {e.seg}] ELSE raw
    /\ replayed' = IF e.type = "aggregate" /\ ~Duplicate(c, e)
                   THEN [replayed EXCEPT ![c] = @ \cup {e.seg}] ELSE replayed
    /\ required' = IF e.type = "aggregate"
                   THEN [required EXCEPT ![c] = @ \ {e.seg}] ELSE required

\* Mutant: rows that the catch-up has delivered are not recognised.
YieldAgain(c, e) ==
    /\ seen' = [seen EXCEPT ![c] = IF Live(e) THEN @ ELSE @ \cup {e.seq}]
    /\ latest' = [latest EXCEPT ![c] = IF e.seq > @ THEN e.seq ELSE @]
    /\ Note(c, e)
    /\ IF Duplicate(c, e)
       THEN UNCHANGED <<yielded, view>>
       ELSE /\ yielded' = IF Live(e) THEN yielded ELSE [yielded EXCEPT ![c] = Append(@, e.seq)]
            /\ Show(c, e)

\* The subscription looks at e and yields it to the client, or skips it.
Yield(c, e) ==
    IF e.seq \in seen[c]
    THEN UNCHANGED <<subscription, view>>
    ELSE /\ seen' = [seen EXCEPT ![c] = IF Live(e) THEN @ ELSE @ \cup {e.seq}]
         /\ latest' = [latest EXCEPT ![c] = IF e.seq > @ THEN e.seq ELSE @]
         /\ Note(c, e)
         /\ IF Duplicate(c, e)
            THEN UNCHANGED <<yielded, view>>
            ELSE /\ yielded' = IF Live(e) THEN yielded ELSE [yielded EXCEPT ![c] = Append(@, e.seq)]
                 /\ Show(c, e)

\* A replayed row.
Replay(c) ==
    /\ link[c] \in {"replay", "last", "live"} /\ todo[c] # <<>>
    /\ Yield(c, Head(todo[c]))
    /\ IF Head(todo[c]).type = "terminal"
       THEN Hangup(c)
       ELSE /\ todo' = [todo EXCEPT ![c] = Tail(@)]
            /\ UNCHANGED <<link, registered, queue>>
    /\ UNCHANGED <<log, producer>>

\* Mutant: a terminal that is there by now ends the stream.
EnsureTerminalReturns(c) ==
    /\ link[c] = "replay" /\ todo[c] = <<>>
    /\ link' = [link EXCEPT ![c] = IF Over THEN "last" ELSE "ensured"]
    /\ UNCHANGED <<log, producer, registered, todo, queue, subscription, view>>

\* The first replay is through.  If the terminal is there by now, one last
\* replay gets it; otherwise the subscriber goes for a live queue.
EnsureTerminal(c) ==
    /\ link[c] = "replay" /\ todo[c] = <<>>
    /\ link' = [link EXCEPT ![c] = IF Over THEN "last" ELSE "ensured"]
    /\ todo' = [todo EXCEPT ![c] = IF Over THEN After(latest[c]) ELSE <<>>]
    /\ UNCHANGED <<log, producer, registered, queue, subscription, view>>

LastReplayEnds(c) ==
    /\ link[c] = "last" /\ todo[c] = <<>>
    /\ Hangup(c)
    /\ UNCHANGED <<log, producer, subscription, view>>

\* The queue is registered and the segments under way are marked.
Register(c) ==
    /\ link[c] = "ensured"
    /\ link' = [link EXCEPT ![c] = "registered"]
    /\ registered' = registered \cup {c}
    /\ required' = [required EXCEPT ![c] = {s \in Segments : buffer[s] # 0}]
    /\ UNCHANGED <<log, producer, todo, queue, latest, seen, raw, replayed, yielded, view>>

\* Mutant: no second replay behind the registration.
CatchUpNothing(c) ==
    /\ link[c] = "registered"
    /\ link' = [link EXCEPT ![c] = "live"]
    /\ UNCHANGED <<log, producer, registered, todo, queue, subscription, view>>

CatchUp(c) ==
    /\ link[c] = "registered"
    /\ link' = [link EXCEPT ![c] = "live"]
    /\ todo' = [todo EXCEPT ![c] = After(latest[c])]
    /\ UNCHANGED <<log, producer, registered, queue, subscription, view>>

\* An event from the live queue.
Receive(c) ==
    /\ link[c] = "live" /\ todo[c] = <<>> /\ queue[c] # <<>>
    /\ Yield(c, Head(queue[c]))
    /\ IF Head(queue[c]).type = "terminal" /\ Head(queue[c]).seq \notin seen[c]
       THEN Hangup(c)
       ELSE /\ queue' = [queue EXCEPT ![c] = Tail(@)]
            /\ UNCHANGED <<link, registered, todo>>
    /\ UNCHANGED <<log, producer>>

-----------------------------------------------------------------------------
Produce ==
    \/ \E s \in Segments : StartSegment(s) \/ Chunk(s) \/ EndSegment(s)
    \/ FinishStream \/ Fail \/ StopDriver \/ Suspend \/ LoseLiveness
    \/ \E c \in Clients : Resume(c)

Converge ==
    \/ AbortRound \/ CrashProcess
    \/ \E elsewhere \in {FALSE, RollingStart} : RecoverRound(elsewhere)

\* What a connection does by itself once it is open.
Stream(c) ==
    \/ ReadDirect(c) \/ DirectEnds(c)
    \/ Replay(c) \/ EnsureTerminal(c) \/ LastReplayEnds(c)
    \/ Register(c) \/ CatchUp(c) \/ Receive(c)

BusNext == Produce \/ Converge \/ \E c \in Clients : Subscribe(c) \/ Disconnect(c) \/ Stream(c)

BusSpec == BusInit /\ [][BusNext]_busVars

-----------------------------------------------------------------------------
(* Properties.                                                             *)

\* A client never shows a hole, a repeated chunk or chunks out of order in a
\* segment, whatever it was given live, replayed or twice, and however often it
\* reconnected in between; once its cursor is past the end of the segment, it
\* shows all of it (publish, subscribe, _StreamViewFilter, applyThinkingDelta).
ContentIsExact ==
    \A c \in Clients :
        /\ \A s \in Segments : IsPrefix(content[c][s], Whole(sent[s]))
        /\ \A i \in 1 .. cursor[c] :
              log[i].type = "end" => content[c][log[i].seg] = Whole(sent[log[i].seg])

\* A subscription yields the rows of the log in order and each at most once,
\* although catch-up and the live queue overlap (seen_sequences).
YieldsInOrder ==
    \A c \in Clients : \A i, j \in DOMAIN yielded[c] : i < j => yielded[c][i] < yielded[c][j]

\* The server ends a subscription without a terminal event only when the
\* client's cursor already contains it (ensure_terminal and the last replay).
CleanEof == [][\A c \in Clients : LastReplayEnds(c) => Over /\ cursor[c] = Len(log)]_busVars

\* Nothing is written behind the terminal event: a producer that is still
\* running when the Round is closed is suppressed (RoundTerminalWriteSuppressed).
TerminalIsLast == \A i \in DOMAIN log : log[i].type = "terminal" => i = Len(log)

-----------------------------------------------------------------------------
(* Liveness: open connections are served, and a running producer reaches   *)
(* its next write.                                                         *)

BusLiveSpec == BusSpec /\ WF_busVars(StopDriver) /\ \A c \in Clients : WF_busVars(Stream(c))

\* Every row that is committed while a client is subscribed reaches it, unless
\* the connection breaks: the rows come to an end, and until it has them all the
\* client is served (publish, publish_committed_nowait).
RowsArrive == \A c \in Clients : c \in Subscribed ~> cursor[c] = Len(log) \/ link[c] = "off"

\* No connection is left open on a Round that was closed: the abort and the
\* recovery of an orphan wake the subscribers there are (publish_committed_nowait).
\* With RollingStart the cleanup of another process does not, see the README.
TerminalWakes == \A c \in Clients : (Connected(c) /\ Over) ~> ~Connected(c)
=============================================================================
