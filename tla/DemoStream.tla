----------------------------- MODULE DemoStream -----------------------------
(***************************************************************************)
(* How a page of the browser demo follows its run: the service's bounded   *)
(* event log, the thread that serves one WebSocket (demo/server.py), and   *)
(* the page's stream, polling fallback and keepalive (app.mjs,             *)
(* api_client.mjs).                                                        *)
(*                                                                         *)
(* The state of the run is a version that operations of the service raise; *)
(* each then emits an event.  Operations are taken one at a time; what is  *)
(* interleaved is their change, their event, the statements of the thread, *)
(* the two channels and the page's callbacks.  A connection may break at   *)
(* any moment, and while the user edits a field the page drops snapshots.  *)
(* Events of connections and heartbeats do not raise the version.          *)
(***************************************************************************)
EXTENDS Integers, Sequences, FiniteSetsExt

CONSTANTS
  Role,        \* whose page: "host", "participant"
  MaxEvents,   \* safety.max_events
  MaxVersion,  \* bound: changes of the run
  MaxBeats,    \* bound: heartbeats that emit; a finished run's emit nothing
  MaxBreaks,   \* bound: connections broken, polls failed
  MaxEdits     \* bound: times the user starts editing

ASSUME StreamAssumption ==
  /\ MaxEvents \in Nat \ {0}
  /\ MaxVersion \in Nat

VARIABLES
  version, pending, \* the run, and whether its last change is still to be emitted
  nextSeq, log,     \* next_event_seq, the events retained
  thread,           \* the statement of _handle_ws; "none": no connection
  lastSeq,          \* its last_seq
  held, heldRun,    \* the events and the snapshot it is about to send
  wire, uplink,     \* messages to the page; a keepalive to the server
  socket, transport,\* poll.socket, poll.transport
  pageSeq, view,    \* poll.lastSeq, the version runRef shows
  poll, pollRun,    \* a GET of the run: "idle", "asked", "answered"
  editing,          \* shouldDeferAutoRefreshForDocument()
  seen,             \* history: the events the page was sent
  beats, breaks, edits

server  == <<version, pending, nextSeq, log>>
stream  == <<thread, lastSeq, held, heldRun>>
channel == <<wire, uplink>>
page    == <<socket, transport, pageSeq, view, poll, pollRun, editing, seen>>
bounds  == <<beats, breaks, edits>>
vars    == <<server, stream, channel, page, bounds>>

NoRun == -1

Init ==
  /\ version = 0 /\ pending = FALSE /\ nextSeq = 0 /\ log = {}
  /\ thread = "none" /\ lastSeq = -1 /\ held = {} /\ heldRun = NoRun
  /\ wire = <<>> /\ uplink = FALSE
  /\ socket = "connecting" /\ transport = "polling" /\ pageSeq = -1 /\ view = 0
  /\ poll = "idle" /\ pollRun = NoRun /\ editing = FALSE /\ seen = {}
  /\ beats = 0 /\ breaks = 0 /\ edits = 0

-----------------------------------------------------------------------------
(***************************************************************************)
(* The service.                                                            *)
(***************************************************************************)
\* What is kept of the log when event next has been appended.
Retained(events, next) == {s \in events : s > next - MaxEvents}

Emit ==
  /\ log' = Retained(log \cup {nextSeq}, nextSeq)
  /\ nextSeq' = nextSeq + 1

EventsAfter(after) == {s \in log : s > after}

\* A control command, a join, an update, a round: state first, event second.
ChangeRun ==
  /\ version < MaxVersion /\ ~ pending
  /\ version' = version + 1 /\ pending' = TRUE
  /\ UNCHANGED <<nextSeq, log, stream, channel, page, bounds>>

EmitChange ==
  /\ pending
  /\ Emit /\ pending' = FALSE
  /\ UNCHANGED <<version, stream, channel, page, bounds>>

-----------------------------------------------------------------------------
(***************************************************************************)
(* The thread of one WebSocket.                                            *)
(***************************************************************************)
Send(run, events) == wire' = Append(wire, [run |-> run, events |-> events])

\* The handshake; the client asks for the events after the last it was sent.
Accept ==
  /\ socket = "connecting" /\ thread = "none"
  /\ thread' = "opened" /\ lastSeq' = pageSeq
  /\ UNCHANGED <<server, held, heldRun, channel, page, bounds>>

\* connection_opened emits, and takes the snapshot before it reads the events.
Opened ==
  /\ thread = "opened"
  /\ Emit /\ heldRun' = version
  /\ thread' = "replay"
  /\ UNCHANGED <<version, pending, lastSeq, held, channel, page, bounds>>

Replay ==
  /\ thread = "replay"
  /\ LET events == EventsAfter(lastSeq) IN
       /\ Send(heldRun, events)
       /\ lastSeq' = Max(events \cup {lastSeq})
  /\ thread' = "read" /\ heldRun' = NoRun
  /\ UNCHANGED <<server, held, uplink, page, bounds>>

\* A participant's heartbeat emits, unless the run or the participant is done.
HeartbeatEmits ==
  /\ Role = "participant" /\ beats < MaxBeats
  /\ Emit /\ beats' = beats + 1

\* Mutant: a heartbeat is answered like a ping.
AnswerKeepalivePong ==
  /\ thread = "read" /\ uplink
  /\ uplink' = FALSE /\ thread' = "events"
  /\ (HeartbeatEmits \/ UNCHANGED <<nextSeq, log, beats>>)
  /\ UNCHANGED <<version, pending, lastSeq, held, heldRun, wire, page, breaks, edits>>

\* A participant's heartbeat is answered with a snapshot; a host's ping without.
AnswerKeepalive ==
  /\ thread = "read" /\ uplink
  /\ uplink' = FALSE /\ thread' = "events"
  /\ IF Role = "participant" THEN Send(version, {}) ELSE UNCHANGED wire
  /\ (HeartbeatEmits \/ UNCHANGED <<nextSeq, log, beats>>)
  /\ UNCHANGED <<version, pending, lastSeq, held, heldRun, page, breaks, edits>>

\* Nothing to read for 0.35 s.
ReadTimesOut ==
  /\ thread = "read" /\ ~ uplink
  /\ EventsAfter(lastSeq) # {}
  /\ thread' = "events"
  /\ UNCHANGED <<server, lastSeq, held, heldRun, channel, page, bounds>>

\* service.events(after=last_seq)
ReadEvents ==
  /\ thread = "events"
  /\ held' = EventsAfter(lastSeq)
  /\ lastSeq' = Max(held' \cup {lastSeq})
  /\ thread' = IF held' = {} THEN "read" ELSE "push"
  /\ UNCHANGED <<server, heldRun, channel, page, bounds>>

\* Mutant: the events up to the snapshot count as sent.
PushToSnapshot ==
  /\ thread = "push"
  /\ Send(version, held)
  /\ held' = {} /\ thread' = "read" /\ lastSeq' = nextSeq - 1
  /\ UNCHANGED <<server, heldRun, uplink, page, bounds>>

\* The snapshot is taken after the events were read.
Push ==
  /\ thread = "push"
  /\ Send(version, held)
  /\ held' = {} /\ thread' = "read"
  /\ UNCHANGED <<server, lastSeq, heldRun, uplink, page, bounds>>

\* The socket is gone: connection_closed.
Closed ==
  /\ thread = "closing"
  /\ Emit
  /\ thread' = "none" /\ lastSeq' = -1 /\ held' = {} /\ heldRun' = NoRun
  /\ UNCHANGED <<version, pending, channel, page, bounds>>

-----------------------------------------------------------------------------
(***************************************************************************)
(* The page.                                                               *)
(***************************************************************************)
OnOpen ==
  /\ socket = "connecting" /\ thread \notin {"none", "closing"}
  /\ socket' = "open" /\ transport' = "websocket"
  /\ UNCHANGED <<server, stream, channel, pageSeq, view, poll, pollRun, editing, seen, bounds>>

\* The position in the log moves on also when the snapshot is dropped.
OnMessage ==
  /\ socket = "open" /\ wire # <<>>
  /\ LET m == Head(wire) IN
       /\ pageSeq' = Max(m.events \cup {pageSeq})
       /\ seen' = seen \cup m.events
       /\ view' = IF editing THEN view ELSE m.run
  /\ wire' = Tail(wire)
  /\ UNCHANGED <<server, stream, uplink, socket, transport, poll, pollRun, editing, bounds>>

\* The connection breaks, or the server ends it after a command it refuses.
Break ==
  /\ breaks < MaxBreaks /\ breaks' = breaks + 1
  /\ thread \notin {"none", "closing"}
  /\ socket' = "none" /\ transport' = "polling"
  /\ wire' = <<>> /\ uplink' = FALSE
  /\ thread' = "closing"
  /\ UNCHANGED <<server, lastSeq, held, heldRun, pageSeq, view, poll, pollRun, editing,
                 seen, beats, edits>>

\* The worker's timer; a beat is answered before the next is due.
Keepalive ==
  /\ socket = "open" /\ ~ uplink /\ wire = <<>>
  /\ uplink' = TRUE
  /\ UNCHANGED <<server, stream, wire, page, bounds>>

\* refreshBackendRoute: the transport is looked at before the request only.
PollAsks ==
  /\ transport = "polling" /\ poll = "idle" /\ ~ editing
  /\ poll' = "asked"
  /\ UNCHANGED <<server, stream, channel, socket, transport, pageSeq, view, pollRun,
                 editing, seen, bounds>>

PollIsAnswered ==
  /\ poll = "asked"
  /\ poll' = "answered" /\ pollRun' = version
  /\ UNCHANGED <<server, stream, channel, socket, transport, pageSeq, view, editing,
                 seen, bounds>>

\* Every morph makes sure there is a socket.
Attach == socket' = IF socket = "none" THEN "connecting" ELSE socket

PollEnds ==
  /\ poll = "answered"
  /\ IF editing THEN UNCHANGED <<view, socket>> ELSE view' = pollRun /\ Attach
  /\ poll' = "idle" /\ pollRun' = NoRun
  /\ UNCHANGED <<server, stream, channel, transport, pageSeq, editing, seen, bounds>>

\* The request fails: the page renders what it has.
PollFails ==
  /\ poll = "asked" /\ breaks < MaxBreaks /\ breaks' = breaks + 1
  /\ IF editing THEN UNCHANGED socket ELSE Attach
  /\ poll' = "idle"
  /\ UNCHANGED <<server, stream, channel, transport, pageSeq, view, pollRun, editing,
                 seen, beats, edits>>

StartEditing ==
  /\ ~ editing /\ edits < MaxEdits
  /\ editing' = TRUE /\ edits' = edits + 1
  /\ UNCHANGED <<server, stream, channel, socket, transport, pageSeq, view, poll, pollRun,
                 seen, beats, breaks>>

StopEditing ==
  /\ editing /\ editing' = FALSE
  /\ UNCHANGED <<server, stream, channel, socket, transport, pageSeq, view, poll, pollRun,
                 seen, bounds>>

-----------------------------------------------------------------------------
Thread == Opened \/ Replay \/ AnswerKeepalive \/ ReadTimesOut \/ ReadEvents \/ Push \/ Closed
Poll   == PollAsks \/ PollIsAnswered \/ PollEnds

Next ==
  \/ ChangeRun \/ EmitChange \/ Accept \/ Thread
  \/ OnOpen \/ OnMessage \/ Break \/ Keepalive
  \/ Poll \/ PollFails \/ StartEditing \/ StopEditing

Spec == Init /\ [][Next]_vars

\* The server's threads run, the channels deliver, the page's timers fire and
\* the user does not edit for ever.
FairSpec ==
  /\ Spec
  /\ WF_vars(EmitChange) /\ WF_vars(Accept) /\ WF_vars(Thread)
  /\ WF_vars(OnOpen) /\ WF_vars(OnMessage) /\ WF_vars(Keepalive)
  /\ WF_vars(Poll) /\ WF_vars(StopEditing)

-----------------------------------------------------------------------------
(***************************************************************************)
(* Properties.                                                             *)
(***************************************************************************)

\* The types of the variables; the log never holds more than max_events.
TypeOK ==
  /\ version \in 0..MaxVersion /\ pending \in BOOLEAN
  /\ nextSeq \in Nat /\ log \subseteq 0..(nextSeq - 1)
  /\ Cardinality(log) <= MaxEvents
  /\ thread \in {"none", "opened", "replay", "read", "events", "push", "closing"}
  /\ lastSeq \in -1..(nextSeq - 1) /\ held \subseteq 0..lastSeq
  /\ heldRun \in {NoRun} \cup 0..version
  /\ uplink \in BOOLEAN
  /\ \A i \in 1..Len(wire) :
       wire[i].run \in 0..version /\ wire[i].events \subseteq 0..(nextSeq - 1)
  /\ socket \in {"none", "connecting", "open"} /\ transport \in {"polling", "websocket"}
  /\ pageSeq \in -1..(nextSeq - 1) /\ view \in 0..version /\ editing \in BOOLEAN
  /\ poll \in {"idle", "asked", "answered"} /\ pollRun \in {NoRun} \cup 0..version

\* "monotonic event replay over WebSocket": over any number of connections the
\* page is sent every event once and in order, except those that had left the
\* bounded log before they could be sent.
ReplayIsGapless ==
  /\ \A s \in 0..pageSeq : s \in seen \/ s \notin log
  /\ \A i \in 1..Len(wire) : \A s \in wire[i].events :
       /\ s > pageSeq /\ s \notin seen
       /\ \A j \in 1..(i - 1) : \A r \in wire[j].events : r < s

\* When the run stands still, so does a participant's page, on the run's last
\* state: whatever was dropped while the user edited, overtaken by an older
\* answer, or missed between a snapshot and the events read after it.
PageShowsFinalRun == Role = "participant" => <>[](view = version)
=============================================================================
