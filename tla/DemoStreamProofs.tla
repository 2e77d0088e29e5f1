-------------------------- MODULE DemoStreamProofs --------------------------
(***************************************************************************)
(* Theorems about DemoStream for every size of the event log, and any      *)
(* number of changes, heartbeats, broken connections and edits.            *)
(***************************************************************************)
EXTENDS DemoStream, FiniteSetTheorems, WellFoundedInduction, TLAPS

-----------------------------------------------------------------------------
(***************************************************************************)
(* The inductive invariant.                                                *)
(***************************************************************************)
Message == [run: Nat, events: SUBSET Nat]

\* What the thread holds and the channel carries where the thread is.
Shape ==
  /\ wire \in Seq(Message)
  /\ \A s \in log : s >= nextSeq - MaxEvents
  /\ thread \notin {"push", "closing"} => held = {}
  /\ thread = "replay" => heldRun # NoRun
  /\ poll = "answered" => pollRun # NoRun
  /\ thread \in {"none", "closing", "opened", "replay"} => wire = <<>>

InWire(s) == \E i \in 1..Len(wire) : s \in wire[i].events

\* Between the page's position and the thread's, every event still retained is
\* on its way: in the channel, or held behind all that is in the channel.
Pipe ==
  /\ seen \subseteq 0..pageSeq
  /\ \A s \in 0..pageSeq : s \in seen \/ s \notin log
  /\ thread \notin {"none", "closing"} =>
       /\ pageSeq <= lastSeq
       /\ \A s \in log : s > pageSeq /\ s <= lastSeq => s \in held \/ InWire(s)
       /\ \A s \in held : pageSeq < s /\ \A r \in Nat : InWire(r) => r < s
       /\ \A i \in 1..Len(wire) : \A s \in wire[i].events :
            /\ pageSeq < s /\ s <= lastSeq
            /\ \A j \in 1..(i - 1) : \A r \in wire[j].events : r < s

IInv == TypeOK /\ Shape /\ Pipe

USE StreamAssumption

-----------------------------------------------------------------------------
(***************************************************************************)
(* The greatest of a set of event numbers.                                 *)
(***************************************************************************)
LEMMA MaxIsGreatest ==
  ASSUME NEW n \in Int, NEW S \in SUBSET Int, S # {}, \A s \in S : s <= n
  PROVE  Max(S) \in S /\ \A s \in S : s <= Max(S)
<1> DEFINE T == {n - s : s \in S}
<1>1. T \subseteq Nat /\ T # {}
  <2>1. \A s \in S : n - s \in Nat
    OBVIOUS
  <2> QED
    BY <2>1
<1>2. \E x \in T : \A y \in T : ~ (<<y, x>> \in OpToRel(<, Nat))
  BY <1>1, NatLessThanWellFounded, WFMin
<1>3. PICK x \in T : \A y \in T : ~ (y < x)
  BY <1>1, <1>2 DEF OpToRel
<1>4. PICK m \in S : x = n - m
  OBVIOUS
<1>5. \A s \in S : m >= s
  <2> SUFFICES ASSUME NEW s \in S PROVE m >= s
    OBVIOUS
  <2>1. n - s \in T /\ ~ (n - s < n - m)
    BY <1>3, <1>4
  <2> QED
    BY <2>1
<1>6. \E k \in S : \A s \in S : k >= s
  BY <1>4, <1>5
<1>7. Max(S) \in S /\ \A s \in S : Max(S) >= s
  BY <1>6, Zenon DEF Max
<1> QED
  BY <1>7

\* The position after some events have been added to it.
LEMMA Position ==
  ASSUME NEW n \in Int, NEW p \in Int, p <= n, NEW events \in SUBSET Int, \A s \in events : s <= n
  PROVE  /\ Max(events \cup {p}) \in events \cup {p}
         /\ Max(events \cup {p}) >= p /\ Max(events \cup {p}) <= n
         /\ \A s \in events : s <= Max(events \cup {p})
<1> DEFINE S == events \cup {p}
<1>1. S \in SUBSET Int /\ S # {} /\ \A s \in S : s <= n
  OBVIOUS
<1>2. Max(S) \in S /\ \A s \in S : s <= Max(S)
  BY <1>1, MaxIsGreatest
<1> QED
  BY <1>1, <1>2

-----------------------------------------------------------------------------
(***************************************************************************)
(* What appending an event and a message does.                             *)
(***************************************************************************)
LEMMA EmitBounds ==
  ASSUME TypeOK, Emit
  PROVE  /\ nextSeq' = nextSeq + 1 /\ nextSeq' \in Nat
         /\ log' \subseteq 0..(nextSeq' - 1) /\ log' \subseteq log \cup {nextSeq}
         /\ Cardinality(log') <= MaxEvents
         /\ \A s \in log' : s >= nextSeq' - MaxEvents
<1>1. nextSeq' = nextSeq + 1 /\ nextSeq \in Nat /\ nextSeq' \in Nat
  BY DEF Emit, TypeOK
<1>2. log' = {s \in log \cup {nextSeq} : s > nextSeq - MaxEvents}
  BY DEF Emit, Retained
<1>3. log' \subseteq 0..(nextSeq' - 1) /\ \A s \in log' : s >= nextSeq' - MaxEvents
  <2>1. log \subseteq 0..(nextSeq - 1) /\ MaxEvents \in Nat
    BY DEF TypeOK
  <2>2. \A s \in log' : s \in 0..nextSeq /\ s > nextSeq - MaxEvents
    BY <1>1, <1>2, <2>1
  <2> QED
    BY <1>1, <2>1, <2>2
<1>4. Cardinality(log') <= MaxEvents
  <2> DEFINE I == (nextSeq' - MaxEvents)..(nextSeq' - 1)
  <2>1. IsFiniteSet(I) /\ Cardinality(I) = MaxEvents
    <3>1. nextSeq' - MaxEvents \in Int /\ nextSeq' - 1 \in Int
      BY <1>1
    <3>2. /\ IsFiniteSet(I)
          /\ Cardinality(I) = IF nextSeq' - MaxEvents > nextSeq' - 1 THEN 0
                              ELSE (nextSeq' - 1) - (nextSeq' - MaxEvents) + 1
      BY <3>1, FS_Interval
    <3> HIDE DEF I
    <3> QED
      BY <1>1, <3>2
  <2>2. log' \subseteq I
    BY <1>1, <1>3
  <2> HIDE DEF I
  <2> QED
    BY <2>1, <2>2, FS_Subset
<1> QED
  BY <1>1, <1>2, <1>3, <1>4

LEMMA SendEffect ==
  ASSUME wire \in Seq(Message), NEW m \in Message, wire' = Append(wire, m)
  PROVE  /\ wire' \in Seq(Message) /\ Len(wire') = Len(wire) + 1 /\ Len(wire) \in Nat
         /\ \A i \in 1..Len(wire) : wire'[i] = wire[i]
         /\ wire'[Len(wire) + 1] = m
         /\ \A s : InWire(s)' <=> InWire(s) \/ s \in m.events
<1>1. /\ wire' \in Seq(Message) /\ Len(wire') = Len(wire) + 1 /\ Len(wire) \in Nat
      /\ \A i \in 1..Len(wire) : wire'[i] = wire[i]
      /\ wire'[Len(wire) + 1] = m
  OBVIOUS
<1>2. \A i \in 1..Len(wire') : i \in 1..Len(wire) \/ i = Len(wire) + 1
  BY <1>1
<1>3. \A i \in 1..Len(wire) : i \in 1..Len(wire')
  BY <1>1
<1>4. Len(wire) + 1 \in 1..Len(wire')
  BY <1>1
<1>5. \A s : InWire(s)' <=> InWire(s) \/ s \in m.events
  BY <1>1, <1>2, <1>3, <1>4 DEF InWire
<1> QED
  BY <1>1, <1>5

\* A step that moves neither the thread nor the page along the log.
LEMMA PipeStays ==
  ASSUME TypeOK, Pipe, UNCHANGED <<wire, held, lastSeq, pageSeq, seen>>,
         log' \subseteq log \cup {nextSeq},
         thread' \notin {"none", "closing"} => thread \notin {"none", "closing"}
  PROVE  Pipe'
<1>1. \A s : InWire(s)' <=> InWire(s)
  BY DEF InWire
<1>2. /\ nextSeq \in Nat /\ lastSeq \in Int /\ lastSeq < nextSeq
      /\ pageSeq \in Int /\ pageSeq < nextSeq
  BY DEF TypeOK
<1>3. \A s \in 0..pageSeq : s \in seen' \/ s \notin log'
  BY <1>2 DEF Pipe
<1>4. \A s \in log' : s > pageSeq /\ s <= lastSeq => s \in held' \/ InWire(s)'
      \/ thread' \in {"none", "closing"}
  BY <1>1, <1>2 DEF Pipe
<1> QED
  BY <1>1, <1>3, <1>4 DEF Pipe

\* A step that hands everything held, and everything retained up to the thread's
\* new position, to the channel.
LEMMA PipeSends ==
  ASSUME TypeOK, Shape, Pipe, thread \notin {"none", "closing"},
         NEW m \in Message, wire' = Append(wire, m),
         lastSeq' \in Int, lastSeq <= lastSeq', lastSeq' < nextSeq,
         \A s \in m.events : /\ pageSeq < s /\ s <= lastSeq'
                             /\ \A r \in Nat : InWire(r) => r < s,
         \A s \in log : s > lastSeq /\ s <= lastSeq' => s \in m.events,
         held \subseteq m.events, held' = {}, UNCHANGED <<pageSeq, seen>>,
         log' \subseteq log \cup {nextSeq}
  PROVE  Pipe'
<1>1. /\ nextSeq \in Nat /\ lastSeq \in Int /\ pageSeq \in Int /\ pageSeq < nextSeq
      /\ log \subseteq Nat
  BY DEF TypeOK
<1>2. /\ wire' \in Seq(Message) /\ Len(wire') = Len(wire) + 1 /\ Len(wire) \in Nat
      /\ \A i \in 1..Len(wire) : wire'[i] = wire[i]
      /\ wire'[Len(wire) + 1] = m
      /\ \A s : InWire(s)' <=> InWire(s) \/ s \in m.events
  BY SendEffect DEF Shape
<1>3. \A s \in 0..pageSeq : s \in seen' \/ s \notin log'
  BY <1>1 DEF Pipe
<1>4. \A s \in log' : s > pageSeq /\ s <= lastSeq' => InWire(s)'
  <2> SUFFICES ASSUME NEW s \in log', s > pageSeq, s <= lastSeq' PROVE InWire(s)'
    OBVIOUS
  <2>1. s \in log /\ s \in Nat
    BY <1>1
  <2>2. CASE s <= lastSeq
    BY <1>2, <2>1, <2>2 DEF Pipe
  <2>3. CASE s > lastSeq
    BY <1>2, <2>1, <2>3
  <2> QED
    BY <1>1, <2>1, <2>2, <2>3
<1>5. pageSeq <= lastSeq'
  BY <1>1 DEF Pipe
<1>6. ASSUME NEW i \in 1..Len(wire'), NEW s \in wire'[i].events
      PROVE  /\ pageSeq < s /\ s <= lastSeq'
             /\ \A j \in 1..(i - 1) : \A r \in wire'[j].events : r < s
  <2>1. CASE i \in 1..Len(wire)
    <3>1. wire'[i] = wire[i] /\ \A j \in 1..(i - 1) : wire'[j] = wire[j]
      BY <1>2, <2>1
    <3>2. /\ pageSeq < s /\ s <= lastSeq
          /\ \A j \in 1..(i - 1) : \A r \in wire[j].events : r < s
      BY <1>6, <2>1, <3>1 DEF Pipe
    <3>3. s \in Nat
      <4>1. wire'[i] \in Message
        BY <1>2, <1>6
      <4> QED
        BY <1>6, <4>1 DEF Message
    <3> QED
      BY <1>1, <3>1, <3>2, <3>3
  <2>2. CASE i = Len(wire) + 1
    <3>1. s \in m.events
      BY <1>2, <1>6, <2>2
    <3>2. \A j \in 1..(i - 1) : j \in 1..Len(wire) /\ wire'[j] = wire[j] /\ wire[j] \in Message
      BY <1>2, <2>2 DEF Shape
    <3>3. \A j \in 1..(i - 1) : \A r \in wire'[j].events : r \in Nat /\ InWire(r)
      BY <3>2 DEF InWire, Message
    <3> QED
      BY <3>1, <3>3
  <2> QED
    BY <1>2, <1>6, <2>1, <2>2
<1> QED
  BY <1>3, <1>4, <1>5, <1>6 DEF Pipe

-----------------------------------------------------------------------------
(***************************************************************************)
(* Types and shape.                                                        *)
(***************************************************************************)
Stages == {"none", "opened", "replay", "read", "events", "push", "closing"}

\* The channel after a message of a known version and of events emitted.
LEMMA SendTypes ==
  ASSUME TypeOK, Shape, NEW v \in 0..version, NEW es \in SUBSET (0..(nextSeq - 1)),
         wire' = Append(wire, [run |-> v, events |-> es])
  PROVE  /\ [run |-> v, events |-> es] \in Message /\ wire' \in Seq(Message)
         /\ \A i \in 1..Len(wire') :
              wire'[i].run \in 0..version /\ wire'[i].events \subseteq 0..(nextSeq - 1)
<1>1. [run |-> v, events |-> es] \in Message
  BY DEF Message, TypeOK
<1> DEFINE m == [run |-> v, events |-> es]
<1>2. m.run = v /\ m.events = es
  OBVIOUS
<1> HIDE DEF m
<1>3. /\ wire' \in Seq(Message) /\ Len(wire') = Len(wire) + 1 /\ Len(wire) \in Nat
      /\ \A i \in 1..Len(wire) : wire'[i] = wire[i]
      /\ wire'[Len(wire) + 1] = m
  BY <1>1, SendEffect DEF Shape, m
<1>4. \A i \in 1..Len(wire') : i \in 1..Len(wire) \/ i = Len(wire) + 1
  BY <1>3
<1>5. \A i \in 1..Len(wire') :
        wire'[i].run \in 0..version /\ wire'[i].events \subseteq 0..(nextSeq - 1)
  BY <1>2, <1>3, <1>4 DEF TypeOK
<1> QED
  BY <1>1, <1>3, <1>5 DEF m

\* A service that has moved on keeps the bounds of everyone who follows it.
LEMMA TypesGrow ==
  ASSUME TypeOK, version <= version', version' \in 0..MaxVersion, pending' \in BOOLEAN,
         nextSeq' \in Nat, nextSeq <= nextSeq', log' \subseteq 0..(nextSeq' - 1),
         Cardinality(log') <= MaxEvents, thread' \in Stages, uplink' \in BOOLEAN,
         UNCHANGED <<lastSeq, held, socket, transport, pageSeq, view, poll, pollRun, editing>>,
         heldRun' \in {NoRun, heldRun, version},
         \A i \in 1..Len(wire') :
           wire'[i].run \in 0..version /\ wire'[i].events \subseteq 0..(nextSeq - 1)
  PROVE  TypeOK'
<1>0. version \in Nat /\ version' \in Nat /\ nextSeq \in Nat
  BY DEF TypeOK
<1>1. /\ 0..version \subseteq 0..version' /\ version \in 0..version
      /\ 0..(nextSeq - 1) \subseteq 0..(nextSeq' - 1)
      /\ -1..(nextSeq - 1) \subseteq -1..(nextSeq' - 1)
  BY <1>0
<1>2. /\ lastSeq' \in -1..(nextSeq' - 1) /\ held' \subseteq 0..lastSeq'
      /\ pageSeq' \in -1..(nextSeq' - 1) /\ view' \in 0..version'
  BY <1>1 DEF TypeOK
<1>3. heldRun' \in {NoRun} \cup 0..version' /\ pollRun' \in {NoRun} \cup 0..version'
  BY <1>1 DEF TypeOK
<1>4. \A i \in 1..Len(wire') :
        wire'[i].run \in 0..version' /\ wire'[i].events \subseteq 0..(nextSeq' - 1)
  BY <1>1
<1>5. /\ socket' \in {"none", "connecting", "open"} /\ editing' \in BOOLEAN
      /\ transport' \in {"polling", "websocket"} /\ poll' \in {"idle", "asked", "answered"}
  BY DEF TypeOK
<1> QED
  BY <1>2, <1>3, <1>4, <1>5 DEF TypeOK, Stages

\* Operations, their events, and what a step may do to the service.
LEMMA ServiceKeeps == IInv /\ (ChangeRun \/ EmitChange) => IInv'
<1> SUFFICES ASSUME IInv, ChangeRun \/ EmitChange PROVE IInv'
  OBVIOUS
<1> USE DEF IInv
<1>1. CASE ChangeRun
  <2>1. /\ version' = version + 1 /\ version < MaxVersion /\ pending' = TRUE
        /\ UNCHANGED <<nextSeq, log, thread, lastSeq, held, heldRun, wire, uplink, socket,
                       transport, pageSeq, view, poll, pollRun, editing, seen>>
    BY <1>1 DEF ChangeRun, stream, channel, page
  <2>2. TypeOK'
    <3>1. /\ version <= version' /\ version' \in 0..MaxVersion /\ pending' \in BOOLEAN
          /\ nextSeq' \in Nat /\ nextSeq <= nextSeq' /\ log' \subseteq 0..(nextSeq' - 1)
          /\ Cardinality(log') <= MaxEvents /\ thread' \in Stages /\ uplink' \in BOOLEAN
      BY <2>1 DEF TypeOK, Stages
    <3>2. \A i \in 1..Len(wire') :
            wire'[i].run \in 0..version /\ wire'[i].events \subseteq 0..(nextSeq - 1)
      BY <2>1 DEF TypeOK
    <3> QED
      BY <2>1, <3>1, <3>2, TypesGrow
  <2>3. Shape'
    BY <2>1 DEF Shape
  <2>4. Pipe'
    BY <2>1, PipeStays
  <2> QED
    BY <2>2, <2>3, <2>4
<1>2. CASE EmitChange
  <2>1. /\ Emit /\ pending' = FALSE
        /\ UNCHANGED <<version, thread, lastSeq, held, heldRun, wire, uplink, socket,
                       transport, pageSeq, view, poll, pollRun, editing, seen>>
    BY <1>2 DEF EmitChange, stream, channel, page
  <2>2. /\ nextSeq' = nextSeq + 1 /\ nextSeq' \in Nat
        /\ log' \subseteq 0..(nextSeq' - 1) /\ log' \subseteq log \cup {nextSeq}
        /\ Cardinality(log') <= MaxEvents
        /\ \A s \in log' : s >= nextSeq' - MaxEvents
    BY <2>1, EmitBounds
  <2>3. TypeOK'
    <3>1. version <= version' /\ version' \in 0..MaxVersion /\ nextSeq <= nextSeq'
      BY <2>1, <2>2 DEF TypeOK
    <3>3. pending' \in BOOLEAN /\ thread' \in Stages /\ uplink' \in BOOLEAN
      BY <2>1, Zenon DEF TypeOK, Stages
    <3>2. \A i \in 1..Len(wire') :
            wire'[i].run \in 0..version /\ wire'[i].events \subseteq 0..(nextSeq - 1)
      BY <2>1 DEF TypeOK
    <3> QED
      BY <2>1, <2>2, <3>1, <3>2, <3>3, TypesGrow
  <2>4. Shape'
    BY <2>1, <2>2 DEF Shape
  <2>5. Pipe'
    BY <2>1, <2>2, PipeStays
  <2> QED
    BY <2>3, <2>4, <2>5
<1> QED
  BY <1>1, <1>2

LEMMA InitIInv == Init => IInv
<1> SUFFICES ASSUME Init PROVE IInv
  OBVIOUS
<1>1. Cardinality({}) = 0
  BY FS_EmptySet
<1>2. TypeOK
  <2>1. Len(wire) = 0
    BY DEF Init
  <2>2. \A i \in 1..Len(wire) :
          wire[i].run \in 0..version /\ wire[i].events \subseteq 0..(nextSeq - 1)
    BY <2>1
  <2>3. /\ version \in 0..MaxVersion /\ view \in 0..version /\ pageSeq \in -1..(nextSeq - 1)
        /\ lastSeq \in -1..(nextSeq - 1) /\ Cardinality(log) <= MaxEvents
    BY <1>1 DEF Init
  <2>4. /\ log \subseteq 0..(nextSeq - 1) /\ held \subseteq 0..lastSeq /\ nextSeq \in Nat
        /\ heldRun = NoRun /\ pollRun = NoRun
    BY DEF Init
  <2>5. /\ pending \in BOOLEAN /\ thread \in Stages /\ uplink \in BOOLEAN
        /\ editing \in BOOLEAN /\ poll = "idle" /\ socket = "connecting"
        /\ transport = "polling"
    BY DEF Init, Stages
  <2> QED
    BY <2>2, <2>3, <2>4, <2>5 DEF TypeOK, Stages
<1>3. Shape
  BY DEF Init, Shape, NoRun
<1>4. Pipe
  BY DEF Init, Pipe
<1> QED
  BY <1>2, <1>3, <1>4 DEF IInv

-----------------------------------------------------------------------------
(***************************************************************************)
(* The thread.                                                             *)
(***************************************************************************)
LEMMA AcceptKeeps == IInv /\ Accept => IInv'
<1> SUFFICES ASSUME IInv, Accept PROVE IInv'
  OBVIOUS
<1> USE DEF IInv
<1>1. /\ thread = "none" /\ thread' = "opened" /\ lastSeq' = pageSeq /\ wire = <<>>
      /\ held = {}
      /\ UNCHANGED <<version, pending, nextSeq, log, held, heldRun, wire, uplink, socket,
                     transport, pageSeq, view, poll, pollRun, editing, seen>>
  BY DEF Accept, Shape, server, channel, page
<1>2. TypeOK'
  BY <1>1 DEF TypeOK
<1>3. Shape'
  BY <1>1 DEF Shape
<1>4. Pipe'
  BY <1>1 DEF Pipe, TypeOK
<1> QED
  BY <1>2, <1>3, <1>4

LEMMA OpenedKeeps == IInv /\ Opened => IInv'
<1> SUFFICES ASSUME IInv, Opened PROVE IInv'
  OBVIOUS
<1> USE DEF IInv
<1>1. /\ thread = "opened" /\ thread' = "replay" /\ Emit /\ heldRun' = version
      /\ UNCHANGED <<version, pending, lastSeq, held, wire, uplink, socket,
                     transport, pageSeq, view, poll, pollRun, editing, seen>>
  BY DEF Opened, channel, page
<1>2. /\ nextSeq' = nextSeq + 1 /\ nextSeq' \in Nat
      /\ log' \subseteq 0..(nextSeq' - 1) /\ log' \subseteq log \cup {nextSeq}
      /\ Cardinality(log') <= MaxEvents
      /\ \A s \in log' : s >= nextSeq' - MaxEvents
  BY <1>1, EmitBounds
<1>3. TypeOK'
  BY <1>1, <1>2 DEF TypeOK
<1>4. Shape'
  BY <1>1, <1>2 DEF Shape, TypeOK, NoRun
<1>5. Pipe'
  BY <1>1, <1>2, PipeStays
<1> QED
  BY <1>3, <1>4, <1>5

LEMMA ReplayKeeps == IInv /\ Replay => IInv'
<1> SUFFICES ASSUME IInv, Replay PROVE IInv'
  OBVIOUS
<1> USE DEF IInv
<1> DEFINE es == EventsAfter(lastSeq)
           m  == [run |-> heldRun, events |-> es]
<1>1. /\ thread = "replay" /\ thread' = "read" /\ heldRun' = NoRun
      /\ wire' = Append(wire, m) /\ lastSeq' = Max(es \cup {lastSeq})
      /\ held = {} /\ wire = <<>>
      /\ UNCHANGED <<version, pending, nextSeq, log, held, uplink, socket,
                     transport, pageSeq, view, poll, pollRun, editing, seen>>
  BY DEF Replay, Send, Shape, server, page
<1>2. /\ es \in SUBSET (0..(nextSeq - 1)) /\ nextSeq \in Nat /\ lastSeq \in -1..(nextSeq - 1)
      /\ \A s \in log : s > lastSeq <=> s \in es
      /\ \A s \in es : s > lastSeq
  BY DEF EventsAfter, TypeOK
<1> HIDE DEF m
<1>3. /\ lastSeq' \in Int /\ lastSeq <= lastSeq' /\ lastSeq' < nextSeq
      /\ \A s \in es : s <= lastSeq'
  <2> HIDE DEF es
  <2>1. es \in SUBSET Int /\ \A s \in es : s <= nextSeq - 1
    BY <1>2
  <2>2. lastSeq \in Int /\ nextSeq - 1 \in Int /\ lastSeq <= nextSeq - 1
    BY <1>2
  <2>3. /\ Max(es \cup {lastSeq}) \in es \cup {lastSeq}
        /\ Max(es \cup {lastSeq}) >= lastSeq /\ Max(es \cup {lastSeq}) <= nextSeq - 1
        /\ \A s \in es : s <= Max(es \cup {lastSeq})
    BY <2>1, <2>2, Position
  <2>4. lastSeq' = Max(es \cup {lastSeq})
    BY <1>1
  <2>5. lastSeq' \in Int
    BY <2>1, <2>2, <2>3, <2>4
  <2>6. lastSeq <= lastSeq' /\ \A s \in es : s <= lastSeq'
    BY <2>3, <2>4
  <2>7. lastSeq' < nextSeq
    BY <1>2, <2>3, <2>4, <2>5
  <2> QED
    BY <2>5, <2>6, <2>7
<1>4. heldRun \in 0..version
  BY <1>1 DEF Shape, TypeOK
<1>5. /\ m \in Message /\ wire' \in Seq(Message)
      /\ \A i \in 1..Len(wire') :
           wire'[i].run \in 0..version /\ wire'[i].events \subseteq 0..(nextSeq - 1)
  BY <1>1, <1>2, <1>4, SendTypes DEF m
<1> HIDE DEF es
<1>6. m.events = es
  BY DEF m
<1>7. TypeOK'
  BY <1>1, <1>2, <1>3, <1>5 DEF TypeOK
<1>8. Shape'
  BY <1>1, <1>5 DEF Shape
<1>9. Pipe'
  <2>1. thread \notin {"none", "closing"} /\ pageSeq <= lastSeq /\ pageSeq \in Int
    BY <1>1 DEF Pipe, TypeOK
  <2>2. \A r \in Nat : ~ InWire(r)
    BY <1>1 DEF InWire
  <2>3. \A s \in es : pageSeq < s
    BY <1>2, <2>1
  <2> QED
    BY <1>1, <1>2, <1>3, <1>5, <1>6, <2>1, <2>2, <2>3, PipeSends
<1> QED
  BY <1>7, <1>8, <1>9

LEMMA KeepaliveKeeps == IInv /\ AnswerKeepalive => IInv'
<1> SUFFICES ASSUME IInv, AnswerKeepalive PROVE IInv'
  OBVIOUS
<1> USE DEF IInv
<1>1. /\ thread = "read" /\ thread' = "events" /\ uplink' = FALSE /\ held = {}
      /\ wire' = Append(wire, [run |-> version, events |-> {}]) \/ UNCHANGED wire
      /\ Emit \/ UNCHANGED <<nextSeq, log>>
      /\ UNCHANGED <<version, pending, lastSeq, held, heldRun, socket,
                     transport, pageSeq, view, poll, pollRun, editing, seen>>
  BY DEF AnswerKeepalive, HeartbeatEmits, Send, Shape, page
<1>2. /\ nextSeq' \in Nat /\ nextSeq \in Nat /\ nextSeq' >= nextSeq
      /\ log' \subseteq 0..(nextSeq' - 1) /\ log' \subseteq log \cup {nextSeq}
      /\ Cardinality(log') <= MaxEvents
      /\ \A s \in log' : s >= nextSeq' - MaxEvents
  <2>1. CASE Emit
    BY <2>1, EmitBounds DEF TypeOK
  <2>2. CASE UNCHANGED <<nextSeq, log>>
    BY <2>2 DEF TypeOK, Shape
  <2> QED
    BY <1>1, <2>1, <2>2
<1>3. /\ wire' \in Seq(Message)
      /\ \A i \in 1..Len(wire') :
           wire'[i].run \in 0..version /\ wire'[i].events \subseteq 0..(nextSeq - 1)
  <2>1. CASE wire' = Append(wire, [run |-> version, events |-> {}])
    <3>1. version \in 0..version /\ {} \in SUBSET (0..(nextSeq - 1))
      BY DEF TypeOK
    <3> QED
      BY <2>1, <3>1, SendTypes
  <2>2. CASE UNCHANGED wire
    BY <2>2 DEF TypeOK, Shape
  <2> QED
    BY <1>1, <2>1, <2>2
<1>4. TypeOK'
  <2>1. version <= version' /\ version' \in 0..MaxVersion
    BY <1>1 DEF TypeOK
  <2>2. pending' \in BOOLEAN /\ thread' \in Stages /\ uplink' \in BOOLEAN
    BY <1>1, Zenon DEF TypeOK, Stages
  <2>3. heldRun' \in {NoRun, heldRun, version}
    BY <1>1
  <2> QED
    BY <1>1, <1>2, <1>3, <2>1, <2>2, <2>3, TypesGrow
<1>5. Shape'
  BY <1>1, <1>2, <1>3 DEF Shape
<1>6. Pipe'
  <2>1. CASE UNCHANGED wire
    BY <1>1, <1>2, <2>1, PipeStays
  <2>2. CASE wire' = Append(wire, [run |-> version, events |-> {}])
    <3> DEFINE m == [run |-> version, events |-> {}]
    <3>1. m \in Message /\ m.events = {}
      BY DEF Message, TypeOK
    <3>2. wire' = Append(wire, m)
      BY <2>2
    <3> HIDE DEF m
    <3>3. lastSeq' \in Int /\ lastSeq <= lastSeq' /\ lastSeq' < nextSeq /\ lastSeq' = lastSeq
      BY <1>1 DEF TypeOK
    <3>4. \A s \in log : s > lastSeq /\ s <= lastSeq' => s \in m.events
      <4>1. lastSeq \in Int /\ \A s \in log : s \in Int
        BY DEF TypeOK
      <4> QED
        BY <3>3, <4>1
    <3>5. /\ thread \notin {"none", "closing"}
          /\ \A s \in m.events : /\ pageSeq < s /\ s <= lastSeq'
                                 /\ \A r \in Nat : InWire(r) => r < s
          /\ held \subseteq m.events /\ held' = {} /\ UNCHANGED <<pageSeq, seen>>
      BY <1>1, <3>1
    <3> QED
      BY <1>2, <3>1, <3>2, <3>3, <3>4, <3>5, PipeSends
  <2> QED
    BY <1>1, <2>1, <2>2
<1> QED
  BY <1>4, <1>5, <1>6

LEMMA ReadTimesOutKeeps == IInv /\ ReadTimesOut => IInv'
<1> SUFFICES ASSUME IInv, ReadTimesOut PROVE IInv'
  OBVIOUS
<1> USE DEF IInv
<1>1. /\ thread = "read" /\ thread' = "events"
      /\ UNCHANGED <<version, pending, nextSeq, log, lastSeq, held, heldRun, wire, uplink,
                     socket, transport, pageSeq, view, poll, pollRun, editing, seen>>
  BY DEF ReadTimesOut, server, channel, page
<1>2. TypeOK'
  BY <1>1 DEF TypeOK
<1>3. Shape'
  BY <1>1 DEF Shape
<1>4. Pipe'
  BY <1>1, PipeStays
<1> QED
  BY <1>2, <1>3, <1>4

\* The thread moves on to what it holds: nothing retained is left behind.
LEMMA ReadEventsKeeps == IInv /\ ReadEvents => IInv'
<1> SUFFICES ASSUME IInv, ReadEvents PROVE IInv'
  OBVIOUS
<1> USE DEF IInv
<1> DEFINE es == EventsAfter(lastSeq)
<1>1. /\ thread = "events" /\ held' = es /\ lastSeq' = Max(es \cup {lastSeq})
      /\ thread' = IF held' = {} THEN "read" ELSE "push"
      /\ held = {}
      /\ UNCHANGED <<version, pending, nextSeq, log, heldRun, wire, uplink,
                     socket, transport, pageSeq, view, poll, pollRun, editing, seen>>
  BY DEF ReadEvents, server, channel, page, Shape
<1>2. /\ es \in SUBSET (0..(nextSeq - 1)) /\ nextSeq \in Nat /\ lastSeq \in -1..(nextSeq - 1)
      /\ \A s \in log : s > lastSeq <=> s \in es
      /\ \A s \in es : s > lastSeq
  BY DEF EventsAfter, TypeOK
<1> HIDE DEF es
<1>3. /\ lastSeq' \in Int /\ lastSeq <= lastSeq' /\ lastSeq' < nextSeq
      /\ \A s \in es : s <= lastSeq'
  <2>1. es \in SUBSET Int /\ \A s \in es : s <= nextSeq - 1
    BY <1>2
  <2>2. lastSeq \in Int /\ nextSeq - 1 \in Int /\ lastSeq <= nextSeq - 1
    BY <1>2
  <2>3. /\ Max(es \cup {lastSeq}) \in es \cup {lastSeq}
        /\ Max(es \cup {lastSeq}) >= lastSeq /\ Max(es \cup {lastSeq}) <= nextSeq - 1
        /\ \A s \in es : s <= Max(es \cup {lastSeq})
    BY <2>1, <2>2, Position
  <2>4. lastSeq' = Max(es \cup {lastSeq})
    BY <1>1
  <2>5. lastSeq' \in Int
    BY <2>1, <2>2, <2>3, <2>4
  <2>6. lastSeq <= lastSeq' /\ \A s \in es : s <= lastSeq'
    BY <2>3, <2>4
  <2>7. lastSeq' < nextSeq
    BY <1>2, <2>3, <2>4, <2>5
  <2> QED
    BY <2>5, <2>6, <2>7
<1>4. TypeOK'
  <2>1. lastSeq' \in -1..(nextSeq - 1) /\ held' \subseteq 0..lastSeq'
    BY <1>1, <1>2, <1>3
  <2>2. thread' \in Stages
    BY <1>1 DEF Stages
  <2> QED
    BY <1>1, <2>1, <2>2 DEF TypeOK, Stages
<1>5. Shape'
  BY <1>1 DEF Shape
<1>6. Pipe'
  <2>1. pageSeq <= lastSeq /\ pageSeq \in Int /\ lastSeq \in Int
    BY <1>1 DEF Pipe, TypeOK
  <2>2. \A s : InWire(s)' <=> InWire(s)
    BY <1>1 DEF InWire
  <2>3. \A r \in Nat : InWire(r) => r <= lastSeq
    BY <1>1 DEF Pipe, InWire
  <2>4. \A s \in log : s > pageSeq /\ s <= lastSeq' => s \in held' \/ InWire(s)'
    <3> SUFFICES ASSUME NEW s \in log, s > pageSeq PROVE s \in held' \/ InWire(s)'
      OBVIOUS
    <3>1. s \in Int
      BY DEF TypeOK
    <3>2. CASE s > lastSeq
      BY <1>1, <1>2, <3>2
    <3>3. CASE s <= lastSeq
      BY <1>1, <2>2, <3>3 DEF Pipe
    <3> QED
      BY <2>1, <3>1, <3>2, <3>3
  <2>5. \A s \in held' : pageSeq < s /\ \A r \in Nat : InWire(r)' => r < s
    BY <1>1, <1>2, <2>1, <2>2, <2>3
  <2>6. ASSUME NEW i \in 1..Len(wire), NEW s \in wire[i].events
        PROVE  /\ pageSeq < s /\ s <= lastSeq'
               /\ \A j \in 1..(i - 1) : \A r \in wire[j].events : r < s
    <3>1. /\ pageSeq < s /\ s <= lastSeq
          /\ \A j \in 1..(i - 1) : \A r \in wire[j].events : r < s
      BY <1>1, <2>6 DEF Pipe
    <3>2. s \in Int
      BY <2>6 DEF TypeOK
    <3> QED
      BY <1>3, <2>1, <3>1, <3>2
  <2>7. pageSeq <= lastSeq'
    BY <1>3, <2>1
  <2>8. seen' \subseteq 0..pageSeq' /\ \A s \in 0..pageSeq' : s \in seen' \/ s \notin log'
    BY <1>1 DEF Pipe
  <2> QED
    BY <1>1, <2>4, <2>5, <2>6, <2>7, <2>8 DEF Pipe
<1> QED
  BY <1>4, <1>5, <1>6

LEMMA PushKeeps == IInv /\ Push => IInv'
<1> SUFFICES ASSUME IInv, Push PROVE IInv'
  OBVIOUS
<1> USE DEF IInv
<1> DEFINE m == [run |-> version, events |-> held]
<1>1. /\ thread = "push" /\ thread' = "read" /\ held' = {}
      /\ wire' = Append(wire, m)
      /\ UNCHANGED <<version, pending, nextSeq, log, lastSeq, heldRun, uplink,
                     socket, transport, pageSeq, view, poll, pollRun, editing, seen>>
  BY DEF Push, Send, server, page
<1>2. version \in 0..version /\ held \in SUBSET (0..(nextSeq - 1))
  BY DEF TypeOK
<1>3. /\ m \in Message /\ wire' \in Seq(Message)
      /\ \A i \in 1..Len(wire') :
           wire'[i].run \in 0..version /\ wire'[i].events \subseteq 0..(nextSeq - 1)
  BY <1>1, <1>2, SendTypes
<1>4. m.events = held
  OBVIOUS
<1> HIDE DEF m
<1>5. TypeOK'
  BY <1>1, <1>3 DEF TypeOK
<1>6. Shape'
  BY <1>1, <1>3 DEF Shape
<1>7. Pipe'
  <2>1. lastSeq' \in Int /\ lastSeq <= lastSeq' /\ lastSeq' < nextSeq /\ lastSeq' = lastSeq
    BY <1>1 DEF TypeOK
  <2>2. \A s \in log : s > lastSeq /\ s <= lastSeq' => s \in m.events
    <3>1. lastSeq \in Int /\ \A s \in log : s \in Int
      BY DEF TypeOK
    <3> QED
      BY <2>1, <3>1
  <2>3. \A s \in m.events : /\ pageSeq < s /\ s <= lastSeq'
                             /\ \A r \in Nat : InWire(r) => r < s
    <3>1. held \subseteq 0..lastSeq
      BY DEF TypeOK
    <3>2. \A s \in held : s <= lastSeq'
      BY <2>1, <3>1
    <3>3. \A s \in held : pageSeq < s /\ \A r \in Nat : InWire(r) => r < s
      BY <1>1 DEF Pipe
    <3> QED
      BY <1>4, <3>2, <3>3
  <2>4. thread \notin {"none", "closing"} /\ held \subseteq m.events
    BY <1>1, <1>4
  <2> QED
    BY <1>1, <1>3, <2>1, <2>2, <2>3, <2>4, PipeSends
<1> QED
  BY <1>5, <1>6, <1>7

LEMMA ClosedKeeps == IInv /\ Closed => IInv'
<1> SUFFICES ASSUME IInv, Closed PROVE IInv'
  OBVIOUS
<1> USE DEF IInv
<1>1. /\ thread = "closing" /\ thread' = "none" /\ Emit /\ wire = <<>>
      /\ lastSeq' = -1 /\ held' = {} /\ heldRun' = NoRun
      /\ UNCHANGED <<version, pending, wire, uplink, socket,
                     transport, pageSeq, view, poll, pollRun, editing, seen>>
  BY DEF Closed, Shape, channel, page
<1>2. /\ nextSeq' = nextSeq + 1 /\ nextSeq' \in Nat /\ nextSeq \in Nat
      /\ log' \subseteq 0..(nextSeq' - 1) /\ log' \subseteq log \cup {nextSeq}
      /\ Cardinality(log') <= MaxEvents
      /\ \A s \in log' : s >= nextSeq' - MaxEvents
  BY <1>1, EmitBounds DEF TypeOK
<1>3. TypeOK'
  <2>1. Len(wire') = 0
    BY <1>1
  <2>2. \A i \in 1..Len(wire') :
          wire'[i].run \in 0..version' /\ wire'[i].events \subseteq 0..(nextSeq' - 1)
    BY <2>1
  <2>3. lastSeq' \in -1..(nextSeq' - 1) /\ held' \subseteq 0..lastSeq'
    BY <1>1, <1>2
  <2>4. pageSeq' \in -1..(nextSeq' - 1)
    BY <1>1, <1>2 DEF TypeOK
  <2>5. heldRun' \in {NoRun} \cup 0..version' /\ thread' \in Stages
    BY <1>1 DEF Stages
  <2> QED
    BY <1>1, <1>2, <2>2, <2>3, <2>4, <2>5 DEF TypeOK, Stages
<1>4. Shape'
  BY <1>1, <1>2 DEF Shape
<1>5. Pipe'
  <2>1. \A s \in 0..pageSeq : s \in seen' \/ s \notin log'
    BY <1>1, <1>2 DEF Pipe, TypeOK
  <2> QED
    BY <1>1, <2>1 DEF Pipe
<1> QED
  BY <1>3, <1>4, <1>5

-----------------------------------------------------------------------------
(***************************************************************************)
(* The page.                                                               *)
(***************************************************************************)
\* A step of the page that takes nothing from the channel.
LEMMA PageKeeps ==
  ASSUME IInv,
         UNCHANGED <<version, pending, nextSeq, log, thread, lastSeq, held, heldRun, wire,
                     pageSeq, seen>>,
         uplink' \in BOOLEAN, editing' \in BOOLEAN,
         socket' \in {"none", "connecting", "open"}, transport' \in {"polling", "websocket"},
         view' \in 0..version, poll' \in {"idle", "asked", "answered"},
         pollRun' \in {NoRun} \cup 0..version, poll' = "answered" => pollRun' # NoRun
  PROVE  IInv'
<1> USE DEF IInv
<1>1. TypeOK'
  BY DEF TypeOK
<1>2. Shape'
  BY DEF Shape
<1>3. Pipe'
  BY PipeStays DEF TypeOK
<1> QED
  BY <1>1, <1>2, <1>3

LEMMA PageStepKeeps ==
  IInv /\ (OnOpen \/ Keepalive \/ Poll \/ PollFails \/ StartEditing \/ StopEditing) => IInv'
<1> SUFFICES ASSUME IInv,
                    OnOpen \/ Keepalive \/ Poll \/ PollFails \/ StartEditing \/ StopEditing
             PROVE  IInv'
  OBVIOUS
<1>1. UNCHANGED <<version, pending, nextSeq, log, thread, lastSeq, held, heldRun, wire,
                  pageSeq, seen>>
  BY DEF OnOpen, Keepalive, Poll, PollAsks, PollIsAnswered, PollEnds, PollFails,
         StartEditing, StopEditing, server, stream, channel, page
<1>2. /\ uplink \in BOOLEAN /\ editing \in BOOLEAN
      /\ socket \in {"none", "connecting", "open"} /\ transport \in {"polling", "websocket"}
      /\ poll \in {"idle", "asked", "answered"} /\ pollRun \in {NoRun} \cup 0..version
      /\ view \in 0..version
  BY Zenon DEF IInv, TypeOK
<1>8. version \in Nat
  BY DEF IInv, TypeOK
<1>3. poll = "answered" => pollRun # NoRun
  BY DEF IInv, Shape
<1>4. uplink' \in BOOLEAN /\ editing' \in BOOLEAN
  BY <1>2, Zenon DEF OnOpen, Keepalive, Poll, PollAsks, PollIsAnswered, PollEnds, PollFails,
         StartEditing, StopEditing, server, stream, channel, page
<1>5. socket' \in {"none", "connecting", "open"} /\ transport' \in {"polling", "websocket"}
  BY <1>2 DEF OnOpen, Keepalive, Poll, PollAsks, PollIsAnswered, PollEnds, PollFails,
         StartEditing, StopEditing, Attach, server, stream, channel, page
<1>6. /\ poll' \in {"idle", "asked", "answered"} /\ pollRun' \in {NoRun} \cup 0..version
      /\ poll' = "answered" => pollRun' # NoRun
  BY <1>2, <1>3, <1>8 DEF OnOpen, Keepalive, Poll, PollAsks, PollIsAnswered, PollEnds, PollFails,
         StartEditing, StopEditing, NoRun, server, stream, channel, page
<1>7. view' \in 0..version
  BY <1>2, <1>3, <1>8 DEF OnOpen, Keepalive, Poll, PollAsks, PollIsAnswered, PollEnds, PollFails,
         StartEditing, StopEditing, NoRun, server, stream, channel, page
<1> QED
  BY <1>1, <1>4, <1>5, <1>6, <1>7, PageKeeps

\* A broken connection loses what it carried; the page's position stays.
LEMMA BreakKeeps == IInv /\ Break => IInv'
<1> SUFFICES ASSUME IInv, Break PROVE IInv'
  OBVIOUS
<1> USE DEF IInv
<1>1. /\ thread' = "closing" /\ wire' = <<>> /\ uplink' = FALSE
      /\ socket' = "none" /\ transport' = "polling"
      /\ UNCHANGED <<version, pending, nextSeq, log, lastSeq, held, heldRun, pageSeq, view,
                     poll, pollRun, editing, seen>>
  BY DEF Break, server
<1>2. Len(wire') = 0
  BY <1>1
<1>3. \A i \in 1..Len(wire') :
        wire'[i].run \in 0..version /\ wire'[i].events \subseteq 0..(nextSeq - 1)
  BY <1>2
<1>4. TypeOK'
  BY <1>1, <1>3 DEF TypeOK
<1>5. Shape'
  BY <1>1 DEF Shape
<1>6. Pipe'
  BY <1>1 DEF Pipe
<1> QED
  BY <1>4, <1>5, <1>6

\* The page takes the oldest message: its events are next in line.
LEMMA OnMessageKeeps == IInv /\ OnMessage => IInv'
<1> SUFFICES ASSUME IInv, OnMessage PROVE IInv'
  OBVIOUS
<1> USE DEF IInv
<1> DEFINE m == Head(wire)
<1>1. /\ wire # <<>> /\ wire' = Tail(wire)
      /\ pageSeq' = Max(m.events \cup {pageSeq}) /\ seen' = seen \cup m.events
      /\ view' = IF editing THEN view ELSE m.run
      /\ UNCHANGED <<version, pending, nextSeq, log, thread, lastSeq, held, heldRun, uplink,
                     socket, transport, poll, pollRun, editing>>
  BY DEF OnMessage, server, stream
<1>2. /\ Len(wire) \in Nat /\ Len(wire) >= 1 /\ m = wire[1] /\ m \in Message
      /\ wire' \in Seq(Message) /\ Len(wire') = Len(wire) - 1
      /\ \A i \in 1..Len(wire') : wire'[i] = wire[i + 1]
  BY <1>1 DEF Shape
<1> HIDE DEF m
<1>3. thread \notin {"none", "closing"}
  BY <1>1 DEF Shape
<1>4. m.run \in 0..version /\ m.events \subseteq 0..(nextSeq - 1) /\ 1 \in 1..Len(wire)
  BY <1>2 DEF TypeOK
<1>5. \A s \in m.events : pageSeq < s /\ s <= lastSeq
  BY <1>2, <1>3, <1>4 DEF Pipe
<1>6. /\ nextSeq \in Nat /\ lastSeq \in Int /\ pageSeq \in Int /\ pageSeq <= lastSeq
      /\ lastSeq < nextSeq /\ -1 <= pageSeq
  BY <1>3 DEF TypeOK, Pipe
<1>7. /\ pageSeq' \in m.events \cup {pageSeq} /\ pageSeq' >= pageSeq /\ pageSeq' <= lastSeq
      /\ pageSeq' \in Int /\ \A s \in m.events : s <= pageSeq'
  <2>1. m.events \in SUBSET Int
    BY <1>4
  <2>2. /\ Max(m.events \cup {pageSeq}) \in m.events \cup {pageSeq}
        /\ Max(m.events \cup {pageSeq}) >= pageSeq /\ Max(m.events \cup {pageSeq}) <= lastSeq
        /\ \A s \in m.events : s <= Max(m.events \cup {pageSeq})
    BY <1>5, <1>6, <2>1, Position
  <2> QED
    BY <1>1, <1>6, <2>1, <2>2
<1>8. \A i \in 1..Len(wire') : i + 1 \in 1..Len(wire) /\ i + 1 > 1 /\ i \in Nat
  BY <1>2
<1>9. TypeOK'
  <2>1. \A i \in 1..Len(wire') :
          wire'[i].run \in 0..version /\ wire'[i].events \subseteq 0..(nextSeq - 1)
    BY <1>2, <1>8 DEF TypeOK
  <2>2. pageSeq' \in -1..(nextSeq - 1)
    BY <1>6, <1>7
  <2>3. view' \in 0..version
    BY <1>1, <1>4 DEF TypeOK
  <2> QED
    BY <1>1, <2>1, <2>2, <2>3 DEF TypeOK
<1>10. Shape'
  BY <1>1, <1>2, <1>3 DEF Shape
<1>11. Pipe'
  <2>1. \A r \in m.events, i \in 1..Len(wire') : \A s \in wire'[i].events : r < s
    <3> SUFFICES ASSUME NEW i \in 1..Len(wire'), NEW s \in wire'[i].events
                 PROVE  \A r \in m.events : r < s
      OBVIOUS
    <3>1. i + 1 \in 1..Len(wire) /\ s \in wire[i + 1].events /\ 1 \in 1..((i + 1) - 1)
      BY <1>2, <1>8
    <3> QED
      BY <1>2, <1>3, <3>1 DEF Pipe
  <2>2. seen' \subseteq 0..pageSeq'
    <3>1. \A s \in seen : s \in 0..pageSeq'
      BY <1>6, <1>7 DEF Pipe
    <3>2. \A s \in m.events : s \in 0..pageSeq'
      BY <1>4, <1>6, <1>7
    <3> QED
      BY <1>1, <3>1, <3>2
  <2>3. ASSUME NEW s \in log, s \notin m.events, s > pageSeq, InWire(s) PROVE InWire(s)'
    <3>1. PICK i \in 1..Len(wire) : s \in wire[i].events
      BY <2>3 DEF InWire
    <3>2. i # 1
      BY <1>2, <2>3, <3>1
    <3>3. i - 1 \in 1..Len(wire') /\ (i - 1) + 1 = i
      BY <1>2, <3>2
    <3>4. wire'[i - 1] = wire[i]
      BY <1>2, <3>3
    <3> QED
      BY <3>1, <3>3, <3>4 DEF InWire
  <2>4. \A s \in 0..pageSeq' : s \in seen' \/ s \notin log'
    <3> SUFFICES ASSUME NEW s \in 0..pageSeq', s \in log, s \notin m.events PROVE s \in seen'
      BY <1>1
    <3>1. CASE s <= pageSeq
      BY <1>1, <1>6, <1>7, <3>1 DEF Pipe
    <3>2. CASE s > pageSeq
      <4>1. s \in held \/ InWire(s)
        BY <1>3, <1>6, <1>7, <3>2 DEF Pipe
      <4>2. pageSeq' \in m.events
        BY <1>6, <1>7, <3>2
      <4>3. ~ InWire(s)
        <5> SUFFICES ASSUME InWire(s) PROVE FALSE
          OBVIOUS
        <5>1. InWire(s)'
          BY <2>3, <3>2
        <5>2. PICK i \in 1..Len(wire') : s \in wire'[i].events
          BY <5>1 DEF InWire
        <5>3. pageSeq' < s
          BY <2>1, <4>2, <5>2
        <5> QED
          BY <1>7, <5>3
      <4>4. InWire(pageSeq') /\ pageSeq' \in Nat
        BY <1>2, <1>4, <4>2 DEF InWire
      <4>5. pageSeq' < s
        BY <1>3, <4>1, <4>3, <4>4 DEF Pipe
      <4> QED
        BY <1>7, <4>5
    <3> QED
      BY <1>6, <1>7, <3>1, <3>2
  <2>5. \A s \in log : s > pageSeq' /\ s <= lastSeq => s \in held \/ InWire(s)'
    <3> SUFFICES ASSUME NEW s \in log, s > pageSeq', s <= lastSeq, s \notin held
                 PROVE  InWire(s)'
      OBVIOUS
    <3>1. s \in Nat
      BY DEF TypeOK
    <3>2. s > pageSeq /\ s \notin m.events
      BY <1>6, <1>7, <3>1
    <3>3. InWire(s)
      BY <1>3, <3>2 DEF Pipe
    <3> QED
      BY <2>3, <3>2, <3>3
  <2>6. \A s \in held : pageSeq' < s /\ \A r \in Nat : InWire(r)' => r < s
    <3>1. \A r : InWire(r)' => InWire(r)
      BY <1>2, <1>8 DEF InWire
    <3>2. pageSeq' = pageSeq \/ (InWire(pageSeq') /\ pageSeq' \in Nat)
      BY <1>2, <1>4, <1>7 DEF InWire
    <3> QED
      BY <1>3, <3>1, <3>2 DEF Pipe
  <2>7. ASSUME NEW i \in 1..Len(wire'), NEW s \in wire'[i].events
        PROVE  /\ pageSeq' < s /\ s <= lastSeq
               /\ \A j \in 1..(i - 1) : \A r \in wire'[j].events : r < s
    <3>1. i + 1 \in 1..Len(wire) /\ s \in wire[i + 1].events
      BY <1>2, <1>8
    <3>2. /\ pageSeq < s /\ s <= lastSeq
          /\ \A j \in 1..((i + 1) - 1) : \A r \in wire[j].events : r < s
      BY <1>3, <3>1 DEF Pipe
    <3>3. pageSeq' < s
      BY <1>7, <2>1, <3>2
    <3>4. \A j \in 1..(i - 1) : j \in 1..Len(wire') /\ j + 1 \in 1..((i + 1) - 1)
      BY <1>2
    <3>5. \A j \in 1..(i - 1) : \A r \in wire'[j].events : r < s
      BY <1>2, <3>2, <3>4
    <3> QED
      BY <3>2, <3>3, <3>5
  <2> QED
    BY <1>1, <1>7, <2>2, <2>4, <2>5, <2>6, <2>7 DEF Pipe
<1> QED
  BY <1>9, <1>10, <1>11

-----------------------------------------------------------------------------
(***************************************************************************)
(* The theorems.                                                           *)
(***************************************************************************)
LEMMA NextIInv == IInv /\ [Next]_vars => IInv'
<1> SUFFICES ASSUME IInv, [Next]_vars PROVE IInv'
  OBVIOUS
<1>1. CASE ChangeRun \/ EmitChange
  BY <1>1, ServiceKeeps
<1>2. CASE Accept
  BY <1>2, AcceptKeeps
<1>3. CASE Thread
  BY <1>3, OpenedKeeps, ReplayKeeps, KeepaliveKeeps, ReadTimesOutKeeps, ReadEventsKeeps,
     PushKeeps, ClosedKeeps DEF Thread
<1>4. CASE OnMessage
  BY <1>4, OnMessageKeeps
<1>5. CASE Break
  BY <1>5, BreakKeeps
<1>6. CASE OnOpen \/ Keepalive \/ Poll \/ PollFails \/ StartEditing \/ StopEditing
  BY <1>6, PageStepKeeps
<1>7. CASE UNCHANGED vars
  <2>1. /\ UNCHANGED <<version, pending, nextSeq, log, thread, lastSeq, held, heldRun, wire,
                       pageSeq, seen>>
        /\ UNCHANGED <<uplink, editing, socket, transport, view, poll, pollRun>>
    BY <1>7 DEF vars, server, stream, channel, page
  <2>2. TypeOK' /\ Shape'
    BY <2>1 DEF IInv, TypeOK, Shape
  <2>3. Pipe'
    BY <2>1, PipeStays DEF IInv, TypeOK
  <2> QED
    BY <2>2, <2>3 DEF IInv
<1> QED
  BY <1>1, <1>2, <1>3, <1>4, <1>5, <1>6, <1>7 DEF Next

\* The types of the variables, and a log that never holds more than max_events,
\* for every size of it.
THEOREM TypeCorrect == Spec => []TypeOK
<1>1. IInv => TypeOK
  BY DEF IInv
<1> QED
  BY InitIInv, NextIInv, <1>1, PTL DEF Spec

\* Replay over any number of connections is gapless and in order, however many
\* events the log keeps and wherever a connection breaks.
THEOREM ReplayHasNoGaps == Spec => []ReplayIsGapless
<1>1. IInv => ReplayIsGapless
  <2> SUFFICES ASSUME IInv PROVE ReplayIsGapless
    OBVIOUS
  <2>1. \A s \in 0..pageSeq : s \in seen \/ s \notin log
    BY DEF IInv, Pipe
  <2>2. ASSUME NEW i \in 1..Len(wire), NEW s \in wire[i].events
        PROVE  /\ s > pageSeq /\ s \notin seen
               /\ \A j \in 1..(i - 1) : \A r \in wire[j].events : r < s
    <3>1. Len(wire) # 0
      BY <2>2
    <3>2. thread \notin {"none", "closing"}
      BY <3>1 DEF IInv, Shape
    <3>3. /\ pageSeq < s /\ seen \subseteq 0..pageSeq
          /\ \A j \in 1..(i - 1) : \A r \in wire[j].events : r < s
      BY <2>2, <3>2 DEF IInv, Pipe
    <3>4. s \in Int /\ pageSeq \in Int
      BY <2>2 DEF IInv, TypeOK
    <3> QED
      BY <3>3, <3>4
  <2> QED
    BY <2>1, <2>2 DEF ReplayIsGapless
<1> QED
  BY InitIInv, NextIInv, <1>1, PTL DEF Spec
=============================================================================
