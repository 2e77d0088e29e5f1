----------------------------- MODULE DemoProofs -----------------------------
(***************************************************************************)
(* Theorems about DemoService and DemoPage for every set of browsers,      *)
(* quorum, number of slots, number of rounds and of requests in flight:    *)
(* the types; what holds while requests do not overlap; what holds however *)
(* they overlap; and that a run with a page is a run of the service.       *)
(***************************************************************************)
EXTENDS DemoPage, FiniteSetTheorems, TLAPS

-----------------------------------------------------------------------------
(***************************************************************************)
(* The inductive invariant.                                                *)
(***************************************************************************)

\* Requests do not overlap: one takes a step only while all others are at rest.
OthersRest(t) == \A u \in Thread : u # t => thread[u] = At("idle")
NoOverlap == \A t \in Thread : Request(t) \/ Continue(t) => OthersRest(t)

BeforeStart == {"created", "joining", "ready"}

\* Nobody is ahead of the run, updates are of rounds their sender was assigned,
\* and whoever still works on the active round has not submitted for it.
History ==
  /\ run.state \in BeforeStart => run.round = 0
  /\ \A p \in Client :
       /\ part[p].round <= run.round
       /\ \A u \in part[p].updates : u.round <= part[p].round /\ u.trained = u.round
       /\ part[p].status \in {"assigned", "training"} => ~ HasSubmitted(part, p, run.round)
       /\ run.state \notin Terminal => part[p].status # "completed"
       /\ run.state \in BeforeStart => part[p].status \notin {"assigned", "training"}

\* RoundIsStaffed, at every step of a request.
Staffed ==
  /\ run.state = "running_round" =>
       /\ Enough(part)
       /\ \A p \in Active(part) : /\ part[p].round = run.round
                                  /\ HasSubmitted(part, p, run.round) \/ MaySubmit(p)
  /\ run.state = "paused" => ~ Enough(part)

\* What each revision is made of, and how many there are.
Chained ==
  /\ \A i \in 1..Len(revisions) :
       /\ revisions[i].round = i /\ revisions[i].parent = i - 1
       /\ Cardinality(revisions[i].who) >= Quorum
       /\ revisions[i].trained = {i}
       /\ {p \in Client : HasSubmitted(part, p, i)} = revisions[i].who \cup revisions[i].out
  /\ run.state \in BeforeStart => Len(revisions) = 0
  /\ run.state \in {"running_round", "paused"} => Len(revisions) = run.round - 1
  /\ run.state = "completed" => Len(revisions) = Rounds

\* What a request has established when it is at l.
Established(l) ==
  /\ l.at \in {"record", "decide", "close"} => run.state = "running_round"
  /\ l.at = "record" => /\ MaySubmit(l.who) /\ l.trained = run.round
                        /\ ~ HasSubmitted(part, l.who, run.round)
  /\ l.at = "close" => ReadyToClose(part, run.round)
  /\ l.at \in {"aggregate", "publish", "advance"} =>
       /\ run.state = "aggregating" /\ run.round > 0
       /\ \A p \in Active(part) : HasSubmitted(part, p, run.round) /\ part[p].round = run.round
  /\ l.at \in {"aggregate", "publish"} =>
       /\ Len(revisions) = run.round - 1
       /\ l.who = Active(part) /\ Cardinality(l.who) >= Quorum
  /\ l.at = "publish" => l.parent = run.round - 1 /\ l.trained = {run.round}
  /\ l.at = "advance" => Len(revisions) = run.round /\ Enough(part)

InRequest == \A t \in Thread : Established(thread[t])

IInv == TypeOK /\ History /\ Staffed /\ Chained /\ InRequest

-----------------------------------------------------------------------------
(***************************************************************************)
(* Types, for any number of requests in flight.                            *)
(***************************************************************************)
IsLocal(l) ==
  \/ l \in {At(s) : s \in {"idle", "decide", "close", "advance", "refresh"}}
  \/ l.at = "record" /\ l \in [at: {"record"}, who: Client, width: Width, trained: Round]
  \/ l.at = "aggregate" /\ l \in [at: {"aggregate"}, who: SUBSET Client]
  \/ l.at = "publish"
       /\ l \in [at: {"publish"}, who: SUBSET Client, parent: Nat, trained: SUBSET Round]

Participants == [Client -> Participant]

LEMMA RoundType == 0 \in Round /\ 1 \in Round /\ \A r \in Round : r < Rounds => r + 1 \in Round
  BY DemoAssumption DEF Round

LEMMA AtType ==
  ASSUME NEW s \in {"idle", "decide", "close", "advance", "refresh"} PROVE IsLocal(At(s))
  BY DEF IsLocal

\* A request that goes on leaves the others where they are.
LEMMA GotoType ==
  ASSUME TypeOK, NEW t \in Thread, NEW l, IsLocal(l), Goto(t, l)
  PROVE  DOMAIN thread' = Thread /\ \A u \in Thread : IsLocal(thread'[u])
<1>1. \A u \in Thread : thread'[u] = IF u = t THEN l ELSE thread[u]
  BY DEF Goto, TypeOK
<1>2. \A u \in Thread : IsLocal(thread[u])
  BY DEF TypeOK, IsLocal
<1> QED
  BY <1>1, <1>2 DEF Goto, TypeOK

LEMMA WithStatusType ==
  ASSUME NEW pt \in Participants, NEW ps, NEW s \in Statuses
  PROVE  WithStatus(pt, ps, s) \in Participants
  BY DEF WithStatus, Participants, Participant

LEMMA AssigningType ==
  ASSUME NEW pt \in Participants, NEW ps, NEW r \in Round
  PROVE  Assigning(pt, ps, r) \in Participants
  BY DEF Assigning, Participants, Participant, Statuses, Live

\* Everything but the threads.
RestOK ==
  /\ run \in [state: RunStates, round: Round]
  /\ part \in Participants
  /\ silent \subseteq Client
  /\ revisions \in Seq(Revision)

LEMMA TypeParts ==
  TypeOK <=> RestOK /\ DOMAIN thread = Thread /\ \A u \in Thread : IsLocal(thread[u])
  BY DEF TypeOK, RestOK, IsLocal, Participants

\* A step is well typed when it goes to a place that is.
LEMMA StepType ==
  ASSUME TypeOK, NEW t \in Thread, NEW l, IsLocal(l), Goto(t, l), RestOK'
  PROVE  TypeOK'
<1>1. DOMAIN thread' = Thread /\ \A u \in Thread : IsLocal(thread'[u])
  BY GotoType
<1> QED
  BY <1>1, TypeParts DEF TypeOK, RestOK, IsLocal, Participants

LEMMA InitTypeOK == Init => TypeOK
<1> SUFFICES ASSUME Init PROVE TypeOK
  OBVIOUS
<1>1. \A t \in Thread : IsLocal(thread[t])
  BY AtType DEF Init
<1>2. RestOK
  BY RoundType DEF Init, RestOK, RunStates, Participants, Participant, Statuses
<1> QED
  BY <1>1, <1>2, TypeParts DEF Init

LEMMA MaybeResumeType ==
  ASSUME TypeOK, NEW t \in Thread, NEW pt \in Participants, MaybeResume(t, pt)
  PROVE  /\ run' \in [state: RunStates, round: Round]
         /\ part' \in Participants
         /\ \E s \in {"close", "refresh"} : Goto(t, At(s))
<1>1. CASE run.state = "paused" /\ Enough(pt)
  BY <1>1, AssigningType DEF MaybeResume, Resume, TypeOK, RunStates
<1>2. CASE ~ (run.state = "paused" /\ Enough(pt))
  BY <1>2 DEF MaybeResume, TypeOK
<1> QED
  BY <1>1, <1>2

LEMMA AssignRoundType ==
  ASSUME TypeOK, NEW r \in Round, AssignRound(r)
  PROVE  run' \in [state: RunStates, round: Round] /\ part' \in Participants
  BY AssigningType DEF AssignRound, TypeOK, Participants, RunStates

\* The participants with one status replaced.
LEMMA StatusType ==
  ASSUME NEW pt \in Participants, NEW p \in Client, NEW s \in Statuses
  PROVE  [pt EXCEPT ![p].status = s] \in Participants
  BY DEF Participants, Participant

LEMMA FinishedType == TypeOK => Finished \in Participants
<1> SUFFICES ASSUME TypeOK, NEW p \in Client PROVE Finished[p] \in Participant
  BY DEF Finished, Participants
<1>1. part[p] \in Participant
  BY DEF TypeOK
<1>2. \A s \in Statuses : [part[p] EXCEPT !.status = s] \in Participant
  BY <1>1 DEF Participant
<1>3. {"completed", "dropped"} \subseteq Statuses
  BY DEF Statuses
<1> QED
  BY <1>1, <1>2, <1>3 DEF Finished

LEMMA NextTypeOK == TypeOK /\ [Next]_vars => TypeOK'
<1> SUFFICES ASSUME TypeOK, [Next]_vars PROVE TypeOK'
  OBVIOUS
<1>0. RestOK
  BY TypeParts
<1> USE <1>0
<1>1. ASSUME NEW t \in Thread, Request(t) PROVE TypeOK'
  <2>1. CASE Start(t)
    <3>1. RestOK'
      BY <2>1, RoundType, AssignRoundType DEF Start, RestOK
    <3> QED
      BY <2>1, <3>1, AtType, StepType DEF Start
  <2>2. CASE ExpireMissing(t)
    <3>1. RestOK' /\ \E s \in {"close", "refresh"} : Goto(t, At(s))
      <4>1. "dropped" \in Statuses
        BY DEF Statuses
      <4> QED
        BY <2>2, <4>1, WithStatusType DEF ExpireMissing, RestOK, RunStates
    <3> QED
      BY <3>1, AtType, StepType
  <2>3. ASSUME NEW state \in RunStates, NEW status \in Statuses, Stop(t, state, status)
        PROVE  TypeOK'
    <3>1. RestOK' /\ Goto(t, At("refresh"))
      BY <2>3, WithStatusType DEF Stop, RestOK
    <3> QED
      BY <3>1, AtType, StepType
  <2>4. CASE AbortRun(t) \/ FailRun(t)
    <3>1. /\ "aborted" \in RunStates /\ "failed" \in RunStates
          /\ "dropped" \in Statuses /\ "error" \in Statuses
      BY DEF RunStates, Statuses
    <3>2. CASE AbortRun(t)
      BY <2>3, <3>1, <3>2 DEF AbortRun
    <3>3. CASE FailRun(t)
      BY <2>3, <3>1, <3>3 DEF FailRun
    <3> QED
      BY <2>4, <3>2, <3>3
  <2>5. ASSUME NEW p \in Client, Join(t, p) PROVE TypeOK'
    <3>1. [part EXCEPT ![p].status = "ready"] \in Participants
      BY StatusType DEF RestOK, Statuses, Live
    <3>2. RestOK' /\ \E s \in {"close", "refresh"} : Goto(t, At(s))
      BY <2>5, <3>1, MaybeResumeType DEF Join, RestOK, RunStates
    <3> QED
      BY <3>2, AtType, StepType
  <2>6. ASSUME NEW p \in Client, Heartbeat(t, p) PROVE TypeOK'
    <3>1. [part EXCEPT ![p].status = "ready"] \in Participants
      BY StatusType DEF RestOK, Statuses, Live
    <3>2. RestOK' /\ \E s \in {"close", "refresh"} : Goto(t, At(s))
      BY <2>6, <3>1, MaybeResumeType DEF Heartbeat, RestOK
    <3> QED
      BY <3>2, AtType, StepType
  <2>7. ASSUME NEW p \in Client, Progress(t, p) PROVE TypeOK'
    <3>1. [part EXCEPT ![p].status = "training"] \in Participants
      BY StatusType DEF RestOK, Statuses, Live
    <3>2. RestOK' /\ Goto(t, At("refresh"))
      BY <2>7, <3>1 DEF Progress, RestOK
    <3> QED
      BY <3>2, AtType, StepType
  <2>8. ASSUME NEW p \in Client, DropParticipant(t, p) PROVE TypeOK'
    <3>1. WithStatus(part, {p}, "dropped") \in Participants
      BY WithStatusType DEF RestOK, Statuses
    <3>2. RestOK'
      BY <2>8, <3>1 DEF DropParticipant, RestOK, RunStates
    <3>3. \E s \in {"close", "refresh"} : Goto(t, At(s))
      BY <2>8 DEF DropParticipant
    <3> QED
      BY <3>2, <3>3, AtType, StepType
  <2>9. ASSUME NEW p \in Client, NEW w \in Width, SubmitUpdate(t, p, w) PROVE TypeOK'
    <3> DEFINE l == [at |-> "record", who |-> p, width |-> w, trained |-> run.round]
    <3>1. IsLocal(l)
      BY DEF IsLocal, RestOK
    <3>2. RestOK' /\ Goto(t, l)
      BY <2>9 DEF SubmitUpdate, RestOK
    <3> HIDE DEF l
    <3> QED
      BY <3>1, <3>2, StepType
  <2> QED
    BY <1>1, <2>1, <2>2, <2>4, <2>5, <2>6, <2>7, <2>8, <2>9 DEF Request
<1>2. ASSUME NEW t \in Thread, Continue(t) PROVE TypeOK'
  <2>0. IsLocal(thread[t])
    BY TypeParts
  <2>1. CASE RecordUpdate(t)
    <3> DEFINE l == thread[t]
               u == [round |-> run.round, width |-> l.width, trained |-> l.trained]
               us == {v \in part[l.who].updates : v.round # run.round} \cup {u}
    <3>1. l.who \in Client /\ l.width \in Width /\ l.trained \in Round
      BY <2>0, <2>1 DEF RecordUpdate, IsLocal, At
    <3>2. u \in Update
      BY <3>1 DEF Update, RestOK
    <3>3. us \subseteq Update
      BY <3>1, <3>2 DEF RestOK, Participants, Participant
    <3>4. part' = [part EXCEPT ![l.who] = [part[l.who] EXCEPT !.updates = us,
                                                             !.status = "submitted"]]
      BY <2>1, <3>1 DEF RecordUpdate, RestOK, Participants, Participant
    <3> DEFINE q == [part[l.who] EXCEPT !.updates = us, !.status = "submitted"]
    <3>a. part[l.who] \in Participant
      BY <3>1 DEF RestOK, Participants
    <3>b. "submitted" \in Statuses
      BY DEF Statuses, Live
    <3> HIDE DEF us
    <3>c. q \in Participant
      BY <3>a, <3>b, <3>3 DEF Participant
    <3>5. part' \in Participants
      BY <3>1, <3>c, <3>4 DEF RestOK, Participants
    <3>6. RestOK' /\ Goto(t, At("decide"))
      BY <2>1, <3>1, <3>5 DEF RecordUpdate, RestOK
    <3> QED
      BY <3>6, AtType, StepType
  <2>2. CASE Decide(t)
    <3>1. RestOK' /\ \E s \in {"close", "refresh"} : Goto(t, At(s))
      BY <2>2 DEF Decide, RestOK
    <3> QED
      BY <3>1, AtType, StepType
  <2>3. CASE Close(t)
    <3> DEFINE l == [at |-> "aggregate", who |-> Submitted(part, run.round)]
    <3>1. IsLocal(l)
      BY DEF IsLocal, Submitted, AssignedTo, Active
    <3>2. RestOK' /\ (Goto(t, l) \/ Goto(t, At("idle")))
      BY <2>3 DEF Close, RestOK, RunStates
    <3> HIDE DEF l
    <3> QED
      BY <3>1, <3>2, AtType, StepType
  <2>4. CASE Aggregate(t)
    <3> DEFINE us == UpdatesOf(thread[t].who, run.round)
               l == [at |-> "publish", who |-> thread[t].who, parent |-> Len(revisions),
                     trained |-> {u.trained : u \in us}]
    <3>1. thread[t].who \subseteq Client
      BY <2>0, <2>4 DEF Aggregate, IsLocal, At
    <3>2. us \subseteq Update
      BY <3>1 DEF UpdatesOf, RestOK, Participants, Participant
    <3>3. IsLocal(l)
      BY <3>1, <3>2 DEF IsLocal, Update, RestOK
    <3>4. RestOK' /\ (Goto(t, l) \/ Goto(t, At("idle")))
      BY <2>4 DEF Aggregate, RestOK
    <3> HIDE DEF l
    <3> QED
      BY <3>3, <3>4, AtType, StepType
  <2>5. CASE Publish(t)
    <3> DEFINE l == thread[t]
               new == [round |-> run.round, parent |-> l.parent, who |-> l.who,
                       trained |-> l.trained,
                       out |-> {p \in Client \ Active(part) : HasSubmitted(part, p, run.round)}]
    <3>1. l.who \subseteq Client /\ l.parent \in Nat /\ l.trained \subseteq Round
      BY <2>0, <2>5 DEF Publish, IsLocal, At
    <3>2. new \in Revision
      BY <3>1 DEF Revision, RestOK
    <3>3. revisions' = Append(revisions, new)
      BY <2>5 DEF Publish
    <3> HIDE DEF new
    <3>4. RestOK' /\ Goto(t, At("advance"))
      BY <2>5, <3>2, <3>3 DEF Publish, RestOK
    <3> QED
      BY <3>4, AtType, StepType
  <2>6. CASE Advance(t)
    <3>1. run.round < Rounds => run.round + 1 \in Round
      BY RoundType DEF RestOK
    <3>2. RestOK' /\ \E s \in {"idle", "refresh"} : Goto(t, At(s))
      BY <2>6, <3>1, AssignRoundType, FinishedType DEF Advance, RestOK, RunStates
    <3> QED
      BY <3>2, AtType, StepType
  <2>7. CASE Refresh(t)
    <3>1. WithStatus(part, silent, "dropped") \in Participants
      BY WithStatusType DEF RestOK, Statuses
    <3>2. RestOK' /\ Goto(t, At("idle"))
      BY <2>7, <3>1 DEF Refresh, RestOK, RunStates
    <3> QED
      BY <3>2, AtType, StepType
  <2> QED
    BY <1>2, <2>1, <2>2, <2>3, <2>4, <2>5, <2>6, <2>7 DEF Continue
<1>3. ASSUME NEW p \in Client, GoSilent(p) PROVE TypeOK'
  BY <1>3 DEF GoSilent, TypeOK
<1>4. CASE UNCHANGED vars
  BY <1>4 DEF vars, TypeOK
<1> QED
  BY <1>1, <1>2, <1>3, <1>4 DEF Next

\* The demo's variables keep their types, however requests overlap.
THEOREM TypeCorrect == Spec => []TypeOK
  BY InitTypeOK, NextTypeOK, PTL DEF Spec

-----------------------------------------------------------------------------
(***************************************************************************)
(* What the operators on the participants leave alone.                     *)
(***************************************************************************)
LEMMA Numbers ==
  ASSUME TypeOK
  PROVE  /\ run.round \in Nat /\ Len(revisions) \in Nat /\ Rounds \in Nat
         /\ run.state \in RunStates
         /\ part \in Participants
         /\ \A p \in Client : /\ part[p].round \in Nat /\ part[p].status \in Statuses
                              /\ \A u \in part[p].updates : u.round \in Nat
  BY DemoAssumption DEF TypeOK, Round, Participants, Participant, Update

LEMMA WithStatusEffect ==
  ASSUME NEW pt \in Participants, NEW ps, NEW s \in {"dropped", "error"}
  PROVE  /\ \A c \in Client :
              /\ WithStatus(pt, ps, s)[c].updates = pt[c].updates
              /\ WithStatus(pt, ps, s)[c].round = pt[c].round
              /\ WithStatus(pt, ps, s)[c].status = IF c \in ps THEN s ELSE pt[c].status
         /\ Active(WithStatus(pt, ps, s)) = Active(pt) \ ps
<1>1. \A c \in Client :
        /\ WithStatus(pt, ps, s)[c].updates = pt[c].updates
        /\ WithStatus(pt, ps, s)[c].round = pt[c].round
        /\ WithStatus(pt, ps, s)[c].status = IF c \in ps THEN s ELSE pt[c].status
  BY DEF WithStatus, Participants, Participant
<1> QED
  BY <1>1 DEF Active, Live

LEMMA AssigningEffect ==
  ASSUME NEW pt \in Participants, NEW ps, NEW r
  PROVE  \A c \in Client :
           /\ Assigning(pt, ps, r)[c].updates = pt[c].updates
           /\ Assigning(pt, ps, r)[c].round = IF c \in ps THEN r ELSE pt[c].round
           /\ Assigning(pt, ps, r)[c].status = IF c \in ps THEN "assigned" ELSE pt[c].status
  BY DEF Assigning, Participants, Participant

\* Who has submitted depends on the updates alone.
LEMMA SubmittedEffect ==
  ASSUME NEW pt, NEW qt, \A c \in Client : qt[c].updates = pt[c].updates
  PROVE  \A c \in Client : \A r : HasSubmitted(qt, c, r) <=> HasSubmitted(pt, c, r)
  BY DEF HasSubmitted

\* More participants are no fewer.
LEMMA Larger ==
  ASSUME NEW a \in SUBSET Client, NEW b \in SUBSET a
  PROVE  Cardinality(b) >= Quorum => Cardinality(a) >= Quorum
<1>1. IsFiniteSet(a) /\ IsFiniteSet(b)
  BY DemoAssumption, FS_Subset
<1>2. Cardinality(b) <= Cardinality(a) /\ Cardinality(a) \in Nat /\ Cardinality(b) \in Nat
  BY <1>1, FS_Subset, FS_CardinalityType
<1> QED
  BY <1>2, DemoAssumption

\* Nobody waits for a request that is over.
LEMMA AtRest ==
  ASSUME NEW s \in {"idle", "refresh"} PROVE Established(At(s))
  BY DEF Established, At

\* Without overlap only the request that takes the step is anywhere.
LEMMA Alone ==
  ASSUME TypeOK, NEW t \in Thread, OthersRest(t), NEW l, Goto(t, l), Established(l)'
  PROVE  InRequest'
<1>1. \A u \in Thread : thread'[u] = IF u = t THEN l ELSE At("idle")
  BY DEF Goto, TypeOK, OthersRest
<1>2. Established(At("idle"))'
  BY DEF Established, At
<1> QED
  BY <1>1, <1>2 DEF InRequest, Established

-----------------------------------------------------------------------------
(***************************************************************************)
(* Steps that record no update and append no revision.                     *)
(***************************************************************************)
SameUpdates == \A p \in Client : part'[p].updates = part[p].updates

\* Only recording an update touches anybody's updates.
LEMMA OnlyRecordingUpdates ==
  ASSUME TypeOK, NEW t \in Thread, Request(t) \/ Continue(t), ~ RecordUpdate(t)
  PROVE  SameUpdates
<1>0. part \in Participants /\ \A p \in Client : part[p] \in Participant
  BY TypeParts DEF RestOK, Participants
<1>2. ASSUME NEW ps, NEW s \in {"dropped", "error"}, part' = WithStatus(part, ps, s)
      PROVE  SameUpdates
  BY <1>0, <1>2, WithStatusEffect DEF SameUpdates
<1>3. ASSUME NEW r \in Round, AssignRound(r) PROVE SameUpdates
  BY <1>0, <1>3, AssigningEffect DEF AssignRound, SameUpdates
<1>4. ASSUME NEW pt \in Participants, MaybeResume(t, pt),
             \A c \in Client : pt[c].updates = part[c].updates
      PROVE  SameUpdates
  BY <1>4, AssigningEffect DEF MaybeResume, Resume, SameUpdates
<1>5. ASSUME NEW p \in Client, NEW s \in Statuses
      PROVE  /\ [part EXCEPT ![p].status = s] \in Participants
             /\ \A c \in Client : [part EXCEPT ![p].status = s][c].updates = part[c].updates
  BY <1>0, StatusType DEF Participants, Participant
<1>6. "ready" \in Statuses /\ "training" \in Statuses
  BY DEF Statuses, Live
<1>7. CASE Request(t)
  <2>3. CASE Start(t)
    BY <1>3, <2>3, RoundType DEF Start
  <2>4. CASE ExpireMissing(t) \/ AbortRun(t) \/ FailRun(t)
    BY <1>2, <2>4 DEF ExpireMissing, AbortRun, FailRun, Stop
  <2>5. ASSUME NEW p \in Client, Join(t, p) PROVE SameUpdates
    <3> DEFINE pt == [part EXCEPT ![p].status = "ready"]
    <3>1. pt \in Participants /\ \A c \in Client : pt[c].updates = part[c].updates
      BY <1>5, <1>6
    <3>2. part' = pt \/ MaybeResume(t, pt)
      BY <2>5 DEF Join
    <3> HIDE DEF pt
    <3> QED
      BY <1>4, <3>1, <3>2 DEF SameUpdates
  <2>6. ASSUME NEW p \in Client, Heartbeat(t, p) PROVE SameUpdates
    <3> DEFINE pt == [part EXCEPT ![p].status = "ready"]
    <3>1. pt \in Participants /\ \A c \in Client : pt[c].updates = part[c].updates
      BY <1>5, <1>6
    <3>2. part' = part \/ MaybeResume(t, pt)
      BY <2>6 DEF Heartbeat
    <3> HIDE DEF pt
    <3> QED
      BY <1>4, <3>1, <3>2 DEF SameUpdates
  <2>7. ASSUME NEW p \in Client, Progress(t, p) PROVE SameUpdates
    BY <1>5, <1>6, <2>7 DEF Progress, SameUpdates
  <2>8. ASSUME NEW p \in Client, DropParticipant(t, p) PROVE SameUpdates
    BY <1>2, <2>8 DEF DropParticipant
  <2>9. ASSUME NEW p \in Client, NEW w \in Width, SubmitUpdate(t, p, w) PROVE SameUpdates
    BY <2>9 DEF SubmitUpdate, SameUpdates
  <2> QED
    BY <1>7, <2>3, <2>4, <2>5, <2>6, <2>7, <2>8, <2>9 DEF Request
<1>8. CASE Continue(t)
  <2>2. CASE Decide(t) \/ Close(t) \/ Aggregate(t) \/ Publish(t)
    <3>1. UNCHANGED part
      BY <2>2 DEF Decide, Close, Aggregate, Publish
    <3> QED
      BY <3>1 DEF SameUpdates
  <2>3. CASE Advance(t)
    <3>1. \A c \in Client : Finished[c].updates = part[c].updates
      BY <1>0 DEF Finished, Participant
    <3>2. run.round < Rounds => run.round + 1 \in Round
      BY RoundType DEF TypeOK
    <3>3. SameUpdates \/ part' \in {part, Finished}
      BY <1>3, <2>3, <3>2 DEF Advance
    <3> QED
      BY <3>1, <3>3 DEF SameUpdates
  <2>4. CASE Refresh(t)
    <3>1. SameUpdates \/ part' = part
      BY <1>2, <2>4 DEF Refresh
    <3> QED
      BY <3>1 DEF SameUpdates
  <2> QED
    BY <1>8, <2>2, <2>3, <2>4 DEF Continue
<1> QED
  BY <1>7, <1>8

LEMMA ChainedKept ==
  ASSUME TypeOK, Chained, SameUpdates, UNCHANGED revisions,
         run'.state \in BeforeStart => run.state \in BeforeStart,
         run'.state \in {"running_round", "paused"} =>
           run.state \in {"running_round", "paused"} /\ run'.round = run.round,
         run'.state = "completed" => run.state = "completed"
  PROVE  Chained'
<1>1. \A c \in Client : \A r : HasSubmitted(part', c, r) <=> HasSubmitted(part, c, r)
  BY SubmittedEffect DEF SameUpdates
<1>2. \A i \in 1..Len(revisions) :
        {c \in Client : HasSubmitted(part', c, i)} = {c \in Client : HasSubmitted(part, c, i)}
  BY <1>1
<1> QED
  BY <1>2 DEF Chained, BeforeStart

LEMMA HistoryKept ==
  ASSUME TypeOK, History, SameUpdates, run'.round = run.round,
         run'.state \in BeforeStart => run.state \in BeforeStart,
         run'.state \notin Terminal => run.state \notin Terminal,
         \A p \in Client :
           /\ part'[p].round = part[p].round \/ part'[p].round = run.round
           /\ part'[p].status \in {"assigned", "training"} =>
                /\ part[p].status \in {"assigned", "training"}
                     \/ ~ HasSubmitted(part, p, run.round)
                /\ run'.state \in BeforeStart => part[p].status \in {"assigned", "training"}
           /\ part'[p].status = "completed" => part[p].status = "completed"
  PROVE  History'
<1>1. \A c \in Client : \A r : HasSubmitted(part', c, r) <=> HasSubmitted(part, c, r)
  BY SubmittedEffect DEF SameUpdates
<1>2. \A p \in Client : part'[p].round <= run.round /\ part[p].round <= part'[p].round
  BY Numbers DEF History
<1>3. \A p \in Client : \A u \in part'[p].updates : u.round <= part'[p].round /\ u.trained = u.round
  BY <1>2, Numbers DEF History, SameUpdates
<1> QED
  BY <1>1, <1>2, <1>3 DEF History

\* A paused run whose participants become pt resumes with everybody who is
\* there, or is still below its quorum.
LEMMA ResumeKeeps ==
  ASSUME IInv, NEW t \in Thread, OthersRest(t), NEW pt \in Participants,
         run.state = "paused",
         \A c \in Client : /\ pt[c].updates = part[c].updates /\ pt[c].round = part[c].round
                           /\ pt[c].status = part[c].status \/ pt[c].status = "ready",
         MaybeResume(t, pt), UNCHANGED revisions
  PROVE  History' /\ Staffed' /\ Chained' /\ InRequest'
<1> USE DEF IInv
<1>0. run.state \notin Terminal /\ run.state \notin BeforeStart
  BY DEF Terminal, BeforeStart
<1>1. CASE run.state = "paused" /\ Enough(pt)
  <2> DEFINE r == run.round
             resumed == Assigning(pt, MissingIn(pt, r), r)
  <2>1. /\ run'.state = "running_round" /\ run'.round = r /\ part' = resumed
        /\ Goto(t, At(IF ReadyToClose(resumed, r) THEN "close" ELSE "refresh"))
    BY <1>1 DEF MaybeResume, Resume, TypeOK
  <2>2. \A c \in Client :
          /\ part'[c].updates = pt[c].updates
          /\ part'[c].round = IF c \in MissingIn(pt, r) THEN r ELSE pt[c].round
          /\ part'[c].status = IF c \in MissingIn(pt, r) THEN "assigned" ELSE pt[c].status
    BY <2>1, AssigningEffect
  <2>3. \A c \in Client : /\ HasSubmitted(part', c, r) <=> HasSubmitted(part, c, r)
                          /\ HasSubmitted(pt, c, r) <=> HasSubmitted(part, c, r)
    BY <2>2 DEF HasSubmitted
  <2>4. SameUpdates
    BY <2>2 DEF SameUpdates
  <2>5. History'
    <3>1. \A c \in Client :
            /\ part'[c].round = part[c].round \/ part'[c].round = run.round
            /\ part'[c].status \in {"assigned", "training"} =>
                 part[c].status \in {"assigned", "training"} \/ ~ HasSubmitted(part, c, r)
            /\ part'[c].status = "completed" => part[c].status = "completed"
      BY <2>2, <2>3 DEF MissingIn
    <3> QED
      BY <1>0, <2>1, <2>4, <3>1, HistoryKept DEF BeforeStart
  <2>6. Chained'
    BY <1>0, <2>1, <2>4, ChainedKept DEF BeforeStart
  <2>7. Active(part') = Active(pt)
    BY <2>2 DEF Active, MissingIn, Live
  <2>8. Staffed'
    <3>1. Enough(part')
      BY <1>1, <2>7 DEF Enough
    <3>2. ASSUME NEW c \in Active(part')
          PROVE  /\ part'[c].round = r
                 /\ HasSubmitted(part', c, r) \/ part'[c].status \in {"assigned", "training"}
      <4>1. c \in Client /\ c \in Active(pt)
        BY <2>7, <3>2 DEF Active
      <4>2. CASE c \in MissingIn(pt, r)
        BY <2>2, <4>1, <4>2
      <4>3. CASE c \notin MissingIn(pt, r)
        <5>1. pt[c].status \in Live
          BY <1>0, <4>1 DEF Active, History
        <5>2. HasSubmitted(part, c, r)
          BY <2>3, <4>1, <4>3, <5>1 DEF MissingIn
        <5>3. part[c].round = r
          BY <4>1, <5>2, Numbers DEF HasSubmitted, History
        <5> QED
          BY <2>2, <2>3, <4>1, <4>3, <5>2, <5>3
      <4> QED
        BY <4>2, <4>3
    <3> QED
      BY <2>1, <3>1, <3>2 DEF Staffed, MaySubmit
  <2>9. InRequest'
    <3>1. CASE ReadyToClose(resumed, r)
      <4>1. Established(At("close"))'
        BY <2>1, <3>1 DEF Established, At
      <4> QED
        BY <2>1, <3>1, <4>1, Alone
    <3>2. CASE ~ ReadyToClose(resumed, r)
      <4>1. Established(At("refresh"))'
        BY DEF Established, At
      <4> QED
        BY <2>1, <3>2, <4>1, Alone
    <3> QED
      BY <3>1, <3>2
  <2> QED
    BY <2>5, <2>6, <2>8, <2>9
<1>2. CASE ~ Enough(pt)
  <2>1. part' = pt /\ UNCHANGED run /\ Goto(t, At("refresh"))
    BY <1>2 DEF MaybeResume
  <2>2. SameUpdates
    BY <2>1 DEF SameUpdates
  <2>3. History'
    <3>1. \A c \in Client : pt[c].status \in {"assigned", "training", "completed"} =>
            pt[c].status = part[c].status
      OBVIOUS
    <3> QED
      BY <1>0, <2>1, <2>2, <3>1, HistoryKept
  <2>4. Chained'
    BY <2>1, <2>2, ChainedKept
  <2>5. Staffed'
    BY <1>2, <2>1 DEF Staffed
  <2>6. Established(At("refresh"))'
    BY DEF Established, At
  <2> QED
    BY <2>1, <2>3, <2>4, <2>5, <2>6, Alone
<1> QED
  BY <1>1, <1>2

-----------------------------------------------------------------------------
(***************************************************************************)
(* Requests, up to where they are decided.  TypeOK' is NextTypeOK's.       *)
(***************************************************************************)
SafeNext == History' /\ Staffed' /\ Chained' /\ InRequest'

LEMMA RestKeeps ==
  ASSUME TypeOK, NEW t \in Thread, OthersRest(t), NEW s \in {"idle", "refresh"}, Goto(t, At(s))
  PROVE  InRequest'
<1>1. Established(At(s))'
  BY DEF Established, At
<1> QED
  BY <1>1, Alone

LEMMA JoinKeeps ==
  ASSUME IInv, NEW t \in Thread, OthersRest(t), NEW p \in Client, Join(t, p) PROVE SafeNext
<1> DEFINE pt == [part EXCEPT ![p].status = "ready"]
<1>1. \A c \in Client : /\ pt[c].updates = part[c].updates /\ pt[c].round = part[c].round
                        /\ pt[c].status = IF c = p THEN "ready" ELSE part[c].status
  BY DEF IInv, TypeOK, Participant
<1>2. pt \in Participants
  BY StatusType, Numbers DEF IInv, Statuses, Live
<1> HIDE DEF pt
<1>3. CASE run.state = "paused" /\ MaybeResume(t, pt)
  BY <1>1, <1>2, <1>3, ResumeKeeps DEF Join, SafeNext
<1>4. CASE /\ run.state \in BeforeStart /\ part' = pt
           /\ run' = [run EXCEPT !.state = IF run.state # "ready" /\ ~ Enough(pt)
                                           THEN "joining" ELSE "ready"]
           /\ Goto(t, At("refresh")) /\ UNCHANGED revisions
  <2>1. run'.state \in BeforeStart /\ run'.round = run.round
    BY <1>4 DEF BeforeStart, IInv, TypeOK
  <2>2. SameUpdates
    BY <1>1, <1>4 DEF SameUpdates
  <2>3. run.state \notin Terminal
    BY <1>4 DEF BeforeStart, Terminal
  <2>4. History'
    BY <1>1, <1>4, <2>1, <2>2, <2>3, HistoryKept DEF IInv
  <2>5. Chained'
    BY <1>4, <2>1, <2>2, ChainedKept DEF IInv, BeforeStart
  <2>6. Staffed'
    BY <2>1 DEF Staffed, BeforeStart
  <2> QED
    BY <1>4, <2>4, <2>5, <2>6, RestKeeps DEF IInv, SafeNext
<1> QED
  BY <1>3, <1>4 DEF Join, pt, BeforeStart

LEMMA HeartbeatKeeps ==
  ASSUME IInv, NEW t \in Thread, OthersRest(t), NEW p \in Client, Heartbeat(t, p) PROVE SafeNext
<1>1. CASE run.state = "paused" /\ part[p].status = "dropped"
  <2> DEFINE pt == [part EXCEPT ![p].status = "ready"]
  <2>1. \A c \in Client : /\ pt[c].updates = part[c].updates /\ pt[c].round = part[c].round
                          /\ pt[c].status = IF c = p THEN "ready" ELSE part[c].status
    BY DEF IInv, TypeOK, Participant
  <2>2. pt \in Participants
    BY StatusType, Numbers DEF IInv, Statuses, Live
  <2>3. MaybeResume(t, pt) /\ UNCHANGED revisions
    BY <1>1 DEF Heartbeat
  <2> HIDE DEF pt
  <2> QED
    BY <1>1, <2>1, <2>2, <2>3, ResumeKeeps DEF SafeNext
<1>2. CASE ~ (run.state = "paused" /\ part[p].status = "dropped")
  <2>1. Goto(t, At("refresh")) /\ UNCHANGED <<run, part, revisions>>
    BY <1>2 DEF Heartbeat
  <2>2. History' /\ Staffed' /\ Chained'
    BY <2>1 DEF IInv, History, Staffed, Chained, MaySubmit
  <2> QED
    BY <2>1, <2>2, RestKeeps DEF IInv, SafeNext
<1> QED
  BY <1>1, <1>2

\* Everyone who is there and has submitted, if there was a round before, is
\* assigned the next one.
LEMMA AssignKeeps ==
  ASSUME IInv, NEW t \in Thread, OthersRest(t),
         run.state \notin Terminal, Enough(part),
         \A p \in Active(part) : part[p].status \in {"ready", "submitted"},
         \A p \in Client : part[p].status \notin {"assigned", "training"} \/ p \in Active(part),
         Len(revisions) = run.round, run.state # "completed",
         AssignRound(run.round + 1), Goto(t, At("refresh")), UNCHANGED revisions
  PROVE  SafeNext
<1> DEFINE r == run.round + 1
           ps == {p \in Client : part[p].status \in {"ready", "submitted"}}
<1>1. /\ run'.state = "running_round" /\ run'.round = r
      /\ part' = Assigning(part, ps, r)
  BY DEF AssignRound
<1>2. \A c \in Client :
        /\ part'[c].updates = part[c].updates
        /\ part'[c].round = IF c \in ps THEN r ELSE part[c].round
        /\ part'[c].status = IF c \in ps THEN "assigned" ELSE part[c].status
  BY <1>1, AssigningEffect, Numbers DEF IInv
<1>3. SameUpdates
  BY <1>2 DEF SameUpdates
<1>4. \A c \in Client : ~ HasSubmitted(part', c, r)
  BY <1>2, Numbers DEF HasSubmitted, IInv, History
<1>5. History'
  <2>1. \A c \in Client : part'[c].round <= r /\ part[c].round <= part'[c].round
    BY <1>2, Numbers DEF IInv, History
  <2>2. \A c \in Client :
          \A u \in part'[c].updates : u.round <= part'[c].round /\ u.trained = u.round
    BY <1>2, <2>1, Numbers DEF IInv, History
  <2>3. \A c \in Client : part'[c].status # "completed"
    BY <1>2 DEF IInv, History
  <2> QED
    BY <1>1, <1>4, <2>1, <2>2, <2>3 DEF History, BeforeStart
<1>6. Active(part') = Active(part) /\ Active(part) \subseteq ps
  BY <1>2 DEF Active, Live
<1>7. Staffed'
  <2>1. Enough(part')
    BY <1>6 DEF Enough
  <2>2. \A c \in Active(part') : part'[c].round = r /\ part'[c].status = "assigned"
    BY <1>2, <1>6
  <2> QED
    BY <1>1, <2>1, <2>2 DEF Staffed, MaySubmit
<1>8. Chained'
  <2>1. \A i \in 1..Len(revisions) :
          {c \in Client : HasSubmitted(part', c, i)} = {c \in Client : HasSubmitted(part, c, i)}
    BY <1>3, SubmittedEffect DEF SameUpdates
  <2> QED
    BY <1>1, <2>1, Numbers DEF IInv, Chained, BeforeStart
<1> QED
  BY <1>5, <1>7, <1>8, RestKeeps DEF IInv, SafeNext

LEMMA StartKeeps ==
  ASSUME IInv, NEW t \in Thread, OthersRest(t), Start(t) PROVE SafeNext
<1>1. run.state = "ready" /\ run.round = 0 /\ Len(revisions) = 0
  BY DEF Start, IInv, History, Chained, BeforeStart
<1>2. \A p \in Client : part[p].status \notin {"assigned", "training", "completed"}
  BY <1>1 DEF IInv, History, BeforeStart, Terminal
<1>3. \A p \in Active(part) : part[p].status \in {"ready", "submitted"}
  BY <1>2 DEF Active, Live
<1> QED
  BY <1>1, <1>2, <1>3, AssignKeeps DEF Start, Terminal

LEMMA ProgressKeeps ==
  ASSUME IInv, NEW t \in Thread, OthersRest(t), NEW p \in Client, Progress(t, p) PROVE SafeNext
<1>1. /\ run.state = "running_round" /\ UNCHANGED <<run, revisions>>
      /\ part[p].status \in {"assigned", "training"} /\ part[p].round = run.round
      /\ Goto(t, At("refresh"))
  BY DEF Progress, MaySubmit
<1>2. \A c \in Client : /\ part'[c].updates = part[c].updates /\ part'[c].round = part[c].round
                        /\ part'[c].status = IF c = p THEN "training" ELSE part[c].status
  BY DEF IInv, TypeOK, Participant, Progress
<1>3. SameUpdates
  BY <1>2 DEF SameUpdates
<1>4. History'
  BY <1>1, <1>2, <1>3, HistoryKept DEF IInv
<1>5. Chained'
  BY <1>1, <1>3, ChainedKept DEF IInv
<1>6. Active(part') = Active(part)
  BY <1>1, <1>2 DEF Active, Live
<1>7. Staffed'
  <2>1. \A c \in Client : HasSubmitted(part', c, run.round) <=> HasSubmitted(part, c, run.round)
    BY <1>2 DEF HasSubmitted
  <2>2. \A c \in Active(part) : c \in Client
    BY DEF Active
  <2> QED
    BY <1>1, <1>2, <1>6, <2>1, <2>2 DEF IInv, Staffed, Enough, MaySubmit
<1> QED
  BY <1>1, <1>4, <1>5, <1>7, RestKeeps DEF IInv, SafeNext

LEMMA SubmitKeeps ==
  ASSUME IInv, NEW t \in Thread, OthersRest(t), NEW p \in Client, NEW w \in Width,
         SubmitUpdate(t, p, w)
  PROVE  SafeNext
<1>0. PICK r : r = run.round
  OBVIOUS
<1> DEFINE l == [at |-> "record", who |-> p, width |-> w, trained |-> r]
<1>1. Goto(t, l) /\ UNCHANGED <<run, part, revisions>>
  BY <1>0 DEF SubmitUpdate
<1>2. MaySubmit(p) /\ ~ HasSubmitted(part, p, run.round) /\ run.state = "running_round"
  BY DEF SubmitUpdate, MaySubmit
<1>3. History' /\ Staffed' /\ Chained'
  BY <1>1 DEF IInv, History, Staffed, Chained, MaySubmit
<1>4. Established(l)'
  BY <1>0, <1>1, <1>2 DEF Established, MaySubmit
<1> HIDE DEF l
<1> QED
  BY <1>1, <1>3, <1>4, Alone DEF IInv, SafeNext

-----------------------------------------------------------------------------
(***************************************************************************)
(* Steps that only take participants out of the run.                       *)
(***************************************************************************)

\* ps are out; the run stays where it was, pauses, goes back to joining or stops.
Removes(ps, s) ==
  /\ part' = WithStatus(part, ps, s) /\ run'.round = run.round /\ UNCHANGED revisions
  /\ run'.state \in BeforeStart => run.state \in BeforeStart
  /\ run'.state \notin Terminal => run.state \notin Terminal
  /\ run'.state = "running_round" => run.state = "running_round" /\ Enough(part')
  /\ run'.state = "paused" =>
       run.state = "paused" \/ (run.state = "running_round" /\ ~ Enough(part'))
  /\ run'.state = "completed" => run.state = "completed"

LEMMA RemovalKeeps ==
  ASSUME TypeOK, History, Staffed, Chained, NEW ps, NEW s \in {"dropped", "error"}, Removes(ps, s)
  PROVE  History' /\ Staffed' /\ Chained'
<1> USE DEF Removes
<1>1. \A c \in Client : /\ part'[c].updates = part[c].updates /\ part'[c].round = part[c].round
                        /\ part'[c].status = IF c \in ps THEN s ELSE part[c].status
  BY WithStatusEffect, Numbers
<1>2. Active(part') = Active(part) \ ps
  BY WithStatusEffect, Numbers
<1>3. SameUpdates
  BY <1>1 DEF SameUpdates
<1>4. History'
  <2>1. \A c \in Client : part'[c].status \in {"assigned", "training", "completed"} =>
          part'[c].status = part[c].status
    BY <1>1
  <2> QED
    BY <1>1, <1>3, <2>1, HistoryKept
<1>5. Chained'
  BY <1>3, ChainedKept
<1>6. Staffed'
  <2>1. ASSUME run'.state = "running_round", NEW c \in Active(part')
        PROVE  part'[c].round = run'.round /\ (HasSubmitted(part', c, run'.round) \/ MaySubmit(c)')
    <3>1. c \in Active(part) /\ c \notin ps /\ c \in Client
      BY <1>2, <2>1 DEF Active
    <3>2. HasSubmitted(part', c, run.round) <=> HasSubmitted(part, c, run.round)
      BY <1>1, <3>1 DEF HasSubmitted
    <3> QED
      BY <1>1, <2>1, <3>1, <3>2 DEF Staffed, MaySubmit
  <2>2. ~ Enough(part) => ~ Enough(part')
    <3>1. Active(part) \in SUBSET Client
      BY DEF Active
    <3> QED
      BY <1>2, <3>1, Larger DEF Enough
  <2> QED
    BY <2>1, <2>2 DEF Staffed
<1> QED
  BY <1>4, <1>5, <1>6

LEMMA CloseKeeps ==
  ASSUME TypeOK, NEW t \in Thread, OthersRest(t), Goto(t, At("close")),
         run'.state = "running_round", ReadyToClose(part', run'.round)
  PROVE  InRequest'
<1>1. Established(At("close"))'
  BY DEF Established, At
<1> QED
  BY <1>1, Alone

LEMMA ExpireKeeps ==
  ASSUME IInv, NEW t \in Thread, OthersRest(t), ExpireMissing(t) PROVE SafeNext
<1> DEFINE r    == run.round
           late == {p \in AssignedTo(part, r) : part[p].status \in {"assigned", "training"}}
           pt   == WithStatus(part, late, "dropped")
<1>1. run.state = "running_round" /\ part' = pt /\ UNCHANGED revisions
  BY DEF ExpireMissing
<1>2. \A c \in Client : /\ pt[c].updates = part[c].updates /\ pt[c].round = part[c].round
                        /\ pt[c].status = IF c \in late THEN "dropped" ELSE part[c].status
  BY WithStatusEffect, Numbers DEF IInv
<1>3. Active(pt) = Active(part) \ late
  BY WithStatusEffect, Numbers DEF IInv
<1>4. Submitted(pt, r) = Active(pt) /\ AssignedTo(pt, r) = Active(pt)
  <2>1. ASSUME NEW c \in Active(pt) PROVE pt[c].round = r /\ HasSubmitted(pt, c, r)
    <3>1. c \in Active(part) /\ c \notin late /\ c \in Client
      BY <1>3, <2>1 DEF Active
    <3>2. part[c].round = r /\ (HasSubmitted(part, c, r) \/ MaySubmit(c))
      BY <1>1, <3>1 DEF IInv, Staffed
    <3>3. HasSubmitted(part, c, r)
      BY <3>1, <3>2 DEF AssignedTo, MaySubmit
    <3> QED
      BY <1>2, <3>1, <3>2, <3>3 DEF HasSubmitted
  <2> QED
    BY <2>1 DEF Submitted, AssignedTo
<1>5. ReadyToClose(pt, r) <=> Enough(pt)
  BY <1>4 DEF ReadyToClose, Enough
<1>6. CASE ReadyToClose(pt, r)
  <2>1. UNCHANGED run /\ Goto(t, At("close"))
    BY <1>6 DEF ExpireMissing
  <2>2. Removes(late, "dropped")
    BY <1>1, <1>5, <1>6, <2>1 DEF Removes, Terminal, BeforeStart
  <2>3. History' /\ Staffed' /\ Chained'
    BY <2>2, RemovalKeeps DEF IInv
  <2> HIDE DEF pt
  <2> QED
    BY <1>1, <1>6, <2>1, <2>3, CloseKeeps DEF IInv, SafeNext
<1>7. CASE ~ ReadyToClose(pt, r)
  <2>1. run' = [run EXCEPT !.state = "paused"] /\ Goto(t, At("refresh"))
    BY <1>7 DEF ExpireMissing
  <2>2. run'.state = "paused" /\ run'.round = r
    BY <2>1 DEF IInv, TypeOK
  <2>3. Removes(late, "dropped")
    BY <1>1, <1>5, <1>7, <2>2 DEF Removes, Terminal, BeforeStart
  <2>4. History' /\ Staffed' /\ Chained'
    BY <2>3, RemovalKeeps DEF IInv
  <2> QED
    BY <2>1, <2>4, RestKeeps DEF IInv, SafeNext
<1> QED
  BY <1>6, <1>7

LEMMA DropKeeps ==
  ASSUME IInv, NEW t \in Thread, OthersRest(t), NEW p \in Client, DropParticipant(t, p)
  PROVE  SafeNext
<1> DEFINE pt == WithStatus(part, {p}, "dropped")
<1>1. part' = pt /\ UNCHANGED revisions /\ run.state \in RunStates
  BY Numbers DEF DropParticipant, IInv
<1>2. \A x : [run EXCEPT !.state = x].state = x /\ [run EXCEPT !.state = x].round = run.round
  BY DEF IInv, TypeOK
<1>3. CASE /\ run.state = "running_round" /\ ~ Enough(pt)
           /\ run' = [run EXCEPT !.state = "paused"] /\ Goto(t, At("refresh"))
  <2>1. Removes({p}, "dropped")
    BY <1>1, <1>2, <1>3 DEF Removes, Terminal, BeforeStart
  <2> QED
    BY <1>3, <2>1, RemovalKeeps, RestKeeps DEF IInv, SafeNext
<1>4. CASE /\ run.state = "running_round" /\ Enough(pt) /\ ReadyToClose(pt, run.round)
           /\ Goto(t, At("close")) /\ UNCHANGED run
  <2>1. Removes({p}, "dropped")
    BY <1>1, <1>4 DEF Removes, Terminal, BeforeStart
  <2>2. History' /\ Staffed' /\ Chained'
    BY <2>1, RemovalKeeps DEF IInv
  <2> HIDE DEF pt
  <2> QED
    BY <1>1, <1>4, <2>2, CloseKeeps DEF IInv, SafeNext
<1>5. CASE /\ run.state \in {"joining", "ready"} /\ ~ Enough(pt)
           /\ run' = [run EXCEPT !.state = "joining"] /\ Goto(t, At("refresh"))
  <2>1. Removes({p}, "dropped")
    BY <1>1, <1>2, <1>5 DEF Removes, Terminal, BeforeStart
  <2> QED
    BY <1>5, <2>1, RemovalKeeps, RestKeeps DEF IInv, SafeNext
<1>6. CASE /\ run.state = "running_round" => Enough(pt) /\ ~ ReadyToClose(pt, run.round)
           /\ Goto(t, At("refresh")) /\ UNCHANGED run
  <2>0. /\ run'.state = run.state /\ run'.round = run.round
        /\ run.state = "running_round" => Enough(part')
    BY <1>1, <1>6
  <2>1. Removes({p}, "dropped")
    BY <1>1, <2>0 DEF Removes
  <2> QED
    BY <1>6, <2>1, RemovalKeeps, RestKeeps DEF IInv, SafeNext
<1> QED
  BY <1>3, <1>4, <1>5, <1>6 DEF DropParticipant

LEMMA StopKeeps ==
  ASSUME IInv, NEW t \in Thread, OthersRest(t), NEW state \in {"aborted", "failed"},
         NEW status \in {"dropped", "error"}, Stop(t, state, status)
  PROVE  SafeNext
<1>1. run'.state = state /\ run'.round = run.round
  BY DEF Stop, IInv, TypeOK
<1>2. Removes(Active(part), status)
  BY <1>1 DEF Stop, Removes, Terminal, BeforeStart
<1>3. Goto(t, At("refresh"))
  BY DEF Stop
<1> QED
  BY <1>2, <1>3, RemovalKeeps, RestKeeps DEF IInv, SafeNext

LEMMA RefreshKeeps ==
  ASSUME IInv, NEW t \in Thread, OthersRest(t), Refresh(t) PROVE SafeNext
<1>1. Goto(t, At("idle")) /\ UNCHANGED revisions
  BY DEF Refresh
<1>2. CASE run.state \in Terminal
  <2>1. UNCHANGED <<run, part, revisions>>
    BY <1>1, <1>2 DEF Refresh
  <2>2. History' /\ Staffed' /\ Chained'
    BY <2>1 DEF IInv, History, Staffed, Chained, MaySubmit
  <2> QED
    BY <1>1, <2>2, RestKeeps DEF IInv, SafeNext
<1>3. CASE run.state \notin Terminal
  <2> DEFINE pt == WithStatus(part, silent, "dropped")
  <2>1. /\ part' = pt
        /\ run' = IF run.state = "running_round" /\ ~ Enough(pt)
                  THEN [run EXCEPT !.state = "paused"] ELSE run
    BY <1>3 DEF Refresh
  <2>2. \/ run'.state = "paused" /\ run.state = "running_round" /\ ~ Enough(pt)
        \/ run'.state = run.state /\ (run.state = "running_round" => Enough(pt))
    BY <2>1 DEF IInv, TypeOK
  <2>3. run'.round = run.round
    BY <2>1 DEF IInv, TypeOK
  <2>4. Enough(pt) <=> Enough(part')
    BY <2>1
  <2> HIDE DEF pt
  <2>5. /\ run'.state \in BeforeStart => run.state \in BeforeStart
        /\ run'.state = "completed" => run.state = "completed"
        /\ run'.state = "running_round" => run.state = "running_round" /\ Enough(part')
        /\ run'.state = "paused" =>
             run.state = "paused" \/ (run.state = "running_round" /\ ~ Enough(part'))
    BY <2>2, <2>4 DEF BeforeStart
  <2>6. Removes(silent, "dropped")
    BY <1>1, <1>3, <2>1, <2>3, <2>5 DEF Removes, pt
  <2> QED
    BY <1>1, <2>6, RemovalKeeps, RestKeeps DEF IInv, SafeNext
<1> QED
  BY <1>2, <1>3

-----------------------------------------------------------------------------
(***************************************************************************)
(* Recording a submission and closing the round.                           *)
(***************************************************************************)

\* A step that only moves the request.
LEMMA OnlyMoves ==
  ASSUME IInv, UNCHANGED <<run, part, revisions>> PROVE History' /\ Staffed' /\ Chained'
  BY DEF IInv, History, Staffed, Chained, MaySubmit

LEMMA RecordKeeps ==
  ASSUME IInv, NEW t \in Thread, OthersRest(t), RecordUpdate(t) PROVE SafeNext
<1>0. PICK p, r : p = thread[t].who /\ r = run.round
  OBVIOUS
<1> DEFINE u == [round |-> r, width |-> thread[t].width, trained |-> thread[t].trained]
           us == {v \in part[p].updates : v.round # r} \cup {u}
<1>1. p \in Client
  BY <1>0, TypeParts DEF RecordUpdate, IInv, IsLocal, At
<1>2. /\ run.state = "running_round" /\ MaySubmit(p) /\ ~ HasSubmitted(part, p, r)
      /\ thread[t].trained = r
  BY <1>0 DEF RecordUpdate, IInv, InRequest, Established
<1>3. UNCHANGED <<run, revisions>> /\ Goto(t, At("decide"))
  BY DEF RecordUpdate
<1>4. \A c \in Client : /\ part'[c].round = part[c].round
                        /\ part'[c].updates = IF c = p THEN us ELSE part[c].updates
                        /\ part'[c].status = IF c = p THEN "submitted" ELSE part[c].status
  BY <1>0, <1>1 DEF RecordUpdate, IInv, TypeOK, Participant
<1>5. u.round = r /\ u.trained = r
  BY <1>2
<1>6. \A c \in Client : \A i : HasSubmitted(part', c, i) <=> HasSubmitted(part, c, i) \/ (c = p /\ i = r)
  BY <1>4, <1>5 DEF HasSubmitted
<1>7. History'
  <2>1. \A c \in Client :
          \A v \in part'[c].updates : v.round <= part'[c].round /\ v.trained = v.round
    <3>1. part[p].round = r /\ r \in Nat
      BY <1>0, <1>2, Numbers DEF MaySubmit, IInv
    <3>2. \A v \in us : v \in part[p].updates \/ v = u
      OBVIOUS
    <3> HIDE DEF u, us
    <3>3. \A v \in us : v.round <= r /\ v.trained = v.round
      BY <1>1, <1>5, <3>1, <3>2 DEF IInv, History
    <3> QED
      BY <1>1, <1>4, <3>1, <3>3 DEF IInv, History
  <2>2. \A c \in Client :
          part'[c].status \in {"assigned", "training"} => ~ HasSubmitted(part', c, r)
    BY <1>0, <1>4, <1>6 DEF IInv, History
  <2>3. \A c \in Client : part'[c].status # "completed"
    BY <1>2, <1>4 DEF IInv, History, Terminal
  <2> QED
    BY <1>0, <1>2, <1>3, <1>4, <2>1, <2>2, <2>3 DEF IInv, History, BeforeStart
<1>8. Active(part') = Active(part)
  BY <1>2, <1>4 DEF Active, Live, MaySubmit
<1>9. Staffed'
  <2>1. Enough(part')
    BY <1>2, <1>8 DEF Enough, IInv, Staffed
  <2>2. \A c \in Active(part) : c \in Client
    BY DEF Active
  <2> QED
    BY <1>0, <1>2, <1>3, <1>4, <1>6, <1>8, <2>1, <2>2 DEF IInv, Staffed, MaySubmit
<1>10. Chained'
  <2>1. \A i \in 1..Len(revisions) : i # r
    BY <1>0, <1>2, Numbers DEF IInv, Chained
  <2>2. \A i \in 1..Len(revisions) :
          {c \in Client : HasSubmitted(part', c, i)} = {c \in Client : HasSubmitted(part, c, i)}
    BY <1>6, <2>1
  <2> QED
    BY <1>3, <2>2 DEF IInv, Chained
<1>11. InRequest'
  <2>1. Established(At("decide"))'
    BY <1>2, <1>3 DEF Established, At
  <2> QED
    BY <1>3, <2>1, Alone DEF IInv
<1> QED
  BY <1>7, <1>9, <1>10, <1>11 DEF SafeNext

LEMMA DecideKeeps ==
  ASSUME IInv, NEW t \in Thread, OthersRest(t), Decide(t) PROVE SafeNext
<1>1. UNCHANGED <<run, part, revisions>> /\ run.state = "running_round"
  BY DEF Decide, IInv, InRequest, Established, At
<1>2. CASE ReadyToClose(part, run.round)
  <2>1. Established(At("close"))'
    BY <1>1, <1>2 DEF Established, At, ReadyToClose
  <2>2. Goto(t, At("close"))
    BY <1>2 DEF Decide
  <2> QED
    BY <1>1, <2>1, <2>2, OnlyMoves, Alone DEF IInv, SafeNext
<1>3. CASE ~ ReadyToClose(part, run.round)
  BY <1>1, <1>3, OnlyMoves, RestKeeps DEF Decide, IInv, SafeNext
<1> QED
  BY <1>2, <1>3

LEMMA ClosingKeeps ==
  ASSUME IInv, NEW t \in Thread, OthersRest(t), Close(t) PROVE SafeNext
<1>0. PICK who : who = Submitted(part, run.round)
  OBVIOUS
<1> DEFINE l == [at |-> "aggregate", who |-> who]
<1>1. run.state = "running_round" /\ ReadyToClose(part, run.round)
  BY DEF Close, IInv, InRequest, Established, At
<1>2. /\ run' = [run EXCEPT !.state = "aggregating"] /\ Goto(t, l)
      /\ UNCHANGED <<part, revisions>>
  BY <1>0, <1>1 DEF Close, ReadyToClose
<1>3. run'.state = "aggregating" /\ run'.round = run.round
  BY <1>2 DEF IInv, TypeOK
<1>4. /\ who = Active(part) /\ Cardinality(who) >= Quorum
      /\ \A p \in Active(part) : HasSubmitted(part, p, run.round) /\ part[p].round = run.round
  <2>1. AssignedTo(part, run.round) = Active(part)
    BY <1>1 DEF IInv, Staffed, AssignedTo
  <2>2. who = AssignedTo(part, run.round) /\ Cardinality(who) >= Quorum
    BY <1>0, <1>1 DEF ReadyToClose
  <2>3. \A p \in who : HasSubmitted(part, p, run.round)
    BY <1>0 DEF Submitted
  <2>4. \A p \in AssignedTo(part, run.round) : part[p].round = run.round
    BY DEF AssignedTo
  <2> QED
    BY <2>1, <2>2, <2>3, <2>4
<1>5. Len(revisions) = run.round - 1 /\ run.round > 0
  BY <1>1, Numbers DEF IInv, Chained
<1>6. SameUpdates
  BY <1>2 DEF SameUpdates
<1>7. Chained'
  BY <1>2, <1>3, <1>6, ChainedKept DEF IInv, BeforeStart
<1>8. History'
  BY <1>1, <1>2, <1>3, <1>6, HistoryKept DEF IInv, BeforeStart, Terminal
<1>9. Staffed'
  BY <1>3 DEF Staffed
<1>10. Established(l)'
  <2>1. Active(part') = Active(part) /\ revisions' = revisions
    BY <1>2
  <2>2. \A p \in Active(part) : HasSubmitted(part', p, run'.round) /\ part'[p].round = run'.round
    BY <1>2, <1>3, <1>4 DEF HasSubmitted
  <2> QED
    BY <1>3, <1>4, <1>5, <2>1, <2>2 DEF Established
<1> HIDE DEF l
<1> QED
  BY <1>2, <1>7, <1>8, <1>9, <1>10, Alone DEF IInv, SafeNext

LEMMA AggregateKeeps ==
  ASSUME IInv, NEW t \in Thread, OthersRest(t), Aggregate(t) PROVE SafeNext
<1>1. UNCHANGED <<run, part, revisions>>
  BY DEF Aggregate
<1>2. CASE Goto(t, At("idle"))
  BY <1>1, <1>2, OnlyMoves, RestKeeps DEF IInv, SafeNext
<1>3. CASE ~ Goto(t, At("idle"))
  <2>0. PICK who, us, r, n, rs :
          /\ who = thread[t].who /\ us = UpdatesOf(who, run.round) /\ r = run.round
          /\ n = Len(revisions) /\ rs = {u.trained : u \in us}
    OBVIOUS
  <2> DEFINE l == [at |-> "publish", who |-> who, parent |-> n, trained |-> rs]
  <2>1. Goto(t, l)
    BY <1>3, <2>0 DEF Aggregate
  <2>2. Established([at |-> "aggregate", who |-> who])
    BY <2>0 DEF Aggregate, IInv, InRequest, Established
  <2>3. /\ run.state = "aggregating" /\ r > 0 /\ n = r - 1
        /\ who = Active(part) /\ Cardinality(who) >= Quorum
        /\ \A p \in Active(part) : HasSubmitted(part, p, r) /\ part[p].round = r
    BY <2>0, <2>2 DEF Established
  <2>4. rs = {r}
    <3>1. \A u \in us : u.trained = r
      BY <2>0, <2>3 DEF UpdatesOf, Active, IInv, History
    <3>2. who # {}
      BY <2>3, FS_EmptySet, DemoAssumption
    <3>3. us # {}
      BY <2>0, <2>3, <3>2 DEF UpdatesOf, HasSubmitted
    <3> QED
      BY <2>0, <3>1, <3>3
  <2>5. Established(l)'
    <3>1. \A p \in Active(part') : HasSubmitted(part', p, run'.round) /\ part'[p].round = run'.round
      BY <1>1, <2>0, <2>3
    <3>2. Active(part') = Active(part)
      BY <1>1
    <3> QED
      BY <1>1, <2>0, <2>3, <2>4, <3>1, <3>2 DEF Established
  <2> HIDE DEF l
  <2> QED
    BY <1>1, <2>1, <2>5, OnlyMoves, Alone DEF IInv, SafeNext
<1> QED
  BY <1>2, <1>3

LEMMA PublishKeeps ==
  ASSUME IInv, NEW t \in Thread, OthersRest(t), Publish(t) PROVE SafeNext
<1> DEFINE l   == thread[t]
           r   == run.round
           gone == {p \in Client \ Active(part) : HasSubmitted(part, p, r)}
           new == [round |-> r, parent |-> l.parent, who |-> l.who, trained |-> l.trained,
                   out |-> gone]
<1>1. UNCHANGED <<run, part>> /\ Goto(t, At("advance")) /\ revisions' = Append(revisions, new)
  BY DEF Publish
<1>2. l.at = "publish" /\ Established(l)
  BY DEF Publish, IInv, InRequest
<1>3. /\ run.state = "aggregating" /\ r > 0 /\ Len(revisions) = r - 1
      /\ \A p \in Active(part) : HasSubmitted(part, p, r) /\ part[p].round = r
      /\ l.who = Active(part) /\ Cardinality(l.who) >= Quorum
      /\ l.parent = r - 1 /\ l.trained = {r}
  BY <1>2 DEF Established
<1>4. /\ new.round = r /\ new.parent = r - 1 /\ Cardinality(new.who) >= Quorum
      /\ new.trained = {r} /\ new.who = Active(part) /\ new.out = gone
  BY <1>3
<1>5. {p \in Client : HasSubmitted(part, p, r)} = new.who \cup new.out
  BY <1>3, <1>4 DEF Active
<1> HIDE DEF new
<1>6. /\ r \in Nat /\ Len(revisions') = r /\ revisions'[r] = new
      /\ \A i \in 1..Len(revisions) : revisions'[i] = revisions[i]
  BY <1>1, <1>3, Numbers DEF IInv, TypeOK
<1>7. Chained'
  <2>1. \A i \in 1..r : i = r \/ i \in 1..Len(revisions)
    BY <1>3, <1>6
  <2>2. \A i \in 1..r :
          /\ revisions'[i].round = i /\ revisions'[i].parent = i - 1
          /\ Cardinality(revisions'[i].who) >= Quorum
          /\ revisions'[i].trained = {i}
          /\ {p \in Client : HasSubmitted(part, p, i)} = revisions'[i].who \cup revisions'[i].out
    BY <1>4, <1>5, <1>6, <2>1 DEF IInv, Chained
  <2> QED
    BY <1>1, <1>3, <1>6, <2>2 DEF Chained, BeforeStart
<1>8. History' /\ Staffed'
  BY <1>1, <1>3 DEF IInv, History, Staffed
<1>9. Established(At("advance"))'
  BY <1>1, <1>3, <1>6 DEF Established, At, Enough
<1> QED
  BY <1>1, <1>7, <1>8, <1>9, Alone DEF IInv, SafeNext

LEMMA AdvanceKeeps ==
  ASSUME IInv, NEW t \in Thread, OthersRest(t), Advance(t) PROVE SafeNext
<1>1. /\ run.state = "aggregating" /\ Len(revisions) = run.round
      /\ \A p \in Active(part) : HasSubmitted(part, p, run.round)
      /\ UNCHANGED revisions
  BY DEF Advance, IInv, InRequest, Established, At
<1>2. run.state \notin Terminal
  BY <1>1 DEF Terminal
<1>3. CASE /\ run.round < Rounds /\ Enough(part)
           /\ AssignRound(run.round + 1) /\ Goto(t, At("refresh"))
  <2>1. \A p \in Active(part) : part[p].status \in {"ready", "submitted"}
    BY <1>1, <1>2 DEF Active, Live, IInv, History
  <2>2. \A p \in Client : part[p].status \notin {"assigned", "training"} \/ p \in Active(part)
    BY DEF Active, Live
  <2> QED
    BY <1>1, <1>2, <1>3, <2>1, <2>2, AssignKeeps
<1>4. CASE Goto(t, At("idle")) /\ UNCHANGED <<run, part>>
  BY <1>1, <1>4, OnlyMoves, RestKeeps DEF IInv, SafeNext
<1>5. CASE /\ run.round >= Rounds /\ Goto(t, At("refresh"))
           /\ run' = [run EXCEPT !.state = "completed"] /\ part' = Finished
  <2>1. run'.state = "completed" /\ run'.round = run.round /\ run.round = Rounds
    BY <1>5, DemoAssumption DEF IInv, TypeOK, Round
  <2>2. \A c \in Client :
          /\ part'[c].updates = part[c].updates /\ part'[c].round = part[c].round
          /\ part'[c].status \in {part[c].status, "completed", "dropped"}
    BY <1>5 DEF Finished, IInv, TypeOK, Participant
  <2>3. SameUpdates
    BY <2>2 DEF SameUpdates
  <2>4. \A c \in Client : HasSubmitted(part', c, run.round) <=> HasSubmitted(part, c, run.round)
    BY <2>2 DEF HasSubmitted
  <2>5. History'
    BY <2>1, <2>2, <2>4 DEF IInv, History, Terminal, BeforeStart
  <2>6. Staffed'
    BY <2>1 DEF Staffed
  <2>7. Chained'
    <3>1. \A i \in 1..Len(revisions) :
            {c \in Client : HasSubmitted(part', c, i)} = {c \in Client : HasSubmitted(part, c, i)}
      BY <2>3, SubmittedEffect DEF SameUpdates
    <3> QED
      BY <1>1, <2>1, <3>1 DEF IInv, Chained, BeforeStart
  <2> QED
    BY <1>5, <2>5, <2>6, <2>7, RestKeeps DEF IInv, SafeNext
<1> QED
  BY <1>3, <1>4, <1>5 DEF Advance

-----------------------------------------------------------------------------
(***************************************************************************)
(* The invariant, and what it implies.                                     *)
(***************************************************************************)
LEMMA InitIInv == Init => IInv
<1> SUFFICES ASSUME Init PROVE IInv
  OBVIOUS
<1>1. TypeOK
  BY InitTypeOK
<1>2. /\ run.state = "created" /\ run.round = 0 /\ Len(revisions) = 0
      /\ \A p \in Client : part[p].status = "absent" /\ part[p].round = 0 /\ part[p].updates = {}
  BY DEF Init
<1>3. History
  BY <1>2 DEF History
<1>4. Staffed /\ Chained
  BY <1>2 DEF Staffed, Chained
<1>5. InRequest
  BY AtRest DEF InRequest, Init
<1> QED
  BY <1>1, <1>3, <1>4, <1>5 DEF IInv

LEMMA NextIInv == IInv /\ [Next]_vars /\ [NoOverlap]_vars => IInv'
<1> SUFFICES ASSUME IInv, [Next]_vars, [NoOverlap]_vars PROVE IInv'
  OBVIOUS
<1>1. TypeOK'
  BY NextTypeOK DEF IInv
<1>4. ASSUME UNCHANGED <<run, part, revisions, thread>> PROVE SafeNext
  <2>1. \A t \in Thread : Established(thread[t]) => Established(thread[t])'
    BY <1>4 DEF Established, MaySubmit
  <2>2. InRequest'
    BY <1>4, <2>1 DEF IInv, InRequest
  <2> QED
    BY <1>4, <2>2, OnlyMoves DEF SafeNext
<1>6. ASSUME UNCHANGED vars PROVE SafeNext
  BY <1>4, <1>6 DEF vars
<1> SUFFICES ASSUME NoOverlap PROVE IInv'
  BY <1>1, <1>6 DEF IInv, SafeNext
<1>2. ASSUME NEW t \in Thread, Request(t) PROVE SafeNext
  <2>0. OthersRest(t)
    BY <1>2 DEF NoOverlap
  <2>1. CASE AbortRun(t) \/ FailRun(t)
    BY <2>0, <2>1, StopKeeps DEF AbortRun, FailRun
  <2> QED
    BY <1>2, <2>0, <2>1, StartKeeps, ExpireKeeps, JoinKeeps, HeartbeatKeeps, ProgressKeeps,
       DropKeeps, SubmitKeeps DEF Request
<1>3. ASSUME NEW t \in Thread, Continue(t) PROVE SafeNext
  <2>0. OthersRest(t)
    BY <1>3 DEF NoOverlap
  <2> QED
    BY <1>3, <2>0, RecordKeeps, DecideKeeps, ClosingKeeps, AggregateKeeps, PublishKeeps,
       AdvanceKeeps, RefreshKeeps DEF Continue
<1>5. ASSUME NEW p \in Client, GoSilent(p) PROVE SafeNext
  BY <1>4, <1>5 DEF GoSilent
<1> QED
  BY <1>1, <1>2, <1>3, <1>5, <1>6 DEF Next, IInv, SafeNext

LEMMA AlwaysIInv == Spec /\ [][NoOverlap]_vars => []IInv
<1>1. IInv /\ [Next]_vars /\ [NoOverlap]_vars => IInv'
  BY NextIInv
<1> QED
  BY <1>1, InitIInv, PTL DEF Spec

\* A running round has its quorum, everybody in it has submitted or still may, and
\* a paused run lacks its quorum, in every behaviour whose requests do not overlap.
THEOREM RoundStaffed == Spec /\ [][NoOverlap]_vars => []RoundIsStaffed
<1>1. IInv => RoundIsStaffed
  BY DEF IInv, Staffed, RoundIsStaffed
<1> QED
  BY <1>1, AlwaysIInv, PTL

\* The r-th revision is the one of round r, made on top of the one before out of a
\* quorum of updates trained for r, in every behaviour whose requests do not overlap.
THEOREM RevisionsChained == Spec /\ [][NoOverlap]_vars => []RevisionsAreChained
<1>1. IInv => RevisionsAreChained
  BY DEF IInv, Chained, RevisionsAreChained
<1> QED
  BY <1>1, AlwaysIInv, PTL

\* Every accepted update is averaged in its round unless its sender was gone when
\* the round closed, in every behaviour whose requests do not overlap.
THEOREM SubmissionsCount == Spec /\ [][NoOverlap]_vars => []SubmissionCounts
<1>1. IInv => SubmissionCounts
  BY DEF IInv, Chained, SubmissionCounts
<1> QED
  BY <1>1, AlwaysIInv, PTL

-----------------------------------------------------------------------------
(***************************************************************************)
(* However many requests overlap: no round is passed without a mean.       *)
(***************************************************************************)

\* The requests that have published and not yet advanced, each with its revision.
AtAdvance == {t \in Thread : thread[t].at = "advance"}

\* The run is behind its revisions by those requests at least; and rounds, of the run,
\* of updates and of revisions, only grow.
Averaged ==
  /\ run.state \in BeforeStart => run.round = 0
  /\ Cardinality(AtAdvance) <= Len(revisions)
  /\ run.round + Cardinality(AtAdvance) <= Len(revisions) + 1
  /\ run.state = "completed" => Rounds <= Len(revisions)
  /\ \A p \in Client : \A u \in part[p].updates : u.trained <= u.round /\ u.round <= run.round
  /\ \A i \in 1..Len(revisions) :
       /\ revisions[i].round <= run.round
       /\ \A j \in 1..i : revisions[j].round <= revisions[i].round
       /\ Cardinality(revisions[i].who) >= Quorum
       /\ revisions[i].trained # {}
       /\ \A r \in revisions[i].trained : r <= revisions[i].round

\* What a request at l carries on to its revision.
Carries(l) ==
  /\ l.at = "record" => l.trained <= run.round
  /\ l.at \in {"aggregate", "publish"} => Cardinality(l.who) >= Quorum
  /\ l.at = "publish" => l.trained # {} /\ \A r \in l.trained : r <= run.round

AveragedInv == TypeOK /\ Averaged /\ \A t \in Thread : Carries(thread[t])

\* The counted requests are finitely many, and come and go one by one.
LEMMA Counting ==
  ASSUME TypeOK, NEW t \in Thread, NEW l, Goto(t, l)
  PROVE  /\ Cardinality(AtAdvance) \in Nat /\ Cardinality(AtAdvance') \in Nat
         /\ (thread[t].at = "advance" <=> l.at = "advance") =>
              Cardinality(AtAdvance') = Cardinality(AtAdvance)
         /\ thread[t].at # "advance" /\ l.at = "advance" =>
              Cardinality(AtAdvance') = Cardinality(AtAdvance) + 1
         /\ thread[t].at = "advance" /\ l.at # "advance" =>
              Cardinality(AtAdvance') = Cardinality(AtAdvance) - 1
<1>1. \A u \in Thread : thread'[u] = IF u = t THEN l ELSE thread[u]
  BY DEF Goto, TypeOK
<1>2. IsFiniteSet(AtAdvance) /\ IsFiniteSet(AtAdvance')
  BY DemoAssumption, FS_Subset DEF AtAdvance, DemoAssumption
<1>3. Cardinality(AtAdvance) \in Nat /\ Cardinality(AtAdvance') \in Nat
  BY <1>2, FS_CardinalityType
<1>4. (thread[t].at = "advance" <=> l.at = "advance") => AtAdvance' = AtAdvance
  BY <1>1 DEF AtAdvance
<1>5. ASSUME thread[t].at # "advance", l.at = "advance"
      PROVE  Cardinality(AtAdvance') = Cardinality(AtAdvance) + 1
  <2>1. AtAdvance' = AtAdvance \cup {t} /\ t \notin AtAdvance
    BY <1>1, <1>5 DEF AtAdvance
  <2> QED
    BY <1>2, <2>1, FS_AddElement
<1>6. ASSUME thread[t].at = "advance", l.at # "advance"
      PROVE  Cardinality(AtAdvance') = Cardinality(AtAdvance) - 1
  <2>1. AtAdvance' = AtAdvance \ {t} /\ t \in AtAdvance
    BY <1>1, <1>6 DEF AtAdvance
  <2> QED
    BY <1>2, <2>1, FS_RemoveElement
<1> QED
  BY <1>3, <1>4, <1>5, <1>6

\* The rounds of what a request carries stay in the past.
LEMMA CarriesOn ==
  ASSUME AveragedInv, NEW t \in Thread, NEW l, Goto(t, l), Carries(l)',
         run'.round \in Nat, run.round <= run'.round
  PROVE  \A u \in Thread : Carries(thread[u])'
<1> SUFFICES ASSUME NEW u \in Thread PROVE Carries(thread[u])'
  OBVIOUS
<1>1. thread'[u] = IF u = t THEN l ELSE thread[u]
  BY DEF Goto, TypeOK, AveragedInv
<1>2. CASE u = t
  BY <1>1, <1>2 DEF Carries
<1>3. CASE u # t
  <2>1. Carries(thread[u]) /\ thread'[u] = thread[u] /\ run.round \in Nat /\ IsLocal(thread[u])
    BY <1>1, <1>3, TypeParts, Numbers DEF AveragedInv
  <2>2. thread[u].at = "record" => thread[u].trained \in Nat
    BY <2>1 DEF IsLocal, Round, At
  <2>3. thread[u].at = "publish" => thread[u].trained \subseteq Nat
    BY <2>1 DEF IsLocal, Round, At
  <2> QED
    BY <2>1, <2>2, <2>3 DEF Carries
<1> QED
  BY <1>2, <1>3

\* A step that neither publishes nor advances.
LEMMA PlainStep ==
  ASSUME AveragedInv, TypeOK', NEW t \in Thread, NEW l, Goto(t, l), Carries(l)',
         thread[t].at # "advance", l.at # "advance", UNCHANGED revisions,
         run'.round = run.round \/ (run.state \in BeforeStart /\ run'.round = 1),
         run'.state \in BeforeStart => run.state \in BeforeStart /\ run'.round = run.round,
         run'.state = "completed" => run.state = "completed",
         SameUpdates \/ \A p \in Client : \A u \in part'[p].updates :
                           u.trained <= u.round /\ u.round <= run'.round
  PROVE  AveragedInv'
<1>1. /\ run.round \in Nat /\ Len(revisions) \in Nat
      /\ \A p \in Client : \A u \in part[p].updates : u.round \in Nat
  BY Numbers DEF AveragedInv
<1>2. run'.round \in Nat /\ run.round <= run'.round
  BY <1>1 DEF AveragedInv, Averaged
<1>3. \A u \in Thread : Carries(thread[u])'
  BY <1>2, CarriesOn
<1>4. Cardinality(AtAdvance') = Cardinality(AtAdvance) /\ Cardinality(AtAdvance) \in Nat
  BY Counting DEF AveragedInv
<1>5. /\ run'.state \in BeforeStart => run'.round = 0
      /\ run'.state = "completed" => Rounds <= Len(revisions)
      /\ Cardinality(AtAdvance') <= Len(revisions)
  BY <1>4 DEF AveragedInv, Averaged
<1>6. run'.round + Cardinality(AtAdvance') <= Len(revisions) + 1
  <2>1. CASE run'.round = run.round
    BY <1>4, <2>1 DEF AveragedInv, Averaged
  <2>2. CASE run.state \in BeforeStart /\ run'.round = 1
    BY <1>1, <1>4, <2>2 DEF AveragedInv, Averaged
  <2> QED
    BY <2>1, <2>2
<1>7. \A p \in Client : \A u \in part'[p].updates :
        u.trained <= u.round /\ u.round <= run'.round
  BY <1>1, <1>2 DEF AveragedInv, Averaged, SameUpdates
<1>8. \A i \in 1..Len(revisions) : revisions[i].round \in Nat /\ revisions[i].round <= run.round
  <2>1. \A i \in 1..Len(revisions) : revisions[i] \in Revision
    BY DEF AveragedInv, TypeOK
  <2> QED
    BY <2>1 DEF AveragedInv, Averaged, Revision, Round
<1>9. \A i \in 1..Len(revisions) : revisions[i].round <= run'.round
  BY <1>1, <1>2, <1>8
<1>10. Averaged'
  BY <1>5, <1>6, <1>7, <1>9 DEF AveragedInv, Averaged
<1> QED
  BY <1>3, <1>10 DEF AveragedInv

\* Where a request goes, but for those two steps.
LEMMA RunMoves ==
  ASSUME TypeOK, NEW t \in Thread, Request(t) \/ Continue(t), ~ Advance(t)
  PROVE  /\ run'.round = run.round \/ (run.state \in BeforeStart /\ run'.round = 1)
         /\ run'.state \in BeforeStart => run.state \in BeforeStart /\ run'.round = run.round
         /\ run'.state = "completed" => run.state = "completed"
<1> DEFINE Good == /\ run'.round = run.round \/ (run.state \in BeforeStart /\ run'.round = 1)
                   /\ run'.state \in BeforeStart =>
                        run.state \in BeforeStart /\ run'.round = run.round
                   /\ run'.state = "completed" => run.state = "completed"
<1>1. \A x : [run EXCEPT !.state = x].state = x /\ [run EXCEPT !.state = x].round = run.round
  BY DEF TypeOK
<1>2. ASSUME UNCHANGED run PROVE Good
  BY <1>2
<1>3. ASSUME NEW x \in RunStates \ (BeforeStart \cup {"completed"}), run' = [run EXCEPT !.state = x]
      PROVE  Good
  BY <1>1, <1>3
<1>4. {"running_round", "aggregating", "paused", "aborted", "failed"}
        \subseteq RunStates \ (BeforeStart \cup {"completed"})
  BY DEF RunStates, BeforeStart
<1>5. ASSUME NEW pt, MaybeResume(t, pt) PROVE Good
  BY <1>2, <1>3, <1>4, <1>5 DEF MaybeResume, Resume
<1>6. CASE Request(t)
  <2>1. CASE Start(t)
    BY <2>1 DEF Start, AssignRound, BeforeStart
  <2>2. CASE ExpireMissing(t)
    BY <1>2, <1>3, <1>4, <2>2 DEF ExpireMissing
  <2>3. CASE AbortRun(t) \/ FailRun(t)
    BY <1>3, <1>4, <2>3 DEF AbortRun, FailRun, Stop
  <2>4. ASSUME NEW p \in Client, Join(t, p) PROVE Good
    <3>1. CASE run.state = "paused"
      BY <1>5, <2>4, <3>1 DEF Join
    <3>2. CASE run.state # "paused"
      <4>1. run.state \in BeforeStart
        BY <2>4, <3>2 DEF Join, BeforeStart
      <4>2. PICK x \in {"joining", "ready"} : run' = [run EXCEPT !.state = x]
        BY <2>4, <3>2 DEF Join
      <4>3. run'.state = x /\ run'.round = run.round
        BY <1>1, <4>2
      <4> QED
        BY <4>1, <4>3
    <3> QED
      BY <3>1, <3>2
  <2>5. ASSUME NEW p \in Client, Heartbeat(t, p) PROVE Good
    BY <1>2, <1>5, <2>5 DEF Heartbeat
  <2>6. ASSUME NEW p \in Client, NEW w \in Width, Progress(t, p) \/ SubmitUpdate(t, p, w)
        PROVE  Good
    BY <1>2, <2>6 DEF Progress, SubmitUpdate
  <2>7. ASSUME NEW p \in Client, Progress(t, p) PROVE Good
    BY <1>2, <2>7 DEF Progress
  <2>8. ASSUME NEW p \in Client, DropParticipant(t, p) PROVE Good
    <3>1. CASE run' = [run EXCEPT !.state = "paused"] \/ UNCHANGED run
      BY <1>2, <1>3, <1>4, <3>1
    <3>2. CASE run.state \in {"joining", "ready"} /\ run' = [run EXCEPT !.state = "joining"]
      BY <1>1, <3>2 DEF BeforeStart
    <3> QED
      BY <2>8, <3>1, <3>2 DEF DropParticipant
  <2> QED
    BY <1>6, <2>1, <2>2, <2>3, <2>4, <2>5, <2>6, <2>7, <2>8 DEF Request
<1>7. CASE Continue(t)
  <2>1. UNCHANGED run \/ \E x \in {"aggregating", "paused"} : run' = [run EXCEPT !.state = x]
    BY <1>7 DEF Continue, RecordUpdate, Decide, Close, Aggregate, Publish, Refresh
  <2> QED
    BY <1>2, <1>3, <1>4, <2>1
<1> QED
  BY <1>6, <1>7

LEMMA RequestAverages ==
  ASSUME AveragedInv, TypeOK', NEW t \in Thread, Request(t)
  PROVE  AveragedInv'
<1>0. TypeOK
  BY DEF AveragedInv
<1>1. Begins(t) /\ UNCHANGED revisions
  BY DEF Request, Start, ExpireMissing, AbortRun, FailRun, Stop, Join, Heartbeat,
     Progress, DropParticipant, SubmitUpdate
<1>2. thread[t].at = "idle"
  BY <1>1 DEF Begins, At
<1>3. ~ RecordUpdate(t) /\ ~ Advance(t)
  BY <1>2 DEF RecordUpdate, Advance, At
<1>4. SameUpdates
  BY <1>0, <1>3, OnlyRecordingUpdates
<1>5. \A s \in {"close", "refresh"} : Carries(At(s))' /\ At(s).at # "advance"
  BY DEF Carries, At
<1>6. PICK l : Goto(t, l) /\ Carries(l)' /\ l.at # "advance"
  <2>1. CASE \E s \in {"close", "refresh"} : Goto(t, At(s))
    BY <1>5, <2>1
  <2>2. ASSUME NEW p \in Client, NEW w \in Width, SubmitUpdate(t, p, w)
        PROVE  \E l : Goto(t, l) /\ Carries(l)' /\ l.at # "advance"
    <3>0. PICK r : r = run.round
      OBVIOUS
    <3> DEFINE l == [at |-> "record", who |-> p, width |-> w, trained |-> r]
    <3>1. Goto(t, l) /\ UNCHANGED run
      BY <2>2, <3>0 DEF SubmitUpdate
    <3>2. l.at = "record" /\ l.trained = run.round /\ run.round \in Nat
      BY <1>0, <3>0, Numbers
    <3>3. Carries(l)'
      BY <3>0, <3>1, <3>2 DEF Carries
    <3> QED
      BY <3>1, <3>2, <3>3
  <2>3. ASSUME NEW pt, MaybeResume(t, pt) PROVE \E s \in {"close", "refresh"} : Goto(t, At(s))
    BY <2>3 DEF MaybeResume, Resume
  <2> QED
    BY <2>1, <2>2, <2>3 DEF Request, Start, ExpireMissing, AbortRun, FailRun, Stop, Join,
       Heartbeat, Progress, DropParticipant
<1> QED
  BY <1>0, <1>1, <1>2, <1>3, <1>4, <1>6, PlainStep, RunMoves

\* The steps of a request, but for the last two.
LEMMA ContinueAverages ==
  ASSUME AveragedInv, TypeOK', NEW t \in Thread,
         Decide(t) \/ Close(t) \/ Aggregate(t) \/ Refresh(t)
  PROVE  AveragedInv'
<1>0. TypeOK /\ Continue(t)
  BY DEF AveragedInv, Continue
<1>1. UNCHANGED revisions
  BY DEF Decide, Close, Aggregate, Refresh
<1>2. thread[t].at # "advance" /\ ~ RecordUpdate(t) /\ ~ Advance(t)
  BY DEF Decide, Close, Aggregate, Refresh, RecordUpdate, Advance, At
<1>3. SameUpdates
  BY <1>0, <1>2, OnlyRecordingUpdates
<1>4. \A s \in {"idle", "close", "refresh"} : Carries(At(s))' /\ At(s).at # "advance"
  BY DEF Carries, At
<1>5. PICK l : Goto(t, l) /\ Carries(l)' /\ l.at # "advance"
  <2>1. CASE Decide(t) \/ Refresh(t)
    BY <1>4, <2>1 DEF Decide, Refresh
  <2>2. CASE Close(t)
    <3>0. PICK who : who = Submitted(part, run.round)
      OBVIOUS
    <3> DEFINE l == [at |-> "aggregate", who |-> who]
    <3>1. Cardinality(who) >= Quorum => Carries(l)'
      BY DEF Carries
    <3>2. Goto(t, At("idle")) \/ (Goto(t, l) /\ Cardinality(who) >= Quorum)
      BY <2>2, <3>0 DEF Close
    <3> QED
      BY <1>4, <3>1, <3>2
  <2>3. CASE Aggregate(t)
    <3>0. PICK who, r, us : who = thread[t].who /\ r = run.round /\ us = UpdatesOf(who, r)
      OBVIOUS
    <3>1. thread[t].at = "aggregate" /\ UNCHANGED <<run, part>>
      BY <2>3 DEF Aggregate
    <3>2. who \subseteq Client /\ Cardinality(who) >= Quorum
      <4>1. IsLocal(thread[t]) /\ Carries(thread[t])
        BY <1>0, TypeParts DEF AveragedInv
      <4> QED
        BY <3>0, <3>1, <4>1 DEF IsLocal, Carries, At
    <3>3. who # {}
      BY <3>2, FS_EmptySet, DemoAssumption DEF DemoAssumption
    <3> DEFINE trained == {u.trained : u \in us}
    <3>4. \A x \in trained : x <= r
      BY <1>0, <3>0, <3>2, Numbers DEF UpdatesOf, AveragedInv, Averaged
    <3>5. (\A p \in who : HasSubmitted(part, p, r)) => trained # {}
      <4> SUFFICES ASSUME NEW p \in who, HasSubmitted(part, p, r) PROVE us # {}
        BY <3>3
      <4> QED
        BY <3>0 DEF HasSubmitted, UpdatesOf
    <3>6. PICK parent : parent = Len(revisions)
      OBVIOUS
    <3>7. PICK had : had = trained
      OBVIOUS
    <3> DEFINE l == [at |-> "publish", who |-> who, parent |-> parent, trained |-> had]
    <3>8. \/ Goto(t, At("idle"))
          \/ Goto(t, l) /\ \A p \in who : HasSubmitted(part, p, r)
      BY <2>3, <3>0, <3>6, <3>7 DEF Aggregate
    <3>9. had # {} => Carries(l)'
      BY <3>0, <3>1, <3>2, <3>4, <3>7 DEF Carries
    <3> QED
      BY <1>4, <3>5, <3>7, <3>8, <3>9
  <2> QED
    BY <2>1, <2>2, <2>3
<1> QED
  BY <1>0, <1>1, <1>2, <1>3, <1>5, PlainStep, RunMoves

\* An update is recorded for the round that is active then, which is no earlier.
LEMMA RecordAverages ==
  ASSUME AveragedInv, TypeOK', NEW t \in Thread, RecordUpdate(t)
  PROVE  AveragedInv'
<1>0. TypeOK
  BY DEF AveragedInv
<1>1. PICK l, r : l = thread[t] /\ r = run.round
  OBVIOUS
<1>2. l.at = "record" /\ Goto(t, At("decide")) /\ UNCHANGED <<run, revisions>>
  BY <1>1 DEF RecordUpdate
<1>3. l.who \in Client /\ l.trained <= r
  <2>1. IsLocal(l) /\ Carries(l)
    BY <1>0, <1>1, TypeParts DEF AveragedInv
  <2> QED
    BY <1>1, <1>2, <2>1 DEF IsLocal, Carries, At
<1> DEFINE u == [round |-> r, width |-> l.width, trained |-> l.trained]
           us == {v \in part[l.who].updates : v.round # r} \cup {u}
<1>4. \A c \in Client : part'[c].updates = IF c = l.who THEN us ELSE part[c].updates
  <2>1. part' = [part EXCEPT ![l.who].updates = us, ![l.who].status = "submitted"]
    BY <1>1 DEF RecordUpdate
  <2> HIDE DEF us
  <2> QED
    BY <1>0, <1>3, <2>1 DEF TypeOK, Participant
<1>5. u.round = r /\ u.trained = l.trained /\ r \in Nat
  BY <1>0, <1>1, Numbers
<1> HIDE DEF u
<1>6. \A c \in Client : \A v \in part'[c].updates : v.trained <= v.round /\ v.round <= run'.round
  <2> SUFFICES ASSUME NEW c \in Client, NEW v \in part'[c].updates
               PROVE  v.trained <= v.round /\ v.round <= run.round
    BY <1>2
  <2>1. v \in part[c].updates \/ v = u
    BY <1>3, <1>4
  <2>2. CASE v \in part[c].updates
    BY <2>2 DEF AveragedInv, Averaged
  <2>3. CASE v = u
    BY <1>1, <1>3, <1>5, <2>3
  <2> QED
    BY <2>1, <2>2, <2>3
<1>7. Carries(At("decide"))' /\ At("decide").at # "advance"
  BY DEF Carries, At
<1> QED
  BY <1>1, <1>2, <1>6, <1>7, PlainStep DEF AveragedInv, Averaged

\* A revision is one more, and so is a request that has yet to advance.
LEMMA PublishAverages ==
  ASSUME AveragedInv, TypeOK', NEW t \in Thread, Publish(t)
  PROVE  AveragedInv'
<1>0. TypeOK /\ run.round \in Nat /\ Len(revisions) \in Nat
  BY Numbers DEF AveragedInv
<1>1. PICK new :
        /\ revisions' = Append(revisions, new)
        /\ new.round = run.round /\ new.who = thread[t].who /\ new.trained = thread[t].trained
  BY DEF Publish
<1>2. thread[t].at = "publish" /\ Goto(t, At("advance")) /\ UNCHANGED <<run, part>>
  BY DEF Publish
<1>3. /\ Cardinality(new.who) >= Quorum /\ new.trained # {}
      /\ \A r \in new.trained : r <= new.round
  BY <1>1, <1>2 DEF AveragedInv, Carries
<1>4. /\ Len(revisions') = Len(revisions) + 1
      /\ revisions'[Len(revisions) + 1] = new
      /\ \A i \in 1..Len(revisions) : revisions'[i] = revisions[i]
  BY <1>0, <1>1 DEF TypeOK
<1>5. Carries(At("advance"))'
  BY DEF Carries, At
<1>6. \A u \in Thread : Carries(thread[u])'
  BY <1>0, <1>2, <1>5, CarriesOn
<1>7. /\ Cardinality(AtAdvance') = Cardinality(AtAdvance) + 1
      /\ Cardinality(AtAdvance) \in Nat
  BY <1>0, <1>2, Counting DEF At
<1>8. /\ Cardinality(AtAdvance') <= Len(revisions')
      /\ run'.round + Cardinality(AtAdvance') <= Len(revisions') + 1
  BY <1>0, <1>2, <1>4, <1>7 DEF AveragedInv, Averaged
<1>9. run'.state = "completed" => Rounds <= Len(revisions')
  BY <1>0, <1>2, <1>4, DemoAssumption DEF AveragedInv, Averaged, DemoAssumption
<1>10. ASSUME NEW i \in 1..Len(revisions')
       PROVE  /\ revisions'[i].round <= run'.round
              /\ \A j \in 1..i : revisions'[j].round <= revisions'[i].round
              /\ Cardinality(revisions'[i].who) >= Quorum
              /\ revisions'[i].trained # {}
              /\ \A r \in revisions'[i].trained : r <= revisions'[i].round
  <2>1. CASE i \in 1..Len(revisions)
    <3>1. \A j \in 1..i : j \in 1..Len(revisions)
      BY <1>0, <2>1
    <3> QED
      BY <1>2, <1>4, <2>1, <3>1 DEF AveragedInv, Averaged
  <2>2. CASE i = Len(revisions) + 1
    <3>1. \A j \in 1..i : j \in 1..Len(revisions) \/ j = i
      BY <1>0, <2>2
    <3>2. \A j \in 1..Len(revisions) : revisions'[j].round <= run.round
      BY <1>4 DEF AveragedInv, Averaged
    <3> QED
      BY <1>0, <1>1, <1>2, <1>3, <1>4, <2>2, <3>1, <3>2
  <2> QED
    BY <1>0, <1>4, <2>1, <2>2
<1>11. Averaged'
  BY <1>2, <1>8, <1>9, <1>10 DEF AveragedInv, Averaged
<1> QED
  BY <1>6, <1>11 DEF AveragedInv

\* The run goes on to the next round, or ends, by a request with a revision.
LEMMA AdvanceAverages ==
  ASSUME AveragedInv, TypeOK', NEW t \in Thread, Advance(t)
  PROVE  AveragedInv'
<1>0. /\ TypeOK /\ run.round \in Nat /\ Len(revisions) \in Nat /\ Rounds \in Nat
      /\ \A p \in Client : \A u \in part[p].updates : u.round \in Nat
  BY Numbers DEF AveragedInv
<1>1. thread[t].at = "advance" /\ UNCHANGED revisions /\ ~ RecordUpdate(t) /\ Continue(t)
  BY DEF Advance, RecordUpdate, At, Continue
<1>2. SameUpdates
  BY <1>0, <1>1, OnlyRecordingUpdates
<1>3. \/ run'.state = "running_round" /\ run'.round = run.round + 1
      \/ UNCHANGED run
      \/ run'.state = "completed" /\ run'.round = run.round /\ run.round >= Rounds
  BY <1>0 DEF Advance, AssignRound, TypeOK
<1>4. run'.round \in Nat /\ run.round <= run'.round /\ run'.round <= run.round + 1
  BY <1>0, <1>3
<1>5. PICK s \in {"idle", "refresh"} : Goto(t, At(s))
  BY DEF Advance
<1>6. Carries(At(s))' /\ At(s).at # "advance"
  BY DEF Carries, At
<1>7. \A u \in Thread : Carries(thread[u])'
  BY <1>4, <1>5, <1>6, CarriesOn
<1>8. /\ Cardinality(AtAdvance') = Cardinality(AtAdvance) - 1
      /\ Cardinality(AtAdvance) \in Nat /\ Cardinality(AtAdvance') \in Nat
  BY <1>0, <1>1, <1>5, <1>6, Counting
<1>9. /\ Cardinality(AtAdvance') <= Len(revisions')
      /\ run'.round + Cardinality(AtAdvance') <= Len(revisions') + 1
  BY <1>0, <1>1, <1>4, <1>8 DEF AveragedInv, Averaged
<1>10. /\ run'.state = "completed" => Rounds <= Len(revisions')
       /\ run'.state \in BeforeStart => run'.round = 0
  <2>1. run.round <= Len(revisions)
    BY <1>0, <1>8 DEF AveragedInv, Averaged
  <2> QED
    BY <1>0, <1>1, <1>3, <2>1 DEF AveragedInv, Averaged, BeforeStart
<1>11. \A p \in Client : \A u \in part'[p].updates : u.trained <= u.round /\ u.round <= run'.round
  BY <1>0, <1>2, <1>4 DEF AveragedInv, Averaged, SameUpdates
<1>12. \A i \in 1..Len(revisions) : revisions[i].round <= run'.round
  <2>1. \A i \in 1..Len(revisions) : revisions[i] \in Revision
    BY <1>0 DEF TypeOK
  <2> QED
    BY <1>0, <1>4, <2>1 DEF AveragedInv, Averaged, Revision, Round
<1>13. Averaged'
  BY <1>1, <1>9, <1>10, <1>11, <1>12 DEF AveragedInv, Averaged
<1> QED
  BY <1>7, <1>13 DEF AveragedInv

LEMMA AlwaysAveraged == Spec => []AveragedInv
<1>1. Init => AveragedInv
  <2> SUFFICES ASSUME Init PROVE AveragedInv
    OBVIOUS
  <2>1. AtAdvance = {}
    BY DEF Init, AtAdvance, At
  <2>2. \A t \in Thread : Carries(thread[t])
    BY DEF Init, Carries, At
  <2>3. run.round = 0 /\ run.state = "created" /\ Len(revisions) = 0
        /\ \A p \in Client : part[p].updates = {}
    BY DEF Init
  <2>4. Averaged
    BY <2>1, <2>3, FS_EmptySet DEF Averaged
  <2> QED
    BY <2>2, <2>4, InitTypeOK DEF AveragedInv
<1>2. AveragedInv /\ [Next]_vars => AveragedInv'
  <2> SUFFICES ASSUME AveragedInv, [Next]_vars PROVE AveragedInv'
    OBVIOUS
  <2>1. TypeOK'
    BY NextTypeOK DEF AveragedInv
  <2>2. ASSUME UNCHANGED <<run, part, revisions, thread>> PROVE AveragedInv'
    <3>1. \A t \in Thread : Carries(thread[t]) <=> Carries(thread[t])'
      BY <2>2 DEF Carries
    <3>2. AtAdvance' = AtAdvance
      BY <2>2 DEF AtAdvance
    <3>3. Averaged'
      BY <2>2, <3>2 DEF AveragedInv, Averaged
    <3> QED
      BY <2>1, <3>1, <3>3 DEF AveragedInv
  <2>3. ASSUME NEW t \in Thread, Continue(t) PROVE AveragedInv'
    BY <2>1, <2>3, ContinueAverages, RecordAverages, PublishAverages, AdvanceAverages
       DEF Continue
  <2>4. CASE UNCHANGED vars \/ \E p \in Client : GoSilent(p)
    BY <2>2, <2>4 DEF vars, GoSilent
  <2> QED
    BY <2>1, <2>3, <2>4, RequestAverages DEF Next
<1> QED
  BY <1>1, <1>2, PTL DEF Spec

\* RoundsAreAveraged for any number of browsers, rounds and requests in flight, however
\* they overlap: who advances the run has published first.
THEOREM NoRoundWithoutMean == Spec => []RoundsAreAveraged
<1>1. AveragedInv => RoundsAreAveraged
  <2> SUFFICES ASSUME AveragedInv PROVE RoundsAreAveraged
    OBVIOUS
  <2>1. run.round \in Nat /\ Len(revisions) \in Nat
    BY Numbers DEF AveragedInv
  <2>2. Cardinality(AtAdvance) \in Nat
    <3>1. IsFiniteSet(AtAdvance)
      BY DemoAssumption, FS_Subset DEF AtAdvance, DemoAssumption
    <3> QED
      BY <3>1, FS_CardinalityType
  <2>3. run.round - 1 <= Len(revisions)
    BY <2>1, <2>2 DEF AveragedInv, Averaged
  <2> QED
    BY <2>3 DEF AveragedInv, Averaged, RoundsAreAveraged
<1> QED
  BY <1>1, AlwaysAveraged, PTL

-----------------------------------------------------------------------------
(***************************************************************************)
(* A participant's page: its runs are runs of the service, and what its    *)
(* jobs have been told is what the service holds.                          *)
(***************************************************************************)

\* The service has an update of this participant for k's round, trained from the
\* revision that round starts from; or it has passed every check and is recorded
\* by a request in flight.
Delivered(k) == \E u \in part[Me].updates : u.round = k.round /\ u.trained = k.round

BeingRecorded(k) ==
  \E t \in Thread : thread[t].at = "record" /\ thread[t].who = Me /\ thread[t].trained = k.round

PostedTold ==
  \A k \in Key : jobs[k] = "posted" =>
    k.rev = k.round - 1 /\ (Delivered(k) \/ BeingRecorded(k))

PageInv == IInv /\ JobsTellService /\ PostedTold

\* What a snapshot can say.
Snapshots == [rev: 0..Rounds, status: Statuses, round: 0..Rounds]

LEMMA SnapshotType == IInv => Snapshot \in Snapshots
<1> SUFFICES ASSUME IInv PROVE Snapshot \in Snapshots
  OBVIOUS
<1>1. part[Me] \in Participant
  BY PageAssumption DEF IInv, TypeOK
<1>2. Len(revisions) \in 0..Rounds
  <2>1. Len(revisions) \in Nat /\ Rounds \in Nat
    BY Numbers DEF IInv
  <2>2. ASSUME Len(revisions) > 0 PROVE Len(revisions) <= Rounds
    <3>1. Len(revisions) \in 1..Len(revisions)
      BY <2>1, <2>2
    <3>2. revisions[Len(revisions)] \in Revision
      BY <3>1 DEF IInv, TypeOK
    <3>3. revisions[Len(revisions)].round = Len(revisions)
      BY <3>1 DEF IInv, Chained
    <3> QED
      BY <2>1, <3>2, <3>3 DEF Revision, Round
  <2> QED
    BY <2>1, <2>2
<1> QED
  BY <1>1, <1>2 DEF Snapshot, Snapshots, Participant, Round

\* Requests of the page are requests of the service, and the rest is local to the page.
LEMMA PageStep == PageNext => [Next]_vars
<1> SUFFICES ASSUME PageNext PROVE [Next]_vars
  OBVIOUS
<1>1. ASSUME NEW t \in Thread, Others(t) PROVE Next
  BY <1>1 DEF Others, Next, Request
<1>2. ASSUME NEW t \in Thread, Continue(t) PROVE Next
  BY <1>2 DEF Next
<1>3. CASE Environment
  BY <1>1, <1>2, <1>3 DEF Environment
<1>4. CASE Push \/ Answer \/ Arrive \/ Retry \/ Reload
  BY <1>4 DEF Push, Answer, Arrive, Retry, Reload
<1>5. ASSUME NEW k \in Key, Train(k) \/ Answered(k) \/ Lose(k) PROVE UNCHANGED vars
  BY <1>5 DEF Train, Answered, Lose
<1>6. ASSUME NEW k \in Key, NEW t \in Thread,
             ReportProgress(k, t) \/ Submit(k, t) \/ HandleOrphan(k, t)
      PROVE  [Next]_vars
  <2>1. Progress(t, Me) => Next
    BY PageAssumption DEF Next, Request
  <2>2. ASSUME NEW w \in Width, SubmitUpdate(t, Me, w) PROVE Next
    BY <2>2, PageAssumption DEF Next, Request
  <2> QED
    BY <1>6, <2>1, <2>2 DEF ReportProgress, Submit, HandleOrphan
<1> QED
  BY <1>3, <1>4, <1>5, <1>6 DEF PageNext, Work

\* Nothing a page does is more than the service allows: every run with a page is a
\* run of the service.
THEOREM PageImplementsService == PageSpec => Spec
<1>1. PageInit => Init
  BY DEF PageInit
<1>2. [PageNext]_pageVars => [Next]_vars
  BY PageStep DEF pageVars
<1> QED
  BY <1>1, <1>2, PTL DEF PageSpec, Spec

\* And no other step is taken by a request that is about to record one.
LEMMA OthersRecordNothing ==
  ASSUME IInv, [Next]_vars, [NoOverlap]_vars, ~ \E t \in Thread : RecordUpdate(t)
  PROVE  SameUpdates /\ (UNCHANGED thread \/ \A t \in Thread : thread[t].at # "record")
<1>1. CASE UNCHANGED vars
  BY <1>1 DEF vars, SameUpdates
<1> SUFFICES ASSUME NoOverlap, Next
             PROVE  SameUpdates /\ (UNCHANGED thread \/ \A t \in Thread : thread[t].at # "record")
  BY <1>1
<1>2. ASSUME NEW t \in Thread, Request(t) \/ Continue(t) PROVE SameUpdates
  BY <1>2, OnlyRecordingUpdates DEF IInv
<1>3. ASSUME NEW t \in Thread, Request(t) \/ Continue(t) PROVE thread[t].at # "record"
  <2>1. CASE Request(t)
    <3>1. Begins(t)
      BY <2>1 DEF Request, Start, ExpireMissing, AbortRun, FailRun, Stop, Join, Heartbeat,
         Progress, DropParticipant, SubmitUpdate
    <3> QED
      BY <3>1 DEF Begins, At
  <2>2. CASE Continue(t)
    <3>1. ~ RecordUpdate(t)
      OBVIOUS
    <3> QED
      BY <2>2, <3>1 DEF Continue, Decide, Close, Aggregate, Publish, Advance, Refresh, At
  <2> QED
    BY <1>3, <2>1, <2>2
<1>4. ASSUME NEW t \in Thread, Request(t) \/ Continue(t)
      PROVE  \A u \in Thread : thread[u].at # "record"
  BY <1>3, <1>4 DEF At, NoOverlap, OthersRest
<1>5. ASSUME NEW p \in Client, GoSilent(p) PROVE SameUpdates /\ UNCHANGED thread
  BY <1>5 DEF GoSilent, SameUpdates
<1> QED
  BY <1>2, <1>4, <1>5 DEF Next

\* An update the service has recorded stays, and the one that is being recorded is
\* recorded, whatever the service does next.
LEMMA UpdatesStay ==
  ASSUME IInv, [Next]_vars, [NoOverlap]_vars, NEW k \in Key
  PROVE  /\ Delivered(k) => Delivered(k)'
         /\ BeingRecorded(k) => (Delivered(k) \/ BeingRecorded(k))'
<1>1. CASE ~ \E t \in Thread : RecordUpdate(t)
  BY <1>1, OthersRecordNothing, PageAssumption DEF SameUpdates, Delivered, BeingRecorded
<1>2. ASSUME NEW t \in Thread, RecordUpdate(t)
      PROVE  /\ Delivered(k) => Delivered(k)'
             /\ BeingRecorded(k) => Delivered(k)'
  <2> DEFINE l == thread[t]
             u == [round |-> run.round, width |-> l.width, trained |-> l.trained]
             us == {v \in part[l.who].updates : v.round # run.round} \cup {u}
  <2>1. /\ l.who \in Client /\ l.trained = run.round
        /\ ~ HasSubmitted(part, l.who, run.round)
    BY <1>2, TypeParts DEF RecordUpdate, IInv, InRequest, Established, IsLocal, At
  <2>2. \A c \in Client : part'[c].updates = IF c = l.who THEN us ELSE part[c].updates
    <3>1. part' = [part EXCEPT ![l.who].updates = us, ![l.who].status = "submitted"]
      BY <1>2 DEF RecordUpdate
    <3> HIDE DEF us
    <3> QED
      BY <2>1, <3>1 DEF IInv, TypeOK, Participant
  <2>3. part[Me].updates \subseteq part'[Me].updates
    BY <2>1, <2>2, PageAssumption DEF HasSubmitted
  <2>4. BeingRecorded(k) => l.who = Me /\ l.trained = k.round
    <3>1. CASE NoOverlap
      <4>1. \A s \in Thread : s # t => thread[s] = At("idle")
        BY <1>2, <3>1 DEF NoOverlap, OthersRest, Continue
      <4> QED
        BY <4>1 DEF BeingRecorded, At
    <3>2. CASE UNCHANGED vars
      <4>1. l.at = "record" /\ thread'[t] = At("decide")
        BY <1>2 DEF RecordUpdate, Goto, IInv, TypeOK
      <4> QED
        BY <3>2, <4>1 DEF vars, At
    <3> QED
      BY <3>1, <3>2
  <2>5. u \in us /\ u.round = run.round /\ u.trained = run.round
    BY <2>1
  <2> QED
    BY <2>1, <2>2, <2>3, <2>4, <2>5, PageAssumption DEF Delivered
<1> QED
  BY <1>1, <1>2

LEMMA InitPageInv == PageInit => PageInv
<1> SUFFICES ASSUME PageInit PROVE PageInv
  OBVIOUS
<1>1. IInv
  BY InitIInv DEF PageInit
<1>2. NoView \in [rev: 0..Rounds, status: Statuses, round: 0..Rounds]
  BY DemoAssumption DEF NoView, Statuses
<1> QED
  BY <1>1, <1>2 DEF PageInit, PageInv, JobsTellService, PostedTold, Steps

\* What a page says of itself, and how a step may change what a job says.
PageTypes ==
  /\ {view, poll} \subseteq Snapshots
  /\ orphans \subseteq Key /\ runtime \in {"none", "ready", "rejected"}
  /\ jobs \in [Key -> Steps]

HonestStep ==
  \A k \in Key :
    /\ jobs'[k] = "posted" =>
         jobs[k] = "posted" \/ (k.rev = k.round - 1 /\ BeingRecorded(k)')
    /\ jobs'[k] = "submitted" =>
         \/ jobs[k] = "submitted"
         \/ jobs[k] = "posted" /\ Quiet

LEMMA PageKept ==
  ASSUME PageInv, IInv', [Next]_vars, [NoOverlap]_vars, PageTypes', HonestStep
  PROVE  PageInv'
<1>1. ASSUME NEW k \in Key
      PROVE  /\ Delivered(k) => Delivered(k)'
             /\ BeingRecorded(k) => (Delivered(k) \/ BeingRecorded(k))'
  BY UpdatesStay DEF PageInv
<1>2. ASSUME NEW k \in Key, Quiet PROVE ~ BeingRecorded(k)
  BY <1>2 DEF Quiet, BeingRecorded, At
<1>3. ASSUME NEW k \in Key, jobs'[k] = "submitted"
      PROVE  k.rev = k.round - 1 /\ Delivered(k)'
  BY <1>1, <1>2, <1>3 DEF HonestStep, PageInv, JobsTellService, PostedTold, Delivered
<1>4. PostedTold'
  BY <1>1 DEF HonestStep, PageInv, PostedTold
<1>5. JobsTellService'
  BY <1>3 DEF PageTypes, Snapshots, JobsTellService, Delivered
<1> QED
  BY <1>4, <1>5 DEF PageInv

LEMMA NextPageInv == PageInv /\ [PageNext]_pageVars /\ [NoOverlap]_vars => PageInv'
<1> SUFFICES ASSUME PageInv, [PageNext]_pageVars, [NoOverlap]_vars PROVE PageInv'
  OBVIOUS
<1>0. PageTypes
  BY DEF PageInv, JobsTellService, PageTypes, Snapshots
<1>1. [Next]_vars /\ IInv'
  BY PageStep, NextIInv DEF PageInv, pageVars
<1> DEFINE Good == PageTypes' /\ HonestStep
<1> SUFFICES Good
  BY <1>1, PageKept
<1>2. Snapshot \in Snapshots /\ NoView \in Snapshots
  BY SnapshotType, DemoAssumption DEF PageInv, NoView, Snapshots, Statuses
<1>3. ASSUME UNCHANGED jobs PROVE HonestStep
  BY <1>3 DEF HonestStep
<1>4. ASSUME NEW j, NEW s \in Steps \ {"posted", "submitted"}, jobs' = [jobs EXCEPT ![j] = s]
      PROVE  HonestStep /\ jobs' \in [Key -> Steps]
  BY <1>0, <1>4 DEF HonestStep, PageTypes
<1>5. /\ {"none", "progress", "train", "submit", "error"} \subseteq Steps \ {"posted", "submitted"}
      /\ {"posted", "submitted"} \subseteq Steps
  BY DEF Steps
<1>6. ASSUME NEW s, Show(s) PROVE HonestStep /\ jobs' \in [Key -> Steps]
  BY <1>0, <1>3, <1>4, <1>5, <1>6 DEF Show, PageTypes
<1>7. CASE Environment \/ UNCHANGED pageVars
  BY <1>0, <1>3, <1>7 DEF Environment, page, pageVars, PageTypes, HonestStep
<1>8. CASE Push \/ Answer \/ Arrive
  <2>1. CASE Push
    BY <1>0, <1>2, <1>6, <2>1 DEF Push, Show, PageTypes
  <2>2. CASE Answer
    BY <1>0, <1>2, <1>3, <2>2 DEF Answer, PageTypes
  <2>3. CASE Arrive
    BY <1>0, <1>2, <1>6, <2>3 DEF Arrive, Show, PageTypes
  <2> QED
    BY <1>8, <2>1, <2>2, <2>3
<1>9. CASE Retry
  BY <1>0, <1>4, <1>5, <1>9 DEF Retry, PageTypes
<1>10. CASE Reload
  BY <1>0, <1>2, <1>5, <1>10 DEF Reload, PageTypes, HonestStep
<1>11. ASSUME NEW k \in Key, NEW t \in Thread, ReportProgress(k, t) PROVE Good
  BY <1>0, <1>4, <1>5, <1>11 DEF ReportProgress, PageTypes
<1>12. ASSUME NEW k \in Key, Train(k) \/ Lose(k) PROVE Good
  BY <1>0, <1>4, <1>5, <1>12 DEF Train, Lose, PageTypes
<1>13. ASSUME NEW k \in Key, NEW t \in Thread, Submit(k, t) PROVE Good
  <2>1. CASE Fits(k)
    <3>1. PICK w \in Width : SubmitUpdate(t, Me, w)
      BY <1>13, <2>1 DEF Submit
    <3>2. jobs' = [jobs EXCEPT ![k] = "posted"]
      BY <1>13, <2>1 DEF Submit
    <3>3. thread'[t] = [at |-> "record", who |-> Me, width |-> w, trained |-> run.round]
      BY <3>1 DEF SubmitUpdate, Goto, PageInv, IInv, TypeOK
    <3>4. k.round = run.round /\ k.rev = run.round - 1
      BY <2>1 DEF Fits, MaySubmit, PageInv, IInv, Chained
    <3>5. BeingRecorded(k)' /\ k.rev = k.round - 1
      BY <3>3, <3>4 DEF BeingRecorded
    <3> QED
      BY <1>0, <1>5, <1>13, <3>2, <3>5 DEF Submit, PageTypes, HonestStep
  <2>2. CASE ~ Fits(k)
    BY <1>0, <1>4, <1>5, <1>13, <2>2 DEF Submit, PageTypes
  <2> QED
    BY <2>1, <2>2
<1>14. ASSUME NEW k \in Key, Answered(k) PROVE Good
  BY <1>0, <1>5, <1>14 DEF Answered, PageTypes, HonestStep
<1>15. ASSUME NEW k \in Key, NEW t \in Thread, HandleOrphan(k, t) PROVE Good
  BY <1>0, <1>3, <1>15 DEF HandleOrphan, PageTypes
<1> QED
  BY <1>7, <1>8, <1>9, <1>10, <1>11, <1>12, <1>13, <1>14, <1>15 DEF PageNext, Work

\* A job that says submitted has its update with the service, for its round and
\* trained from that round's revision, however late its request was handled, in every
\* behaviour whose requests do not overlap.
THEOREM JobsTell == PageSpec /\ [][NoOverlap]_vars => []JobsTellService
<1>1. PageInv /\ [PageNext]_pageVars /\ [NoOverlap]_vars => PageInv'
  BY NextPageInv
<1>2. PageInv => JobsTellService
  BY DEF PageInv
<1> QED
  BY <1>1, <1>2, InitPageInv, PTL DEF PageSpec
=============================================================================
