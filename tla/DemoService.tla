---------------------------- MODULE DemoService ----------------------------
(***************************************************************************)
(* FederatedDemoService (lensemble.demo.federated): one run of the browser *)
(* demo.  Browsers join, are assigned rounds, submit updates, time out and *)
(* come back; the host starts, expires, drops, aborts; a round is averaged *)
(* when everyone it waits for has submitted.                               *)
(*                                                                         *)
(* ThreadingHTTPServer serves every request in a thread of its own and     *)
(* nothing locks the run, so a request is a sequence of steps: it is cut   *)
(* where a decision has been made and is acted upon later.  Thread is the  *)
(* set of requests in flight at once; with one thread requests never       *)
(* overlap, as in the service's tests.  A refused request changes nothing. *)
(***************************************************************************)
EXTENDS Integers, Sequences, FiniteSets

CONSTANTS
  Client,          \* browsers, by their session
  Thread,          \* requests that may be in flight at once
  Width,           \* lengths of a submitted vector
  MaxParticipants, \* config.max_participants
  Quorum,          \* config.quorum
  Rounds           \* config.rounds

ASSUME DemoAssumption ==
  /\ IsFiniteSet(Client) /\ IsFiniteSet(Thread)
  /\ MaxParticipants \in Nat \ {0}
  /\ Quorum \in 1..MaxParticipants
  /\ Rounds \in Nat \ {0}

VARIABLES
  run,       \* run.state and run.round
  part,      \* run.participants: state, round and update_metadata of each
  silent,    \* participants whose last heartbeat is older than the timeout
  revisions, \* run.model_revisions
  thread     \* what each request in flight does next

vars == <<run, part, silent, revisions, thread>>

RunStates == {"created", "joining", "ready", "running_round", "aggregating",
              "paused", "completed", "aborted", "failed"}
Terminal == {"completed", "aborted", "failed"}

\* Participants that can still be assigned, and that refresh_liveness looks at.
Live == {"ready", "assigned", "training", "submitted"}
Statuses == {"absent", "completed", "dropped", "error"} \cup Live

At(step) == [at |-> step]

Goto(t, local) == thread' = [thread EXCEPT ![t] = local]

Begins(t) == thread[t] = At("idle")

-----------------------------------------------------------------------------
(***************************************************************************)
(* Participants.                                                           *)
(***************************************************************************)
Joined == {p \in Client : part[p].status # "absent"}

Active(pt) == {p \in Client : pt[p].status \in Live \cup {"completed"}}

Enough(pt) == Cardinality(Active(pt)) >= Quorum

HasSubmitted(pt, p, r) == \E u \in pt[p].updates : u.round = r

AssignedTo(pt, r) == {p \in Active(pt) : pt[p].round = r}

Submitted(pt, r) == {p \in AssignedTo(pt, r) : HasSubmitted(pt, p, r)}

ReadyToClose(pt, r) ==
  /\ Cardinality(Submitted(pt, r)) >= Quorum
  /\ Submitted(pt, r) = AssignedTo(pt, r)

WithStatus(pt, ps, s) ==
  [p \in Client |-> IF p \in ps THEN [pt[p] EXCEPT !.status = s] ELSE pt[p]]

Assigning(pt, ps, r) ==
  [p \in Client |->
     IF p \in ps THEN [pt[p] EXCEPT !.status = "assigned", !.round = r] ELSE pt[p]]

Init ==
  /\ run = [state |-> "created", round |-> 0]
  /\ part = [p \in Client |-> [status |-> "absent", round |-> 0, updates |-> {}]]
  /\ silent = {} /\ revisions = <<>>
  /\ thread = [t \in Thread |-> At("idle")]

\* No request of p for longer than the timeout, which is long against a request.
GoSilent(p) ==
  /\ \A t \in Thread : thread[t] = At("idle")
  /\ part[p].status \in Live
  /\ run.state \notin Terminal
  /\ silent' = silent \cup {p}
  /\ UNCHANGED <<run, part, revisions, thread>>

-----------------------------------------------------------------------------
(***************************************************************************)
(* Pausing and resuming.                                                   *)
(***************************************************************************)

\* Who a resumed round waits for: everyone present without a submission.
MissingIn(pt, r) == {p \in Active(pt) : pt[p].status \in Live /\ ~ HasSubmitted(pt, p, r)}

\* Mutant: a revived participant is left for the next round.
ResumeWithoutRevived(t, pt) ==
  LET missing == {p \in MissingIn(pt, run.round) : pt[p].status # "ready"}
      resumed == Assigning(pt, missing, run.round)
  IN  /\ run' = [run EXCEPT !.state = "running_round"]
      /\ part' = resumed
      /\ Goto(t, At(IF ReadyToClose(resumed, run.round) THEN "close" ELSE "refresh"))

Resume(t, pt) ==
  LET resumed == Assigning(pt, MissingIn(pt, run.round), run.round)
  IN  /\ run' = [run EXCEPT !.state = "running_round"]
      /\ part' = resumed
      /\ Goto(t, At(IF ReadyToClose(resumed, run.round) THEN "close" ELSE "refresh"))

\* The participants become pt; a paused run that has its quorum again resumes.
MaybeResume(t, pt) ==
  IF run.state = "paused" /\ Enough(pt)
  THEN Resume(t, pt)
  ELSE part' = pt /\ UNCHANGED run /\ Goto(t, At("refresh"))

\* A browser that is new to the run; also a paused run takes it in.
Join(t, p) ==
  LET pt == [part EXCEPT ![p].status = "ready"] IN
  /\ Begins(t)
  /\ part[p].status = "absent"
  /\ Cardinality(Joined) < MaxParticipants
  /\ \/ run.state = "paused" /\ MaybeResume(t, pt)
     \/ /\ run.state \in {"created", "joining", "ready"}
        /\ part' = pt
        /\ run' = [run EXCEPT !.state = IF run.state # "ready" /\ ~ Enough(pt)
                                        THEN "joining" ELSE "ready"]
        /\ Goto(t, At("refresh"))
  /\ UNCHANGED <<silent, revisions>>

\* Mutant: only a join resumes the run.
HeartbeatRevives(t, p) ==
  /\ Begins(t)
  /\ p \in Joined
  /\ part' = IF run.state = "paused" /\ part[p].status = "dropped"
             THEN [part EXCEPT ![p].status = "ready"] ELSE part
  /\ silent' = silent \ {p}
  /\ Goto(t, At("refresh"))
  /\ UNCHANGED <<run, revisions>>

\* A heartbeat, a connection that opens, or a join with a known session: in a
\* paused run it brings a dropped participant back, whoever dropped it.
Heartbeat(t, p) ==
  /\ Begins(t)
  /\ p \in Joined
  /\ IF run.state = "paused" /\ part[p].status = "dropped"
     THEN MaybeResume(t, [part EXCEPT ![p].status = "ready"])
     ELSE Goto(t, At("refresh")) /\ UNCHANGED <<run, part>>
  /\ silent' = silent \ {p}
  /\ UNCHANGED revisions

-----------------------------------------------------------------------------
(***************************************************************************)
(* A round: assignment, submission, close.                                 *)
(***************************************************************************)
AssignRound(r) ==
  /\ run' = [state |-> "running_round", round |-> r]
  /\ part' = Assigning(part, {p \in Client : part[p].status \in {"ready", "submitted"}}, r)

Start(t) ==
  /\ Begins(t)
  /\ run.state = "ready" /\ Enough(part)
  /\ AssignRound(1)
  /\ Goto(t, At("refresh"))
  /\ UNCHANGED <<silent, revisions>>

MaySubmit(p) ==
  /\ run.state = "running_round" /\ part[p].round = run.round
  /\ part[p].status \in {"assigned", "training"}

Progress(t, p) ==
  /\ Begins(t) /\ MaySubmit(p)
  /\ part' = [part EXCEPT ![p].status = "training"]
  /\ silent' = silent \ {p}
  /\ Goto(t, At("refresh"))
  /\ UNCHANGED <<run, revisions>>

\* The request passes every check: the artifact is for the active round and its
\* revision.  Recording it comes after parsing, norms and hashes.
SubmitUpdate(t, p, w) ==
  /\ Begins(t) /\ MaySubmit(p) /\ ~ HasSubmitted(part, p, run.round)
  /\ Goto(t, [at |-> "record", who |-> p, width |-> w, trained |-> run.round])
  /\ UNCHANGED <<run, part, silent, revisions>>

\* submitted_rounds.add(run.round): the round is read again.
RecordUpdate(t) ==
  LET l == thread[t]
      u == [round |-> run.round, width |-> l.width, trained |-> l.trained]
  IN  /\ l.at = "record"
      /\ part' = [part EXCEPT
           ![l.who].updates = {v \in @ : v.round # run.round} \cup {u},
           ![l.who].status = "submitted"]
      /\ silent' = silent \ {l.who}
      /\ Goto(t, At("decide"))
      /\ UNCHANGED <<run, revisions>>

Decide(t) ==
  /\ thread[t] = At("decide")
  /\ Goto(t, At(IF ReadyToClose(part, run.round) THEN "close" ELSE "refresh"))
  /\ UNCHANGED <<run, part, silent, revisions>>

\* Mutant: submitted[:quorum] contributes, later submissions do not.
CloseAtQuorum(t) ==
  /\ thread[t] = At("close")
  /\ \E who \in SUBSET Submitted(part, run.round) :
       /\ Cardinality(who) = Quorum
       /\ run' = [run EXCEPT !.state = "aggregating"]
       /\ Goto(t, [at |-> "aggregate", who |-> who])
  /\ UNCHANGED <<part, silent, revisions>>

\* _close_round fixes who contributes; without a quorum it raises.
Close(t) ==
  LET who == Submitted(part, run.round) IN
  /\ thread[t] = At("close")
  /\ IF Cardinality(who) >= Quorum
     THEN /\ run' = [run EXCEPT !.state = "aggregating"]
          /\ Goto(t, [at |-> "aggregate", who |-> who])
     ELSE Goto(t, At("idle")) /\ UNCHANGED run
  /\ UNCHANGED <<part, silent, revisions>>

UpdatesOf(ps, r) == {u \in UNION {part[p].updates : p \in ps} : u.round = r}

\* Mutant: when there is no mean the round is passed without a revision.
AggregateOrPass(t) ==
  LET who == thread[t].who
      us  == UpdatesOf(who, run.round)
  IN  /\ thread[t].at = "aggregate"
      /\ IF /\ \A p \in who : HasSubmitted(part, p, run.round)
            /\ \A u, v \in us : u.width = v.width
         THEN Goto(t, [at |-> "publish", who |-> who, parent |-> Len(revisions),
                       trained |-> {u.trained : u \in us}])
         ELSE Goto(t, At("advance"))
      /\ UNCHANGED <<run, part, silent, revisions>>

\* The mean: it raises when a contributor has no update of run.round or the
\* lengths differ, and leaves the run aggregating.
Aggregate(t) ==
  LET who == thread[t].who
      us  == UpdatesOf(who, run.round)
  IN  /\ thread[t].at = "aggregate"
      /\ IF /\ \A p \in who : HasSubmitted(part, p, run.round)
            /\ \A u, v \in us : u.width = v.width
         THEN Goto(t, [at |-> "publish", who |-> who, parent |-> Len(revisions),
                       trained |-> {u.trained : u \in us}])
         ELSE Goto(t, At("idle"))
      /\ UNCHANGED <<run, part, silent, revisions>>

\* The revision is appended and becomes the current one.  Its parent is the
\* revision that was current before; out, for the properties only, holds those
\* who submitted for the round and are not there any more.
Publish(t) ==
  LET l == thread[t] IN
  /\ l.at = "publish"
  /\ revisions' = Append(revisions,
       [round |-> run.round, parent |-> l.parent, who |-> l.who, trained |-> l.trained,
        out |-> {p \in Client \ Active(part) : HasSubmitted(part, p, run.round)}])
  /\ Goto(t, At("advance"))
  /\ UNCHANGED <<run, part, silent>>

\* The participants when the last round has closed.
Finished ==
  [p \in Client |->
     CASE p \in Active(part) /\ HasSubmitted(part, p, run.round)
            -> [part[p] EXCEPT !.status = "completed"]
       [] part[p].status \in {"assigned", "training"} /\ ~ HasSubmitted(part, p, run.round)
            -> [part[p] EXCEPT !.status = "dropped"]
       [] OTHER -> part[p]]

\* The next round, or the end of the run; not_ready leaves it aggregating.
Advance(t) ==
  /\ thread[t] = At("advance")
  /\ \/ /\ run.round < Rounds /\ Enough(part)
        /\ AssignRound(run.round + 1) /\ Goto(t, At("refresh"))
     \/ /\ run.round < Rounds /\ ~ Enough(part)
        /\ Goto(t, At("idle")) /\ UNCHANGED <<run, part>>
     \/ /\ run.round >= Rounds
        /\ run' = [run EXCEPT !.state = "completed"] /\ part' = Finished
        /\ Goto(t, At("refresh"))
  /\ UNCHANGED <<silent, revisions>>

-----------------------------------------------------------------------------
(***************************************************************************)
(* Timeouts, the host's controls, and the end of every request.            *)
(***************************************************************************)

\* Mutant: as in refresh_liveness, nobody closes the round of those who are left.
ExpireUnclosed(t) ==
  LET late == {p \in AssignedTo(part, run.round) : part[p].status \in {"assigned", "training"}}
      pt   == WithStatus(part, late, "dropped")
  IN  /\ Begins(t)
      /\ run.state = "running_round"
      /\ part' = pt /\ silent' = silent \ late
      /\ run' = [run EXCEPT !.state = IF Enough(pt) THEN @ ELSE "paused"]
      /\ Goto(t, At("refresh"))
      /\ UNCHANGED revisions

\* The host gives up on the missing: the round closes, or the run pauses.
ExpireMissing(t) ==
  LET late == {p \in AssignedTo(part, run.round) : part[p].status \in {"assigned", "training"}}
      pt   == WithStatus(part, late, "dropped")
  IN  /\ Begins(t)
      /\ run.state = "running_round"
      /\ part' = pt /\ silent' = silent \ late
      /\ IF ReadyToClose(pt, run.round)
         THEN Goto(t, At("close")) /\ UNCHANGED run
         ELSE Goto(t, At("refresh")) /\ run' = [run EXCEPT !.state = "paused"]
      /\ UNCHANGED revisions

\* The host drops one participant, in any state of it or of the run.
DropParticipant(t, p) ==
  LET pt == WithStatus(part, {p}, "dropped") IN
  /\ Begins(t)
  /\ p \in Joined
  /\ part' = pt /\ silent' = silent \ {p}
  /\ \/ /\ run.state = "running_round" /\ ~ Enough(pt)
        /\ run' = [run EXCEPT !.state = "paused"] /\ Goto(t, At("refresh"))
     \/ /\ run.state = "running_round" /\ Enough(pt) /\ ReadyToClose(pt, run.round)
        /\ Goto(t, At("close")) /\ UNCHANGED run
     \/ /\ run.state \in {"joining", "ready"} /\ ~ Enough(pt)
        /\ run' = [run EXCEPT !.state = "joining"] /\ Goto(t, At("refresh"))
     \/ /\ run.state = "running_round" => Enough(pt) /\ ~ ReadyToClose(pt, run.round)
        /\ run.state \in {"joining", "ready"} => Enough(pt)
        /\ Goto(t, At("refresh")) /\ UNCHANGED run
  /\ UNCHANGED revisions

Stop(t, state, status) ==
  /\ Begins(t)
  /\ run.state \notin Terminal
  /\ run' = [run EXCEPT !.state = state]
  /\ part' = WithStatus(part, Active(part), status)
  /\ silent' = {}
  /\ Goto(t, At("refresh"))
  /\ UNCHANGED revisions

AbortRun(t) == Stop(t, "aborted", "dropped")

FailRun(t) == Stop(t, "failed", "error")

\* refresh_liveness, at the end of every request and of every poll: it drops who
\* has timed out and pauses below the quorum.  It never closes a round.
Refresh(t) ==
  LET pt == WithStatus(part, silent, "dropped") IN
  /\ thread[t] \in {At("idle"), At("refresh")}
  /\ IF run.state \in Terminal THEN UNCHANGED <<run, part, silent>>
     ELSE /\ part' = pt /\ silent' = {}
          /\ run' = IF run.state = "running_round" /\ ~ Enough(pt)
                    THEN [run EXCEPT !.state = "paused"] ELSE run
  /\ Goto(t, At("idle"))
  /\ UNCHANGED revisions

-----------------------------------------------------------------------------
\* One route of the API each.
Request(t) ==
  \/ Start(t) \/ ExpireMissing(t) \/ AbortRun(t) \/ FailRun(t)
  \/ \E p \in Client : \/ Join(t, p) \/ Heartbeat(t, p) \/ Progress(t, p)
                       \/ DropParticipant(t, p)
                       \/ \E w \in Width : SubmitUpdate(t, p, w)

Continue(t) ==
  \/ RecordUpdate(t) \/ Decide(t) \/ Close(t) \/ Aggregate(t) \/ Publish(t)
  \/ Advance(t) \/ Refresh(t)

Next ==
  \/ \E t \in Thread : Request(t) \/ Continue(t)
  \/ \E p \in Client : GoSilent(p)

Spec == Init /\ [][Next]_vars

\* Requests run to their end, the host expires, and browsers send heartbeats.
FairSpec ==
  /\ Spec
  /\ \A t \in Thread : /\ WF_vars(Continue(t))
                       /\ SF_vars(ExpireMissing(t))
                       /\ \A p \in Client : SF_vars(Heartbeat(t, p))

-----------------------------------------------------------------------------
(***************************************************************************)
(* Properties.                                                             *)
(***************************************************************************)
Round == 0..Rounds

Update == [round: Round, width: Width, trained: Round]

Participant == [status: Statuses, round: Round, updates: SUBSET Update]

Revision == [round: Round, parent: Nat, who: SUBSET Client, trained: SUBSET Round,
             out: SUBSET Client]

\* The types of the variables.
TypeOK ==
  /\ run \in [state: RunStates, round: Round]
  /\ part \in [Client -> Participant]
  /\ silent \subseteq Client
  /\ revisions \in Seq(Revision)
  /\ DOMAIN thread = Thread
  /\ \A t \in Thread : LET l == thread[t] IN
       \/ l \in {At(s) : s \in {"idle", "decide", "close", "advance", "refresh"}}
       \/ l.at = "record"
            /\ l \in [at: {"record"}, who: Client, width: Width, trained: Round]
       \/ l.at = "aggregate" /\ l \in [at: {"aggregate"}, who: SUBSET Client]
       \/ l.at = "publish"
            /\ l \in [at: {"publish"}, who: SUBSET Client, parent: Nat,
                      trained: SUBSET Round]

Quiet == \A t \in Thread : thread[t] = At("idle")

\* A running round has a quorum of participants, all of them are in it, and each
\* has submitted or still may: nobody is waited for in vain, whoever was dropped,
\* revived or taken in on the way.  A paused run lacks its quorum.
RoundIsStaffed ==
  Quiet =>
    /\ run.state = "running_round" =>
         /\ Enough(part)
         /\ \A p \in Active(part) : /\ part[p].round = run.round
                                    /\ HasSubmitted(part, p, run.round) \/ MaySubmit(p)
    /\ run.state = "paused" => ~ Enough(part)

\* The service's docstring has "state[r] = state[r-1] + mean(deltas[r])": the r-th
\* revision is the one of round r, made on top of the one before, out of a quorum of
\* updates trained for r.  So it is while requests do not overlap.
RevisionsAreChained ==
  /\ \A i \in 1..Len(revisions) :
       /\ revisions[i].round = i /\ revisions[i].parent = i - 1
       /\ Cardinality(revisions[i].who) >= Quorum
       /\ revisions[i].trained = {i}
  /\ Quiet /\ run.state \in {"running_round", "paused"} => Len(revisions) = run.round - 1
  /\ run.state = "completed" => Len(revisions) = Rounds

\* However requests overlap, no round is passed without a mean: the run is at most one
\* round ahead of its revisions and completed only with as many as it has rounds; and
\* each revision is of no earlier round than the one before, out of a quorum's updates
\* none of which was trained for a later round.
RoundsAreAveraged ==
  /\ run.round - 1 <= Len(revisions)
  /\ run.state = "completed" => Rounds <= Len(revisions)
  /\ \A i \in 1..Len(revisions) :
       /\ \A j \in 1..i : revisions[j].round <= revisions[i].round
       /\ Cardinality(revisions[i].who) >= Quorum
       /\ revisions[i].trained # {}
       /\ \A r \in revisions[i].trained : r <= revisions[i].round

\* An accepted update is averaged in its round unless its sender was gone when the
\* round closed: also of a participant dropped and revived in between, and never
\* in a round that was closed before.
SubmissionCounts ==
  \A i \in 1..Len(revisions) :
    {p \in Client : HasSubmitted(part, p, i)} = revisions[i].who \cup revisions[i].out

\* Updates of different lengths cannot be averaged, and nothing replaces one.
LengthsDiffer(r) ==
  \E u, v \in UpdatesOf(Client, r) : u.width # v.width

\* With a host that expires the missing, a round that runs is closed, or the run
\* is paused or over, unless the submitted lengths differ.
RoundEnds ==
  \A r \in 1..Rounds :
    run.state = "running_round" /\ run.round = r
      ~> \/ Len(revisions) >= r \/ run.state = "paused" \/ run.state \in Terminal
         \/ LengthsDiffer(r)

NobodyDropped ==
  \A p \in Client : part'[p].status = "dropped" => part[p].status = "dropped"

\* When participants come back and none of them is dropped again, a paused run
\* does not stay paused.
PausedResumes ==
  <>[][NobodyDropped]_vars => (run.state = "paused" ~> run.state # "paused")
=============================================================================
