------------------------- MODULE CoordinatorService -------------------------
(***************************************************************************)
(* Phase3CoordinatorService (lensemble.federation.service): governed       *)
(* admission, round assignment, update submission, dropout and timeout     *)
(* policy, operator abort, close with retries, and the round events of the *)
(* trace.                                                                  *)
(*                                                                         *)
(* The service calls the round engine synchronously, so an operation of    *)
(* the service is one step, and an attempt is what module RoundEngine says *)
(* its caller sees: the commit of the staged updates, ABORTED returned     *)
(* below the quorum K, or an exception, after which the round may be past  *)
(* recovery (engineStuck).  Operations that only add a participant event   *)
(* to the trace are stuttering steps; so is a heartbeat, which records a   *)
(* round number that no other operation reads.                             *)
(***************************************************************************)
EXTENDS Integers, Sequences, FiniteSets

CONSTANTS
  Trainer,            \* the manifest's trainers
  Delta,              \* pseudo-gradients of the model's length
  Malformed,          \* pseudo-gradients of another length
  MinParticipants,    \* federation.fault_tolerance_min_participants
  SecureAggThreshold, \* federation.secure_agg_threshold
  RetryBudget,        \* manifest.runtime.dropout_retry_budget
  BudgetContributors, \* most contributors one round's DP budget admits
  EngineFaults,       \* how an attempt may fail: "raises", "stuck"
  MaxRounds           \* bound: rounds closed

ASSUME ServiceAssumption ==
  /\ MinParticipants \in Nat \ {0}
  /\ SecureAggThreshold \in Nat \ {0}
  /\ RetryBudget \in Nat
  /\ BudgetContributors \in Nat
  /\ Delta \cap Malformed = {}
  /\ EngineFaults \subseteq {"raises", "stuck"}
  /\ MaxRounds \in Nat

VARIABLES
  member,        \* _participants: the runtime state of each trainer
  admissionOpen, \* _admission_open
  abortedRounds, \* _aborted_rounds
  retries,       \* _retry_counts of the current round
  staged,        \* the updates the transport holds
  chain,         \* the commits of the coordinator, oldest first
  engineStuck,   \* every later attempt of this round raises
  trace          \* the round events of the trace

engine == <<staged, chain, engineStuck>>
vars   == <<member, admissionOpen, abortedRounds, retries, engine, trace>>

None == -1

Statuses == {"declared", "joined", "assigned", "updated", "dropped", "rejected"}

\* coordinator.global_state().round_index
Round == Len(chain)

Max2(a, b) == IF a >= b THEN a ELSE b

\* K, the quorum the engine enforces.
Quorum == Max2(MinParticipants, SecureAggThreshold)

\* Mutant: whoever is marked dropped is filtered out at close.
CollectedPresent(t) ==
  {u \in staged : u.round = t /\ member[u.who].status # "dropped"}

Collected(t) == {u \in staged : u.round = t}

Contributors(us) == {u.who : u \in us}

RoundEvent(event, t, who) == [event |-> event, round |-> t, who |-> who]

DeclaredTrainer == [status |-> "declared", joined |-> FALSE, assigned |-> None,
                    dropped |-> None, submitted |-> {}]

Init ==
  /\ member = [p \in Trainer |-> DeclaredTrainer]
  /\ admissionOpen = TRUE
  /\ abortedRounds = {}
  /\ retries = 0
  /\ staged = {} /\ chain = <<>> /\ engineStuck = FALSE
  /\ trace = {}

-----------------------------------------------------------------------------
\* A join after admission closed marks the participant rejected, whoever it is.
Join(p) ==
  /\ ~ admissionOpen \/ ~ member[p].joined
  /\ member' = IF admissionOpen
               THEN [member EXCEPT ![p].joined = TRUE, ![p].status = "joined"]
               ELSE [member EXCEPT ![p].status = "rejected"]
  /\ UNCHANGED <<admissionOpen, abortedRounds, retries, engine, trace>>

CloseAdmission ==
  /\ admissionOpen' = FALSE
  /\ UNCHANGED <<member, abortedRounds, retries, engine, trace>>

\* Admission closes even when the round turns out to be aborted.
AssignRound(p) ==
  /\ member[p].joined
  /\ admissionOpen' = FALSE
  /\ member' = IF Round \in abortedRounds THEN member
               ELSE [member EXCEPT ![p].assigned = Round, ![p].status = "assigned"]
  /\ UNCHANGED <<abortedRounds, retries, engine, trace>>

\* Unassigned, wrong-round and duplicate updates are rejected; the vector's
\* length, the participant's status and an abort of the round are not looked at.
SubmitUpdate(p, d) ==
  /\ member[p].joined
  /\ member[p].assigned = Round
  /\ Round \notin member[p].submitted
  /\ staged' = staged \cup {[who |-> p, round |-> Round, delta |-> d]}
  /\ member' = [member EXCEPT ![p].submitted = @ \cup {Round}, ![p].status = "updated"]
  /\ UNCHANGED <<admissionOpen, abortedRounds, retries, chain, engineStuck, trace>>

MarkDropout(p) ==
  /\ member[p].joined
  /\ member' = [member EXCEPT ![p].status = "dropped", ![p].dropped = Round]
  /\ UNCHANGED <<admissionOpen, abortedRounds, retries, engine, trace>>

AbortRound ==
  /\ abortedRounds' = abortedRounds \cup {Round}
  /\ trace' = trace \cup {RoundEvent("aborted", Round, {})}
  /\ UNCHANGED <<member, admissionOpen, retries, engine>>

-----------------------------------------------------------------------------
(***************************************************************************)
(* close_round: absent participants are timed out, then the engine         *)
(* attempts the round once.                                                *)
(***************************************************************************)
RecordTimeouts ==
  member' = [p \in Trainer |->
    IF /\ member[p].assigned = Round
       /\ Round \notin member[p].submitted
       /\ member[p].dropped # Round
    THEN [member[p] EXCEPT !.status = "dropped", !.dropped = Round]
    ELSE member[p]]

WellFormed(us) == \A u \in us : u.delta \in Delta

\* What try_round and the rest of close_round do when the quorum is there.
CommitStaged(event) ==
  /\ ~ engineStuck
  /\ WellFormed(Collected(Round))
  /\ Cardinality(Contributors(Collected(Round))) >= Quorum
  /\ RecordTimeouts
  /\ chain' = Append(chain, Collected(Round))
  /\ retries' = 0
  /\ trace' = trace \cup event
  /\ UNCHANGED <<admissionOpen, abortedRounds, staged, engineStuck>>

ClosedEvent ==
  {RoundEvent("closed", Round, Contributors(Collected(Round)))}

\* Mutant: the operator's abort is not looked at.
CloseCommitsAborted == CommitStaged(ClosedEvent)

\* Mutant: the event is recorded before the report is built.
CloseCommitsTraced == Round \notin abortedRounds /\ CommitStaged(ClosedEvent)

\* try_round commits; the privacy report is built from the updates afterwards
\* and, when it raises, neither the event nor the return value happens.
CloseCommits ==
  /\ Round \notin abortedRounds
  /\ CommitStaged(IF Cardinality(Collected(Round)) <= BudgetContributors
                  THEN ClosedEvent ELSE {})

\* Mutant: the retry is announced but not counted.
CloseBelowQuorumUncounted ==
  LET us == Collected(Round) IN
  /\ Round \notin abortedRounds
  /\ ~ engineStuck
  /\ WellFormed(us) /\ Cardinality(Contributors(us)) < Quorum
  /\ RecordTimeouts
  /\ IF retries < RetryBudget
     THEN /\ trace' = trace \cup {RoundEvent("retry", Round, {})}
          /\ UNCHANGED <<retries, abortedRounds>>
     ELSE /\ abortedRounds' = abortedRounds \cup {Round}
          /\ trace' = trace \cup {RoundEvent("aborted", Round, {})}
          /\ UNCHANGED retries
  /\ UNCHANGED <<admissionOpen, engine>>

\* Below K: a retry while the budget lasts, then the round is given up.
CloseBelowQuorum ==
  LET us == Collected(Round) IN
  /\ Round \notin abortedRounds
  /\ ~ engineStuck
  /\ WellFormed(us) /\ Cardinality(Contributors(us)) < Quorum
  /\ RecordTimeouts
  /\ IF retries < RetryBudget
     THEN /\ retries' = retries + 1
          /\ trace' = trace \cup {RoundEvent("retry", Round, {})}
          /\ UNCHANGED abortedRounds
     ELSE /\ abortedRounds' = abortedRounds \cup {Round}
          /\ trace' = trace \cup {RoundEvent("aborted", Round, {})}
          /\ UNCHANGED retries
  /\ UNCHANGED <<admissionOpen, engine>>

\* The attempt raises through close_round: no retry is counted.  Only an attempt
\* past the quorum can leave the engine stuck.
CloseRaises ==
  LET us == Collected(Round) IN
  /\ Round \notin abortedRounds
  /\ RecordTimeouts
  /\ \/ engineStuck /\ UNCHANGED engineStuck
     \/ ~ WellFormed(us) /\ UNCHANGED engineStuck
     \/ "raises" \in EngineFaults /\ UNCHANGED engineStuck
     \/ /\ "stuck" \in EngineFaults
        /\ WellFormed(us) /\ Cardinality(Contributors(us)) >= Quorum
        /\ engineStuck' = TRUE
  /\ UNCHANGED <<admissionOpen, abortedRounds, retries, staged, chain, trace>>

CloseRound == CloseCommits \/ CloseBelowQuorum \/ CloseRaises

-----------------------------------------------------------------------------
Next ==
  /\ Round < MaxRounds
  /\ \/ \E p \in Trainer :
          \/ Join(p) \/ AssignRound(p) \/ MarkDropout(p)
          \/ \E d \in Delta \cup Malformed : SubmitUpdate(p, d)
     \/ CloseAdmission \/ AbortRound \/ CloseRound

Spec == Init /\ [][Next]_vars

\* The driver of the run keeps closing, and an attempt does not raise for ever
\* when it need not.
FairSpec == Spec /\ WF_vars(CloseRound) /\ SF_vars(CloseCommits \/ CloseBelowQuorum)

-----------------------------------------------------------------------------
(***************************************************************************)
(* Properties.                                                             *)
(***************************************************************************)

\* The types of the variables.
TypeOK ==
  /\ member \in [Trainer -> [status: Statuses, joined: BOOLEAN,
                             assigned: Nat \cup {None}, dropped: Nat \cup {None},
                             submitted: SUBSET Nat]]
  /\ admissionOpen \in BOOLEAN /\ engineStuck \in BOOLEAN
  /\ abortedRounds \subseteq Nat /\ retries \in Nat
  /\ \A u \in staged : /\ u.who \in Trainer /\ u.round \in Nat
                      /\ u.delta \in Delta \cup Malformed
  /\ chain \in Seq(SUBSET staged)
  /\ \A e \in trace : /\ e.event \in {"closed", "retry", "aborted"}
                     /\ e.round \in Nat /\ e.who \subseteq Trainer

\* submit_update's promise to a participant: an update accepted for a round is
\* in that round's outer step if the round commits at all, also when its sender
\* is timed out, dropped or rejected in between; and nothing else is in it.
AcceptedIsAveraged ==
  \A i \in 1..Len(chain) :
    /\ Contributors(chain[i]) = {p \in Trainer : (i - 1) \in member[p].submitted}
    /\ Cardinality(chain[i]) = Cardinality(Contributors(chain[i]))

\* An aborted round stays aborted: whatever arrives afterwards, it is never
\* committed and no later round is opened, so only the last round is aborted.
AbortEndsRun == \A t \in abortedRounds : t = Round

\* The trace tells the run: a round has a closed event, naming exactly the
\* ledger's contributors, when it was committed and its privacy report could be
\* built, and an aborted event exactly when it was given up.
TraceTellsRun ==
  /\ \A t \in 0..MaxRounds : \A who \in SUBSET Trainer :
       RoundEvent("closed", t, who) \in trace
         <=> /\ t < Len(chain) /\ who = Contributors(chain[t + 1])
             /\ Cardinality(who) <= BudgetContributors
  /\ abortedRounds = {e.round : e \in {f \in trace : f.event = "aborted"}}

\* Whoever contributes to any round was admitted before the first assignment:
\* once a participant has been assigned a round, the consortium is fixed.
ConsortiumFixed ==
  [][(\E p \in Trainer : member[p].assigned # None)
       => \A p \in Trainer : member'[p].joined = member[p].joined]_vars

\* With the driver closing again and again, every assigned round is committed or
\* given up, unless each attempt must raise: an update of another length is
\* staged, or a failed reduction has left the engine stuck.
AssignedRoundEnds ==
  \A t \in 0..(MaxRounds - 1) : \A p \in Trainer :
    member[p].assigned = t
      ~> Round > t \/ t \in abortedRounds \/ engineStuck \/ ~ WellFormed(Collected(t))
=============================================================================
