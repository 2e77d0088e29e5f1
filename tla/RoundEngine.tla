---------------------------- MODULE RoundEngine ----------------------------
(***************************************************************************)
(* The DiLoCo coordinator of lensemble.federation: Coordinator (the body   *)
(* of one outer round and its two drivers, run and try_round), RoundDriver *)
(* (the round's state machine), OuterOptimizer (Nesterov velocity), the    *)
(* artifact directory, the contribution ledger and the staging side of     *)
(* InProcessTransport.                                                     *)
(*                                                                         *)
(* A call of run or try_round is one thread of control; pc says where it   *)
(* is.  Participants submit at any time, between any two of its steps.     *)
(* Weights are abstracted to the sequence of contributions folded into     *)
(* them, so the params and the velocity, which fold the same averages, are *)
(* equal exactly when every committed round advanced both of them once.    *)
(***************************************************************************)
EXTENDS Naturals, Sequences, FiniteSets

CONSTANTS
  Participant,        \* participant ids
  Delta,              \* flat vectors of the manifest's length, metadata consistent
  Malformed,          \* a delta of another shape or with inconsistent metadata
  MinParticipants,    \* federation.fault_tolerance_min_participants
  SecureAggThreshold, \* federation.secure_agg_threshold
  NoHash,             \* the parent of the first artifact
  Faults,             \* the kinds of failure the environment may cause
  MaxRounds,          \* bound: rounds attempted
  MaxFaults,          \* bound: failures caused
  RunSizes            \* the arguments run() is called with

FaultKinds == {"transport", "backstop", "selfcheck", "reduction", "checkpoint", "ledger"}

ASSUME EngineAssumption ==
  /\ MinParticipants \in Nat \ {0}
  /\ SecureAggThreshold \in Nat \ {0}
  /\ Malformed \notin Delta
  /\ MaxRounds \in Nat
  /\ MaxFaults \in Nat
  /\ RunSizes \subseteq Nat \ {0}
  /\ Faults \subseteq FaultKinds

VARIABLES
  state,       \* RoundDriver.state
  round,       \* RoundDriver.round_index
  hash,        \* RoundDriver._global_hash
  params,      \* Coordinator._global_params (and _theta_weights, _phi_weights)
  velocity,    \* OuterOptimizer._velocity
  artifacts,   \* the round-XXXXX directories under artifacts_dir
  ledger,      \* ContributionLedger._records
  ledgerFile,  \* the lines of ledger.jsonl
  published,   \* the GlobalState the transport serves: its round and weights
  staged,      \* InProcessTransport._updates
  pc,          \* the statement the call in flight is at; "idle": no call
  toGo,        \* rounds left in run(); 0 in a try_round() call
  updates,     \* the validated updates of the attempt in flight
  candidate,   \* new_params, the previewed outer step
  faultsLeft   \* failures the environment may still cause

driver == <<state, round, hash>>
model  == <<params, velocity>>
disk   == <<artifacts, ledger, ledgerFile>>
call   == <<pc, toGo, updates, candidate>>
vars   == <<driver, model, disk, published, staged, call, faultsLeft>>

RoundStates == {"open", "collecting", "aggregating", "aligning", "committing",
                "closed", "aborted"}
Steps == {"idle", "begin", "collect", "probe", "align", "drift", "preview",
          "save", "append", "step", "next"}

Update   == [who: Participant, round: Nat, delta: Delta \cup {Malformed}]
Valid(t) == [who: Participant, round: {t}, delta: Delta]
Weights  == Seq(SUBSET Update)
Hash     == [round: Nat, weights: Weights]
Artifact == [dir: Nat, hash: Hash, parent: Hash \cup {NoHash}]
Record   == [round: Nat, who: SUBSET Participant, model: Hash]
Torn     == [round |-> 0, who |-> {}, model |-> [round |-> 0, weights |-> <<>>]]

-----------------------------------------------------------------------------
\* max(fault_tolerance_min_participants, secure_agg_threshold)
Quorum == IF MinParticipants >= SecureAggThreshold
          THEN MinParticipants ELSE SecureAggThreshold

\* The content hash of an artifact covers its weights, its round and its
\* parent; the weights, being the chain of contributions, determine the parent.
ContentHash(t, w) == [round |-> t, weights |-> w]

Contributors(us) == {u.who : u \in us}

Collected(t) == {u \in staged : u.round = t}

\* OuterOptimizer._compute_step: both results fold the same average.
OuterStep(w, us) == Append(w, us)

ArtifactAt(t) == \E a \in artifacts : a.dir = t
Directories == {a.dir : a \in artifacts}

Init ==
  /\ state = "open" /\ round = 0 /\ hash = ContentHash(0, <<>>)
  /\ params = <<>> /\ velocity = <<>>
  /\ artifacts = {[dir |-> 0, hash |-> ContentHash(0, <<>>), parent |-> NoHash]}
  /\ ledger = <<>> /\ ledgerFile = <<>>
  /\ published = [round |-> 0, weights |-> <<>>]
  /\ staged = {}
  /\ pc = "idle" /\ toGo = 0 /\ updates = {} /\ candidate = <<>>
  /\ faultsLeft = MaxFaults

-----------------------------------------------------------------------------
(***************************************************************************)
(* Participants.  A submission replaces the participant's earlier one for  *)
(* the same round; rounds already closed are accepted and kept.            *)
(***************************************************************************)
SubmitUpdate(u) ==
  /\ u.round <= published.round
  /\ staged' = {v \in staged : v.who # u.who \/ v.round # u.round} \cup {u}
  /\ UNCHANGED <<driver, model, disk, published, call, faultsLeft>>

-----------------------------------------------------------------------------
(***************************************************************************)
(* How a call ends: it returns or raises, and its locals are gone.         *)
(***************************************************************************)
Return == pc' = "idle" /\ toGo' = 0 /\ updates' = {} /\ candidate' = <<>>

\* driver.abort(exc), or state = ABORTED and re-raise: nothing else changes.
Aborted ==
  /\ state' = "aborted"
  /\ Return
  /\ UNCHANGED <<round, hash, model, published, staged>>

\* An exception no handler of the round body catches: state stays where it is.
Escaped ==
  /\ Return
  /\ UNCHANGED <<driver, published, staged>>

Fault(kind) ==
  /\ kind \in Faults
  /\ faultsLeft > 0
  /\ faultsLeft' = faultsLeft - 1

\* The next statement of the same attempt.
Goto(s, step) == state' = s /\ pc' = step /\ UNCHANGED <<round, hash, toGo>>

-----------------------------------------------------------------------------
TryRound ==
  /\ pc = "idle"
  /\ round < MaxRounds
  /\ pc' = "begin" /\ toGo' = 0
  /\ UNCHANGED <<driver, model, disk, published, staged, updates, candidate, faultsLeft>>

Run(n) ==
  /\ pc = "idle"
  /\ round + n <= MaxRounds
  /\ pc' = "begin" /\ toGo' = n
  /\ UNCHANGED <<driver, model, disk, published, staged, updates, candidate, faultsLeft>>

\* Mutant: only an OPEN round may be collected.
BeginOpenOnly ==
  /\ pc = "begin"
  /\ IF state = "open"
     THEN Goto("collecting", "collect") /\ UNCHANGED <<updates, candidate, published, staged>>
     ELSE Escaped
  /\ UNCHANGED <<model, disk, faultsLeft>>

\* An aborted round re-opens; any other state but OPEN refuses COLLECTING.
Begin ==
  /\ pc = "begin"
  /\ IF state \in {"open", "aborted"}
     THEN Goto("collecting", "collect") /\ UNCHANGED <<updates, candidate, published, staged>>
     ELSE Escaped
  /\ UNCHANGED <<model, disk, faultsLeft>>

\* Mutant: the quorum test is off by one.
CollectOneShort ==
  /\ pc = "collect"
  /\ LET us == Collected(round) IN
     IF us \subseteq Valid(round) /\ Cardinality(Contributors(us)) + 1 >= Quorum
     THEN /\ updates' = us
          /\ Goto("collecting", "probe")
          /\ UNCHANGED <<model, published, staged, candidate>>
     ELSE Aborted
  /\ UNCHANGED <<disk, faultsLeft>>

\* The present set is fixed here: malformed members or too few of them abort.
Collect ==
  /\ pc = "collect"
  /\ LET us == Collected(round) IN
     IF us \subseteq Valid(round) /\ Cardinality(Contributors(us)) >= Quorum
     THEN /\ updates' = us
          /\ Goto("collecting", "probe")
          /\ UNCHANGED <<model, published, staged, candidate>>
     ELSE Aborted
  /\ UNCHANGED <<disk, faultsLeft>>

CollectFails ==
  /\ pc = "collect"
  /\ Fault("transport")
  /\ Aborted
  /\ UNCHANGED disk

\* _probe_embeddings and _reference_embeddings, still in COLLECTING.
Probe ==
  /\ pc = "probe"
  /\ Goto("aggregating", "align")
  /\ UNCHANGED <<model, disk, published, staged, updates, candidate, faultsLeft>>

\* _align_updates and the determinism self-check over two pure previews.
Align ==
  /\ pc = "align"
  /\ Goto("aligning", "drift")
  /\ UNCHANGED <<model, disk, published, staged, updates, candidate, faultsLeft>>

AlignRejected ==
  /\ pc = "align"
  /\ Fault("selfcheck")
  /\ Aborted
  /\ UNCHANGED disk

MeasureDrift ==
  /\ pc = "drift"
  /\ Goto("committing", "preview")
  /\ UNCHANGED <<model, disk, published, staged, updates, candidate, faultsLeft>>

\* The backstop's own errors are caught at none of its three call sites.
BackstopRaises ==
  /\ pc \in {"probe", "align", "drift"}
  /\ Fault("backstop")
  /\ Escaped
  /\ UNCHANGED <<model, disk>>

\* Mutant: step() where preview_step() is meant.
PreviewCommitsVelocity ==
  /\ pc = "preview"
  /\ candidate' = OuterStep(params, updates)
  /\ velocity' = OuterStep(velocity, updates)
  /\ Goto("committing", "save")
  /\ UNCHANGED <<params, disk, published, staged, updates, faultsLeft>>

PreviewStep ==
  /\ pc = "preview"
  /\ candidate' = OuterStep(params, updates)
  /\ Goto("committing", "save")
  /\ UNCHANGED <<model, disk, published, staged, updates, faultsLeft>>

\* Mutant: the artifact is written from the weights before the step.
SaveOldWeights ==
  /\ pc = "save"
  /\ IF ArtifactAt(round + 1)
     THEN Aborted /\ UNCHANGED disk
     ELSE /\ artifacts' = artifacts \cup
               {[dir |-> round + 1, hash |-> ContentHash(round + 1, params),
                 parent |-> hash]}
          /\ Goto("committing", "append")
          /\ UNCHANGED <<model, ledger, ledgerFile, published, staged, updates, candidate>>
  /\ UNCHANGED faultsLeft

SaveCheckpoint ==
  /\ pc = "save"
  /\ IF ArtifactAt(round + 1)
     THEN Aborted /\ UNCHANGED disk
     ELSE /\ artifacts' = artifacts \cup
               {[dir |-> round + 1, hash |-> ContentHash(round + 1, candidate),
                 parent |-> hash]}
          /\ Goto("committing", "append")
          /\ UNCHANGED <<model, ledger, ledgerFile, published, staged, updates, candidate>>
  /\ UNCHANGED faultsLeft

\* The temporary directory is removed: nothing of the artifact stays.
SaveFails ==
  /\ pc = "save"
  /\ Fault("checkpoint")
  /\ Aborted
  /\ UNCHANGED disk

\* Mutant: the record holds the updates in place of their participants' ids.
RecordOfUpdates ==
  [round |-> round, who |-> updates, model |-> ContentHash(round + 1, candidate)]

\* Mutant: the contributors are read from the transport once more.
RecordOfInbox ==
  [round |-> round, who |-> Contributors(Collected(round)),
   model |-> ContentHash(round + 1, candidate)]

ContributionRecord ==
  [round |-> round, who |-> Contributors(updates),
   model |-> ContentHash(round + 1, candidate)]

\* Refused when the tail's round is not smaller; the file first, then memory.
AppendContribution ==
  /\ pc = "append"
  /\ IF ledger # <<>> /\ round <= ledger[Len(ledger)].round
     THEN Aborted /\ UNCHANGED disk
     ELSE /\ ledger' = Append(ledger, ContributionRecord)
          /\ ledgerFile' = Append(ledgerFile, ContributionRecord)
          /\ Goto("committing", "step")
          /\ UNCHANGED <<model, artifacts, published, staged, updates, candidate>>
  /\ UNCHANGED faultsLeft

\* open() fails and the file is as it was, or the write stops inside the line.
AppendFails ==
  /\ pc = "append"
  /\ Fault("ledger")
  /\ Aborted
  /\ ledgerFile' \in {ledgerFile, Append(ledgerFile, Torn)}
  /\ UNCHANGED <<artifacts, ledger>>

\* step() commits the velocity, commit() the hash, then the canonical params.
CommitRound ==
  /\ pc = "step"
  /\ velocity' = OuterStep(velocity, updates)
  /\ params' = candidate
  /\ hash' = ContentHash(round + 1, candidate)
  /\ state' = "closed" /\ pc' = "next"
  /\ UNCHANGED <<round, disk, published, staged, toGo, updates, candidate, faultsLeft>>

\* The reduction of preview_step or step is not reproducible: outside any
\* handler.  In step() the velocity may have been committed already.
ReductionDiffers ==
  /\ pc \in {"preview", "step"}
  /\ Fault("reduction")
  /\ Escaped
  /\ velocity' \in {velocity} \cup
       (IF pc = "step" THEN {OuterStep(velocity, updates)} ELSE {})
  /\ UNCHANGED <<params, disk>>

\* Mutant: run() opens its next round without announcing the new model.
OpenNextUnannounced ==
  /\ pc = "next"
  /\ IF toGo = 1
     THEN Escaped
     ELSE /\ state' = "open" /\ round' = round + 1
          /\ published' = IF toGo = 0 THEN [round |-> round + 1, weights |-> params]
                          ELSE published
          /\ updates' = {} /\ candidate' = <<>>
          /\ IF toGo = 0
             THEN pc' = "idle" /\ toGo' = 0
             ELSE pc' = "begin" /\ toGo' = toGo - 1
          /\ UNCHANGED <<hash, staged>>
  /\ UNCHANGED <<model, disk, faultsLeft>>

\* try_round opens the next round at once, run only between two of its own.
OpenNext ==
  /\ pc = "next"
  /\ IF toGo = 1
     THEN Escaped
     ELSE /\ state' = "open" /\ round' = round + 1
          /\ published' = [round |-> round + 1, weights |-> params]
          /\ updates' = {} /\ candidate' = <<>>
          /\ IF toGo = 0
             THEN pc' = "idle" /\ toGo' = 0
             ELSE pc' = "begin" /\ toGo' = toGo - 1
          /\ UNCHANGED <<hash, staged>>
  /\ UNCHANGED <<model, disk, faultsLeft>>

-----------------------------------------------------------------------------
EngineStep ==
  \/ Begin \/ Collect \/ CollectFails \/ Probe \/ Align \/ AlignRejected
  \/ MeasureDrift \/ BackstopRaises \/ PreviewStep \/ SaveCheckpoint \/ SaveFails
  \/ AppendContribution \/ AppendFails \/ CommitRound \/ ReductionDiffers \/ OpenNext

Submissions == [who: Participant, round: 0..(MaxRounds - 1), delta: Delta \cup {Malformed}]

Next ==
  \/ \E u \in Submissions : SubmitUpdate(u)
  \/ TryRound
  \/ \E n \in RunSizes : Run(n)
  \/ EngineStep

Spec == Init /\ [][Next]_vars

\* A call runs to its end, and the caller of try_round attempts again.
FairSpec == Spec /\ WF_vars(EngineStep) /\ WF_vars(TryRound)
-----------------------------------------------------------------------------
(***************************************************************************)
(* Properties.                                                             *)
(***************************************************************************)

\* The types of the variables, and the state each statement of a call is in.
TypeOK ==
  /\ state \in RoundStates /\ round \in Nat /\ hash \in Hash
  /\ params \in Weights /\ velocity \in Weights
  /\ artifacts \subseteq Artifact
  /\ ledger \in Seq(Record) /\ ledgerFile \in Seq(Record)
  /\ published \in Hash
  /\ staged \subseteq Update
  /\ pc \in Steps /\ toGo \in Nat
  /\ updates \subseteq Update /\ candidate \in Weights
  /\ faultsLeft \in Nat

\* The ledger is a true account of the model: for every outer step the
\* canonical params contain, its record names exactly the participants whose
\* deltas were averaged, in round order, and the last record of them carries
\* the canonical hash.  A failure may leave one record too many, never one
\* too few.  (_append_contribution runs before step() and commit().)
LedgerAccountsForModel ==
  /\ Len(ledger) \in {Len(params), Len(params) + 1}
  /\ \A t \in 1..Len(params) : /\ ledger[t].round = t - 1
                               /\ ledger[t].who = Contributors(params[t])
  /\ params # <<>> => ledger[Len(params)].model = hash

\* Every ledger record can be recomputed from disk: the model it names is an
\* artifact in its round's directory, whose parent is the model of the record
\* before it, even when the attempt that wrote them failed halfway.
LedgerResolves ==
  \A i \in 1..Len(ledger) : \E a \in artifacts :
    /\ a.dir = ledger[i].round + 1
    /\ a.hash = ledger[i].model
    /\ a.parent = IF i = 1 THEN ContentHash(0, <<>>) ELSE ledger[i - 1].model

\* A participant that joins, rejoins or recovers at any moment, also in the
\* middle of an attempt or after a failed one, gets the canonical model; only
\* between the commit and the next RoundOpen is it one round behind.
PublishedIsCanonical ==
  IF state = "closed"
  THEN published.round = round /\ Len(published.weights) = round
  ELSE published = hash

\* Whatever aborts a round, and however many attempts have aborted before: the
\* canonical model, its hash, the momentum, the announcement and the records stay
\* as the last commit left them.  All that may be left behind is what the append
\* of one attempt failed on: its artifact, and part of a line in the ledger's file.
AbortLeavesModel ==
  state = "aborted" =>
    /\ velocity = params /\ hash = ContentHash(round, params) /\ published = hash
    /\ Len(ledger) = round
    /\ \/ Directories = 0..round /\ ledgerFile = ledger
       \/ /\ Directories = 0..(round + 1)
          /\ ledgerFile \in {ledger, Append(ledger, Torn)}

\* RFC-0013: "either the outer step applies and the global hash advances (CLOSED),
\* or no state change occurs (ABORTED).  There is no partial commit."  An aborted
\* round leaves the artifact directory and the ledger's file alone, too.
NoPartialCommit ==
  state = "aborted" => Directories = 0..round /\ ledgerFile = ledger

\* A call never ends inside a round: whatever raised, the round is OPEN, CLOSED
\* or ABORTED when the caller gets control back, so a retry is legal.  (RFC-0013 4
\* on the reduction: "A mismatch raises NonDeterministicAggregation and drives the
\* round to ABORTED".)
NeverWedged == pc = "idle" => state \in {"open", "closed", "aborted"}

\* Enough well-formed updates are staged for the current round.
Ready(t) ==
  /\ round = t
  /\ Collected(t) \subseteq Valid(t)
  /\ Cardinality(Contributors(Collected(t))) >= Quorum

\* The artifact a failed append left behind refuses every later attempt.
Blocked(t) == state = "aborted" /\ ArtifactAt(t + 1)

\* A round with a well-formed quorum staged commits, however often it was
\* aborted before, once the failures stop: no abort spoils the attempts after it.
\* Excused are a malformed update in the place of another, an append that failed
\* behind its artifact, and an exception no handler of the round body catches.
ReadyRoundCommits ==
  \A t \in 0..(MaxRounds - 1) :
    Ready(t) ~> (Len(params) > t \/ ~Ready(t) \/ Blocked(t) \/ ~NeverWedged)

\* The model history is the promised chain of outer steps.
Chain == INSTANCE CommitChain WITH chain <- params, announced <- published.round
ImplementsCommitChain == Chain!Spec
=============================================================================
