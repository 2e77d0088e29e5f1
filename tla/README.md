# Lensemble: a TLA+ model of the federated training runtime

Lensemble trains one world model across participants that keep their data. A
coordinator announces a global model, every participant trains locally and
releases a pseudo-gradient, and the coordinator averages the pseudo-gradients of
a quorum into one outer step (DiLoCo with Nesterov momentum), writes the new
model as a content-addressed artifact, records who contributed in an append-only
ledger, and announces the next round.

The modules here model the part of that program where order, failure and
repetition decide correctness: the round engine, the governed service in front
of it, the networked transport, the participant agent with its resume files, a
whole consortium run with the files it leaves behind, the reports and bundles
made from those files, the contribution ledger with the data-set commitments in
it, the masked secure aggregation with dropouts, and the browser demo: its
service, its event stream and the learner jobs of its pages. They are checked with TLC on small
instances, and almost every invariant these runs check is also proved with TLAPS for
all values of the constants (section 5). Two runs, and five configurations beside them,
end in a violation: there the code does something else than one of the repository's
documents says (section 4).

Paths below are relative to `src/lensemble/` unless they start with `docs/`.


## 1. Inventory

### Components

| Component | State it keeps | Operations | Correct when |
|---|---|---|---|
| **Round engine** `federation/coordinator.py`, `round.py`, `outer_optimizer.py` | driver state, round index, global hash; canonical params; momentum | `run`, `try_round`, and one round body of eleven fallible statements | a round commits completely or not at all; momentum, params, artifact, ledger and announced model agree; an aborted round can be retried |
| **Checkpoint artifacts** `artifacts/` | directories `round-XXXXX`, each with a content hash and a parent hash | `save_checkpoint` (atomic rename, refuses an existing directory), load, verify | every artifact is complete and chained to its parent |
| **Contribution ledger** `provenance/ledger.py` | records in memory and lines of `ledger.jsonl` | `append`, `open`, `verify_chain` | one record per outer step, naming exactly the averaged participants; nothing acknowledged is lost or changed unnoticed |
| **In-process transport** `federation/transport.py` | staged updates by (round, participant); the GlobalState it serves; a store per node | `submit_update`, `collect_updates`, `broadcast_round_open`, `recover_global_state`, `commit`, `fetch_params` | the newest update of a participant counts once; whoever recovers gets the canonical model |
| **Coordinator service** `federation/service.py`, `phase3_privacy.py` | runtime state per participant, admission, aborted rounds, retry counts, trace | `join`, `close_admission`, `heartbeat`, `assign_round`, `submit_update`, `mark_dropout`, `abort_round`, `close_round` | an accepted update is averaged if its round commits; an aborted round stays aborted; an assigned round ends; the trace tells what happened |
| **Networked transport** `federation/network.py`, `messages.py` | FIFO inboxes, committed roots, validated updates | `Commitment` / `Update` handshake, ingress validation, collection | only updates bound to a commitment are averaged; a rejected message costs nobody else anything |
| **Participant agent** `federation/agent.py`, `participant.py`, `pseudogradient.py` | `delta.safetensors` and `round_state.json` per round | preflight, join, `run_assigned_round` with and without resume | one release per round, whatever crashes |
| **Orchestration** `federation/phase3_orchestration.py`, `deploy/hfjobs/train_phase3_consortium.py` | none in memory of its own; on disk the run directory: checkpoints, ledger, agents' records, manifest, report | clears the directory, boots, joins, assigns, runs the agents, submits, closes, writes manifest and report | a bundle binds the files of one run, whatever earlier launches left behind |
| **Browser demo service** `demo/federated.py`, `demo/server.py` | run status, round, participants, submissions, revisions; a bounded event log; one thread per request or socket | join, heartbeat, connect, disconnect, start, abort, fail, submit, expire, drop; replay and push of events | a round closes when everyone it waits for has submitted; a paused run resumes; nobody counts twice; no retained event is skipped |
| **Browser client** `web/federated-demo/` | the snapshot shown, the socket and its polling fallback, learner jobs by round and revision | follow the run, start a job per assignment, report, train, submit, retry, reload | the page ends on the run's state; a round that waits for this page gets its update |
| **Secure aggregation** `aggregation/` | one sum in progress | field encoding, pairwise and self masks, Shamir split and reconstruction, recovery of dropped peers' masks | the sum unmasked is the survivors' sum as the field holds it |
| **Merkle commitments** `provenance/merkle.py`, `commit.py` | none | root, inclusion proof, verification, dataset binding | a root stands for one collection of episodes, and a proof verifies exactly for its members |
| **Evidence bundles** `federation/phase3_bundle.py`, `phase3_observability.py`, `eval/phase3.py`, `scripts/phase3_*.py` | files: long-run, eval and observability reports, consortium manifest and registry, bundle with model card | one script per file, run by hand in any order | what a bundle puts together belongs together |
| **Differential privacy** `privacy/` | accumulated steps | epsilon of a number of steps | monotone in the steps |
| **Gauge and backstop** `gauge/` | the frozen probe and reference | alignment, drift | linear algebra over the reals |
| **Residency guard** `data/residency.py` | none | `guard_egress` | nothing but the permitted tensors leaves |
| **Data, configuration, models, evaluation, CLI, observability** | files and tensors | adapters, validation, networks, metrics, reports | not about order or failure |

### How they interact

Everything in `federation/` runs in one process and is called synchronously: the
orchestration calls the service, the service calls the engine's `try_round`, the
engine calls the transport, the artifact writer and the ledger. Concurrency
comes from the outside: participants put updates into the transport (or messages
into the coordinator's inbox) at any time, also between two statements of a
round in flight, and each agent is a process of its own that can die. The demo
service is entered by the threads of a `ThreadingHTTPServer`, one per request
or WebSocket, and nothing locks the run they share. Its pages are asynchronous:
snapshots, answers and training results reach callbacks in any order.

Three pieces of state are shared: the transport's staged updates (written by
agents, read by the service and again by the engine), the announced GlobalState
(written by the engine, read by agents that join or recover), and the file
system (artifacts and ledger written by the engine; an agent's two files read
back after a restart).

### What is hard here

- **Failure in the middle of a round.** The round body previews the step, writes
  the artifact, appends to the ledger, commits the momentum, advances the hash,
  in this order, with handlers around some of these statements and not others.
- **Retry.** An aborted round is collected again with the same previewed delta;
  momentum must be folded once.
- **Two collections.** `close_round` collects for its report, then `try_round`
  collects again; over a network messages arrive in between.
- **One bad message.** An exception in the middle of a collection leaves the
  messages before it ingested, those behind it queued, and the attempt lost. Attempts
  below the quorum use up a retry budget, such attempts do not.
- **Late and repeated submissions**, also for closed rounds.
- **Status against membership.** Participants are timed out, dropped or rejected
  while an update they already submitted is staged.
- **Crash inside a write.** The agent overwrites its files in place.
- **A relaunch over leftovers.** `rmtree(ignore_errors=True)` may leave files of an
  earlier run, and its report is never removed.
- **Stale reports beside new runs.** Five scripts hand each other files; each can be
  started at any time, rerun for another run, or die between two files.
- **A ledger that is a text file.** A line may be half written when an append raises,
  and be continued by the next; a history may be cut or rewritten with new digests.
- **Dropouts in a masked sum.** Updates and recovery shares arrive apart: an update
  may come late, a sender of shares may not answer.
- **Timeouts, pauses and revivals** of the demo service's lobby and run.
- **Two channels to a page.** A socket with a bounded replay and a polling fallback,
  stale answers, dropped renders, lost requests, reloads.

`PROJECT.json` lists each hazard at its line with the properties that cover it.


## 2. Modules

| Module | Models | Role |
|---|---|---|
| `CommitChain` | what the coordinator promises: a chain of outer steps | abstract specification |
| `RoundEngine` | engine, driver, optimizer, artifacts, ledger, transport's staging side | implements `CommitChain` |
| `RoundEngineProofs` | | theorems about `RoundEngine` |
| `CoordinatorService` | `Phase3CoordinatorService` over the engine | one step per service call |
| `CoordinatorServiceProofs` | | theorems about `CoordinatorService` |
| `NetworkedRound` | a round over `NetworkedTransport`, the coordinator's side | implements `CommitChain` |
| `NetworkedRoundProofs` | | theorems about `NetworkedRound` |
| `ParticipantAgent` | `run_assigned_round`, its files, crashes and resume | |
| `Consortium` | one or more launches of `run_phase3_consortium` on one directory | composes `CoordinatorService` (INSTANCE) with agents, engine and disk |
| `ConsortiumProofs` | | theorems about `Consortium` |
| `ShamirSharing` | split and reconstruction over a prime field | pure operators |
| `SecureAggregation` | `PairwiseMaskAggregator.aggregate`, the updates and shares it gets | uses `ShamirSharing` |
| `SecureAggregationProofs` | | theorems about `SecureAggregation` |
| `DemoService` | `FederatedDemoService`: one run of the browser demo | requests cut into sections |
| `DemoStream` | event log, WebSocket thread, and the page that follows them | the demo's eventing |
| `DemoStreamProofs` | | theorems about `DemoStream` |
| `DemoPage` | one participant's page in auto mode and its learner jobs | extends `DemoService` with a page |
| `DemoProofs` | | theorems about `DemoService` and `DemoPage` |
| `EvidencePipeline` | the runs' files, the three report scripts and the bundle script | |
| `DatasetMerkle` | Merkle root, inclusion proofs and their verification | pure operators and recursive functions |
| `ContributionLedger` | the ledger's file and objects, and an auditor's view of both | uses `DatasetMerkle` |
| `RecordsProofs` | | theorems about `ParticipantAgent`, `ContributionLedger`, `DatasetMerkle` and `EvidencePipeline` |
| `MCRoundEngine`, `MCNetworkedRound`, `MCConsortium`, `MCSecureAggregation`, `MCEvidencePipeline`, `MCContributionLedger` | | values for TLC |
| `MCRecords` | the last two in one specification; `subject` says which of them a behaviour is about, as they share no state | values for TLC |

Definitions introduced by a comment `Mutant:` are variants of the definition
that follows them, each with a plausible bug. No specification uses them; they
document that the property they are paired with in `PROJECT.json` would notice.

### CommitChain

Two variables: `chain`, whose entry t + 1 is the set of pseudo-gradients averaged
in round t, and `announced`, the number of outer steps the announced model
contains. `Commit` appends at least `Quorum` participants' well-formed updates of
exactly that round, one each, to a chain that has been announced; `Announce`
publishes it. No abort, no retry and no file exists at this level: that the
engine implements it says that all of these are invisible to participants.

### RoundEngine

`pc` names the statement a call of `run` or `try_round` is at, so every statement
of `Coordinator._run_one_round` that can fail or be interleaved with a
submission is an action of its own:

| Action | Code |
|---|---|
| `Begin` | `RoundDriver.to_collecting`, re-opening an aborted round |
| `Collect`, `CollectFails` | `collect_updates`, `_validate_updates`, the quorum test |
| `Probe`, `Align`, `AlignRejected`, `MeasureDrift`, `BackstopRaises` | the backstop's call sites and the determinism self-check |
| `PreviewStep` | `OuterOptimizer.preview_step`: pure |
| `SaveCheckpoint`, `SaveFails` | `_commit_checkpoint`, `save_checkpoint` |
| `AppendContribution`, `AppendFails` | `_append_contribution`, `ContributionLedger.append` |
| `CommitRound` | `step()`, `driver.commit`, the canonical params |
| `ReductionDiffers` | `NonDeterministicAggregation` outside the self-check |
| `OpenNext` | `_open_round`, the next round of `run`, or the end of `run` |

How an exception travels is part of the action: `Aborted` is an exception one of
the body's handlers turns into `ABORTED`; `Escaped` is one that no handler
catches, which leaves the driver where it was. Weights are the sequence of
contributions folded into them. Params and momentum fold the same averages, so
"each commit advanced both of them exactly once" is equality of two sequences,
and a content hash (over round, parent and weights) is the round with that
sequence.

`Faults` selects which failures may happen: `transport` (collecting raises),
`backstop` (probe, alignment or drift raise something uncaught), `selfcheck`,
`reduction`, `checkpoint`, `ledger`. `MaxFaults` bounds how many. The body's
handlers turn all but `backstop` and `reduction` into ABORTED; a failed `ledger`
append also leaves the artifact that was renamed into place before it, which refuses
every later attempt of the round, and may leave part of its line in the file.

### CoordinatorService

One action per public operation. The service calls the engine synchronously, so
an attempt is one step whose outcomes are those of `RoundEngine`: the commit of
the staged updates, `ABORTED` below the quorum, or an exception, after which the
round may be past recovery (`engineStuck`, the wedge of `ReductionDiffers`).
`close_round` is modelled with its order kept: timeouts are recorded first, the
attempt is made, and the privacy report is built after the commit from what was
collected, so that a report that raises (`BudgetContributors`) loses the closed
event of a round that has advanced. Operations that only add a participant event
to the trace are stuttering steps, and so is `heartbeat`, whose time stamp nothing
reads; the trace holds the round events.

### NetworkedRound

The coordinator's inbox is a FIFO that participants append to at any moment. Both
collections of `close_round` are loops of single receives (`RecvCommitment`,
`RecvUpdate`, `RecvRejected`) that end when the inbox is empty
(`PresentFixed`, `CollectedFixed`), so messages arrive between any two receives and
between the two collections. The attempt then ends as `_validate_updates` and the
quorum decide: `Misfit` raises on a vector of another length, which stays in the
cache and fails the next attempt too; `BelowQuorum` counts a retry or, past the
budget, gives the round up for good (`CountRetry`); `CommitRound` goes on to the
report. A rejected message or a misfit ends `close_round` before it counts anything.
Participants may send for any round, also one not yet announced, since ingress does
not compare it. `declared` and `bound` are
history variables: the root of each participant's last Commitment, and the
Updates that were sent while their root was the declared one.

### ParticipantAgent

`run_assigned_round` statement by statement: `RunAssignedRound` (join, and the
decision whether there is something to resume), `Train`, `PersistDelta`,
`PersistRecord`, `SubmitUpdate`, `MarkSubmitted`, and `Load` for the resume path.
`Crash` can happen at every statement: the process's memory is gone, and a file
it was writing is as it was before or torn. What training releases is left open,
because a second run of it need not compute the same delta. A file's hash is the
release it is the hash of. `released` and `reran` are history variables: every
release the transport ever received, and the rounds that were joined without
resume although a record existed.

### Consortium

`run_phase3_consortium` is sequential, so `pc` is the statement it is at. The
service's variables and operations are those of `CoordinatorService`, instantiated;
what is new is the disk, which outlives the process:

| Action | Code |
|---|---|
| `Launch`, `ClearArtifacts`, `ClearAgents`, `ClearManifest` | `_prepare_run_dir`: `rmtree` leaves what it cannot delete, the report is not touched |
| `Boot` | `Coordinator.__init__`: `round-00000` refused if it is there, an empty ledger object over the file as it is |
| `Join`, `Assign` | the loops over `participant_ids` |
| `Persist`, `Release`, `Submit` | the agent's `round_state.json`, its submission straight to the transport, and the service's `submit_update` |
| `CloseSaves`, `CloseAppends`, `CloseCommits`, `CloseBlocked` | `close_round` through the engine's two files, its commit and its privacy report |
| `Summarize`, `WriteManifest`, `WriteReport` | round summary, `phase3_run_manifest.json`, the launcher's report |
| `Crash` | at every statement; the manifest and the report may be torn, and the ledger's last line may be cut off anywhere |

`CloseAppends` opens the ledger file as it is: a line that has no end (`cutOff`)
swallows the record written next (`LedgerWith`). `foundCut` remembers that a launch
booted over such a line. `Accepted` is what the evidence bundle's builder asks of a
directory. Each launch is told from the others by `run`, as `generated_at` does in the code.

### ShamirSharing and SecureAggregation

`ShamirSharing` has the field arithmetic as operators: Horner evaluation, shares at
1, 2, ..., Lagrange interpolation at 0 through whatever shares are given. The code
derives the polynomial's coefficients by hashing; here every polynomial is tried.
`Product` is the loop over the other points, from 0 for a numerator and from the
share's own point for a denominator.

`SecureAggregation` follows one sum: masked updates arrive (`DeliverUpdate`), over a
modulus nobody compares with their norms, the recovery data is drawn
up for whoever is present (`DrawUpRecovery`), shares arrive (`DeliverShares`), and
`aggregate` runs its three loops (`AddUpdate`, `RemoveSelfMask`, `RemovePairMask`) and
reveals. It refuses too few updates, but uses the shares there are. A field element is a plain part and the coefficient of each mask still in
it, a mask being known by the secret its seed comes from, so a secret that is
reconstructed wrongly removes a mask that nobody added. The transport of this
backend is not in the repository: who arrives and when is left open, also an
update after the recovery data and a share that never comes.

### DemoService

Each request is handled by a thread of its own, without a lock, so `thread[t]`
says what the request in t does next and a handler is cut where it has decided
something and acts on it later:

| Actions | Code |
|---|---|
| `Join`, `Heartbeat`, `MaybeResume`, `Resume` | `join_run`; `heartbeat`, `connection_opened` and a join with a known session, which act alike on a paused run |
| `Start`, `Progress`, `ExpireMissing`, `DropParticipant`, `AbortRun`, `FailRun` | the handlers of these names up to the close |
| `SubmitUpdate`, `RecordUpdate`, `Decide` | `submit_update`: checks and validation, recording, `_round_ready_to_close` |
| `Close`, `Aggregate`, `Publish`, `Advance` | `_close_round` and `_close_round_lewm`: who contributes, the mean, the revision, the next round or the end |
| `Refresh` | `refresh_liveness` at the end of every request and in every poll |

A heartbeat timeout is membership in `silent`: `GoSilent` puts a participant
there, its next request takes it out, `Refresh` drops it. With `Thread = {t}` a
request ends before the next one begins, which is how the service is tested; with two
threads their sections interleave, as `ThreadingHTTPServer` lets them. The cut is
coarser than the interpreter's, which may switch inside a section: what a run with
two threads finds can happen, and what holds in it holds for switches between the
sections.
Connection states, tokens, events, progress and the contents of artifacts and
revisions are left out; of a submitted vector its length is kept, because the
mean raises on different lengths. `out` in a revision is a history field.

### DemoStream

The run is a version; an operation changes it and then emits an event
(`ChangeRun`, `EmitChange`). The thread of one WebSocket is cut at its statements:
`Accept`, `Opened` (the snapshot, before the events), `Replay`, then a loop of
`AnswerKeepalive` or `ReadTimesOut`, `ReadEvents`, `Push` (the snapshot, after the
events), and `Closed`. The page has `OnOpen`, `OnMessage`, a keepalive timer, the
poll that is asked only while there is no socket but may be answered later, and the
editing guard that drops snapshots. `Retained` is the bounded log. Connections
break at any moment and are opened again with `after = lastSeq`.

### DemoPage

One page in auto mode over the service of `DemoService`, which the module extends:
the service's actions are conjuncts of the page's, and the other participants and
the host are as free as that module leaves them (`Environment`). A snapshot
arrives over the socket (`Push`) or as the answer of an older poll (`Answer`, `Arrive`);
`Show` starts a learner job for an assignment it has not seen, known by round and
revision. A job is `ReportProgress`, `Train`, `Submit`, `Answered`. `Lose` loses a
request or its answer, `Reload` forgets the page's memory but not a submission that
has left it (`HandleOrphan`), `Retry` is the user's button, and `runtime` is the
cached promise of the learner's runtime, which stays rejected once it was.

### EvidencePipeline

Two places keep runs: the smoke's directory, whose report carries a constant date,
and the launcher's, which is dated by the clock. A file is what it tells of the run
it was made from: a hash is the tuple of what is hashed, and `build` is the code and
platform that computed a model, 0 being the one before the outer update was
corrected. `StartRun`, `TrainRounds`, `WriteManifest`, `WriteReport` are a run as the bundle
sees it, with what `Consortium` has in detail left out: `StartRun` deletes the manifest
and, of the checkpoints, what `rmtree` can, and a run over a leftover checkpoint of its
last round is blocked there; `Evaluate`, `Observe`,
`WriteContracts`, `BuildBundle` and `NormalizeLegacy` are the scripts. `Buildable`
holds the comparisons of `build_phase3_evidence_bundle` and of the bundle's
validators; which statuses, hashes and identities they compare and which they do
not is the point of the module. The module starts from the checked-in evidence of
before the correction, with or without that run's directory.

### DatasetMerkle and ContributionLedger

`DatasetMerkle` follows `merkle.py` level by level, with sorting, the promotion of an
odd last node and the proofs that skip the levels where their node was promoted. A
digest is the term that was hashed, so that two digests are equal exactly if what was
hashed is: collisions of SHA-256 are outside the model, collisions of the tree's
shape are not. The sort is the rank of an episode among the others (`SortedIndex`),
levels, proofs and their check are recursive functions over the levels
(`Levels`, `Path`, `Climb`), so that all of it can be reasoned about.

`ContributionLedger` has the file as lines with or without their end; `Garbage` is a
line that is no record, `None` the link of a first record, and `held` says that there
is a ledger object. `Open` and `Construct` are the two ways to a ledger object, the second of which, the
coordinator's, starts empty over whatever is there. `AppendFails` leaves nothing, a
part, all but the end or all of the line, and the object without the record;
`Written` lets the next append continue an unfinished line. `Rewrite` is an edit from
outside, with any digest in the file or none. `receipt` and `attested` remember what the last
append returned and stood for.


## 3. What the runs check

| Run | Constants | Distinct states | Shows |
|---|---|---|---|
| `engine_faults` | 3 participants, quorum 2, 2 rounds, 2 faults of all six kinds, `run(2)` and `try_round` | 287,178 | `LedgerAccountsForModel`, `LedgerResolves`, `PublishedIsCanonical`, `AbortLeavesModel`, `ImplementsCommitChain`, and `ReadyRoundCommits` under fairness |
| `service_policy` | 2 trainers, quorum 1, retry budget 1, a report that one contributor exhausts, a malformed update, attempts that raise or wedge, 2 rounds | 57,068 | `AcceptedIsAveraged`, `AbortEndsRun`, `TraceTellsRun`, and `AssignedRoundEnds` under fairness |
| `network_ingress` | 2 participants, 2 roots, vectors that fit and do not, quorum 1, retry budget 1, 4 messages, 2 rounds; participants and roots are symmetric | 1,318,315 | `AveragedWasBound`, `NoUpdateLost`, `ReportWithinRecord`, `GivenUpForLack`, `ImplementsCommitChain` |
| `agent_resume` | 2 releases, 2 rounds, 3 crashes | 44,556 | `ResumeReplaysRelease`, and `AssignedIsReleased` under fairness |
| `demo_rounds` | 3 browsers, 1 thread, quorum 2, vectors of 2 lengths, 2 rounds | 174,824 | `RoundIsStaffed`, `SubmissionCounts`, `RoundsAreAveraged`, and `RoundEnds`, `PausedResumes` under fairness |
| `consortium` | 3 trainers, rosters of 1, 2 and 3, 2 updates, quorum 2, a DP budget for 2, 2 rounds, 2 launches over what `rmtree` leaves | 301,296 | `LedgerTellsRun`, `BundleBindsOneRun`, and `BootedRunReports` under fairness |
| `secagg_masking` | 3 participants, threshold 2, all lines over GF(5), updates -2 and 1, moduli 12, 14 and 15 | 436,800 | `MasksCancel`, `RevealedIsSurvivorsSum`; `SharesReconstruct` evaluated |
| `demo_stream` | a log of 2 events, 2 changes, 1 emitting heartbeat, 1 break, 1 edit | 271,973 | `ReplayIsGapless`, and `PageShowsFinalRun` under fairness |
| `demo_page` | this page and another browser, quorum 2, 2 rounds, 1 fault | 90,091 | `JobsTellService`, and `PageDelivers` under fairness |
| `records` | ledger: 4 episodes, data sets of 3, 5 and (of two versions) 2 episodes, proofs drawn from all data sets of up to 4 and two longer ones, 2 rounds, 3 lines, 2 mishaps; evidence: 2 places, 2 configurations, one build and the legacy one, a published control run, 2 runs | 1,881,992 | `ReceiptFixesHistory`, `IntactLedgerVerifies`, `AcknowledgedIsKept`, `AuditTellsData`, `CurrentIsCorrected`, `RegenerationSucceeds`, `LauncherCheckpointIsReports` |

`engine_ledger_failure` and `demo_overlap` look for one violation each, with constants
just large enough for it. Section 4 says what they show.

These twelve runs are the ones `PROJECT.json` lists. Seven more configurations are
kept for questions on the side; `tlc -config <name>.cfg <module>` runs them. Two pass:

| Configuration | Module | Constants | Distinct states | Shows |
|---|---|---|---|---|
| `network_rounds` | `NetworkedRound` | 2 participants, 1 root, quorum 2, retry budget 1, 5 messages, 1 round | 293,677 | `QuorumCommits` under fairness |
| `demo_threads` | `DemoService` | 2 browsers, 2 threads, quorum 1, vectors of 2 lengths, 2 rounds | 2,340,536 | `RoundsAreAveraged` while requests overlap |

Five end in a violation (section 4): `engine_reduction`, `secagg_wrap`, `secagg_shares`,
`evidence_drift` and `evidence_identity`.

`engine_faults` checks the engine's `TypeOK` as well. The types of the other modules are
theorems (section 5) or follow from what the runs above check.

### The properties

Engine. `LedgerAccountsForModel`: for each outer step in the params there is a
record in round order that names exactly the participants averaged, and the last
of them carries the canonical hash; a failure may leave one record too many,
never one too few. `LedgerResolves`: each record's model is on disk, chained to
the record before it, also after an attempt that failed halfway.
`PublishedIsCanonical`: whoever joins or recovers, at any moment, gets the
canonical model, one round behind only between a commit and the next RoundOpen.
`AbortLeavesModel`: after an abort, by whatever failure, the model, its hash, the
momentum, the announcement and the records are what the last commit left, and all
that may lie about is what a failed append leaves. `ReadyRoundCommits`: a round with a
well-formed quorum staged commits, however often it was aborted, unless a failed append
blocked it or an exception without a handler left the driver inside the round, where no
retry is legal (`NeverWedged`, which holds under the four kinds of failure that have a
handler and is false for the reduction: section 4).

Service. `AcceptedIsAveraged`: the contributors of a committed round are exactly
those whose update `submit_update` accepted, also if they were timed out, dropped
or rejected since, once each. `AbortEndsRun`: an aborted round is never committed
and no later one opens. `TraceTellsRun`: a closed event for exactly the committed
rounds whose report could be built, naming the contributors, and an aborted event
for exactly those given up. `AssignedRoundEnds`: closed again and again, an assigned round is
committed or given up, unless the attempt wedged the engine or a malformed update
is staged (section 4).

Network. `AveragedWasBound`: whatever is averaged was sent under the root its
participant had committed to. `NoUpdateLost`: a bound update that was sent waits
in the inbox or its participant is present, however many messages were rejected.
`ReportWithinRecord`: the report names only participants that were averaged,
though the two collections differ. `GivenUpForLack`: a round that is given up has bound
updates of fewer than a quorum; a rejected message never uses up the budget of those
whose updates are there. `QuorumCommits`, in `network_rounds`: once a quorum has sent
bound updates for a round not given up, it commits, however little is left of the
budget, unless a vector of another length fails every attempt for good.

Agent. `ResumeReplaysRelease`: an agent that is only restarted with resume gives
away one release of a round. `AssignedIsReleased`: an agent left in a round releases
for it, unless a torn or overwritten file stands in the way.

Consortium. `LedgerTellsRun`: whatever an earlier launch left, also half a record, the
ledger object is this run's outer steps in order, each with its artifact on disk, and
each averaged update stands in its agent's `round_state.json` as submitted; the last
lines of `ledger.jsonl` are these records, except that a line an earlier launch left
without its end swallows the first of them.
`BundleBindsOneRun`: at any moment, after any crashes, if the directory passes the
bundle builder's checks and the report says the run completed, the last checkpoint
is that run's final model and the report's rows are the steps to it.
`BootedRunReports`: a launch that boots without a later round's leftovers and within
its DP budget ends with its own report unless it dies.

Secure aggregation. `MasksCancel`: with enough shares no mask is left in a revealed
sum; none is removed twice or with the wrong sign. `RevealedIsSurvivorsSum`: what
is revealed from enough shares is the sum of exactly the updates that were there when
the recovery data was drawn up, as the field holds it: congruent to it, centred, and
the sum itself where `assert_no_wrap` would accept the survivors' count and norm. A late
update is never half counted.

Demo. `RoundIsStaffed`: between requests, a running round has a quorum, everybody
active is in it, and each of them has submitted or still may, however they were
dropped, revived or taken in; a paused run lacks its quorum. `RoundsAreAveraged`: also
when requests overlap, no round is passed without a mean of a quorum's updates, none
of them trained for a later round, and a completed run has at least as many revisions
as rounds. `demo_rounds` checks it for one request at a time, `demo_threads` for two,
and section 5 proves it for any number. (That a run has exactly one revision per round,
`RevisionsAreChained`, is false when requests overlap: section 4.) `SubmissionCounts`: what was accepted for a round is
averaged in it unless its sender was gone when it closed. `RoundEnds`: a round with
a host that expires the missing is closed, or the run pauses or is over, unless
the submitted lengths differ. `PausedResumes`: once nobody is dropped any more, a
paused run leaves the pause.

Stream. `ReplayIsGapless`: over any number of connections the page is sent every
event once and in order, except those that had left the log. `PageShowsFinalRun`:
when the run stands still a participant's page ends on its last state, whatever was
dropped, overtaken or missed before.

Page. `JobsTellService`: a job that says submitted has its update with the service,
for its round and trained from that round's revision, however late the request was
handled. `PageDelivers`: a round that waits for this participant gets its update if
the user retries, unless the participant is dropped, the run stops running or the
runtime could not be loaded.

Evidence. `CurrentIsCorrected`: whatever was rerun, normalised or left lying about,
a bundle not published as historical has its training, its evaluation and its
observability from runs after the correction, and a historical one from before it.
`RegenerationSucceeds`: the remedy the errors name always works: from an undisturbed
run directory and its report, with any controls, the two reports and a bundle can be
made. `LauncherCheckpointIsReports`: a bundle of a launcher's run that completed carries that
run's checkpoint, however far another run came in the directory.

Provenance. `ReceiptFixesHistory`: who kept the digest of an append and finds a file
that verifies and ends with it has, line by line, the history of that moment.
`AuditTellsData`: such an auditor can tell from every record which episodes the
participant was bound to: each can be proved, no other can, and no other collection
has the same root. `IntactLedgerVerifies`: while nothing fails and nobody edits, a
ledger opened from its file verifies at any time. `AcknowledgedIsKept`: without edits,
a file that opens and verifies contains everything that was acknowledged, whatever
writes failed and whichever objects began empty over it.

### Why the bounds are enough

Two rounds let everything that may leak from one round into the next do so: a
late update, an artifact left behind, a momentum folded twice, a retry count not
reset. Two faults let a failure hit the retry of a failed attempt. Three
participants over a quorum of two let the present set be smaller than the
consortium and grow between an abort and its retry; two suffice where a property
speaks of one participant against another. Four messages suffice for a handshake and
another that replaces it, or is rejected, in one round or over two; `network_rounds` has
a fifth for a quorum of two with a rejected message in between.
Three crashes let a resume crash, and the resume after it. Three browsers over a
quorum of two let one of them be dropped, come back and submit while the others
keep the round going, or be the one without whom it pauses. Two launches let the
second find everything the first may leave. Three participants with a threshold of
two give a survivor, a dropout and a pair of survivors; half of the moduli is at and one
above the largest sum, so that one of them wraps, and they are odd and even. Two
threads over two rounds let a request that was decided in one round act in the next. A log of two
events overflows with the third. One fault at each place of a job over two rounds
lets an old job, an old answer or an old request meet the next round. Two runs, in
one place or in both, let each file of a pipeline be of the legacy run, the first or
the second. Three lines let a half-written one stand between two others, and two
mishaps let a second failure, or an edit, follow it; trees of three, five and six leaves
promote a node at one level and at several, with equal episodes at the end.

`MaxRounds` (and `Target`, which the code has), `MaxSends`, `MaxFaults`, `MaxCrashes`,
`MaxRuns` (launches), `MaxLines`, `MaxMishaps`, `MaxVersion`, `MaxBeats`, `MaxBreaks`, `MaxEdits` are bounds of
the model, and guards of the actions they bound; in `DemoPage`, `MaxFaults` counts
lost requests, late polls, reloads and runtimes that fail to load together. `Tails`,
`Moduli` and `Deltas` are the values `SecureAggregation` starts from. The code has a configured number of rounds and
nobody has to send anything, so a consortium that has closed its rounds stops:
the runs of the service and the network say `CHECK_DEADLOCK FALSE` for that reason,
that of the consortium because launches are bounded, that of the
records because runs, lines and mishaps are, and that of the aggregation because a sum is
revealed, refused or raises and is then over. The other runs check
for deadlock: participants may always resubmit, an agent may always be run again,
the demo is always polled, and a socket is always served.

### Fairness

- `RoundEngine!FairSpec`: weak fairness of `EngineStep`, because a call runs to
  its end, and of `TryRound`, because the driver attempts again. Nothing is
  assumed about participants.
- `CoordinatorService!FairSpec`: weak fairness of `CloseRound`, the driver again, and
  strong fairness of an attempt that ends (`CloseCommits`, `CloseBelowQuorum`): an
  attempt that can succeed does not raise for ever. Without it a transport that
  fails each time keeps the round open, because an exception is not counted as a
  retry.
- `NetworkedRound!FairSpec`: weak fairness of the coordinator's steps: a round not
  given up is closed again and a collection runs until it ends. That a collection ends is
  not assumed: messages may keep arriving while it runs.
- `ParticipantAgent!FairSpec`: weak fairness of a resume and of the process's
  statements. Crashes are bounded, so that there is a time after the last one.
- `DemoService!FairSpec`: weak fairness of the sections of a request, which runs to
  its end; strong fairness of `ExpireMissing`, because the host gives up on the
  missing sooner or later, and of each browser's `Heartbeat`, because the page sends
  one periodically. They are strong because another request may be in the way each
  time. Nothing is assumed about submissions, drops, timeouts or joins.
- `Consortium!FairSpec`: weak fairness of the driver's next statement. Crashes and
  launches are free.
- `DemoStream!FairSpec`: weak fairness of the server's threads, of the two channels, of
  the keepalive and poll timers, and of the end of editing. Breaks are bounded.
- `DemoPage!PageFairSpec`: weak fairness of the service's sections and of snapshots
  (`Push`), strong fairness of `Retry`, because the user presses the button while the
  assignment lasts, and of a job's next step, because a request finds the service
  busy with another's now and then. The host and the other browsers are free.


## 4. Where code and documents disagree

Where the code does something else than a document or a comment says, a configuration
ends in a violation. Two of them are runs of `PROJECT.json`, whose findings quote the
sentence:

- `engine_ledger_failure` of `MCRoundEngine`, property `NoPartialCommit`:
  `docs/rfcs/RFC-0013-coordinator-runtime.md:298-299` promises that there is no partial
  commit. When the ledger append fails after the artifact was renamed into place, the
  round is ABORTED (`coordinator.py:487-494`), the directory of round t + 1 stays, and
  part of the line may. `save_checkpoint` refuses an existing directory, so each later
  attempt of round t aborts too. What does hold after any abort is `AbortLeavesModel`.
- `demo_overlap` of `DemoService`, property `RevisionsAreChained`: `_close_round_lewm` documents
  `state[r] = state[r-1] + mean(deltas[r])`. Two submissions in two threads can both
  be recorded before either asks whether the round is ready; both close it, and
  the run has two revisions of one round on the same parent
  (`demo/federated.py:1077`). What does hold is `RoundsAreAveraged`.

The other five are in configurations of their own, run by hand:

- `engine_reduction` of `MCRoundEngine`, property `NeverWedged`:
  `docs/rfcs/RFC-0013-coordinator-runtime.md:348-350` says that a mismatch of the
  reduction drives the round to ABORTED. The preview and
  the step in COMMITTING check it outside every handler (`coordinator.py:477`, `:498`); an
  error there leaves COMMITTING, from which COLLECTING is an illegal transition.
- `secagg_wrap` of `MCSecureAggregation`, property `SumNeverWraps`:
  `docs/rfcs/RFC-0011-secure-aggregation.md:223-224` says that the integer sum never wraps,
  and at 240 and 392 that this is asserted at setup. Neither encoding, masking nor
  aggregation does (`masking.py:156-289`); `assert_no_wrap` is called by the report on a
  round that has committed (`phase3_privacy.py:338`). What does hold is
  `RevealedIsSurvivorsSum`.
- `secagg_shares` of `MCSecureAggregation`, property `NoMaskRevealed`: the same document has,
  at 389, a `mask_reconstruction_failed` error for too few shares. The aggregator counts
  updates, not shares (`masking.py:270`), so too few shares reveal a sum with masks in it.
- `evidence_drift` of `MCEvidencePipeline`, property `ReportCannotDrift`:
  `docs/roadmap/PHASE3.md:538-541` says that a checked-in report cannot drift from the
  release artifacts. `final_global_model_hash` of the report is never compared with the
  checkpoint (`phase3_bundle.py:948`), and runs of the smoke share their run-manifest
  hash, because their date is a constant: the report of one is bundled with the
  checkpoint of another that computed a different model.
- `evidence_identity` of `MCEvidencePipeline`, property `OneIdentity`: `CHANGELOG.md:78-79`
  says that bundles that combine different consortium or run identities are rejected.
  The observability report is compared by its status alone (`phase3_bundle.py:478`).

The following is plain from reading, or excused by name in a property above:

- The service accepts an update of another length and bars a replacement
  (`service.py:397`, `:408`), and it makes every attempt raise past the retry count
  (`:481`): the round neither closes nor is given up. `AssignedRoundEnds` excuses it.
- A later Commitment overwrites the root a cached update was checked against
  (`network.py:349`); `AveragedWasBound` is about the root at the time of sending.
- `round_state.json` is rewritten in place to record the submission (`agent.py:718`);
  a crash inside that write leaves a release no resume can replay, where
  `CHANGELOG.md:533-537` promises that a restart resumes. `AssignedIsReleased` excuses it.
- An update that arrives after the recovery data was drawn up makes the aggregator's
  lookup raise a `KeyError`.
- The engine constructs its ledger empty over an existing `ledger.jsonl` and appends to
  whatever the file ends with (`ledger.py:175-176`): a line without its end swallows the
  first record of a relaunch. `LedgerTellsRun` says so.
- The bundle builder does not ask whether the report's run completed: over a leftover
  `round-Target` the report of a blocked run passes. `BundleBindsOneRun` is about
  reports of completed runs. The driver's blocked path never uses the retry budget.
- A host's keepalive is a ping, answered without a snapshot, so a host's page may stay
  on an old state that a dropped render left; `PageShowsFinalRun` is about participants.
  Two emitting threads may give two events one number (`demo/federated.py:1322`).
- A failed learner job is never started again by itself, although the page says
  "Keep this tab open; it rejoins and resumes automatically" (`app.mjs:1510`), and the
  cached promise of a runtime that failed to load makes "Retry local learner" fail
  until the page is reloaded. `PageDelivers` assumes the user and excuses the runtime.
- The reported dropout policy has an effective quorum of `max(min_trainers, K)` where
  the engine enforces K (`service.py:251`), and `RUN_TRANSITIONS` in the browser
  client's `lifecycle.mjs` has no edge from ready to joining, which
  `drop_participant` takes.


## 5. What is proved

All proofs hold for every value of the constants the modules' named assumptions
admit (`EngineAssumption`, `ServiceAssumption`, `NetworkAssumption`,
`AgentAssumption`, `ConsortiumAssumption`, `AggregationAssumption`,
`DemoAssumption`, `PageAssumption`, `StreamAssumption`, `MerkleAssumption`,
`LedgerAssumption`, `EvidenceAssumption`). `RecordsProofs` holds the proofs of three
components that share no state and of the commitments. Each inductive invariant was first checked with TLC under the
constants of the module's run.

### RoundEngine, for all participants, deltas, quorums, fault kinds, fault numbers, rounds and run lengths

- `TypeCorrect`: `Spec => []TypeOK`.
- `LedgerIsTrueAccount`, `LedgerAlwaysResolves`, `AnnouncedIsCanonical`:
  the three data invariants of `engine_faults`.
- `ImplementsChain`: `Spec => ImplementsCommitChain`. The engine, with every failure
  and retry, implements the abstract chain.

The properties relate state that is brought into agreement by several statements
of one call, so none is inductive. `IInv` adds what a call has established by the
statement it is at: `AtStep` ties `pc` to the driver's state; `Depth` says that the
params have as many steps as rounds were closed, and what was announced;
`Attempt` says that beyond COLLECTING the updates are valid, one per participant
and a quorum, that the candidate is the previewed step, and that before the
append the artifact it names is on disk; `LedgerTip` says when the ledger is one
record ahead: between append and commit, or for good after the commit's own
reduction failed. `CommitIsChainStep` shows that `CommitRound` is `Chain!Commit`,
`ChainNext` that each other action is `Chain!Announce` or a stutter.

- `AbortKeepsModel`: `Spec => []AbortLeavesModel`, for every set of the six kinds of
  fault. It needs a second invariant, `Leftovers`: the directory is at most one artifact
  ahead of the model, and the file is the ledger until an append fails behind such an
  artifact, which then keeps every later attempt from appending.
- `CallerMayRetry`: `NeverWedged` for every set of the faults the round body handles
  (`HandledFaults`: transport, self-check, checkpoint, ledger append). With the
  reduction it is false, which is `engine_reduction`.

### CoordinatorService, for all participants, quorums, budgets, deltas and rounds

- `TypeCorrect`: `Spec => []TypeOK`.
- `AcceptanceHolds`, `AbortIsFinal`, `TraceIsTrue`: the safety properties of
  `service_policy`; and `AdmissionEnds`, that nobody joins after the first assignment.

`AcceptedIsAveraged` compares what participants were told with what rounds
contain, and these are set by different calls. The strengthening says when they
may differ: `StagedIsAccepted`, an update is staged exactly if it was accepted, one
per participant and round; `ChainIsStaged`, each committed round averaged all that
was staged for it, and nothing is staged for a round that is not open yet. Hence
late timeouts, dropouts and rejections, which change `member` only, cannot take
an update out. `AssignedClosesAdmission` is what `ConsortiumFixed` needs.

### NetworkedRound, for all participants, roots, quorums, message counts and rounds

- `TypeCorrect`: `Spec => []TypeOK`.
- `OnlyBoundIsAveraged`, `BoundIsKept`, `ReportIsCovered`, `GivenUpBelowQuorum`: the four
  safety invariants of `network_ingress`, for every retry budget.
- `ImplementsChain`: `Spec => ImplementsCommitChain`.

An Update is bound or not when it is sent, and judged when it is received, with
other messages in between. `RootAfter(k, p, t, r)` is the root the coordinator
will hold for p in round t after k more messages; `DeclaredArrives` says that after
the whole inbox it is the declared one, and `AcceptedWasBound`, `BoundArrives` that
an Update in the inbox will meet the root it was sent under exactly if it was
bound. `SendShift` and `ReceiveShift` carry these over a message that is appended
or taken. `GivenUp` adds that only the announced round can have been given up, after
which nothing is received any more. `Account` then follows the validated updates into the present set, the
chain and the report. FIFO delivery is what the argument rests on.

### ParticipantAgent, for all releases, rounds and numbers of crashes

- `TypeCorrect`: `Spec => []TypeOK`.
- `ReplaysRelease`: the safety invariant of `agent_resume`; `FindsDelta` and
  `SubmittedStaged`: a whole record describes the delta beside it, and never claims
  more than the coordinator holds.

`ResumeReplaysRelease` speaks of what was released, the files of what will be. The
link is `ReleasedIsRecorded`: of a round not run anew nothing is released before
its record exists, and while the record can be read only what it names.
`InFlight` says what a living process knows of the files at its statement. The
induction shows why the delta is written before the record and the record before
the submission.

### Consortium, for all trainers, rosters, policies, rounds, launches and leftovers

- `BundleIsOfOneRun`: `Spec => []BundleBindsOneRun`.
- `RowsAreOfThisRun`: the rows a launch has collected are the steps of its own model,
  also when a round was blocked.
- `LedgerIsOfThisRun`: `Spec => []LedgerTellsRun`.

A bundle is put together from files written by different launches. `Stamped` says
that while a launch is past its clearing no manifest stands for an earlier report,
so a report and a manifest of one number are of one launch; `Saved` says that a
checkpoint of a round is unique and is written before the model counts; `RowsTell`
ties the summaries to the model. The ledger needs a second invariant, because an
agent submits to the transport first and its record and the service's answer
follow: `Handed`, that what the transport holds is recorded as submitted and, for the
open round, is of agents whose turn has come; hence a roster must name each
participant once, which the launcher checks and `ConsortiumAssumption` says. `Told`
then follows the records of the object and the last lines of the file through the
close, the append of a round being one ahead of its commit, and `Lines` says which line
an earlier launch can have left without its end: the last, and none once this launch
has appended.

### SecureAggregation, for all participants, thresholds, keys, dropouts and moduli

- `AggregationTypeCorrect`: `Spec => []TypeOK`.
- `MasksAlwaysCancel`: `Spec => []MasksCancel`.
- `RevealedSum`: `Spec => []RevealedIsSurvivorsSum`.
- `LiftUndoesEncode`: `_lift_to_signed` undoes the encoding below half the modulus.
- `ShamirReconstructs`: the shares of a polynomial over a prime field, as many as it has
  coefficients and at any points but 0, reconstruct its constant term.
- `EveryThresholdReconstructs`: `SharesReconstruct`, any threshold of a secret's shares
  give it back. TLC also evaluates it for every polynomial of the instance
  (`SharesDoReconstruct` in `MCSecureAggregation`).

They rest on `PrimeAssumption`, that the modulus of the sharing is a prime (2^127 - 1 in
the code), and on `AggregationAssumption`: fewer participants than the prime, which
the two bytes a share has for its point ensure, polynomials of `Threshold`
coefficients, and secrets that differ.

`ShamirReconstructs` is by divided differences: the sum over the nodes T of h(x)
divided by the product of the x - o. A factor x - a of h cancels the node a
(`DifferenceWithout`); hence the divided difference of a constant is 0 over two nodes and
more (`ConstantVanishes`), and, coefficient by coefficient of Horner's rule, that of
a polynomial over more nodes than it has coefficients (`PolynomialVanishes`). With 0 and the
points of the shares for nodes this is Lagrange's formula at 0, as `shamir_reconstruct`
computes it. Division is possible because the least positive multiple of an
element, modulo the prime, divides the prime (`InverseExists`).

For the masks, `SelfMasks` and `PairMasks`
give the coefficient of every mask at every moment of the three loops; the two
terms of a pair cancel when both updates are in, and the loop over the dropouts
undoes the one that has no partner.

`RevealedSum` needs what a sum over a set is. `FoldExists` shows that the fold of the
community modules computes one, by the least size at which it would not;
`TotalIsSum` that it is the sum, whatever the order; `SumBound` that it stays
below the number of participants times the largest norm. `PlainTells` says that the
running total is the encoded sum modulo the field, for every modulus, so that what is
lifted is congruent to the sum; `FittingSumIsExact` that it is the sum where
`assert_no_wrap` would accept. With fewer shares than the threshold nothing is claimed,
and without a fitting modulus no more than the congruence: section 4.

### DemoService, for all browsers, quorums, slots and rounds

- `TypeCorrect`: `Spec => []TypeOK`, for any number of requests in flight.
- `NoRoundWithoutMean`: `Spec => []RoundsAreAveraged`, for any number of requests in
  flight, however they overlap. The invariant (`Averaged`) counts the requests that
  have published and not yet advanced the run: the run's round is at most what the
  revisions and these requests account for.
- `RoundStaffed`, `RevisionsChained`, `SubmissionsCount`:
  `Spec /\ [][NoOverlap]_vars => []P` for `RoundIsStaffed`, `RevisionsAreChained` and
  `SubmissionCounts`. The number of threads is free; the premise is about behaviours, those
  in which a request takes a step only while no other is under way, and nothing in the
  code enforces it. They say what can only go wrong by an overlap, as `demo_overlap`
  shows it does.

`Established(l)` says what a request has ensured by the section it is at: at the
close everyone active has submitted, at the publication the contributors are the
active participants. `Staffed` is `RoundIsStaffed` at every section. `History` ties
statuses to submissions: who still works on the round has not submitted for it, and
nobody is ahead of the run. Together they give that `Submitted` is `Active` when a
round closes, on which the three rest.

### DemoPage, for all pages, faults and what `DemoService` is proved for

- `PageImplementsService`: `PageSpec => Spec`. A run with a page is a run of the
  service, so that what is proved of the service holds for it.
- `JobsTell`: `PageSpec /\ [][NoOverlap]_vars => []JobsTellService`, under the same premise
  on the service's requests.

The second follows from the first, the service's invariant and one more: a posted job
has its update recorded with the service, or on its way in the one request at work,
which was for the active round and revision. That a submission was checked against
the revision it trained from is why a late one cannot be taken for a later round.

### DemoStream, for every size of the log and any number of changes, breaks and edits

- `TypeCorrect`: `Spec => []TypeOK`.
- `ReplayHasNoGaps`: `Spec => []ReplayIsGapless`.

A page's position and its thread's are apart by what is in between them. `Pipe`
says that each retained event behind the thread's position and beyond the page's
is in the channel, or held by the thread behind everything in the channel, in
order of numbers; so taking a message moves the page's position over nothing it
was not given. `PipeSends` carries this over a message that is sent, and a new
connection starts with an empty channel at the page's own position.

### DatasetMerkle and ContributionLedger, for all data sets, files, objects, failed writes and edits

- `ReceiptFixes`, `IntactVerifies`, `AcknowledgedStays`, `AuditTells`: the four
  ledger invariants of `records`.

`LedgerInv` says of which records the file is (`LedgerTyped`), that the digest returned
last is of the last record attested (`ReceiptTells`), that without mishaps the
object has the file (`Intact`), and, what `AcknowledgedIsKept` lacks to be inductive,
that without edits the object's own records are a prefix of every file that verifies
(`Kept`): an object that began empty over old lines makes the file unverifiable
with its first append. `ChainsAgree` is the heart of `ReceiptFixes`: two chains that
verify and end with one record are equal, by the last place where they differ.

`AuditTells` is about trees of any size. Completeness: `ProofsTell` follows a proof up
the levels (`WitnessTells`), so what is computed from an episode's proof is always
the root its data set has; a proof is therefore accepted by that root and by no
other. Injectivity: `RootTells` reads the sorted episodes off a root. A node stands
for a stretch of the episodes, each level's nodes for adjacent stretches that cover
them all (`Spelled`, `SpelledOn`), and a node cannot stand for two different ones
(`OneSpelling`, by the shortest stretch where it would), because leaves and inner
nodes are hashed in different domains and an odd node is promoted, not doubled.

### EvidencePipeline, for all configurations, builds, controls and numbers of runs

- `OnlyCorrectedIsCurrent`, `LauncherCheckpoint`, `RegenerationAlwaysSucceeds`: the
  three evidence invariants of `records`.

`EvidenceInv` adds to the three what each file says of the run it was made from
(`ReportsTell`), what a run under way has ensured by its statement (`UnderWay`) and
what a directory's manifest and checkpoint are of (`DirTells`): beside the manifest a
completed launcher's report names there is that run's model, because the old manifest
is deleted before a run writes, a run over a leftover of its last checkpoint does not
complete, the manifest is written last, and the launcher's runs differ in their dates.

### What stays with TLC

Liveness under fairness (`ReadyRoundCommits`, `AssignedRoundEnds`, `QuorumCommits` (in `network_rounds`),
`AssignedIsReleased`, `RoundEnds`, `PausedResumes`, `BootedRunReports`,
`PageShowsFinalRun`, `PageDelivers`), which is beyond the prover. Every other property
of a passing run is stated by a theorem, `RoundIsStaffed`, `SubmissionCounts` and
`JobsTellService` for behaviours whose requests do not overlap.

The library's induction theorems take an operator as a parameter, which the provers
cannot instantiate. Where a proof here needs induction over numbers or sets it
takes the least counterexample (`LeastNumber`, `SmallestSubset`), which is a fact about
one set and needs no operator.


## 6. What is not modelled, and why

- **Tensor arithmetic**: the outer step, alignment, drift, DP accounting and
  evaluation are functions over the reals. The engine keeps their call sites,
  that they may raise, and that the previewed and the committed step fold the
  same updates.
- **Restart of the coordinator**: there is no recovery path to model. A
  coordinator constructed over an existing `artifacts_dir` finds `round-00000`
  and raises.
- **The participant's side of `NetworkedTransport`** and the store per node
  (`commit`, `fetch_params`), from which `join` and `recover` load the announced weights:
  content-addressed and verified by hash, so that a wrong store raises. It is the
  next module of the plan.
- **Canonical bytes and digests of an episode**: an episode is a number, and equal
  digests are equal preimages.
- **Differential privacy, gauge, residency guard**: functions without state. Whether a
  round's budget admits its contributors is `BudgetContributors`.
- **Preflight, observability, CLI, data adapters, configuration, networks and
  evaluation**: file and tensor I/O without interleaving; the results of validation
  are the modules' assumptions. Of evidence bundles
  what the files are compared by is modelled; assembling and formatting their fields
  is most of `phase3_bundle.py` and `phase3_observability.py`. `dynamic_env_bundle.py`
  is one function from files to a bundle, without a second writer.
- **Governance** (`config/consortium.py`, `data/phase3.py`): validation of files once
  before a launch, with no state afterwards.
- **HTTP and WebSocket framing** in `demo/server.py`, rendering, the learner's
  arithmetic and the simulated front end in `web/`.

These parts are the greater share of the repository's lines, and are the reason why
the modules stand for about an eighth of them: networks, metrics, validation and
report building have no states a model checker would tell apart.


## 7. Plan

Modelled first, because everything else rests on it: the engine and its abstract
chain; then the service that drives it, the transport that feeds it, the agent at
the far end, and the demo service; then the consortium run that composes them, the
masked aggregation, the demo's stream and pages, the evidence made of a run, and
the ledger with its commitments. Next, in this order:

1. `TransportStore`: the fetch store per node, recovery and corrupted weights,
   in-process and networked, with the participant's inbox.
2. `DemoStream` with two emitting threads, and `DemoPage` with two threads of the
   service.
3. The operator's `abort_round` while messages arrive, in `NetworkedRound`: it is in
   `CoordinatorService` only.
