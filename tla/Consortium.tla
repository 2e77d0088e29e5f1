----------------------------- MODULE Consortium -----------------------------
(***************************************************************************)
(* A Phase 3 consortium run (lensemble.federation.phase3_orchestration):   *)
(* run_phase3_consortium clears the run directory, starts the coordinator  *)
(* service and the participants' agents, drives the rounds, writes the run *)
(* manifest, and the launcher writes the report the evidence bundle is     *)
(* built from.  A run may die at any statement and be launched again on    *)
(* the same directory, which shutil.rmtree(ignore_errors=True) may fail to *)
(* clear.                                                                  *)
(*                                                                         *)
(* The driver is sequential: pc is the statement it is at.  The service    *)
(* and the transport live in its memory and follow module                  *)
(* CoordinatorService; the checkpoints, the ledger, the agents' round      *)
(* states, the manifest and the report are on disk and outlive it.         *)
(***************************************************************************)
EXTENDS Integers, Sequences, FiniteSets

CONSTANTS
  Trainer, Delta, MinParticipants, SecureAggThreshold, RetryBudget,
  BudgetContributors,
  Rosters,    \* participant_ids a caller may pass
  Target,     \* rounds of a run
  MaxRuns,    \* bound: launches on the directory
  Leftovers,  \* trees rmtree may fail to clear: "artifacts", "agents"
  Nothing,    \* there is no file
  Torn        \* a file, or a line, cut off in the middle

ASSUME ConsortiumAssumption ==
  /\ MinParticipants \in Nat \ {0} /\ SecureAggThreshold \in Nat \ {0}
  /\ RetryBudget \in Nat /\ BudgetContributors \in Nat
  /\ Rosters \subseteq Seq(Trainer) \ {<<>>}
  /\ \A r \in Rosters : \A i, j \in DOMAIN r : r[i] = r[j] => i = j
  /\ Target \in Nat \ {0} /\ MaxRuns \in Nat
  /\ Nothing \notin Nat /\ Torn \notin Nat

VARIABLES
  member, admissionOpen, abortedRounds, retries, staged, chain, engineStuck, trace,
  pc,          \* the statement the process is at; "down": no process
  run,         \* the launch, which generated_at tells from the others
  roster,      \* participant_ids
  turn,        \* the participant the loop is at
  rows,        \* round_summaries
  ledger,      \* the records of the ledger object
  foundCut,    \* history: the ledger file the launch found ends within a line
  checkpoints, \* coordinator-artifacts/round-XXXXX
  ledgerFile,  \* the lines of coordinator-artifacts/ledger.jsonl
  cutOff,      \* the last of them lacks its end
  records,     \* participant-agents/<who>/round-XXXXX/round_state.json
  manifest,    \* phase3_run_manifest.json
  report,      \* phase3_long_run_smoke_report.json
  crashed      \* history: the launches that died

service == <<member, admissionOpen, abortedRounds, retries, staged, chain,
             engineStuck, trace>>
driver  == <<run, roster, turn, rows, ledger, foundCut>>
disk    == <<checkpoints, ledgerFile, cutOff, records, manifest, report>>
vars    == <<service, pc, driver, disk, crashed>>

Service == INSTANCE CoordinatorService
             WITH Malformed <- {}, EngineFaults <- {}, MaxRounds <- Target

Round  == Service!Round
Rounds == 0..(Target - 1)

\* What the outer step of the collected updates makes of the global model.
NextModel == Append(chain, Service!Collected(Round))

Init ==
  /\ Service!Init
  /\ pc = "down" /\ run = 0 /\ roster = <<>> /\ turn = 1 /\ rows = <<>>
  /\ ledger = <<>> /\ foundCut = FALSE
  /\ checkpoints = {} /\ ledgerFile = <<>> /\ cutOff = FALSE /\ records = {}
  /\ manifest = Nothing /\ report = Nothing
  /\ crashed = {}

\* The process is gone and its memory with it.
End ==
  /\ pc' = "down"
  /\ member' = [p \in Trainer |-> Service!DeclaredTrainer]
  /\ admissionOpen' = TRUE /\ abortedRounds' = {} /\ retries' = 0
  /\ staged' = {} /\ chain' = <<>> /\ engineStuck' = FALSE /\ trace' = {}
  /\ roster' = <<>> /\ turn' = 1 /\ rows' = <<>> /\ UNCHANGED run
  /\ ledger' = <<>> /\ foundCut' = FALSE

-----------------------------------------------------------------------------
(***************************************************************************)
(* The directory is prepared and the runtime started.                      *)
(***************************************************************************)
Launch(r) ==
  /\ pc = "down" /\ run < MaxRuns
  /\ run' = run + 1 /\ roster' = r /\ pc' = "clear_artifacts"
  /\ UNCHANGED <<service, turn, rows, ledger, foundCut, disk, crashed>>

\* rmtree deletes what it can and reports nothing.
ClearArtifacts ==
  /\ pc = "clear_artifacts"
  /\ IF "artifacts" \in Leftovers
     THEN /\ checkpoints' \in SUBSET checkpoints
          /\ \/ ledgerFile' = <<>> /\ cutOff' = FALSE
             \/ UNCHANGED <<ledgerFile, cutOff>>
     ELSE checkpoints' = {} /\ ledgerFile' = <<>> /\ cutOff' = FALSE
  /\ pc' = "clear_agents"
  /\ UNCHANGED <<service, driver, records, manifest, report, crashed>>

ClearAgents ==
  /\ pc = "clear_agents"
  /\ records' \in IF "agents" \in Leftovers THEN {{}, records} ELSE {{}}
  /\ pc' = "clear_manifest"
  /\ UNCHANGED <<service, driver, checkpoints, ledgerFile, cutOff, manifest, report, crashed>>

\* Mutant: the manifest is left to be overwritten.
ClearManifestKept ==
  /\ pc = "clear_manifest"
  /\ pc' = "boot"
  /\ UNCHANGED <<service, driver, disk, crashed>>

\* The report of an earlier run is not removed.
ClearManifest ==
  /\ pc = "clear_manifest"
  /\ manifest' = Nothing
  /\ pc' = "boot"
  /\ UNCHANGED <<service, driver, checkpoints, ledgerFile, cutOff, records, report, crashed>>

RoundDirExists(t) == \E c \in checkpoints : c.round = t

\* Coordinator.__init__ saves round 0; an existing directory is refused, and
\* no handler catches it.  The ledger is an empty one over the file as it is.
Boot ==
  /\ pc = "boot"
  /\ IF RoundDirExists(0)
     THEN End /\ UNCHANGED checkpoints
     ELSE /\ checkpoints' = checkpoints \cup {[round |-> 0, model |-> <<>>]}
          /\ foundCut' = cutOff
          /\ pc' = "join"
          /\ UNCHANGED <<service, run, roster, turn, rows, ledger>>
  /\ UNCHANGED <<ledgerFile, cutOff, records, manifest, report, crashed>>

\* The loops over participant_ids.
NextTurn(here, next) ==
  IF turn < Len(roster) THEN turn' = turn + 1 /\ pc' = here
                        ELSE turn' = 1 /\ pc' = next

Join ==
  /\ pc = "join"
  /\ Service!Join(roster[turn])
  /\ NextTurn("join", "assign")
  /\ UNCHANGED <<run, roster, rows, ledger, foundCut, disk, crashed>>

-----------------------------------------------------------------------------
(***************************************************************************)
(* A round: everyone is assigned, then each agent runs and its update is   *)
(* handed to the service, then the round is closed.                        *)
(***************************************************************************)
\* Mutant: the participants are assigned once, before the first round.
AssignFirstOnly ==
  /\ pc = "assign"
  /\ IF Round = 0 THEN Service!AssignRound(roster[turn]) ELSE UNCHANGED service
  /\ NextTurn("assign", "persist")
  /\ UNCHANGED <<run, roster, rows, ledger, foundCut, disk, crashed>>

Assign ==
  /\ pc = "assign"
  /\ Service!AssignRound(roster[turn])
  /\ NextTurn("assign", "persist")
  /\ UNCHANGED <<run, roster, rows, ledger, foundCut, disk, crashed>>

RoundState(who, t, d, submitted) ==
  [who |-> who, round |-> t, delta |-> d, submitted |-> submitted]

\* The records without what the agent overwrites.
Others(who, t) == {s \in records : s.who # who \/ s.round # t}

\* run_assigned_round without resume: trained anew, whatever is recorded.
Persist ==
  /\ pc = "persist"
  /\ \E d \in Delta :
       records' = Others(roster[turn], Round)
                    \cup {RoundState(roster[turn], Round, d, FALSE)}
  /\ pc' = "release"
  /\ UNCHANGED <<service, driver, checkpoints, ledgerFile, cutOff, manifest, report, crashed>>

\* Mutant: the submission is not recorded.
ReleaseUnmarked ==
  /\ pc = "release"
  /\ \E s \in records :
       /\ s.who = roster[turn] /\ s.round = Round
       /\ staged' = staged \cup {[who |-> s.who, round |-> s.round, delta |-> s.delta]}
  /\ pc' = "submit"
  /\ UNCHANGED <<member, admissionOpen, abortedRounds, retries, chain, engineStuck,
                 trace, driver, disk, crashed>>

\* The agent hands its update to the transport itself and records that it did;
\* dying between the two is dying before the first, for the transport dies too.
Release ==
  /\ pc = "release"
  /\ \E s \in records :
       /\ s.who = roster[turn] /\ s.round = Round
       /\ staged' = staged \cup {[who |-> s.who, round |-> s.round, delta |-> s.delta]}
       /\ records' = Others(s.who, Round) \cup {RoundState(s.who, Round, s.delta, TRUE)}
  /\ pc' = "submit"
  /\ UNCHANGED <<member, admissionOpen, abortedRounds, retries, chain, engineStuck,
                 trace, driver, checkpoints, ledgerFile, cutOff, manifest, report, crashed>>

\* What the transport holds is submitted through the service; a refusal raises.
Submit ==
  /\ pc = "submit"
  /\ \E u \in Service!Collected(Round) :
       /\ u.who = roster[turn]
       /\ IF member[u.who].assigned = Round
          THEN /\ Service!SubmitUpdate(u.who, u.delta)
               /\ NextTurn("persist", "close")
               /\ UNCHANGED <<run, roster, rows, ledger, foundCut>>
          ELSE End
  /\ UNCHANGED <<disk, crashed>>

QuorumIsThere ==
  Cardinality(Service!Contributors(Service!Collected(Round))) >= Service!Quorum

\* close_round, up to the engine's artifact of the next model; a directory left
\* by an earlier run is refused and the error passes through the driver.
CloseSaves ==
  /\ pc = "close" /\ QuorumIsThere
  /\ IF RoundDirExists(Round + 1)
     THEN End /\ UNCHANGED checkpoints
     ELSE /\ checkpoints' = checkpoints \cup {[round |-> Round + 1, model |-> NextModel]}
          /\ pc' = "append"
          /\ UNCHANGED <<service, driver>>
  /\ UNCHANGED <<ledgerFile, cutOff, records, manifest, report, crashed>>

NewRecord == [round |-> Round, who |-> Service!Contributors(Service!Collected(Round)),
              model |-> NextModel]

\* The file after this was written to its end: a line without its end swallows it.
LedgerWith(line) ==
  IF cutOff THEN [ledgerFile EXCEPT ![Len(ledgerFile)] = Torn]
            ELSE Append(ledgerFile, line)

CloseAppends ==
  /\ pc = "append"
  /\ ledgerFile' = LedgerWith(NewRecord) /\ cutOff' = FALSE
  /\ ledger' = Append(ledger, NewRecord)
  /\ pc' = "commit"
  /\ UNCHANGED <<service, run, roster, turn, rows, foundCut, checkpoints, records,
                 manifest, report, crashed>>

\* The round is committed; a privacy report that cannot be built then raises.
CloseCommits ==
  /\ pc = "commit"
  /\ IF Cardinality(Service!Collected(Round)) <= BudgetContributors
     THEN Service!CloseCommits /\ pc' = "summary" /\ UNCHANGED driver
     ELSE End
  /\ UNCHANGED <<disk, crashed>>

\* Below K: a blocker, and the run goes on to its manifest and report.
CloseBlocked ==
  /\ pc = "close" /\ ~ QuorumIsThere
  /\ Service!CloseBelowQuorum
  /\ pc' = "manifest"
  /\ UNCHANGED <<driver, disk, crashed>>

\* One row per closed round, taken from the last record in the ledger object.
Summarize ==
  /\ pc = "summary"
  /\ rows' = Append(rows, ledger[Len(ledger)])
  /\ pc' = IF Len(rows') = Target THEN "manifest" ELSE "assign"
  /\ UNCHANGED <<service, run, roster, turn, ledger, foundCut, disk, crashed>>

-----------------------------------------------------------------------------
WriteManifest ==
  /\ pc = "manifest"
  /\ manifest' = run
  /\ pc' = "report"
  /\ UNCHANGED <<service, driver, checkpoints, ledgerFile, cutOff, records, report, crashed>>

\* _assemble_long_run_report, and the launcher writes it.
WriteReport ==
  /\ pc = "report"
  /\ report' = [run |-> run, rows |-> rows, final |-> chain,
                completed |-> Len(rows) >= Target]
  /\ End
  /\ UNCHANGED <<checkpoints, ledgerFile, cutOff, records, manifest, crashed>>

\* The process is killed, or a statement raises: the driver catches nothing.  What
\* it was writing is cut off, a ledger record possibly just before its line's end.
Crash ==
  /\ pc # "down"
  /\ End
  /\ crashed' = crashed \cup {run}
  /\ \/ UNCHANGED <<ledgerFile, cutOff>>
     \/ /\ pc = "append"
        /\ ledgerFile' \in {LedgerWith(Torn), LedgerWith(NewRecord)} /\ cutOff' = TRUE
  /\ manifest' \in IF pc = "manifest" THEN {manifest, Torn} ELSE {manifest}
  /\ report' \in IF pc = "report" THEN {report, Torn} ELSE {report}
  /\ UNCHANGED <<checkpoints, records>>

Step ==
  \/ ClearArtifacts \/ ClearAgents \/ ClearManifest \/ Boot \/ Join
  \/ Assign \/ Persist \/ Release \/ Submit
  \/ CloseSaves \/ CloseAppends \/ CloseCommits \/ CloseBlocked \/ Summarize
  \/ WriteManifest \/ WriteReport

Next == (\E r \in Rosters : Launch(r)) \/ Step \/ Crash

Spec == Init /\ [][Next]_vars

\* A process that is not killed executes its next statement.
FairSpec == Spec /\ WF_vars(Step)

-----------------------------------------------------------------------------
(***************************************************************************)
(* Properties.                                                             *)
(***************************************************************************)

Running == pc \notin {"down", "clear_artifacts", "clear_agents", "clear_manifest", "boot"}

\* How many records the run has appended.
Appended == Len(chain) + IF pc = "commit" THEN 1 ELSE 0

\* Whatever an earlier run left behind, also one that died while it wrote a record:
\* the ledger object has exactly this run's outer steps in order, each with its
\* artifact on disk and, on every contributor's side, a round_state that says this
\* very update was submitted; and the last lines of ledger.jsonl are these records,
\* save that a line left unfinished swallows the first of them (ContributionLedger
\* .append opens the file as it is and never looks at what it ends with).
LedgerTellsRun ==
  Running =>
    /\ Len(ledger) = Appended /\ Len(ledgerFile) >= Appended
    /\ \A t \in 1..Appended :
         LET r    == ledger[t]
             line == ledgerFile[Len(ledgerFile) - Appended + t]
         IN
         /\ line = r \/ (t = 1 /\ foundCut /\ line = Torn)
         /\ r.round = t - 1
         /\ [round |-> t, model |-> r.model] \in checkpoints
         /\ r.who = Service!Contributors(r.model[t])
         /\ \A u \in r.model[t] : RoundState(u.who, t - 1, u.delta, TRUE) \in records
         /\ t <= Len(chain) => r.model = SubSeq(chain, 1, t)

Readable(file) == file \notin {Nothing, Torn}

\* What the bundle builder requires of the directory: a report it can parse, the
\* manifest that report describes, and the last round's checkpoint.
Accepted ==
  Readable(report) /\ manifest = report.run /\ RoundDirExists(Target)

\* Whatever is on disk, at any moment and after any crashes: a bundle that can be
\* built from a report of a completed run carries that run's final model, and
\* the report's rows are the steps that lead to it.
BundleBindsOneRun ==
  Accepted /\ report.completed =>
    /\ [round |-> Target, model |-> report.final] \in checkpoints
    /\ Len(report.rows) = Target
    /\ \A t \in 1..Target : report.rows[t].model = SubSeq(report.final, 1, t)

\* A run that boots on a directory with no later round in it, with no more
\* participants than its DP budget admits, ends with its report unless it dies.
BootedRunReports ==
  \A n \in 1..MaxRuns :
    /\ pc = "join" /\ run = n /\ Len(roster) <= BudgetContributors
    /\ \A c \in checkpoints : c.round = 0
    ~> (Readable(report) /\ report.run = n) \/ n \in crashed
=============================================================================
