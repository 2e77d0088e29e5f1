-------------------------- MODULE EvidencePipeline --------------------------
(***************************************************************************)
(* From consortium runs to the Phase 3 evidence bundle.  Five programs     *)
(* hand each other files: a run fills its directory and ends with its      *)
(* long-run report; the eval report is built from a long-run report; the   *)
(* observability report from both; the bundle and its model card from all  *)
(* of them and from the run directory.  Each may be started at any time    *)
(* and in any order, and may die between two files.                        *)
(*                                                                         *)
(* A place is where a run keeps its files: the smoke's, whose report is    *)
(* dated by a constant, and the launcher's, which dates it by the clock.   *)
(* Every file is what it tells of the run it was made from.                *)
(***************************************************************************)
EXTENDS Integers, FiniteSets

CONSTANTS
  Config,    \* configurations a run may have
  LegacyConfig, \* that of the smoke whose evidence is checked in
  Builds,    \* code and platform a run is computed by; what it computes differs
  Controls,  \* gauge reports of separate published runs, [config, model]
  MaxRuns,   \* bound: runs started
  Absent,    \* there is none: no file, no run
  Cut        \* a file cut off in the middle

Places == {"smoke", "launcher"}

\* Before the outer update was corrected: reports of this build have schema 1.
Legacy == 0

\* What there may be: runs, the hashes of their manifests and models, rows of
\* metrics, and the two reports.
AnyRun == [place: Places, config: Config \cup {LegacyConfig}, build: Nat, at: Nat]
Manifests == Places \X Nat \X (Config \cup {LegacyConfig})
Models == Places \X (Config \cup {LegacyConfig}) \X Nat
OwnRows == [config: Config \cup {LegacyConfig}, model: Models]
Statuses == {"historical", "current"}
EvalReports == [run: AnyRun, status: Statuses, controls: SUBSET Controls]
Observabilities ==
  [run: AnyRun, status: Statuses, links: SUBSET (OwnRows \cup Controls)]

ASSUME EvidenceAssumption ==
  /\ Builds \subseteq Nat \ {Legacy} /\ Builds # {}
  /\ MaxRuns \in Nat
  /\ \A row \in Controls : row = [config |-> row.config, model |-> row.model]
  /\ Absent # Cut
  /\ \A none \in {Absent, Cut} :
       /\ none \notin Manifests /\ none \notin Models
       /\ none \notin EvalReports /\ none \notin Observabilities

VARIABLES
  stage,         \* per place: the statement its run is at, or "idle"
  running,       \* per place: the run under way
  closed,        \* per place: that run has closed all its rounds
  runs,          \* how many were started
  dir,           \* per place: run manifest and final checkpoint
  longRun,       \* per place: the long-run report
  evalReport,    \* phase3_eval_report.json
  observability, \* phase3_observability_report.json
  bundler,       \* the bundle script at work: the place and the status it was given
  contracts,     \* the consortium manifest and registry it writes
  bundle         \* phase3_evidence_bundle.json, which contains the model card

runVars == <<stage, running, closed, runs, dir, longRun>>
evidenceVars == <<runVars, evalReport, observability, bundler, contracts, bundle>>

-----------------------------------------------------------------------------
(***************************************************************************)
(* What the files tell.                                                    *)
(***************************************************************************)
\* A run: n is the launcher's clock, which the smoke does not look at.
Run(p, c, b, n) ==
  [place |-> p, config |-> c, build |-> b, at |-> IF p = "smoke" THEN 0 ELSE n]

\* The hash of the run manifest: date, consortium, configuration and shape.
ManifestHash(r) == <<r.place, r.at, r.config>>

\* The hash of the final model, which the same computation arrives at again.
ModelHash(r) == <<r.place, r.config, r.build>>

\* consortium_id and run_id; a run keeps the public probe of its place's contract.
Identity(r) == r.place
Probe(r) == <<r.place, r.build = Legacy>>

Readable(file) == file \notin {Absent, Cut}

\* A report of schema 1 is read as historical whatever it says.
Status(rep) == IF rep.schema = 1 THEN "historical" ELSE rep.status

\* The long-run report of a run, of a blocked one too.
Report(r, completed) ==
  [run |-> r, schema |-> IF r.build = Legacy THEN 1 ELSE 2, status |-> "current",
   completed |-> completed]

\* The metric rows of an eval report: its own run's and the controls'.
OwnRow(r) == [config |-> r.config, model |-> ModelHash(r)]
Rows(e) == {OwnRow(e.run)} \cup e.controls

\* build_phase3_eval_report: status and rows of the long-run report, and the
\* gauge rows of the controls the caller names.
EvalOf(rep, given) == [run |-> rep.run, status |-> Status(rep), controls |-> given]

\* Mutant: rows of another checkpoint are linked when the configuration agrees.
LinksByConfig(rep, e) == {row \in Rows(e) : row.config = rep.run.config}

\* _metric_links: the eval rows with the hashes of the long-run report.
Links(rep, e) ==
  {row \in Rows(e) : row.config = rep.run.config /\ row.model = ModelHash(rep.run)}

\* build_phase3_observability_report; a link with foreign hashes is refused.
ObservabilityOf(rep, e) ==
  [run |-> rep.run, status |-> Status(rep), links |-> Links(rep, e)]
LinksAreBound(o) == \A row \in o.links : row = OwnRow(o.run)

\* The manifest and registry materialized from a long-run report are the smoke's
\* with the report's probe; the launcher's are those its run was governed by.
SmokeContracts(rep) == [id |-> "smoke", probe |-> Probe(rep.run)]
LauncherContracts == [id |-> "launcher", probe |-> <<"launcher", FALSE>>]

\* Mutant: the statuses of the three reports are not compared.
BuildableAnyStatus(rep, e, o, c, d, publication) ==
  /\ Readable(rep) /\ Readable(e) /\ Readable(o)
  /\ c.id = Identity(rep.run) /\ c.probe = Probe(rep.run)
  /\ Status(rep) = "historical" <=> publication = "historical"
  /\ d.manifest = ManifestHash(rep.run) /\ d.checkpoint # Absent

\* build_phase3_evidence_bundle and the bundle's validator, with everything it
\* reads: long-run report, eval report, observability report, contracts, run
\* directory and the publication status asked for.
Buildable(rep, e, o, c, d, publication) ==
  /\ Readable(rep) /\ Readable(e) /\ Readable(o)
  /\ c.id = Identity(rep.run) /\ c.probe = Probe(rep.run)
  /\ Status(rep) = e.status /\ Status(rep) = o.status
  /\ Status(rep) = "historical" <=> publication = "historical"
  /\ d.manifest = ManifestHash(rep.run) /\ d.checkpoint # Absent

Bundle(rep, e, o, c, d, publication) ==
  [run |-> rep.run, completed |-> rep.completed, evaluated |-> e.run, observed |-> o.run,
   contracts |-> c, checkpoint |-> d.checkpoint, publication |-> publication]

Publications == {"local_smoke", "historical"}

-----------------------------------------------------------------------------
NoRun == [manifest |-> Absent, checkpoint |-> Absent]

\* The checked-in evidence: one smoke before the correction, whose run directory
\* was never checked in but may still be there.
EvidenceInit ==
  LET old == Run("smoke", LegacyConfig, Legacy, 0)
      rep == Report(old, TRUE)
      e   == EvalOf(rep, {})
  IN /\ stage = [p \in Places |-> "idle"] /\ running = [p \in Places |-> Absent]
     /\ closed = [p \in Places |-> FALSE] /\ runs = 0
     /\ dir \in {[p \in Places |-> NoRun],
                 [p \in Places |-> IF p = "smoke"
                    THEN [manifest |-> ManifestHash(old), checkpoint |-> ModelHash(old)]
                    ELSE NoRun]}
     /\ longRun = [p \in Places |-> IF p = "smoke" THEN rep ELSE Absent]
     /\ evalReport = e /\ observability = ObservabilityOf(rep, e)
     /\ bundler = Absent /\ contracts = SmokeContracts(rep)
     /\ bundle = Bundle(rep, e, ObservabilityOf(rep, e), SmokeContracts(rep),
                        [manifest |-> ManifestHash(old), checkpoint |-> ModelHash(old)],
                        "historical")

-----------------------------------------------------------------------------
(***************************************************************************)
(* A consortium run at its place.                                          *)
(***************************************************************************)
\* Mutant: the old run manifest is left to be overwritten.
StartRunKeepsManifest(p) ==
  /\ stage[p] = "idle" /\ runs < MaxRuns
  /\ runs' = runs + 1
  /\ \E c \in Config, b \in Builds : running' = [running EXCEPT ![p] = Run(p, c, b, runs')]
  /\ \E left \in {Absent, dir[p].checkpoint} : dir' = [dir EXCEPT ![p].checkpoint = left]
  /\ stage' = [stage EXCEPT ![p] = "train"] /\ closed' = [closed EXCEPT ![p] = FALSE]
  /\ UNCHANGED <<longRun, evalReport, observability, bundler, contracts, bundle>>

\* run_phase3_consortium deletes the run manifest, and of the checkpoints what
\* rmtree can; the earlier report stays.
StartRun(p) ==
  /\ stage[p] = "idle" /\ runs < MaxRuns
  /\ runs' = runs + 1
  /\ \E c \in Config, b \in Builds : running' = [running EXCEPT ![p] = Run(p, c, b, runs')]
  /\ \E left \in {Absent, dir[p].checkpoint} :
       dir' = [dir EXCEPT ![p] = [manifest |-> Absent, checkpoint |-> left]]
  /\ stage' = [stage EXCEPT ![p] = "train"] /\ closed' = [closed EXCEPT ![p] = FALSE]
  /\ UNCHANGED <<longRun, evalReport, observability, bundler, contracts, bundle>>

\* The rounds: all are closed, which an old checkpoint of the last one forbids, or
\* one is blocked.
TrainRounds(p) ==
  /\ stage[p] = "train"
  /\ \E all \in BOOLEAN :
       /\ all => dir[p].checkpoint = Absent
       /\ closed' = [closed EXCEPT ![p] = all]
       /\ dir' = IF all THEN [dir EXCEPT ![p].checkpoint = ModelHash(running[p])] ELSE dir
  /\ stage' = [stage EXCEPT ![p] = "manifest"]
  /\ UNCHANGED <<running, runs, longRun, evalReport, observability, bundler,
                 contracts, bundle>>

WriteManifest(p) ==
  /\ stage[p] = "manifest"
  /\ dir' = [dir EXCEPT ![p].manifest = ManifestHash(running[p])]
  /\ stage' = [stage EXCEPT ![p] = "report"]
  /\ UNCHANGED <<running, closed, runs, longRun, evalReport, observability, bundler,
                 contracts, bundle>>

WriteReport(p) ==
  /\ stage[p] = "report"
  /\ longRun' = [longRun EXCEPT ![p] = Report(running[p], closed[p])]
  /\ stage' = [stage EXCEPT ![p] = "idle"] /\ running' = [running EXCEPT ![p] = Absent]
  /\ UNCHANGED <<closed, runs, dir, evalReport, observability, bundler, contracts, bundle>>

\* A run dies, its report perhaps half written.
RunDies(p) ==
  /\ stage[p] # "idle"
  /\ stage' = [stage EXCEPT ![p] = "idle"] /\ running' = [running EXCEPT ![p] = Absent]
  /\ longRun' \in IF stage[p] = "report" THEN {longRun, [longRun EXCEPT ![p] = Cut]}
                                      ELSE {longRun}
  /\ UNCHANGED <<closed, runs, dir, evalReport, observability, bundler, contracts, bundle>>

\* --normalize-legacy rewrites a historical report in the current schema.
NormalizeLegacy(p) ==
  /\ Readable(longRun[p]) /\ Status(longRun[p]) = "historical"
  /\ longRun' = [longRun EXCEPT ![p].schema = 2, ![p].status = Status(longRun[p])]
  /\ UNCHANGED <<stage, running, closed, runs, dir, evalReport, observability, bundler,
                 contracts, bundle>>

-----------------------------------------------------------------------------
(***************************************************************************)
(* The two reports.                                                        *)
(***************************************************************************)
Evaluate(p, given) ==
  /\ Readable(longRun[p])
  /\ evalReport' \in {EvalOf(longRun[p], given), Cut}
  /\ UNCHANGED <<runVars, observability, bundler, contracts, bundle>>

\* The script runs its own small round with one dropout, in a directory of its own.
Observe(p) ==
  /\ Readable(longRun[p]) /\ Readable(evalReport)
  /\ LET o == ObservabilityOf(longRun[p], evalReport) IN
       /\ LinksAreBound(o)
       /\ observability' \in {o, Cut}
  /\ UNCHANGED <<runVars, evalReport, bundler, contracts, bundle>>

-----------------------------------------------------------------------------
(***************************************************************************)
(* The bundle script.                                                      *)
(***************************************************************************)
\* The contracts are written before anything is compared with them.
WriteContracts(p, publication) ==
  /\ bundler = Absent
  /\ Readable(longRun[p])
  /\ contracts' \in {SmokeContracts(longRun[p]), LauncherContracts}
  /\ bundler' = [place |-> p, publication |-> publication]
  /\ UNCHANGED <<runVars, evalReport, observability, bundle>>

\* Everything is read, compared and hashed and the bundle written, perhaps not to
\* its end; or the script ends with an error and the old bundle stays.
BuildBundle ==
  /\ Readable(bundler)
  /\ LET rep == longRun[bundler.place]
         d   == dir[bundler.place]
     IN bundle' \in IF Buildable(rep, evalReport, observability, contracts, d,
                                bundler.publication)
                    THEN {Bundle(rep, evalReport, observability, contracts, d,
                                 bundler.publication), Cut}
                    ELSE {bundle}
  /\ bundler' = Absent
  /\ UNCHANGED <<runVars, evalReport, observability, contracts>>

\* The script dies with the contracts written.
BundlerDies ==
  /\ Readable(bundler)
  /\ bundler' = Absent
  /\ UNCHANGED <<runVars, evalReport, observability, contracts, bundle>>

-----------------------------------------------------------------------------
EvidenceNext ==
  \/ \E p \in Places :
       \/ StartRun(p) \/ TrainRounds(p) \/ WriteManifest(p) \/ WriteReport(p) \/ RunDies(p)
       \/ NormalizeLegacy(p) \/ Observe(p)
       \/ \E given \in SUBSET Controls : Evaluate(p, given)
       \/ \E publication \in Publications : WriteContracts(p, publication)
  \/ BuildBundle \/ BundlerDies

EvidenceSpec == EvidenceInit /\ [][EvidenceNext]_evidenceVars
-----------------------------------------------------------------------------
(***************************************************************************)
(* Properties.                                                             *)
(***************************************************************************)
\* Whatever was rerun in whatever order: a bundle that is not published as
\* historical carries training, evaluation and observability of runs after the
\* correction, and a historical one of runs before it.
CurrentIsCorrected ==
  Readable(bundle) =>
    \A r \in {bundle.run, bundle.evaluated, bundle.observed} :
      r.build = Legacy <=> bundle.publication = "historical"

\* The remedy the errors name always works: where a run's directory is as the run
\* left it, regenerating the eval report from its report, with whatever controls,
\* and the observability report from both gives a bundle that can be built.
RegenerationSucceeds ==
  \A p \in Places, given \in SUBSET Controls :
    /\ Readable(longRun[p])
    /\ dir[p].manifest = ManifestHash(longRun[p].run)
    /\ dir[p].checkpoint = ModelHash(longRun[p].run)
    => LET e == EvalOf(longRun[p], given)
           o == ObservabilityOf(longRun[p], e)
       IN /\ LinksAreBound(o)
          /\ \E c \in {SmokeContracts(longRun[p]), LauncherContracts}, publication \in Publications :
               Buildable(longRun[p], e, o, c, dir[p], publication)

\* A bundle of a launcher's run that completed carries the checkpoint of that run: no
\* other run, however far it came in the same directory, leaves one the bundle accepts.
LauncherCheckpointIsReports ==
  Readable(bundle) /\ bundle.run.place = "launcher" /\ bundle.completed =>
    bundle.checkpoint = ModelHash(bundle.run)

\* docs/roadmap/PHASE3.md says the report "cannot drift from the referenced release
\* artifacts": the bundle of a run that completed has the checkpoint it ended with.
ReportCannotDrift ==
  Readable(bundle) /\ bundle.completed => bundle.checkpoint = ModelHash(bundle.run)

\* CHANGELOG.md says to "reject Phase 3 bundles that combine different consortium, run"
\* identities: what was trained, agreed and observed has one identity.
OneIdentity ==
  Readable(bundle) =>
    /\ bundle.contracts.id = Identity(bundle.run)
    /\ Identity(bundle.observed) = Identity(bundle.run)
=============================================================================
