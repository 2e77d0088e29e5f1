------------------------------ MODULE DemoPage ------------------------------
(***************************************************************************)
(* One participant's page of the browser demo in auto mode (app.mjs,       *)
(* lewm_participant.mjs) over the service of module DemoService: snapshots *)
(* of the run reach the page late or out of order, each assignment it      *)
(* sees starts a learner job, and a job is two requests with the training  *)
(* between them.  The run pauses, resumes and goes on meanwhile, requests  *)
(* and their answers are lost, and the page is reloaded, which forgets the *)
(* jobs but not the requests already on their way.                         *)
(*                                                                         *)
(* The other participants and the host are whatever DemoService allows.    *)
(* How snapshots travel is module DemoStream's subject.                    *)
(***************************************************************************)
EXTENDS DemoService

CONSTANTS
  Me,       \* the participant whose page this is
  MaxFaults \* bound: requests lost, late polls, runtimes not loaded, reloads

ASSUME PageAssumption == Me \in Client /\ MaxFaults \in Nat

VARIABLES
  view,     \* the snapshot shown, runRef.current
  poll,     \* a snapshot on its way
  jobs,     \* backendLearnerJobs, by their key
  orphans,  \* submissions sent before a reload and not yet handled
  runtime,  \* cachedRuntimePromise: "none", "ready", "rejected"
  faults

page     == <<view, poll, jobs, orphans, runtime>>
pageVars == <<vars, page, faults>>

Key == [round: 1..Rounds, rev: 0..(Rounds - 1)]

Steps == {"none", "progress", "train", "submit", "posted", "submitted", "error"}

NoView == [rev |-> 0, status |-> "absent", round |-> 0]

\* What the page reads of snapshot(): the current revision and itself.
Snapshot ==
  [rev |-> Len(revisions), status |-> part[Me].status, round |-> part[Me].round]

\* Mutant: a job is known by the run and the participant.
LearnerJobKeyOfRun(s) == [round |-> 1, rev |-> 0]

LearnerJobKey(s) == [round |-> s.round, rev |-> s.rev]

HasWork(s) == s.status \in {"assigned", "training"}

PageInit ==
  /\ Init
  /\ view = NoView /\ poll = NoView
  /\ jobs = [k \in Key |-> "none"] /\ orphans = {}
  /\ runtime = "none" /\ faults = 0

-----------------------------------------------------------------------------
(***************************************************************************)
(* What the page shows, and the jobs that starts.                          *)
(***************************************************************************)
Fault == faults < MaxFaults /\ faults' = faults + 1

\* startBackendLearner: a job that exists is not started again, also if it failed.
Show(s) ==
  /\ view' = s
  /\ jobs' = IF HasWork(s) /\ jobs[LearnerJobKey(s)] = "none"
             THEN [jobs EXCEPT ![LearnerJobKey(s)] = "progress"] ELSE jobs

\* A snapshot over the socket.
Push ==
  /\ view # Snapshot
  /\ Show(Snapshot)
  /\ UNCHANGED <<vars, poll, orphans, runtime, faults>>

\* A poll is answered; its answer arrives later, which counts as a fault.
Answer ==
  /\ poll = NoView /\ Snapshot # NoView /\ Fault
  /\ poll' = Snapshot
  /\ UNCHANGED <<vars, view, jobs, orphans, runtime>>

Arrive ==
  /\ poll # NoView
  /\ Show(poll) /\ poll' = NoView
  /\ UNCHANGED <<vars, orphans, runtime, faults>>

\* The user presses "Retry local learner", enabled when the job has failed.
Retry ==
  /\ HasWork(view) /\ jobs[LearnerJobKey(view)] = "error"
  /\ jobs' = [jobs EXCEPT ![LearnerJobKey(view)] = "progress"]
  /\ UNCHANGED <<vars, view, poll, orphans, runtime, faults>>

-----------------------------------------------------------------------------
(***************************************************************************)
(* A learner job.                                                          *)
(***************************************************************************)
\* The first report is awaited; refused, the job fails.
ReportProgress(k, t) ==
  /\ jobs[k] = "progress"
  /\ \/ /\ Progress(t, Me)
        /\ jobs' = [jobs EXCEPT ![k] = "train"]
     \/ /\ Begins(t) /\ ~ MaySubmit(Me)
        /\ jobs' = [jobs EXCEPT ![k] = "error"]
        /\ UNCHANGED vars
  /\ UNCHANGED <<view, poll, orphans, runtime, faults>>

\* The runtime is loaded once; a promise that was rejected is cached as well.
\* Then the adapter is trained from the revision the job was started for.
Train(k) ==
  /\ jobs[k] = "train"
  /\ \/ runtime # "rejected" /\ runtime' = "ready" /\ UNCHANGED faults
        /\ jobs' = [jobs EXCEPT ![k] = "submit"]
     \/ runtime = "none" /\ Fault /\ runtime' = "rejected"
        /\ jobs' = [jobs EXCEPT ![k] = "error"]
     \/ runtime = "rejected" /\ UNCHANGED <<runtime, faults>>
        /\ jobs' = [jobs EXCEPT ![k] = "error"]
  /\ UNCHANGED <<vars, view, poll, orphans>>

\* What submit_update asks of the artifact of k: the active round and revision.
Fits(k) ==
  /\ MaySubmit(Me) /\ ~ HasSubmitted(part, Me, run.round)
  /\ k.round = run.round /\ k.rev = Len(revisions)

\* Mutant: the answer's status is not looked at.
SubmitUnchecked(k, t) ==
  /\ jobs[k] = "submit" /\ Begins(t)
  /\ jobs' = [jobs EXCEPT ![k] = "posted"]
  /\ IF Fits(k) THEN \E w \in Width : SubmitUpdate(t, Me, w)
                ELSE UNCHANGED vars
  /\ UNCHANGED <<view, poll, orphans, runtime, faults>>

Submit(k, t) ==
  /\ jobs[k] = "submit" /\ Begins(t)
  /\ IF Fits(k)
     THEN /\ \E w \in Width : SubmitUpdate(t, Me, w)
          /\ jobs' = [jobs EXCEPT ![k] = "posted"]
     ELSE jobs' = [jobs EXCEPT ![k] = "error"] /\ UNCHANGED vars
  /\ UNCHANGED <<view, poll, orphans, runtime, faults>>

\* submit_update returns when the round it may have closed is closed.
Answered(k) ==
  /\ jobs[k] = "posted" /\ Quiet
  /\ jobs' = [jobs EXCEPT ![k] = "submitted"]
  /\ UNCHANGED <<vars, view, poll, orphans, runtime, faults>>

\* A request or its answer is lost: fetch rejects, and the job fails.
Lose(k) ==
  /\ jobs[k] \in {"progress", "submit", "posted"} /\ Fault
  /\ jobs' = [jobs EXCEPT ![k] = "error"]
  /\ UNCHANGED <<vars, view, poll, orphans, runtime>>

\* The jobs and the runtime are gone; a submission may have left the browser.
Reload ==
  /\ Fault
  /\ view' = NoView /\ poll' = NoView /\ runtime' = "none"
  /\ jobs' = [k \in Key |-> "none"]
  /\ orphans' \in SUBSET {k \in Key : jobs[k] = "submit"}
  /\ UNCHANGED vars

HandleOrphan(k, t) ==
  /\ k \in orphans /\ Begins(t)
  /\ orphans' = orphans \ {k}
  /\ IF Fits(k) THEN \E w \in Width : SubmitUpdate(t, Me, w)
                ELSE UNCHANGED vars
  /\ UNCHANGED <<view, poll, jobs, runtime, faults>>

-----------------------------------------------------------------------------
\* The host, the other participants, and the page's heartbeats.  A participant
\* that times out is dropped, like one the host drops.
Others(t) ==
  \/ Start(t) \/ ExpireMissing(t) \/ AbortRun(t)
  \/ \E p \in Client :
       \/ Join(t, p) \/ Heartbeat(t, p) \/ DropParticipant(t, p)
       \/ p # Me /\ \/ Progress(t, p)
                    \/ \E w \in Width : SubmitUpdate(t, p, w)

Environment ==
  /\ \E t \in Thread : Others(t) \/ Continue(t)
  /\ UNCHANGED <<page, faults>>

Work(k) == Train(k) \/ \E t \in Thread : ReportProgress(k, t) \/ Submit(k, t)

PageNext ==
  \/ Environment \/ Push \/ Answer \/ Arrive \/ Retry \/ Reload
  \/ \E k \in Key : \/ Work(k) \/ Answered(k) \/ Lose(k)
                    \/ \E t \in Thread : HandleOrphan(k, t)

PageSpec == PageInit /\ [][PageNext]_pageVars

\* Requests are handled, snapshots arrive, jobs run, and the user retries.
\* A request finds the service busy with another's now and then.
PageFairSpec ==
  /\ PageSpec
  /\ \A t \in Thread : WF_pageVars(Continue(t) /\ UNCHANGED <<page, faults>>)
  /\ WF_pageVars(Push)
  /\ SF_pageVars(Retry)
  /\ SF_pageVars(\E k \in Key : Work(k))

-----------------------------------------------------------------------------
(***************************************************************************)
(* Properties.                                                             *)
(***************************************************************************)

\* The types of the page's variables; and a job that says submitted has its
\* update with the service, for its round and trained from that round's revision,
\* however late its request was handled.
JobsTellService ==
  /\ {view, poll} \subseteq [rev: 0..Rounds, status: Statuses, round: 0..Rounds]
  /\ orphans \subseteq Key /\ runtime \in {"none", "ready", "rejected"}
  /\ jobs \in [Key -> Steps]
  /\ \A k \in Key : jobs[k] = "submitted" =>
       /\ k.rev = k.round - 1
       /\ \E u \in part[Me].updates : u.round = k.round /\ u.trained = k.round

\* A round that waits for this participant gets its update, whatever was lost,
\* reloaded or shown late, unless the participant is dropped, the run stops
\* running, or the learner's runtime could not be loaded.
PageDelivers ==
  \A r \in 1..Rounds :
    run.round = r /\ MaySubmit(Me)
      ~> \/ HasSubmitted(part, Me, r) \/ part[Me].status = "dropped"
         \/ run.state # "running_round" \/ runtime = "rejected"
=============================================================================
