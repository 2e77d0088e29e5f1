-------------------------- MODULE ParticipantAgent --------------------------
(***************************************************************************)
(* Phase3ParticipantAgent.run_assigned_round (lensemble.federation.agent): *)
(* join, train, persist the release, submit it, record the submission; and *)
(* the resume path, which replays a persisted release.                     *)
(*                                                                         *)
(* The process may die at any statement.  Its two files are written in     *)
(* place, so dying inside a write leaves a file no reader accepts.  What   *)
(* training releases is not fixed: another run may compute another delta.  *)
(* A file's hash is abstracted to the release it is the hash of.           *)
(***************************************************************************)
EXTENDS Naturals, FiniteSets

CONSTANTS
  Release,    \* pseudo-gradients local training may release
  Nothing,    \* no such file, no such update
  Torn,       \* a file cut off by a crash
  MaxRounds,  \* bound: rounds announced
  MaxCrashes  \* bound: crashes and failing statements

ASSUME AgentAssumption ==
  /\ MaxRounds \in Nat \ {0}
  /\ MaxCrashes \in Nat
  /\ Nothing # Torn
  /\ Nothing \notin Release /\ Torn \notin Release
  /\ Nothing \notin [delta: Release, submitted: BOOLEAN]
  /\ Torn \notin [delta: Release, submitted: BOOLEAN]

Rounds == 0..(MaxRounds - 1)

VARIABLES
  round,       \* the round the coordinator announced
  delta,       \* round-XXXXX/delta.safetensors, per round
  record,      \* round-XXXXX/round_state.json, per round
  pc,          \* the statement the process is at; "idle": no process
  joined,      \* the round of the GlobalState it joined
  update,      \* its released update
  staged,      \* what the transport holds of this participant, per round
  released,    \* history: every release the transport received, per round
  reran,       \* history: rounds joined without resume although recorded
  crashesLeft  \* crashes that may still happen

disk    == <<delta, record>>
process == <<pc, joined, update>>
sent    == <<staged, released>>
vars    == <<round, disk, process, sent, reran, crashesLeft>>

RoundState == [delta: Release, submitted: BOOLEAN]

\* What is left to read of a round: a whole record.
Recorded(t) == record[t] \notin {Nothing, Torn}

Init ==
  /\ round = 0
  /\ delta = [t \in Rounds |-> Nothing] /\ record = [t \in Rounds |-> Nothing]
  /\ pc = "idle" /\ joined = 0 /\ update = Nothing
  /\ staged = [t \in Rounds |-> Nothing] /\ released = [t \in Rounds |-> {}]
  /\ reran = {} /\ crashesLeft = MaxCrashes

-----------------------------------------------------------------------------
\* The coordinator moves on, with or without this participant's update.
RoundAdvances ==
  /\ round + 1 \in Rounds
  /\ round' = round + 1
  /\ UNCHANGED <<disk, process, sent, reran, crashesLeft>>

\* Mutant: resume looks for the delta file.
RunAssignedRoundOnDelta(resume) ==
  /\ pc = "idle"
  /\ joined' = round
  /\ pc' = IF resume /\ delta[round] # Nothing THEN "load" ELSE "train"
  /\ reran' = IF ~ resume /\ record[round] # Nothing THEN reran \cup {round} ELSE reran
  /\ UNCHANGED <<round, disk, update, sent, crashesLeft>>

\* preflight and join; resume looks for the round's record only.
RunAssignedRound(resume) ==
  /\ pc = "idle"
  /\ joined' = round
  /\ pc' = IF resume /\ record[round] # Nothing THEN "load" ELSE "train"
  /\ reran' = IF ~ resume /\ record[round] # Nothing THEN reran \cup {round} ELSE reran
  /\ UNCHANGED <<round, disk, update, sent, crashesLeft>>

End == pc' = "idle" /\ update' = Nothing /\ UNCHANGED joined

\* Mutant: what cannot be read is trained again.
LoadOrTrain ==
  /\ pc = "load"
  /\ IF Recorded(joined) /\ delta[joined] = record[joined].delta
     THEN pc' = "submit" /\ update' = record[joined].delta /\ UNCHANGED joined
     ELSE pc' = "train" /\ UNCHANGED <<update, joined>>
  /\ UNCHANGED <<round, disk, sent, reran, crashesLeft>>

\* _load_existing_state and _load_update: an unreadable file, or a delta whose
\* hash is not the recorded one, raises; nothing of them is repaired.
Load ==
  /\ pc = "load"
  /\ IF Recorded(joined) /\ delta[joined] = record[joined].delta
     THEN pc' = "submit" /\ update' = record[joined].delta /\ UNCHANGED joined
     ELSE End
  /\ UNCHANGED <<round, disk, sent, reran, crashesLeft>>

Train ==
  /\ pc = "train"
  /\ update' \in Release
  /\ pc' = "persist_delta"
  /\ UNCHANGED <<round, disk, joined, sent, reran, crashesLeft>>

PersistDelta ==
  /\ pc = "persist_delta"
  /\ delta' = [delta EXCEPT ![joined] = update]
  /\ pc' = "persist_record"
  /\ UNCHANGED <<round, record, joined, update, sent, reran, crashesLeft>>

PersistRecord ==
  /\ pc = "persist_record"
  /\ record' = [record EXCEPT ![joined] = [delta |-> update, submitted |-> FALSE]]
  /\ pc' = "submit"
  /\ UNCHANGED <<round, delta, joined, update, sent, reran, crashesLeft>>

\* The transport keeps the participant's last update of a round, closed or not.
SubmitUpdate ==
  /\ pc = "submit"
  /\ staged' = [staged EXCEPT ![joined] = update]
  /\ released' = [released EXCEPT ![joined] = @ \cup {update}]
  /\ pc' = "mark"
  /\ UNCHANGED <<round, disk, joined, update, reran, crashesLeft>>

MarkSubmitted ==
  /\ pc = "mark"
  /\ record' = [record EXCEPT ![joined] = [delta |-> update, submitted |-> TRUE]]
  /\ End
  /\ UNCHANGED <<round, delta, sent, reran, crashesLeft>>

\* The process dies, or the statement raises: its memory is gone, and a file
\* it was writing is as it was or torn.
Crash ==
  /\ pc # "idle" /\ crashesLeft > 0
  /\ crashesLeft' = crashesLeft - 1
  /\ End
  /\ delta' \in {delta} \cup
       (IF pc = "persist_delta" THEN {[delta EXCEPT ![joined] = Torn]} ELSE {})
  /\ record' \in {record} \cup
       (IF pc \in {"persist_record", "mark"} THEN {[record EXCEPT ![joined] = Torn]}
        ELSE {})
  /\ UNCHANGED <<round, sent, reran>>

AgentStep ==
  Load \/ Train \/ PersistDelta \/ PersistRecord \/ SubmitUpdate \/ MarkSubmitted

Next ==
  \/ RoundAdvances
  \/ \E resume \in BOOLEAN : RunAssignedRound(resume)
  \/ AgentStep \/ Crash

Spec == Init /\ [][Next]_vars

\* Whoever operates the agent starts it again, and a process runs to its end.
FairSpec == Spec /\ WF_vars(RunAssignedRound(TRUE)) /\ WF_vars(AgentStep)
-----------------------------------------------------------------------------
(***************************************************************************)
(* Properties.                                                             *)
(***************************************************************************)

\* The types of the variables.
TypeOK ==
  /\ round \in Rounds /\ joined \in Rounds /\ crashesLeft \in Nat
  /\ delta \in [Rounds -> Release \cup {Nothing, Torn}]
  /\ record \in [Rounds -> RoundState \cup {Nothing, Torn}]
  /\ pc \in {"idle", "load", "train", "persist_delta", "persist_record", "submit", "mark"}
  /\ update \in Release \cup {Nothing}
  /\ staged \in [Rounds -> Release \cup {Nothing}]
  /\ released \in [Rounds -> SUBSET Release]
  /\ reran \subseteq Rounds

\* "resume/rejoin can replay the same committed update": an agent that is only
\* ever restarted with resume gives away one release of a round, wherever it
\* crashed and whatever a second training run would have computed.
ResumeReplaysRelease ==
  \A t \in Rounds : t \notin reran => \A r, s \in released[t] : r = s

\* A whole record always finds its delta, as long as the round was not run anew
\* over it: the two files are written in the order their readers need.
RecordFindsItsDelta ==
  \A t \in Rounds : t \notin reran /\ Recorded(t) => delta[t] = record[t].delta

\* A record that says submitted names the release the coordinator holds, also
\* after reruns and resumes that got halfway.
SubmittedIsStaged ==
  \A t \in Rounds : Recorded(t) /\ record[t].submitted => staged[t] = record[t].delta

\* A round's files can no longer be resumed from.
Damaged(t) == record[t] # Nothing /\ ~ (Recorded(t) /\ delta[t] = record[t].delta)

\* A round the agent is left in gets its release once the crashes stop; only a
\* torn or overwritten file can keep a restarted agent from it.
AssignedIsReleased ==
  \A t \in Rounds : round = t ~> released[t] # {} \/ round > t \/ Damaged(t)
=============================================================================
