-------------------------- MODULE ConsortiumProofs --------------------------
(***************************************************************************)
(* Theorems about Consortium, for every set of trainers and updates, every *)
(* policy, every number of rounds and of launches, and every tree rmtree   *)
(* may leave behind: what the files of a run directory say together.       *)
(***************************************************************************)
EXTENDS Consortium, SequenceTheorems, TLAPS

Update == [who: Trainer, round: Nat, delta: Delta]
Model  == Seq(SUBSET Update)
Row    == [round: Nat, who: SUBSET Trainer, model: Model]

Clearing == {"clear_artifacts", "clear_agents", "clear_manifest"}
InRound  == {"assign", "persist", "release", "submit", "close", "append", "commit"}

\* The types the argument needs.
Typed ==
  /\ pc \in {"down", "boot", "join", "summary", "manifest", "report"} \cup Clearing \cup InRound
  /\ run \in Nat
  /\ pc = "down" => turn = 1
  /\ pc # "down" => roster \in Rosters /\ turn \in 1..Len(roster) /\ run > 0
  /\ records \subseteq [who: Trainer, round: Nat, delta: Delta, submitted: BOOLEAN]
  /\ staged \subseteq Update
  /\ chain \in Model /\ rows \in Seq(Row) /\ ledger \in Seq(Row)
  /\ ledgerFile \in Seq(Row \cup {Torn})
  /\ cutOff \in BOOLEAN /\ (cutOff => ledgerFile # <<>>)

\* The rows are the steps of the model so far.
RowsTell ==
  /\ pc \in {"down", "boot", "join"} \cup Clearing => chain = <<>>
  /\ Len(rows) = IF pc = "summary" THEN Len(chain) - 1 ELSE Len(chain)
  /\ pc \in InRound => Len(chain) < Target
  /\ Len(chain) <= Target
  /\ \A t \in 1..Len(rows) : rows[t].model = SubSeq(chain, 1, t)

\* Every model is saved before it counts, and recorded before it is reported.
Saved ==
  /\ \A c, d \in checkpoints : c.round = d.round => c = d
  /\ Running => [round |-> Len(chain), model |-> chain] \in checkpoints
  /\ pc \in {"append", "commit"} => [round |-> Len(chain) + 1, model |-> NextModel] \in checkpoints
  /\ pc = "commit" => ledger # <<>> /\ ledger[Len(ledger)].model = NextModel
  /\ pc = "summary" => ledger # <<>> /\ ledger[Len(ledger)].model = chain

\* A report is of an earlier launch, and no manifest stands for it while a later
\* launch is under way.
Stamped ==
  /\ Readable(report) => report.run \in 1..run /\ (pc # "down" => report.run < run)
  /\ pc \notin {"down", "report"} \cup Clearing => manifest = Nothing
  /\ pc = "report" => manifest = run

IInv == Typed /\ RowsTell /\ Saved /\ Stamped /\ BundleBindsOneRun

USE ConsortiumAssumption

-----------------------------------------------------------------------------
(***************************************************************************)
(* Lemmas.                                                                 *)
(***************************************************************************)

\* Appending to a sequence keeps its prefixes.
LEMMA PrefixOfAppend ==
  ASSUME NEW S, NEW s \in Seq(S), NEW e \in S
  PROVE  /\ SubSeq(Append(s, e), 1, Len(s) + 1) = Append(s, e)
         /\ \A t \in 1..Len(s) : SubSeq(Append(s, e), 1, t) = SubSeq(s, 1, t)
<1> DEFINE a == Append(s, e)
<1>1. /\ a \in Seq(S) /\ Len(a) = Len(s) + 1 /\ Len(s) \in Nat
      /\ \A i \in 1..Len(s) : a[i] = s[i]
  OBVIOUS
<1>2. SubSeq(a, 1, Len(s) + 1) = a
  BY <1>1, SubSeqFull
<1>3. ASSUME NEW t \in 1..Len(s)
      PROVE  SubSeq(a, 1, t) = SubSeq(s, 1, t)
  <2>1. \A i \in 1..t : a[i] \in S /\ s[i] \in S /\ a[i] = s[i]
    BY <1>1, <1>3, ElementOfSeq
  <2>2. /\ SubSeq(a, 1, t) \in Seq(S) /\ Len(SubSeq(a, 1, t)) = t
        /\ \A i \in 1..t : SubSeq(a, 1, t)[i] = a[i]
    <3>1. 1 \in Int /\ t \in Int /\ t - 1 + 1 = t /\ 1 <= t
      BY <1>1, <1>3
    <3>2. /\ SubSeq(a, 1, t) \in Seq(S)
          /\ Len(SubSeq(a, 1, t)) = IF 1 <= t THEN t - 1 + 1 ELSE 0
          /\ \A i \in 1..(t - 1 + 1) : SubSeq(a, 1, t)[i] = a[1 + i - 1]
      BY <2>1, <3>1, SubSeqProperties
    <3> QED BY <3>1, <3>2
  <2>3. /\ SubSeq(s, 1, t) \in Seq(S) /\ Len(SubSeq(s, 1, t)) = t
        /\ \A i \in 1..t : SubSeq(s, 1, t)[i] = s[i]
    <3>1. 1 \in Int /\ t \in Int /\ t - 1 + 1 = t /\ 1 <= t
      BY <1>1, <1>3
    <3>2. /\ SubSeq(s, 1, t) \in Seq(S)
          /\ Len(SubSeq(s, 1, t)) = IF 1 <= t THEN t - 1 + 1 ELSE 0
          /\ \A i \in 1..(t - 1 + 1) : SubSeq(s, 1, t)[i] = s[1 + i - 1]
      BY <2>1, <3>1, SubSeqProperties
    <3> QED BY <3>1, <3>2
  <2> HIDE DEF a
  <2> QED BY <2>1, <2>2, <2>3, SeqEqual
<1> QED BY <1>2, <1>3

\* The next model is a model, one step longer.
LEMMA NextModelIsModel ==
  ASSUME Typed
  PROVE  /\ Service!Collected(Round) \in SUBSET Update
         /\ NextModel \in Model /\ Len(NextModel) = Len(chain) + 1
<1>1. Service!Collected(Round) \in SUBSET Update
  BY DEF Typed, Service!Collected
<1> QED BY <1>1 DEF Typed, NextModel, Model

\* A line that is written makes a file of lines, with a last one.
LEMMA LedgerWithIsFile ==
  ASSUME Typed
  PROVE  /\ NewRecord \in Row
         /\ \A line \in Row \cup {Torn} :
              LedgerWith(line) \in Seq(Row \cup {Torn}) /\ LedgerWith(line) # <<>>
<1>1. /\ Service!Collected(Round) \in SUBSET Update /\ NextModel \in Model
      /\ Round \in Nat
  BY NextModelIsModel DEF Typed, Model, Round, Service!Round
<1>2. NewRecord \in Row
  <2>1. Service!Contributors(Service!Collected(Round)) \subseteq Trainer
    BY <1>1 DEF Service!Contributors, Update
  <2> QED BY <1>1, <2>1 DEF NewRecord, Row
<1>3. ASSUME NEW line \in Row \cup {Torn}
      PROVE  LedgerWith(line) \in Seq(Row \cup {Torn}) /\ LedgerWith(line) # <<>>
  <2>1. ledgerFile \in Seq(Row \cup {Torn}) /\ (cutOff => ledgerFile # <<>>)
    BY DEF Typed
  <2> DEFINE a == Append(ledgerFile, line)
             e == [ledgerFile EXCEPT ![Len(ledgerFile)] = Torn]
  <2>2. a \in Seq(Row \cup {Torn}) /\ Len(a) = Len(ledgerFile) + 1 /\ Len(ledgerFile) \in Nat
    BY <2>1, LenProperties
  <2>3. a # <<>>
    BY <2>2, EmptySeq
  <2>4. cutOff => e \in Seq(Row \cup {Torn}) /\ Len(e) = Len(ledgerFile)
    <3>1. cutOff => Len(ledgerFile) \in 1..Len(ledgerFile)
      BY <2>1, <2>2, EmptySeq
    <3> QED BY <2>1, <3>1, ExceptSeq
  <2>5. cutOff => e # <<>>
    BY <2>1, <2>2, <2>4, EmptySeq
  <2> QED BY <2>2, <2>3, <2>4, <2>5 DEF LedgerWith
<1> QED BY <1>2, <1>3

\* Nothing but the removal of checkpoints happens to the bundle's files.
LEMMA BundleFrame ==
  ASSUME IInv, report' = report, manifest' = manifest,
         checkpoints' \subseteq checkpoints
  PROVE  BundleBindsOneRun'
<1> SUFFICES ASSUME Accepted', report'.completed
             PROVE  /\ [round |-> Target, model |-> report.final] \in checkpoints'
                    /\ Len(report.rows) = Target
                    /\ \A t \in 1..Target : report.rows[t].model = SubSeq(report.final, 1, t)
  BY DEF BundleBindsOneRun
<1>1. PICK c \in checkpoints' : c.round = Target
  BY DEF Accepted, RoundDirExists
<1>2. Accepted /\ report.completed
  BY DEF Accepted, RoundDirExists, Readable
<1>3. [round |-> Target, model |-> report.final] \in checkpoints
  BY <1>2 DEF IInv, BundleBindsOneRun
<1>4. c = [round |-> Target, model |-> report.final]
  BY <1>1, <1>3 DEF IInv, Saved
<1> QED BY <1>1, <1>2, <1>4 DEF IInv, BundleBindsOneRun

\* What a process that ends leaves in memory: nothing.
LEMMA EndKeeps ==
  ASSUME IInv, End,
         records' = records, checkpoints' = checkpoints,
         ledgerFile' \in Seq(Row \cup {Torn}), cutOff' \in BOOLEAN,
         cutOff' => ledgerFile' # <<>>
  PROVE  Typed' /\ RowsTell' /\ Saved'
<1> USE DEF End
<1>1. /\ chain' = <<>> /\ rows' = <<>> /\ ledger' = <<>>
      /\ chain' \in Model /\ rows' \in Seq(Row) /\ ledger' \in Seq(Row)
  BY EmptySeq DEF Model
<1>2. Typed'
  BY <1>1 DEF IInv, Typed
<1>3. RowsTell'
  BY <1>1 DEF RowsTell, InRound, Clearing
<1>4. Saved'
  BY DEF IInv, Saved, Running
<1> QED BY <1>2, <1>3, <1>4

\* One step of a loop over the participants.
LEMMA TurnKeeps ==
  ASSUME Typed, NEW here, NEW next, NextTurn(here, next), pc # "down",
         roster' = roster
  PROVE  /\ pc' \in {here, next}
         /\ roster' \in Rosters /\ turn' \in 1..Len(roster')
<1>1. roster \in Seq(Trainer) \ {<<>>} /\ turn \in 1..Len(roster)
  BY DEF Typed
<1>2. Len(roster) \in Nat \ {0}
  BY <1>1, EmptySeq, LenProperties
<1> QED BY <1>1, <1>2 DEF Typed, NextTurn

-----------------------------------------------------------------------------
(***************************************************************************)
(* The first state and the steps.                                          *)
(***************************************************************************)

LEMMA Initially == Init => IInv
<1> SUFFICES ASSUME Init PROVE IInv
  OBVIOUS
<1>1. chain = <<>> /\ rows = <<>> /\ ledger = <<>> /\ ledgerFile = <<>> /\ staged = {}
  BY DEF Init, Service!Init
<1>2. Typed
  BY <1>1, EmptySeq DEF Init, Typed, Model
<1>3. RowsTell
  BY <1>1 DEF Init, RowsTell, InRound
<1>4. Saved
  BY DEF Init, Saved, Running
<1>5. Stamped /\ BundleBindsOneRun
  BY DEF Init, Stamped, Clearing, Readable, BundleBindsOneRun, Accepted
<1> QED BY <1>2, <1>3, <1>4, <1>5 DEF IInv

\* The directory is prepared.
LEMMA PrepareKeeps ==
  ASSUME IInv,
         (\E r \in Rosters : Launch(r)) \/ ClearArtifacts \/ ClearAgents \/ ClearManifest
  PROVE  IInv'
<1> USE DEF IInv, driver, service, disk
<1>1. ASSUME NEW r \in Rosters, Launch(r)
      PROVE  IInv'
  <2> USE <1>1 DEF Launch
  <2>1. r \in Seq(Trainer) \ {<<>>}
    OBVIOUS
  <2>2. Len(r) \in Nat \ {0}
    BY <2>1, EmptySeq, LenProperties
  <2>3. Typed'
    BY <2>2 DEF Typed, Clearing
  <2>4. RowsTell'
    BY DEF RowsTell, Clearing, InRound
  <2>5. Saved'
    BY DEF Saved, Running
  <2>6. Stamped'
    BY DEF Typed, Stamped, Clearing, Readable
  <2> QED BY <2>3, <2>4, <2>5, <2>6, BundleFrame
<1>2. CASE ClearArtifacts
  <2> USE <1>2 DEF ClearArtifacts
  <2>1. /\ checkpoints' \subseteq checkpoints
        /\ (ledgerFile' = <<>> /\ cutOff' = FALSE) \/ UNCHANGED <<ledgerFile, cutOff>>
    OBVIOUS
  <2>2. <<>> \in Seq(Row \cup {Torn})
    BY EmptySeq
  <2>3. Typed'
    <3>1. CASE ledgerFile' = <<>> /\ cutOff' = FALSE
      BY <2>2, <3>1 DEF Typed, Clearing
    <3>2. CASE UNCHANGED <<ledgerFile, cutOff>>
      BY <3>2 DEF Typed, Clearing
    <3> QED BY <2>1, <3>1, <3>2
  <2>4. RowsTell'
    BY DEF RowsTell, Clearing, InRound
  <2>5. Saved'
    BY <2>1 DEF Saved, Running
  <2>6. Stamped'
    BY DEF Typed, Stamped, Clearing
  <2> QED BY <2>1, <2>3, <2>4, <2>5, <2>6, BundleFrame
<1>3. CASE ClearAgents
  <2> USE <1>3 DEF ClearAgents
  <2>1. records' \subseteq records
    OBVIOUS
  <2>2. Typed'
    BY <2>1 DEF Typed, Clearing
  <2>3. RowsTell'
    BY DEF RowsTell, Clearing, InRound
  <2>4. Saved'
    BY DEF Saved, Running
  <2>5. Stamped'
    BY DEF Typed, Stamped, Clearing
  <2> QED BY <2>2, <2>3, <2>4, <2>5, BundleFrame
<1>4. CASE ClearManifest
  <2> USE <1>4 DEF ClearManifest
  <2>1. Typed'
    BY DEF Typed, Clearing
  <2>2. RowsTell'
    BY DEF RowsTell, Clearing, InRound
  <2>3. Saved'
    BY DEF Saved, Running
  <2>4. Stamped'
    BY DEF Typed, Stamped, Clearing
  <2>5. BundleBindsOneRun'
    BY DEF Typed, Stamped, BundleBindsOneRun, Accepted
  <2> QED BY <2>1, <2>2, <2>3, <2>4, <2>5
<1> QED BY <1>1, <1>2, <1>3, <1>4

\* A process that ends while its files stay as they are.
LEMMA EndsQuietly ==
  ASSUME IInv, End, UNCHANGED <<checkpoints, ledgerFile, cutOff, records, manifest, report>>
  PROVE  IInv'
<1>1. Typed' /\ RowsTell' /\ Saved'
  BY EndKeeps DEF IInv, Typed
<1>2. Stamped'
  BY DEF IInv, Typed, Stamped, End, Clearing, Readable
<1> QED BY <1>1, <1>2, BundleFrame DEF IInv

\* Whatever a running process does, no manifest stands for an old report meanwhile.
LEMMA StillRunning ==
  ASSUME IInv, Typed', RowsTell', Saved', Stamped', pc' \notin {"down"} \cup Clearing
  PROVE  IInv'
BY DEF IInv, Typed, Stamped, BundleBindsOneRun, Accepted

LEMMA StartKeeps ==
  ASSUME IInv, Boot \/ Join \/ Assign
  PROVE  IInv'
<1> USE DEF IInv, driver, service, disk
<1>1. CASE Boot /\ RoundDirExists(0)
  BY <1>1, EndsQuietly DEF Boot
<1>2. CASE Boot /\ ~ RoundDirExists(0)
  <2> USE <1>2 DEF Boot
  <2>1. chain = <<>> /\ Len(chain) = 0
    BY DEF RowsTell
  <2>2. Typed'
    BY DEF Typed
  <2>3. RowsTell'
    BY DEF RowsTell, Clearing, InRound
  <2>4. Saved'
    BY <2>1 DEF Saved, Running, RoundDirExists
  <2>5. Stamped'
    BY DEF Stamped, Clearing
  <2> QED BY <2>2, <2>3, <2>4, <2>5, StillRunning DEF Clearing
<1>3. CASE Join
  <2> USE <1>3 DEF Join
  <2>1. pc' \in {"join", "assign"} /\ roster' \in Rosters /\ turn' \in 1..Len(roster')
    BY TurnKeeps
  <2>2. UNCHANGED <<staged, chain>>
    BY DEF Service!Join, Service!engine
  <2>3. Typed'
    BY <2>1, <2>2 DEF Typed, InRound
  <2>4. RowsTell'
    BY <2>1, <2>2 DEF RowsTell, Clearing, InRound
  <2>5. Saved'
    BY <2>1, <2>2 DEF Saved, Running
  <2>6. Stamped'
    BY <2>1 DEF Stamped, Clearing
  <2> QED BY <2>1, <2>3, <2>4, <2>5, <2>6, StillRunning DEF Clearing
<1>4. CASE Assign
  <2> USE <1>4 DEF Assign
  <2>1. pc' \in {"assign", "persist"} /\ roster' \in Rosters /\ turn' \in 1..Len(roster')
    BY TurnKeeps
  <2>2. UNCHANGED <<staged, chain>>
    BY DEF Service!AssignRound, Service!engine
  <2>3. Typed'
    BY <2>1, <2>2 DEF Typed, InRound
  <2>4. RowsTell'
    BY <2>1, <2>2 DEF RowsTell, Clearing, InRound
  <2>5. Saved'
    BY <2>1, <2>2 DEF Saved, Running
  <2>6. Stamped'
    BY <2>1 DEF Stamped, Clearing
  <2> QED BY <2>1, <2>3, <2>4, <2>5, <2>6, StillRunning DEF Clearing
<1> QED BY <1>1, <1>2, <1>3, <1>4

\* The agents' part of a round.
LEMMA AgentsKeep ==
  ASSUME IInv, Persist \/ Release \/ Submit
  PROVE  IInv'
<1> USE DEF IInv, driver, service, disk
<1>1. (roster[turn] \in Trainer /\ Round \in Nat) \/ pc = "down"
  <2>1. CASE pc # "down"
    <3>1. roster \in Seq(Trainer) /\ turn \in 1..Len(roster)
      BY <2>1 DEF Typed
    <3> QED BY <3>1, ElementOfSeq DEF Typed, Round, Service!Round, Model
  <2> QED BY <2>1
<1>2. CASE Persist
  <2> USE <1>2 DEF Persist
  <2>1. records' \subseteq [who: Trainer, round: Nat, delta: Delta, submitted: BOOLEAN]
    <3>1. PICK d \in Delta :
            records' = Others(roster[turn], Round)
                         \cup {RoundState(roster[turn], Round, d, FALSE)}
      OBVIOUS
    <3>2. RoundState(roster[turn], Round, d, FALSE)
            \in [who: Trainer, round: Nat, delta: Delta, submitted: BOOLEAN]
      BY <1>1, ZenonT(30) DEF RoundState
    <3> QED BY <3>1, <3>2 DEF Typed, Others
  <2>2. Typed'
    BY <2>1 DEF Typed, InRound
  <2>3. RowsTell'
    BY DEF RowsTell, Clearing, InRound
  <2>4. Saved'
    BY DEF Saved, Running
  <2>5. Stamped'
    BY DEF Stamped, Clearing
  <2> QED BY <2>2, <2>3, <2>4, <2>5, StillRunning DEF Clearing
<1>3. CASE Release
  <2> USE <1>3 DEF Release
  <2>1. staged' \subseteq Update
        /\ records' \subseteq [who: Trainer, round: Nat, delta: Delta, submitted: BOOLEAN]
    <3>1. PICK s \in records :
            /\ s.who = roster[turn] /\ s.round = Round
            /\ staged' = staged \cup {[who |-> s.who, round |-> s.round, delta |-> s.delta]}
            /\ records' = Others(s.who, Round) \cup {RoundState(s.who, Round, s.delta, TRUE)}
      OBVIOUS
    <3>2. s.who \in Trainer /\ s.round \in Nat /\ s.delta \in Delta /\ Round \in Nat
      BY <1>1 DEF Typed
    <3>3. [who |-> s.who, round |-> s.round, delta |-> s.delta] \in Update
      BY <3>2 DEF Update
    <3>4. RoundState(s.who, Round, s.delta, TRUE)
            \in [who: Trainer, round: Nat, delta: Delta, submitted: BOOLEAN]
      BY <3>2 DEF RoundState
    <3> QED BY <3>1, <3>3, <3>4 DEF Typed, Others
  <2>2. Typed'
    BY <2>1 DEF Typed, InRound
  <2>3. RowsTell'
    BY DEF RowsTell, Clearing, InRound
  <2>4. Saved'
    BY DEF Saved, Running
  <2>5. Stamped'
    BY DEF Stamped, Clearing
  <2> QED BY <2>2, <2>3, <2>4, <2>5, StillRunning DEF Clearing
<1>4. CASE Submit
  <2> USE <1>4 DEF Submit
  <2>1. PICK u \in Service!Collected(Round) :
          /\ u.who = roster[turn]
          /\ IF member[u.who].assigned = Round
             THEN /\ Service!SubmitUpdate(u.who, u.delta)
                  /\ NextTurn("persist", "close")
                  /\ UNCHANGED <<run, roster, rows, ledger, foundCut>>
             ELSE End
    OBVIOUS
  <2>2. CASE member[u.who].assigned # Round
    BY <2>1, <2>2, EndsQuietly
  <2>3. CASE member[u.who].assigned = Round
    <3>1. u \in Update /\ u.round = Round
      BY DEF Typed, Service!Collected
    <3>2. pc' \in {"persist", "close"} /\ roster' \in Rosters /\ turn' \in 1..Len(roster')
      BY <2>1, <2>3, TurnKeeps
    <3>3. chain' = chain /\ staged' \subseteq Update
      BY <1>1, <2>1, <2>3, <3>1 DEF Service!SubmitUpdate, Typed, Update, Round
    <3>4. Typed'
      BY <2>1, <2>3, <3>2, <3>3 DEF Typed, InRound
    <3>5. RowsTell'
      BY <2>1, <2>3, <3>2, <3>3 DEF RowsTell, Clearing, InRound
    <3>6. Saved'
      BY <3>2, <3>3 DEF Saved, Running
    <3>7. Stamped'
      BY <2>1, <2>3, <3>2 DEF Stamped, Clearing
    <3> QED BY <3>2, <3>4, <3>5, <3>6, <3>7, StillRunning DEF Clearing
  <2> QED BY <2>2, <2>3
<1> QED BY <1>2, <1>3, <1>4

\* The round is closed: saved, recorded, committed, summarized, in this order.
LEMMA CloseKeeps ==
  ASSUME IInv, CloseSaves \/ CloseAppends \/ CloseCommits \/ CloseBlocked \/ Summarize
  PROVE  IInv'
<1> USE DEF IInv, driver, service, disk
<1>1. /\ Service!Collected(Round) \in SUBSET Update
      /\ NextModel \in Model /\ Len(NextModel) = Len(chain) + 1
  BY NextModelIsModel
<1>2. Round = Len(chain) /\ Len(chain) \in Nat /\ chain \in Seq(SUBSET Update)
  BY DEF Typed, Model, Round, Service!Round
<1>3. CASE CloseSaves /\ RoundDirExists(Round + 1)
  BY <1>3, EndsQuietly DEF CloseSaves
<1>4. CASE CloseSaves /\ ~ RoundDirExists(Round + 1)
  <2> USE <1>4 DEF CloseSaves
  <2>1. NextModel' = NextModel
    BY DEF NextModel, Round, Service!Round, Service!Collected
  <2>2. Typed'
    BY DEF Typed, InRound
  <2>3. RowsTell'
    BY DEF RowsTell, Clearing, InRound
  <2>4. Saved'
    <3>1. checkpoints' = checkpoints \cup {[round |-> Len(chain) + 1, model |-> NextModel]}
      BY <1>2
    <3>2. \A c \in checkpoints : c.round # Len(chain) + 1
      BY <1>2 DEF RoundDirExists
    <3> HIDE <1>4
    <3>3. \A c, d \in checkpoints' : c.round = d.round => c = d
      BY <3>1, <3>2 DEF Saved
    <3>4. pc = "close" /\ pc' = "append" /\ chain' = chain
      BY <1>4
    <3> QED BY <2>1, <3>1, <3>3, <3>4 DEF Saved, Running
  <2>5. Stamped'
    BY DEF Stamped, Clearing
  <2> QED BY <2>2, <2>3, <2>4, <2>5, StillRunning DEF Clearing
<1>5. CASE CloseAppends
  <2> USE <1>5 DEF CloseAppends
  <2>1. NextModel' = NextModel
    BY DEF NextModel, Round, Service!Round, Service!Collected
  <2>2. /\ NewRecord \in Row
        /\ LedgerWith(NewRecord) \in Seq(Row \cup {Torn}) /\ LedgerWith(NewRecord) # <<>>
    BY LedgerWithIsFile
  <2>3. NewRecord.model = NextModel
    BY DEF NewRecord
  <2>4. /\ ledger' \in Seq(Row) /\ ledger' # <<>>
        /\ ledger'[Len(ledger')].model = NextModel
    <3>1. ledger \in Seq(Row) /\ Len(ledger) \in Nat
      BY LenProperties DEF Typed
    <3>2. /\ ledger' \in Seq(Row) /\ Len(ledger') = Len(ledger) + 1
          /\ ledger'[Len(ledger) + 1] = NewRecord
      BY <2>2, <3>1
    <3>3. ledger' # <<>>
      BY <3>1, <3>2, EmptySeq
    <3> QED BY <2>3, <3>2, <3>3
  <2>5. Typed'
    BY <2>2, <2>4 DEF Typed, InRound
  <2>6. RowsTell'
    BY DEF RowsTell, Clearing, InRound
  <2>7. Saved'
    BY <2>1, <2>4 DEF Saved, Running
  <2>8. Stamped'
    BY DEF Stamped, Clearing
  <2> QED BY <2>5, <2>6, <2>7, <2>8, StillRunning DEF Clearing
<1>6. CASE CloseCommits /\ ~ (Cardinality(Service!Collected(Round)) <= BudgetContributors)
  BY <1>6, EndsQuietly DEF CloseCommits
<1>7. CASE CloseCommits /\ Service!CloseCommits /\ pc' = "summary" /\ UNCHANGED driver
  <2> USE <1>7 DEF CloseCommits
  <2>1. chain' = NextModel /\ staged' = staged
    BY <1>2 DEF Service!CloseCommits, Service!CommitStaged, NextModel, Round
  <2>2. Typed'
    BY <1>1, <2>1 DEF Typed, InRound
  <2>3. RowsTell'
    <3>1. /\ pc = "commit" /\ Len(rows) = Len(chain) /\ Len(chain) < Target
          /\ \A t \in 1..Len(rows) : rows[t].model = SubSeq(chain, 1, t)
      BY DEF RowsTell, InRound
    <3>2. \A t \in 1..Len(chain) : SubSeq(NextModel, 1, t) = SubSeq(chain, 1, t)
      BY <1>1, <1>2, PrefixOfAppend DEF NextModel
    <3>3. pc' = "summary" /\ rows' = rows
      OBVIOUS
    <3> QED BY <1>1, <1>2, <2>1, <3>1, <3>2, <3>3 DEF RowsTell, Clearing, InRound
  <2>4. Saved'
    BY <1>1, <2>1 DEF Saved, Running
  <2>5. Stamped'
    BY DEF Stamped, Clearing
  <2> QED BY <2>2, <2>3, <2>4, <2>5, StillRunning DEF Clearing
<1>8. CASE CloseBlocked
  <2> USE <1>8 DEF CloseBlocked
  <2>1. UNCHANGED <<staged, chain>>
    BY DEF Service!CloseBelowQuorum, Service!engine
  <2>2. Typed'
    BY <2>1 DEF Typed
  <2>3. RowsTell'
    BY <2>1 DEF RowsTell, Clearing, InRound
  <2>4. Saved'
    BY <2>1 DEF Saved, Running
  <2>5. Stamped'
    BY DEF Stamped, Clearing
  <2> QED BY <2>2, <2>3, <2>4, <2>5, StillRunning DEF Clearing
<1>9. CASE Summarize
  <2> USE <1>9 DEF Summarize
  <2> DEFINE last == ledger[Len(ledger)]
  <2>1. last \in Row /\ last.model = chain
    <3>1. ledger \in Seq(Row) /\ ledger # <<>> /\ last.model = chain
      BY DEF Typed, Saved
    <3>2. Len(ledger) \in 1..Len(ledger)
      BY <3>1, EmptySeq, LenProperties
    <3> QED BY <3>1, <3>2, ElementOfSeq
  <2> HIDE DEF last
  <2>2. rows' = Append(rows, last)
    BY DEF last
  <2>3. /\ rows \in Seq(Row) /\ Len(rows) = Len(chain) - 1 /\ Len(chain) <= Target
        /\ \A t \in 1..Len(rows) : rows[t].model = SubSeq(chain, 1, t)
    BY DEF Typed, RowsTell
  <2>4. /\ rows' \in Seq(Row) /\ Len(rows') = Len(chain)
        /\ \A t \in 1..Len(rows) : rows'[t] = rows[t]
        /\ rows'[Len(chain)] = last
    BY <2>1, <2>2, <2>3
  <2>5. SubSeq(chain, 1, Len(chain)) = chain
    BY <1>2, SubSeqFull
  <2>6. Typed'
    BY <2>4 DEF Typed, InRound
  <2>7. RowsTell'
    <3>1. \A t \in 1..Len(rows') : rows'[t].model = SubSeq(chain, 1, t)
      BY <1>2, <2>1, <2>3, <2>4, <2>5
    <3>2. pc' = (IF Len(rows') = Target THEN "manifest" ELSE "assign") /\ chain' = chain
      OBVIOUS
    <3> QED BY <1>2, <2>3, <2>4, <3>1, <3>2 DEF RowsTell, Clearing, InRound
  <2>8. Saved'
    BY DEF Saved, Running
  <2>9. Stamped'
    BY DEF Stamped, Clearing
  <2> QED BY <2>6, <2>7, <2>8, <2>9, StillRunning DEF Clearing
<1> QED BY <1>3, <1>4, <1>5, <1>6, <1>7, <1>8, <1>9 DEF CloseCommits, CloseSaves

\* A report says completed when it was written with a true completed.
LEMMA CompletedField ==
  ASSUME NEW a, NEW b, NEW c, NEW d, NEW r,
         r = [run |-> a, rows |-> b, final |-> c, completed |-> d], r.completed
  PROVE  d
BY Zenon

\* The run ends with its manifest and its report, or anywhere else.
LEMMA EndingKeeps ==
  ASSUME IInv, WriteManifest \/ WriteReport \/ Crash
  PROVE  IInv'
<1> USE DEF IInv, driver, service, disk
<1>1. CASE WriteManifest
  <2> USE <1>1 DEF WriteManifest
  <2>1. Typed'
    BY DEF Typed
  <2>2. RowsTell'
    BY DEF RowsTell, Clearing, InRound
  <2>3. Saved'
    BY DEF Saved, Running
  <2>4. Stamped'
    BY DEF Stamped, Clearing
  <2> QED BY <2>1, <2>2, <2>3, <2>4, StillRunning DEF Clearing
<1>2. CASE WriteReport
  <2> USE <1>2 DEF WriteReport
  <2>1. Typed' /\ RowsTell' /\ Saved'
    BY EndKeeps DEF Typed
  <2>2. report' = [run |-> run, rows |-> rows, final |-> chain,
                   completed |-> Len(rows) >= Target]
        /\ run' = run /\ pc' = "down" /\ checkpoints' = checkpoints
    BY DEF End
  <2>3. Stamped'
    BY <2>2 DEF Typed, Stamped, Readable
  <2>4. BundleBindsOneRun'
    <3>1. Len(rows) = Len(chain) /\ Len(chain) <= Target /\ Len(chain) \in Nat
      BY DEF Typed, RowsTell, Model
    <3>2. [round |-> Len(chain), model |-> chain] \in checkpoints
      BY DEF Saved, Running
    <3>3. SUFFICES ASSUME report'.completed
                   PROVE  /\ [round |-> Target, model |-> report'.final] \in checkpoints'
                          /\ Len(report'.rows) = Target
                          /\ \A t \in 1..Target :
                               report'.rows[t].model = SubSeq(report'.final, 1, t)
      BY DEF BundleBindsOneRun
    <3>4. Len(rows) >= Target
      <4> HIDE <1>2
      <4> DEFINE done == Len(rows) >= Target
      <4>1. report' = [run |-> run, rows |-> rows, final |-> chain, completed |-> done]
        BY <2>2
      <4> HIDE DEF done
      <4>2. done
        BY <3>3, <4>1, CompletedField
      <4> QED BY <4>2 DEF done
    <3>5. Len(chain) = Target
      BY <3>1, <3>4
    <3> QED BY <2>2, <3>1, <3>2, <3>5 DEF RowsTell
  <2> QED BY <2>1, <2>3, <2>4
<1>3. CASE Crash
  <2> USE <1>3 DEF Crash
  <2>1. Typed' /\ RowsTell' /\ Saved'
    <3>1. /\ ledgerFile' \in Seq(Row \cup {Torn}) /\ cutOff' \in BOOLEAN
          /\ cutOff' => ledgerFile' # <<>>
      <4>1. CASE UNCHANGED <<ledgerFile, cutOff>>
        BY <4>1 DEF Typed
      <4>2. CASE ledgerFile' \in {LedgerWith(Torn), LedgerWith(NewRecord)} /\ cutOff' = TRUE
        BY <4>2, LedgerWithIsFile
      <4> QED BY <4>1, <4>2
    <3> QED BY <3>1, EndKeeps
  <2>2. run' = run /\ pc' = "down"
    BY DEF End
  <2>3. Stamped'
    BY <2>2 DEF Typed, Stamped, Readable, Clearing
  <2>4. BundleBindsOneRun'
    <3>1. CASE report' = report /\ manifest' = manifest
      BY <3>1, BundleFrame
    <3>2. CASE report' = Torn
      BY <3>2 DEF BundleBindsOneRun, Accepted, Readable
    <3>3. CASE report' = report /\ manifest' = Torn
      BY <2>2, <2>3, <3>3 DEF BundleBindsOneRun, Accepted, Stamped, Typed
    <3> QED BY <3>1, <3>2, <3>3
  <2> QED BY <2>1, <2>3, <2>4
<1> QED BY <1>1, <1>2, <1>3

LEMMA Inductive == IInv /\ [Next]_vars => IInv'
<1> SUFFICES ASSUME IInv, [Next]_vars PROVE IInv'
  OBVIOUS
<1>1. CASE Next
  BY <1>1, PrepareKeeps, StartKeeps, AgentsKeep, CloseKeeps, EndingKeeps DEF Next, Step
<1>2. CASE UNCHANGED vars
  <2> USE <1>2 DEF vars, service, driver, disk
  <2>1. Typed'
    BY DEF IInv, Typed
  <2>2. RowsTell'
    BY DEF IInv, RowsTell
  <2>3. Saved'
    BY DEF IInv, Saved, Running, NextModel, Round, Service!Round, Service!Collected
  <2>4. Stamped'
    BY DEF IInv, Stamped, Readable
  <2> QED BY <2>1, <2>2, <2>3, <2>4, BundleFrame DEF IInv
<1> QED BY <1>1, <1>2

\* Whatever launches crash, and whatever of their files is left, a bundle that
\* can be built from a completed run's report carries that run's model and the
\* steps that led to it.
THEOREM BundleIsOfOneRun == Spec => []BundleBindsOneRun
<1>1. IInv => BundleBindsOneRun
  BY DEF IInv
<1> QED BY Initially, Inductive, <1>1, PTL DEF Spec

\* What a launch reports is its own model's history, also when a round of it was
\* blocked and an earlier launch's files are still there.
THEOREM RowsAreOfThisRun ==
  Spec => [](pc = "report" => /\ [round |-> Len(rows), model |-> chain] \in checkpoints
                              /\ \A t \in 1..Len(rows) : rows[t].model = SubSeq(chain, 1, t))
<1>1. IInv => (pc = "report" => /\ [round |-> Len(rows), model |-> chain] \in checkpoints
                                /\ \A t \in 1..Len(rows) : rows[t].model = SubSeq(chain, 1, t))
  BY DEF IInv, RowsTell, Saved, Running
<1> QED BY Initially, Inductive, <1>1, PTL DEF Spec

-----------------------------------------------------------------------------
(***************************************************************************)
(* The ledger: what the transport was handed is on record, and the ledger  *)
(* ends with the steps of the model.                                       *)
(***************************************************************************)

\* Every staged update is in its agent's record as submitted.  Those of the open
\* round are of the agents whose turn has come, so that no agent trains over one.
Handed ==
  /\ pc \in {"down", "boot"} \cup Clearing => staged = {} /\ ledger = <<>>
  /\ \A u \in staged :
       /\ u.round <= Len(chain)
       /\ RoundState(u.who, u.round, u.delta, TRUE) \in records
       /\ u.round = Len(chain) =>
            /\ pc \notin {"join", "assign", "summary"}
            /\ pc \in {"persist", "release"} => \E i \in 1..(turn - 1) : u.who = roster[i]
            /\ pc = "submit" => \E i \in 1..turn : u.who = roster[i]

\* The steps that are in the ledger: one more than the model's before the commit.
Steps == IF pc = "commit" THEN NextModel ELSE chain

\* The ledger's record r tells of step t of these steps, with these checkpoints and
\* these records of the agents.
Tells(r, t, steps, saved, recorded) ==
  /\ r.round = t - 1 /\ r.model = SubSeq(steps, 1, t)
  /\ r.who = Service!Contributors(steps[t])
  /\ [round |-> t, model |-> SubSeq(steps, 1, t)] \in saved
  /\ \A u \in steps[t] : RoundState(u.who, r.round, u.delta, TRUE) \in recorded

\* The lines are the records, but for a first one that an unfinished line swallowed.
Lines ==
  Running =>
    /\ Len(ledger) = Appended /\ Len(ledgerFile) >= Appended
    /\ cutOff => Appended = 0 /\ foundCut
    /\ \A t \in 1..Appended :
         LET line == ledgerFile[Len(ledgerFile) - Appended + t]
         IN  line = ledger[t] \/ (t = 1 /\ foundCut /\ line = Torn)

Told ==
  Running => \A t \in 1..Appended : Tells(ledger[t], t, Steps, checkpoints, records)

LInv == IInv /\ Handed /\ Lines /\ Told

\* Steps that leave the model and the ledger as they are, and of the records at
\* least those of earlier rounds.
LEMMA ToldFrame ==
  ASSUME IInv, Lines, Told, Running, pc # "commit", pc' # "commit",
         chain' = chain, UNCHANGED <<ledger, foundCut, ledgerFile, cutOff>>,
         checkpoints \subseteq checkpoints',
         \A s \in records : s.round < Len(chain) => s \in records'
  PROVE  Lines' /\ Told'
<1>1. Len(chain) \in Nat
  BY DEF IInv, Typed, Model
<1>2. /\ Steps = chain /\ Steps' = chain
      /\ Appended = Len(chain) /\ Appended' = Len(chain)
  BY <1>1 DEF Steps, Appended
<1>3. ASSUME NEW t \in 1..Len(chain), NEW r, Tells(r, t, chain, checkpoints, records)
      PROVE  Tells(r, t, chain, checkpoints', records')
  <2>1. ASSUME NEW u \in chain[t]
        PROVE  RoundState(u.who, r.round, u.delta, TRUE) \in records'
    <3> DEFINE s == RoundState(u.who, r.round, u.delta, TRUE)
    <3>1. s \in records /\ r.round = t - 1
      BY <1>3, <2>1 DEF Tells
    <3>2. s.round = r.round
      BY DEF RoundState
    <3> HIDE DEF s
    <3>3. s.round < Len(chain)
      BY <1>1, <3>1, <3>2
    <3>4. s \in records'
      BY <3>1, <3>3
    <3> QED BY <3>4 DEF s
  <2> QED BY <1>3, <2>1 DEF Tells
<1>4. Lines'
  BY <1>2 DEF Lines
<1> QED BY <1>2, <1>3, <1>4 DEF Told

\* The record of another participant, or of another round, is kept.
LEMMA OthersKeep ==
  ASSUME NEW who, NEW t, NEW s \in records, s.who # who \/ s.round # t
  PROVE  s \in Others(who, t)
BY DEF Others

LEMMA LedgerInitially == Init => LInv
<1> SUFFICES ASSUME Init PROVE LInv
  OBVIOUS
<1>1. staged = {} /\ pc = "down" /\ ledger = <<>>
  BY DEF Init, Service!Init
<1> QED BY <1>1, Initially DEF LInv, Handed, Lines, Told, Running

\* While there is no process, or only one that prepares the directory.
LEMMA QuietKeeps ==
  ASSUME LInv, pc' \in {"down", "boot"} \cup Clearing, staged' = {}, ledger' = <<>>
  PROVE  Handed' /\ Lines' /\ Told'
BY DEF Handed, Lines, Told, Running, Clearing

LEMMA BeginningKeeps ==
  ASSUME LInv, \/ \E r \in Rosters : Launch(r)
               \/ ClearArtifacts \/ ClearAgents \/ ClearManifest
               \/ Boot \/ Join \/ Assign \/ End
  PROVE  Handed' /\ Lines' /\ Told'
<1> USE DEF LInv, driver, service, disk
<1>1. CASE \/ \E r \in Rosters : Launch(r)
           \/ ClearArtifacts \/ ClearAgents \/ ClearManifest
  <2>1. /\ staged' = staged /\ staged = {} /\ ledger' = ledger /\ ledger = <<>>
        /\ pc' \in {"boot"} \cup Clearing
    BY <1>1 DEF Launch, ClearArtifacts, ClearAgents, ClearManifest, Handed, Clearing
  <2> QED BY <2>1, QuietKeeps
<1>2. CASE End
  BY <1>2, QuietKeeps DEF End
<1>3. CASE Boot
  <2>1. CASE RoundDirExists(0)
    BY <1>2, <1>3, <2>1, QuietKeeps DEF Boot, End
  <2>2. CASE ~ RoundDirExists(0)
    <3>1. /\ staged' = {} /\ chain' = <<>> /\ pc' = "join" /\ ledger' = <<>>
          /\ foundCut' = cutOff /\ cutOff' = cutOff
          /\ ledgerFile' = ledgerFile /\ Len(ledgerFile) \in Nat
      <4>1. chain = <<>> /\ staged = {} /\ pc = "boot"
        BY <1>3 DEF Boot, Handed, IInv, RowsTell
      <4>2. ledger = <<>>
        BY <4>1 DEF Handed
      <4>3. Len(ledgerFile) \in Nat
        BY LenProperties DEF IInv, Typed
      <4> QED BY <1>3, <2>2, <4>1, <4>2, <4>3 DEF Boot
    <3>2. Appended' = 0
      BY <3>1 DEF Appended
    <3> QED BY <3>1, <3>2 DEF Handed, Lines, Told, Clearing
  <2> QED BY <2>1, <2>2
<1>4. CASE Join \/ Assign
  <2>1. /\ UNCHANGED <<staged, chain, records, ledger, foundCut, ledgerFile, cutOff, checkpoints>>
        /\ pc \in {"join", "assign"} /\ pc' \in {"join", "assign", "persist"}
    BY <1>4 DEF Join, Assign, NextTurn, Service!Join, Service!AssignRound, Service!engine
  <2>2. Handed'
    BY <2>1 DEF Handed, Clearing
  <2>3. Lines' /\ Told'
    BY <2>1, ToldFrame DEF Running
  <2> QED BY <2>2, <2>3
<1> QED BY <1>1, <1>2, <1>3, <1>4

\* The agents' part of a round.
LEMMA HandingKeeps ==
  ASSUME LInv, Persist \/ Release \/ Submit
  PROVE  Handed' /\ Lines' /\ Told'
<1> USE DEF LInv, driver, service, disk
<1> DEFINE me == roster[turn]
<1>1. /\ roster \in Rosters /\ roster \in Seq(Trainer) /\ turn \in 1..Len(roster)
      /\ me \in Trainer
  <2>1. pc # "down"
    BY DEF Persist, Release, Submit
  <2>2. roster \in Rosters /\ roster \in Seq(Trainer) /\ turn \in 1..Len(roster)
    BY <2>1 DEF IInv, Typed
  <2> QED BY <2>2, ElementOfSeq
<1>2. Round = Len(chain) /\ Round \in Nat /\ Round' = Len(chain')
  BY DEF IInv, Typed, Model, Round, Service!Round
<1>3. \A u \in staged : u.round \in Nat /\ u.round <= Round
  BY <1>2 DEF IInv, Typed, Update, Handed
\* An update staged before this turn is not of this agent and round.
<1>4. ASSUME pc \in {"persist", "release"}, NEW u \in staged, u.round = Round
      PROVE  u.who # me
  <2>1. PICK i \in 1..(turn - 1) : u.who = roster[i]
    BY <1>2, <1>4 DEF Handed
  <2>2. i \in DOMAIN roster /\ turn \in DOMAIN roster /\ i # turn
    BY <1>1, <2>1
  <2> QED BY <1>1, <2>1, <2>2
\* So a record that is written anew leaves the others.
<1>5. ASSUME pc \in {"persist", "release"}, NEW rec, records' = Others(me, Round) \cup {rec}
      PROVE  /\ \A u \in staged : RoundState(u.who, u.round, u.delta, TRUE) \in records'
             /\ \A s \in records : s.round < Len(chain) => s \in records'
  <2>1. ASSUME NEW u \in staged
        PROVE  RoundState(u.who, u.round, u.delta, TRUE) \in records'
    <3>1. RoundState(u.who, u.round, u.delta, TRUE) \in records
      BY DEF Handed
    <3>2. u.who # me \/ u.round # Round
      BY <1>4, <1>5
    <3> DEFINE s == RoundState(u.who, u.round, u.delta, TRUE)
    <3>3. s.who = u.who /\ s.round = u.round
      BY DEF RoundState
    <3>4. s \in records
      BY <3>1
    <3> HIDE DEF s, me
    <3>5. s.who # me \/ s.round # Round
      BY <3>2, <3>3
    <3>6. s \in Others(me, Round)
      BY <3>4, <3>5, OthersKeep
    <3>7. s \in records'
      BY <1>5, <3>6
    <3> QED BY <3>7 DEF s
  <2>2. ASSUME NEW s \in records, s.round < Len(chain)
        PROVE  s \in records'
    <3>1. s.round # Round
      BY <1>2, <2>2
    <3> HIDE DEF me
    <3> QED BY <1>5, <3>1, OthersKeep
  <2> QED BY <2>1, <2>2
<1>6. CASE Persist
  <2>1. /\ pc = "persist" /\ pc' = "release"
        /\ UNCHANGED <<staged, chain, roster, turn, ledger, foundCut, ledgerFile, cutOff, checkpoints>>
    BY <1>6 DEF Persist
  <2>2. PICK d \in Delta : records' = Others(me, Round) \cup {RoundState(me, Round, d, FALSE)}
    BY <1>6 DEF Persist
  <2>3. /\ \A u \in staged : RoundState(u.who, u.round, u.delta, TRUE) \in records'
        /\ \A s \in records : s.round < Len(chain) => s \in records'
    BY <1>5, <2>1, <2>2
  <2>4. Handed'
    BY <2>1, <2>3 DEF Handed, Clearing
  <2>5. Lines' /\ Told'
    BY <2>1, <2>3, ToldFrame DEF Running
  <2> QED BY <2>4, <2>5
<1>7. CASE Release
  <2>1. /\ pc = "release" /\ pc' = "submit"
        /\ UNCHANGED <<chain, roster, turn, ledger, foundCut, ledgerFile, cutOff, checkpoints>>
    BY <1>7 DEF Release
  <2>2. PICK s \in records :
          /\ s.who = me /\ s.round = Round
          /\ staged' = staged \cup {[who |-> s.who, round |-> s.round, delta |-> s.delta]}
          /\ records' = Others(s.who, Round) \cup {RoundState(s.who, Round, s.delta, TRUE)}
    BY <1>7 DEF Release
  <2>3. /\ \A u \in staged : RoundState(u.who, u.round, u.delta, TRUE) \in records'
        /\ \A q \in records : q.round < Len(chain) => q \in records'
    <3>1. records' = Others(me, Round) \cup {RoundState(s.who, Round, s.delta, TRUE)}
      BY <2>2
    <3> QED BY <1>5, <2>1, <3>1
  <2>4. Handed'
    <3>1. ASSUME NEW u \in staged'
          PROVE  /\ u.round <= Len(chain)
                 /\ RoundState(u.who, u.round, u.delta, TRUE) \in records'
                 /\ u.round = Len(chain) => \E i \in 1..turn : u.who = roster[i]
      <4>1. CASE u \in staged
        <5>1. u.round = Len(chain) => \E i \in 1..(turn - 1) : u.who = roster[i]
          BY <2>1, <4>1 DEF Handed
        <5>2. u.round = Len(chain) => \E i \in 1..turn : u.who = roster[i]
          BY <1>1, <5>1
        <5> QED BY <1>2, <1>3, <2>3, <4>1, <5>2
      <4>2. CASE u = [who |-> s.who, round |-> s.round, delta |-> s.delta]
        <5>1. u.who = me /\ u.round = Round /\ u.delta = s.delta
          BY <2>2, <4>2
        <5> QED BY <1>1, <1>2, <2>2, <5>1
      <4> QED BY <2>2, <4>1, <4>2
    <3> QED BY <2>1, <3>1 DEF Handed, Clearing
  <2>5. Lines' /\ Told'
    BY <2>1, <2>3, ToldFrame DEF Running
  <2> QED BY <2>4, <2>5
<1>8. CASE Submit
  <2>1. PICK u \in Service!Collected(Round) :
          /\ u.who = roster[turn]
          /\ IF member[u.who].assigned = Round
             THEN /\ Service!SubmitUpdate(u.who, u.delta)
                  /\ NextTurn("persist", "close")
                  /\ UNCHANGED <<run, roster, rows, ledger, foundCut>>
             ELSE End
    BY <1>8 DEF Submit
  <2>2. CASE member[u.who].assigned # Round
    BY <2>1, <2>2, BeginningKeeps
  <2>3. CASE member[u.who].assigned = Round
    <3>1. /\ pc = "submit" /\ chain' = chain /\ roster' = roster
          /\ UNCHANGED <<records, ledger, foundCut, ledgerFile, cutOff, checkpoints>>
          /\ staged' = staged \cup {[who |-> u.who, round |-> Round, delta |-> u.delta]}
      BY <1>8, <2>1, <2>3 DEF Submit, Service!SubmitUpdate, Round
    <3>2. staged' = staged
      <4>1. u \in staged /\ u.round = Round /\ u \in Update
        BY <2>1 DEF Service!Collected, IInv, Typed
      <4>2. u = [who |-> u.who, round |-> Round, delta |-> u.delta]
        BY <4>1 DEF Update
      <4> QED BY <3>1, <4>1, <4>2
    <3>3. \/ pc' = "persist" /\ turn' = turn + 1
          \/ pc' = "close"
      BY <2>1, <2>3 DEF NextTurn
    <3>4. Handed'
      <4>1. ASSUME pc' = "persist"
            PROVE  turn' - 1 = turn
        BY <1>1, <3>3, <4>1
      <4> QED BY <3>1, <3>2, <3>3, <4>1 DEF Handed, Clearing
    <3>5. Lines' /\ Told'
      BY <3>1, <3>3, ToldFrame DEF Running
    <3> QED BY <3>4, <3>5
  <2> QED BY <2>2, <2>3
<1> QED BY <1>6, <1>7, <1>8

\* The close: the record that is appended tells of the step about to be made.
LEMMA ClosingKeeps ==
  ASSUME LInv, \/ CloseSaves \/ CloseAppends \/ CloseCommits \/ CloseBlocked \/ Summarize
               \/ WriteManifest
  PROVE  Handed' /\ Lines' /\ Told'
<1> USE DEF LInv, driver, service, disk
<1>1. /\ Service!Collected(Round) \in SUBSET Update
      /\ NextModel \in Model /\ Len(NextModel) = Len(chain) + 1
  BY NextModelIsModel DEF IInv
<1>2. /\ Round = Len(chain) /\ Len(chain) \in Nat /\ chain \in Seq(SUBSET Update)
      /\ Service!Round = Len(chain)
  BY DEF IInv, Typed, Model, Round, Service!Round
<1>3. CASE End
  BY <1>3, BeginningKeeps
<1>4. CASE /\ UNCHANGED <<staged, chain, records, ledger, foundCut, ledgerFile, cutOff>>
           /\ checkpoints \subseteq checkpoints'
           /\ pc \in {"close", "summary", "manifest"}
           /\ pc = "summary" => pc' \in {"manifest", "assign"}
           /\ pc # "summary" => pc' \in {"append", "manifest", "report"}
  <2>1. Handed'
    BY <1>4 DEF Handed, Clearing
  <2>2. Lines' /\ Told'
    BY <1>4, ToldFrame DEF Running
  <2> QED BY <2>1, <2>2
<1>5. CASE CloseAppends
  <2>1. /\ pc = "append" /\ pc' = "commit"
        /\ UNCHANGED <<staged, chain, records, foundCut, checkpoints>>
        /\ ledger' = Append(ledger, NewRecord)
        /\ ledgerFile' = LedgerWith(NewRecord) /\ cutOff' = FALSE
    BY <1>5 DEF CloseAppends
  <2>2. Handed'
    BY <2>1 DEF Handed, Clearing
  <2>3. /\ Steps = chain /\ Steps' = NextModel
        /\ Appended = Len(chain) /\ Appended' = Len(chain) + 1
    BY <1>2, <2>1 DEF Steps, Appended, NextModel, Round, Service!Round, Service!Collected
  <2>4. /\ Len(ledger') = Len(chain) + 1 /\ ledger'[Len(chain) + 1] = NewRecord
        /\ \A t \in 1..Len(chain) : ledger'[t] = ledger[t]
    <3>1. ledger \in Seq(Row) /\ NewRecord \in Row /\ Len(ledger) = Len(chain)
      BY <2>1, <2>3, LedgerWithIsFile DEF IInv, Typed, Lines, Running
    <3> QED BY <1>2, <2>1, <3>1
  <2>5. /\ \A t \in 1..Len(chain) : /\ SubSeq(NextModel, 1, t) = SubSeq(chain, 1, t)
                                   /\ NextModel[t] = chain[t]
        /\ SubSeq(NextModel, 1, Len(chain) + 1) = NextModel
        /\ NextModel[Len(chain) + 1] = Service!Collected(Round)
    BY <1>1, <1>2, PrefixOfAppend DEF NextModel
  <2>6. Told'
    <3>1. ASSUME NEW t \in 1..Len(chain)
          PROVE  Tells(ledger'[t], t, NextModel, checkpoints, records)
      <4>1. Tells(ledger[t], t, chain, checkpoints, records)
        BY <2>1, <2>3 DEF Told, Running
      <4> QED BY <2>4, <2>5, <4>1 DEF Tells
    <3>2. Tells(NewRecord, Len(chain) + 1, NextModel, checkpoints, records)
      <4>1. NewRecord.round = Round /\ NewRecord.model = NextModel
            /\ NewRecord.who = Service!Contributors(Service!Collected(Round))
        BY DEF NewRecord
      <4>2. [round |-> Len(chain) + 1, model |-> NextModel] \in checkpoints
        BY <2>1 DEF IInv, Saved
      <4>3. ASSUME NEW u \in Service!Collected(Round)
            PROVE  RoundState(u.who, Len(chain), u.delta, TRUE) \in records
        <5>1. u \in staged /\ u.round = Len(chain)
          BY <1>2 DEF Service!Collected
        <5>2. RoundState(u.who, u.round, u.delta, TRUE) \in records
          BY <5>1 DEF Handed
        <5> QED BY <5>1, <5>2
      <4>4. NewRecord.round = Len(chain) /\ NewRecord.round = Len(chain) + 1 - 1
        BY <1>2, <4>1
      <4>5. \A u \in Service!Collected(Round) :
              RoundState(u.who, NewRecord.round, u.delta, TRUE) \in records
        BY <4>3, <4>4
      <4> DEFINE n == Len(chain) + 1
      <4>6. /\ NewRecord.model = SubSeq(NextModel, 1, n) /\ SubSeq(NextModel, 1, n) = NextModel
            /\ NextModel[n] = Service!Collected(Round) /\ NewRecord.round = n - 1
            /\ [round |-> n, model |-> NextModel] \in checkpoints
        BY <2>5, <4>1, <4>2, <4>4
      <4> HIDE DEF n
      <4>7. Tells(NewRecord, n, NextModel, checkpoints, records)
        BY <4>1, <4>5, <4>6 DEF Tells
      <4> QED BY <4>7 DEF n
    <3>3. ASSUME NEW t \in 1..Appended'
          PROVE  Tells(ledger'[t], t, NextModel, checkpoints, records)
      <4>1. t \in 1..Len(chain) \/ t = Len(chain) + 1
        BY <1>2, <2>3
      <4> QED BY <2>4, <3>1, <3>2, <4>1
    <3> QED BY <2>1, <2>3, <3>3 DEF Told
  <2>7. Lines'
    <3>1. /\ ledgerFile \in Seq(Row \cup {Torn}) /\ NewRecord \in Row
          /\ cutOff => ledgerFile # <<>>
      BY LedgerWithIsFile DEF IInv, Typed
    <3>2. /\ Len(ledgerFile) >= Len(chain) /\ Len(ledgerFile) \in Nat
          /\ cutOff => Len(chain) = 0 /\ foundCut
          /\ \A t \in 1..Len(chain) :
               \/ ledgerFile[Len(ledgerFile) - Len(chain) + t] = ledger[t]
               \/ /\ t = 1 /\ foundCut
                  /\ ledgerFile[Len(ledgerFile) - Len(chain) + t] = Torn
      BY <2>1, <2>3, <3>1, LenProperties DEF Lines, Running
    <3>3. CASE cutOff
      <4>1. /\ ledgerFile' = [ledgerFile EXCEPT ![Len(ledgerFile)] = Torn]
            /\ Len(chain) = 0 /\ foundCut
        BY <2>1, <3>2, <3>3 DEF LedgerWith
      <4>2. Len(ledgerFile) \in 1..Len(ledgerFile)
        BY <3>1, <3>2, <3>3, EmptySeq
      <4>3. Len(ledgerFile') = Len(ledgerFile) /\ ledgerFile'[Len(ledgerFile)] = Torn
        BY <3>1, <4>1, <4>2, ExceptSeq
      <4>4. Len(ledgerFile') - Appended' + 1 = Len(ledgerFile)
        BY <2>3, <3>2, <4>1, <4>3
      <4>5. \A t \in 1..Appended' : t = 1
        BY <2>3, <4>1
      <4> QED BY <2>1, <2>3, <2>4, <3>2, <4>1, <4>2, <4>3, <4>4, <4>5 DEF Lines
    <3>4. CASE ~ cutOff
      <4>1. ledgerFile' = Append(ledgerFile, NewRecord)
        BY <2>1, <3>4 DEF LedgerWith
      <4>2. /\ Len(ledgerFile') = Len(ledgerFile) + 1
            /\ ledgerFile'[Len(ledgerFile) + 1] = NewRecord
            /\ \A i \in 1..Len(ledgerFile) : ledgerFile'[i] = ledgerFile[i]
        BY <3>1, <4>1
      <4>3. ASSUME NEW t \in 1..Appended'
            PROVE  \/ ledgerFile'[Len(ledgerFile') - Appended' + t] = ledger'[t]
                   \/ /\ t = 1 /\ foundCut'
                      /\ ledgerFile'[Len(ledgerFile') - Appended' + t] = Torn
        <5>1. Len(ledgerFile') - Appended' + t = Len(ledgerFile) - Len(chain) + t
          BY <1>2, <2>3, <3>2, <4>2
        <5>2. CASE t = Len(chain) + 1
          <6>1. Len(ledgerFile) - Len(chain) + t = Len(ledgerFile) + 1
            BY <1>2, <3>2, <5>2
          <6> QED BY <2>4, <4>2, <5>1, <5>2, <6>1
        <5>3. CASE t \in 1..Len(chain)
          <6>1. Len(ledgerFile) - Len(chain) + t \in 1..Len(ledgerFile)
            BY <1>2, <3>2, <5>3
          <6> QED BY <2>1, <2>4, <3>2, <4>2, <5>1, <5>3, <6>1
        <5> QED BY <1>2, <2>3, <5>2, <5>3
      <4>4. Len(ledgerFile') >= Appended'
        BY <1>2, <2>3, <3>2, <4>2
      <4> QED BY <2>1, <2>3, <2>4, <4>3, <4>4 DEF Lines
    <3> QED BY <3>3, <3>4
  <2> QED BY <2>2, <2>6, <2>7
<1>6. CASE CloseCommits /\ Service!CloseCommits /\ pc' = "summary" /\ UNCHANGED driver
  <2>1. /\ pc = "commit" /\ pc' = "summary" /\ UNCHANGED <<staged, records, ledger, foundCut, ledgerFile, cutOff, checkpoints>>
        /\ chain' = NextModel
    BY <1>2, <1>6 DEF CloseCommits, Service!CloseCommits, Service!CommitStaged, NextModel, Round
  <2>2. Len(chain') = Len(chain) + 1
    BY <1>1, <2>1
  <2>3. Handed'
    <3>1. ASSUME NEW u \in staged
          PROVE  u.round <= Len(chain) /\ u.round \in Nat
      BY DEF Handed, IInv, Typed, Update
    <3>2. ASSUME NEW u \in staged
          PROVE  u.round <= Len(chain') /\ u.round # Len(chain')
      BY <1>2, <2>2, <3>1
    <3> QED BY <2>1, <3>2 DEF Handed, Clearing
  <2>4. /\ Steps' = Steps /\ Appended' = Appended
    BY <1>2, <2>1, <2>2 DEF Steps, Appended
  <2>5. Lines' /\ Told'
    BY <2>1, <2>4 DEF Lines, Told, Running
  <2> QED BY <2>3, <2>5
<1> QED
  <2>1. CASE CloseSaves
    BY <1>3, <1>4, <2>1 DEF CloseSaves
  <2>2. CASE CloseCommits
    BY <1>3, <1>6, <2>2 DEF CloseCommits
  <2>3. CASE CloseBlocked
    BY <1>4, <2>3 DEF CloseBlocked, Service!CloseBelowQuorum, Service!engine
  <2>4. CASE Summarize
    BY <1>4, <2>4 DEF Summarize
  <2>5. CASE WriteManifest
    BY <1>4, <2>5 DEF WriteManifest
  <2> QED BY <1>5, <2>1, <2>2, <2>3, <2>4, <2>5

LEMMA LedgerInductive == LInv /\ [Next]_vars => LInv'
<1> SUFFICES ASSUME LInv, [Next]_vars PROVE LInv'
  OBVIOUS
<1>1. IInv'
  BY Inductive DEF LInv
<1>2. CASE Next
  <2>1. CASE WriteReport \/ Crash
    BY <1>1, <2>1, BeginningKeeps DEF WriteReport, Crash, LInv
  <2> QED BY <1>1, <1>2, <2>1, BeginningKeeps, HandingKeeps, ClosingKeeps
          DEF Next, Step, LInv
<1>3. CASE UNCHANGED vars
  <2> USE <1>3 DEF vars, service, driver, disk
  <2>1. Handed'
    BY DEF LInv, Handed
  <2>2. Lines' /\ Told'
    BY DEF LInv, Lines, Told, Steps, Running, Appended, NextModel, Round, Service!Round,
           Service!Collected, Service!Contributors
  <2> QED BY <1>1, <2>1, <2>2 DEF LInv
<1> QED BY <1>2, <1>3

\* Whatever an earlier launch left, also a line it did not finish: the ledger object
\* has this launch's outer steps, each with its artifact and with every contributor's
\* record of the same update, and the file ends with these records, but for a first
\* one that such a line swallowed.
THEOREM LedgerIsOfThisRun == Spec => []LedgerTellsRun
<1>1. LInv => LedgerTellsRun
  <2> SUFFICES ASSUME LInv, Running
               PROVE  /\ Len(ledger) = Appended /\ Len(ledgerFile) >= Appended
                      /\ \A t \in 1..Appended :
                           LET r    == ledger[t]
                               line == ledgerFile[Len(ledgerFile) - Appended + t]
                           IN
                           /\ line = r \/ (t = 1 /\ foundCut /\ line = Torn)
                           /\ r.round = t - 1
                           /\ [round |-> t, model |-> r.model] \in checkpoints
                           /\ r.who = Service!Contributors(r.model[t])
                           /\ \A u \in r.model[t] : RoundState(u.who, t - 1, u.delta, TRUE) \in records
                           /\ t <= Len(chain) => r.model = SubSeq(chain, 1, t)
    BY DEF LedgerTellsRun
  <2>1. /\ Steps \in Seq(SUBSET Update) /\ Len(Steps) = Appended
        /\ chain \in Seq(SUBSET Update) /\ Len(chain) \in Nat /\ Appended \in Nat
    BY NextModelIsModel DEF LInv, IInv, Typed, Model, Steps, Appended
  <2>2. ASSUME NEW t \in 1..Appended, NEW r, Tells(r, t, Steps, checkpoints, records)
        PROVE  /\ r.model[t] = Steps[t]
               /\ t <= Len(chain) => r.model = SubSeq(chain, 1, t)
    <3>1. SubSeq(Steps, 1, t)[t] = Steps[t]
      BY <2>1
    <3>2. t <= Len(chain) => SubSeq(Steps, 1, t) = SubSeq(chain, 1, t)
      <4>1. CASE pc = "commit"
        BY <2>1, <4>1, NextModelIsModel, PrefixOfAppend
           DEF Steps, NextModel, LInv, IInv
      <4>2. CASE pc # "commit"
        BY <4>2 DEF Steps
      <4> QED BY <4>1, <4>2
    <3> QED BY <2>2, <3>1, <3>2 DEF Tells
  <2>3. ASSUME NEW t \in 1..Appended
        PROVE  Tells(ledger[t], t, Steps, checkpoints, records)
    BY DEF LInv, Told
  <2>4. /\ Len(ledger) = Appended /\ Len(ledgerFile) >= Appended
        /\ \A t \in 1..Appended :
             LET line == ledgerFile[Len(ledgerFile) - Appended + t]
             IN  line = ledger[t] \/ (t = 1 /\ foundCut /\ line = Torn)
    BY DEF LInv, Lines
  <2> QED BY <2>2, <2>3, <2>4 DEF Tells
<1> QED BY LedgerInitially, LedgerInductive, <1>1, PTL DEF Spec
=============================================================================
