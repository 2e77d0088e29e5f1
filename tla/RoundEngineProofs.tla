------------------------- MODULE RoundEngineProofs -------------------------
(***************************************************************************)
(* Theorems about RoundEngine for every set of participants and deltas,    *)
(* every quorum, every number of rounds and every kind and number of       *)
(* failures.                                                               *)
(***************************************************************************)
EXTENDS RoundEngine, SequenceTheorems, TLAPS

-----------------------------------------------------------------------------
(***************************************************************************)
(* The inductive invariant.  The properties relate the ledger, the disk    *)
(* and the model between calls; to be preserved by the steps of a call     *)
(* they need what each step has already established for the next.          *)
(***************************************************************************)

\* The statement a call is at fixes the state of the round.
AtStep ==
  /\ pc \in {"collect", "probe"} => state = "collecting"
  /\ pc = "align" => state = "aggregating"
  /\ pc = "drift" => state = "aligning"
  /\ pc \in {"preview", "save", "append", "step"} => state = "committing"
  /\ pc = "next" => state = "closed"

\* The canonical model has as many outer steps as rounds were closed.
Depth ==
  /\ Len(params) = IF state = "closed" THEN round + 1 ELSE round
  /\ hash = ContentHash(Len(params), params)
  /\ published.round = round
  /\ Len(published.weights) = round
  /\ state # "closed" => published.weights = params

OneUpdateEach(us) == \A u, v \in us : u.who = v.who /\ u.round = v.round => u = v

\* What an attempt past COLLECTING averages, and what it has previewed.
Attempt ==
  /\ OneUpdateEach(staged)
  /\ pc \in {"probe", "align", "drift", "preview", "save", "append", "step"} =>
       /\ updates \subseteq Valid(round)
       /\ OneUpdateEach(updates)
       /\ Cardinality(Contributors(updates)) >= Quorum
  /\ pc \in {"save", "append", "step"} => candidate = OuterStep(params, updates)
  /\ pc = "append" =>
       \E a \in artifacts : /\ a.dir = round + 1
                            /\ a.hash = ContentHash(round + 1, candidate)
                            /\ a.parent = hash

\* The ledger is ahead of the model only between its append and the commit,
\* or for ever when the commit's own reduction failed in between.
LedgerTip ==
  /\ Len(ledger) \in {Len(params), Len(params) + 1}
  /\ Len(ledger) # Len(params) =>
       state = "committing" /\ pc \in {"step", "idle", "begin"}
  /\ pc = "step" => /\ Len(ledger) = Len(params) + 1
                    /\ ledger[Len(ledger)] = ContributionRecord
  /\ \A t \in 1..Len(ledger) : ledger[t].round = t - 1
  /\ \A t \in 1..Len(params) : ledger[t].who = Contributors(params[t])
  /\ params # <<>> => ledger[Len(params)].model = hash

IInv == TypeOK /\ AtStep /\ Depth /\ Attempt /\ LedgerTip /\ LedgerResolves
-----------------------------------------------------------------------------
(***************************************************************************)
(* Type correctness.                                                       *)
(***************************************************************************)

\* The empty sequence and one more contribution are weights.
LEMMA WeightsType ==
  /\ <<>> \in Weights
  /\ \A w \in Weights, us \in SUBSET Update : OuterStep(w, us) \in Weights
  BY DEF Weights, OuterStep

LEMMA ContentHashType ==
  ASSUME NEW t \in Nat, NEW w \in Weights
  PROVE  ContentHash(t, w) \in Hash
  BY DEF ContentHash, Hash

LEMMA RecordType ==
  ASSUME TypeOK PROVE ContributionRecord \in Record
<1>1. Contributors(updates) \subseteq Participant
  BY DEF TypeOK, Contributors, Update
<1>2. ContentHash(round + 1, candidate) \in Hash
  BY ContentHashType DEF TypeOK
<1> QED
  BY <1>1, <1>2 DEF TypeOK, ContributionRecord, Record

LEMMA InitTypeOK == Init => TypeOK
  BY EngineAssumption, WeightsType, ContentHashType
  DEF Init, TypeOK, RoundStates, Steps, Artifact, Hash

\* Init and every step keep the variables in their types.
LEMMA NextTypeOK == TypeOK /\ [Next]_vars => TypeOK'
<1> SUFFICES ASSUME TypeOK, [Next]_vars PROVE TypeOK'
  OBVIOUS
<1> USE EngineAssumption DEF TypeOK
<1> USE DEF driver, model, disk, call, RoundStates, Steps
<1>1. ASSUME NEW u \in Submissions, SubmitUpdate(u) PROVE TypeOK'
  BY <1>1 DEF SubmitUpdate, Submissions, Update
<1>2. CASE TryRound
  BY <1>2 DEF TryRound
<1>3. ASSUME NEW n \in RunSizes, Run(n) PROVE TypeOK'
  BY <1>3 DEF Run
<1>4. CASE Begin
  BY <1>4, WeightsType DEF Begin, Goto, Escaped, Return
<1>5. CASE Collect
  BY <1>5, WeightsType DEF Collect, Goto, Aborted, Return, Collected
<1>6. CASE CollectFails
  BY <1>6, WeightsType DEF CollectFails, Fault, Aborted, Return
<1>7. CASE Probe
  BY <1>7 DEF Probe, Goto
<1>8. CASE Align
  BY <1>8 DEF Align, Goto
<1>9. CASE AlignRejected
  BY <1>9, WeightsType DEF AlignRejected, Fault, Aborted, Return
<1>10. CASE MeasureDrift
  BY <1>10 DEF MeasureDrift, Goto
<1>11. CASE BackstopRaises
  BY <1>11, WeightsType DEF BackstopRaises, Fault, Escaped, Return
<1>12. CASE PreviewStep
  BY <1>12, WeightsType DEF PreviewStep, Goto
<1>13. CASE SaveCheckpoint
  <2>1. ContentHash(round + 1, candidate) \in Hash
    BY ContentHashType
  <2> QED
    BY <1>13, <2>1, WeightsType DEF SaveCheckpoint, Goto, Aborted, Return, Artifact
<1>14. CASE SaveFails
  BY <1>14, WeightsType DEF SaveFails, Fault, Aborted, Return
<1>15. CASE AppendContribution
  <2>1. CASE Aborted /\ UNCHANGED <<disk, faultsLeft>>
    BY <2>1, WeightsType DEF Aborted, Return
  <2>2. CASE /\ ledger' = Append(ledger, ContributionRecord)
             /\ ledgerFile' = Append(ledgerFile, ContributionRecord)
             /\ Goto("committing", "step")
             /\ UNCHANGED <<model, artifacts, published, staged, updates, candidate,
                            faultsLeft>>
    BY <2>2, RecordType DEF Goto
  <2> QED
    BY <1>15, <2>1, <2>2 DEF AppendContribution
<1>16. CASE AppendFails
  <2>1. Torn \in Record
    BY WeightsType DEF Torn, Record, Hash
  <2> QED
    BY <1>16, <2>1, WeightsType DEF AppendFails, Fault, Aborted, Return
<1>17. CASE CommitRound
  BY <1>17, WeightsType, ContentHashType DEF CommitRound
<1>18. CASE ReductionDiffers
  BY <1>18, WeightsType DEF ReductionDiffers, Fault, Escaped, Return
<1>19. CASE OpenNext
  BY <1>19, WeightsType DEF OpenNext, Escaped, Return, Hash
<1>20. CASE UNCHANGED vars
  BY <1>20 DEF vars
<1> QED
  BY <1>1, <1>2, <1>3, <1>4, <1>5, <1>6, <1>7, <1>8, <1>9, <1>10, <1>11, <1>12,
     <1>13, <1>14, <1>15, <1>16, <1>17, <1>18, <1>19, <1>20 DEF Next, EngineStep

\* Every variable of the coordinator keeps its type, whatever fails.
THEOREM TypeCorrect == Spec => []TypeOK
  BY InitTypeOK, NextTypeOK, PTL DEF Spec
-----------------------------------------------------------------------------
(***************************************************************************)
(* The invariant is inductive.                                             *)
(***************************************************************************)

LEMMA InitIInv == Init => IInv
<1> SUFFICES ASSUME Init PROVE IInv
  OBVIOUS
<1>1. TypeOK
  BY InitTypeOK
<1>2. AtStep /\ Depth /\ Attempt
  BY DEF Init, AtStep, Depth, Attempt, OneUpdateEach, ContentHash
<1>3. LedgerTip /\ LedgerResolves
  BY DEF Init, LedgerTip, LedgerResolves
<1> QED
  BY <1>1, <1>2, <1>3 DEF IInv

\* One step per action; under the five that touch the attempt, the ledger, the
\* disk or the model, one step per conjunct they could disturb.
LEMMA NextIInv == IInv /\ [Next]_vars => IInv'
<1> SUFFICES ASSUME IInv, [Next]_vars PROVE IInv'
  OBVIOUS
<1>0. TypeOK /\ TypeOK'
  BY NextTypeOK DEF IInv
<1> USE EngineAssumption, <1>0 DEF IInv
<1> USE DEF driver, model, disk, call, AtStep, Depth, Attempt, LedgerTip, LedgerResolves
<1>1. ASSUME NEW u \in Submissions, SubmitUpdate(u) PROVE IInv'
  <2>1. OneUpdateEach(staged)'
    BY <1>1 DEF SubmitUpdate, OneUpdateEach
  <2> QED
    BY <1>1, <2>1 DEF SubmitUpdate, ContributionRecord
<1>2. CASE TryRound
  BY <1>2 DEF TryRound
<1>3. ASSUME NEW n \in RunSizes, Run(n) PROVE IInv'
  BY <1>3 DEF Run
<1>4. CASE Begin
  BY <1>4 DEF Begin, Goto, Escaped, Return
<1>5. CASE Collect
  <2>1. CASE Aborted /\ UNCHANGED <<disk, faultsLeft>>
    BY <1>5, <2>1 DEF Collect, Aborted, Return
  <2>2. CASE /\ updates' = Collected(round)
             /\ Collected(round) \subseteq Valid(round)
             /\ Cardinality(Contributors(Collected(round))) >= Quorum
             /\ Goto("collecting", "probe")
             /\ UNCHANGED <<model, published, staged, candidate, disk, faultsLeft>>
    <3>1. OneUpdateEach(Collected(round))
      BY DEF OneUpdateEach, Collected
    <3> HIDE DEF LedgerResolves
    <3>2. Attempt'
      BY <1>5, <2>2, <3>1 DEF Collect, Goto, OneUpdateEach, Valid
    <3>3. (AtStep /\ Depth /\ LedgerTip)'
      BY <1>5, <2>2 DEF Collect, Goto
    <3>4. LedgerResolves'
      BY <2>2 DEF LedgerResolves
    <3> QED
      BY <3>2, <3>3, <3>4
  <2> QED
    BY <1>5, <2>1, <2>2 DEF Collect
<1>6. CASE CollectFails
  BY <1>6 DEF CollectFails, Fault, Aborted, Return
<1>7. CASE Probe
  BY <1>7 DEF Probe, Goto
<1>8. CASE Align
  BY <1>8 DEF Align, Goto
<1>9. CASE AlignRejected
  BY <1>9 DEF AlignRejected, Fault, Aborted, Return
<1>10. CASE MeasureDrift
  BY <1>10 DEF MeasureDrift, Goto
<1>11. CASE BackstopRaises
  BY <1>11 DEF BackstopRaises, Fault, Escaped, Return
<1>12. CASE PreviewStep
  BY <1>12 DEF PreviewStep, Goto
<1>13. CASE SaveCheckpoint
  <2>1. CASE Aborted /\ UNCHANGED <<disk, faultsLeft>>
    BY <1>13, <2>1 DEF SaveCheckpoint, Aborted, Return
  <2>2. CASE /\ artifacts' = artifacts \cup
                  {[dir |-> round + 1, hash |-> ContentHash(round + 1, candidate),
                    parent |-> hash]}
             /\ Goto("committing", "append")
             /\ UNCHANGED <<model, ledger, ledgerFile, published, staged, updates,
                            candidate, faultsLeft>>
    <3> DEFINE new == [dir |-> round + 1, hash |-> ContentHash(round + 1, candidate),
                       parent |-> hash]
    <3>0. new \in artifacts' /\ UNCHANGED <<round, candidate, hash, updates, staged, params>>
      BY <2>2 DEF Goto
    <3>1. Attempt'
      <4>1. \E a \in artifacts' : /\ a.dir = round' + 1
                                  /\ a.hash = ContentHash(round' + 1, candidate')
                                  /\ a.parent = hash'
        BY <3>0 DEF ContentHash
      <4> QED
        BY <1>13, <2>2, <3>0, <4>1 DEF SaveCheckpoint, Goto, Valid, ContentHash
    <3>2. (AtStep /\ Depth /\ LedgerTip)'
      BY <1>13, <2>2 DEF SaveCheckpoint, Goto
    <3>3. LedgerResolves'
      BY <2>2
    <3> QED
      BY <3>1, <3>2, <3>3
  <2> QED
    BY <1>13, <2>1, <2>2 DEF SaveCheckpoint
<1>14. CASE SaveFails
  BY <1>14 DEF SaveFails, Fault, Aborted, Return
<1>15. CASE AppendContribution
  <2>1. CASE Aborted /\ UNCHANGED <<disk, faultsLeft>>
    BY <1>15, <2>1 DEF AppendContribution, Aborted, Return
  <2>2. CASE /\ ledger' = Append(ledger, ContributionRecord)
             /\ ledgerFile' = Append(ledgerFile, ContributionRecord)
             /\ Goto("committing", "step")
             /\ UNCHANGED <<model, artifacts, published, staged, updates, candidate,
                            faultsLeft>>
    <3>1. Len(ledger) = round /\ Len(params) = round
      BY <1>15 DEF AppendContribution
    <3>2. /\ Len(ledger') = round + 1
          /\ ledger'[round + 1] = ContributionRecord
          /\ \A i \in 1..round : ledger'[i] = ledger[i]
      BY <2>2, <3>1
    <3>3. (AtStep /\ Depth /\ Attempt)'
      BY <1>15, <2>2 DEF AppendContribution, Goto
    <3>4. ContributionRecord' = ContributionRecord
      BY <2>2 DEF Goto, ContributionRecord
    <3>5. LedgerTip'
      BY <1>15, <2>2, <3>1, <3>2, <3>4 DEF AppendContribution, Goto, ContributionRecord
    <3>6. LedgerResolves'
      <4> SUFFICES ASSUME NEW i \in 1..(round + 1)
                   PROVE  \E a \in artifacts :
                            /\ a.dir = ledger'[i].round + 1
                            /\ a.hash = ledger'[i].model
                            /\ a.parent = IF i = 1 THEN ContentHash(0, <<>>)
                                          ELSE ledger'[i - 1].model
        BY <2>2, <3>2
      <4>1. CASE i \in 1..round
        <5>1. ledger'[i] = ledger[i] /\ (i # 1 => ledger'[i - 1] = ledger[i - 1])
          <6>1. i # 1 => i - 1 \in 1..round
            BY <4>1
          <6> QED
            BY <3>2, <4>1, <6>1
        <5> QED
          BY <3>1, <4>1, <5>1
      <4>2. CASE i = round + 1
        <5>1. PICK a \in artifacts : /\ a.dir = round + 1
                                     /\ a.hash = ContentHash(round + 1, candidate)
                                     /\ a.parent = hash
          BY <1>15 DEF AppendContribution
        <5>2. hash = IF i = 1 THEN ContentHash(0, <<>>) ELSE ledger'[i - 1].model
          <6>1. CASE i = 1
            BY <3>1, <4>2, <6>1 DEF Weights
          <6>2. CASE i # 1
            BY <3>1, <3>2, <4>2, <6>2
          <6> QED
            BY <6>1, <6>2
        <5> QED
          BY <3>2, <4>2, <5>1, <5>2 DEF ContributionRecord
      <4> QED
        BY <4>1, <4>2
    <3> QED
      BY <3>3, <3>5, <3>6
  <2> QED
    BY <1>15, <2>1, <2>2 DEF AppendContribution
<1>16. CASE AppendFails
  BY <1>16 DEF AppendFails, Fault, Aborted, Return
<1>17. CASE CommitRound
  <2>1. /\ Len(params) = round /\ Len(ledger) = round + 1
        /\ ledger[round + 1] = ContributionRecord
    BY <1>17 DEF CommitRound
  <2>2. params' = Append(params, updates)
    BY <1>17 DEF CommitRound, OuterStep
  <2>3. /\ Len(params') = round + 1
        /\ params'[round + 1] = updates
        /\ \A t \in 1..round : params'[t] = params[t]
    BY <2>1, <2>2 DEF Weights
  <2>4. (AtStep /\ Depth /\ Attempt)'
    BY <1>17, <2>3 DEF CommitRound
  <2>5. LedgerTip'
    BY <1>17, <2>1, <2>3 DEF CommitRound, ContributionRecord
  <2>6. LedgerResolves'
    BY <1>17 DEF CommitRound
  <2> QED
    BY <2>4, <2>5, <2>6
<1>18. CASE ReductionDiffers
  BY <1>18 DEF ReductionDiffers, Fault, Escaped, Return
<1>19. CASE OpenNext
  BY <1>19 DEF OpenNext, Escaped, Return
<1>20. CASE UNCHANGED vars
  BY <1>20 DEF vars, ContributionRecord
<1> QED
  BY <1>1, <1>2, <1>3, <1>4, <1>5, <1>6, <1>7, <1>8, <1>9, <1>10, <1>11, <1>12,
     <1>13, <1>14, <1>15, <1>16, <1>17, <1>18, <1>19, <1>20 DEF Next, EngineStep

LEMMA Inductive == Spec => []IInv
  BY InitIInv, NextIInv, PTL DEF Spec

-----------------------------------------------------------------------------
(***************************************************************************)
(* What participants and auditors rely on, under every failure.            *)
(***************************************************************************)

\* The ledger names exactly the averaged contributors of every outer step the
\* canonical model contains.
THEOREM LedgerIsTrueAccount == Spec => []LedgerAccountsForModel
<1>1. IInv => LedgerAccountsForModel
  BY DEF IInv, TypeOK, LedgerTip, LedgerAccountsForModel, Weights
<1> QED
  BY <1>1, Inductive, PTL

\* Every ledger record resolves to an artifact chained to its predecessor's.
THEOREM LedgerAlwaysResolves == Spec => []LedgerResolves
<1>1. IInv => LedgerResolves
  BY DEF IInv
<1> QED
  BY <1>1, Inductive, PTL

\* The announced GlobalState is the canonical one.
THEOREM AnnouncedIsCanonical == Spec => []PublishedIsCanonical
<1>1. IInv => PublishedIsCanonical
  BY DEF IInv, TypeOK, Depth, PublishedIsCanonical, ContentHash, Hash
<1> QED
  BY <1>1, Inductive, PTL

-----------------------------------------------------------------------------
(***************************************************************************)
(* Aborts.  What an aborted round may leave behind, under every kind and   *)
(* number of failures; and that a caller may retry, if every failure is    *)
(* one that a handler of the round body meets.                             *)
(***************************************************************************)

\* An exception without a handler left the driver in COMMITTING, for ever.
Stuck == state = "committing" /\ pc \in {"idle", "begin"}

\* The momentum follows the model, the directory is at most one artifact ahead of
\* it, and the file is the ledger until an append fails behind such an artifact,
\* which keeps every later attempt from appending.
Leftovers ==
  /\ ~ Stuck => velocity = params
  /\ \A d \in Nat : /\ d <= round => ArtifactAt(d)
                    /\ ArtifactAt(d) => d <= round + 1
  /\ state = "closed" \/ pc \in {"append", "step"} => ArtifactAt(round + 1)
  /\ ledgerFile # ledger =>
       /\ ledgerFile = Append(ledger, Torn)
       /\ ArtifactAt(round + 1)
       /\ state # "closed" /\ pc \notin {"append", "step"}

LEMMA InitLeftovers == Init => Leftovers
<1> SUFFICES ASSUME Init PROVE Leftovers
  OBVIOUS
<1>1. \A d \in Nat : ArtifactAt(d) <=> d = 0
  BY DEF Init, ArtifactAt
<1> QED
  BY <1>1 DEF Init, Leftovers

\* What leaves the disk and the model alone, and ends or goes on with an attempt
\* that has written nothing.
LEMMA LeftoversStand ==
  ASSUME IInv, Leftovers, UNCHANGED <<disk, model, round>>,
         pc' \notin {"append", "step"}, state' # "closed", pc \notin {"append", "step"},
         Stuck => Stuck'
  PROVE  Leftovers'
<1>1. \A d : ArtifactAt(d)' <=> ArtifactAt(d)
  BY DEF ArtifactAt, disk
<1>2. UNCHANGED <<artifacts, ledger, ledgerFile, params, velocity, round>>
  BY DEF disk, model
<1> QED
  BY <1>1, <1>2 DEF Leftovers

LEMMA NextLeftovers ==
  ASSUME IInv, Leftovers, [Next]_vars PROVE Leftovers'
<1>0. TypeOK /\ AtStep /\ TypeOK'
  BY NextTypeOK DEF IInv
<1>a. \A d : UNCHANGED artifacts => (ArtifactAt(d)' <=> ArtifactAt(d))
  BY DEF ArtifactAt
<1>b. ASSUME UNCHANGED <<disk, model, round, state, pc>> PROVE Leftovers'
  BY <1>a, <1>b DEF Leftovers, Stuck, disk, model
<1> USE <1>0 DEF driver, model, disk, call
<1>1. ASSUME NEW u \in Submissions, SubmitUpdate(u) PROVE Leftovers'
  BY <1>1, <1>b DEF SubmitUpdate
<1>2. CASE TryRound \/ \E n \in RunSizes : Run(n)
  <2>1. pc = "idle" /\ pc' = "begin" /\ UNCHANGED <<driver, model, disk>>
    BY <1>2 DEF TryRound, Run
  <2> QED
    BY <2>1, <1>a DEF Leftovers, Stuck
<1>3. CASE Begin
  <2>1. CASE state \in {"open", "aborted"}
    BY <1>3, <2>1, LeftoversStand DEF Begin, Goto, Stuck
  <2>2. CASE state \notin {"open", "aborted"}
    <3>1. pc = "begin" /\ pc' = "idle" /\ UNCHANGED <<driver, model, disk>>
      BY <1>3, <2>2 DEF Begin, Escaped, Return
    <3> QED
      BY <3>1, <1>a DEF Leftovers, Stuck
  <2> QED
    BY <2>1, <2>2
<1>4. CASE Collect
  BY <1>4, LeftoversStand DEF Collect, Goto, Aborted, Return, Stuck
<1>5. CASE CollectFails \/ AlignRejected \/ SaveFails
  BY <1>5, LeftoversStand
  DEF CollectFails, AlignRejected, SaveFails, Aborted, Return, Stuck
<1>6. CASE Probe \/ Align \/ MeasureDrift \/ PreviewStep
  BY <1>6, LeftoversStand DEF Probe, Align, MeasureDrift, PreviewStep, Goto, Stuck
<1>7. CASE BackstopRaises
  BY <1>7, LeftoversStand DEF BackstopRaises, Escaped, Return, Stuck, AtStep
<1>8. CASE SaveCheckpoint
  <2>1. CASE ArtifactAt(round + 1)
    BY <1>8, <2>1, LeftoversStand DEF SaveCheckpoint, Aborted, Return, Stuck
  <2>2. CASE ~ ArtifactAt(round + 1)
    <3>1. /\ \E new : new.dir = round + 1 /\ artifacts' = artifacts \cup {new}
          /\ Goto("committing", "append")
          /\ UNCHANGED <<model, ledger, ledgerFile>>
      <4> DEFINE new == [dir |-> round + 1, hash |-> ContentHash(round + 1, candidate),
                         parent |-> hash]
      <4>1. new.dir = round + 1
        OBVIOUS
      <4>2. artifacts' = artifacts \cup {new}
        BY <1>8, <2>2 DEF SaveCheckpoint
      <4> QED
        BY <1>8, <2>2, <4>1, <4>2 DEF SaveCheckpoint
    <3>2. \A d \in Nat : ArtifactAt(d)' <=> ArtifactAt(d) \/ d = round + 1
      BY <3>1 DEF ArtifactAt
    <3>3. ledgerFile = ledger /\ velocity = params /\ round \in Nat
      BY <1>8, <2>2 DEF Leftovers, Stuck, SaveCheckpoint, TypeOK
    <3> QED
      BY <3>1, <3>2, <3>3 DEF Leftovers, Goto, Stuck
  <2> QED
    BY <2>1, <2>2
<1>9. CASE AppendContribution
  <2>1. ledgerFile = ledger /\ velocity = params /\ ArtifactAt(round + 1) /\ pc = "append"
    BY <1>9 DEF Leftovers, Stuck, AppendContribution
  <2>2. /\ ledgerFile' = ledger' /\ UNCHANGED <<artifacts, model, round>>
        /\ ~ Stuck' /\ state' # "closed"
    BY <1>9, <2>1 DEF AppendContribution, Aborted, Return, Goto, Stuck
  <2> QED
    BY <2>1, <2>2, <1>a DEF Leftovers
<1>10. CASE AppendFails
  <2>1. ledgerFile = ledger /\ velocity = params /\ ArtifactAt(round + 1)
    BY <1>10 DEF Leftovers, Stuck, AppendFails
  <2>2. /\ UNCHANGED <<artifacts, ledger, model, round>>
        /\ ledgerFile' \in {ledger, Append(ledger, Torn)}
        /\ state' = "aborted" /\ pc' = "idle"
    BY <1>10, <2>1 DEF AppendFails, Aborted, Return
  <2> QED
    BY <2>1, <2>2, <1>a DEF Leftovers
<1>11. CASE CommitRound
  <2>1. ledgerFile = ledger /\ velocity = params /\ ArtifactAt(round + 1)
    BY <1>11 DEF Leftovers, Stuck, CommitRound
  <2>2. candidate = OuterStep(params, updates)
    BY <1>11 DEF IInv, Attempt, CommitRound
  <2> QED
    BY <1>11, <2>1, <2>2, <1>a DEF Leftovers, CommitRound
<1>12. CASE ReductionDiffers
  <2>1. CASE pc = "preview"
    BY <1>12, <2>1, LeftoversStand DEF ReductionDiffers, Escaped, Return, Stuck, AtStep
  <2>2. CASE pc = "step"
    <3>1. ledgerFile = ledger /\ UNCHANGED <<artifacts, ledger, ledgerFile, driver, params>>
      BY <1>12, <2>2 DEF ReductionDiffers, Escaped, Leftovers
    <3> QED
      BY <1>12, <2>2, <3>1, <1>a
      DEF Leftovers, ReductionDiffers, Escaped, Return, AtStep, Stuck
  <2> QED
    BY <1>12, <2>1, <2>2 DEF ReductionDiffers
<1>13. CASE OpenNext
  <2>1. /\ state = "closed" /\ ledgerFile = ledger /\ velocity = params
        /\ round \in Nat /\ ArtifactAt(round + 1)
    BY <1>13 DEF OpenNext, AtStep, Leftovers, Stuck, TypeOK
  <2>2. CASE toGo = 1
    BY <1>13, <2>1, <2>2, <1>a DEF OpenNext, Escaped, Return, Leftovers, Stuck
  <2>3. CASE toGo # 1
    <3>1. /\ state' = "open" /\ pc' \in {"idle", "begin"} /\ round' = round + 1
          /\ UNCHANGED <<velocity, params, artifacts, ledger, ledgerFile>>
      BY <1>13, <2>3 DEF OpenNext
    <3>2. \A d \in Nat : d <= round + 1 <=> (d <= round \/ d = round + 1)
      BY <2>1
    <3>3. \A d \in Nat : (d <= round' => ArtifactAt(d)') /\ (ArtifactAt(d)' => d <= round' + 1)
      BY <2>1, <3>1, <3>2, <1>a DEF Leftovers
    <3> QED
      BY <2>1, <3>1, <3>3 DEF Leftovers, Stuck
  <2> QED
    BY <2>2, <2>3
<1>14. CASE UNCHANGED vars
  BY <1>14, <1>b DEF vars
<1> QED
  BY <1>1, <1>2, <1>3, <1>4, <1>5, <1>6, <1>7, <1>8, <1>9, <1>10, <1>11, <1>12,
     <1>13, <1>14 DEF Next, EngineStep

\* An aborted round leaves the model, the momentum, the announcement and the
\* records as the last commit left them, whatever kinds of failure strike and
\* however many: only an artifact and part of a line may be left by a failed append.
THEOREM AbortKeepsModel == Spec => []AbortLeavesModel
<1>1. ASSUME IInv, Leftovers PROVE AbortLeavesModel
  <2> SUFFICES ASSUME state = "aborted" PROVE AbortLeavesModel!2
    BY DEF AbortLeavesModel
  <2>1. /\ velocity = params /\ round \in Nat /\ Len(ledger) = round
        /\ hash = ContentHash(round, params)
    BY <1>1 DEF IInv, TypeOK, Depth, LedgerTip, Leftovers, Stuck
  <2>2. published = hash
    BY <1>1, <2>1 DEF IInv, TypeOK, Depth, ContentHash, Hash
  <2>3. Directories = {d \in Nat : ArtifactAt(d)}
    BY <1>1 DEF IInv, TypeOK, Artifact, Directories, ArtifactAt
  <2>4. CASE ArtifactAt(round + 1)
    <3>1. \A d \in Nat : ArtifactAt(d) <=> d <= round + 1
      BY <1>1, <2>1, <2>4 DEF Leftovers
    <3>2. Directories = 0..(round + 1)
      BY <2>1, <2>3, <3>1
    <3> QED
      BY <1>1, <2>1, <2>2, <3>2 DEF Leftovers
  <2>5. CASE ~ ArtifactAt(round + 1)
    <3>1. \A d \in Nat : ArtifactAt(d) <=> d <= round
      BY <1>1, <2>1, <2>5 DEF Leftovers
    <3>2. Directories = 0..round
      BY <2>1, <2>3, <3>1
    <3> QED
      BY <1>1, <2>1, <2>2, <2>5, <3>2 DEF Leftovers
  <2> QED
    BY <2>4, <2>5
<1>2. Init => Leftovers
  BY InitLeftovers
<1>3. IInv /\ Leftovers /\ [Next]_vars => Leftovers'
  BY NextLeftovers
<1> QED
  BY <1>1, <1>2, <1>3, Inductive, PTL DEF Spec

HandledFaults == {"transport", "selfcheck", "checkpoint", "ledger"}

\* Between calls the round is OPEN, CLOSED or ABORTED.
Retryable == pc \in {"idle", "begin"} => state \in {"open", "closed", "aborted"}

\* Whoever calls run or try_round gets control back where a retry is legal, if
\* every failure is one the round body handles.
THEOREM CallerMayRetry ==
  ASSUME Faults \subseteq HandledFaults PROVE Spec => []NeverWedged
<1>1. Init => Retryable
  BY DEF Init, Retryable
<1>2. ASSUME IInv, Retryable, [Next]_vars PROVE Retryable'
  <2> USE <1>2 DEF IInv, AtStep, Retryable, driver, call
  <2>1. ASSUME NEW u \in Submissions, SubmitUpdate(u) PROVE Retryable'
    BY <2>1 DEF SubmitUpdate
  <2>2. CASE TryRound \/ \E n \in RunSizes : Run(n)
    BY <2>2 DEF TryRound, Run
  <2>3. CASE Begin \/ Collect \/ CollectFails \/ Probe
    BY <2>3 DEF Begin, Collect, CollectFails, Probe, Goto, Escaped, Aborted, Return
  <2>4. CASE Align \/ AlignRejected \/ MeasureDrift \/ PreviewStep
    BY <2>4 DEF Align, AlignRejected, MeasureDrift, PreviewStep, Goto, Aborted, Return
  <2>5. CASE SaveCheckpoint \/ SaveFails \/ AppendContribution \/ AppendFails
    BY <2>5 DEF SaveCheckpoint, SaveFails, AppendContribution, AppendFails, Goto, Aborted,
                Return
  <2>6. CASE CommitRound \/ OpenNext
    BY <2>6 DEF CommitRound, OpenNext, Escaped, Return
  <2>7. CASE BackstopRaises \/ ReductionDiffers
    BY <2>7 DEF BackstopRaises, ReductionDiffers, Fault, HandledFaults
  <2>8. CASE UNCHANGED vars
    BY <2>8 DEF vars
  <2> QED
    BY <2>1, <2>2, <2>3, <2>4, <2>5, <2>6, <2>7, <2>8 DEF Next, EngineStep
<1>3. Retryable => NeverWedged
  BY DEF Retryable, NeverWedged
<1> QED
  BY <1>1, <1>2, <1>3, Inductive, PTL DEF Spec

-----------------------------------------------------------------------------
(***************************************************************************)
(* Refinement: the coordinator implements the chain of outer steps.        *)
(***************************************************************************)

LEMMA ChainInit == Init => Chain!Init
  BY DEF Init, Chain!Init

\* The commit appends one eligible contribution of a quorum to the chain.
LEMMA CommitIsChainStep == IInv /\ CommitRound => Chain!Commit
<1> SUFFICES ASSUME IInv, CommitRound PROVE Chain!Commit
  OBVIOUS
<1>1. published.round = Len(params) /\ Len(params) = round
  BY DEF IInv, AtStep, Depth, CommitRound
<1>2. /\ updates \subseteq Valid(round)
      /\ OneUpdateEach(updates)
      /\ Cardinality(Contributors(updates)) >= Quorum
      /\ candidate = Append(params, updates)
  BY DEF IInv, Attempt, CommitRound, OuterStep
<1>3. updates \in SUBSET Chain!Eligible(Len(params))
  BY <1>1, <1>2 DEF Chain!Eligible, Valid
<1>4. Chain!OnePerParticipant(updates)
  BY <1>2 DEF Chain!OnePerParticipant, OneUpdateEach, Valid
<1>5. Chain!Cardinality(Chain!Contributors(updates)) >= Quorum
  <2>1. Chain!Contributors(updates) = Contributors(updates)
    BY DEF Chain!Contributors, Contributors
  <2>2. Chain!Cardinality(Contributors(updates)) = Cardinality(Contributors(updates))
    BY Zenon DEF Chain!Cardinality, Cardinality
  <2> QED
    BY <1>2, <2>1, <2>2
<1>6. params' = Append(params, updates) /\ UNCHANGED published.round
  BY <1>2 DEF CommitRound
<1> QED
  BY <1>1, <1>3, <1>4, <1>5, <1>6 DEF Chain!Commit

\* Every step of the coordinator is a step of the chain or leaves it alone.
LEMMA ChainNext == IInv /\ [Next]_vars => [Chain!Next]_(Chain!vars)
<1> SUFFICES ASSUME IInv, [Next]_vars,
                    ~ UNCHANGED <<params, published.round>>
             PROVE  Chain!Next
  BY DEF Chain!vars
<1> USE DEF driver, model, disk, call
<1>1. CASE CommitRound
  BY <1>1, CommitIsChainStep DEF Chain!Next
<1>2. CASE OpenNext
  <2>1. Len(params) = round + 1 /\ published.round = round /\ round \in Nat
    BY <1>2 DEF IInv, TypeOK, AtStep, Depth, OpenNext
  <2>2. published.round' = round + 1 /\ UNCHANGED params
    BY <1>2 DEF OpenNext, Escaped
  <2> QED
    BY <2>1, <2>2 DEF Chain!Next, Chain!Announce
<1>3. ASSUME NEW u \in Submissions, SubmitUpdate(u) PROVE FALSE
  BY <1>3 DEF SubmitUpdate
<1>4. ASSUME NEW n \in RunSizes, Run(n) PROVE FALSE
  BY <1>4 DEF Run
<1>5. CASE TryRound \/ UNCHANGED vars
  BY <1>5 DEF TryRound, vars
<1>6. CASE EngineStep /\ ~ CommitRound /\ ~ OpenNext
  BY <1>6 DEF EngineStep, Begin, Collect, CollectFails, Probe, Align, AlignRejected,
     MeasureDrift, BackstopRaises, PreviewStep, SaveCheckpoint, SaveFails,
     AppendContribution, AppendFails, ReductionDiffers, Aborted, Escaped, Goto
<1> QED
  BY <1>1, <1>2, <1>3, <1>4, <1>5, <1>6 DEF Next

\* The coordinator implements the chain: each outer step averages one
\* well-formed delta of that round from each of at least Quorum participants,
\* and none is taken before the previous one is announced.
THEOREM ImplementsChain == Spec => ImplementsCommitChain
  BY ChainInit, ChainNext, Inductive, PTL DEF Spec, ImplementsCommitChain, Chain!Spec
=============================================================================
