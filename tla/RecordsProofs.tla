---------------------------- MODULE RecordsProofs ----------------------------
(***************************************************************************)
(* What files tell after crashes, failed writes and reruns, proved for     *)
(* every value of the constants: the participant agent's two files, the    *)
(* contribution ledger's lines, and the chain of reports that ends in the  *)
(* evidence bundle.  The three components share no state: each part below  *)
(* is about one of them.                                                   *)
(***************************************************************************)
EXTENDS ParticipantAgent, ContributionLedger, EvidencePipeline, SequenceTheorems,
        FiniteSetTheorems, WellFoundedInduction, TLAPS

-----------------------------------------------------------------------------
(***************************************************************************)
(* The participant agent.                                                  *)
(***************************************************************************)
\* What the process in flight knows of the round it joined: before its record is
\* written nothing of the round was released, unless it is run anew; from then on
\* both files hold its update, and after the submission so does the transport.
InFlight ==
  /\ pc \in {"persist_delta", "persist_record", "submit", "mark"} => update \in Release
  /\ pc = "persist_record" => delta[joined] = update
  /\ pc \in {"submit", "mark"} =>
       /\ record[joined] \in RoundState
       /\ record[joined].delta = update
       /\ delta[joined] = update
  /\ pc = "mark" => staged[joined] = update
  /\ pc \in {"train", "persist_delta", "persist_record"} /\ joined \notin reran =>
       record[joined] = Nothing /\ released[joined] = {}

\* What was released of a round that was never run anew: the recorded release,
\* as long as the record can be read, and never anything before the record.
ReleasedIsRecorded ==
  \A t \in Rounds : t \notin reran =>
    /\ released[t] # {} => record[t] # Nothing
    /\ Recorded(t) => released[t] \subseteq {record[t].delta}

\* The inductive invariant.
IInv ==
  /\ TypeOK /\ InFlight /\ ReleasedIsRecorded
  /\ ResumeReplaysRelease /\ RecordFindsItsDelta /\ SubmittedIsStaged
-----------------------------------------------------------------------------
(***************************************************************************)
(* Type correctness.                                                       *)
(***************************************************************************)

\* The constants are usable: round 0 exists.
LEMMA RoundZero == 0 \in Rounds
BY AgentAssumption DEF AgentAssumption, Rounds

\* The initial state has its types.
LEMMA InitTypeOK == Init => TypeOK
BY RoundZero, AgentAssumption DEF Init, TypeOK, AgentAssumption

\* A process that has something to write or to submit has an update.
HasUpdate == pc \in {"persist_delta", "persist_record", "submit", "mark"} => update \in Release

\* Every step keeps the types and leaves a process that goes on with an update.
LEMMA NextTypeOK == TypeOK /\ HasUpdate /\ [Next]_vars => TypeOK' /\ HasUpdate'
<1> SUFFICES ASSUME TypeOK, HasUpdate, [Next]_vars PROVE TypeOK' /\ HasUpdate'
  OBVIOUS
<1> USE DEF TypeOK, HasUpdate, disk, process, sent
<1>1. CASE RoundAdvances
  BY <1>1 DEF RoundAdvances
<1>2. ASSUME NEW resume \in BOOLEAN, RunAssignedRound(resume) PROVE TypeOK' /\ HasUpdate'
  BY <1>2 DEF RunAssignedRound
<1>3. CASE Load
  <2>1. record[joined] \in RoundState \/ ~ Recorded(joined)
    BY DEF Recorded
  <2>2. record[joined] \in RoundState => record[joined].delta \in Release
    BY DEF RoundState
  <2>3. pc' \in {"submit", "idle"} /\ update' \in Release \cup {Nothing}
    BY <1>3, <2>1, <2>2 DEF Load, End
  <2>4. pc' = "submit" => update' \in Release
    BY <1>3, <2>1, <2>2 DEF Load, End
  <2> QED BY <1>3, <2>3, <2>4 DEF Load, End
<1>4. CASE Train
  BY <1>4 DEF Train
<1>5. CASE PersistDelta
  BY <1>5 DEF PersistDelta
<1>6. CASE PersistRecord
  <2>1. [delta |-> update, submitted |-> FALSE] \in RoundState
    BY <1>6 DEF PersistRecord, RoundState
  <2> QED BY <1>6, <2>1 DEF PersistRecord
<1>7. CASE SubmitUpdate
  BY <1>7 DEF SubmitUpdate
<1>8. CASE MarkSubmitted
  <2>1. [delta |-> update, submitted |-> TRUE] \in RoundState
    BY <1>8 DEF MarkSubmitted, RoundState
  <2> QED BY <1>8, <2>1 DEF MarkSubmitted, End
<1>9. CASE Crash
  <2>1. crashesLeft' \in Nat
    BY <1>9 DEF Crash
  <2>2. delta' \in [Rounds -> Release \cup {Nothing, Torn}]
    BY <1>9 DEF Crash
  <2>3. record' \in [Rounds -> RoundState \cup {Nothing, Torn}]
    BY <1>9 DEF Crash
  <2> QED BY <1>9, <2>1, <2>2, <2>3 DEF Crash, End
<1>10. CASE UNCHANGED vars
  BY <1>10 DEF vars
<1> QED
  BY <1>1, <1>2, <1>3, <1>4, <1>5, <1>6, <1>7, <1>8, <1>9, <1>10 DEF Next, AgentStep

\* TypeOK holds of run_assigned_round whatever crashes and is run again.
THEOREM TypeCorrect == Spec => []TypeOK
<1>1. Init => TypeOK /\ HasUpdate
  BY InitTypeOK DEF Init, HasUpdate
<1> QED BY <1>1, NextTypeOK, PTL DEF Spec
-----------------------------------------------------------------------------
(***************************************************************************)
(* The files and the transport.                                            *)
(***************************************************************************)

\* The initial state satisfies the inductive invariant.
LEMMA InitIInv == Init => IInv
<1> SUFFICES ASSUME Init PROVE IInv
  OBVIOUS
<1>1. TypeOK
  BY InitTypeOK
<1> QED
  BY <1>1 DEF Init, IInv, InFlight, ReleasedIsRecorded, ResumeReplaysRelease,
              RecordFindsItsDelta, SubmittedIsStaged, Recorded

\* Both records a process writes are records, hence neither missing nor torn.
LEMMA WholeRecord ==
  \A r \in Release, b \in BOOLEAN : /\ [delta |-> r, submitted |-> b] \in RoundState
                                   /\ [delta |-> r, submitted |-> b] # Nothing
BY AgentAssumption DEF AgentAssumption, RoundState

\* The files' part of the invariant.
Files ==
  /\ ReleasedIsRecorded /\ ResumeReplaysRelease
  /\ RecordFindsItsDelta /\ SubmittedIsStaged

LEMMA NextIInv == IInv /\ [Next]_vars => IInv'
<1> SUFFICES ASSUME IInv, [Next]_vars PROVE IInv'
  OBVIOUS
<1> USE DEF disk, process, sent
<1>1. TypeOK'
  BY NextTypeOK DEF IInv, InFlight, HasUpdate
<1>2. ASSUME InFlight', Files' PROVE IInv'
  BY <1>1, <1>2 DEF IInv, Files
<1>3. TypeOK /\ InFlight /\ Files
  BY DEF IInv, Files
<1>4. CASE RoundAdvances
  BY <1>1, <1>2, <1>3, <1>4
     DEF RoundAdvances, InFlight, Files, ReleasedIsRecorded, ResumeReplaysRelease,
         RecordFindsItsDelta, SubmittedIsStaged, Recorded
<1>5. ASSUME NEW resume \in BOOLEAN, RunAssignedRound(resume) PROVE IInv'
  <2>1. InFlight'
    <3>1. ASSUME pc' = "train", joined' \notin reran'
          PROVE record[round] = Nothing /\ round \notin reran
      BY <1>3, <1>5, <3>1 DEF RunAssignedRound, TypeOK
    <3>2. pc' = "train" /\ joined' \notin reran' => released[round] = {}
      BY <1>3, <3>1 DEF TypeOK, Files, ReleasedIsRecorded
    <3> QED BY <1>5, <3>1, <3>2 DEF RunAssignedRound, InFlight
  <2>2. Files'
    <3>1. reran \subseteq reran'
      BY <1>5 DEF RunAssignedRound
    <3> QED BY <1>3, <1>5, <3>1
               DEF RunAssignedRound, Files, ReleasedIsRecorded, ResumeReplaysRelease,
                   RecordFindsItsDelta, SubmittedIsStaged, Recorded
  <2> QED BY <1>2, <2>1, <2>2
<1>6. CASE Load
  <2>1. Files'
    BY <1>3, <1>6 DEF Load, Files, ReleasedIsRecorded, ResumeReplaysRelease,
                      RecordFindsItsDelta, SubmittedIsStaged, Recorded
  <2>2. InFlight'
    <3>1. Recorded(joined) => record[joined] \in RoundState
      BY <1>3 DEF TypeOK, Recorded
    <3>2. record[joined] \in RoundState => record[joined].delta \in Release
      BY DEF RoundState
    <3> QED BY <1>6, <3>1, <3>2 DEF Load, End, InFlight
  <2> QED BY <1>2, <2>1, <2>2
<1>7. CASE Train
  <2>1. Files'
    BY <1>3, <1>7 DEF Train, Files, ReleasedIsRecorded, ResumeReplaysRelease,
                      RecordFindsItsDelta, SubmittedIsStaged, Recorded
  <2>2. InFlight'
    BY <1>3, <1>7 DEF Train, InFlight
  <2> QED BY <1>2, <2>1, <2>2
<1>8. CASE PersistDelta
  <2>1. joined \in Rounds /\ delta'[joined] = update
    BY <1>3, <1>8 DEF PersistDelta, TypeOK
  <2>2. \A t \in Rounds : t # joined => delta'[t] = delta[t]
    BY <1>3, <1>8 DEF PersistDelta, TypeOK
  <2>3. joined \notin reran => ~ Recorded(joined)
    BY <1>3, <1>8 DEF PersistDelta, InFlight, Recorded
  <2>4. RecordFindsItsDelta'
    BY <1>3, <1>8, <2>2, <2>3 DEF PersistDelta, Files, RecordFindsItsDelta, Recorded
  <2>5. Files'
    BY <1>3, <1>8, <2>4 DEF PersistDelta, Files, ReleasedIsRecorded, ResumeReplaysRelease,
                            SubmittedIsStaged, Recorded
  <2>6. InFlight'
    BY <1>3, <1>8, <2>1 DEF PersistDelta, InFlight
  <2> QED BY <1>2, <2>5, <2>6
<1>9. CASE PersistRecord
  <2> DEFINE rec == [delta |-> update, submitted |-> FALSE]
  <2>1. rec \in RoundState /\ rec # Nothing /\ rec.delta = update /\ ~ rec.submitted
    BY <1>3, <1>9, WholeRecord DEF PersistRecord, InFlight
  <2>2. joined \in Rounds /\ record'[joined] = rec
    BY <1>3, <1>9 DEF PersistRecord, TypeOK
  <2>3. \A t \in Rounds : t # joined => record'[t] = record[t]
    BY <1>3, <1>9 DEF PersistRecord, TypeOK
  <2>4. joined \notin reran => released[joined] = {}
    BY <1>3, <1>9 DEF PersistRecord, InFlight
  <2>5. delta[joined] = update
    BY <1>3, <1>9 DEF PersistRecord, InFlight
  <2> HIDE DEF rec
  <2>6. ReleasedIsRecorded'
    BY <1>3, <1>9, <2>1, <2>2, <2>3, <2>4
       DEF PersistRecord, Files, ReleasedIsRecorded, Recorded
  <2>7. RecordFindsItsDelta'
    BY <1>3, <1>9, <2>1, <2>2, <2>3, <2>5
       DEF PersistRecord, Files, RecordFindsItsDelta, Recorded
  <2>8. SubmittedIsStaged'
    BY <1>3, <1>9, <2>1, <2>2, <2>3 DEF PersistRecord, Files, SubmittedIsStaged, Recorded
  <2>9. InFlight'
    BY <1>3, <1>9, <2>1, <2>2, <2>5 DEF PersistRecord, InFlight
  <2> QED BY <1>2, <1>3, <1>9, <2>6, <2>7, <2>8, <2>9
             DEF PersistRecord, Files, ResumeReplaysRelease
<1>10. CASE SubmitUpdate
  <2>1. joined \in Rounds /\ update \in Release
    BY <1>3, <1>10 DEF SubmitUpdate, TypeOK, InFlight
  <2>2. /\ record[joined] \in RoundState /\ record[joined].delta = update
        /\ delta[joined] = update
    BY <1>3, <1>10 DEF SubmitUpdate, InFlight
  <2>3. staged'[joined] = update /\ released'[joined] = released[joined] \cup {update}
    BY <1>3, <1>10, <2>1 DEF SubmitUpdate, TypeOK
  <2>4. \A t \in Rounds : t # joined => staged'[t] = staged[t] /\ released'[t] = released[t]
    BY <1>3, <1>10 DEF SubmitUpdate, TypeOK
  <2>5. record[joined] # Nothing
    BY <2>2, AgentAssumption DEF AgentAssumption, RoundState
  <2>6. ReleasedIsRecorded'
    BY <1>3, <1>10, <2>2, <2>3, <2>4, <2>5
       DEF SubmitUpdate, Files, ReleasedIsRecorded, Recorded
  <2>7. ResumeReplaysRelease'
    <3>1. joined \notin reran => released[joined] \subseteq {update} \/ ~ Recorded(joined)
      BY <1>3, <2>1, <2>2 DEF Files, ReleasedIsRecorded
    <3>2. Recorded(joined)
      BY <2>2, AgentAssumption DEF AgentAssumption, RoundState, Recorded
    <3> QED BY <1>3, <1>10, <2>3, <2>4, <3>1, <3>2
               DEF SubmitUpdate, Files, ResumeReplaysRelease
  <2>8. SubmittedIsStaged'
    BY <1>3, <1>10, <2>2, <2>3, <2>4 DEF SubmitUpdate, Files, SubmittedIsStaged, Recorded
  <2>9. RecordFindsItsDelta'
    BY <1>3, <1>10 DEF SubmitUpdate, Files, RecordFindsItsDelta, Recorded
  <2>10. InFlight'
    BY <1>3, <1>10, <2>1, <2>2, <2>3 DEF SubmitUpdate, InFlight
  <2> QED BY <1>2, <2>6, <2>7, <2>8, <2>9, <2>10 DEF Files
<1>11. CASE MarkSubmitted
  <2> DEFINE rec == [delta |-> update, submitted |-> TRUE]
  <2>1. rec \in RoundState /\ rec # Nothing /\ rec.delta = update
    BY <1>3, <1>11, WholeRecord DEF MarkSubmitted, InFlight
  <2>2. joined \in Rounds /\ record'[joined] = rec
    BY <1>3, <1>11 DEF MarkSubmitted, TypeOK
  <2>3. \A t \in Rounds : t # joined => record'[t] = record[t]
    BY <1>3, <1>11 DEF MarkSubmitted, TypeOK
  <2>4. /\ Recorded(joined) /\ record[joined].delta = update
        /\ delta[joined] = update /\ staged[joined] = update
    BY <1>3, <1>11, AgentAssumption
       DEF MarkSubmitted, InFlight, AgentAssumption, RoundState, Recorded
  <2> HIDE DEF rec
  <2>5. ReleasedIsRecorded'
    BY <1>3, <1>11, <2>1, <2>2, <2>3, <2>4
       DEF MarkSubmitted, Files, ReleasedIsRecorded, Recorded
  <2>6. RecordFindsItsDelta'
    BY <1>3, <1>11, <2>1, <2>2, <2>3, <2>4
       DEF MarkSubmitted, Files, RecordFindsItsDelta, Recorded
  <2>7. SubmittedIsStaged'
    BY <1>3, <1>11, <2>1, <2>2, <2>3, <2>4
       DEF MarkSubmitted, Files, SubmittedIsStaged, Recorded
  <2>8. InFlight'
    BY <1>11 DEF MarkSubmitted, End, InFlight
  <2> QED BY <1>2, <1>3, <1>11, <2>5, <2>6, <2>7, <2>8
             DEF MarkSubmitted, Files, ResumeReplaysRelease
<1>12. CASE Crash
  <2>1. \A t \in Rounds :
          \/ record'[t] = record[t]
          \/ record'[t] = Torn
    BY <1>3, <1>12 DEF Crash, TypeOK
  <2>2. \A t \in Rounds :
          \/ delta'[t] = delta[t]
          \/ t \notin reran => record[t] = Nothing
    BY <1>3, <1>12 DEF Crash, TypeOK, InFlight
  <2>3. \A t \in Rounds : delta'[t] # delta[t] => record'[t] = record[t]
    BY <1>3, <1>12 DEF Crash, TypeOK
  <2>4. ReleasedIsRecorded'
    BY <1>3, <1>12, <2>1, AgentAssumption
       DEF Crash, Files, ReleasedIsRecorded, Recorded, AgentAssumption
  <2>5. RecordFindsItsDelta'
    BY <1>3, <1>12, <2>1, <2>2, <2>3 DEF Crash, Files, RecordFindsItsDelta, Recorded
  <2>6. SubmittedIsStaged'
    BY <1>3, <1>12, <2>1 DEF Crash, Files, SubmittedIsStaged, Recorded
  <2>7. InFlight'
    BY <1>12 DEF Crash, End, InFlight
  <2> QED BY <1>2, <1>3, <1>12, <2>4, <2>5, <2>6, <2>7
             DEF Crash, Files, ResumeReplaysRelease
<1>13. CASE UNCHANGED vars
  BY <1>1, <1>2, <1>3, <1>13
     DEF vars, InFlight, Files, ReleasedIsRecorded, ResumeReplaysRelease,
         RecordFindsItsDelta, SubmittedIsStaged, Recorded
<1> QED
  BY <1>4, <1>5, <1>6, <1>7, <1>8, <1>9, <1>10, <1>11, <1>12, <1>13 DEF Next, AgentStep

\* IInv is an invariant.
LEMMA Inductive == Spec => []IInv
BY InitIInv, NextIInv, PTL DEF Spec

\* An agent only ever restarted with resume releases one update of a round, for
\* any number of crashes inside and between the writes of its files.
THEOREM ReplaysRelease == Spec => []ResumeReplaysRelease
<1>1. IInv => ResumeReplaysRelease
  BY DEF IInv
<1> QED BY <1>1, Inductive, PTL

\* A whole record of a round that was not run anew finds the delta it describes.
THEOREM FindsDelta == Spec => []RecordFindsItsDelta
<1>1. IInv => RecordFindsItsDelta
  BY DEF IInv
<1> QED BY <1>1, Inductive, PTL

\* A record never says more was submitted than the coordinator holds.
THEOREM SubmittedStaged == Spec => []SubmittedIsStaged
<1>1. IInv => SubmittedIsStaged
  BY DEF IInv
<1> QED BY <1>1, Inductive, PTL
-----------------------------------------------------------------------------
(***************************************************************************)
(* Facts about numbers and sequences.                                      *)
(***************************************************************************)

\* Induction on the numbers: a set of them that is not empty has a least one.
LEMMA LeastNumber ==
  ASSUME NEW N \in SUBSET Nat, N # {}
  PROVE  \E n \in N : \A m \in N : n <= m
<1>1. PICK n \in N : \A m \in N : ~ (<<m, n>> \in OpToRel(<, Nat))
  BY NatLessThanWellFounded, WFMin
<1>2. \A m \in N : ~ (m < n)
  BY <1>1 DEF OpToRel
<1> QED
  BY <1>2

\* Prefixes, element by element.
LEMMA PrefixElements ==
  ASSUME NEW S, NEW s \in Seq(S), NEW t \in Seq(S)
  PROVE  IsPrefix(s, t) <=> Len(s) <= Len(t) /\ \A i \in 1..Len(s) : s[i] = t[i]
<1>1. ASSUME Len(s) <= Len(t)
      PROVE  /\ SubSeq(s, 1, Len(s)) = [i \in 1..Len(s) |-> s[i]]
             /\ SubSeq(t, 1, Len(s)) = [i \in 1..Len(s) |-> t[i]]
  BY <1>1
<1> QED
  BY <1>1 DEF IsPrefix

\* A sequence begins with nothing, and with itself.
LEMMA PrefixReflexive ==
  ASSUME NEW S, NEW t \in Seq(S)
  PROVE  IsPrefix(<<>>, t) /\ IsPrefix(t, t)
<1>1. <<>> \in Seq(S) /\ Len(<<>>) = 0 /\ Len(t) \in Nat
  BY EmptySeq, LenProperties
<1>3. IsPrefix(<<>>, t)
  <2>1. PICK e \in Seq(S) : e = <<>>
    BY <1>1
  <2>2. Len(e) <= Len(t) /\ \A i \in 1..Len(e) : e[i] = t[i]
    BY <1>1, <2>1
  <2> QED
    BY <2>1, <2>2, PrefixElements
<1>4. IsPrefix(t, t)
  BY <1>1, PrefixElements
<1> QED
  BY <1>3, <1>4

\* What a sequence begins with stays its beginning when an element is appended.
LEMMA PrefixGrows ==
  ASSUME NEW S, NEW s \in Seq(S), NEW t \in Seq(S), NEW x \in S, IsPrefix(s, t)
  PROVE  IsPrefix(s, Append(t, x))
<1>1. Len(s) <= Len(t) /\ \A i \in 1..Len(s) : s[i] = t[i]
  BY PrefixElements
<1>2. PICK u \in Seq(S) : u = Append(t, x)
  BY AppendProperties
<1>3. Len(s) <= Len(u) /\ \A i \in 1..Len(s) : s[i] = u[i]
  BY <1>1, <1>2, AppendProperties, LenProperties
<1> QED
  BY <1>2, <1>3, PrefixElements

-----------------------------------------------------------------------------
(***************************************************************************)
(* The commitment to a data set.  Proofs climb to the root, and the leaves *)
(* of the tree can be read off it.                                         *)
(***************************************************************************)

\* The sort puts every episode somewhere, and nothing else anywhere.
LEMMA SortedPermutes ==
  ASSUME NEW s \in Seq(Episode)
  PROVE  /\ Sorted(s) \in Seq(Episode) /\ Len(Sorted(s)) = Len(s)
         /\ \A k \in 1 .. Len(s) : /\ SortedIndex(s, k) \in 1 .. Len(s)
                                   /\ Sorted(s)[SortedIndex(s, k)] = s[k]
         /\ \A n \in 1 .. Len(s) : \E k \in 1 .. Len(s) : Sorted(s)[n] = s[k]
<1> DEFINE D == 1 .. Len(s)
           Before(k) == {i \in D : s[i] < s[k] \/ (s[i] = s[k] /\ i <= k)}
           rank == [k \in D |-> Cardinality(Before(k))]
<1>1. DOMAIN s = D /\ Len(s) \in Nat /\ \A k \in D : s[k] \in Nat
  BY MerkleAssumption, LenProperties, ElementOfSeq
<1>2. IsFiniteSet(D) /\ Cardinality(D) = Len(s)
  BY <1>1, FS_Interval
<1>3. \A k \in D : SortedIndex(s, k) = Cardinality(Before(k))
  <2> SUFFICES ASSUME NEW k \in D PROVE SortedIndex(s, k) = Cardinality(Before(k))
    OBVIOUS
  <2>1. DOMAIN s = D
    BY <1>1
  <2>2. {i \in DOMAIN s : s[i] < s[k] \/ (s[i] = s[k] /\ i <= k)} = Before(k)
    BY <2>1
  <2>3. SortedIndex(s, k) =
          Cardinality({i \in DOMAIN s : s[i] < s[k] \/ (s[i] = s[k] /\ i <= k)})
    BY Zenon DEF SortedIndex
  <2> HIDE DEF Before
  <2> QED
    BY <2>2, <2>3, Zenon
<1>4. \A k \in D : k \in Before(k) /\ Before(k) \in SUBSET D
  BY <1>1
<1>5. \A k \in D : IsFiniteSet(Before(k)) /\ Cardinality(Before(k)) \in D
  <2> SUFFICES ASSUME NEW k \in D PROVE IsFiniteSet(Before(k)) /\ Cardinality(Before(k)) \in D
    OBVIOUS
  <2>1. PICK B : B = Before(k)
    OBVIOUS
  <2>2. k \in B /\ B \in SUBSET D
    BY <1>4, <2>1
  <2> HIDE DEF Before, D
  <2>3. IsFiniteSet(B) /\ Cardinality(B) <= Len(s)
    BY <1>2, <2>2, FS_Subset
  <2>4. Cardinality(B) \in Nat /\ Cardinality(B) # 0
    BY <2>2, <2>3, FS_CardinalityType, FS_EmptySet
  <2>5. Cardinality(B) \in D
    BY <1>1, <2>3, <2>4 DEF D
  <2> QED
    BY <2>1, <2>3, <2>5
<1>6. \A j, k \in D : j # k => rank[j] # rank[k]
  <2>1. \A j, k \in D : j # k /\ (s[j] < s[k] \/ (s[j] = s[k] /\ j < k)) =>
          Before(j) \subseteq Before(k) /\ k \notin Before(j)
    BY <1>1
  <2>2. \A j, k \in D : j # k /\ (s[j] < s[k] \/ (s[j] = s[k] /\ j < k)) => rank[j] # rank[k]
    <3> SUFFICES ASSUME NEW j \in D, NEW k \in D, j # k,
                        s[j] < s[k] \/ (s[j] = s[k] /\ j < k)
                 PROVE  rank[j] # rank[k]
      OBVIOUS
    <3>1. Before(j) \in SUBSET Before(k) /\ Before(j) # Before(k)
      BY <1>4, <2>1
    <3> HIDE DEF Before, D
    <3>2. PICK B, C : B = Before(j) /\ C = Before(k)
      OBVIOUS
    <3>3. IsFiniteSet(C) /\ B \in SUBSET C /\ B # C
      BY <1>5, <3>1, <3>2
    <3>4. Cardinality(C) # Cardinality(B)
      BY <3>3, FS_Subset
    <3>5. rank[j] = Cardinality(B) /\ rank[k] = Cardinality(C)
      BY <3>2
    <3> QED
      BY <3>4, <3>5
  <2>3. \A j, k \in D : j # k => (s[j] < s[k] \/ (s[j] = s[k] /\ j < k))
                                 \/ (s[k] < s[j] \/ (s[k] = s[j] /\ k < j))
    <3> SUFFICES ASSUME NEW j \in D, NEW k \in D, j # k
                 PROVE  (s[j] < s[k] \/ (s[j] = s[k] /\ j < k))
                        \/ (s[k] < s[j] \/ (s[k] = s[j] /\ k < j))
      OBVIOUS
    <3>1. PICK a \in Nat, b \in Nat : a = s[j] /\ b = s[k]
      BY <1>1
    <3>2. j \in Nat /\ k \in Nat
      BY <1>1
    <3> HIDE DEF D
    <3>3. (a < b \/ (a = b /\ j < k)) \/ (b < a \/ (b = a /\ k < j))
      BY <3>2
    <3> QED
      BY <3>1, <3>3
  <2> HIDE DEF D, rank
  <2> QED
    BY <2>2, <2>3
<1>7. rank \in Injection(D, D)
  BY <1>5, <1>6 DEF Injection, IsInjective
<1>8. rank \in Surjection(D, D)
  <2> HIDE DEF D, rank
  <2> QED
    BY <1>2, <1>7, FS_Injection
<1>9. \A n \in D : \E k \in D : rank[k] = n
  BY <1>8 DEF Surjection
<1>10. \A k \in D : rank[k] = SortedIndex(s, k)
  BY <1>3
<1> HIDE DEF rank, Before
<1> DEFINE at(n) == CHOOSE i \in D : SortedIndex(s, i) = n
<1>11. \A n \in D : at(n) \in D /\ SortedIndex(s, at(n)) = n
  <2> SUFFICES ASSUME NEW n \in D PROVE at(n) \in D /\ SortedIndex(s, at(n)) = n
    OBVIOUS
  <2>1. \E i \in D : SortedIndex(s, i) = n
    BY <1>9, <1>10
  <2> HIDE DEF D
  <2> QED
    BY <2>1, Zenon
<1>12. Sorted(s) = [n \in D |-> s[at(n)]]
  BY <1>1 DEF Sorted
<1>13. \A k \in D : SortedIndex(s, k) \in D
  BY <1>3, <1>5
<1>14. \A k \in D : at(SortedIndex(s, k)) = k
  BY <1>6, <1>10, <1>11, <1>13
<1> HIDE DEF at
<1>15. \A n \in D : Sorted(s)[n] \in Episode
  BY <1>1, <1>11, <1>12, ElementOfSeq
<1>16. Sorted(s) \in Seq(Episode) /\ Len(Sorted(s)) = Len(s)
  BY <1>1, <1>12, <1>15
<1> QED
  BY <1>11, <1>12, <1>13, <1>14, <1>16

-----------------------------------------------------------------------------
\* What is on the next level: the pairs, and the odd node at the end.
LEMMA NextLevelTells ==
  ASSUME NEW T, NEW level \in Seq(T), level # <<>>
  PROVE  /\ \E U : NextLevel(level) \in Seq(U)
         /\ Len(NextLevel(level)) = (Len(level) + 1) \div 2
         /\ \A i \in 1 .. Len(level) \div 2 :
              NextLevel(level)[i] = Node(level[2 * i - 1], level[2 * i])
         /\ Len(level) % 2 = 1 =>
              NextLevel(level)[(Len(level) + 1) \div 2] = level[Len(level)]
<1> DEFINE half == Len(level) \div 2
           U == {Node(x, y) : x \in T, y \in T} \cup T
<1>1. Len(level) \in Nat /\ Len(level) # 0 /\ half \in Nat
  BY EmptySeq, LenProperties
<1>2. \A i \in 1 .. half : 2 * i - 1 \in 1 .. Len(level) /\ 2 * i \in 1 .. Len(level)
  BY <1>1
<1>3. \A i \in 1 .. Len(level) : level[i] \in T
  BY ElementOfSeq
<1>4. \A i \in 1 .. half : Node(level[2 * i - 1], level[2 * i]) \in U
  BY <1>2, <1>3
<1>5. Pairs(level) = [i \in 1 .. half |-> Node(level[2 * i - 1], level[2 * i])]
  BY DEF Pairs
<1>6. PICK p : p = Pairs(level)
  OBVIOUS
<1>7. /\ p \in Seq(U) /\ Len(p) = half
      /\ \A i \in 1 .. half : p[i] = Node(level[2 * i - 1], level[2 * i])
  <2> HIDE DEF U, half
  <2> QED
    BY <1>1, <1>4, <1>5, <1>6
<1> HIDE DEF U
<1>8. CASE Len(level) % 2 = 1
  <2>1. level[Len(level)] \in U
    BY <1>1, <1>3 DEF U
  <2>2. PICK next : next = Append(p, level[Len(level)])
    OBVIOUS
  <2>3. /\ next \in Seq(U) /\ Len(next) = half + 1
        /\ \A i \in 1 .. half : next[i] = p[i]
        /\ next[half + 1] = level[Len(level)]
    BY <1>1, <1>7, <2>1, <2>2, AppendProperties
  <2>4. NextLevel(level) = next
    BY <1>6, <1>8, <2>2 DEF NextLevel
  <2>5. half + 1 = (Len(level) + 1) \div 2
    BY <1>1, <1>8
  <2> QED
    BY <1>7, <2>3, <2>4, <2>5
<1>9. CASE Len(level) % 2 # 1
  <2>1. NextLevel(level) = p
    BY <1>6, <1>9 DEF NextLevel
  <2>2. half = (Len(level) + 1) \div 2
    BY <1>1, <1>9
  <2> QED
    BY <1>7, <1>9, <2>1, <2>2
<1> QED
  BY <1>8, <1>9

\* The levels of the tree, as they are computed one from the other.
LEMMA LevelsTell ==
  ASSUME NEW leaves, Len(leaves) \in Nat
  PROVE  /\ Levels(leaves)[0] = leaves
         /\ \A k \in 1 .. Len(leaves) : Levels(leaves)[k] = NextLevel(Levels(leaves)[k - 1])
<1> DEFINE Body(f, n) == [k \in 0 .. n |-> IF k = 0 THEN leaves ELSE NextLevel(f[k - 1])]
           Bad == {n \in Nat : ~ \E f : f = Body(f, n)}
<1>1. Bad = {}
  <2> SUFFICES ASSUME Bad # {} PROVE FALSE
    OBVIOUS
  <2>1. PICK n \in Bad : \A m \in Bad : n <= m
    BY LeastNumber
  <2>2. n \in Nat /\ ~ \E f : f = Body(f, n)
    OBVIOUS
  <2>3. CASE n = 0
    <3> DEFINE g == [k \in 0 .. 0 |-> leaves]
    <3>1. g = Body(g, 0)
      OBVIOUS
    <3> QED
      BY <2>2, <2>3, <3>1
  <2>4. CASE n # 0
    <3>1. n - 1 \in Nat /\ ~ (n <= n - 1)
      BY <2>2, <2>4
    <3>2. PICK f : f = Body(f, n - 1)
      BY <2>1, <3>1
    <3> DEFINE g == [k \in 0 .. n |-> IF k = 0 THEN leaves ELSE NextLevel(f[k - 1])]
    <3>3. \A k \in 0 .. n : k # 0 => k - 1 \in 0 .. n - 1 /\ g[k - 1] = f[k - 1]
      BY <2>2, <3>2
    <3>4. g = Body(g, n)
      <4>1. \A k \in 0 .. n : (IF k = 0 THEN leaves ELSE NextLevel(f[k - 1]))
                            = IF k = 0 THEN leaves ELSE NextLevel(g[k - 1])
        BY <3>3
      <4> QED
        BY <4>1
    <3> QED
      BY <2>2, <3>4
  <2> QED
    BY <2>3, <2>4
<1>2. \E f : f = Body(f, Len(leaves))
  BY <1>1
<1>3. Levels(leaves) = CHOOSE f : f = Body(f, Len(leaves))
  BY DEF Levels
<1> DEFINE it == CHOOSE f : f = Body(f, Len(leaves))
<1>4. it = Body(it, Len(leaves))
  BY <1>2
<1> HIDE DEF it
<1>5. /\ it[0] = leaves
      /\ \A k \in 1 .. Len(leaves) : it[k] = NextLevel(it[k - 1])
  BY <1>4
<1> QED
  BY <1>3, <1>5 DEF it

-----------------------------------------------------------------------------
(***************************************************************************)
(* A node stands for a stretch of the sorted episodes.  R relates nodes to *)
(* stretches, lo excluded and hi included, each of a leaf or put together  *)
(* of the stretches of the node's two children.                            *)
(***************************************************************************)
\* What stands for a stretch is its one leaf, or has two children that share it.
Stretch(t, lo, hi, R, s) ==
  \/ hi = lo + 1 /\ t = Leaf(s[hi])
  \/ \E a, b, mid : /\ t = Node(a, b)
                    /\ <<a, lo, mid>> \in R /\ <<b, mid, hi>> \in R

\* All that R relates is right.
Spells(R, s) ==
  \A t, lo, hi : <<t, lo, hi>> \in R =>
    /\ lo \in Nat /\ hi \in Nat /\ lo < hi /\ hi <= Len(s)
    /\ Stretch(t, lo, hi, R, s)

\* A level whose nodes stand for all of the episodes, from left to right.
Spelled(level, s) ==
  \E R, b : /\ Spells(R, s)
            /\ b \in [0 .. Len(level) -> Nat] /\ b[0] = 0 /\ b[Len(level)] = Len(s)
            /\ \A i \in 1 .. Len(level) : <<level[i], b[i - 1], b[i]>> \in R

\* A node has one spelling: what stands for a stretch of two sequences finds the
\* same there.
LEMMA OneSpelling ==
  ASSUME NEW s, NEW u, NEW R, NEW Q, Spells(R, s), Spells(Q, u)
  PROVE  \A t, lo, hi, from, to : <<t, lo, hi>> \in R /\ <<t, from, to>> \in Q =>
           /\ hi - lo = to - from
           /\ \A i \in 1 .. hi - lo : s[lo + i] = u[from + i]
<1> DEFINE Same(lo, hi, from, to) ==
             /\ hi - lo = to - from
             /\ \A i \in 1 .. hi - lo : s[lo + i] = u[from + i]
           Bad == {n \in Nat : \E t, lo, hi, from, to :
                     /\ <<t, lo, hi>> \in R /\ <<t, from, to>> \in Q
                     /\ n = hi - lo /\ ~ Same(lo, hi, from, to)}
<1> HIDE DEF Same
<1>1. Bad = {}
  <2> SUFFICES ASSUME Bad # {} PROVE FALSE
    OBVIOUS
  <2>1. PICK n \in Bad : \A m \in Bad : n <= m
    BY LeastNumber
  <2>2. PICK t, lo, hi, from, to :
          /\ <<t, lo, hi>> \in R /\ <<t, from, to>> \in Q
          /\ n = hi - lo /\ ~ Same(lo, hi, from, to)
    OBVIOUS
  <2>3. \A t1, lo1, hi1, from1, to1 :
          /\ <<t1, lo1, hi1>> \in R /\ <<t1, from1, to1>> \in Q
          /\ hi1 - lo1 \in Nat /\ hi1 - lo1 < n
          => Same(lo1, hi1, from1, to1)
    <3> SUFFICES ASSUME NEW t1, NEW lo1, NEW hi1, NEW from1, NEW to1,
                        <<t1, lo1, hi1>> \in R /\ <<t1, from1, to1>> \in Q,
                        hi1 - lo1 \in Nat /\ hi1 - lo1 < n,
                        ~ Same(lo1, hi1, from1, to1)
                 PROVE  FALSE
      BY Zenon
    <3>1. hi1 - lo1 \in Bad
      BY Zenon
    <3>2. n \in Nat /\ n <= hi1 - lo1
      BY <2>1, <3>1
    <3> HIDE DEF Bad, Same
    <3> QED
      BY <3>2
  <2> HIDE DEF Bad, Same
  <2>4. /\ lo \in Nat /\ hi \in Nat /\ lo < hi /\ hi <= Len(s)
        /\ Stretch(t, lo, hi, R, s)
    BY <2>2, Zenon DEF Spells
  <2>5. /\ from \in Nat /\ to \in Nat /\ from < to /\ to <= Len(u)
        /\ Stretch(t, from, to, Q, u)
    BY <2>2, Zenon DEF Spells
  <2>6. CASE (hi = lo + 1 /\ t = Leaf(s[hi])) /\ (to = from + 1 /\ t = Leaf(u[to]))
    <3>1. s[hi] = u[to]
      BY <2>6 DEF Leaf
    <3>2. Same(lo, hi, from, to)
      BY <2>4, <2>5, <2>6, <3>1 DEF Same
    <3> QED
      BY <2>2, <3>2
  <2>7. CASE /\ \E a, b, mid : /\ t = Node(a, b)
                               /\ <<a, lo, mid>> \in R /\ <<b, mid, hi>> \in R
             /\ \E a, b, mid : /\ t = Node(a, b)
                               /\ <<a, from, mid>> \in Q /\ <<b, mid, to>> \in Q
    <3>1. PICK a, b, mid : t = Node(a, b) /\ <<a, lo, mid>> \in R /\ <<b, mid, hi>> \in R
      BY <2>7
    <3>2. PICK c, d, cut : t = Node(c, d) /\ <<c, from, cut>> \in Q /\ <<d, cut, to>> \in Q
      BY <2>7
    <3>3. a = c /\ b = d
      BY <3>1, <3>2 DEF Node
    <3>4. mid \in Nat /\ lo < mid /\ mid < hi
      BY <3>1, Zenon DEF Spells
    <3>5. cut \in Nat /\ from < cut /\ cut < to
      BY <3>2, Zenon DEF Spells
    <3>6. /\ mid - lo \in Nat /\ mid - lo < n
          /\ hi - mid \in Nat /\ hi - mid < n
      BY <2>2, <2>4, <3>4
    <3>7. Same(lo, mid, from, cut) /\ Same(mid, hi, cut, to)
      BY <2>3, <3>1, <3>2, <3>3, <3>6, Zenon
    <3>8. mid - lo = cut - from /\ hi - mid = to - cut
      BY <3>7 DEF Same
    <3>9. hi - lo = to - from
      BY <2>4, <2>5, <3>4, <3>5, <3>8
    <3>10. \A i \in 1 .. hi - lo : s[lo + i] = u[from + i]
      <4> SUFFICES ASSUME NEW i \in 1 .. hi - lo PROVE s[lo + i] = u[from + i]
        OBVIOUS
      <4>1. CASE i <= mid - lo
        <5>1. i \in 1 .. mid - lo
          BY <2>4, <3>4, <4>1
        <5> QED
          BY <3>7, <5>1 DEF Same
      <4>2. CASE ~ (i <= mid - lo)
        <5>1. i - (mid - lo) \in 1 .. hi - mid
          BY <2>4, <3>4, <4>2
        <5>2. s[mid + (i - (mid - lo))] = u[cut + (i - (mid - lo))]
          BY <3>7, <5>1 DEF Same
        <5>3. mid + (i - (mid - lo)) = lo + i /\ cut + (i - (mid - lo)) = from + i
          BY <2>4, <2>5, <3>4, <3>5, <3>8
        <5> QED
          BY <5>2, <5>3
      <4> QED
        BY <4>1, <4>2
    <3> QED
      BY <2>2, <3>9, <3>10 DEF Same
  <2>8. \A e, a, b : Leaf(e) # Node(a, b)
    BY DEF Leaf, Node
  <2>9. \/ hi = lo + 1 /\ t = Leaf(s[hi])
        \/ \E a, b, mid : /\ t = Node(a, b)
                          /\ <<a, lo, mid>> \in R /\ <<b, mid, hi>> \in R
    BY <2>4, Zenon DEF Stretch
  <2>10. \/ to = from + 1 /\ t = Leaf(u[to])
         \/ \E a, b, mid : /\ t = Node(a, b)
                           /\ <<a, from, mid>> \in Q /\ <<b, mid, to>> \in Q
    BY <2>5, Zenon DEF Stretch
  <2>11. \A e : t = Leaf(e) => ~ \E a, b : t = Node(a, b)
    BY <2>8
  <2> QED
    BY <2>6, <2>7, <2>9, <2>10, <2>11, Zenon
<1>2. ASSUME NEW t, NEW lo, NEW hi, NEW from, NEW to, <<t, lo, hi>> \in R, <<t, from, to>> \in Q
      PROVE  Same(lo, hi, from, to)
  <2>1. lo \in Nat /\ hi \in Nat /\ lo < hi
    BY <1>2, Zenon DEF Spells
  <2>2. hi - lo \in Nat
    BY <2>1
  <2> QED
    BY <1>1, <1>2, <2>2, Zenon
<1>3. \A t, lo, hi, from, to :
        <<t, lo, hi>> \in R /\ <<t, from, to>> \in Q => Same(lo, hi, from, to)
  BY <1>2, Zenon
<1> QED
  BY <1>3 DEF Same

\* A level that stands for the episodes has a next one that does.
LEMMA SpelledOn ==
  ASSUME NEW T, NEW level \in Seq(T), level # <<>>, NEW s, Spelled(level, s)
  PROVE  Spelled(NextLevel(level), s)
<1> DEFINE L == Len(level)
           H == (L + 1) \div 2
           next == NextLevel(level)
<1>1. PICK R, b : /\ Spells(R, s)
                  /\ b \in [0 .. L -> Nat] /\ b[0] = 0 /\ b[L] = Len(s)
                  /\ \A i \in 1 .. L : <<level[i], b[i - 1], b[i]>> \in R
  BY DEF Spelled
<1>2. L \in Nat /\ L # 0 /\ H \in Nat
  BY EmptySeq, LenProperties
<1>3. /\ Len(next) = H
      /\ \A i \in 1 .. L \div 2 : next[i] = Node(level[2 * i - 1], level[2 * i])
      /\ L % 2 = 1 => next[H] = level[L]
  BY NextLevelTells
<1> DEFINE c == [j \in 0 .. H |-> IF 2 * j <= L THEN b[2 * j] ELSE b[L]]
           Q == R \cup {<<next[i], c[i - 1], c[i]>> : i \in 1 .. H}
<1> HIDE DEF L, next
<1>4. c \in [0 .. H -> Nat] /\ c[0] = 0 /\ c[H] = Len(s)
  <2>1. \A j \in 0 .. H : 2 * j <= L => 2 * j \in 0 .. L
    BY <1>2
  <2>2. L \in 0 .. L
    BY <1>2
  <2>3. c \in [0 .. H -> Nat]
    BY <1>1, <2>1, <2>2
  <2>4. 0 \in 0 .. H /\ H \in 0 .. H /\ 2 * 0 <= L /\ 2 * 0 = 0
    BY <1>2
  <2>5. 2 * H <= L => 2 * H = L
    BY <1>2
  <2> QED
    BY <1>1, <2>3, <2>4, <2>5
<1>5. \A i \in 1 .. H :
        \/ /\ i \in 1 .. L \div 2
           /\ c[i - 1] = b[2 * i - 2] /\ c[i] = b[2 * i]
        \/ L % 2 = 1 /\ i = H /\ c[i - 1] = b[L - 1] /\ c[i] = b[L]
  <2> SUFFICES ASSUME NEW i \in 1 .. H
               PROVE  \/ /\ i \in 1 .. L \div 2
                         /\ c[i - 1] = b[2 * i - 2] /\ c[i] = b[2 * i]
                      \/ L % 2 = 1 /\ i = H /\ c[i - 1] = b[L - 1] /\ c[i] = b[L]
    OBVIOUS
  <2>1. i \in 0 .. H /\ i - 1 \in 0 .. H /\ 2 * (i - 1) <= L /\ 2 * (i - 1) = 2 * i - 2
    BY <1>2
  <2>2. c[i - 1] = b[2 * i - 2] /\ c[i] = IF 2 * i <= L THEN b[2 * i] ELSE b[L]
    BY <2>1
  <2>3. 2 * i <= L => i \in 1 .. L \div 2
    BY <1>2
  <2>4. ~ (2 * i <= L) => L % 2 = 1 /\ i = H /\ 2 * i - 2 = L - 1
    BY <1>2
  <2> QED
    BY <2>2, <2>3, <2>4
<1>6. \A i \in 1 .. H : \/ <<next[i], c[i - 1], c[i]>> \in R
                        \/ \E x, y, mid : /\ next[i] = Node(x, y)
                                          /\ <<x, c[i - 1], mid>> \in R
                                          /\ <<y, mid, c[i]>> \in R
  <2> SUFFICES ASSUME NEW i \in 1 .. H
               PROVE  \/ <<next[i], c[i - 1], c[i]>> \in R
                      \/ \E x, y, mid : /\ next[i] = Node(x, y)
                                        /\ <<x, c[i - 1], mid>> \in R
                                        /\ <<y, mid, c[i]>> \in R
    OBVIOUS
  <2>1. CASE /\ i \in 1 .. L \div 2
             /\ c[i - 1] = b[2 * i - 2] /\ c[i] = b[2 * i]
    <3>1. /\ 2 * i - 1 \in 1 .. L /\ 2 * i \in 1 .. L
          /\ (2 * i - 1) - 1 = 2 * i - 2
      BY <1>2, <2>1
    <3>2. /\ <<level[2 * i - 1], b[2 * i - 2], b[2 * i - 1]>> \in R
          /\ <<level[2 * i], b[2 * i - 1], b[2 * i]>> \in R
      BY <1>1, <3>1
    <3>3. next[i] = Node(level[2 * i - 1], level[2 * i])
      BY <1>3, <2>1
    <3> HIDE DEF c, H
    <3> QED
      BY <2>1, <3>2, <3>3
  <2>2. CASE L % 2 = 1 /\ i = H /\ c[i - 1] = b[L - 1] /\ c[i] = b[L]
    <3>1. <<level[L], b[L - 1], b[L]>> \in R
      BY <1>1, <1>2
    <3>2. next[i] = level[L]
      BY <1>3, <2>2
    <3> HIDE DEF c, H
    <3> QED
      BY <2>2, <3>1, <3>2
  <2> HIDE DEF c, H
  <2> QED
    BY <1>5, <2>1, <2>2
<1> HIDE DEF c, H
<1>7. Spells(Q, s)
  <2> SUFFICES ASSUME NEW t, NEW lo, NEW hi, <<t, lo, hi>> \in Q
               PROVE  /\ lo \in Nat /\ hi \in Nat /\ lo < hi /\ hi <= Len(s)
                      /\ Stretch(t, lo, hi, Q, s)
    BY Zenon DEF Spells
  <2>1. CASE <<t, lo, hi>> \in R
    <3>1. /\ lo \in Nat /\ hi \in Nat /\ lo < hi /\ hi <= Len(s)
          /\ Stretch(t, lo, hi, R, s)
      BY <1>1, <2>1, Zenon DEF Spells
    <3>2. R \subseteq Q
      OBVIOUS
    <3> HIDE DEF Q
    <3> QED
      BY <3>1, <3>2 DEF Stretch
  <2>2. CASE \E x, y, mid : /\ t = Node(x, y)
                            /\ <<x, lo, mid>> \in R /\ <<y, mid, hi>> \in R
    <3>1. PICK x, y, mid : t = Node(x, y) /\ <<x, lo, mid>> \in R /\ <<y, mid, hi>> \in R
      BY <2>2
    <3>2. /\ lo \in Nat /\ mid \in Nat /\ hi \in Nat
          /\ lo < mid /\ mid < hi /\ hi <= Len(s)
      BY <1>1, <3>1, Zenon DEF Spells
    <3>3. lo < hi
      BY <3>2
    <3>4. R \subseteq Q
      OBVIOUS
    <3> HIDE DEF Q
    <3>5. Stretch(t, lo, hi, Q, s)
      BY <3>1, <3>4 DEF Stretch
    <3> QED
      BY <3>2, <3>3, <3>5
  <2> QED
    BY <1>6, <2>1, <2>2
<1>8. \A i \in 1 .. H : <<next[i], c[i - 1], c[i]>> \in Q
  OBVIOUS
<1> HIDE DEF Q
<1> QED
  BY <1>3, <1>4, <1>7, <1>8 DEF Spelled, next

\* What holds of every level of a tree over these episodes.
LEMMA EveryLevel ==
  ASSUME NEW s \in Seq(Episode), s # <<>>,
         NEW leaves, leaves = [n \in DOMAIN s |-> Leaf(s[n])]
  PROVE  /\ Len(leaves) = Len(s)
         /\ \A k \in 0 .. Len(s) : /\ \E T : Levels(leaves)[k] \in Seq(T)
                                   /\ Levels(leaves)[k] # <<>>
                                   /\ Spelled(Levels(leaves)[k], s)
         /\ Len(Levels(leaves)[Len(s)]) = 1
<1> DEFINE n == Len(s)
           Fine(level, k) == /\ \E T : level \in Seq(T)
                             /\ level # <<>>
                             /\ Spelled(level, s)
                             /\ Len(level) = 1 \/ Len(level) <= n - k
           Bad == {k \in Nat : k <= n /\ ~ Fine(Levels(leaves)[k], k)}
<1>1. n \in Nat /\ n # 0 /\ DOMAIN s = 1 .. n
  BY EmptySeq, LenProperties
<1> HIDE DEF n
<1>2. /\ leaves \in Seq({Leaf(s[i]) : i \in 1 .. n}) /\ Len(leaves) = n
      /\ \A i \in 1 .. n : leaves[i] = Leaf(s[i])
  BY <1>1
<1>3. Spelled(leaves, s)
  <2> DEFINE R == {<<leaves[i], i - 1, i>> : i \in 1 .. n}
             b == [i \in 0 .. n |-> i]
  <2>1. Spells(R, s)
    <3> SUFFICES ASSUME NEW t, NEW lo, NEW hi, <<t, lo, hi>> \in R
                 PROVE  /\ lo \in Nat /\ hi \in Nat /\ lo < hi /\ hi <= Len(s)
                        /\ Stretch(t, lo, hi, R, s)
      BY Zenon DEF Spells
    <3>1. PICK i \in 1 .. n : t = leaves[i] /\ lo = i - 1 /\ hi = i
      OBVIOUS
    <3>2. lo \in Nat /\ hi \in Nat /\ lo < hi /\ hi <= n
      BY <1>1, <3>1
    <3>3. hi = lo + 1 /\ t = Leaf(s[hi])
      BY <1>1, <1>2, <3>1
    <3> HIDE DEF R
    <3> QED
      BY <3>2, <3>3 DEF Stretch, n
  <2>2. /\ b \in [0 .. n -> Nat] /\ b[0] = 0 /\ b[n] = n
        /\ \A i \in 1 .. n : b[i - 1] = i - 1 /\ b[i] = i
    BY <1>1
  <2>3. \A i \in 1 .. n : <<leaves[i], i - 1, i>> \in R
    OBVIOUS
  <2> HIDE DEF R, b
  <2>4. \A i \in 1 .. n : <<leaves[i], b[i - 1], b[i]>> \in R
    BY <2>2, <2>3
  <2>5. n = Len(s)
    BY DEF n
  <2> QED
    BY <1>2, <2>1, <2>2, <2>4, <2>5 DEF Spelled
<1>4. /\ Levels(leaves)[0] = leaves
      /\ \A k \in 1 .. n : Levels(leaves)[k] = NextLevel(Levels(leaves)[k - 1])
  BY <1>1, <1>2, LevelsTell
<1>5. Fine(leaves, 0)
  <2>1. leaves # <<>>
    BY <1>1, <1>2
  <2>2. Len(leaves) <= n - 0
    BY <1>1, <1>2
  <2> QED
    BY <1>2, <1>3, <2>1, <2>2
<1>6. ASSUME NEW level, NEW k \in Nat, Fine(level, k)
      PROVE  Fine(NextLevel(level), k + 1)
  <2>1. PICK T : level \in Seq(T)
    BY <1>6
  <2>2. level # <<>> /\ Spelled(level, s) /\ (Len(level) = 1 \/ Len(level) <= n - k)
    BY <1>6
  <2>3. Spelled(NextLevel(level), s)
    BY <2>1, <2>2, SpelledOn
  <2>4. PICK U : NextLevel(level) \in Seq(U)
    BY <2>1, <2>2, NextLevelTells
  <2>5. Len(NextLevel(level)) = (Len(level) + 1) \div 2
    BY <2>1, <2>2, NextLevelTells
  <2>6. Len(level) \in Nat /\ Len(level) # 0
    BY <2>1, <2>2, EmptySeq, LenProperties
  <2>7. Len(NextLevel(level)) # 0
    BY <2>5, <2>6
  <2>8. Len(NextLevel(level)) = 1 \/ Len(NextLevel(level)) <= n - (k + 1)
    <3>1. PICK L \in Nat : L = Len(level)
      BY <2>6
    <3>2. L # 0 /\ (L = 1 \/ L <= n - k)
      BY <2>2, <2>6, <3>1
    <3>3. (L + 1) \div 2 = 1 \/ (L + 1) \div 2 <= n - (k + 1)
      BY <1>1, <3>2
    <3> QED
      BY <2>5, <3>1, <3>3
  <2>9. NextLevel(level) # <<>>
    BY <2>7
  <2> QED
    BY <2>3, <2>4, <2>8, <2>9
<1> HIDE DEF Fine
<1>7. Bad = {}
  <2> SUFFICES ASSUME Bad # {} PROVE FALSE
    OBVIOUS
  <2>1. PICK k \in Bad : \A m \in Bad : k <= m
    BY LeastNumber
  <2>2. k \in Nat /\ k <= n /\ ~ Fine(Levels(leaves)[k], k)
    OBVIOUS
  <2>3. k # 0
    BY <1>4, <1>5, <2>2
  <2>4. k - 1 \in Nat /\ k - 1 <= n /\ ~ (k <= k - 1) /\ k \in 1 .. n /\ (k - 1) + 1 = k
    BY <1>1, <2>2, <2>3
  <2>5. Fine(Levels(leaves)[k - 1], k - 1)
    BY <2>1, <2>4
  <2>6. Fine(NextLevel(Levels(leaves)[k - 1]), k)
    BY <1>6, <2>4, <2>5
  <2> QED
    BY <1>4, <2>2, <2>4, <2>6
<1>8. \A k \in 0 .. n : Fine(Levels(leaves)[k], k)
  BY <1>1, <1>7
<1>9. Len(Levels(leaves)[n]) = 1
  <2>1. PICK top : top = Levels(leaves)[n]
    OBVIOUS
  <2>2. Fine(top, n)
    BY <1>1, <1>8, <2>1
  <2>3. PICK T : top \in Seq(T)
    BY <2>2 DEF Fine
  <2>4. top # <<>> /\ (Len(top) = 1 \/ Len(top) <= n - n)
    BY <2>2 DEF Fine
  <2>5. Len(top) \in Nat /\ Len(top) # 0
    BY <2>3, <2>4, EmptySeq, LenProperties
  <2> QED
    BY <1>1, <2>1, <2>4, <2>5
<1> QED
  BY <1>2, <1>8, <1>9 DEF Fine, n

\* The sorted episodes can be read off the root.
LEMMA RootTells ==
  ASSUME NEW e \in Seq(Episode), NEW f \in Seq(Episode), e # <<>>, f # <<>>,
         MerkleRoot(e) = MerkleRoot(f)
  PROVE  Sorted(e) = Sorted(f)
<1>1. ASSUME NEW d \in Seq(Episode), d # <<>>
      PROVE  /\ Sorted(d) \in Seq(Episode)
             /\ \E R, t : /\ MerkleRoot(d) = Root(t)
                          /\ Spells(R, Sorted(d)) /\ <<t, 0, Len(Sorted(d))>> \in R
  <2>1. PICK s : s = Sorted(d)
    OBVIOUS
  <2>2. s \in Seq(Episode) /\ s # <<>>
    <3>1. s \in Seq(Episode) /\ Len(s) = Len(d)
      BY <1>1, <2>1, SortedPermutes
    <3>2. Len(d) # 0
      BY <1>1, EmptySeq, LenProperties
    <3> QED
      BY <3>1, <3>2
  <2>3. PICK leaves : leaves = [n \in DOMAIN s |-> Leaf(s[n])]
    OBVIOUS
  <2>4. leaves = SortedLeaves(d)
    <3>1. DOMAIN s = DOMAIN d
      BY <1>1, <2>1, <2>2, SortedPermutes, LenProperties
    <3> QED
      BY <2>1, <2>3, <3>1 DEF SortedLeaves
  <2>5. PICK top : top = Levels(leaves)[Len(s)]
    OBVIOUS
  <2>6. Len(leaves) = Len(s) /\ Len(top) = 1 /\ Spelled(top, s)
    <3>1. Len(s) \in 0 .. Len(s)
      BY <2>2, LenProperties
    <3> QED
      BY <2>2, <2>3, <2>5, <3>1, EveryLevel
  <2>7. PICK R, b : /\ Spells(R, s)
                    /\ b[0] = 0 /\ b[Len(top)] = Len(s)
                    /\ \A i \in 1 .. Len(top) : <<top[i], b[i - 1], b[i]>> \in R
    BY <2>6 DEF Spelled
  <2>8. <<top[1], 0, Len(s)>> \in R
    <3>1. 1 \in 1 .. Len(top) /\ 1 - 1 = 0
      BY <2>6
    <3>2. <<top[1], b[0], b[1]>> \in R
      BY <2>7, <3>1
    <3> QED
      BY <2>6, <2>7, <3>2
  <2>9. MerkleRoot(d) = Root(top[1])
    BY <2>4, <2>5, <2>6 DEF MerkleRoot
  <2> QED
    BY <2>1, <2>2, <2>7, <2>8, <2>9
<1>2. PICK s, u : s = Sorted(e) /\ u = Sorted(f)
  OBVIOUS
<1>3. s \in Seq(Episode) /\ u \in Seq(Episode)
  BY <1>1, <1>2
<1>4. PICK R, t : /\ MerkleRoot(e) = Root(t)
                  /\ Spells(R, s) /\ <<t, 0, Len(s)>> \in R
  BY <1>1, <1>2
<1>5. PICK Q, v : /\ MerkleRoot(f) = Root(v)
                  /\ Spells(Q, u) /\ <<v, 0, Len(u)>> \in Q
  BY <1>1, <1>2
<1>6. t = v
  <2>1. Root(t) = Root(v)
    BY <1>4, <1>5
  <2> QED
    BY <2>1 DEF Root
<1>7. /\ Len(s) - 0 = Len(u) - 0
      /\ \A i \in 1 .. Len(s) - 0 : s[0 + i] = u[0 + i]
  BY <1>4, <1>5, <1>6, OneSpelling
<1>8. Len(s) \in Nat /\ Len(u) \in Nat
  BY <1>3, LenProperties
<1>9. Len(s) = Len(u) /\ \A i \in 1 .. Len(s) : s[i] = u[i]
  BY <1>7, <1>8
<1>10. s = u
  BY <1>3, <1>9, SeqEqual
<1> QED
  BY <1>2, <1>10

-----------------------------------------------------------------------------
(***************************************************************************)
(* What is computed upward from a leaf along the entries of a proof, and   *)
(* that it follows the tree.                                               *)
(***************************************************************************)
Climbs(leaf, path, t) ==
  \E f : /\ f = [k \in 0 .. Len(path) |-> IF k = 0 THEN leaf ELSE Combine(f[k - 1], path[k])]
         /\ t = f[Len(path)]

\* Nothing is computed along no entries.
LEMMA ClimbsNothing ==
  ASSUME NEW leaf, NEW path, path = <<>>
  PROVE  Climbs(leaf, path, leaf)
<1> DEFINE f == [k \in 0 .. 0 |-> leaf]
<1>1. Len(path) = 0 /\ f[0] = leaf
  OBVIOUS
<1>2. f = [k \in 0 .. 0 |-> IF k = 0 THEN leaf ELSE Combine(f[k - 1], path[k])]
  OBVIOUS
<1> HIDE DEF f
<1> QED
  BY <1>1, <1>2 DEF Climbs

\* One entry more.
LEMMA ClimbsOn ==
  ASSUME NEW leaf, NEW t, NEW E, NEW path \in Seq(E), NEW entry \in E, Climbs(leaf, path, t)
  PROVE  Climbs(leaf, Append(path, entry), Combine(t, entry))
<1> DEFINE n == Len(path)
<1>1. PICK more \in Seq(E) : more = Append(path, entry)
  BY AppendProperties
<1>2. n \in Nat /\ Len(more) = n + 1 /\ more[n + 1] = entry /\ \A k \in 1 .. n : more[k] = path[k]
  BY <1>1, AppendProperties, LenProperties
<1>3. PICK f : /\ f = [k \in 0 .. n |-> IF k = 0 THEN leaf ELSE Combine(f[k - 1], path[k])]
               /\ t = f[n]
  BY DEF Climbs
<1> HIDE DEF n
<1> DEFINE g == [k \in 0 .. n + 1 |-> IF k = n + 1 THEN Combine(t, entry) ELSE f[k]]
<1>4. \A k \in 0 .. n : g[k] = f[k]
  BY <1>2
<1>5. g[n + 1] = Combine(t, entry)
  BY <1>2
<1>6. \A k \in 0 .. n + 1 :
        g[k] = IF k = 0 THEN leaf ELSE Combine(g[k - 1], more[k])
  <2> SUFFICES ASSUME NEW k \in 0 .. n + 1
               PROVE  g[k] = IF k = 0 THEN leaf ELSE Combine(g[k - 1], more[k])
    OBVIOUS
  <2> HIDE DEF g
  <2>1. CASE k = n + 1
    <3>1. k # 0 /\ k - 1 = n /\ n \in 0 .. n
      BY <1>2, <2>1
    <3>2. g[k - 1] = t /\ more[k] = entry
      BY <1>2, <1>3, <1>4, <2>1, <3>1
    <3> QED
      BY <1>5, <2>1, <3>1, <3>2
  <2>2. CASE k = 0
    <3>1. 0 \in 0 .. n
      BY <1>2
    <3> QED
      BY <1>3, <1>4, <2>2, <3>1
  <2>3. CASE k # n + 1 /\ k # 0
    <3>1. k \in 1 .. n /\ k \in 0 .. n /\ k - 1 \in 0 .. n
      BY <1>2, <2>3
    <3>2. f[k] = Combine(f[k - 1], path[k])
      BY <1>3, <2>3, <3>1
    <3> QED
      BY <1>2, <1>4, <2>3, <3>1, <3>2
  <2> QED
    BY <2>1, <2>2, <2>3
<1>7. g = [k \in 0 .. n + 1 |-> g[k]]
  OBVIOUS
<1> HIDE DEF g
<1>8. g = [k \in 0 .. n + 1 |-> IF k = 0 THEN leaf ELSE Combine(g[k - 1], more[k])]
  BY <1>6, <1>7
<1>9. Climbs(leaf, more, Combine(t, entry))
  BY <1>2, <1>5, <1>8 DEF Climbs
<1> QED
  BY <1>1, <1>9

\* It is what the check computes.
LEMMA ClimbTells ==
  ASSUME NEW leaf, NEW t, NEW E, NEW path \in Seq(E), Climbs(leaf, path, t)
  PROVE  Climb(leaf, path) = t
<1> DEFINE n == Len(path)
           Body(f) == [k \in 0 .. n |-> IF k = 0 THEN leaf ELSE Combine(f[k - 1], path[k])]
           it == CHOOSE f : f = Body(f)
<1>1. n \in Nat
  BY LenProperties
<1>2. PICK f : f = Body(f) /\ t = f[n]
  BY DEF Climbs
<1>3. it = Body(it)
  BY <1>2
<1>4. Climb(leaf, path) = it[n]
  BY DEF Climb
<1>5. /\ f[0] = leaf /\ \A k \in 1 .. n : f[k] = Combine(f[k - 1], path[k])
      /\ it[0] = leaf /\ \A k \in 1 .. n : it[k] = Combine(it[k - 1], path[k])
  <2> HIDE DEF it, n
  <2>1. 0 \in 0 .. n /\ \A k \in 1 .. n : k \in 0 .. n /\ k # 0
    BY <1>1
  <2>2. ASSUME NEW h, h = Body(h)
        PROVE  h[0] = leaf /\ \A k \in 1 .. n : h[k] = Combine(h[k - 1], path[k])
    BY <2>1, <2>2
  <2> QED
    BY <1>2, <1>3, <2>2
<1> HIDE DEF it, n, Body
<1> DEFINE Bad == {k \in Nat : k <= n /\ f[k] # it[k]}
<1>6. Bad = {}
  <2> SUFFICES ASSUME Bad # {} PROVE FALSE
    OBVIOUS
  <2>1. PICK k \in Bad : \A m \in Bad : k <= m
    BY LeastNumber
  <2>2. k \in Nat /\ k <= n /\ f[k] # it[k]
    OBVIOUS
  <2>3. k # 0
    BY <1>5, <2>2
  <2>4. k - 1 \in Nat /\ k - 1 <= n /\ ~ (k <= k - 1) /\ k \in 1 .. n
    BY <1>1, <2>2, <2>3
  <2>5. f[k - 1] = it[k - 1]
    BY <2>1, <2>4
  <2> QED
    BY <1>5, <2>2, <2>4, <2>5
<1>7. f[n] = it[n]
  BY <1>1, <1>6
<1> QED
  BY <1>2, <1>4, <1>7

\* The entries of a proof, level by level.
LEMMA PathTells ==
  ASSUME NEW leaves, Len(leaves) \in Nat, NEW index
  PROVE  \E at, below :
           /\ at[0] = index /\ below[0] = <<>>
           /\ \A k \in 1 .. Len(leaves) :
                /\ at[k] = (at[k - 1] + 1) \div 2
                /\ below[k] = below[k - 1] \o Witness(Levels(leaves)[k - 1], at[k - 1])
           /\ Path(leaves, index) = below[Len(leaves)]
<1> DEFINE Halved(f, n) == [k \in 0 .. n |-> IF k = 0 THEN index ELSE (f[k - 1] + 1) \div 2]
           at == CHOOSE f : f = Halved(f, Len(leaves))
           Entry(k) == Witness(Levels(leaves)[k - 1], at[k - 1])
           Entries(f, n) == [k \in 0 .. n |-> IF k = 0 THEN <<>> ELSE f[k - 1] \o Entry(k)]
           below == CHOOSE f : f = Entries(f, Len(leaves))
<1>1. \A n \in Nat : \E f : f = Halved(f, n)
  <2> DEFINE Bad == {n \in Nat : ~ \E f : f = Halved(f, n)}
  <2> SUFFICES ASSUME Bad # {} PROVE FALSE
    OBVIOUS
  <2>1. PICK n \in Bad : \A m \in Bad : n <= m
    BY LeastNumber
  <2>2. n \in Nat /\ ~ \E f : f = Halved(f, n)
    OBVIOUS
  <2>3. CASE n = 0
    <3> DEFINE g == [k \in 0 .. 0 |-> index]
    <3>1. g = Halved(g, 0)
      OBVIOUS
    <3> QED
      BY <2>2, <2>3, <3>1
  <2>4. CASE n # 0
    <3>1. n - 1 \in Nat /\ ~ (n <= n - 1)
      BY <2>2, <2>4
    <3>2. PICK f : f = Halved(f, n - 1)
      BY <2>1, <3>1
    <3> DEFINE g == [k \in 0 .. n |-> IF k = 0 THEN index ELSE (f[k - 1] + 1) \div 2]
    <3>3. \A k \in 0 .. n : k # 0 => k - 1 \in 0 .. n - 1 /\ g[k - 1] = f[k - 1]
      BY <2>2, <3>2
    <3>4. g = Halved(g, n)
      <4>1. \A k \in 0 .. n : (IF k = 0 THEN index ELSE (f[k - 1] + 1) \div 2)
                            = IF k = 0 THEN index ELSE (g[k - 1] + 1) \div 2
        BY <3>3
      <4> QED
        BY <4>1
    <3> QED
      BY <2>2, <3>4
  <2> QED
    BY <2>3, <2>4
<1>2. at = Halved(at, Len(leaves))
  BY <1>1
<1> HIDE DEF at, Entry
<1>3. \A n \in Nat : \E f : f = Entries(f, n)
  <2> DEFINE Bad == {n \in Nat : ~ \E f : f = Entries(f, n)}
  <2> SUFFICES ASSUME Bad # {} PROVE FALSE
    OBVIOUS
  <2>1. PICK n \in Bad : \A m \in Bad : n <= m
    BY LeastNumber
  <2>2. n \in Nat /\ ~ \E f : f = Entries(f, n)
    OBVIOUS
  <2>3. CASE n = 0
    <3> DEFINE g == [k \in 0 .. 0 |-> <<>>]
    <3>1. g = Entries(g, 0)
      OBVIOUS
    <3> QED
      BY <2>2, <2>3, <3>1
  <2>4. CASE n # 0
    <3>1. n - 1 \in Nat /\ ~ (n <= n - 1)
      BY <2>2, <2>4
    <3>2. PICK f : f = Entries(f, n - 1)
      BY <2>1, <3>1
    <3> DEFINE g == [k \in 0 .. n |-> IF k = 0 THEN <<>> ELSE f[k - 1] \o Entry(k)]
    <3>3. \A k \in 0 .. n : k # 0 => k - 1 \in 0 .. n - 1 /\ g[k - 1] = f[k - 1]
      <4>1. \A j \in 0 .. n - 1 : f[j] = IF j = 0 THEN <<>> ELSE f[j - 1] \o Entry(j)
        BY <3>2
      <4>2. \A j \in 0 .. n : g[j] = IF j = 0 THEN <<>> ELSE f[j - 1] \o Entry(j)
        OBVIOUS
      <4>3. \A k \in 0 .. n : k # 0 => k - 1 \in 0 .. n - 1 /\ k - 1 \in 0 .. n
        BY <2>2
      <4>4. \A j \in 0 .. n - 1 : j \in 0 .. n
        BY <2>2
      <4> HIDE DEF g
      <4>5. \A j \in 0 .. n - 1 : g[j] = f[j]
        BY <4>1, <4>2, <4>4
      <4> QED
        BY <4>3, <4>5
    <3>4. g = Entries(g, n)
      <4>1. \A k \in 0 .. n : (IF k = 0 THEN <<>> ELSE f[k - 1] \o Entry(k))
                            = IF k = 0 THEN <<>> ELSE g[k - 1] \o Entry(k)
        BY <3>3
      <4> QED
        BY <4>1
    <3> QED
      BY <2>2, <3>4
  <2> QED
    BY <2>3, <2>4
<1>4. below = Entries(below, Len(leaves))
  BY <1>3
<1>5. Path(leaves, index) = below[Len(leaves)]
  BY DEF Path, at, Entry
<1> HIDE DEF below
<1>6. \A k \in 1 .. Len(leaves) : k \in 0 .. Len(leaves) /\ k # 0
  OBVIOUS
<1>7. at[0] = index /\ \A k \in 1 .. Len(leaves) : at[k] = (at[k - 1] + 1) \div 2
  BY <1>2, <1>6
<1>8. /\ below[0] = <<>>
      /\ \A k \in 1 .. Len(leaves) :
           below[k] = below[k - 1] \o Witness(Levels(leaves)[k - 1], at[k - 1])
  BY <1>4, <1>6 DEF Entry
<1> QED
  BY <1>5, <1>7, <1>8

\* One level up: what is computed from a node with its entry, if it has one, is the
\* node above.
LEMMA WitnessTells ==
  ASSUME NEW leaf, NEW T, NEW level \in Seq(T), level # <<>>, NEW i \in 1 .. Len(level),
         NEW E, NEW path \in Seq(E), Climbs(leaf, path, level[i])
  PROVE  /\ (i + 1) \div 2 \in 1 .. Len(NextLevel(level))
         /\ \E F : path \o Witness(level, i) \in Seq(F)
         /\ Climbs(leaf, path \o Witness(level, i), NextLevel(level)[(i + 1) \div 2])
<1> DEFINE L == Len(level)
           next == NextLevel(level)
           j == (i + 1) \div 2
<1>1. L \in Nat /\ L # 0 /\ i \in Nat /\ 1 <= i /\ i <= L
  BY EmptySeq, LenProperties
<1>2. /\ Len(next) = (L + 1) \div 2
      /\ \A m \in 1 .. L \div 2 : next[m] = Node(level[2 * m - 1], level[2 * m])
      /\ L % 2 = 1 => next[(L + 1) \div 2] = level[L]
  BY NextLevelTells
<1> HIDE DEF L, next
<1>3. j \in 1 .. Len(next)
  BY <1>1, <1>2
<1>4. ASSUME NEW entry, Combine(level[i], entry) = next[j], Witness(level, i) = <<entry>>
      PROVE  /\ \E F : path \o Witness(level, i) \in Seq(F)
             /\ Climbs(leaf, path \o Witness(level, i), next[j])
  <2> DEFINE F == E \cup {entry}
  <2>1. path \in Seq(F) /\ entry \in F
    <3>1. \A m \in 1 .. Len(path) : path[m] \in F
      BY ElementOfSeq
    <3>2. path = [m \in 1 .. Len(path) |-> path[m]] /\ Len(path) \in Nat
      BY LenProperties
    <3> HIDE DEF F
    <3>3. path \in Seq(F)
      BY <3>1, <3>2
    <3> QED
      BY <3>3 DEF F
  <2> HIDE DEF F
  <2>2. path \o <<entry>> = Append(path, entry)
    BY <2>1, AppendIsConcat
  <2>3. Append(path, entry) \in Seq(F)
    BY <2>1, AppendProperties
  <2>4. Climbs(leaf, Append(path, entry), Combine(level[i], entry))
    BY <2>1, ClimbsOn
  <2> QED
    BY <1>4, <2>2, <2>3, <2>4
<1>5. CASE i % 2 = 0
  <2>1. j \in 1 .. L \div 2 /\ 2 * j - 1 = i - 1 /\ 2 * j = i
    BY <1>1, <1>5
  <2>2. next[j] = Node(level[i - 1], level[i])
    BY <1>2, <2>1
  <2>3. PICK entry : entry = [sibling |-> level[i - 1], left |-> TRUE]
    OBVIOUS
  <2>4. Combine(level[i], entry) = next[j]
    BY <2>2, <2>3 DEF Combine
  <2>5. Witness(level, i) = <<entry>>
    BY <1>5, <2>3 DEF Witness
  <2> QED
    BY <1>3, <1>4, <2>4, <2>5 DEF next
<1>6. CASE i % 2 # 0 /\ i < L
  <2>1. j \in 1 .. L \div 2 /\ 2 * j - 1 = i /\ 2 * j = i + 1
    BY <1>1, <1>6
  <2>2. next[j] = Node(level[i], level[i + 1])
    BY <1>2, <2>1
  <2>3. PICK entry : entry = [sibling |-> level[i + 1], left |-> FALSE]
    OBVIOUS
  <2>4. Combine(level[i], entry) = next[j]
    BY <2>2, <2>3 DEF Combine
  <2>5. Witness(level, i) = <<entry>>
    BY <1>6, <2>3 DEF Witness, L
  <2> QED
    BY <1>3, <1>4, <2>4, <2>5 DEF next
<1>7. CASE i % 2 # 0 /\ ~ (i < L)
  <2>1. i = L /\ L % 2 = 1
    BY <1>1, <1>7
  <2>2. next[j] = level[i]
    BY <1>2, <2>1
  <2>3. Witness(level, i) = <<>>
    BY <1>7 DEF Witness, L
  <2>4. path \o <<>> = path
    BY ConcatEmptySeq
  <2> QED
    BY <1>3, <2>2, <2>3, <2>4 DEF next
<1> QED
  BY <1>1, <1>5, <1>6, <1>7

\* Every episode of a data set has a proof that its root accepts, and a proof drawn
\* from a data set is accepted by no other root.
LEMMA ProofsTell ==
  ASSUME NEW e \in Seq(Episode), NEW k \in DOMAIN e, NEW root
  PROVE  VerifyInclusion(ProveInclusion(e, k), root) <=> MerkleRoot(e) = root
<1>1. PICK s, n : s = Sorted(e) /\ n = Len(e)
  OBVIOUS
<1>2. DOMAIN e = 1 .. n /\ n \in Nat /\ n # 0 /\ k \in 1 .. n
  BY <1>1, LenProperties
<1>3. s \in Seq(Episode) /\ Len(s) = n /\ DOMAIN s = 1 .. n /\ s # <<>>
  <2>1. s \in Seq(Episode) /\ Len(s) = n
    BY <1>1, SortedPermutes
  <2> QED
    BY <1>2, <2>1, LenProperties, EmptySeq
<1>4. PICK leaves : leaves = [m \in DOMAIN s |-> Leaf(s[m])]
  OBVIOUS
<1>5. leaves = SortedLeaves(e)
  BY <1>1, <1>2, <1>3, <1>4 DEF SortedLeaves
<1>6. PICK index : index = SortedIndex(e, k)
  OBVIOUS
<1>7. index \in 1 .. n /\ s[index] = e[k]
  BY <1>1, <1>2, <1>6, SortedPermutes
<1>8. PICK leaf : leaf = Leaf(e[k])
  OBVIOUS
<1>9. leaves[index] = leaf
  BY <1>3, <1>4, <1>7, <1>8
<1>10. /\ Len(leaves) = n
       /\ \A m \in 0 .. n : /\ \E T : Levels(leaves)[m] \in Seq(T)
                            /\ Levels(leaves)[m] # <<>>
       /\ Len(Levels(leaves)[n]) = 1
  BY <1>3, <1>4, EveryLevel
<1>11. /\ Levels(leaves)[0] = leaves
       /\ \A m \in 1 .. n : Levels(leaves)[m] = NextLevel(Levels(leaves)[m - 1])
  BY <1>2, <1>10, LevelsTell
<1>12. PICK at, below :
         /\ at[0] = index /\ below[0] = <<>>
         /\ \A m \in 1 .. n :
              /\ at[m] = (at[m - 1] + 1) \div 2
              /\ below[m] = below[m - 1] \o Witness(Levels(leaves)[m - 1], at[m - 1])
         /\ Path(leaves, index) = below[n]
  <2>1. Len(leaves) = n /\ Len(leaves) \in Nat
    BY <1>2, <1>10
  <2>2. \E at, below :
          /\ at[0] = index /\ below[0] = <<>>
          /\ \A m \in 1 .. Len(leaves) :
               /\ at[m] = (at[m - 1] + 1) \div 2
               /\ below[m] = below[m - 1] \o Witness(Levels(leaves)[m - 1], at[m - 1])
          /\ Path(leaves, index) = below[Len(leaves)]
    BY <2>1, PathTells
  <2> QED
    BY <2>1, <2>2
<1> DEFINE Right(level, i, path) == /\ i \in 1 .. Len(level)
                                    /\ \E E : path \in Seq(E)
                                    /\ Climbs(leaf, path, level[i])
           Bad == {m \in Nat : m <= n /\ ~ Right(Levels(leaves)[m], at[m], below[m])}
<1>13. Right(leaves, index, <<>>)
  <2>1. Climbs(leaf, <<>>, leaf)
    BY ClimbsNothing
  <2>2. <<>> \in Seq({})
    BY EmptySeq
  <2> QED
    BY <1>7, <1>9, <1>10, <2>1, <2>2
<1>14. ASSUME NEW level, NEW T, level \in Seq(T), level # <<>>, NEW i, NEW path, Right(level, i, path)
       PROVE  Right(NextLevel(level), (i + 1) \div 2, path \o Witness(level, i))
  <2>1. PICK E : path \in Seq(E)
    BY <1>14
  <2>2. i \in 1 .. Len(level) /\ Climbs(leaf, path, level[i])
    BY <1>14
  <2> QED
    BY <1>14, <2>1, <2>2, WitnessTells
<1> HIDE DEF Right
<1>15. Bad = {}
  <2> SUFFICES ASSUME Bad # {} PROVE FALSE
    OBVIOUS
  <2>1. PICK m \in Bad : \A l \in Bad : m <= l
    BY LeastNumber
  <2>2. m \in Nat /\ m <= n /\ ~ Right(Levels(leaves)[m], at[m], below[m])
    OBVIOUS
  <2>3. m # 0
    BY <1>11, <1>12, <1>13, <2>2
  <2>4. m - 1 \in Nat /\ m - 1 <= n /\ ~ (m <= m - 1) /\ m \in 1 .. n /\ m - 1 \in 0 .. n
    BY <1>2, <2>2, <2>3
  <2>5. Right(Levels(leaves)[m - 1], at[m - 1], below[m - 1])
    BY <2>1, <2>4
  <2>6. PICK level, T : level = Levels(leaves)[m - 1] /\ level \in Seq(T) /\ level # <<>>
    BY <1>10, <2>4
  <2>7. Right(NextLevel(level), (at[m - 1] + 1) \div 2, below[m - 1] \o Witness(level, at[m - 1]))
    BY <1>14, <2>5, <2>6
  <2>8. Right(Levels(leaves)[m], at[m], below[m])
    BY <1>11, <1>12, <2>4, <2>6, <2>7
  <2> QED
    BY <2>2, <2>8
<1>16. PICK top : top = Levels(leaves)[n]
  OBVIOUS
<1>17. Right(top, at[n], below[n])
  BY <1>2, <1>15, <1>16
<1>18. Climb(leaf, below[n]) = top[1]
  <2>1. PICK E : below[n] \in Seq(E)
    BY <1>17 DEF Right
  <2>2. at[n] \in 1 .. Len(top) /\ Climbs(leaf, below[n], top[at[n]])
    BY <1>17 DEF Right
  <2>3. at[n] = 1
    BY <1>10, <1>16, <2>2
  <2> QED
    BY <2>1, <2>2, <2>3, ClimbTells
<1>19. PICK proof : proof = ProveInclusion(e, k)
  OBVIOUS
<1>20. proof.leaf = leaf /\ proof.path = below[n]
  BY <1>5, <1>6, <1>8, <1>12, <1>19 DEF ProveInclusion
<1>21. MerkleRoot(e) = Root(top[1])
  BY <1>5, <1>10, <1>16 DEF MerkleRoot
<1>22. VerifyInclusion(proof, root) <=> Root(top[1]) = root
  BY <1>18, <1>20 DEF VerifyInclusion
<1> QED
  BY <1>19, <1>21, <1>22

-----------------------------------------------------------------------------
(***************************************************************************)
(* Chains of records.                                                      *)
(***************************************************************************)

\* Digests tell records apart, and a digest is no missing link.
LEMMA Hashes ==
  /\ \A a, b : RecordHash(a) = RecordHash(b) => a = b
  /\ \A a : RecordHash(a) # None
  BY DEF RecordHash, None

\* The links of records that verify, one by one.
LEMMA ChainLinks ==
  ASSUME NEW S, NEW s \in Seq(S), VerifyChain(s), NEW i \in 1..Len(s)
  PROVE  /\ i = 1 => s[i].prev = None
         /\ i # 1 => s[i].prev = RecordHash(s[i - 1])
  BY DEF VerifyChain

\* Two chains that verify and end with the same record are the same: the digest in
\* a record stands for the record before it, and so for all before that.
LEMMA ChainsAgree ==
  ASSUME NEW S, NEW s \in Seq(S), NEW t \in Seq(S), s # <<>>, t # <<>>,
         VerifyChain(s), VerifyChain(t), Last(s) = Last(t)
  PROVE  s = t
<1> DEFINE m == Len(s)
           n == Len(t)
           Differ == {j \in Nat : j < m /\ j < n /\ s[m - j] # t[n - j]}
<1>0. m \in Nat /\ n \in Nat /\ m > 0 /\ n > 0
  BY EmptySeq, LenProperties
<1>1. \A i \in 1..m :
        /\ i = 1 => s[i].prev = None
        /\ i # 1 => s[i].prev = RecordHash(s[i - 1])
  BY ChainLinks
<1>2. \A i \in 1..n :
        /\ i = 1 => t[i].prev = None
        /\ i # 1 => t[i].prev = RecordHash(t[i - 1])
  BY ChainLinks
<1> HIDE DEF m, n
<1>3. Differ = {}
  <2> SUFFICES ASSUME Differ # {} PROVE FALSE
    OBVIOUS
  <2>1. PICK j \in Differ : \A k \in Differ : j <= k
    BY LeastNumber
  <2>2. j \in Nat /\ j < m /\ j < n /\ s[m - j] # t[n - j]
    OBVIOUS
  <2>3. j # 0
    BY <1>0, <2>2 DEF Last, m, n
  <2>4. s[m - (j - 1)] = t[n - (j - 1)]
    <3>1. j - 1 \in Nat /\ j - 1 < m /\ j - 1 < n /\ ~ (j <= j - 1)
      BY <1>0, <2>2, <2>3
    <3> QED
      BY <2>1, <3>1
  <2>5. RecordHash(s[m - j]) = RecordHash(t[n - j])
    <3>0. m - j \in Nat \ {0} /\ n - j \in Nat \ {0} /\ m - j <= m - 1 /\ n - j <= n - 1
      BY <1>0, <2>2, <2>3
    <3>1. /\ m - (j - 1) = m - j + 1 /\ n - (j - 1) = n - j + 1
          /\ (m - j + 1) - 1 = m - j /\ (n - j + 1) - 1 = n - j
          /\ m - j + 1 \in 1..m /\ n - j + 1 \in 1..n
          /\ m - j + 1 # 1 /\ n - j + 1 # 1
      BY <1>0, <2>2, <3>0
    <3>2. s[m - j + 1] = t[n - j + 1]
      BY <2>4, <3>1
    <3>3. s[m - j + 1].prev = RecordHash(s[(m - j + 1) - 1])
      BY <1>1, <3>1
    <3>4. t[n - j + 1].prev = RecordHash(t[(n - j + 1) - 1])
      BY <1>2, <3>1
    <3> QED
      BY <3>1, <3>2, <3>3, <3>4
  <2> QED
    BY <2>2, <2>5, Hashes
<1>4. \A j \in Nat : j < m /\ j < n => s[m - j] = t[n - j]
  BY <1>3
<1>5. m = n
  <2>1. ASSUME m < n PROVE FALSE
    <3>1. s[1] = t[n - m + 1]
      <4>1. m - (m - 1) = 1 /\ n - (m - 1) = n - m + 1
        BY <1>0
      <4>2. m - 1 \in Nat /\ m - 1 < m /\ m - 1 < n
        BY <1>0, <2>1
      <4>3. s[m - (m - 1)] = t[n - (m - 1)]
        BY <1>4, <4>2
      <4> QED
        BY <4>1, <4>3
    <3>2. n - m + 1 \in 1..n /\ n - m + 1 # 1 /\ 1 \in 1..m
      BY <1>0, <2>1
    <3>3. t[n - m + 1].prev = RecordHash(t[(n - m + 1) - 1])
      BY <1>2, <3>2
    <3>4. s[1].prev = None
      BY <1>1, <3>2
    <3> QED
      BY <3>1, <3>3, <3>4, Hashes
  <2>2. ASSUME n < m PROVE FALSE
    <3>1. t[1] = s[m - n + 1]
      <4>1. n - (n - 1) = 1 /\ m - (n - 1) = m - n + 1
        BY <1>0
      <4>2. n - 1 \in Nat /\ n - 1 < m /\ n - 1 < n
        BY <1>0, <2>2
      <4>3. s[m - (n - 1)] = t[n - (n - 1)]
        BY <1>4, <4>2
      <4> QED
        BY <4>1, <4>3
    <3>2. m - n + 1 \in 1..m /\ m - n + 1 # 1 /\ 1 \in 1..n
      BY <1>0, <2>2
    <3>3. s[m - n + 1].prev = RecordHash(s[(m - n + 1) - 1])
      BY <1>1, <3>2
    <3>4. t[1].prev = None
      BY <1>2, <3>2
    <3> QED
      BY <3>1, <3>3, <3>4, Hashes
  <2> QED
    BY <1>0, <2>1, <2>2
<1>6. \A i \in 1..m : s[i] = t[i]
  <2> SUFFICES ASSUME NEW i \in 1..m PROVE s[i] = t[i]
    OBVIOUS
  <2>1. m - i \in Nat /\ m - i < m /\ m - (m - i) = i
    BY <1>0
  <2> QED
    BY <1>4, <1>5, <2>1
<1> QED
  BY <1>5, <1>6, SeqEqual DEF m, n

\* A record appended to a chain that verifies: the longer one does if the record has
\* the link and the round that append demands, and only then.
LEMMA ChainAppend ==
  ASSUME NEW S, NEW s \in Seq(S), NEW r \in S
  PROVE  VerifyChain(Append(s, r)) <=>
           /\ VerifyChain(s)
           /\ r.prev = ExpectedPrev(s)
           /\ s # <<>> => r.round > Last(s).round
<1> DEFINE n == Len(s)
           t == Append(s, r)
           Linked(c, i) == /\ c[i].prev = IF i = 1 THEN None ELSE RecordHash(c[i - 1])
                           /\ i > 1 => c[i].round > c[i - 1].round
<1>1. n \in Nat /\ DOMAIN s = 1..n /\ (s = <<>> <=> n = 0)
  BY EmptySeq, LenProperties
<1>2. /\ DOMAIN t = 1..(n + 1) /\ t[n + 1] = r
      /\ \A i \in 1..n : t[i] = s[i]
  BY AppendProperties
<1> HIDE DEF t
<1>3. \A i \in 1..n : Linked(t, i) <=> Linked(s, i)
  <2> SUFFICES ASSUME NEW i \in 1..n PROVE Linked(t, i) <=> Linked(s, i)
    OBVIOUS
  <2>1. t[i] = s[i] /\ (i # 1 => t[i - 1] = s[i - 1]) /\ i \in Nat /\ (i > 1 <=> i # 1)
    BY <1>1, <1>2
  <2> QED
    BY <2>1
<1>4. Linked(t, n + 1) <=> r.prev = ExpectedPrev(s) /\ (s # <<>> => r.round > Last(s).round)
  <2>1. CASE n = 0
    BY <1>1, <1>2, <2>1 DEF ExpectedPrev
  <2>2. CASE n # 0
    <3>1. n \in 1..n /\ (n + 1) - 1 = n /\ n + 1 # 1 /\ n + 1 > 1 /\ t[n] = s[n]
      BY <1>1, <1>2, <2>2
    <3> QED
      BY <1>1, <1>2, <2>2, <3>1 DEF ExpectedPrev, Last
  <2> QED
    BY <2>1, <2>2
<1>5. 1..(n + 1) = (1..n) \cup {n + 1}
  BY <1>1
<1>6. VerifyChain(t) <=> \A i \in 1..(n + 1) : Linked(t, i)
  BY <1>2 DEF VerifyChain
<1>7. VerifyChain(s) <=> \A i \in 1..n : Linked(s, i)
  BY <1>1 DEF VerifyChain
<1> HIDE DEF Linked
<1>8. VerifyChain(t) <=> (\A i \in 1..n : Linked(s, i)) /\ Linked(t, n + 1)
  BY <1>3, <1>5, <1>6
<1> QED
  BY <1>4, <1>7, <1>8 DEF t

-----------------------------------------------------------------------------
(***************************************************************************)
(* The ledger's file.                                                      *)
(***************************************************************************)

\* The lines that may be written about the records S.
Texts(S) == {Garbage} \cup {Line(r) : r \in S}
Lines(S) == [text: Texts(S), ended: BOOLEAN]

\* The text of a line is a record or garbage, not both.
LEMMA TextTells ==
  ASSUME NEW S, NEW x \in Texts(S), x # Garbage
  PROVE  x[1] \in S /\ x = Line(x[1])
  BY DEF Texts, Line

\* The text written for a record is parsed as that record.
LEMMA LineTells ==
  ASSUME NEW r
  PROVE  Line(r)[1] = r /\ Line(r) # Garbage
  BY DEF Line, Garbage

\* What is parsed when the file opens.
LEMMA ParsedType ==
  ASSUME NEW S, file \in Seq(Lines(S)), Opens
  PROVE  /\ Parsed \in Seq(S) /\ Len(Parsed) = Len(file)
         /\ \A i \in 1..Len(file) : Parsed[i] = file[i].text[1]
<1>1. DOMAIN file = 1..Len(file) /\ Len(file) \in Nat
  BY LenProperties
<1>2. \A i \in 1..Len(file) : file[i].text[1] \in S
  <2> SUFFICES ASSUME NEW i \in 1..Len(file) PROVE file[i].text[1] \in S
    OBVIOUS
  <2>1. file[i] \in Lines(S)
    BY ElementOfSeq
  <2>2. file[i].text \in Texts(S) /\ file[i].text # Garbage
    BY <1>1, <2>1 DEF Lines, Opens
  <2> QED
    BY <2>2, TextTells
<1>3. Parsed = [i \in 1..Len(file) |-> file[i].text[1]]
  BY <1>1 DEF Parsed
<1> QED
  BY <1>1, <1>2, <1>3, IsASeq

\* A write adds a line, or it spoils the last one; and a file that opens after it
\* did before, and has one record more.
LEMMA WriteEffect ==
  ASSUME NEW S, file \in Seq(Lines(S)), NEW x \in Texts(S), NEW e \in BOOLEAN,
         file' = Written(x, e)
  PROVE  /\ file' \in Seq(Lines(S))
         /\ Opens' => /\ Opens /\ x # Garbage
                      /\ Parsed' = Append(Parsed, x[1])
         /\ Opens /\ x # Garbage /\ (file = <<>> \/ Last(file).ended) =>
              Opens' /\ Parsed' = Append(Parsed, x[1])
<1> DEFINE n == Len(file)
           line == [text |-> x, ended |-> e]
<1>1. n \in Nat /\ DOMAIN file = 1..n /\ (file = <<>> <=> n = 0)
  BY EmptySeq, LenProperties
<1>2. line \in Lines(S)
  BY DEF Lines
<1>3. CASE file = <<>> \/ Last(file).ended
  <2>1. file' = Append(file, line)
    BY <1>3 DEF Written
  <2>2. /\ file' \in Seq(Lines(S)) /\ DOMAIN file' = 1..(n + 1) /\ Len(file') = n + 1
        /\ file'[n + 1].text = x
        /\ \A i \in 1..n : file'[i] = file[i]
    BY <1>2, <2>1, AppendProperties
  <2>3. 1..(n + 1) = (1..n) \cup {n + 1}
    BY <1>1
  <2>4. Opens' <=> Opens /\ x # Garbage
    BY <1>1, <2>2, <2>3 DEF Opens
  <2>5. ASSUME Opens' PROVE Parsed' = Append(Parsed, x[1])
    <3>1. /\ Parsed \in Seq(S) /\ Len(Parsed) = n
          /\ \A i \in 1..n : Parsed[i] = file[i].text[1]
      BY <2>4, <2>5, ParsedType
    <3>2. x[1] \in S
      BY <2>4, <2>5, TextTells
    <3>3. Parsed' = [i \in 1..(n + 1) |-> file'[i].text[1]]
      BY <2>2 DEF Parsed
    <3> DEFINE q == Append(Parsed, x[1])
    <3>4. /\ q \in Seq(S) /\ DOMAIN q = 1..(n + 1) /\ q[n + 1] = x[1]
          /\ \A i \in 1..n : q[i] = Parsed[i]
      BY <3>1, <3>2, AppendProperties, LenProperties
    <3> HIDE DEF q
    <3>5. \A i \in 1..(n + 1) : q[i] = file'[i].text[1]
      BY <2>2, <2>3, <3>1, <3>4
    <3>6. q = [i \in 1..(n + 1) |-> q[i]]
      BY <3>4, IsASeq, LenProperties
    <3> QED
      BY <3>3, <3>5, <3>6 DEF q
  <2> QED
    BY <2>2, <2>4, <2>5
<1>4. CASE ~ (file = <<>> \/ Last(file).ended)
  <2>1. file' = [file EXCEPT ![n] = [text |-> Garbage, ended |-> e]] /\ n \in 1..n
    BY <1>1, <1>4 DEF Written
  <2>2. [text |-> Garbage, ended |-> e] \in Lines(S)
    BY DEF Lines, Texts
  <2>3. file' \in Seq(Lines(S)) /\ n \in DOMAIN file' /\ file'[n].text = Garbage
    BY <1>1, <2>1, <2>2, ExceptSeq
  <2>4. ~ Opens'
    BY <2>3 DEF Opens
  <2> QED
    BY <1>4, <2>3, <2>4
<1> QED
  BY <1>3, <1>4

-----------------------------------------------------------------------------
(***************************************************************************)
(* The ledger's invariant.                                                 *)
(***************************************************************************)

\* Everything is about some records.
LedgerTyped ==
  \E S : file \in Seq(Lines(S)) /\ memory \in Seq(S) /\ attested \in Seq(S)

\* The types of the flags and counters.
LedgerCounts ==
  held \in BOOLEAN /\ adopted \in BOOLEAN /\ failures \in Nat /\ rewrites \in Nat

\* The digest returned last is that of the last record the object had then.
ReceiptTells ==
  receipt # None => attested # <<>> /\ receipt = RecordHash(Last(attested))

\* Without mishaps the file has whole lines, and the object has them all.
Intact ==
  adopted /\ failures = 0 /\ rewrites = 0 =>
    /\ \A i \in DOMAIN file : file[i].ended
    /\ Verifies /\ (held => memory = Parsed)

\* Without edits, what was acknowledged, and what the object has, is the beginning
\* of every file that verifies.
Kept ==
  rewrites = 0 /\ Verifies =>
    IsPrefix(attested, Parsed) /\ (held => IsPrefix(memory, Parsed))

\* The inductive invariant.
LedgerInv == LedgerTyped /\ LedgerCounts /\ ReceiptTells /\ Intact /\ Kept

\* Lines that are about some records are about any more, too.
LEMMA MoreRecords ==
  ASSUME NEW S, NEW T, S \subseteq T
  PROVE  /\ Lines(S) \subseteq Lines(T) /\ Seq(S) \subseteq Seq(T)
         /\ Seq(Lines(S)) \subseteq Seq(Lines(T))
<1>1. Lines(S) \subseteq Lines(T)
  BY DEF Lines, Texts
<1> QED
  BY <1>1, SeqMonotonic

\* What a write leaves of the invariant, whoever makes it.
LEMMA WriteKeeps ==
  ASSUME LedgerInv, NEW S, file \in Seq(Lines(S)), memory \in Seq(S), attested \in Seq(S),
         NEW x \in Texts(S), NEW e \in BOOLEAN, file' = Written(x, e)
  PROVE  Verifies' =>
           /\ Verifies /\ x # Garbage /\ Parsed' = Append(Parsed, x[1])
           /\ x[1].prev = ExpectedPrev(Parsed)
           /\ rewrites = 0 => /\ IsPrefix(attested, Parsed')
                              /\ held => IsPrefix(memory, Parsed')
<1> SUFFICES ASSUME Verifies' PROVE
           /\ Verifies /\ x # Garbage /\ Parsed' = Append(Parsed, x[1])
           /\ x[1].prev = ExpectedPrev(Parsed)
           /\ rewrites = 0 => /\ IsPrefix(attested, Parsed')
                              /\ held => IsPrefix(memory, Parsed')
  OBVIOUS
<1>1. Opens /\ x # Garbage /\ Parsed' = Append(Parsed, x[1])
  BY WriteEffect DEF Verifies
<1>2. Parsed \in Seq(S) /\ x[1] \in S
  BY <1>1, ParsedType, TextTells
<1>3. VerifyChain(Parsed')
  BY DEF Verifies
<1>4. VerifyChain(Parsed) /\ x[1].prev = ExpectedPrev(Parsed)
  BY <1>1, <1>2, <1>3, ChainAppend
<1>5. Verifies
  BY <1>1, <1>4 DEF Verifies
<1>6. ASSUME rewrites = 0 PROVE IsPrefix(attested, Parsed) /\ (held => IsPrefix(memory, Parsed))
  BY <1>5, <1>6 DEF LedgerInv, Kept
<1> QED
  BY <1>1, <1>2, <1>4, <1>5, <1>6, PrefixGrows

\* An object whose records begin the file, and end like it, has all of it.
LEMMA ObjectHasAll ==
  ASSUME NEW S, memory \in Seq(S), Parsed \in Seq(S), VerifyChain(Parsed),
         IsPrefix(memory, Parsed), ExpectedPrev(memory) = ExpectedPrev(Parsed)
  PROVE  memory = Parsed
<1>0. /\ Len(memory) \in Nat /\ Len(Parsed) \in Nat
      /\ memory = <<>> <=> Len(memory) = 0
      /\ Parsed = <<>> <=> Len(Parsed) = 0
  BY EmptySeq, LenProperties
<1>1. memory = <<>> <=> Parsed = <<>>
  BY Hashes DEF ExpectedPrev
<1>2. CASE memory # <<>>
  <2>1. Last(memory) = Last(Parsed)
    BY <1>1, <1>2, Hashes DEF ExpectedPrev
  <2>2. Len(memory) <= Len(Parsed) /\ \A i \in 1..Len(memory) : memory[i] = Parsed[i]
    BY PrefixElements
  <2>3. DOMAIN memory = 1..Len(memory) /\ DOMAIN Parsed = 1..Len(Parsed)
    BY LenProperties
  <2>4. VerifyChain(memory)
    <3> SUFFICES ASSUME NEW i \in 1..Len(memory)
                 PROVE  /\ memory[i].prev = IF i = 1 THEN None ELSE RecordHash(memory[i - 1])
                        /\ i > 1 => memory[i].round > memory[i - 1].round
      BY <2>3 DEF VerifyChain
    <3>1. i \in 1..Len(Parsed) /\ memory[i] = Parsed[i]
      BY <1>0, <2>2
    <3>2. i > 1 => memory[i - 1] = Parsed[i - 1]
      BY <1>0, <2>2
    <3>3. i # 1 => i > 1
      BY <1>0
    <3> QED
      BY <2>3, <3>1, <3>2, <3>3 DEF VerifyChain
  <2> QED
    BY <1>1, <1>2, <2>1, <2>4, ChainsAgree
<1> QED
  BY <1>1, <1>2

\* An append that returns keeps the invariant.
LEMMA AppendKeepsLedger ==
  ASSUME LedgerInv, NEW asked \in Records, AppendRecord(asked) PROVE LedgerInv'
<1> DEFINE new == Stored(asked)
<1>1. PICK R : file \in Seq(Lines(R)) /\ memory \in Seq(R) /\ attested \in Seq(R)
  BY DEF LedgerInv, LedgerTyped
<1>2. PICK S : S = R \cup {new}
  OBVIOUS
<1>3. file \in Seq(Lines(S)) /\ memory \in Seq(S) /\ attested \in Seq(S) /\ new \in S
  BY <1>1, <1>2, MoreRecords
<1>4. new.prev = ExpectedPrev(memory) /\ new.round = asked.round
  BY DEF Stored, Records
<1>5. /\ held /\ memory' = Append(memory, new) /\ attested' = memory'
      /\ receipt' = RecordHash(new) /\ file' = Written(Line(new), TRUE)
      /\ UNCHANGED <<held, failures, rewrites, adopted>>
      /\ memory # <<>> => asked.round > Last(memory).round
  BY DEF AppendRecord, Appendable
<1> HIDE DEF new
<1>6. Line(new) \in Texts(S) /\ Line(new) # Garbage /\ Line(new)[1] = new
  BY <1>3, LineTells DEF Texts
<1>7. file' \in Seq(Lines(S))
  BY <1>3, <1>5, <1>6, WriteEffect
<1>8. /\ memory' \in Seq(S) /\ memory' # <<>> /\ Last(memory') = new
  BY <1>3, <1>5, AppendProperties DEF Last
<1>9. LedgerTyped' /\ LedgerCounts' /\ ReceiptTells'
  BY <1>5, <1>7, <1>8 DEF LedgerInv, LedgerTyped, LedgerCounts, ReceiptTells
<1>10. Intact'
  <2> SUFFICES ASSUME adopted, failures = 0, rewrites = 0
               PROVE  (\A i \in DOMAIN file' : file'[i].ended) /\ Verifies' /\ memory' = Parsed'
    BY <1>5 DEF Intact
  <2>1. (\A i \in DOMAIN file : file[i].ended) /\ Verifies /\ memory = Parsed
    BY <1>5 DEF LedgerInv, Intact
  <2>2. file = <<>> \/ Last(file).ended
    BY <1>3, <2>1, EmptySeq, LenProperties DEF Last
  <2>3. Opens' /\ Parsed' = Append(Parsed, new)
    BY <1>3, <1>5, <1>6, <2>1, <2>2, WriteEffect DEF Verifies
  <2>4. VerifyChain(Append(memory, new))
    BY <1>3, <1>4, <1>5, <2>1, ChainAppend DEF Verifies
  <2>5. \A i \in DOMAIN file' : file'[i].ended
    <3>1. file' = Append(file, [text |-> Line(new), ended |-> TRUE])
      BY <1>5, <2>2 DEF Written
    <3>2. [text |-> Line(new), ended |-> TRUE] \in Lines(S)
      BY <1>6 DEF Lines
    <3> QED
      BY <1>3, <2>1, <3>1, <3>2, AppendProperties, LenProperties
  <2> QED
    BY <1>5, <2>1, <2>3, <2>4, <2>5 DEF Verifies
<1>11. Kept'
  <2> SUFFICES ASSUME rewrites = 0, Verifies' PROVE memory' = Parsed'
    BY <1>3, <1>5, <1>8, PrefixReflexive DEF Kept
  <2>1. /\ Verifies /\ Parsed' = Append(Parsed, new) /\ new.prev = ExpectedPrev(Parsed)
        /\ IsPrefix(memory, Parsed)
    BY <1>3, <1>5, <1>6, WriteKeeps DEF LedgerInv, Kept
  <2>2. Parsed \in Seq(S)
    BY <1>3, <2>1, ParsedType DEF Verifies
  <2>3. memory = Parsed
    BY <1>3, <1>4, <2>1, <2>2, ObjectHasAll DEF Verifies
  <2> QED
    BY <1>5, <2>1, <2>3
<1> QED
  BY <1>9, <1>10, <1>11 DEF LedgerInv

\* An append that raises keeps it, whatever it left in the file.
LEMMA FailureKeepsLedger ==
  ASSUME LedgerInv, NEW asked \in Records, AppendFails(asked) PROVE LedgerInv'
<1> DEFINE new == Stored(asked)
<1>1. PICK R : file \in Seq(Lines(R)) /\ memory \in Seq(R) /\ attested \in Seq(R)
  BY DEF LedgerInv, LedgerTyped
<1>2. PICK S : S = R \cup {new}
  OBVIOUS
<1>3. file \in Seq(Lines(S)) /\ memory \in Seq(S) /\ attested \in Seq(S) /\ new \in S
  BY <1>1, <1>2, MoreRecords
<1>4. failures' = failures + 1 /\ UNCHANGED <<held, memory, receipt, attested, rewrites, adopted>>
  BY DEF AppendFails
<1>5. UNCHANGED file \/ \E x \in Texts(S), e \in BOOLEAN : file' = Written(x, e)
  BY <1>3 DEF AppendFails, Texts
<1>6. file' \in Seq(Lines(S))
  BY <1>3, <1>5, WriteEffect
<1>7. LedgerTyped' /\ LedgerCounts' /\ ReceiptTells'
  BY <1>3, <1>4, <1>6 DEF LedgerInv, LedgerTyped, LedgerCounts, ReceiptTells
<1>8. Intact'
  BY <1>4 DEF LedgerInv, LedgerCounts, Intact
<1>9. Kept'
  <2>1. CASE UNCHANGED file
    BY <1>4, <2>1 DEF LedgerInv, Kept, Verifies, Opens, Parsed
  <2>2. ASSUME NEW x \in Texts(S), NEW e \in BOOLEAN, file' = Written(x, e) PROVE Kept'
    BY <1>3, <1>4, <2>2, WriteKeeps DEF Kept
  <2> QED
    BY <1>5, <2>1, <2>2
<1> QED
  BY <1>7, <1>8, <1>9 DEF LedgerInv

\* A line edited or removed keeps what is claimed of edited files.
LEMMA RewriteKeepsLedger ==
  ASSUME LedgerInv, NEW asked \in Records, Rewrite(asked) PROVE LedgerInv'
<1>1. PICK R : file \in Seq(Lines(R)) /\ memory \in Seq(R) /\ attested \in Seq(R)
  BY DEF LedgerInv, LedgerTyped
<1>2. PICK S : S = R \cup {asked}
  OBVIOUS
<1>3. file \in Seq(Lines(S)) /\ memory \in Seq(S) /\ attested \in Seq(S) /\ asked \in S
  BY <1>1, <1>2, MoreRecords
<1>4. rewrites' = rewrites + 1 /\ UNCHANGED <<held, memory, receipt, attested, failures, adopted>>
  BY DEF Rewrite
<1>5. file' \in Seq(Lines(S))
  <2>1. ASSUME NEW i \in DOMAIN file PROVE [file EXCEPT ![i].text = Line(asked)] \in Seq(Lines(S))
    <3> DEFINE line == [file[i] EXCEPT !.text = Line(asked)]
    <3>1. i \in 1..Len(file) /\ file[i] \in Lines(S)
      BY <1>3, <2>1, LenProperties, ElementOfSeq
    <3>2. line \in Lines(S)
      BY <1>3, <3>1 DEF Lines, Texts
    <3>3. [file EXCEPT ![i].text = Line(asked)] = [file EXCEPT ![i] = line]
      BY <1>3, <3>1
    <3> QED
      BY <1>3, <3>1, <3>2, <3>3, ExceptSeq
  <2>2. ASSUME NEW n \in 0..(Len(file) - 1) PROVE SubSeq(file, 1, n) \in Seq(Lines(S))
    <3>1. Len(file) \in Nat
      BY <1>3, LenProperties
    <3>2. \A i \in 1..n : i \in 1..Len(file)
      BY <3>1
    <3> QED
      BY <1>3, <3>2, SubSeqProperties
  <2> QED
    BY <2>1, <2>2 DEF Rewrite
<1>6. LedgerTyped' /\ LedgerCounts' /\ ReceiptTells'
  BY <1>3, <1>4, <1>5 DEF LedgerInv, LedgerTyped, LedgerCounts, ReceiptTells
<1>7. Intact' /\ Kept'
  BY <1>4 DEF LedgerInv, LedgerCounts, Intact, Kept
<1> QED
  BY <1>6, <1>7 DEF LedgerInv

\* The empty file and no object satisfy the invariant.
LEMMA InitLedgerInv == LedgerInit => LedgerInv
<1> SUFFICES ASSUME LedgerInit PROVE LedgerInv
  OBVIOUS
<1>1. file = <<>> /\ memory = <<>> /\ attested = <<>> /\ DOMAIN file = {}
  BY DEF LedgerInit
<1>2. file \in Seq(Lines({})) /\ memory \in Seq({}) /\ attested \in Seq({})
  BY <1>1, EmptySeq
<1>3. LedgerTyped
  BY <1>2 DEF LedgerTyped
<1>4. LedgerCounts /\ ReceiptTells
  BY DEF LedgerInit, LedgerCounts, ReceiptTells
<1>5. Opens /\ Parsed \in Seq({}) /\ Len(Parsed) = 0
  BY <1>1, <1>2, ParsedType, EmptySeq DEF Opens
<1>6. Parsed = <<>>
  BY <1>5, EmptySeq, LenProperties
<1>7. Verifies
  BY <1>1, <1>5, <1>6 DEF Verifies, VerifyChain
<1>8. Intact
  BY <1>1, <1>7 DEF LedgerInit, Intact
<1>9. Kept
  BY <1>1, <1>5, <1>6, PrefixReflexive DEF LedgerInit, Kept
<1> QED
  BY <1>3, <1>4, <1>8, <1>9 DEF LedgerInv

\* Objects come and go: an object that is opened has what the file holds.
LEMMA ObjectsKeepLedger ==
  ASSUME LedgerInv, Open \/ Construct \/ Leave \/ UNCHANGED ledgerVars PROVE LedgerInv'
<1>1. PICK S : file \in Seq(Lines(S)) /\ memory \in Seq(S) /\ attested \in Seq(S)
  BY DEF LedgerInv, LedgerTyped
<1>2. /\ UNCHANGED <<file, receipt, attested, failures, rewrites>>
      /\ adopted' => adopted
      /\ adopted' \in BOOLEAN /\ held' \in BOOLEAN
  <2>1. UNCHANGED <<file, receipt, attested, failures, rewrites>> /\ held' \in BOOLEAN
    BY DEF LedgerInv, LedgerCounts, Open, Construct, Leave, ledgerVars
  <2>2. UNCHANGED adopted \/ adopted' = (adopted /\ file = <<>>)
    BY DEF Open, Construct, Leave, ledgerVars
  <2>3. (adopted' => adopted) /\ adopted' \in BOOLEAN
    <3>1. adopted \in BOOLEAN
      BY DEF LedgerInv, LedgerCounts
    <3>2. CASE UNCHANGED adopted
      BY <3>1, <3>2
    <3>3. CASE adopted' = (adopted /\ file = <<>>)
      BY <3>3, Zenon
    <3> QED
      BY <2>2, <3>2, <3>3
  <2> QED
    BY <2>1, <2>3
<1>3. UNCHANGED Parsed /\ (Verifies' <=> Verifies)
  BY <1>2 DEF Parsed, Verifies, Opens
<1>4. \/ UNCHANGED <<held, memory>>
      \/ held' /\ Opens /\ memory' = Parsed
      \/ held' /\ memory' = <<>> /\ (adopted' => file = <<>>)
      \/ ~ held' /\ memory' = <<>>
  BY DEF Open, Construct, Leave, ledgerVars
<1>5. Opens => Parsed \in Seq(S) /\ Len(Parsed) = Len(file)
  BY <1>1, ParsedType
<1>6. memory' \in Seq(S)
  BY <1>1, <1>4, <1>5, EmptySeq
<1>7. LedgerTyped' /\ LedgerCounts' /\ ReceiptTells'
  BY <1>1, <1>2, <1>6 DEF LedgerInv, LedgerTyped, LedgerCounts, ReceiptTells
<1>8. Intact'
  <2> SUFFICES ASSUME adopted', failures = 0, rewrites = 0, held' PROVE memory' = Parsed
    BY <1>2, <1>3 DEF LedgerInv, Intact
  <2>1. Verifies /\ (held => memory = Parsed)
    BY <1>2 DEF LedgerInv, Intact
  <2>2. CASE file = <<>> /\ memory' = <<>>
    BY <1>5, <2>1, <2>2, EmptySeq, LenProperties DEF Verifies
  <2> QED
    BY <1>2, <1>4, <2>1, <2>2
<1>9. Kept'
  <2> SUFFICES ASSUME rewrites = 0, Verifies, held' PROVE IsPrefix(memory', Parsed)
    BY <1>2, <1>3 DEF LedgerInv, Kept
  <2>1. held => IsPrefix(memory, Parsed)
    BY DEF LedgerInv, Kept
  <2>2. IsPrefix(Parsed, Parsed) /\ IsPrefix(<<>>, Parsed)
    <3>1. Parsed \in Seq(S)
      BY <1>5 DEF Verifies
    <3> QED
      BY <3>1, EmptySeq, PrefixReflexive
  <2> QED
    BY <1>4, <2>1, <2>2
<1> QED
  BY <1>7, <1>8, <1>9 DEF LedgerInv

\* LedgerInv is an invariant.
LEMMA AlwaysLedgerInv == LedgerSpec => []LedgerInv
<1>1. LedgerInv /\ [LedgerNext]_ledgerVars => LedgerInv'
  BY AppendKeepsLedger, FailureKeepsLedger, RewriteKeepsLedger, ObjectsKeepLedger DEF LedgerNext
<1> QED
  BY <1>1, InitLedgerInv, PTL DEF LedgerSpec

\* The digest an append returned fixes the whole history: a file that verifies and
\* ends with a record of that digest is what the object had then, for any number of
\* records, objects, failed writes and edits.
THEOREM ReceiptFixes == LedgerSpec => []ReceiptFixesHistory
<1>1. ASSUME LedgerInv, Audited PROVE Parsed = attested
  <2>1. PICK S : file \in Seq(Lines(S)) /\ attested \in Seq(S)
    BY <1>1 DEF LedgerInv, LedgerTyped
  <2>2. Parsed \in Seq(S) /\ Len(Parsed) = Len(file)
    BY <1>1, <2>1, ParsedType DEF Audited, Verifies
  <2>3. Parsed # <<>>
    BY <1>1, <2>1, <2>2, EmptySeq, LenProperties DEF Audited
  <2>4. attested # <<>> /\ Last(Parsed) = Last(attested)
    BY <1>1, Hashes DEF LedgerInv, ReceiptTells, Audited
  <2> QED
    BY <1>1, <2>1, <2>2, <2>3, <2>4, ChainsAgree DEF Audited, Verifies
<1>2. LedgerInv => ReceiptFixesHistory
  BY <1>1 DEF ReceiptFixesHistory
<1> QED
  BY <1>2, AlwaysLedgerInv, PTL

\* Without edits and failed writes the file verifies, and the object has exactly it.
THEOREM IntactVerifies == LedgerSpec => []IntactLedgerVerifies
<1>1. LedgerInv => IntactLedgerVerifies
  BY DEF LedgerInv, Intact, IntactLedgerVerifies
<1> QED
  BY <1>1, AlwaysLedgerInv, PTL

\* Without edits a file that verifies begins with all that was acknowledged last, also
\* after failed writes and objects that began empty over it.
THEOREM AcknowledgedStays == LedgerSpec => []AcknowledgedIsKept
<1>1. LedgerInv => AcknowledgedIsKept
  BY DEF LedgerInv, Kept, AcknowledgedIsKept
<1> QED
  BY <1>1, AlwaysLedgerInv, PTL
\* Every data set is settled by its root.
LEMMA AllSettled == Unsettled = {}
<1> SUFFICES ASSUME NEW data \in DataSets, CommitDataset(data) # Refused
             PROVE  Settles(CommitDataset(data), data)
  BY DEF Unsettled
<1>1. \A d \in DataSets \cup Claims : d \in Seq(Episode) /\ d # <<>>
  BY LedgerAssumption
<1>2. PICK root : root = CommitDataset(data)
  OBVIOUS
<1>3. root = MerkleRoot(data)
  BY <1>2 DEF CommitDataset
<1>4. \A k \in DOMAIN data : VerifyInclusion(ProveInclusion(data, k), root)
  BY <1>1, <1>3, ProofsTell
<1>5. ASSUME NEW claim \in Claims, MerkleRoot(claim) = root
      PROVE  Sorted(claim) = Sorted(data)
  BY <1>1, <1>3, <1>5, RootTells
<1>6. ASSUME NEW claim \in Claims, CommitDataset(claim) = root
      PROVE  Sorted(claim) = Sorted(data)
  <2>1. MerkleRoot(claim) = root
    BY <1>2, <1>6 DEF CommitDataset
  <2> QED
    BY <1>5, <2>1
<1>7. ASSUME NEW claim \in Claims, NEW k \in DOMAIN claim,
             VerifyInclusion(ProveInclusion(claim, k), root)
      PROVE  claim[k] \in Range(data)
  <2>1. claim \in Seq(Episode) /\ data \in Seq(Episode)
    BY <1>1
  <2>2. Sorted(claim) = Sorted(data)
    <3>1. MerkleRoot(claim) = root
      BY <1>7, <2>1, ProofsTell
    <3> QED
      BY <1>5, <3>1
  <2>3. PICK s : s = Sorted(claim)
    OBVIOUS
  <2>4. PICK n : n = SortedIndex(claim, k)
    OBVIOUS
  <2>5. n \in 1 .. Len(claim) /\ s[n] = claim[k] /\ Len(s) = Len(claim)
    <3>1. k \in 1 .. Len(claim)
      BY <2>1, LenProperties
    <3> QED
      BY <2>1, <2>3, <2>4, <3>1, SortedPermutes
  <2>6. Len(s) = Len(data) /\ \A m \in 1 .. Len(data) : \E j \in 1 .. Len(data) : s[m] = data[j]
    <3>1. s = Sorted(data)
      BY <2>2, <2>3
    <3> QED
      BY <2>1, <3>1, SortedPermutes
  <2>7. PICK j \in DOMAIN data : claim[k] = data[j]
    BY <2>1, <2>5, <2>6, LenProperties
  <2> QED
    BY <2>7 DEF Range
<1> QED
  BY <1>2, <1>4, <1>6, <1>7 DEF Settles

\* An auditor can tell each record's data set: the file says what was attested, and
\* the root in a record is accepted with the proofs of the episodes it was made of and
\* with no others, for data sets of any number of episodes.
THEOREM AuditTells == LedgerSpec => []AuditTellsData
<1>1. ReceiptFixesHistory => AuditTellsData
  <2> SUFFICES ASSUME ReceiptFixesHistory, Audited, NEW i \in DOMAIN attested, NEW data \in DataSets,
                      CommitDataset(data) = attested[i].root
               PROVE  Parsed[i].root = attested[i].root /\ data \notin Unsettled
    BY DEF AuditTellsData
  <2>1. Parsed = attested
    BY DEF ReceiptFixesHistory
  <2> QED
    BY <2>1, AllSettled
<1> QED
  BY <1>1, ReceiptFixes, PTL

-----------------------------------------------------------------------------
(***************************************************************************)
(* From runs to the evidence bundle.                                       *)
(***************************************************************************)
\* The long-run reports there may be.
Reports == [run: AnyRun, schema: {1, 2}, status: Statuses, completed: BOOLEAN]

\* The types of the variables.
EvidenceTyped ==
  /\ stage \in [Places -> {"idle", "train", "manifest", "report"}]
  /\ running \in [Places -> AnyRun \cup {Absent}]
  /\ closed \in [Places -> BOOLEAN]
  /\ runs \in Nat
  /\ dir \in [Places -> [manifest: Manifests \cup {Absent}, checkpoint: Models \cup {Absent}]]
  /\ longRun \in [Places -> Reports \cup {Absent, Cut}]
  /\ evalReport \in EvalReports \cup {Cut}
  /\ observability \in Observabilities \cup {Cut}
  /\ bundler \in [place: Places, publication: Publications] \cup {Absent}

\* A run under way is one of its place, by the corrected build and, the launcher's,
\* started at a time that has come.
UnderWay ==
  \A p \in Places : stage[p] # "idle" =>
    /\ running[p] \in AnyRun
    /\ running[p].place = p /\ running[p].build # Legacy
    /\ p = "launcher" => running[p].at <= runs

\* Historical are the runs before the correction, and no others.
StatusTells(run, status) == run.build = Legacy <=> status = "historical"

\* Every report that can be read has the status of its run; a launcher's report is of
\* a run by the corrected build, started before the one under way.
ReportsTell ==
  /\ \A p \in Places : Readable(longRun[p]) =>
       /\ longRun[p].run.place = p
       /\ StatusTells(longRun[p].run, Status(longRun[p]))
       /\ p = "launcher" => /\ longRun[p].run.build # Legacy /\ longRun[p].run.at <= runs
                            /\ stage[p] # "idle" => longRun[p].run.at < running[p].at
  /\ Readable(evalReport) => StatusTells(evalReport.run, evalReport.status)
  /\ Readable(observability) => StatusTells(observability.run, observability.status)

\* How far the run under way came in its directory, where a run that closed all its
\* rounds found no old checkpoint; and what a launcher's directory holds beside the
\* manifest that the report of a completed run names is that run's model.
DirTells ==
  \A p \in Places :
    /\ stage[p] \in {"train", "manifest"} => dir[p].manifest = Absent
    /\ stage[p] \in {"manifest", "report"} /\ closed[p] =>
         dir[p].checkpoint \in {Absent, ModelHash(running[p])}
    /\ stage[p] = "report" => dir[p].manifest = ManifestHash(running[p])
    /\ /\ p = "launcher" /\ Readable(longRun[p]) /\ longRun[p].completed
       /\ dir[p].manifest = ManifestHash(longRun[p].run)
       => dir[p].checkpoint \in {Absent, ModelHash(longRun[p].run)}

\* The inductive invariant.
EvidenceInv ==
  /\ EvidenceTyped /\ UnderWay /\ ReportsTell /\ DirTells
  /\ CurrentIsCorrected /\ LauncherCheckpointIsReports
-----------------------------------------------------------------------------
\* Manifest and model of a run have a hash, which is no missing file.
LEMMA HashTypes ==
  ASSUME NEW r \in AnyRun
  PROVE  /\ ManifestHash(r) \in Manifests /\ ManifestHash(r) # Absent
         /\ ModelHash(r) \in Models /\ ModelHash(r) # Absent
<1>1. ManifestHash(r) \in Manifests
  BY DEF ManifestHash, Manifests, AnyRun
<1>2. ModelHash(r) \in Models
  BY DEF ModelHash, Models, AnyRun
<1> QED
  BY <1>1, <1>2, EvidenceAssumption DEF EvidenceAssumption

\* A run that is started is a run.
LEMMA NewRun ==
  ASSUME NEW p \in Places, NEW c \in Config, NEW b \in Nat, NEW n \in Nat
  PROVE  Run(p, c, b, n) \in AnyRun
BY DEF Run, AnyRun

\* The report of a run is a report.
LEMMA ReportTypes ==
  ASSUME NEW r \in AnyRun, NEW completed \in BOOLEAN
  PROVE  Report(r, completed) \in Reports
BY DEF Report, Reports, Statuses

\* An eval report built from a report is one.
LEMMA EvalTypes ==
  ASSUME NEW rep \in Reports, NEW given \in SUBSET Controls
  PROVE  EvalOf(rep, given) \in EvalReports
BY DEF EvalOf, EvalReports, Reports, Status, Statuses

\* So is an observability report, its links being rows of the eval report.
LEMMA ObservabilityTypes ==
  ASSUME NEW rep \in Reports, NEW e \in EvalReports
  PROVE  ObservabilityOf(rep, e) \in Observabilities
<1>1. rep.run \in AnyRun /\ e.run \in AnyRun /\ e.controls \subseteq Controls
  BY DEF Reports, EvalReports
<1>2. OwnRow(e.run) \in OwnRows
  BY <1>1, HashTypes DEF OwnRow, OwnRows, AnyRun
<1>3. Links(rep, e) \subseteq OwnRows \cup Controls
  BY <1>1, <1>2 DEF Links, Rows
<1>4. Status(rep) \in Statuses
  BY DEF Status, Statuses, Reports
<1> QED
  BY <1>1, <1>3, <1>4 DEF ObservabilityOf, Observabilities

\* A file that can be read is one of its kind.
LEMMA ReadableFiles ==
  ASSUME EvidenceTyped
  PROVE  /\ \A p \in Places : Readable(longRun[p]) => longRun[p] \in Reports
         /\ Readable(evalReport) => evalReport \in EvalReports
         /\ Readable(observability) => observability \in Observabilities
         /\ Readable(bundler) => bundler.place \in Places
BY DEF EvidenceTyped, Readable

\* The checked-in evidence satisfies the invariant.
LEMMA InitEvidenceInv == EvidenceInit => EvidenceInv
<1> SUFFICES ASSUME EvidenceInit PROVE EvidenceInv
  OBVIOUS
<1> DEFINE old == Run("smoke", LegacyConfig, Legacy, 0)
           rep == Report(old, TRUE)
           e   == EvalOf(rep, {})
<1>1. old \in AnyRun /\ old.place = "smoke" /\ old.build = Legacy
  BY DEF Run, AnyRun, Places, Legacy
<1> HIDE DEF old
<1>2. rep \in Reports /\ rep.run = old /\ Status(rep) = "historical"
  BY <1>1, ReportTypes DEF Report, Status, Legacy
<1> HIDE DEF rep
<1>3. e \in EvalReports /\ e.run = old /\ e.status = "historical"
  BY <1>2, EvalTypes DEF EvalOf
<1> HIDE DEF e
<1>4. /\ ObservabilityOf(rep, e) \in Observabilities
      /\ ObservabilityOf(rep, e).run = old
      /\ ObservabilityOf(rep, e).status = "historical"
  BY <1>2, <1>3, ObservabilityTypes DEF ObservabilityOf
<1>5. /\ stage = [p \in Places |-> "idle"] /\ running = [p \in Places |-> Absent]
      /\ runs = 0 /\ closed = [p \in Places |-> FALSE]
      /\ longRun = [p \in Places |-> IF p = "smoke" THEN rep ELSE Absent]
      /\ evalReport = e /\ observability = ObservabilityOf(rep, e) /\ bundler = Absent
      /\ bundle.run = old /\ bundle.evaluated = old /\ bundle.observed = old
      /\ bundle.publication = "historical"
  BY <1>2, <1>3, <1>4 DEF EvidenceInit, Bundle, old, rep, e
<1>6. dir \in [Places -> [manifest: Manifests \cup {Absent}, checkpoint: Models \cup {Absent}]]
  BY <1>1, HashTypes DEF EvidenceInit, NoRun, old
<1>7. EvidenceTyped
  BY <1>2, <1>3, <1>4, <1>5, <1>6 DEF EvidenceTyped
<1>8. UnderWay /\ DirTells
  BY <1>5, EvidenceAssumption DEF UnderWay, DirTells, Readable, Places, EvidenceAssumption
<1>9. ReportsTell
  BY <1>1, <1>2, <1>3, <1>4, <1>5 DEF ReportsTell, StatusTells, Readable, Places
<1>10. CurrentIsCorrected /\ LauncherCheckpointIsReports
  BY <1>1, <1>5 DEF CurrentIsCorrected, LauncherCheckpointIsReports
<1> QED
  BY <1>7, <1>8, <1>9, <1>10 DEF EvidenceInv
-----------------------------------------------------------------------------
\* The properties of the bundle are about the bundle alone.
LEMMA BundleStays ==
  ASSUME EvidenceInv, UNCHANGED bundle
  PROVE  CurrentIsCorrected' /\ LauncherCheckpointIsReports'
BY DEF EvidenceInv, CurrentIsCorrected, LauncherCheckpointIsReports

\* A run that starts clears its directory, and is later than every report of the
\* launcher.
LEMMA StartKeeps ==
  ASSUME EvidenceInv, NEW p \in Places, StartRun(p)
  PROVE  EvidenceInv'
<1>0. EvidenceTyped /\ UnderWay /\ ReportsTell /\ DirTells
  BY DEF EvidenceInv
<1>1. PICK c \in Config, b \in Builds :
        running' = [running EXCEPT ![p] = Run(p, c, b, runs')]
  BY DEF StartRun
<1>2. /\ stage[p] = "idle" /\ runs \in Nat /\ runs' = runs + 1
      /\ stage' = [stage EXCEPT ![p] = "train"] /\ closed' = [closed EXCEPT ![p] = FALSE]
      /\ UNCHANGED <<longRun, evalReport, observability, bundler, contracts, bundle>>
  BY <1>0 DEF StartRun, EvidenceTyped
<1>3. /\ b \in Nat /\ b # Legacy
      /\ Run(p, c, b, runs') \in AnyRun
      /\ Run(p, c, b, runs').place = p /\ Run(p, c, b, runs').build = b
      /\ p = "launcher" => Run(p, c, b, runs').at = runs + 1
  <2>1. b \in Nat /\ b # Legacy
    BY EvidenceAssumption DEF EvidenceAssumption
  <2>2. runs' \in Nat
    BY <1>2
  <2>3. Run(p, c, b, runs') \in AnyRun
    BY <2>1, <2>2, NewRun
  <2>4. /\ Run(p, c, b, runs').place = p /\ Run(p, c, b, runs').build = b
        /\ p = "launcher" => Run(p, c, b, runs').at = runs'
    BY DEF Run
  <2> QED
    BY <1>2, <2>1, <2>3, <2>4
<1>9. PICK left \in {Absent, dir[p].checkpoint} :
        dir' = [dir EXCEPT ![p] = [manifest |-> Absent, checkpoint |-> left]]
  BY DEF StartRun
<1>10. left \in Models \cup {Absent}
  BY <1>0, <1>9 DEF EvidenceTyped
<1>4. EvidenceTyped'
  BY <1>0, <1>1, <1>2, <1>3, <1>9, <1>10 DEF EvidenceTyped
<1>5. /\ running'[p] = Run(p, c, b, runs') /\ stage'[p] = "train"
      /\ dir'[p].manifest = Absent
      /\ \A q \in Places : q # p =>
           /\ running'[q] = running[q] /\ stage'[q] = stage[q]
           /\ closed'[q] = closed[q] /\ dir'[q] = dir[q]
  BY <1>0, <1>1, <1>2, <1>9 DEF EvidenceTyped
<1>6. UnderWay'
  <2> SUFFICES ASSUME NEW q \in Places, stage'[q] # "idle"
               PROVE  /\ running'[q] \in AnyRun
                      /\ running'[q].place = q /\ running'[q].build # Legacy
                      /\ q = "launcher" => running'[q].at <= runs'
    BY DEF UnderWay
  <2>1. CASE q = p
    BY <1>2, <1>3, <1>5, <2>1
  <2>2. CASE q # p
    <3>1. running[q] \in AnyRun /\ running[q].at \in Nat
      BY <1>0, <1>5, <2>2 DEF UnderWay, AnyRun
    <3> QED
      BY <1>0, <1>2, <1>5, <2>2, <3>1 DEF UnderWay
  <2> QED
    BY <2>1, <2>2
<1>7. ReportsTell'
  <2> SUFFICES ASSUME NEW q \in Places, Readable(longRun[q])
               PROVE  q = "launcher" => /\ longRun[q].run.at <= runs'
                                        /\ stage'[q] # "idle" =>
                                             longRun[q].run.at < running'[q].at
    BY <1>0, <1>2 DEF ReportsTell, StatusTells, Readable
  <2>1. longRun[q].run.at \in Nat
    BY <1>0, ReadableFiles DEF Reports, AnyRun
  <2>2. q = "launcher" => longRun[q].run.at <= runs
    BY <1>0 DEF ReportsTell
  <2>3. CASE q = p
    BY <1>2, <1>3, <1>5, <2>1, <2>2, <2>3
  <2>4. CASE q # p
    BY <1>0, <1>2, <1>5, <2>1, <2>2, <2>4 DEF ReportsTell
  <2> QED
    BY <2>3, <2>4
<1>8. DirTells'
  <2> SUFFICES ASSUME NEW q \in Places
               PROVE  /\ stage'[q] \in {"train", "manifest"} => dir'[q].manifest = Absent
                      /\ stage'[q] \in {"manifest", "report"} /\ closed'[q] =>
                           dir'[q].checkpoint \in {Absent, ModelHash(running'[q])}
                      /\ stage'[q] = "report" => dir'[q].manifest = ManifestHash(running'[q])
                      /\ /\ q = "launcher" /\ Readable(longRun[q]) /\ longRun[q].completed
                         /\ dir'[q].manifest = ManifestHash(longRun[q].run)
                         => dir'[q].checkpoint \in {Absent, ModelHash(longRun[q].run)}
    BY <1>2 DEF DirTells, Readable
  <2>1. CASE q = p
    <3>1. Readable(longRun[q]) => Absent # ManifestHash(longRun[q].run)
      BY <1>0, ReadableFiles, HashTypes DEF Reports
    <3> QED
      BY <1>5, <2>1, <3>1
  <2>2. CASE q # p
    BY <1>0, <1>5, <2>2 DEF DirTells
  <2> QED
    BY <2>1, <2>2
<1> QED
  BY <1>2, <1>4, <1>6, <1>7, <1>8, BundleStays DEF EvidenceInv

\* The rounds and the run manifest.
LEMMA RoundsKeep ==
  ASSUME EvidenceInv, NEW p \in Places, TrainRounds(p) \/ WriteManifest(p)
  PROVE  EvidenceInv'
<1>0. EvidenceTyped /\ UnderWay /\ ReportsTell /\ DirTells
  BY DEF EvidenceInv
<1>1. /\ stage[p] # "idle"
      /\ UNCHANGED <<running, runs, longRun, evalReport, observability, bundler, contracts,
                     bundle>>
  BY DEF TrainRounds, WriteManifest
<1>2. running[p] \in AnyRun /\ dir[p].manifest = Absent
  BY <1>0 DEF UnderWay, DirTells, TrainRounds, WriteManifest
<1>3. PICK d \in [manifest: Manifests \cup {Absent}, checkpoint: Models \cup {Absent}] :
        /\ dir' = [dir EXCEPT ![p] = d]
        /\ closed' \in [Places -> BOOLEAN]
        /\ closed'[p] => d.checkpoint \in {Absent, ModelHash(running[p])}
        /\ \A q \in Places : q # p => closed'[q] = closed[q]
        /\ \/ /\ stage' = [stage EXCEPT ![p] = "manifest"]
              /\ d.manifest = Absent
           \/ /\ stage' = [stage EXCEPT ![p] = "report"]
              /\ d.manifest = ManifestHash(running[p])
  <2>0. dir[p] \in [manifest: Manifests \cup {Absent}, checkpoint: Models \cup {Absent}]
    BY <1>0 DEF EvidenceTyped
  <2>1. CASE TrainRounds(p)
    <3>1. PICK all \in BOOLEAN :
            /\ closed' = [closed EXCEPT ![p] = all]
            /\ dir' = IF all THEN [dir EXCEPT ![p].checkpoint = ModelHash(running[p])] ELSE dir
      BY <2>1 DEF TrainRounds
    <3> DEFINE d == IF all THEN [dir[p] EXCEPT !.checkpoint = ModelHash(running[p])] ELSE dir[p]
    <3>2. /\ d \in [manifest: Manifests \cup {Absent}, checkpoint: Models \cup {Absent}]
          /\ all => d.checkpoint = ModelHash(running[p])
          /\ d.manifest = Absent
      BY <1>2, <2>0, HashTypes
    <3>3. dir' = [dir EXCEPT ![p] = d]
      BY <1>0, <3>1 DEF EvidenceTyped
    <3>5. /\ closed' \in [Places -> BOOLEAN] /\ closed'[p] = all
          /\ \A q \in Places : q # p => closed'[q] = closed[q]
      BY <1>0, <3>1 DEF EvidenceTyped
    <3>4. stage' = [stage EXCEPT ![p] = "manifest"]
      BY <2>1 DEF TrainRounds
    <3> HIDE DEF d
    <3> QED
      BY <3>2, <3>3, <3>4, <3>5
  <2>2. CASE WriteManifest(p)
    <3> DEFINE d == [dir[p] EXCEPT !.manifest = ManifestHash(running[p])]
    <3>1. /\ closed' = closed /\ closed' \in [Places -> BOOLEAN]
          /\ closed[p] => dir[p].checkpoint \in {Absent, ModelHash(running[p])}
      BY <1>0, <2>2 DEF DirTells, WriteManifest, EvidenceTyped
    <3>2. /\ d \in [manifest: Manifests \cup {Absent}, checkpoint: Models \cup {Absent}]
          /\ d.checkpoint = dir[p].checkpoint /\ d.manifest = ManifestHash(running[p])
      BY <1>2, <2>0, HashTypes
    <3>3. dir' = [dir EXCEPT ![p] = d]
      BY <1>0, <2>2 DEF EvidenceTyped, WriteManifest
    <3>4. stage' = [stage EXCEPT ![p] = "report"]
      BY <2>2 DEF WriteManifest
    <3> HIDE DEF d
    <3> QED
      BY <3>1, <3>2, <3>3, <3>4
  <2> QED
    BY <2>1, <2>2
<1>4. EvidenceTyped'
  BY <1>0, <1>1, <1>3 DEF EvidenceTyped
<1>5. /\ dir'[p] = d /\ stage'[p] \in {"manifest", "report"}
      /\ stage'[p] = "manifest" => d.manifest = Absent
      /\ stage'[p] = "report" => d.manifest = ManifestHash(running[p])
      /\ \A q \in Places : q # p => stage'[q] = stage[q] /\ dir'[q] = dir[q]
  BY <1>0, <1>3 DEF EvidenceTyped
<1>6. UnderWay'
  BY <1>0, <1>1, <1>5 DEF UnderWay
<1>7. ReportsTell'
  BY <1>0, <1>1, <1>5 DEF ReportsTell, StatusTells, Readable
<1>8. DirTells'
  <2> SUFFICES ASSUME NEW q \in Places
               PROVE  /\ stage'[q] \in {"train", "manifest"} => dir'[q].manifest = Absent
                      /\ stage'[q] \in {"manifest", "report"} /\ closed'[q] =>
                           dir'[q].checkpoint \in {Absent, ModelHash(running[q])}
                      /\ stage'[q] = "report" => dir'[q].manifest = ManifestHash(running[q])
                      /\ /\ q = "launcher" /\ Readable(longRun[q]) /\ longRun[q].completed
                         /\ dir'[q].manifest = ManifestHash(longRun[q].run)
                         => dir'[q].checkpoint \in {Absent, ModelHash(longRun[q].run)}
    BY <1>1 DEF DirTells, Readable
  <2>1. CASE q = p
    <3>1. ASSUME q = "launcher", Readable(longRun[q]), stage'[q] = "report"
          PROVE  d.manifest # ManifestHash(longRun[q].run)
      <4>1. longRun[q].run \in AnyRun
        BY <1>0, <3>1, ReadableFiles DEF Reports
      <4>2. longRun[q].run.at < running[q].at
        BY <1>0, <1>1, <2>1, <3>1 DEF ReportsTell
      <4>3. longRun[q].run.at \in Nat /\ running[q].at \in Nat
        BY <1>2, <2>1, <4>1 DEF AnyRun
      <4> QED
        BY <1>5, <2>1, <3>1, <4>2, <4>3 DEF ManifestHash
    <3>2. ASSUME Readable(longRun[q])
          PROVE  Absent # ManifestHash(longRun[q].run)
      BY <1>0, <3>2, ReadableFiles, HashTypes DEF Reports
    <3> QED
      BY <1>3, <1>5, <2>1, <3>1, <3>2
  <2>2. CASE q # p
    BY <1>0, <1>3, <1>5, <2>2 DEF DirTells
  <2> QED
    BY <2>1, <2>2
<1> QED
  BY <1>1, <1>4, <1>6, <1>7, <1>8, BundleStays DEF EvidenceInv

\* A report that is written is of the run that filled the directory.
LEMMA ReportKeeps ==
  ASSUME EvidenceInv, NEW p \in Places, WriteReport(p)
  PROVE  EvidenceInv'
<1>0. EvidenceTyped /\ UnderWay /\ ReportsTell /\ DirTells
  BY DEF EvidenceInv
<1>1. /\ stage[p] = "report" /\ longRun' = [longRun EXCEPT ![p] = Report(running[p], closed[p])]
      /\ stage' = [stage EXCEPT ![p] = "idle"] /\ running' = [running EXCEPT ![p] = Absent]
      /\ UNCHANGED <<closed, runs, dir, evalReport, observability, bundler, contracts, bundle>>
  BY DEF WriteReport
<1>2. /\ running[p] \in AnyRun /\ running[p].place = p /\ running[p].build # Legacy
      /\ p = "launcher" => running[p].at <= runs
  BY <1>0, <1>1 DEF UnderWay
<1>3. Report(running[p], closed[p]) \in Reports
  BY <1>0, <1>2, ReportTypes DEF EvidenceTyped
<1>4. EvidenceTyped'
  BY <1>0, <1>1, <1>3 DEF EvidenceTyped
<1>5. /\ longRun'[p] = Report(running[p], closed[p]) /\ stage'[p] = "idle"
      /\ \A q \in Places : q # p => /\ stage'[q] = stage[q] /\ longRun'[q] = longRun[q]
                                   /\ running'[q] = running[q]
  BY <1>0, <1>1 DEF EvidenceTyped
<1>6. UnderWay'
  BY <1>0, <1>1, <1>5 DEF UnderWay
<1>7. /\ Report(running[p], closed[p]).run = running[p]
      /\ Report(running[p], closed[p]).completed = closed[p]
      /\ Status(Report(running[p], closed[p])) = "current"
  BY <1>2 DEF Report, Status
<1>8. ReportsTell'
  <2> SUFFICES ASSUME NEW q \in Places, Readable(longRun'[q])
               PROVE  /\ longRun'[q].run.place = q
                      /\ StatusTells(longRun'[q].run, Status(longRun'[q]))
                      /\ q = "launcher" =>
                           /\ longRun'[q].run.build # Legacy /\ longRun'[q].run.at <= runs
                           /\ stage'[q] # "idle" => longRun'[q].run.at < running'[q].at
    BY <1>0, <1>1 DEF ReportsTell, StatusTells, Readable
  <2>1. CASE q = p
    BY <1>2, <1>5, <1>7, <2>1 DEF StatusTells
  <2>2. CASE q # p
    BY <1>0, <1>5, <2>2 DEF ReportsTell, Readable
  <2> QED
    BY <2>1, <2>2
<1>9. DirTells'
  <2> SUFFICES ASSUME NEW q \in Places
               PROVE  /\ stage'[q] \in {"train", "manifest"} => dir[q].manifest = Absent
                      /\ stage'[q] \in {"manifest", "report"} /\ closed[q] =>
                           dir[q].checkpoint \in {Absent, ModelHash(running'[q])}
                      /\ stage'[q] = "report" => dir[q].manifest = ManifestHash(running'[q])
                      /\ /\ q = "launcher" /\ Readable(longRun'[q]) /\ longRun'[q].completed
                         /\ dir[q].manifest = ManifestHash(longRun'[q].run)
                         => dir[q].checkpoint \in {Absent, ModelHash(longRun'[q].run)}
    BY <1>1 DEF DirTells, Readable
  <2>1. CASE q = p
    BY <1>0, <1>1, <1>5, <1>7, <2>1 DEF DirTells
  <2>2. CASE q # p
    BY <1>0, <1>5, <2>2 DEF DirTells, Readable
  <2> QED
    BY <2>1, <2>2
<1> QED
  BY <1>1, <1>4, <1>6, <1>8, <1>9, BundleStays DEF EvidenceInv

\* A run that dies leaves the directory as it is and no whole report of its own.
LEMMA DeathKeeps ==
  ASSUME EvidenceInv, NEW p \in Places, RunDies(p)
  PROVE  EvidenceInv'
<1>0. EvidenceTyped /\ UnderWay /\ ReportsTell /\ DirTells
  BY DEF EvidenceInv
<1>1. /\ stage' = [stage EXCEPT ![p] = "idle"] /\ running' = [running EXCEPT ![p] = Absent]
      /\ longRun' \in {longRun, [longRun EXCEPT ![p] = Cut]}
      /\ UNCHANGED <<closed, runs, dir, evalReport, observability, bundler, contracts, bundle>>
  BY DEF RunDies
<1>2. EvidenceTyped'
  BY <1>0, <1>1 DEF EvidenceTyped
<1>3. /\ stage'[p] = "idle"
      /\ \A q \in Places : q # p => stage'[q] = stage[q] /\ running'[q] = running[q]
      /\ \A q \in Places : longRun'[q] = longRun[q] \/ longRun'[q] = Cut
  BY <1>0, <1>1 DEF EvidenceTyped
<1>4. \A q \in Places : Readable(longRun'[q]) => longRun'[q] = longRun[q]
  BY <1>3 DEF Readable
<1>5. UnderWay'
  BY <1>0, <1>1, <1>3 DEF UnderWay
<1>6. ReportsTell'
  <2> SUFFICES ASSUME NEW q \in Places, Readable(longRun'[q])
               PROVE  /\ longRun'[q].run.place = q
                      /\ StatusTells(longRun'[q].run, Status(longRun'[q]))
                      /\ q = "launcher" =>
                           /\ longRun'[q].run.build # Legacy /\ longRun'[q].run.at <= runs
                           /\ stage'[q] # "idle" => longRun'[q].run.at < running'[q].at
    BY <1>0, <1>1 DEF ReportsTell, StatusTells, Readable
  <2>1. longRun'[q] = longRun[q] /\ Readable(longRun[q])
    BY <1>4 
  <2>2. stage'[q] # "idle" => stage[q] # "idle" /\ running'[q] = running[q]
    BY <1>3
  <2> QED
    BY <1>0, <2>1, <2>2 DEF ReportsTell
<1>7. DirTells'
  <2> SUFFICES ASSUME NEW q \in Places
               PROVE  /\ stage'[q] \in {"train", "manifest"} => dir[q].manifest = Absent
                      /\ stage'[q] \in {"manifest", "report"} /\ closed[q] =>
                           dir[q].checkpoint \in {Absent, ModelHash(running'[q])}
                      /\ stage'[q] = "report" => dir[q].manifest = ManifestHash(running'[q])
                      /\ /\ q = "launcher" /\ Readable(longRun'[q]) /\ longRun'[q].completed
                         /\ dir[q].manifest = ManifestHash(longRun'[q].run)
                         => dir[q].checkpoint \in {Absent, ModelHash(longRun'[q].run)}
    BY <1>1 DEF DirTells, Readable
  <2>1. stage'[q] # "idle" => stage'[q] = stage[q] /\ running'[q] = running[q]
    BY <1>3
  <2> QED
    BY <1>0, <1>4, <2>1 DEF DirTells
<1> QED
  BY <1>1, <1>2, <1>5, <1>6, <1>7, BundleStays DEF EvidenceInv

\* A report rewritten in the current schema is of the same run and status.
LEMMA NormalizeKeeps ==
  ASSUME EvidenceInv, NEW p \in Places, NormalizeLegacy(p)
  PROVE  EvidenceInv'
<1>0. EvidenceTyped /\ UnderWay /\ ReportsTell /\ DirTells
  BY DEF EvidenceInv
<1> DEFINE rep == [longRun[p] EXCEPT !.schema = 2, !.status = Status(longRun[p])]
<1>1. /\ longRun[p] \in Reports /\ Readable(longRun[p])
      /\ UNCHANGED <<stage, running, closed, runs, dir, evalReport, observability, bundler,
                     contracts, bundle>>
  BY <1>0, ReadableFiles DEF NormalizeLegacy
<1>2. longRun' = [longRun EXCEPT ![p] = rep]
  BY <1>0 DEF NormalizeLegacy, EvidenceTyped
<1>3. Status(longRun[p]) \in Statuses
  BY <1>1 DEF Status, Statuses, Reports
<1>4. /\ rep \in Reports /\ rep.run = longRun[p].run /\ Status(rep) = Status(longRun[p])
      /\ rep.completed = longRun[p].completed
  BY <1>1, <1>3 DEF Reports, Status
<1> HIDE DEF rep
<1>5. EvidenceTyped'
  BY <1>0, <1>1, <1>2, <1>4 DEF EvidenceTyped
<1>6. \A q \in Places : Readable(longRun'[q]) =>
        /\ Readable(longRun[q]) /\ longRun'[q].run = longRun[q].run
        /\ Status(longRun'[q]) = Status(longRun[q])
        /\ longRun'[q].completed = longRun[q].completed
  BY <1>0, <1>1, <1>2, <1>4 DEF EvidenceTyped
<1>7. UnderWay'
  BY <1>0, <1>1 DEF UnderWay
<1>8. ReportsTell'
  <2> SUFFICES ASSUME NEW q \in Places, Readable(longRun'[q])
               PROVE  /\ longRun'[q].run.place = q
                      /\ StatusTells(longRun'[q].run, Status(longRun'[q]))
                      /\ q = "launcher" =>
                           /\ longRun'[q].run.build # Legacy /\ longRun'[q].run.at <= runs
                           /\ stage[q] # "idle" => longRun'[q].run.at < running[q].at
    BY <1>0, <1>1 DEF ReportsTell, StatusTells, Readable
  <2> QED
    BY <1>0, <1>6 DEF ReportsTell
<1>9. DirTells'
  BY <1>0, <1>1, <1>6 DEF DirTells, Readable
<1> QED
  BY <1>1, <1>5, <1>7, <1>8, <1>9, BundleStays DEF EvidenceInv

\* The two reports carry the status of the report they were built from.
LEMMA ScriptsKeep ==
  ASSUME EvidenceInv, NEW p \in Places,
         \/ Observe(p)
         \/ \E given \in SUBSET Controls : Evaluate(p, given)
  PROVE  EvidenceInv'
<1>0. EvidenceTyped /\ UnderWay /\ ReportsTell /\ DirTells
  BY DEF EvidenceInv
<1>1. UNCHANGED <<stage, running, closed, runs, dir, longRun, bundler, bundle>>
  BY DEF Observe, Evaluate, runVars
<1>2. longRun[p] \in Reports /\ StatusTells(longRun[p].run, Status(longRun[p]))
  BY <1>0, ReadableFiles DEF Observe, Evaluate, ReportsTell
<1>3. /\ evalReport' \in EvalReports \cup {Cut}
      /\ Readable(evalReport') => StatusTells(evalReport'.run, evalReport'.status)
  <2>1. CASE Observe(p)
    BY <1>0, <2>1 DEF Observe, EvidenceTyped, ReportsTell
  <2>2. ASSUME NEW given \in SUBSET Controls, Evaluate(p, given)
        PROVE  /\ evalReport' \in EvalReports \cup {Cut}
               /\ Readable(evalReport') => StatusTells(evalReport'.run, evalReport'.status)
    <3>1. evalReport' = Cut \/ evalReport' = EvalOf(longRun[p], given)
      BY <2>2 DEF Evaluate
    <3>2. /\ EvalOf(longRun[p], given) \in EvalReports
          /\ EvalOf(longRun[p], given).run = longRun[p].run
          /\ EvalOf(longRun[p], given).status = Status(longRun[p])
      BY <1>2, EvalTypes DEF EvalOf
    <3> QED
      BY <1>2, <3>1, <3>2 DEF Readable
  <2> QED
    BY <2>1, <2>2
<1>4. /\ observability' \in Observabilities \cup {Cut}
      /\ Readable(observability') =>
           StatusTells(observability'.run, observability'.status)
  <2>1. CASE Observe(p)
    <3>0. evalReport \in EvalReports
      BY <1>0, <2>1, ReadableFiles DEF Observe
    <3>1. observability' = Cut \/ observability' = ObservabilityOf(longRun[p], evalReport)
      BY <2>1 DEF Observe
    <3>2. /\ ObservabilityOf(longRun[p], evalReport) \in Observabilities
          /\ ObservabilityOf(longRun[p], evalReport).run = longRun[p].run
          /\ ObservabilityOf(longRun[p], evalReport).status = Status(longRun[p])
      BY <1>2, <3>0, ObservabilityTypes DEF ObservabilityOf
    <3> QED
      BY <1>2, <3>1, <3>2 DEF Readable
  <2>2. ASSUME NEW given \in SUBSET Controls, Evaluate(p, given)
        PROVE  UNCHANGED observability
    BY <2>2 DEF Evaluate
  <2> QED
    BY <1>0, <2>1, <2>2 DEF EvidenceTyped, ReportsTell
<1>5. EvidenceTyped'
  BY <1>0, <1>1, <1>3, <1>4 DEF EvidenceTyped
<1>6. UnderWay' /\ DirTells'
  BY <1>0, <1>1 DEF UnderWay, DirTells, Readable
<1>7. ReportsTell'
  BY <1>0, <1>1, <1>3, <1>4 DEF ReportsTell, StatusTells, Readable
<1> QED
  BY <1>1, <1>5, <1>6, <1>7, BundleStays DEF EvidenceInv

\* A bundle is built of reports that agree in their status, and of a directory whose
\* manifest its report names.
LEMMA BundlerKeeps ==
  ASSUME EvidenceInv,
         \/ \E p \in Places, publication \in Publications : WriteContracts(p, publication)
         \/ BuildBundle \/ BundlerDies
  PROVE  EvidenceInv'
<1>0. EvidenceTyped /\ UnderWay /\ ReportsTell /\ DirTells
  BY DEF EvidenceInv
<1>1. UNCHANGED <<stage, running, closed, runs, dir, longRun, evalReport, observability>>
  BY DEF WriteContracts, BuildBundle, BundlerDies, runVars
<1>2. EvidenceTyped'
  BY <1>0, <1>1 DEF EvidenceTyped, WriteContracts, BuildBundle, BundlerDies
<1>3. UnderWay' /\ DirTells' /\ ReportsTell'
  BY <1>0, <1>1 DEF UnderWay, DirTells, ReportsTell, StatusTells, Readable
<1>4. ASSUME UNCHANGED bundle PROVE EvidenceInv'
  BY <1>2, <1>3, <1>4, BundleStays DEF EvidenceInv
<1>5. CASE BuildBundle
  <2> DEFINE p == bundler.place
             rep == longRun[p]
             publication == bundler.publication
             built == Bundle(rep, evalReport, observability, contracts, dir[p], publication)
  <2>1. \/ UNCHANGED bundle
        \/ bundle' = Cut
        \/ /\ bundle' = built
           /\ Buildable(rep, evalReport, observability, contracts, dir[p], publication)
    BY <1>5 DEF BuildBundle
  <2>2. p \in Places
    BY <1>0, <1>5, ReadableFiles DEF BuildBundle
  <2>3. CASE bundle' = Cut
    BY <1>2, <1>3, <2>3
       DEF EvidenceInv, CurrentIsCorrected, LauncherCheckpointIsReports, Readable
  <2>4. ASSUME bundle' = built,
               Buildable(rep, evalReport, observability, contracts, dir[p], publication)
        PROVE  EvidenceInv'
    <3> HIDE DEF p, publication
    <3>1. /\ Readable(rep) /\ Readable(evalReport) /\ Readable(observability)
          /\ Status(rep) = evalReport.status /\ Status(rep) = observability.status
          /\ Status(rep) = "historical" <=> publication = "historical"
          /\ dir[p].manifest = ManifestHash(rep.run) /\ dir[p].checkpoint # Absent
      BY <2>4 DEF Buildable
    <3>2. /\ bundle'.run = rep.run /\ bundle'.evaluated = evalReport.run
          /\ bundle'.completed = rep.completed
          /\ bundle'.observed = observability.run
          /\ bundle'.checkpoint = dir[p].checkpoint
          /\ bundle'.publication = publication
      BY <2>4 DEF Bundle
    <3>3. /\ StatusTells(rep.run, Status(rep)) /\ rep.run.place = p
          /\ StatusTells(evalReport.run, evalReport.status)
          /\ StatusTells(observability.run, observability.status)
      BY <1>0, <2>2, <3>1 DEF ReportsTell
    <3>4. CurrentIsCorrected'
      BY <3>1, <3>2, <3>3 DEF CurrentIsCorrected, StatusTells
    <3>5. LauncherCheckpointIsReports'
      BY <1>0, <2>2, <3>1, <3>2, <3>3 DEF LauncherCheckpointIsReports, DirTells
    <3> QED
      BY <1>2, <1>3, <3>4, <3>5 DEF EvidenceInv
  <2> QED
    BY <1>4, <2>1, <2>3, <2>4
<1> QED
  BY <1>4, <1>5 DEF WriteContracts, BundlerDies

\* EvidenceInv is an invariant.
LEMMA AlwaysEvidenceInv == EvidenceSpec => []EvidenceInv
<1>1. EvidenceInv /\ [EvidenceNext]_evidenceVars => EvidenceInv'
  <2> SUFFICES ASSUME EvidenceInv, [EvidenceNext]_evidenceVars PROVE EvidenceInv'
    OBVIOUS
  <2>1. CASE UNCHANGED evidenceVars
    BY <2>1 DEF evidenceVars, runVars, EvidenceInv, EvidenceTyped, UnderWay, ReportsTell,
                StatusTells, DirTells, CurrentIsCorrected, LauncherCheckpointIsReports,
                Readable
  <2> QED
    BY <2>1, StartKeeps, RoundsKeep, ReportKeeps, DeathKeeps, NormalizeKeeps, ScriptsKeep,
       BundlerKeeps
    DEF EvidenceNext
<1> QED
  BY <1>1, InitEvidenceInv, PTL DEF EvidenceSpec

\* CurrentIsCorrected for every set of configurations, builds and controls and any
\* number of runs: Buildable compares the statuses, and each status tells the build.
THEOREM OnlyCorrectedIsCurrent == EvidenceSpec => []CurrentIsCorrected
<1>1. EvidenceInv => CurrentIsCorrected
  BY DEF EvidenceInv
<1> QED
  BY <1>1, AlwaysEvidenceInv, PTL

\* LauncherCheckpointIsReports: the launcher's manifest hash holds the clock, so the
\* directory a report names is its own run's; what an earlier run left there is a
\* checkpoint only under a run that was blocked.
THEOREM LauncherCheckpoint == EvidenceSpec => []LauncherCheckpointIsReports
<1>1. EvidenceInv => LauncherCheckpointIsReports
  BY DEF EvidenceInv
<1> QED
  BY <1>1, AlwaysEvidenceInv, PTL

\* RegenerationSucceeds: from a report whose directory is there, a bundle can be
\* built again, by the two scripts and the contracts of its place.
THEOREM RegenerationAlwaysSucceeds == EvidenceSpec => []RegenerationSucceeds
<1>1. EvidenceInv => RegenerationSucceeds
  <2> SUFFICES ASSUME EvidenceInv, NEW p \in Places, NEW given \in SUBSET Controls,
                      Readable(longRun[p]),
                      dir[p].manifest = ManifestHash(longRun[p].run),
                      dir[p].checkpoint = ModelHash(longRun[p].run)
               PROVE  LET e == EvalOf(longRun[p], given)
                          o == ObservabilityOf(longRun[p], e)
                      IN /\ LinksAreBound(o)
                         /\ \E c \in {SmokeContracts(longRun[p]), LauncherContracts},
                               publication \in Publications :
                              Buildable(longRun[p], e, o, c, dir[p], publication)
    BY DEF RegenerationSucceeds
  <2> DEFINE rep == longRun[p]
             e == EvalOf(rep, given)
             o == ObservabilityOf(rep, e)
             c == IF p = "smoke" THEN SmokeContracts(rep) ELSE LauncherContracts
             publication == IF Status(rep) = "historical" THEN "historical" ELSE "local_smoke"
  <2>0. EvidenceTyped /\ ReportsTell
    BY DEF EvidenceInv
  <2>1. rep \in Reports /\ rep.run \in AnyRun
    BY <2>0, ReadableFiles DEF Reports
  <2>2. e \in EvalReports /\ e.run = rep.run /\ e.status = Status(rep) /\ e.controls = given
    BY <2>1, EvalTypes DEF EvalOf
  <2> HIDE DEF e
  <2>3. /\ o \in Observabilities /\ o.run = rep.run /\ o.status = Status(rep)
        /\ o.links = Links(rep, e)
    BY <2>1, <2>2, ObservabilityTypes DEF ObservabilityOf
  <2> HIDE DEF o
  <2>4. LinksAreBound(o)
    <3> SUFFICES ASSUME NEW row \in Links(rep, e) PROVE row = OwnRow(rep.run)
      BY <2>3 DEF LinksAreBound
    <3>1. /\ row = OwnRow(rep.run) \/ row \in Controls
          /\ row.config = rep.run.config /\ row.model = ModelHash(rep.run)
      BY <2>2 DEF Links, Rows
    <3>2. row \in Controls => row = [config |-> row.config, model |-> row.model]
      BY EvidenceAssumption DEF EvidenceAssumption
    <3> QED
      BY <3>1, <3>2 DEF OwnRow
  <2>5. Readable(e) /\ Readable(o)
    BY <2>2, <2>3, EvidenceAssumption DEF EvidenceAssumption, Readable
  <2>6. c.id = Identity(rep.run) /\ c.probe = Probe(rep.run)
    <3>1. rep.run.place = p /\ (p = "launcher" => rep.run.build # Legacy)
      BY <2>0 DEF ReportsTell
    <3>2. CASE p = "smoke"
      BY <3>1, <3>2 DEF SmokeContracts, Identity
    <3>3. CASE p = "launcher"
      <4>1. (rep.run.build = Legacy) = FALSE
        BY <3>1, <3>3
      <4> QED
        BY <3>1, <3>3, <4>1 DEF LauncherContracts, Identity, Probe
    <3> QED
      BY <3>2, <3>3 DEF Places
  <2>7. dir[p].checkpoint # Absent
    BY <2>1, HashTypes
  <2>8. /\ publication \in Publications
        /\ Status(rep) = "historical" <=> publication = "historical"
    BY DEF Publications
  <2>9. c \in {SmokeContracts(rep), LauncherContracts}
    OBVIOUS
  <2> HIDE DEF c, publication, rep
  <2>10. Buildable(rep, e, o, c, dir[p], publication)
    BY <2>2, <2>3, <2>5, <2>6, <2>7, <2>8 DEF Buildable, rep
  <2> QED
    BY <2>4, <2>8, <2>9, <2>10 DEF e, o, rep
<1> QED
  BY <1>1, AlwaysEvidenceInv, PTL
=============================================================================
