---------------------- MODULE CoordinatorServiceProofs ----------------------
(***************************************************************************)
(* Theorems about CoordinatorService, for every set of trainers and        *)
(* updates, every policy and every way an attempt may fail: what           *)
(* acceptance, an abort and the close of admission promise.                *)
(***************************************************************************)
EXTENDS CoordinatorService, FunctionTheorems, FiniteSetTheorems, SequenceTheorems, TLAPS

Member == [status: Statuses, joined: BOOLEAN,
           assigned: Nat \cup {None}, dropped: Nat \cup {None},
           submitted: SUBSET Nat]

\* What is staged for a round and what its participants were told agree, also
\* for rounds that are committed or given up; and nothing is staged ahead.
StagedIsAccepted ==
  /\ IsFiniteSet(staged)
  /\ \A u \in staged : u.round \in member[u.who].submitted
  /\ \A p \in Trainer : \A t \in member[p].submitted :
       t <= Round /\ \E u \in staged : u.who = p /\ u.round = t
  /\ \A u, v \in staged : u.who = v.who /\ u.round = v.round => u = v

\* A committed round averaged everything that is staged for it to this day.
ChainIsStaged == \A i \in 1..Len(chain) : chain[i] = Collected(i - 1)

\* Admission is closed from the first assignment on.
AssignedClosesAdmission ==
  (\E p \in Trainer : member[p].assigned # None) => ~ admissionOpen

\* The inductive invariant.
IInv ==
  /\ TypeOK /\ StagedIsAccepted /\ ChainIsStaged
  /\ AbortEndsRun /\ TraceTellsRun /\ AssignedClosesAdmission

\* The part of it that only submissions, aborts and attempts can disturb.
Account == StagedIsAccepted /\ ChainIsStaged /\ AbortEndsRun /\ TraceTellsRun
-----------------------------------------------------------------------------
(***************************************************************************)
(* Type correctness.                                                       *)
(***************************************************************************)

\* A chain of sets of staged updates stays one when more is staged.
LEMMA SeqGrows ==
  ASSUME NEW S, NEW T, S \subseteq T, NEW c \in Seq(SUBSET S)
  PROVE  c \in Seq(SUBSET T)
<1>1. c \in [1..Len(c) -> SUBSET S] /\ Len(c) \in Nat
  BY LenProperties
<1>2. c \in [1..Len(c) -> SUBSET T]
  BY <1>1
<1> QED BY <1>1, <1>2

\* The round index is a number.
LEMMA RoundNat == TypeOK => Round \in Nat
BY LenProperties DEF TypeOK, Round

LEMMA InitTypeOK == Init => TypeOK
<1> SUFFICES ASSUME Init PROVE TypeOK
  OBVIOUS
<1>1. chain \in Seq(SUBSET staged)
  BY EmptySeq DEF Init, DeclaredTrainer
<1> QED BY <1>1 DEF Init, DeclaredTrainer, TypeOK, Statuses, None

\* Timeouts change a status and a round of a member's state, nothing else.
LEMMA Timeouts ==
  ASSUME TypeOK, RecordTimeouts
  PROVE  /\ member' \in [Trainer -> Member]
         /\ \A p \in Trainer : /\ member'[p].submitted = member[p].submitted
                               /\ member'[p].assigned = member[p].assigned
                               /\ member'[p].joined = member[p].joined
<1>1. Round \in Nat
  BY RoundNat
<1>2. member \in [Trainer -> Member]
  BY DEF TypeOK, Member
<1>3. ASSUME NEW p \in Trainer
      PROVE  LET q == [member[p] EXCEPT !.status = "dropped", !.dropped = Round]
             IN  /\ q \in Member /\ q.submitted = member[p].submitted
                 /\ q.assigned = member[p].assigned /\ q.joined = member[p].joined
  BY <1>1, <1>2 DEF Member, Statuses
<1> QED BY <1>2, <1>3 DEF RecordTimeouts

\* The contributors of a staged round are trainers.
LEMMA ContributorsType ==
  ASSUME TypeOK, NEW t
  PROVE  Collected(t) \subseteq staged /\ Contributors(Collected(t)) \subseteq Trainer
BY DEF TypeOK, Collected, Contributors

\* TypeOK in terms of whole member states.
LEMMA TypeOKMember ==
  TypeOK <=> /\ member \in [Trainer -> Member]
             /\ admissionOpen \in BOOLEAN /\ engineStuck \in BOOLEAN
             /\ abortedRounds \subseteq Nat /\ retries \in Nat
             /\ \A u \in staged : /\ u.who \in Trainer /\ u.round \in Nat
                                 /\ u.delta \in Delta \cup Malformed
             /\ chain \in Seq(SUBSET staged)
             /\ \A e \in trace : /\ e.event \in {"closed", "retry", "aborted"}
                                /\ e.round \in Nat /\ e.who \subseteq Trainer
BY DEF TypeOK, Member

\* A round event of a round of the run is well typed.
LEMMA EventType ==
  ASSUME NEW event \in {"closed", "retry", "aborted"}, NEW t \in Nat,
         NEW who \in SUBSET Trainer
  PROVE  LET e == RoundEvent(event, t, who)
         IN  /\ e.event \in {"closed", "retry", "aborted"}
             /\ e.round \in Nat /\ e.who \subseteq Trainer
BY DEF RoundEvent

LEMMA NextTypeOK == TypeOK /\ [Next]_vars => TypeOK'
<1> SUFFICES ASSUME TypeOK, [Next]_vars PROVE TypeOK'
  OBVIOUS
<1> USE DEF engine
<1>1. Round \in Nat
  BY RoundNat
<1>2. member \in [Trainer -> Member]
  BY TypeOKMember
<1>3. ASSUME member' \in [Trainer -> Member], admissionOpen' \in BOOLEAN,
             UNCHANGED <<abortedRounds, retries, engine, trace>>
      PROVE  TypeOK'
  BY <1>3 DEF TypeOK, Member
<1>4. ASSUME NEW p \in Trainer, Join(p) PROVE TypeOK'
  <2> DEFINE j == [member[p] EXCEPT !.joined = TRUE, !.status = "joined"]
             r == [member[p] EXCEPT !.status = "rejected"]
  <2>1. j \in Member /\ r \in Member
    BY <1>2 DEF Member, Statuses
  <2>2. member' = [member EXCEPT ![p] = j] \/ member' = [member EXCEPT ![p] = r]
    BY <1>2, <1>4 DEF Join
  <2> HIDE DEF j, r
  <2>3. member' \in [Trainer -> Member]
    BY <1>2, <2>1, <2>2
  <2> QED BY <1>3, <1>4, <2>3 DEF Join, TypeOK
<1>5. CASE CloseAdmission
  BY <1>3, <1>5, <1>2 DEF CloseAdmission
<1>7. ASSUME NEW p \in Trainer, AssignRound(p) PROVE TypeOK'
  <2> DEFINE a == [member[p] EXCEPT !.assigned = Round, !.status = "assigned"]
  <2>1. a \in Member
    BY <1>1, <1>2 DEF Member, Statuses
  <2>2. member' = member \/ member' = [member EXCEPT ![p] = a]
    BY <1>2, <1>7 DEF AssignRound
  <2> HIDE DEF a
  <2>3. member' \in [Trainer -> Member]
    BY <1>2, <2>1, <2>2
  <2> QED BY <1>3, <1>7, <2>3 DEF AssignRound
<1>8. ASSUME NEW p \in Trainer, MarkDropout(p) PROVE TypeOK'
  <2> DEFINE d == [member[p] EXCEPT !.status = "dropped", !.dropped = Round]
  <2>1. d \in Member
    BY <1>1, <1>2 DEF Member, Statuses
  <2>2. member' = [member EXCEPT ![p] = d]
    BY <1>2, <1>8 DEF MarkDropout
  <2> HIDE DEF d
  <2>3. member' \in [Trainer -> Member]
    BY <1>2, <2>1, <2>2
  <2> QED BY <1>3, <1>8, <2>3 DEF MarkDropout, TypeOK
<1>9. ASSUME NEW p \in Trainer, NEW d \in Delta \cup Malformed, SubmitUpdate(p, d)
      PROVE  TypeOK'
  <2> DEFINE s == [member[p] EXCEPT !.submitted = @ \cup {Round}, !.status = "updated"]
  <2>1. s \in Member
    BY <1>1, <1>2 DEF Member, Statuses
  <2>2. member' = [member EXCEPT ![p] = s]
    BY <1>2, <1>9 DEF SubmitUpdate
  <2> HIDE DEF s
  <2>3. member' \in [Trainer -> Member]
    BY <1>2, <2>1, <2>2
  <2>4. chain \in Seq(SUBSET staged')
    <3>1. chain \in Seq(SUBSET staged) /\ staged \subseteq staged'
      BY <1>9 DEF SubmitUpdate, TypeOK
    <3> QED BY <3>1, SeqGrows
  <2>5. \A u \in staged' : /\ u.who \in Trainer /\ u.round \in Nat
                           /\ u.delta \in Delta \cup Malformed
    BY <1>1, <1>9 DEF SubmitUpdate, TypeOK
  <2> QED BY <1>9, <2>3, <2>4, <2>5 DEF SubmitUpdate, TypeOK, Member
<1>10. CASE AbortRound
  <2>1. RoundEvent("aborted", Round, {}).event \in {"closed", "retry", "aborted"}
        /\ RoundEvent("aborted", Round, {}).round \in Nat
        /\ RoundEvent("aborted", Round, {}).who \subseteq Trainer
    BY <1>1, EventType
  <2> QED BY <1>1, <1>10, <2>1 DEF AbortRound, TypeOK
<1>11. ASSUME CloseRound PROVE TypeOK'
  <2>1. RecordTimeouts
    BY <1>11 DEF CloseRound, CloseCommits, CommitStaged, CloseBelowQuorum, CloseRaises
  <2>2. member' \in [Trainer -> Member]
    BY <2>1, Timeouts
  <2>3. Collected(Round) \in SUBSET staged /\ Contributors(Collected(Round)) \in SUBSET Trainer
    BY ContributorsType
  <2>4. CASE CloseCommits
    <3>1. chain' \in Seq(SUBSET staged)
      BY <2>3, <2>4, AppendProperties DEF CloseCommits, CommitStaged, TypeOK
    <3>2. ASSUME NEW e \in trace' \ trace
          PROVE  /\ e.event \in {"closed", "retry", "aborted"}
                 /\ e.round \in Nat /\ e.who \subseteq Trainer
      <4>1. e = RoundEvent("closed", Round, Contributors(Collected(Round)))
        BY <2>4, <3>2 DEF CloseCommits, CommitStaged, ClosedEvent
      <4> QED BY <1>1, <2>3, <4>1, EventType
    <3>3. /\ trace \subseteq trace' /\ retries' = 0
          /\ UNCHANGED <<admissionOpen, abortedRounds, staged, engineStuck>>
      BY <2>4 DEF CloseCommits, CommitStaged
    <3> QED BY <2>2, <3>1, <3>2, <3>3 DEF TypeOK, Member
  <2>5. CASE CloseBelowQuorum
    <3>1. ASSUME NEW e \in trace' \ trace
          PROVE  /\ e.event \in {"closed", "retry", "aborted"}
                 /\ e.round \in Nat /\ e.who \subseteq Trainer
      <4>1. \E event \in {"retry", "aborted"} : e = RoundEvent(event, Round, {})
        BY <2>5, <3>1 DEF CloseBelowQuorum
      <4> QED BY <1>1, <4>1, EventType
    <3>2. /\ abortedRounds' \in {abortedRounds, abortedRounds \cup {Round}}
          /\ retries' \in {retries, retries + 1}
          /\ UNCHANGED <<admissionOpen, staged, chain, engineStuck>>
      BY <2>5 DEF CloseBelowQuorum
    <3> QED BY <1>1, <2>2, <3>1, <3>2 DEF TypeOK, Member
  <2>6. CASE CloseRaises
    <3>1. /\ UNCHANGED <<admissionOpen, abortedRounds, retries, staged, chain, trace>>
          /\ engineStuck' \in BOOLEAN
      BY <2>6 DEF CloseRaises, TypeOK
    <3> QED BY <2>2, <3>1 DEF TypeOK, Member
  <2> QED BY <1>11, <2>4, <2>5, <2>6 DEF CloseRound
<1>12. CASE UNCHANGED vars
  BY <1>12 DEF vars, TypeOK
<1> QED
  BY <1>4, <1>5, <1>7, <1>8, <1>9, <1>10, <1>11, <1>12 DEF Next

\* TypeOK holds whatever the operator, the participants and the attempts do.
THEOREM TypeCorrect == Spec => []TypeOK
BY InitTypeOK, NextTypeOK, PTL DEF Spec
-----------------------------------------------------------------------------
(***************************************************************************)
(* Acceptance, aborts, the trace and admission.                            *)
(***************************************************************************)

\* With one update per participant there are as many contributors as updates.
LEMMA OneEach ==
  ASSUME NEW us, IsFiniteSet(us), \A u, v \in us : u.who = v.who => u = v
  PROVE  Cardinality(us) = Cardinality(Contributors(us))
<1> DEFINE f == [u \in us |-> u.who]
<1>1. f \in Bijection(us, Contributors(us))
  <2>1. f \in Injection(us, Contributors(us))
    BY DEF Injection, IsInjective, Contributors
  <2>2. f \in Surjection(us, Contributors(us))
    BY DEF Surjection, Contributors
  <2> QED BY <2>1, <2>2 DEF Bijection
<1>2. ExistsBijection(us, Contributors(us))
  BY <1>1 DEF ExistsBijection
<1> QED BY <1>2, FS_Bijection

\* The updates staged for one round are finitely many, one each.
LEMMA CollectedOneEach ==
  ASSUME StagedIsAccepted, NEW t
  PROVE  Cardinality(Collected(t)) = Cardinality(Contributors(Collected(t)))
<1>1. IsFiniteSet(Collected(t))
  BY FS_Subset DEF StagedIsAccepted, Collected
<1>2. \A u, v \in Collected(t) : u.who = v.who => u = v
  BY DEF StagedIsAccepted, Collected
<1> QED BY <1>1, <1>2, OneEach

LEMMA InitIInv == Init => IInv
<1> SUFFICES ASSUME Init PROVE IInv
  OBVIOUS
<1>1. TypeOK
  BY InitTypeOK
<1>2. Round = 0
  BY EmptySeq DEF Init, DeclaredTrainer, Round
<1>3. StagedIsAccepted
  BY FS_EmptySet DEF Init, DeclaredTrainer, StagedIsAccepted
<1>4. ChainIsStaged /\ AbortEndsRun
  BY <1>2 DEF Init, DeclaredTrainer, ChainIsStaged, AbortEndsRun, Round
<1>5. TraceTellsRun
  BY <1>2 DEF Init, DeclaredTrainer, TraceTellsRun, Round
<1>6. AssignedClosesAdmission
  BY DEF Init, DeclaredTrainer, AssignedClosesAdmission
<1> QED BY <1>1, <1>3, <1>4, <1>5, <1>6 DEF IInv

\* Operations that only change who is present leave the account as it is.
LEMMA Quiet ==
  ASSUME IInv, UNCHANGED <<staged, chain, abortedRounds, trace>>,
         \A p \in Trainer : member'[p].submitted = member[p].submitted
  PROVE  Account'
<1>1. Round' = Round /\ \A t : Collected(t)' = Collected(t)
  BY DEF Round, Collected
<1>2. \A u \in staged : u.who \in Trainer
  BY DEF IInv, TypeOK
<1>3. StagedIsAccepted'
  BY <1>1, <1>2 DEF IInv, StagedIsAccepted
<1>4. ChainIsStaged' /\ AbortEndsRun'
  BY <1>1 DEF IInv, ChainIsStaged, AbortEndsRun
<1>5. TraceTellsRun'
  BY DEF IInv, TraceTellsRun
<1> QED BY <1>3, <1>4, <1>5 DEF Account

\* An accepted update is staged beside the others of the open round; the rounds
\* of the chain are behind it.
LEMMA SubmitKeeps ==
  ASSUME IInv, NEW p \in Trainer, NEW d \in Delta \cup Malformed, SubmitUpdate(p, d)
  PROVE  Account'
<1> DEFINE m == [who |-> p, round |-> Round, delta |-> d]
<1> USE DEF engine
<1>1. Round \in Nat /\ member \in [Trainer -> Member]
  BY RoundNat, TypeOKMember DEF IInv
<1>2. /\ member'[p].submitted = member[p].submitted \cup {Round}
      /\ \A q \in Trainer : q # p => member'[q] = member[q]
  BY <1>1 DEF SubmitUpdate, Member
<1>3. /\ staged' = staged \cup {m} /\ m.who = p /\ m.round = Round
      /\ Round \notin member[p].submitted
      /\ UNCHANGED <<chain, abortedRounds, trace>> /\ Round' = Round
  BY DEF SubmitUpdate, Round
<1> HIDE DEF m
<1>4. \A u \in staged : u.who \in Trainer
  BY DEF IInv, TypeOK
<1>5. StagedIsAccepted'
  <2>1. IsFiniteSet(staged')
    BY <1>3, FS_AddElement DEF IInv, StagedIsAccepted
  <2>2. \A u \in staged' : u.round \in member'[u.who].submitted
    BY <1>2, <1>3, <1>4 DEF IInv, StagedIsAccepted
  <2>3. \A q \in Trainer : \A t \in member'[q].submitted :
          t <= Round' /\ \E u \in staged' : u.who = q /\ u.round = t
    BY <1>1, <1>2, <1>3 DEF IInv, StagedIsAccepted
  <2>4. \A u, v \in staged' : u.who = v.who /\ u.round = v.round => u = v
    BY <1>3 DEF IInv, StagedIsAccepted
  <2> QED BY <2>1, <2>2, <2>3, <2>4 DEF StagedIsAccepted
<1>6. ChainIsStaged'
  <2>1. \A i \in 1..Len(chain) : i - 1 # Round
    BY <1>1 DEF Round
  <2>2. \A i \in 1..Len(chain) : Collected(i - 1)' = Collected(i - 1)
    BY <1>3, <2>1 DEF Collected
  <2> QED BY <1>3, <2>2 DEF IInv, ChainIsStaged
<1>7. AbortEndsRun' /\ TraceTellsRun'
  BY <1>3 DEF IInv, AbortEndsRun, TraceTellsRun
<1> QED BY <1>5, <1>6, <1>7 DEF Account

\* Giving up the open round, with its event, leaves the rest of the account.
LEMMA AbortKeeps ==
  ASSUME IInv, UNCHANGED <<staged, chain>>, NEW more, \A e \in more : e.event = "retry",
         \/ abortedRounds' = abortedRounds /\ trace' = trace \cup more
         \/ /\ abortedRounds' = abortedRounds \cup {Round}
            /\ trace' = trace \cup {RoundEvent("aborted", Round, {})},
         \A p \in Trainer : member'[p].submitted = member[p].submitted
  PROVE  Account'
<1>1. Round' = Round /\ \A t : Collected(t)' = Collected(t)
  BY DEF Round, Collected
<1>2. StagedIsAccepted'
  <2>1. \A u \in staged : u.who \in Trainer
    BY DEF IInv, TypeOK
  <2> QED BY <1>1, <2>1 DEF IInv, StagedIsAccepted
<1>3. ChainIsStaged' /\ AbortEndsRun'
  BY <1>1 DEF IInv, ChainIsStaged, AbortEndsRun
<1>4. TraceTellsRun'
  <2> DEFINE a == RoundEvent("aborted", Round, {})
  <2>1. a.event = "aborted" /\ a.round = Round
    BY DEF RoundEvent
  <2>2. \A t, who : RoundEvent("closed", t, who).event = "closed"
    BY DEF RoundEvent
  <2> HIDE DEF a
  <2>3. \A t, who : RoundEvent("closed", t, who) \in trace'
                      <=> RoundEvent("closed", t, who) \in trace
    BY <2>1, <2>2 DEF a
  <2>4. abortedRounds' = {e.round : e \in {f \in trace' : f.event = "aborted"}}
    BY <2>1 DEF IInv, TraceTellsRun, a
  <2> QED BY <2>3, <2>4 DEF IInv, TraceTellsRun
<1> QED BY <1>2, <1>3, <1>4 DEF Account

\* A commit averages what was accepted, and its event says so.
LEMMA CommitKeeps ==
  ASSUME IInv, Round < MaxRounds, CloseCommits
  PROVE  Account'
<1> DEFINE us  == Collected(Round)
           who == Contributors(us)
<1>1. Round \in Nat /\ chain \in Seq(SUBSET staged) /\ MaxRounds \in Nat
  BY RoundNat, ServiceAssumption DEF IInv, TypeOK, ServiceAssumption
<1>2. us \in SUBSET staged /\ who \in SUBSET Trainer
  BY ContributorsType DEF IInv
<1>3. /\ Round \notin abortedRounds
      /\ chain' = Append(chain, us)
      /\ trace' = trace \cup (IF Cardinality(us) <= BudgetContributors
                              THEN {RoundEvent("closed", Round, who)} ELSE {})
      /\ UNCHANGED <<abortedRounds, staged>> /\ RecordTimeouts
  BY DEF CloseCommits, CommitStaged, ClosedEvent
<1>4. \A p \in Trainer : member'[p].submitted = member[p].submitted
  BY <1>3, Timeouts DEF IInv
<1>5. /\ Len(chain') = Round + 1 /\ Round' = Round + 1
      /\ chain'[Round + 1] = us
      /\ \A i \in 1..Round : chain'[i] = chain[i]
  BY <1>1, <1>2, <1>3, AppendProperties DEF Round
<1>6. \A t : Collected(t)' = Collected(t)
  BY <1>3 DEF Collected
<1>7. StagedIsAccepted'
  <2>1. \A u \in staged : u.who \in Trainer
    BY DEF IInv, TypeOK
  <2>2. \A p \in Trainer : \A t \in member[p].submitted : t <= Round => t <= Round + 1
    BY <1>1, TypeOKMember DEF IInv, Member
  <2> QED BY <1>3, <1>4, <1>5, <2>1, <2>2 DEF IInv, StagedIsAccepted
<1>8. ChainIsStaged'
  <2>1. ASSUME NEW i \in 1..Len(chain') PROVE chain'[i] = Collected(i - 1)
    <3>1. i \in 1..Round \/ i = Round + 1
      BY <1>1, <1>5, <2>1
    <3>2. i = Round + 1 => i - 1 = Round
      BY <1>1
    <3>3. i \in 1..Round => chain[i] = Collected(i - 1)
      BY DEF IInv, ChainIsStaged, Round
    <3> QED BY <1>5, <3>1, <3>2, <3>3
  <2> QED BY <1>6, <2>1 DEF ChainIsStaged
<1>9. AbortEndsRun'
  BY <1>3 DEF IInv, AbortEndsRun
<1>10. TraceTellsRun'
  <2>1. Cardinality(us) = Cardinality(who)
    BY CollectedOneEach DEF IInv
  <2>2. \A t, w : /\ RoundEvent("closed", t, w).event = "closed"
                  /\ RoundEvent("closed", t, w) = RoundEvent("closed", Round, who)
                       <=> t = Round /\ w = who
    BY DEF RoundEvent
  <2>3. abortedRounds' = {e.round : e \in {f \in trace' : f.event = "aborted"}}
    <3>1. {f \in trace' : f.event = "aborted"} = {f \in trace : f.event = "aborted"}
      BY <1>3, <2>2
    <3> QED BY <1>3, <3>1 DEF IInv, TraceTellsRun
  <2> HIDE DEF us, who
  <2>4. ASSUME NEW t \in 0..MaxRounds, NEW w \in SUBSET Trainer
        PROVE  RoundEvent("closed", t, w) \in trace'
                 <=> /\ t < Len(chain') /\ w = Contributors(chain'[t + 1])
                     /\ Cardinality(w) <= BudgetContributors
    <3>1. RoundEvent("closed", t, w) \in trace
            <=> /\ t < Round /\ w = Contributors(chain[t + 1])
                /\ Cardinality(w) <= BudgetContributors
      BY DEF IInv, TraceTellsRun, Round
    <3>2. CASE t = Round
      <4>1. RoundEvent("closed", t, w) \notin trace
        BY <1>1, <3>1, <3>2
      <4>2. t < Len(chain') /\ Contributors(chain'[t + 1]) = who
        BY <1>1, <1>5, <3>2 DEF who
      <4> QED BY <1>3, <2>1, <2>2, <3>2, <4>1, <4>2
    <3>3. CASE t # Round
      <4>1. RoundEvent("closed", t, w) \in trace' <=> RoundEvent("closed", t, w) \in trace
        BY <1>3, <2>2, <3>3
      <4>2. t < Len(chain') <=> t < Round
        BY <1>1, <1>5, <3>3
      <4>3. t < Round => chain'[t + 1] = chain[t + 1]
        BY <1>1, <1>5
      <4> QED BY <3>1, <4>1, <4>2, <4>3
    <3> QED BY <3>2, <3>3
  <2> QED BY <2>3, <2>4 DEF TraceTellsRun
<1> QED BY <1>7, <1>8, <1>9, <1>10 DEF Account

LEMMA NextIInv == IInv /\ [Next]_vars => IInv'
<1> SUFFICES ASSUME IInv, [Next]_vars PROVE IInv'
  OBVIOUS
<1> USE DEF engine
<1>1. TypeOK' /\ Round \in Nat /\ member \in [Trainer -> Member]
  BY NextTypeOK, RoundNat, TypeOKMember DEF IInv
<1>2. ASSUME Account', AssignedClosesAdmission' PROVE IInv'
  BY <1>1, <1>2 DEF IInv, Account
<1>3. AssignedClosesAdmission
  BY DEF IInv
<1>4. ASSUME NEW p \in Trainer, Join(p) PROVE IInv'
  <2>1. \A q \in Trainer : /\ member'[q].submitted = member[q].submitted
                           /\ member'[q].assigned = member[q].assigned
    BY <1>1, <1>4 DEF Join, Member
  <2>2. AssignedClosesAdmission'
    BY <1>3, <1>4, <2>1 DEF Join, AssignedClosesAdmission
  <2> QED BY <1>2, <1>4, <2>1, <2>2, Quiet DEF Join
<1>5. CASE CloseAdmission
  <2>1. AssignedClosesAdmission'
    BY <1>5 DEF CloseAdmission, AssignedClosesAdmission
  <2> QED BY <1>2, <1>5, <2>1, Quiet DEF CloseAdmission
<1>7. ASSUME NEW p \in Trainer, AssignRound(p) PROVE IInv'
  <2>1. \A q \in Trainer : member'[q].submitted = member[q].submitted
    BY <1>1, <1>7 DEF AssignRound, Member
  <2>2. AssignedClosesAdmission'
    BY <1>7 DEF AssignRound, AssignedClosesAdmission
  <2> QED BY <1>2, <1>7, <2>1, <2>2, Quiet DEF AssignRound
<1>8. ASSUME NEW p \in Trainer, MarkDropout(p) PROVE IInv'
  <2>1. \A q \in Trainer : /\ member'[q].submitted = member[q].submitted
                           /\ member'[q].assigned = member[q].assigned
    BY <1>1, <1>8 DEF MarkDropout, Member
  <2>2. AssignedClosesAdmission'
    BY <1>3, <1>8, <2>1 DEF MarkDropout, AssignedClosesAdmission
  <2> QED BY <1>2, <1>8, <2>1, <2>2, Quiet DEF MarkDropout
<1>9. ASSUME NEW p \in Trainer, NEW d \in Delta \cup Malformed, SubmitUpdate(p, d)
      PROVE  IInv'
  <2>1. \A q \in Trainer : member'[q].assigned = member[q].assigned
    BY <1>1, <1>9 DEF SubmitUpdate, Member
  <2>2. AssignedClosesAdmission'
    BY <1>3, <1>9, <2>1 DEF SubmitUpdate, AssignedClosesAdmission
  <2> QED BY <1>2, <1>9, <2>2, SubmitKeeps
<1>10. CASE AbortRound
  <2>1. AssignedClosesAdmission'
    BY <1>3, <1>10 DEF AbortRound, AssignedClosesAdmission
  <2>2. Account'
    BY <1>10, AbortKeeps DEF AbortRound
  <2> QED BY <1>2, <2>1, <2>2
<1>11. ASSUME Round < MaxRounds, CloseRound PROVE IInv'
  <2>1. RecordTimeouts /\ UNCHANGED admissionOpen
    BY <1>11 DEF CloseRound, CloseCommits, CommitStaged, CloseBelowQuorum, CloseRaises
  <2>2. \A q \in Trainer : /\ member'[q].submitted = member[q].submitted
                           /\ member'[q].assigned = member[q].assigned
    BY <2>1, Timeouts DEF IInv
  <2>3. AssignedClosesAdmission'
    BY <1>3, <2>1, <2>2 DEF AssignedClosesAdmission
  <2>4. CASE CloseCommits
    BY <1>2, <1>11, <2>3, <2>4, CommitKeeps
  <2>5. CASE CloseBelowQuorum
    <3> DEFINE retry == {RoundEvent("retry", Round, {})}
    <3>1. \A e \in retry : e.event = "retry"
      BY DEF RoundEvent
    <3>2. /\ UNCHANGED <<staged, chain>>
          /\ \/ abortedRounds' = abortedRounds /\ trace' = trace \cup retry
             \/ /\ abortedRounds' = abortedRounds \cup {Round}
                /\ trace' = trace \cup {RoundEvent("aborted", Round, {})}
      BY <2>5 DEF CloseBelowQuorum
    <3> HIDE DEF retry
    <3>3. Account'
      BY <2>2, <3>1, <3>2, AbortKeeps
    <3> QED BY <1>2, <2>3, <3>3
  <2>6. CASE CloseRaises
    BY <1>2, <2>2, <2>3, <2>6, Quiet DEF CloseRaises
  <2> QED BY <1>11, <2>4, <2>5, <2>6 DEF CloseRound
<1>12. CASE UNCHANGED vars
  <2>1. AssignedClosesAdmission'
    BY <1>3, <1>12 DEF vars, AssignedClosesAdmission
  <2> QED BY <1>2, <1>12, <2>1, Quiet DEF vars
<1> QED
  BY <1>4, <1>5, <1>7, <1>8, <1>9, <1>10, <1>11, <1>12 DEF Next

\* IInv is an invariant.
LEMMA Inductive == Spec => []IInv
BY InitIInv, NextIInv, PTL DEF Spec

\* submit_update keeps its promise: a round's contributors are exactly those
\* whose update was accepted, once each, whatever became of them since.
THEOREM AcceptanceHolds == Spec => []AcceptedIsAveraged
<1>1. IInv => AcceptedIsAveraged
  <2> SUFFICES ASSUME IInv, NEW i \in 1..Len(chain)
               PROVE  /\ Contributors(chain[i]) = {p \in Trainer : (i - 1) \in member[p].submitted}
                      /\ Cardinality(chain[i]) = Cardinality(Contributors(chain[i]))
    BY DEF AcceptedIsAveraged
  <2>1. chain[i] = Collected(i - 1)
    BY DEF IInv, ChainIsStaged
  <2>2. Contributors(Collected(i - 1)) = {p \in Trainer : (i - 1) \in member[p].submitted}
    BY DEF IInv, TypeOK, StagedIsAccepted, Contributors, Collected
  <2>3. Cardinality(Collected(i - 1)) = Cardinality(Contributors(Collected(i - 1)))
    BY CollectedOneEach DEF IInv
  <2> QED BY <2>1, <2>2, <2>3
<1> QED BY <1>1, Inductive, PTL

\* An aborted round is never committed and no later round is opened.
THEOREM AbortIsFinal == Spec => []AbortEndsRun
<1>1. IInv => AbortEndsRun
  BY DEF IInv
<1> QED BY <1>1, Inductive, PTL

\* The trace has exactly the closed and aborted events that happened.
THEOREM TraceIsTrue == Spec => []TraceTellsRun
<1>1. IInv => TraceTellsRun
  BY DEF IInv
<1> QED BY <1>1, Inductive, PTL

\* Nobody becomes a member once anybody has been assigned a round.
THEOREM AdmissionEnds == Spec => ConsortiumFixed
<1> DEFINE Fixed == (\E p \in Trainer : member[p].assigned # None)
                      => \A p \in Trainer : member'[p].joined = member[p].joined
<1>1. IInv /\ [Next]_vars => [Fixed]_vars
  <2> SUFFICES ASSUME IInv, Next PROVE Fixed
    OBVIOUS
  <2> USE DEF engine
  <2>1. member \in [Trainer -> Member]
    BY TypeOKMember DEF IInv
  <2>2. (\E p \in Trainer : member[p].assigned # None) => ~ admissionOpen
    BY DEF IInv, AssignedClosesAdmission
  <2>3. ASSUME NEW p \in Trainer, Join(p) PROVE Fixed
    BY <2>1, <2>2, <2>3 DEF Join, Member
  <2>4. CASE CloseAdmission \/ AbortRound
    BY <2>4 DEF CloseAdmission, AbortRound
  <2>5. ASSUME NEW p \in Trainer, AssignRound(p) \/ MarkDropout(p)
        PROVE  Fixed
    BY <2>1, <2>5 DEF AssignRound, MarkDropout, Member
  <2>6. ASSUME NEW p \in Trainer, NEW d \in Delta \cup Malformed, SubmitUpdate(p, d)
        PROVE  Fixed
    BY <2>1, <2>6 DEF SubmitUpdate, Member
  <2>7. CASE CloseRound
    <3>1. RecordTimeouts
      BY <2>7 DEF CloseRound, CloseCommits, CommitStaged, CloseBelowQuorum, CloseRaises
    <3> QED BY <3>1, Timeouts DEF IInv
  <2> QED BY <2>3, <2>4, <2>5, <2>6, <2>7 DEF Next
<1> QED BY <1>1, Inductive, PTL DEF Spec, ConsortiumFixed
=============================================================================
