------------------------ MODULE NetworkedRoundProofs ------------------------
(***************************************************************************)
(* Theorems about NetworkedRound, for every set of participants and        *)
(* dataset roots, every quorum, and any number of rounds and messages.     *)
(***************************************************************************)
EXTENDS NetworkedRound, SequenceTheorems, TLAPS

Message == Update \cup Commitment \cup {BadMessage}

\* inbox[j] is a Commitment of p for round t.
Commits(j, p, t) ==
  /\ inbox[j].kind = "commitment" /\ inbox[j].who = p /\ inbox[j].round = t

\* r is the root committed by p for round t once the first k messages of the
\* inbox have been received.
RootAfter(k, p, t, r) ==
  \/ \E j \in 1..k : /\ Commits(j, p, t) /\ inbox[j].root = r
                     /\ \A l \in (j + 1)..k : ~ Commits(l, p, t)
  \/ (\A j \in 1..k : ~ Commits(j, p, t)) /\ roots[<<p, t>>] = r

\* The coordinator will know what was declared when it has caught up.
DeclaredArrives ==
  \A p \in Participant, t \in Rounds : RootAfter(Len(inbox), p, t, declared[<<p, t>>])

\* The update at i will be found bound when it is its turn.
WillBeBound(i) ==
  inbox[i].kind = "update" /\ RootAfter(i - 1, inbox[i].who, inbox[i].round, inbox[i].root)

\* An update that will be found bound was bound when it was sent.
AcceptedWasBound == \A i \in 1..Len(inbox) : WillBeBound(i) => inbox[i] \in bound

Present(m) == \E u \in validated : u.who = m.who /\ u.round = m.round

\* A bound update is still to be accepted, or its participant is present.
BoundArrives ==
  \A m \in bound : (\E i \in 1..Len(inbox) : inbox[i] = m /\ WillBeBound(i)) \/ Present(m)

OneEach == \A u, v \in validated : u.who = v.who /\ u.round = v.round => u = v

\* Where close_round is in the history, and what its first collection knows.
AtStep ==
  /\ Len(chain) = IF pc = "open" THEN round + 1 ELSE round
  /\ pc # "idle" => round \in Rounds
  /\ pc \in {"idle", "present"} => present = {}
  /\ pc \in {"collect", "attempt"} =>
       Contributors(present) \subseteq Contributors(Snapshot(round))
  /\ pc = "attempt" => collected = Snapshot(round)
  /\ pc = "open" => Contributors(present) \subseteq Contributors(chain[round + 1])

\* What ingress has made of the messages, and will make of those that wait.
Ingress ==
  /\ DeclaredArrives /\ AcceptedWasBound /\ BoundArrives
  /\ validated \subseteq bound /\ OneEach

\* What was averaged and reported.
Account ==
  /\ AtStep /\ AveragedWasBound /\ ReportWithinRecord
  /\ \A r \in reports : r.round < Len(chain)

\* Only the announced round can have been given up, with nothing left to do.
GivenUp ==
  /\ abortedRounds \subseteq {round}
  /\ pc # "idle" => abortedRounds = {}
  /\ GivenUpForLack

\* A declared root is a root or none, and what is bound is an update.
HistoryOK == declared \in [Participant \X Rounds -> Root \cup {NoRoot}] /\ bound \subseteq Update

\* The inductive invariant.
IInv == TypeOK /\ HistoryOK /\ Ingress /\ Account /\ GivenUp
-----------------------------------------------------------------------------
(***************************************************************************)
(* Type correctness.                                                       *)
(***************************************************************************)

\* A message's kind says which set it is from.
LEMMA Kinds ==
  \A m \in Message : /\ m.kind = "update" <=> m \in Update
                     /\ m.kind = "commitment" <=> m \in Commitment
BY DEF Message, Update, Commitment, BadMessage

\* The first message and what is behind it.
LEMMA HeadTail ==
  ASSUME NEW s \in Seq(Message), s # <<>>
  PROVE  /\ Len(s) \in Nat \ {0} /\ 1 \in 1..Len(s)
         /\ Head(s) = s[1] /\ Head(s) \in Message
         /\ Tail(s) \in Seq(Message) /\ Len(Tail(s)) = Len(s) - 1
         /\ \A i \in 1..(Len(s) - 1) : Tail(s)[i] = s[i + 1]
<1>1. Len(s) \in Nat \ {0}
  BY EmptySeq
<1>2. Head(s) \in Message /\ Tail(s) \in Seq(Message) /\ Len(Tail(s)) = Len(s) - 1
      /\ \A i \in 1..Len(Tail(s)) : Tail(s)[i] = s[i + 1]
  BY HeadTailProperties
<1>3. Head(s) = s[1]
  BY HeadTailProperties
<1> QED BY <1>1, <1>2, <1>3

\* The part of TypeOK that depends on sequences, with the length of the history.
LEMMA Lengths == TypeOK => Len(inbox) \in Nat /\ Len(chain) \in Nat
BY LenProperties DEF TypeOK

LEMMA InitTypeOK == Init => TypeOK /\ HistoryOK
<1> SUFFICES ASSUME Init PROVE TypeOK /\ HistoryOK
  OBVIOUS
<1>1. inbox \in Seq(Message) /\ chain \in Seq(SUBSET Update)
  BY EmptySeq DEF Init
<1> QED BY <1>1, NetworkAssumption DEF Init, TypeOK, HistoryOK, Message, NetworkAssumption

\* close_round works on a round of the run.
InRun == pc # "idle" => round \in Rounds

LEMMA NextTypeOK ==
  TypeOK /\ HistoryOK /\ InRun /\ [Next]_vars => TypeOK' /\ HistoryOK' /\ InRun'
<1> SUFFICES ASSUME TypeOK, HistoryOK, InRun, [Next]_vars
             PROVE  TypeOK' /\ HistoryOK' /\ InRun'
  OBVIOUS
<1> USE DEF store, sent, budget, close
<1>1. inbox \in Seq(Message) /\ chain \in Seq(SUBSET Update)
  BY DEF TypeOK, Message
<1>2. ASSUME NEW m \in Message, Send(m) PROVE TypeOK'
  <2>1. inbox' \in Seq(Message)
    BY <1>1, <1>2, AppendProperties DEF Send
  <2> QED BY <1>2, <2>1 DEF Send, TypeOK, Message
<1>3. ASSUME NEW m \in Commitment, SendCommitment(m) PROVE TypeOK' /\ HistoryOK' /\ InRun'
  <2>1. TypeOK'
    BY <1>2, <1>3 DEF SendCommitment, Message
  <2>2. HistoryOK'
    BY <1>3 DEF SendCommitment, Send, HistoryOK, Commitment
  <2> QED BY <1>3, <2>1, <2>2 DEF SendCommitment, Send, InRun
<1>4. ASSUME NEW m \in Update, SendUpdate(m) PROVE TypeOK' /\ HistoryOK' /\ InRun'
  <2>1. TypeOK'
    BY <1>2, <1>4 DEF SendUpdate, Message
  <2>2. HistoryOK'
    BY <1>4 DEF SendUpdate, HistoryOK
  <2> QED BY <1>4, <2>1, <2>2 DEF SendUpdate, Send, InRun
<1>5. CASE SendMalformed
  <2>1. TypeOK'
    BY <1>2, <1>5 DEF SendMalformed, Message
  <2> QED BY <1>5, <2>1 DEF SendMalformed, Send, HistoryOK, InRun
<1>6. CASE Close
  BY <1>6, NetworkAssumption DEF Close, TypeOK, HistoryOK, InRun, Rounds, NetworkAssumption
<1>7. CASE RecvCommitment
  <2>1. inbox' \in Seq(Message) /\ Head(inbox) \in Commitment
    BY <1>1, <1>7, HeadTail, Kinds DEF RecvCommitment
  <2> QED BY <1>7, <2>1 DEF RecvCommitment, TypeOK, HistoryOK, InRun, Message, Commitment
<1>8. CASE RecvUpdate
  <2>1. inbox' \in Seq(Message) /\ Head(inbox) \in Update
    BY <1>1, <1>8, HeadTail, Kinds DEF RecvUpdate
  <2> QED BY <1>8, <2>1 DEF RecvUpdate, TypeOK, HistoryOK, InRun, Message
<1>9. CASE RecvRejected
  <2>1. inbox' \in Seq(Message)
    BY <1>1, <1>9, HeadTail DEF RecvRejected
  <2> QED BY <1>9, <2>1 DEF RecvRejected, Raise, TypeOK, HistoryOK, InRun, Message
<1>10. CASE PresentFixed
  BY <1>10 DEF PresentFixed, TypeOK, HistoryOK, InRun, Snapshot
<1>11. CASE BelowQuorum
  <2>1. retries \in Nat /\ abortedRounds \subseteq Nat /\ round \in Nat /\ CountRetry
    BY <1>11 DEF BelowQuorum, TypeOK
  <2>2. retries' \in Nat /\ abortedRounds' \subseteq Nat
    <3>1. CASE retries < RetryBudget
      <4>1. retries' = retries + 1 /\ abortedRounds' = abortedRounds
        BY <2>1, <3>1 DEF CountRetry
      <4> QED BY <2>1, <4>1
    <3>2. CASE ~ (retries < RetryBudget)
      <4>1. retries' = retries /\ abortedRounds' = abortedRounds \cup {round}
        BY <2>1, <3>2 DEF CountRetry
      <4> QED BY <2>1, <4>1
    <3> QED BY <3>1, <3>2
  <2> QED BY <1>11, <2>2 DEF BelowQuorum, Raise, TypeOK, HistoryOK, InRun
<1>15. CASE CollectedFixed \/ Misfit
  BY <1>15 DEF CollectedFixed, Misfit, Raise, TypeOK, HistoryOK, InRun, Snapshot
<1>12. CASE CommitRound
  <2>1. collected \in SUBSET Update
    BY DEF TypeOK
  <2>2. chain' \in Seq(SUBSET Update)
    BY <1>1, <1>12, <2>1, AppendProperties DEF CommitRound
  <2> QED BY <1>12, <2>2 DEF CommitRound, TypeOK, HistoryOK, InRun
<1>13. CASE OpenAndReport
  BY <1>13 DEF OpenAndReport, Raise, TypeOK, HistoryOK, InRun
<1>14. CASE UNCHANGED vars
  BY <1>14 DEF vars, TypeOK, HistoryOK, InRun
<1> QED
  BY <1>3, <1>4, <1>5, <1>6, <1>7, <1>8, <1>9, <1>10, <1>11, <1>12, <1>13, <1>14, <1>15
     DEF Next, Coordinator

\* TypeOK holds whatever is sent, when, and in which order.
THEOREM TypeCorrect == Spec => []TypeOK
<1>1. Init => InRun
  BY DEF Init, InRun
<1> QED BY <1>1, InitTypeOK, NextTypeOK, PTL DEF Spec
-----------------------------------------------------------------------------
(***************************************************************************)
(* The inbox: what a send and a receive do to the roots in it.             *)
(***************************************************************************)

\* The messages of the inbox are messages, whatever prefix one looks at.
LEMMA InboxType == TypeOK => inbox \in Seq(Message) /\ \A i \in 1..Len(inbox) : inbox[i] \in Message
BY ElementOfSeq DEF TypeOK, Message

\* There is one root after any number of messages.
LEMMA RootUnique ==
  ASSUME TypeOK, NEW k \in Nat, NEW p, NEW t, NEW r, NEW q,
         RootAfter(k, p, t, r), RootAfter(k, p, t, q)
  PROVE  r = q
<1>1. CASE \A j \in 1..k : ~ Commits(j, p, t)
  BY <1>1 DEF RootAfter
<1>2. CASE \E j \in 1..k : Commits(j, p, t)
  <2>1. PICK i \in 1..k : /\ Commits(i, p, t) /\ inbox[i].root = r
                         /\ \A l \in (i + 1)..k : ~ Commits(l, p, t)
    BY <1>2 DEF RootAfter
  <2>2. PICK j \in 1..k : /\ Commits(j, p, t) /\ inbox[j].root = q
                         /\ \A l \in (j + 1)..k : ~ Commits(l, p, t)
    BY <1>2 DEF RootAfter
  <2>3. i = j
    BY <2>1, <2>2
  <2> QED BY <2>1, <2>2, <2>3
<1> QED BY <1>1, <1>2

\* A message sent changes nothing before it.
LEMMA SendShift ==
  ASSUME TypeOK, NEW m \in Message, inbox' = Append(inbox, m), roots' = roots
  PROVE  /\ Len(inbox') = Len(inbox) + 1 /\ Len(inbox) \in Nat
         /\ inbox'[Len(inbox) + 1] = m
         /\ \A i \in 1..Len(inbox) : inbox'[i] = inbox[i]
         /\ \A k \in 0..Len(inbox) : \A p, t, r :
              RootAfter(k, p, t, r)' <=> RootAfter(k, p, t, r)
<1>1. /\ Len(inbox') = Len(inbox) + 1 /\ Len(inbox) \in Nat
      /\ inbox'[Len(inbox) + 1] = m
      /\ \A i \in 1..Len(inbox) : inbox'[i] = inbox[i]
  BY InboxType, Lengths, AppendProperties
<1>2. \A k \in 0..Len(inbox) : \A i \in 1..k : i \in 1..Len(inbox)
  BY <1>1
<1>3. \A i \in 1..Len(inbox) : \A p, t : Commits(i, p, t)' <=> Commits(i, p, t)
  BY <1>1 DEF Commits
<1>4. ASSUME NEW k \in 0..Len(inbox), NEW p, NEW t, NEW r
      PROVE  RootAfter(k, p, t, r)' <=> RootAfter(k, p, t, r)
  <2>1. \A j \in 1..k : \A l \in (j + 1)..k : l \in 1..k
    BY <1>1
  <2> QED BY <1>1, <1>2, <1>3, <2>1 DEF RootAfter
<1> QED BY <1>1, <1>4

\* After the message itself: a Commitment's root for its participant and round.
LEMMA SentRoot ==
  ASSUME TypeOK, NEW m \in Message, inbox' = Append(inbox, m), roots' = roots,
         NEW p, NEW t, NEW r,
         IF m.kind = "commitment" /\ m.who = p /\ m.round = t THEN m.root = r
         ELSE RootAfter(Len(inbox), p, t, r)
  PROVE  RootAfter(Len(inbox), p, t, r)'
<1>n. PICK n \in Nat : n = Len(inbox)
  BY Lengths
<1>1. /\ Len(inbox') = n + 1 /\ n \in Nat /\ inbox'[n + 1] = m
      /\ \A i \in 1..n : inbox'[i] = inbox[i]
      /\ RootAfter(n, p, t, r)' <=> RootAfter(n, p, t, r)
  BY <1>n, SendShift
<1>2. Commits(n + 1, p, t)' <=> m.kind = "commitment" /\ m.who = p /\ m.round = t
  BY <1>1 DEF Commits
<1>3. CASE Commits(n + 1, p, t)'
  <2>1. inbox'[n + 1].root = r /\ n + 1 \in 1..(n + 1)
    BY <1>1, <1>2, <1>3
  <2>2. \A l \in (n + 1 + 1)..(n + 1) : FALSE
    BY <1>1
  <2> QED BY <1>1, <1>3, <2>1, <2>2 DEF RootAfter
<1>4. CASE ~ Commits(n + 1, p, t)'
  <2>1. RootAfter(n, p, t, r)'
    BY <1>1, <1>n, <1>2, <1>4
  <2>2. \A i : i \in 1..(n + 1) <=> i \in 1..n \/ i = n + 1
    BY <1>1
  <2>3. \A j \in 1..n : \A l \in (j + 1)..(n + 1) : l \in (j + 1)..n \/ l = n + 1
    BY <1>1
  <2> QED BY <1>1, <1>4, <2>1, <2>2, <2>3 DEF RootAfter
<1> QED BY <1>3, <1>4

\* What a receive does to the inbox and the roots, whatever kind of message.
Receives ==
  /\ inbox # <<>> /\ inbox' = Tail(inbox)
  /\ roots' = IF Head(inbox).kind = "commitment"
              THEN [roots EXCEPT ![<<Head(inbox).who, Head(inbox).round>>] = Head(inbox).root]
              ELSE roots

\* A receive moves every message one place forward and keeps the root it meets.
LEMMA ReceiveShift ==
  ASSUME TypeOK, Receives
  PROVE  /\ Len(inbox) \in Nat \ {0} /\ Len(inbox') = Len(inbox) - 1
         /\ \A i \in 1..(Len(inbox) - 1) : inbox'[i] = inbox[i + 1]
         /\ \A k \in 1..Len(inbox) : \A p \in Participant, t \in Rounds : \A r :
              RootAfter(k, p, t, r) => RootAfter(k - 1, p, t, r)'
         /\ \A k \in 1..Len(inbox) : \A p \in Participant, t \in Rounds : \A r :
              RootAfter(k - 1, p, t, r)' => RootAfter(k, p, t, r)
<1>1. /\ Len(inbox) \in Nat \ {0} /\ Len(inbox') = Len(inbox) - 1
      /\ Head(inbox) = inbox[1] /\ inbox[1] \in Message
      /\ \A i \in 1..(Len(inbox) - 1) : inbox'[i] = inbox[i + 1]
  BY InboxType, HeadTail DEF Receives
<1>2. \A i \in 1..(Len(inbox) - 1) : \A p, t :
        (Commits(i, p, t)' <=> Commits(i + 1, p, t)) /\ inbox'[i].root = inbox[i + 1].root
  BY <1>1 DEF Commits
<1>3. ASSUME NEW p \in Participant, NEW t \in Rounds
      PROVE  roots'[<<p, t>>] = IF Commits(1, p, t) THEN inbox[1].root ELSE roots[<<p, t>>]
  <2>1. roots \in [Participant \X Rounds -> Root \cup {NoRoot}]
    BY DEF TypeOK
  <2>2. inbox[1].kind = "commitment" =>
          inbox[1].who \in Participant /\ inbox[1].round \in Rounds
    BY <1>1, Kinds DEF Commitment
  <2>3. <<p, t>> = <<inbox[1].who, inbox[1].round>> <=> p = inbox[1].who /\ t = inbox[1].round
    OBVIOUS
  <2> QED BY <1>1, <2>1, <2>2, <2>3 DEF Receives, Commits
<1>4. ASSUME NEW k \in 1..Len(inbox), NEW p \in Participant, NEW t \in Rounds, NEW r,
             RootAfter(k, p, t, r)
      PROVE  RootAfter(k - 1, p, t, r)'
  <2>1. k \in Nat \ {0} /\ \A j \in 1..(k - 1) : j \in 1..(Len(inbox) - 1) /\ j + 1 \in 1..k
    BY <1>1
  <2>2. CASE \A j \in 1..k : ~ Commits(j, p, t)
    <3>1. roots'[<<p, t>>] = r
      BY <1>3, <1>4, <2>1, <2>2 DEF RootAfter
    <3>2. \A j \in 1..(k - 1) : ~ Commits(j, p, t)'
      BY <1>2, <2>1, <2>2
    <3> QED BY <3>1, <3>2 DEF RootAfter
  <2>3. CASE \E j \in 1..k : Commits(j, p, t)
    <3>1. PICK j \in 1..k : /\ Commits(j, p, t) /\ inbox[j].root = r
                           /\ \A l \in (j + 1)..k : ~ Commits(l, p, t)
      BY <2>3, <1>4 DEF RootAfter
    <3>2. \A l \in 1..(k - 1) : l >= j => ~ Commits(l, p, t)'
      BY <1>2, <2>1, <3>1
    <3>3. CASE j = 1
      <4>1. roots'[<<p, t>>] = r
        BY <1>3, <3>1, <3>3
      <4>2. \A l \in 1..(k - 1) : ~ Commits(l, p, t)'
        BY <2>1, <3>2, <3>3
      <4> QED BY <4>1, <4>2 DEF RootAfter
    <3>4. CASE j > 1
      <4>1. j - 1 \in 1..(k - 1) /\ j - 1 \in 1..(Len(inbox) - 1) /\ j - 1 + 1 = j
        BY <2>1, <3>4
      <4>2. Commits(j - 1, p, t)' /\ inbox'[j - 1].root = r
        BY <1>2, <3>1, <4>1
      <4>3. \A l \in (j - 1 + 1)..(k - 1) : ~ Commits(l, p, t)'
        BY <2>1, <3>2, <4>1
      <4> QED BY <4>1, <4>2, <4>3 DEF RootAfter
    <3> QED BY <3>3, <3>4
  <2> QED BY <2>2, <2>3
<1>5. ASSUME NEW k \in 1..Len(inbox), NEW p \in Participant, NEW t \in Rounds, NEW r,
             RootAfter(k - 1, p, t, r)'
      PROVE  RootAfter(k, p, t, r)
  <2>1. k \in Nat \ {0} /\ \A j \in 1..(k - 1) : j \in 1..(Len(inbox) - 1) /\ j + 1 \in 1..k
    BY <1>1
  <2>2. \A l \in 2..k : l - 1 \in 1..(k - 1) /\ l - 1 + 1 = l
    BY <2>1
  <2>3. \A l \in 2..k : Commits(l, p, t) <=> Commits(l - 1, p, t)'
    BY <1>2, <2>1, <2>2
  <2>4. CASE \A j \in 1..(k - 1) : ~ Commits(j, p, t)'
    <3>1. roots'[<<p, t>>] = r
      BY <1>5, <2>4 DEF RootAfter
    <3>2. \A l \in 2..k : ~ Commits(l, p, t)
      BY <2>2, <2>3, <2>4
    <3>3. CASE Commits(1, p, t)
      BY <1>3, <2>1, <3>1, <3>2, <3>3 DEF RootAfter
    <3>4. CASE ~ Commits(1, p, t)
      <4>1. \A l \in 1..k : ~ Commits(l, p, t)
        BY <2>1, <3>2, <3>4
      <4> QED BY <1>3, <3>1, <3>4, <4>1 DEF RootAfter
    <3> QED BY <3>3, <3>4
  <2>5. CASE \E j \in 1..(k - 1) : Commits(j, p, t)'
    <3>1. PICK j \in 1..(k - 1) : /\ Commits(j, p, t)' /\ inbox'[j].root = r
                                 /\ \A l \in (j + 1)..(k - 1) : ~ Commits(l, p, t)'
      BY <2>5, <1>5 DEF RootAfter
    <3>2. j + 1 \in 1..k /\ Commits(j + 1, p, t) /\ inbox[j + 1].root = r
      BY <1>2, <2>1, <3>1
    <3>3. \A l \in (j + 1 + 1)..k : l \in 2..k /\ l - 1 \in (j + 1)..(k - 1)
      BY <2>1, <3>1
    <3>4. \A l \in (j + 1 + 1)..k : ~ Commits(l, p, t)
      BY <2>3, <3>1, <3>3
    <3> QED BY <3>2, <3>4 DEF RootAfter
  <2> QED BY <2>4, <2>5
<1> QED BY <1>1, <1>4, <1>5
-----------------------------------------------------------------------------
(***************************************************************************)
(* Ingress.                                                                *)
(***************************************************************************)

\* Sending: an Update is bound exactly when the inbox will find it bound.
LEMMA SendKeepsIngress ==
  ASSUME TypeOK, HistoryOK, Ingress, NEW m \in Message,
         inbox' = Append(inbox, m), UNCHANGED store,
         \/ m.kind = "commitment" /\ bound' = bound
            /\ declared' = [declared EXCEPT ![<<m.who, m.round>>] = m.root]
         \/ m.kind = "update" /\ declared' = declared
            /\ bound' = IF declared[<<m.who, m.round>>] = m.root THEN bound \cup {m} ELSE bound
         \/ m.kind = "malformed" /\ declared' = declared /\ bound' = bound
  PROVE  Ingress'
<1> USE DEF store
<1>n. PICK n \in Nat : n = Len(inbox)
  BY Lengths
<1>1. /\ Len(inbox') = n + 1 /\ inbox'[n + 1] = m
      /\ \A i \in 1..n : inbox'[i] = inbox[i]
      /\ \A k \in 0..n : \A p, t, r : RootAfter(k, p, t, r)' <=> RootAfter(k, p, t, r)
  BY <1>n, SendShift
<1>2. bound \subseteq bound'
  OBVIOUS
<1>3. \A i \in 1..n : i - 1 \in 0..n /\ i \in 1..(n + 1)
  OBVIOUS
<1>4. \A i \in 1..n : WillBeBound(i)' <=> WillBeBound(i)
  BY <1>1, <1>3 DEF WillBeBound
<1>5. WillBeBound(n + 1)' <=> m.kind = "update" /\ RootAfter(n, m.who, m.round, m.root)
  BY <1>1 DEF WillBeBound
<1>6. DeclaredArrives'
  <2>1. ASSUME NEW p \in Participant, NEW t \in Rounds
        PROVE  \E r : r = declared'[<<p, t>>] /\ RootAfter(Len(inbox), p, t, r)'
    <3>1. RootAfter(Len(inbox), p, t, declared[<<p, t>>])
      BY DEF Ingress, DeclaredArrives
    <3>2. m.kind = "commitment" => m.who \in Participant /\ m.round \in Rounds
      BY Kinds DEF Commitment
    <3>3. IF m.kind = "commitment" /\ m.who = p /\ m.round = t
          THEN declared'[<<p, t>>] = m.root
          ELSE declared'[<<p, t>>] = declared[<<p, t>>]
      BY <3>2 DEF HistoryOK
    <3>4. PICK r : r = declared'[<<p, t>>]
      OBVIOUS
    <3>5. RootAfter(Len(inbox), p, t, r)'
      BY <3>1, <3>3, <3>4, SentRoot
    <3> QED BY <3>4, <3>5
  <2> QED BY <2>1 DEF DeclaredArrives, RootAfter
<1>7. m.kind = "update" =>
        (RootAfter(n, m.who, m.round, m.root) <=> declared[<<m.who, m.round>>] = m.root)
  <2>1. m.kind = "update" => RootAfter(n, m.who, m.round, declared[<<m.who, m.round>>])
    BY <1>n, Kinds DEF Ingress, DeclaredArrives, Update
  <2> QED BY <2>1, RootUnique
<1>8. AcceptedWasBound'
  <2>1. WillBeBound(n + 1)' => m \in bound'
    BY <1>5, <1>7
  <2>2. \A i \in 1..(n + 1) : i \in 1..n \/ i = n + 1
    OBVIOUS
  <2> QED BY <1>n, <1>1, <1>2, <1>4, <2>1, <2>2 DEF Ingress, AcceptedWasBound
<1>9. BoundArrives'
  <2>1. ASSUME NEW b \in bound
        PROVE  (\E i \in 1..Len(inbox') : inbox'[i] = b /\ WillBeBound(i)') \/ Present(b)'
    <3>1. Present(b) => Present(b)'
      BY DEF Present
    <3>2. CASE \E i \in 1..n : inbox[i] = b /\ WillBeBound(i)
      BY <1>1, <1>3, <1>4, <3>2
    <3> QED BY <1>n, <3>1, <3>2 DEF Ingress, BoundArrives
  <2>2. ASSUME m \in bound', m \notin bound
        PROVE  \E i \in 1..Len(inbox') : inbox'[i] = m /\ WillBeBound(i)'
    <3>1. m.kind = "update" /\ declared[<<m.who, m.round>>] = m.root
      BY <2>2
    <3>2. n + 1 \in 1..Len(inbox')
      BY <1>1
    <3> QED BY <1>1, <1>5, <1>7, <3>1, <3>2
  <2>3. \A b \in bound' : b \in bound \/ b = m
    OBVIOUS
  <2> QED BY <2>1, <2>2, <2>3 DEF BoundArrives
<1>10. validated' \subseteq bound' /\ OneEach'
  BY <1>2 DEF Ingress, OneEach
<1> QED BY <1>6, <1>8, <1>9, <1>10 DEF Ingress

\* Receiving: an update leaves the inbox bound exactly when it was bound there.
LEMMA ReceiveKeepsIngress ==
  ASSUME TypeOK, HistoryOK, Ingress, Receives, UNCHANGED <<declared, bound>>,
         \/ validated' = validated /\ ~ (Head(inbox).kind = "update" /\ IsBound(Head(inbox)))
         \/ /\ Head(inbox).kind = "update" /\ IsBound(Head(inbox))
            /\ validated' = {u \in validated : u.who # Head(inbox).who
                                              \/ u.round # Head(inbox).round}
                              \cup {Head(inbox)}
  PROVE  Ingress' /\ \A u \in validated : Present(u)'
<1>n. PICK n \in Nat : n = Len(inbox)
  BY Lengths
<1>1. /\ n > 0 /\ Len(inbox') = n - 1
      /\ \A i \in 1..(n - 1) : inbox'[i] = inbox[i + 1]
      /\ \A k \in 1..n : \A p \in Participant, t \in Rounds : \A r :
           RootAfter(k, p, t, r) <=> RootAfter(k - 1, p, t, r)'
  BY <1>n, ReceiveShift
<1>2. Head(inbox) = inbox[1] /\ \A i \in 1..n : inbox[i] \in Message
  BY <1>n, InboxType, HeadTail DEF Receives
<1>3. DeclaredArrives'
  <2>1. n \in 1..n
    BY <1>1
  <2>2. ASSUME NEW p \in Participant, NEW t \in Rounds
        PROVE  RootAfter(n - 1, p, t, declared[<<p, t>>])'
    BY <1>n, <1>1, <2>1 DEF Ingress, DeclaredArrives
  <2> QED BY <1>1, <2>2 DEF DeclaredArrives
<1>4. \A i \in 1..(n - 1) : WillBeBound(i)' <=> WillBeBound(i + 1)
  <2> SUFFICES ASSUME NEW i \in 1..(n - 1) PROVE WillBeBound(i)' <=> WillBeBound(i + 1)
    OBVIOUS
  <2>1. inbox'[i] = inbox[i + 1] /\ i \in 1..n /\ i + 1 \in 1..n /\ i + 1 - 1 = i
    BY <1>1
  <2>2. inbox[i + 1].kind = "update" =>
          inbox[i + 1].who \in Participant /\ inbox[i + 1].round \in Rounds
    BY <1>2, <2>1, Kinds DEF Update
  <2> QED BY <1>1, <2>1, <2>2 DEF WillBeBound
<1>5. WillBeBound(1) <=> inbox[1].kind = "update" /\ IsBound(inbox[1])
  BY DEF WillBeBound, RootAfter, IsBound
<1>6. AcceptedWasBound'
  <2>1. \A i \in 1..(n - 1) : i + 1 \in 1..n
    OBVIOUS
  <2> QED BY <1>n, <1>1, <1>4, <2>1 DEF Ingress, AcceptedWasBound
<1>7. \A b : Present(b) => Present(b)'
  BY DEF Present
<1>8. BoundArrives'
  <2> SUFFICES ASSUME NEW b \in bound
               PROVE  (\E i \in 1..Len(inbox') : inbox'[i] = b /\ WillBeBound(i)') \/ Present(b)'
    BY DEF BoundArrives
  <2>1. CASE Present(b)
    BY <1>7, <2>1
  <2>2. CASE \E i \in 1..n : inbox[i] = b /\ WillBeBound(i)
    <3>1. PICK i \in 1..n : inbox[i] = b /\ WillBeBound(i)
      BY <2>2
    <3>2. CASE i = 1
      <4>1. b = Head(inbox) /\ b.kind = "update" /\ IsBound(b)
        BY <1>2, <1>5, <3>1, <3>2
      <4> QED BY <4>1 DEF Present
    <3>3. CASE i > 1
      <4>1. i - 1 \in 1..(n - 1) /\ i - 1 + 1 = i
        BY <3>3
      <4> QED BY <1>1, <1>4, <3>1, <4>1
    <3> QED BY <3>2, <3>3
  <2> QED BY <1>n, <2>1, <2>2 DEF Ingress, BoundArrives
<1>9. validated' \subseteq bound'
  <2>1. Head(inbox).kind = "update" /\ IsBound(Head(inbox)) => Head(inbox) \in bound
    BY <1>n, <1>1, <1>2, <1>5 DEF Ingress, AcceptedWasBound
  <2> QED BY <2>1 DEF Ingress
<1>10. OneEach'
  BY DEF Ingress, OneEach
<1>11. \A u \in validated : Present(u)'
  BY <1>7 DEF Present
<1> QED BY <1>3, <1>6, <1>8, <1>9, <1>10, <1>11 DEF Ingress
-----------------------------------------------------------------------------
(***************************************************************************)
(* The account: what is averaged and reported.                             *)
(***************************************************************************)

\* As long as nothing is committed and nobody leaves the present set, the
\* account stands; a new attempt begins without a collection.
LEMMA AccountStands ==
  ASSUME IInv, UNCHANGED <<round, chain, reports>>, bound \subseteq bound',
         \A u \in validated : Present(u)',
         pc = "attempt" => UNCHANGED validated,
         \/ UNCHANGED <<pc, present, collected>>
         \/ pc' \in {"idle", "present"} /\ present' = {} /\ pc # "open"
            /\ (pc' # "idle" => round \in Rounds)
  PROVE  Account'
<1>1. Contributors(Snapshot(round)) \subseteq Contributors(Snapshot(round)')
  BY DEF Contributors, Snapshot, Present
<1>2. AtStep'
  <2>1. CASE UNCHANGED <<pc, present, collected>>
    <3>1. pc = "attempt" => Snapshot(round)' = Snapshot(round)
      BY DEF Snapshot
    <3> QED BY <1>1, <2>1, <3>1 DEF IInv, Account, AtStep
  <2>2. CASE pc' \in {"idle", "present"} /\ present' = {} /\ pc # "open"
             /\ (pc' # "idle" => round \in Rounds)
    BY <2>2 DEF IInv, Account, AtStep
  <2> QED BY <2>1, <2>2
<1>3. AveragedWasBound' /\ ReportWithinRecord' /\ \A r \in reports' : r.round < Len(chain')
  BY DEF IInv, Account, AveragedWasBound, ReportWithinRecord
<1> QED BY <1>2, <1>3 DEF Account

\* The commit averages a snapshot, which is bound and has everyone the first
\* collection had.
LEMMA CommitAccount ==
  ASSUME IInv, CommitRound
  PROVE  Account'
<1>1. /\ round \in Rounds /\ round \in Nat /\ Len(chain) = round
      /\ chain \in Seq(SUBSET Update) /\ Snapshot(round) \in SUBSET Update
      /\ collected = Snapshot(round) /\ \A u \in collected : u.fits
  BY DEF IInv, Account, AtStep, TypeOK, CommitRound, Snapshot
<1>2. /\ chain' = Append(chain, Snapshot(round)) /\ pc = "attempt" /\ pc' = "open"
      /\ UNCHANGED <<validated, round, present, reports, bound>>
  BY <1>1 DEF CommitRound, store, sent
<1>3. /\ Len(chain') = round + 1 /\ chain'[round + 1] = Snapshot(round)
      /\ \A i \in 1..round : chain'[i] = chain[i]
  BY <1>1, <1>2, AppendProperties
<1>4. AtStep'
  BY <1>1, <1>2, <1>3 DEF IInv, Account, AtStep
<1>5. AveragedWasBound'
  <2> SUFFICES ASSUME NEW i \in 1..Len(chain')
               PROVE  chain'[i] \subseteq {u \in bound' : u.round = i - 1 /\ u.fits}
    BY DEF AveragedWasBound
  <2>1. CASE i = round + 1
    BY <1>1, <1>2, <1>3, <2>1 DEF IInv, Ingress, Snapshot
  <2>2. CASE i \in 1..round
    BY <1>1, <1>2, <1>3, <2>2 DEF IInv, Account, AveragedWasBound
  <2> QED BY <1>1, <1>3, <2>1, <2>2
<1>6. ASSUME NEW r \in reports'
      PROVE  /\ r.round < Len(chain')
             /\ Contributors(r.updates) \subseteq Contributors(chain'[r.round + 1])
  <2>1. r \in reports /\ r.round \in Nat /\ r.round < round
    BY <1>1, <1>2, <1>6 DEF IInv, Account, TypeOK, Rounds
  <2>2. Contributors(r.updates) \subseteq Contributors(chain[r.round + 1])
    BY <2>1 DEF IInv, Account, ReportWithinRecord
  <2>3. r.round + 1 \in 1..round
    BY <1>1, <2>1
  <2> QED BY <1>1, <1>3, <2>1, <2>2, <2>3
<1> QED BY <1>4, <1>5, <1>6 DEF Account, ReportWithinRecord

\* The report of the round that was just committed.
LEMMA ReportAccount ==
  ASSUME IInv, OpenAndReport
  PROVE  Account'
<1>1. /\ round \in Rounds /\ round \in Nat /\ Len(chain) = round + 1
      /\ Contributors(present) \subseteq Contributors(chain[round + 1])
  BY DEF IInv, Account, AtStep, TypeOK, OpenAndReport
<1>2. /\ round' = round + 1 /\ pc' = "idle" /\ present' = {}
      /\ reports' \subseteq reports \cup {[round |-> round, updates |-> present]}
      /\ UNCHANGED <<validated, chain, bound>>
  BY DEF OpenAndReport, Raise, store, sent
<1>3. AtStep'
  BY <1>1, <1>2 DEF AtStep
<1>4. AveragedWasBound'
  BY <1>2 DEF IInv, Account, AveragedWasBound
<1>5. ASSUME NEW r \in reports'
      PROVE  /\ r.round < Len(chain')
             /\ Contributors(r.updates) \subseteq Contributors(chain'[r.round + 1])
  <2>1. CASE r \in reports
    BY <1>2, <2>1 DEF IInv, Account, ReportWithinRecord
  <2>2. CASE r = [round |-> round, updates |-> present]
    BY <1>1, <1>2, <2>2
  <2> QED BY <1>2, <2>1, <2>2
<1> QED BY <1>3, <1>4, <1>5 DEF Account, ReportWithinRecord
-----------------------------------------------------------------------------
LEMMA InitIInv == Init => IInv
<1> SUFFICES ASSUME Init PROVE IInv
  OBVIOUS
<1>1. TypeOK /\ HistoryOK
  BY InitTypeOK
<1>2. Len(inbox) = 0 /\ Len(chain) = 0
  BY EmptySeq DEF Init
<1>3. DeclaredArrives
  BY <1>2 DEF Init, DeclaredArrives, RootAfter
<1>4. AcceptedWasBound /\ BoundArrives /\ validated \subseteq bound /\ OneEach
  BY <1>2 DEF Init, AcceptedWasBound, BoundArrives, OneEach
<1>5. Account
  BY <1>2 DEF Init, Account, AtStep, AveragedWasBound, ReportWithinRecord
<1>6. GivenUp
  BY DEF Init, GivenUp, GivenUpForLack
<1> QED BY <1>1, <1>3, <1>4, <1>5, <1>6 DEF IInv, Ingress

\* What neither sends nor receives leaves ingress as it is.
LEMMA IngressStands ==
  ASSUME Ingress, UNCHANGED <<inbox, store, declared, bound>>
  PROVE  Ingress'
<1> USE DEF store
<1>1. \A k, p, t, r : RootAfter(k, p, t, r)' <=> RootAfter(k, p, t, r)
  BY DEF RootAfter, Commits
<1>2. \A i : WillBeBound(i)' <=> WillBeBound(i)
  BY <1>1 DEF WillBeBound
<1>3. \A m : Present(m)' <=> Present(m)
  BY DEF Present
<1>4. DeclaredArrives'
  <2>1. ASSUME NEW p \in Participant, NEW t \in Rounds
        PROVE  \E n, r : /\ n = Len(inbox') /\ r = declared'[<<p, t>>]
                        /\ RootAfter(n, p, t, r)'
    <3>1. PICK n, r : n = Len(inbox) /\ r = declared[<<p, t>>]
      OBVIOUS
    <3>2. RootAfter(n, p, t, r)
      BY <3>1 DEF Ingress, DeclaredArrives
    <3>3. RootAfter(n, p, t, r)'
      BY <1>1, <3>2
    <3> QED BY <3>1, <3>3
  <2> QED BY <2>1 DEF DeclaredArrives, RootAfter
<1> QED
  BY <1>2, <1>3, <1>4 DEF Ingress, AcceptedWasBound, BoundArrives, OneEach

\* Nothing is received for a round given up, and none is given up with a quorum.
LEMMA NextGivenUp == IInv /\ [Next]_vars => GivenUp'
<1> SUFFICES ASSUME IInv, [Next]_vars PROVE GivenUp'
  OBVIOUS
<1> USE DEF store, sent, budget, close
<1>0. /\ GivenUp
      /\ pc = "attempt" => collected = Snapshot(round)
  BY DEF IInv, Account, AtStep
<1>1. ASSUME UNCHANGED <<validated, abortedRounds, round>>, pc' = "idle" \/ pc' = pc
      PROVE  GivenUp'
  BY <1>0, <1>1 DEF GivenUp, GivenUpForLack, Snapshot
<1>2. ASSUME UNCHANGED abortedRounds, pc # "idle" PROVE GivenUp'
  BY <1>0, <1>2 DEF GivenUp, GivenUpForLack
<1>3. CASE Close
  BY <1>0, <1>3 DEF Close, GivenUp, GivenUpForLack
<1>4. CASE BelowQuorum
  <2>1. /\ pc = "attempt" /\ pc' = "idle" /\ abortedRounds = {}
        /\ UNCHANGED <<validated, round>>
        /\ Cardinality(Contributors(Snapshot(round))) < Quorum
    BY <1>0, <1>4 DEF BelowQuorum, Raise, GivenUp
  <2>2. abortedRounds' \subseteq {round}
    BY <1>4, <2>1 DEF BelowQuorum, CountRetry
  <2>3. Snapshot(round)' = Snapshot(round)
    BY <2>1 DEF Snapshot
  <2> QED BY <2>1, <2>2, <2>3 DEF GivenUp, GivenUpForLack, Snapshot
<1>5. CASE RecvCommitment \/ RecvUpdate \/ RecvRejected
  BY <1>2, <1>5 DEF RecvCommitment, RecvUpdate, RecvRejected, Collecting
<1>6. CASE PresentFixed \/ CollectedFixed \/ Misfit \/ CommitRound \/ OpenAndReport
  BY <1>2, <1>6 DEF PresentFixed, CollectedFixed, Misfit, CommitRound, OpenAndReport
<1>7. ASSUME NEW m, Send(m) PROVE GivenUp'
  BY <1>1, <1>7 DEF Send
<1>8. CASE UNCHANGED vars
  BY <1>1, <1>8 DEF vars
<1> QED
  BY <1>3, <1>4, <1>5, <1>6, <1>7, <1>8
     DEF Next, Coordinator, SendCommitment, SendUpdate, SendMalformed

LEMMA NextIInv == IInv /\ [Next]_vars => IInv'
<1> SUFFICES ASSUME IInv, [Next]_vars PROVE IInv'
  OBVIOUS
<1> USE DEF store, sent, budget, close
<1>1. TypeOK' /\ HistoryOK'
  BY NextTypeOK DEF IInv, Account, AtStep, InRun
<1>2. ASSUME Ingress', Account' PROVE IInv'
  BY <1>1, <1>2, NextGivenUp DEF IInv
<1>3. TypeOK /\ HistoryOK /\ Ingress
  BY DEF IInv
<1>4. \A u \in validated : Present(u)
  BY DEF Present
<1>5. ASSUME NEW m \in Message, Send(m), Ingress', bound \subseteq bound' PROVE IInv'
  <2>1. \A u \in validated : Present(u)'
    BY <1>4, <1>5 DEF Send, Present
  <2> QED BY <1>2, <1>5, <2>1, AccountStands DEF Send
<1>6. ASSUME NEW m \in Commitment, SendCommitment(m) PROVE IInv'
  <2>1. m \in Message /\ m.kind = "commitment"
    BY DEF Message, Commitment
  <2>2. Ingress'
    BY <1>3, <1>6, <2>1, SendKeepsIngress DEF SendCommitment, Send
  <2> QED BY <1>5, <1>6, <2>1, <2>2 DEF SendCommitment
<1>7. ASSUME NEW m \in Update, SendUpdate(m) PROVE IInv'
  <2>1. m \in Message /\ m.kind = "update"
    BY DEF Message, Update
  <2>2. Ingress'
    BY <1>3, <1>7, <2>1, SendKeepsIngress DEF SendUpdate, Send
  <2> QED BY <1>5, <1>7, <2>1, <2>2 DEF SendUpdate
<1>8. CASE SendMalformed
  <2>1. BadMessage \in Message /\ BadMessage.kind = "malformed"
    BY DEF Message, BadMessage
  <2>2. Ingress'
    BY <1>3, <1>8, <2>1, SendKeepsIngress DEF SendMalformed, Send
  <2> QED BY <1>5, <1>8, <2>1, <2>2 DEF SendMalformed
<1>9. CASE Close
  <2>1. Ingress'
    BY <1>3, <1>9, IngressStands DEF Close
  <2>2. \A u \in validated : Present(u)'
    BY <1>4, <1>9 DEF Close, Present
  <2>3. round \in Rounds /\ present = {}
    BY <1>9, NetworkAssumption
       DEF Close, IInv, TypeOK, Account, AtStep, Rounds, NetworkAssumption
  <2>4. Account'
    BY <1>9, <2>2, <2>3, AccountStands DEF Close
  <2> QED BY <1>2, <2>1, <2>4
<1>10. CASE RecvCommitment
  <2>1. Receives /\ validated' = validated /\ Head(inbox).kind = "commitment"
    BY <1>10 DEF RecvCommitment, Receives
  <2>2. Ingress' /\ \A u \in validated : Present(u)'
    BY <1>3, <1>10, <2>1, ReceiveKeepsIngress DEF RecvCommitment
  <2>3. Account'
    BY <1>10, <2>2, AccountStands DEF RecvCommitment, Collecting
  <2> QED BY <1>2, <2>2, <2>3
<1>11. CASE RecvUpdate
  <2>1. Receives
    BY <1>11 DEF RecvUpdate, Receives
  <2>2. Ingress' /\ \A u \in validated : Present(u)'
    BY <1>3, <1>11, <2>1, ReceiveKeepsIngress DEF RecvUpdate
  <2>3. Account'
    BY <1>11, <2>2, AccountStands DEF RecvUpdate, Collecting
  <2> QED BY <1>2, <2>2, <2>3
<1>12. CASE RecvRejected
  <2>1. Receives /\ validated' = validated
        /\ ~ (Head(inbox).kind = "update" /\ IsBound(Head(inbox)))
    BY <1>12 DEF RecvRejected, Receives
  <2>2. Ingress' /\ \A u \in validated : Present(u)'
    BY <1>3, <1>12, <2>1, ReceiveKeepsIngress DEF RecvRejected
  <2>3. Account'
    BY <1>12, <2>2, AccountStands DEF RecvRejected, Raise, Collecting
  <2> QED BY <1>2, <2>2, <2>3
<1>13. CASE PresentFixed
  <2>1. Ingress'
    BY <1>3, <1>13, IngressStands DEF PresentFixed
  <2>2. Account'
    BY <1>13 DEF PresentFixed, IInv, Account, AtStep, AveragedWasBound, ReportWithinRecord,
                 Snapshot
  <2> QED BY <1>2, <2>1, <2>2
<1>14. CASE BelowQuorum \/ Misfit
  <2>1. UNCHANGED <<inbox, store, round, chain, reports, sent>> /\ Raise /\ pc = "attempt"
    BY <1>14 DEF BelowQuorum, Misfit
  <2>2. Ingress'
    BY <1>3, <2>1, IngressStands
  <2>3. \A u \in validated : Present(u)'
    BY <1>4, <2>1 DEF Present
  <2>4. Account'
    BY <2>1, <2>3, AccountStands DEF Raise
  <2> QED BY <1>2, <2>2, <2>4
<1>18. CASE CollectedFixed
  <2>1. Ingress'
    BY <1>3, <1>18, IngressStands DEF CollectedFixed
  <2>2. Account'
    BY <1>18 DEF CollectedFixed, IInv, Account, AtStep, AveragedWasBound, ReportWithinRecord,
                 Snapshot
  <2> QED BY <1>2, <2>1, <2>2
<1>15. CASE CommitRound
  <2>1. Ingress'
    BY <1>3, <1>15, IngressStands DEF CommitRound
  <2> QED BY <1>2, <1>15, <2>1, CommitAccount
<1>16. CASE OpenAndReport
  <2>1. Ingress'
    BY <1>3, <1>16, IngressStands DEF OpenAndReport
  <2> QED BY <1>2, <1>16, <2>1, ReportAccount
<1>17. CASE UNCHANGED vars
  <2>1. Ingress'
    BY <1>3, <1>17, IngressStands DEF vars
  <2>2. \A u \in validated : Present(u)'
    BY <1>4, <1>17 DEF vars, Present
  <2>3. Account'
    BY <1>17, <2>2, AccountStands DEF vars
  <2> QED BY <1>2, <2>1, <2>3
<1> QED
  BY <1>6, <1>7, <1>8, <1>9, <1>10, <1>11, <1>12, <1>13, <1>14, <1>15, <1>16, <1>17, <1>18
     DEF Next, Coordinator

\* IInv is an invariant.
LEMMA Inductive == Spec => []IInv
BY InitIInv, NextIInv, PTL DEF Spec

\* No update is averaged that its participant had not bound when it sent it.
THEOREM OnlyBoundIsAveraged == Spec => []AveragedWasBound
<1>1. IInv => AveragedWasBound
  BY DEF IInv, Account
<1> QED BY <1>1, Inductive, PTL

\* No rejected message, and no exception, costs a bound update.
THEOREM BoundIsKept == Spec => []NoUpdateLost
<1>1. IInv => NoUpdateLost
  BY DEF IInv, Ingress, BoundArrives, Present, NoUpdateLost
<1> QED BY <1>1, Inductive, PTL

\* Only a round whose last attempt collected fewer than a quorum is given up.
THEOREM GivenUpBelowQuorum == Spec => []GivenUpForLack
<1>1. IInv => GivenUpForLack
  BY DEF IInv, GivenUp
<1> QED BY <1>1, Inductive, PTL

\* The privacy report names nobody who was not averaged.
THEOREM ReportIsCovered == Spec => []ReportWithinRecord
<1>1. IInv => ReportWithinRecord
  BY DEF IInv, Account
<1> QED BY <1>1, Inductive, PTL
-----------------------------------------------------------------------------
(***************************************************************************)
(* Refinement: over the network, too, the history is the promised chain.   *)
(***************************************************************************)

\* The mapped history is a sequence, one outer step per committed round.
LEMMA OuterStepsSeq ==
  ASSUME TypeOK
  PROVE  /\ OuterSteps \in Seq({OuterStep(us) : us \in SUBSET Update})
         /\ Len(OuterSteps) = Len(chain)
         /\ \A i \in 1..Len(chain) : OuterSteps[i] = OuterStep(chain[i])
<1>1. chain \in [1..Len(chain) -> SUBSET Update] /\ Len(chain) \in Nat
  BY LenProperties DEF TypeOK
<1>2. OuterSteps \in [1..Len(chain) -> {OuterStep(us) : us \in SUBSET Update}]
  BY <1>1 DEF OuterSteps
<1>3. OuterSteps \in Seq({OuterStep(us) : us \in SUBSET Update})
  BY <1>1, <1>2
<1>4. DOMAIN OuterSteps = 1..Len(chain)
  BY DEF OuterSteps
<1>5. Len(OuterSteps) = Len(chain)
  BY <1>1, <1>3, <1>4, LenProperties
<1> QED BY <1>3, <1>5 DEF OuterSteps

LEMMA ChainInit == Init => Chain!Init
<1> SUFFICES ASSUME Init PROVE OuterSteps = <<>> /\ round = 0
  BY DEF Chain!Init
<1>1. Len(OuterSteps) = 0 /\ OuterSteps \in Seq({OuterStep(us) : us \in SUBSET Update})
  BY InitTypeOK, OuterStepsSeq, EmptySeq DEF Init
<1> QED BY <1>1, EmptySeq DEF Init

\* The commit of a snapshot is the chain's next step.
LEMMA CommitIsChainStep == IInv /\ CommitRound => Chain!Commit
<1> SUFFICES ASSUME IInv, CommitRound PROVE Chain!Commit
  OBVIOUS
<1> DEFINE us == Snapshot(round)
           c  == OuterStep(us)
           S  == {OuterStep(vs) : vs \in SUBSET Update}
<1>1. TypeOK /\ TypeOK' /\ us \in SUBSET Update
  BY NextTypeOK DEF IInv, Account, AtStep, InRun, Next, Coordinator, TypeOK, Snapshot
<1>2. /\ Len(chain) = round /\ round \in Nat /\ chain \in Seq(SUBSET Update)
      /\ collected = us /\ chain' = Append(chain, us) /\ round' = round
      /\ Cardinality(Contributors(us)) >= Quorum
  BY DEF IInv, Account, AtStep, TypeOK, CommitRound
<1>3. /\ Len(chain') = round + 1 /\ chain'[round + 1] = us
      /\ \A i \in 1..round : chain'[i] = chain[i]
  BY <1>1, <1>2, AppendProperties
<1>4. /\ OuterSteps \in Seq(S) /\ Len(OuterSteps) = round
      /\ \A i \in 1..round : OuterSteps[i] = OuterStep(chain[i])
  BY <1>1, <1>2, OuterStepsSeq
<1>5. /\ OuterSteps' \in Seq(S) /\ Len(OuterSteps') = round + 1
      /\ \A i \in 1..(round + 1) : OuterSteps'[i] = OuterStep(chain'[i])
  <2>1. chain' \in [1..Len(chain') -> SUBSET Update]
    BY <1>1, LenProperties DEF TypeOK
  <2>2. OuterSteps' = [i \in 1..(round + 1) |-> OuterStep(chain'[i])]
    BY <1>3 DEF OuterSteps
  <2>3. OuterSteps' \in [1..(round + 1) -> S]
    BY <1>3, <2>1, <2>2
  <2>4. OuterSteps' \in Seq(S) /\ DOMAIN OuterSteps' = 1..(round + 1)
    BY <1>2, <2>2, <2>3
  <2>5. Len(OuterSteps') = round + 1
    BY <1>2, <2>4, LenProperties
  <2> QED BY <2>2, <2>4, <2>5
<1>6. c \in S
  BY <1>1
<1>7. OuterSteps' = Append(OuterSteps, c)
  <2>1. /\ Append(OuterSteps, c) \in Seq(S) /\ Len(Append(OuterSteps, c)) = round + 1
        /\ \A i \in 1..round : Append(OuterSteps, c)[i] = OuterSteps[i]
        /\ Append(OuterSteps, c)[round + 1] = c
    BY <1>4, <1>6, AppendProperties
  <2>2. \A i \in 1..(round + 1) : OuterSteps'[i] = Append(OuterSteps, c)[i]
    <3>1. \A i \in 1..(round + 1) : i \in 1..round \/ i = round + 1
      BY <1>2
    <3> QED BY <1>3, <1>4, <1>5, <2>1, <3>1
  <2> HIDE DEF S
  <2> QED BY <1>5, <2>1, <2>2, SeqEqual
<1>8. c \in SUBSET Chain!Eligible(round)
  BY <1>1 DEF OuterStep, Chain!Eligible, Update, Snapshot
<1>9. Chain!OnePerParticipant(c)
  BY DEF IInv, Ingress, OneEach, Chain!OnePerParticipant, OuterStep, Snapshot
<1>10. Chain!Cardinality(Chain!Contributors(c)) >= Quorum
  <2>1. Chain!Contributors(c) = Contributors(us)
    <3>1. \A e \in c : \E u \in us : e.who = u.who
      BY DEF OuterStep
    <3>2. ASSUME NEW u \in us PROVE \E e \in c : e.who = u.who
      <4> DEFINE e == [who |-> u.who, round |-> u.round, delta |-> u.root]
      <4>1. e \in c /\ e.who = u.who
        BY DEF OuterStep
      <4> HIDE DEF e
      <4> QED BY <4>1
    <3> HIDE DEF c, us
    <3> QED BY <3>1, <3>2 DEF Chain!Contributors, Contributors
  <2>2. Chain!Cardinality(Contributors(us)) = Cardinality(Contributors(us))
    BY Zenon DEF Chain!Cardinality, Cardinality
  <2> QED BY <1>2, <2>1, <2>2
<1> HIDE DEF c
<1> QED BY <1>2, <1>4, <1>7, <1>8, <1>9, <1>10 DEF Chain!Commit

\* Every other step announces the newest model or leaves the chain alone.
LEMMA ChainNext == IInv /\ [Next]_vars => [Chain!Next]_(Chain!vars)
<1> SUFFICES ASSUME IInv, [Next]_vars PROVE Chain!Next \/ UNCHANGED <<OuterSteps, round>>
  BY DEF Chain!vars
<1>1. UNCHANGED chain => UNCHANGED OuterSteps
  BY DEF OuterSteps
<1>2. CASE CommitRound
  BY <1>2, CommitIsChainStep DEF Chain!Next
<1>3. CASE OpenAndReport
  <2>1. Len(chain) = round + 1 /\ round \in Nat /\ Len(OuterSteps) = Len(chain)
    BY <1>3, OuterStepsSeq DEF IInv, Account, AtStep, TypeOK, OpenAndReport
  <2>2. round' = round + 1 /\ UNCHANGED chain
    BY <1>3 DEF OpenAndReport
  <2> QED BY <1>1, <2>1, <2>2 DEF Chain!Next, Chain!Announce
<1>4. ASSUME NEW m, Send(m) PROVE UNCHANGED <<chain, round>>
  BY <1>4 DEF Send
<1>5. CASE UNCHANGED vars \/ (Coordinator /\ ~ CommitRound /\ ~ OpenAndReport)
  <2>1. UNCHANGED <<chain, round>>
    BY <1>5 DEF vars, Coordinator, Close, RecvCommitment, RecvUpdate, RecvRejected,
       PresentFixed, CollectedFixed, Misfit, BelowQuorum
  <2> QED BY <1>1, <2>1
<1> QED
  BY <1>1, <1>2, <1>3, <1>4, <1>5 DEF Next, SendCommitment, SendUpdate, SendMalformed

\* The networked coordinator implements the chain: what it averages is one bound
\* update of that round from each of at least Quorum participants.
THEOREM ImplementsChain == Spec => ImplementsCommitChain
BY ChainInit, ChainNext, Inductive, PTL DEF Spec, ImplementsCommitChain, Chain!Spec
=============================================================================
