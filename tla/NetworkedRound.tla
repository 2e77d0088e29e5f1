--------------------------- MODULE NetworkedRound ---------------------------
(***************************************************************************)
(* A round over NetworkedTransport (lensemble.federation.network): the     *)
(* Commitment / Update handshake, ingress validation and binding in        *)
(* collect_updates, and Phase3CoordinatorService.close_round with its two  *)
(* collections, its own and the round engine's, its retry budget and the   *)
(* rounds it has given up.                                                 *)
(*                                                                         *)
(* The channel is LoopbackChannel's: one FIFO inbox at the coordinator,    *)
(* filled by participants at any moment, also between two recv calls and   *)
(* between the last of them and the decision.  A participant may repeat    *)
(* the handshake, with another dataset, another vector or without its      *)
(* Commitment, for any round, or send what does not parse.  The attempt    *)
(* past COLLECTING is module RoundEngine's; here it commits.               *)
(***************************************************************************)
EXTENDS Naturals, Sequences, FiniteSets

CONSTANTS
  Participant,  \* participant ids
  Root,         \* dataset Merkle roots R_c
  NoRoot,       \* no Commitment received
  Quorum,       \* K of the round engine
  RetryBudget,  \* dropout_policy().retry_budget
  MaxRounds,    \* bound: rounds committed
  MaxSends      \* bound: messages sent

ASSUME NetworkAssumption ==
  /\ Quorum \in Nat \ {0}
  /\ NoRoot \notin Root
  /\ RetryBudget \in Nat
  /\ MaxRounds \in Nat /\ MaxSends \in Nat

Rounds == 0..(MaxRounds - 1)

VARIABLES
  inbox,     \* the coordinator's inbox
  roots,     \* _committed_roots
  validated, \* _validated_updates
  round,     \* the round the coordinator announced
  chain,     \* the updates each committed round averaged
  retries,   \* _retry_counts of the announced round
  abortedRounds, \* _aborted_rounds
  pc,        \* where close_round is
  present,   \* close_round's own collection, which the privacy report uses
  collected, \* the engine's collection
  reports,   \* per reported round, the participants of the privacy report
  declared,  \* history: the root of each participant's last Commitment
  bound,     \* history: the Updates sent while their root was the declared one
  sendsLeft  \* messages that may still be sent

store  == <<roots, validated>>
budget == <<retries, abortedRounds>>
close  == <<pc, present, collected>>
sent   == <<declared, bound, sendsLeft>>
vars   == <<inbox, store, round, chain, budget, close, reports, sent>>

\* fits: the vector has the length of the parameter manifest.
Update     == [kind: {"update"}, who: Participant, round: Rounds, root: Root,
               fits: BOOLEAN]
Commitment == [kind: {"commitment"}, who: Participant, round: Rounds, root: Root]
BadMessage == [kind |-> "malformed"]

Contributors(us) == {u.who : u \in us}

\* collect_updates' return value for round t.
Snapshot(t) == {u \in validated : u.round = t}

Init ==
  /\ inbox = <<>>
  /\ roots = [c \in Participant \X Rounds |-> NoRoot]
  /\ validated = {}
  /\ round = 0 /\ chain = <<>>
  /\ retries = 0 /\ abortedRounds = {}
  /\ pc = "idle" /\ present = {} /\ collected = {} /\ reports = {}
  /\ declared = [c \in Participant \X Rounds |-> NoRoot]
  /\ bound = {} /\ sendsLeft = MaxSends

-----------------------------------------------------------------------------
(***************************************************************************)
(* Participants.                                                           *)
(***************************************************************************)
Send(m) ==
  /\ sendsLeft > 0 /\ sendsLeft' = sendsLeft - 1
  /\ inbox' = Append(inbox, m)
  /\ UNCHANGED <<store, round, chain, budget, close, reports>>

\* Ingress does not compare a message's round with the announced one.
SendCommitment(m) ==
  /\ Send(m)
  /\ declared' = [declared EXCEPT ![<<m.who, m.round>>] = m.root]
  /\ UNCHANGED bound

SendUpdate(m) ==
  /\ Send(m)
  /\ bound' = IF declared[<<m.who, m.round>>] = m.root THEN bound \cup {m} ELSE bound
  /\ UNCHANGED declared

SendMalformed == Send(BadMessage) /\ UNCHANGED <<declared, bound>>

-----------------------------------------------------------------------------
(***************************************************************************)
(* close_round.                                                            *)
(***************************************************************************)
\* A round given up is refused.
Close ==
  /\ pc = "idle" /\ round < MaxRounds /\ round \notin abortedRounds
  /\ pc' = "present"
  /\ UNCHANGED <<inbox, store, round, chain, budget, present, collected, reports, sent>>

Collecting == pc \in {"present", "collect"}

Raise == pc' = "idle" /\ present' = {} /\ collected' = {}

RecvCommitment ==
  /\ Collecting /\ inbox # <<>> /\ Head(inbox).kind = "commitment"
  /\ LET m == Head(inbox) IN roots' = [roots EXCEPT ![<<m.who, m.round>>] = m.root]
  /\ inbox' = Tail(inbox)
  /\ UNCHANGED <<validated, round, chain, budget, close, reports, sent>>

CountRetry ==
  IF retries < RetryBudget
  THEN retries' = retries + 1 /\ UNCHANGED abortedRounds
  ELSE abortedRounds' = abortedRounds \cup {round} /\ UNCHANGED retries

\* Mutant: only the participant's first Commitment is compared with.
IsBoundToAny(m) == roots[<<m.who, m.round>>] # NoRoot

IsBound(m) == roots[<<m.who, m.round>>] = m.root

\* Mutant: an Update clears what other participants sent for the round.
RecvUpdateAlone ==
  /\ Collecting /\ inbox # <<>> /\ Head(inbox).kind = "update"
  /\ LET m == Head(inbox) IN
       /\ IsBound(m)
       /\ validated' = {u \in validated : u.round # m.round} \cup {m}
  /\ inbox' = Tail(inbox)
  /\ UNCHANGED <<roots, round, chain, budget, close, reports, sent>>

\* Mutant: a participant's second update is kept beside its first.
RecvUpdateTwice ==
  /\ Collecting /\ inbox # <<>> /\ Head(inbox).kind = "update"
  /\ IsBound(Head(inbox))
  /\ validated' = validated \cup {Head(inbox)}
  /\ inbox' = Tail(inbox)
  /\ UNCHANGED <<roots, round, chain, budget, close, reports, sent>>

\* _ingest_update: the newest bound update of a participant replaces its last.
RecvUpdate ==
  /\ Collecting /\ inbox # <<>> /\ Head(inbox).kind = "update"
  /\ LET m == Head(inbox) IN
       /\ IsBound(m)
       /\ validated' = {u \in validated : u.who # m.who \/ u.round # m.round} \cup {m}
  /\ inbox' = Tail(inbox)
  /\ UNCHANGED <<roots, round, chain, budget, close, reports, sent>>

\* Mutant: a rejected message ends the collection and empties the inbox.
RecvRejectedDrops ==
  /\ Collecting /\ inbox # <<>>
  /\ \/ Head(inbox).kind = "malformed"
     \/ Head(inbox).kind = "update" /\ ~ IsBound(Head(inbox))
  /\ inbox' = <<>>
  /\ Raise
  /\ UNCHANGED <<store, round, chain, budget, reports, sent>>

\* Mutant: an attempt that ends in an exception is counted like one below quorum.
RecvRejectedCounts ==
  /\ Collecting /\ inbox # <<>>
  /\ \/ Head(inbox).kind = "malformed"
     \/ Head(inbox).kind = "update" /\ ~ IsBound(Head(inbox))
  /\ inbox' = Tail(inbox)
  /\ Raise
  /\ CountRetry
  /\ UNCHANGED <<store, round, chain, reports, sent>>

\* CommitmentMismatch or the parser's error ends the collection; the message is
\* gone, what was ingested before it stays and what is behind it waits.
RecvRejected ==
  /\ Collecting /\ inbox # <<>>
  /\ \/ Head(inbox).kind = "malformed"
     \/ Head(inbox).kind = "update" /\ ~ IsBound(Head(inbox))
  /\ inbox' = Tail(inbox)
  /\ Raise
  /\ UNCHANGED <<store, round, chain, budget, reports, sent>>

\* close_round's own collection ends; try_round collects again.
PresentFixed ==
  /\ pc = "present" /\ inbox = <<>>
  /\ present' = Snapshot(round)
  /\ pc' = "collect"
  /\ UNCHANGED <<inbox, store, round, chain, budget, collected, reports, sent>>

CollectedFixed ==
  /\ pc = "collect" /\ inbox = <<>>
  /\ collected' = Snapshot(round)
  /\ pc' = "attempt"
  /\ UNCHANGED <<inbox, store, round, chain, budget, present, reports, sent>>

\* _validate_updates: one vector of another length ends the attempt, uncounted;
\* it stays in the cache, so the next attempt meets it again.
Misfit ==
  /\ pc = "attempt" /\ \E u \in collected : ~ u.fits
  /\ Raise
  /\ UNCHANGED <<inbox, store, round, chain, budget, reports, sent>>

\* Below K: a retry while the budget lasts, then the round is given up.
BelowQuorum ==
  /\ pc = "attempt" /\ \A u \in collected : u.fits
  /\ Cardinality(Contributors(collected)) < Quorum
  /\ CountRetry
  /\ Raise
  /\ UNCHANGED <<inbox, store, round, chain, reports, sent>>

\* The engine commits what it collected itself.
CommitRound ==
  /\ pc = "attempt" /\ \A u \in collected : u.fits
  /\ Cardinality(Contributors(collected)) >= Quorum
  /\ chain' = Append(chain, collected)
  /\ pc' = "open"
  /\ UNCHANGED <<inbox, store, round, budget, present, collected, reports, sent>>

\* open_next, then the privacy report over the updates collected first; with
\* none of them the report raises.
OpenAndReport ==
  /\ pc = "open"
  /\ round' = round + 1
  /\ retries' = 0
  /\ reports' = IF present = {} THEN reports
                ELSE reports \cup {[round |-> round, updates |-> present]}
  /\ Raise
  /\ UNCHANGED <<inbox, store, chain, abortedRounds, sent>>

Coordinator ==
  \/ Close \/ RecvCommitment \/ RecvUpdate \/ RecvRejected
  \/ PresentFixed \/ CollectedFixed \/ Misfit \/ BelowQuorum \/ CommitRound
  \/ OpenAndReport

Next ==
  \/ \E m \in Commitment : SendCommitment(m)
  \/ \E m \in Update : SendUpdate(m)
  \/ SendMalformed
  \/ Coordinator

Spec == Init /\ [][Next]_vars

\* The service keeps closing, and a collection runs until it ends.
FairSpec == Spec /\ WF_vars(Coordinator)

-----------------------------------------------------------------------------
(***************************************************************************)
(* Properties.                                                             *)
(***************************************************************************)

\* The types of the variables.
TypeOK ==
  /\ inbox \in Seq(Update \cup Commitment \cup {BadMessage})
  /\ roots \in [Participant \X Rounds -> Root \cup {NoRoot}]
  /\ validated \subseteq Update /\ present \subseteq Update /\ collected \subseteq Update
  /\ round \in Nat /\ sendsLeft \in Nat /\ retries \in Nat
  /\ abortedRounds \subseteq Nat
  /\ chain \in Seq(SUBSET Update)
  /\ pc \in {"idle", "present", "collect", "attempt", "open"}
  /\ \A r \in reports : r.round \in Rounds /\ r.updates \subseteq Update

\* What is averaged was bound: its participant had committed to that very root
\* for that round before it sent the update, whatever it sent afterwards.
AveragedWasBound ==
  \A i \in 1..Len(chain) :
    chain[i] \subseteq {u \in bound : u.round = i - 1 /\ u.fits}

\* A rejected message costs no one else its update: a bound update that was sent
\* still waits in the inbox or its participant is in the present set.
NoUpdateLost ==
  \A m \in bound :
    \/ \E i \in 1..Len(inbox) : inbox[i] = m
    \/ \E u \in validated : u.who = m.who /\ u.round = m.round

\* Collecting is idempotent as to who is present: the engine's collection has
\* every participant close_round's own had, so a report names contributors only.
ReportWithinRecord ==
  \A r \in reports : Contributors(r.updates) \subseteq Contributors(chain[r.round + 1])

\* The outer steps, with a root in the place of the pseudo-gradient under it.
OuterStep(us) == {[who |-> u.who, round |-> u.round, delta |-> u.root] : u \in us}
OuterSteps    == [i \in 1..Len(chain) |-> OuterStep(chain[i])]

\* Over the network the model history is still the promised chain.
Chain == INSTANCE CommitChain WITH Delta <- Root, announced <- round, chain <- OuterSteps
ImplementsCommitChain == Chain!Spec

\* A round is given up for lack of updates and for nothing else: messages that
\* end a collection early cost no retry, and whoever's bound update had arrived
\* when the last attempt collected is counted in it.
GivenUpForLack ==
  \A t \in abortedRounds : Cardinality(Contributors(Snapshot(t))) < Quorum

\* A quorum has sent bound updates for the announced round, and the attempt in
\* flight, if any, has not yet finished collecting.
Staffed(t) ==
  /\ round = t /\ t \notin abortedRounds /\ pc # "attempt"
  /\ Cardinality(Contributors({u \in bound : u.round = t})) >= Quorum

\* Such a round commits, however many messages are rejected meanwhile and however
\* little is left of the retry budget, unless the cache keeps a vector of another
\* length, which fails every attempt until its sender replaces it.
QuorumCommits ==
  \A t \in Rounds :
    <>[](\A u \in Snapshot(t) : u.fits) => (Staffed(t) ~> round > t)
=============================================================================
