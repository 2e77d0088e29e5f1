---------------------------- MODULE CommitChain ----------------------------
(***************************************************************************)
(* What the coordinator of lensemble.federation promises its participants: *)
(* the global model is a chain of outer steps.  Step t averages one        *)
(* well-formed pseudo-gradient of round t from each of at least Quorum     *)
(* participants; no step is undone, changed or skipped; and the model a    *)
(* participant can recover is announced before the next step is taken.     *)
(* Attempts that abort, retries and I/O failures are invisible here.       *)
(***************************************************************************)
EXTENDS Naturals, Sequences, FiniteSets

CONSTANTS
  Participant,   \* participant ids
  Delta,         \* well-formed pseudo-gradients
  Quorum         \* K, the fewest contributors an outer step may average

VARIABLES
  chain,         \* chain[t + 1]: the pseudo-gradients averaged in round t
  announced      \* how many outer steps the announced GlobalState contains

vars == <<chain, announced>>

\* The pseudo-gradients that may be averaged in round t.
Eligible(t) == [who: Participant, round: {t}, delta: Delta]

Contributors(c) == {u.who : u \in c}

OnePerParticipant(c) == \A u, v \in c : u.who = v.who => u = v

Init == chain = <<>> /\ announced = 0

\* The outer step of the round whose model has been announced.
Commit ==
  /\ announced = Len(chain)
  /\ \E c \in SUBSET Eligible(Len(chain)) :
       /\ OnePerParticipant(c)
       /\ Cardinality(Contributors(c)) >= Quorum
       /\ chain' = Append(chain, c)
  /\ UNCHANGED announced

\* The next round opens: its GlobalState carries the newest model.
Announce ==
  /\ announced < Len(chain)
  /\ announced' = Len(chain)
  /\ UNCHANGED chain

Next == Commit \/ Announce

Spec == Init /\ [][Next]_vars
=============================================================================
