-------------------------- MODULE MCNetworkedRound --------------------------
(* Instances of NetworkedRound for TLC. *)
EXTENDS NetworkedRound, TLC

\* Participants, and roots, are alike: nothing chooses one or orders them.
Symmetry == Permutations(Participant) \cup Permutations(Root)
=============================================================================
