--------------------------- MODULE MCRoundEngine ---------------------------
(* Instances of RoundEngine for TLC. *)
EXTENDS RoundEngine

\* The failures a handler of the round body turns into ABORTED.
HandledFaults == {"transport", "selfcheck", "checkpoint", "ledger"}
AllFaults     == FaultKinds
=============================================================================
