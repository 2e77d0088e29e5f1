------------------------ MODULE MCSecureAggregation ------------------------
(* The instance of SecureAggregation for TLC: every line through the secret. *)
EXTENDS SecureAggregation

Affine == {[s \in GF |-> <<(a * s + b) % Prime>>] : a, b \in GF}

Selves == [c \in Participant |-> c]
Keys   == [c \in Participant |-> Prime - c]
LowAndHigh == {-2, 1}

\* Shamir's scheme itself, tried on every polynomial of this instance
\* (EveryThresholdReconstructs proves it for all of them).
ASSUME SharesDoReconstruct == SharesReconstruct
=============================================================================
