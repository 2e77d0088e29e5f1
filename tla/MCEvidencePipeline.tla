------------------------- MODULE MCEvidencePipeline -------------------------
(* Two configurations, and a published control run with one of them. *)
EXTENDS EvidencePipeline
CONSTANTS c1, c2
MCControls == {[config |-> c1, model |-> <<"control", c1, 1>>]}
=============================================================================
