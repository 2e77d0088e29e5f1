---------------------------- MODULE MCConsortium ----------------------------
(* Three trainers: too few participants for K, just enough, and more than the *)
(* DP budget admits.                                                          *)
EXTENDS Consortium

CONSTANTS p1, p2, p3

MCRosters == {<<p1>>, <<p1, p2>>, <<p1, p2, p3>>}
=============================================================================
