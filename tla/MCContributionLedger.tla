------------------------ MODULE MCContributionLedger ------------------------
(* Two data sets with one and two odd levels in their trees, one that mixes  *)
(* versions, and proofs from every data set of up to four episodes.          *)
EXTENDS ContributionLedger
MCVersion  == [e \in Episode |-> IF e = 4 THEN "1.1" ELSE "1.0"]
MCDataSets == {<<2, 1, 3>>, <<3, 1, 2, 3, 2>>, <<1, 4>>}
MCClaims   == UNION {[1..n -> Episode] : n \in 1..4} \cup {<<1, 2, 2, 3, 3, 3>>, <<2, 2, 1, 3, 3>>}
=============================================================================
