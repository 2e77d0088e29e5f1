----------------------------- MODULE MCRecords -----------------------------
(* The contribution ledger and the evidence of runs.  They share no state, *)
(* so a behaviour is about one of them and the other stands still.         *)
EXTENDS MCContributionLedger, MCEvidencePipeline

VARIABLE subject

RecordsInit ==
  /\ subject \in {"ledger", "evidence"}
  /\ LedgerInit /\ EvidenceInit
  /\ subject = "ledger" => dir = [p \in Places |-> NoRun]

RecordsNext ==
  \/ subject = "ledger" /\ LedgerNext /\ UNCHANGED <<subject, evidenceVars>>
  \/ subject = "evidence" /\ EvidenceNext /\ UNCHANGED <<subject, ledgerVars>>

RecordsSpec == RecordsInit /\ [][RecordsNext]_<<subject, ledgerVars, evidenceVars>>
=============================================================================
