------------------------- MODULE ContributionLedger -------------------------
(***************************************************************************)
(* The contribution ledger of lensemble.provenance: a file of lines, each  *)
(* a record with the digest of the record before it, and the object that   *)
(* appends to it.  Objects come and go over the same file, a write may     *)
(* stop anywhere in its line, and a line may be rewritten from outside.    *)
(* An auditor who has the file looks at the data sets its records commit   *)
(* to.                                                                     *)
(*                                                                         *)
(* A digest is the record that was hashed; a record carries the root of    *)
(* one participant's data set for all it says of its round.                *)
(***************************************************************************)
EXTENDS DatasetMerkle

CONSTANTS
  DataSets,   \* the data sets a participant may have
  Claims,     \* the data sets anybody may draw a proof from
  RoundIndex, \* round indices
  MaxLines,   \* bound: lines of the file
  MaxMishaps  \* bound: writes that fail, and edits from outside

ASSUME LedgerAssumption ==
  /\ RoundIndex \subseteq Nat
  /\ DataSets \cup Claims \subseteq Seq(Episode) \ {<<>>}
  /\ MaxLines \in Nat /\ MaxMishaps \in Nat

VARIABLES
  file,     \* ledger.jsonl: per line its text and whether its end is written
  held,     \* there is a ledger object
  memory,   \* the records of the ledger object
  receipt,  \* the digest the last append returned
  attested, \* history: the records of the object when it returned that digest
  failures, rewrites,  \* how many there were
  adopted   \* history: every object was opened from the file it found

ledgerVars == <<file, held, memory, receipt, attested, failures, rewrites, adopted>>

-----------------------------------------------------------------------------
\* The link of a first record.
None == <<"none">>

\* Mutant: the digest leaves the link to the record before out.
RecordHashUnlinked(record) == <<"record", [record EXCEPT !.prev = None]>>

RecordHash(record) == <<"record", record>>

\* The text of a line: one record, or nothing that can be parsed.
Line(record) == <<record>>
Garbage == <<>>

\* The link a record appended now gets.
ExpectedPrev(records) == IF records = <<>> THEN None ELSE RecordHash(Last(records))

\* Mutant: a round may be appended again.
AppendableAgain(record, records) ==
  /\ record.prev \in {None, ExpectedPrev(records)}
  /\ records # <<>> => record.round >= Last(records).round

\* The checks of append: the link asserted by the caller, if any, and the round.
Appendable(record, records) ==
  /\ record.prev \in {None, ExpectedPrev(records)}
  /\ records # <<>> => record.round > Last(records).round

\* What the file is after this text was written to its end: a line whose end is
\* missing swallows it.
Written(text, ended) ==
  IF file = <<>> \/ Last(file).ended
  THEN Append(file, [text |-> text, ended |-> ended])
  ELSE [file EXCEPT ![Len(file)] = [text |-> Garbage, ended |-> ended]]

\* open refuses a file with a line that is no record.
Opens == \A i \in DOMAIN file : file[i].text # Garbage
Parsed == [i \in DOMAIN file |-> file[i].text[1]]

\* Mutant: only the rounds are looked at.
VerifyChainRounds(records) ==
  \A i \in DOMAIN records : i > 1 => records[i].round > records[i - 1].round

VerifyChain(records) ==
  \A i \in DOMAIN records :
    /\ records[i].prev = IF i = 1 THEN None ELSE RecordHash(records[i - 1])
    /\ i > 1 => records[i].round > records[i - 1].round

\* What anyone finds who opens the file and verifies it.
Verifies == Opens /\ VerifyChain(Parsed)

-----------------------------------------------------------------------------
LedgerInit ==
  /\ file = <<>> /\ held = FALSE /\ memory = <<>>
  /\ receipt = None /\ attested = <<>>
  /\ failures = 0 /\ rewrites = 0 /\ adopted = TRUE

\* ContributionLedger.open.
Open ==
  /\ ~ held /\ Opens
  /\ held' = TRUE /\ memory' = Parsed
  /\ UNCHANGED <<file, receipt, attested, failures, rewrites, adopted>>

\* The coordinator's way: an empty ledger, whatever the file holds.
Construct ==
  /\ ~ held
  /\ held' = TRUE /\ memory' = <<>>
  /\ adopted' = (adopted /\ file = <<>>)
  /\ UNCHANGED <<file, receipt, attested, failures, rewrites>>

\* The process that had the object ends.
Leave ==
  /\ held
  /\ held' = FALSE /\ memory' = <<>>
  /\ UNCHANGED <<file, receipt, attested, failures, rewrites, adopted>>

\* A record with the link asserted by the caller, and the one that is stored.
Stored(record) == [record EXCEPT !.prev = ExpectedPrev(memory)]

AppendRecord(record) ==
  /\ held /\ Len(file) < MaxLines
  /\ Appendable(record, memory)
  /\ file' = Written(Line(Stored(record)), TRUE)
  /\ memory' = Append(memory, Stored(record))
  /\ receipt' = RecordHash(Stored(record)) /\ attested' = memory'
  /\ UNCHANGED <<held, failures, rewrites, adopted>>

\* The write raises after nothing, some, all but the end, or all of the line; the
\* object does not have the record.
AppendFails(record) ==
  /\ held /\ Len(file) < MaxLines /\ failures + rewrites < MaxMishaps
  /\ Appendable(record, memory)
  /\ file' \in {file, Written(Garbage, FALSE), Written(Line(Stored(record)), FALSE),
                Written(Line(Stored(record)), TRUE)}
  /\ failures' = failures + 1
  /\ UNCHANGED <<held, memory, receipt, attested, rewrites, adopted>>

\* Somebody edits a line, with any digest that is about, or removes the last ones.
Rewrite(record) ==
  /\ failures + rewrites < MaxMishaps
  /\ file' \in {[file EXCEPT ![i].text = Line(record)] : i \in DOMAIN file}
               \cup {SubSeq(file, 1, n) : n \in 0 .. Len(file) - 1}
  /\ rewrites' = rewrites + 1
  /\ UNCHANGED <<held, memory, receipt, attested, failures, adopted>>

\* The digests a caller or an editor may name.
Digests ==
  {None} \cup {RecordHash(file[i].text[1]) : i \in {j \in DOMAIN file : file[j].text # Garbage}}
Roots   == {CommitDataset(d) : d \in DataSets} \ {Refused}
Records == [round: RoundIndex, root: Roots, prev: Digests]

LedgerNext ==
  \/ Open \/ Construct \/ Leave
  \/ \E record \in Records : AppendRecord(record) \/ AppendFails(record) \/ Rewrite(record)

LedgerSpec == LedgerInit /\ [][LedgerNext]_ledgerVars
-----------------------------------------------------------------------------
\* The digest an append returns stands for the whole history: a file that verifies
\* and ends with a record of that digest is, line by line, what the object had then,
\* if that verified, whatever was rewritten, removed or half written since.
Audited ==
  /\ receipt # None /\ VerifyChain(attested)
  /\ Verifies /\ file # <<>> /\ RecordHash(Last(Parsed)) = receipt
ReceiptFixesHistory == Audited => Parsed = attested

\* The data set of which this is the root, if it is one, is settled: its episodes
\* all have proofs, every other with this root has the same episodes, each as
\* often, and no proof of an episode it does not have is accepted, from whatever
\* data set the proof was drawn.
Settles(root, data) ==
  /\ \A k \in DOMAIN data : VerifyInclusion(ProveInclusion(data, k), root)
  /\ \A claim \in Claims :
       /\ CommitDataset(claim) = root => Sorted(claim) = Sorted(data)
       /\ \A k \in DOMAIN claim :
            VerifyInclusion(ProveInclusion(claim, k), root) => claim[k] \in Range(data)

\* Evaluated once.
Unsettled ==
  {data \in DataSets : /\ CommitDataset(data) # Refused
                       /\ ~ Settles(CommitDataset(data), data)}

\* Who kept the digest of an append and finds a file that verifies and ends with it
\* can tell from each record which episodes the participant was bound to in that
\* round: nobody can prove another one, and the participant can prove each.
AuditTellsData ==
  Audited =>
    \A i \in DOMAIN attested : \A data \in DataSets :
      CommitDataset(data) = attested[i].root => Parsed[i].root = attested[i].root /\ data \notin Unsettled

\* As long as nobody edits the file and no write fails, a ledger whose objects were
\* all opened from it can be opened and verified at any time, and the object at work
\* has exactly the file.
IntactLedgerVerifies ==
  adopted /\ failures = 0 /\ rewrites = 0 => Verifies /\ (held => memory = Parsed)

\* Nothing that was acknowledged is lost unnoticed: without edits, a file that opens
\* and verifies begins with what the last acknowledged append attested, also after
\* writes that failed and objects that began empty over it.
AcknowledgedIsKept ==
  rewrites = 0 /\ Verifies => IsPrefix(attested, Parsed)
=============================================================================
