--------------------------- MODULE DatasetMerkle ---------------------------
(***************************************************************************)
(* The commitment of a participant to its episodes: the Merkle root of     *)
(* lensemble.provenance, the inclusion proof of one episode and its check. *)
(*                                                                         *)
(* A data set is a sequence of episodes in the order they are read.  A     *)
(* digest is the term that was hashed, so that equal digests are equal     *)
(* preimages; episodes are numbered in the order of their digests.         *)
(***************************************************************************)
EXTENDS Integers, FiniteSets, SequencesExt

CONSTANTS
  Episode,  \* numbers of episodes
  Version,  \* the wmcp_version an episode's action specification declares
  Refused   \* what is given instead of a root or a proof

ASSUME MerkleAssumption ==
  /\ Episode \subseteq Nat
  /\ DOMAIN Version = Episode

-----------------------------------------------------------------------------
\* The four domains of the hash.
Leaf(e)           == <<"leaf", e>>
Node(left, right) == <<"node", left, right>>
Root(top)         == <<"root", top>>

\* Where an episode ends up when they are sorted; equal ones keep their order.
SortedIndex(episodes, target) ==
  Cardinality({i \in DOMAIN episodes :
                 \/ episodes[i] < episodes[target]
                 \/ episodes[i] = episodes[target] /\ i <= target})

Sorted(episodes) ==
  [n \in DOMAIN episodes |->
     episodes[CHOOSE i \in DOMAIN episodes : SortedIndex(episodes, i) = n]]

\* The leaves of the tree; the sort makes the order of the reading irrelevant.
SortedLeaves(episodes) == [n \in DOMAIN episodes |-> Leaf(Sorted(episodes)[n])]

Pairs(level) == [i \in 1 .. Len(level) \div 2 |-> Node(level[2 * i - 1], level[2 * i])]

\* Mutant: the odd node is paired with itself.
NextLevelDuplicated(level) ==
  IF Len(level) % 2 = 1
  THEN Pairs(level) \o <<Node(level[Len(level)], level[Len(level)])>>
  ELSE Pairs(level)

\* An odd node at the end is promoted unchanged.
NextLevel(level) ==
  IF Len(level) % 2 = 1 THEN Append(Pairs(level), level[Len(level)]) ELSE Pairs(level)

\* The levels of the tree, the leaves being level 0.  There are never more than the
\* leaves; a level of one node is promoted unchanged.
Levels(leaves) ==
  LET level[k \in 0 .. Len(leaves)] == IF k = 0 THEN leaves ELSE NextLevel(level[k - 1])
  IN  level

MerkleRoot(episodes) ==
  LET leaves == SortedLeaves(episodes) IN Root(Levels(leaves)[Len(leaves)][1])

\* commit_dataset refuses an empty data set and one of several versions.
CommitDataset(episodes) ==
  IF episodes # <<>> /\ \A i, j \in DOMAIN episodes : Version[episodes[i]] = Version[episodes[j]]
  THEN MerkleRoot(episodes) ELSE Refused

-----------------------------------------------------------------------------
\* One level's entry of a proof: the sibling and the side it is on.  A level that
\* promotes the node gives none.
Witness(level, index) ==
  IF index % 2 = 0 THEN <<[sibling |-> level[index - 1], left |-> TRUE]>>
  ELSE IF index < Len(level) THEN <<[sibling |-> level[index + 1], left |-> FALSE]>>
  ELSE <<>>

\* The entries below each level; the index is halved from one to the next.
Path(leaves, index) ==
  LET at[k \in 0 .. Len(leaves)] == IF k = 0 THEN index ELSE (at[k - 1] + 1) \div 2
      below[k \in 0 .. Len(leaves)] ==
        IF k = 0 THEN <<>> ELSE below[k - 1] \o Witness(Levels(leaves)[k - 1], at[k - 1])
  IN  below[Len(leaves)]

ProveInclusion(episodes, target) ==
  [leaf |-> Leaf(episodes[target]),
   path |-> Path(SortedLeaves(episodes), SortedIndex(episodes, target))]

Combine(node, entry) ==
  IF entry.left THEN Node(entry.sibling, node) ELSE Node(node, entry.sibling)

\* What is computed from a leaf upward.
Climb(leaf, path) ==
  LET node[k \in 0 .. Len(path)] == IF k = 0 THEN leaf ELSE Combine(node[k - 1], path[k])
  IN  node[Len(path)]

VerifyInclusion(proof, root) == Root(Climb(proof.leaf, proof.path)) = root
=============================================================================
