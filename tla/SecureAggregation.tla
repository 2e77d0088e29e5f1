------------------------- MODULE SecureAggregation -------------------------
(***************************************************************************)
(* One masked secure sum of lensemble.aggregation: build_masked_update on  *)
(* the participants' side, the Shamir shares of their two secrets, and     *)
(* PairwiseMaskAggregator.aggregate on the coordinator's, with the field   *)
(* arithmetic of secure_agg (encode, sum, recentre).  Neither end checks   *)
(* that the sum fits the field: assert_no_wrap, which would, is only       *)
(* called in a report on a round that has already committed.               *)
(*                                                                         *)
(* One coordinate of the update is modelled; the others are summed the     *)
(* same way.  A field element is a plain part, kept modulo the modulus,    *)
(* and the coefficients of the masks still in it: a mask is known by the   *)
(* secret, or the pair of secrets, its seed is derived from, so a wrongly  *)
(* reconstructed secret removes a mask nobody added.                       *)
(*                                                                         *)
(* Who sends what and when the aggregator is called is the transport's     *)
(* business, and the transport of this backend is not in the repository:   *)
(* updates arrive in any order or never, the recovery data is drawn up     *)
(* once for whoever is present, an update may still arrive after that, and *)
(* any of the survivors may fail to send its shares.                       *)
(***************************************************************************)
EXTENDS ShamirSharing

CONSTANTS
  N,           \* the participants are 1..N, in the order of their ids
  Threshold,   \* t_agg, of the split and of the aggregator alike
  SelfSecret,  \* r_c
  SecretKey,   \* sk_c; the public key determines it
  Tails,       \* bound: the polynomials tried, as functions of the secret
  Moduli,      \* bound: FieldParams.modulus
  Deltas,      \* bound: a participant's quantized coordinate
  Garbled      \* a field element some mask is still in

Participant == 1 .. N

ASSUME AggregationAssumption ==
  /\ N \in Nat \ {0}
  /\ N < Prime
  /\ Threshold \in 1 .. N
  /\ SelfSecret \in [Participant -> GF]
  /\ SecretKey \in [Participant -> GF]
  /\ \A c, d \in Participant : SelfSecret[c] = SelfSecret[d] => c = d
  /\ \A c, d \in Participant : SecretKey[c] = SecretKey[d] => c = d
  /\ \A t \in Tails : /\ t \in [GF -> Seq(GF)]
                       /\ \A secret \in GF : Len(t[secret]) = Threshold - 1
  /\ Moduli \subseteq Nat \ {0}
  /\ Deltas \subseteq Int

VARIABLES
  phase,      \* where the round is
  modulus, delta, tail,  \* the field, the updates and the polynomials
  updates,    \* who has a masked update at the aggregator
  survivors,  \* who had one when the recovery data was drawn up
  responders, \* the survivors whose shares arrived
  used,       \* shares[:threshold]
  added, unmasked, cleared, \* how far the three loops of aggregate are
  plain, selfMask, pairMask, \* total
  result      \* the revealed sum

config == <<modulus, delta, tail>>
round  == <<updates, survivors, responders>>
loops  == <<added, unmasked, cleared>>
total  == <<plain, selfMask, pairMask>>
vars   == <<phase, config, round, used, loops, total, result>>

Phases == {"masking", "shares", "sum", "unmask", "clear", "revealed",
           "refused", "raised"}

Larger(a, b) == IF a >= b THEN a ELSE b
Magnitude(x) == IF x < 0 THEN -x ELSE x

-----------------------------------------------------------------------------
\* assert_no_wrap: count encoded values of at most norm stay below modulus/2.
Fits(count, norm, m) == count * norm < m \div 2

Encode(x, m) == x % m

FieldAdd(a, b, m) == (a + b) % m

\* Mutant: half the modulus itself is recentred too.
LiftFromHalf(x, m) == IF x >= m \div 2 THEN x - m ELSE x

\* _lift_to_signed
Lift(x, m) == IF x > m \div 2 THEN x - m ELSE x

\* KA(sk, pk') = KA(sk', pk): the shared secret does not know who computed it.
Shared(a, b) == IF a <= b THEN <<a, b>> ELSE <<b, a>>

\* The sign of the mask c shares with p in c's update: add for p > c.
MaskSign(c, k) ==
  IF \E p \in Participant : p > c /\ k = Shared(SecretKey[c], SecretKey[p]) THEN 1
  ELSE IF \E p \in Participant : p < c /\ k = Shared(SecretKey[c], SecretKey[p]) THEN -1
  ELSE 0

\* The secret the aggregator gets out of the shares it uses.
Recovered(secret) ==
  Reconstruct([x \in used |-> Split(secret, tail[secret], N)[x]])

-----------------------------------------------------------------------------
Init ==
  /\ phase = "masking"
  /\ modulus \in Moduli /\ delta \in [Participant -> Deltas] /\ tail \in Tails
  /\ updates = {} /\ survivors = {} /\ responders = {} /\ used = {}
  /\ added = {} /\ unmasked = {} /\ cleared = {}
  /\ plain = 0
  /\ selfMask = [v \in GF |-> 0]
  /\ pairMask = [k \in GF \X GF |-> 0]
  /\ result = 0

\* A masked update arrives; a late one is taken like any other.
DeliverUpdate(c) ==
  /\ phase \in {"masking", "shares"}
  /\ c \notin updates
  /\ updates' = updates \cup {c}
  /\ UNCHANGED <<phase, config, survivors, responders, used, loops, total, result>>

\* self_mask_shares for those present, pairwise_shares for the others.
DrawUpRecovery ==
  /\ phase = "masking"
  /\ phase' = "shares"
  /\ survivors' = updates
  /\ UNCHANGED <<config, updates, responders, used, loops, total, result>>

DeliverShares(c) ==
  /\ phase = "shares"
  /\ c \in survivors \ responders
  /\ responders' = responders \cup {c}
  /\ UNCHANGED <<phase, config, updates, survivors, used, loops, total, result>>

\* The aggregator counts the updates, not the shares, and uses the first
\* Threshold shares of whatever there is.
Aggregate(us) ==
  /\ phase = "shares"
  /\ us \subseteq responders
  /\ IF Cardinality(responders) >= Threshold
     THEN Cardinality(us) = Threshold ELSE us = responders
  /\ IF Cardinality(updates) < Threshold
     THEN phase' = "refused" /\ UNCHANGED used
     ELSE phase' = "sum" /\ used' = us
  /\ UNCHANGED <<config, round, loops, total, result>>

\* total + masked_c: its plain part, its self mask, a signed mask per peer.
AddUpdate(c) ==
  /\ phase = "sum"
  /\ c \in updates \ added
  /\ added' = added \cup {c}
  /\ phase' = IF added' = updates THEN "unmask" ELSE "sum"
  /\ plain' = FieldAdd(plain, Encode(delta[c], modulus), modulus)
  /\ selfMask' = [selfMask EXCEPT ![SelfSecret[c]] = @ + 1]
  /\ pairMask' = [k \in GF \X GF |-> pairMask[k] + MaskSign(c, k)]
  /\ UNCHANGED <<config, round, used, unmasked, cleared, result>>

\* total - b_c; an update that came after the recovery data was drawn up has
\* no shares there, and the lookup raises.
RemoveSelfMask(c) ==
  /\ phase = "unmask"
  /\ c \in updates \ unmasked
  /\ IF c \in survivors
     THEN /\ unmasked' = unmasked \cup {c}
          /\ phase' = IF unmasked' = updates THEN "clear" ELSE "unmask"
          /\ selfMask' = [selfMask EXCEPT ![Recovered(SelfSecret[c])] = @ - 1]
     ELSE phase' = "raised" /\ UNCHANGED <<unmasked, selfMask>>
  /\ UNCHANGED <<config, round, used, added, cleared, plain, pairMask, result>>

Dropouts == Participant \ survivors

\* Mutant: the residual term is undone with the survivor's own sign.
RemovePairMaskSameSign(d, c) ==
  /\ phase = "clear"
  /\ d \in Dropouts /\ c \in updates /\ <<d, c>> \notin cleared
  /\ cleared' = cleared \cup {<<d, c>>}
  /\ LET k == Shared(Recovered(SecretKey[d]), SecretKey[c])
     IN  pairMask' = [pairMask EXCEPT ![k] = IF d > c THEN @ + 1 ELSE @ - 1]
  /\ UNCHANGED <<phase, config, round, used, added, unmasked, plain, selfMask, result>>

\* The term survivor c added against dropout d is undone.
RemovePairMask(d, c) ==
  /\ phase = "clear"
  /\ d \in Dropouts /\ c \in updates /\ <<d, c>> \notin cleared
  /\ cleared' = cleared \cup {<<d, c>>}
  /\ LET k == Shared(Recovered(SecretKey[d]), SecretKey[c])
     IN  pairMask' = [pairMask EXCEPT ![k] = IF d > c THEN @ - 1 ELSE @ + 1]
  /\ UNCHANGED <<phase, config, round, used, added, unmasked, plain, selfMask, result>>

NoMaskLeft ==
  /\ \A v \in GF : selfMask[v] = 0
  /\ \A k \in GF \X GF : pairMask[k] = 0

\* Nothing tells the aggregator whether a mask is left.
Reveal ==
  /\ phase = "clear"
  /\ Dropouts \X updates \subseteq cleared
  /\ phase' = "revealed"
  /\ result' = IF NoMaskLeft THEN Lift(plain, modulus) ELSE Garbled
  /\ UNCHANGED <<config, round, used, loops, total>>

Next ==
  \/ DrawUpRecovery \/ Reveal
  \/ \E c \in Participant :
       DeliverUpdate(c) \/ DeliverShares(c) \/ AddUpdate(c) \/ RemoveSelfMask(c)
  \/ \E us \in SUBSET Participant : Aggregate(us)
  \/ \E d, c \in Participant : RemovePairMask(d, c)

Spec == Init /\ [][Next]_vars

-----------------------------------------------------------------------------
(***************************************************************************)
(* Properties.                                                             *)
(***************************************************************************)

\* The types of the variables; the running total stays a field element, and the
\* loops run over participants whose update is there.
TypeOK ==
  /\ phase \in Phases
  /\ modulus \in Moduli /\ delta \in [Participant -> Deltas]
  /\ updates \subseteq Participant
  /\ survivors \subseteq updates
  /\ responders \subseteq survivors /\ used \subseteq responders
  /\ added \subseteq updates /\ unmasked \subseteq added
  /\ cleared \subseteq Dropouts \X updates
  /\ plain \in 0 .. modulus - 1
  /\ selfMask \in [GF -> Int] /\ pairMask \in [GF \X GF -> Int]

\* Any threshold of the shares of a secret give the secret back, whatever the
\* polynomial's other coefficients.
SharesReconstruct ==
  \A xs \in SUBSET Participant, t \in Tails, secret \in GF :
    Cardinality(xs) = Threshold =>
      Reconstruct([x \in xs |-> Split(secret, t[secret], N)[x]]) = secret

\* Enough shares came back to reconstruct a secret.
EnoughShares == Cardinality(responders) >= Threshold

\* No mask is left in a revealed sum: the pairwise masks of two survivors
\* cancel, those against a dropout and the self masks were removed, and none
\* was removed twice or with the wrong sign (PairwiseMaskAggregator.aggregate).
MasksCancel == phase = "revealed" /\ EnoughShares => NoMaskLeft

SurvivorsSum == MapThenSumSet(LAMBDA c : delta[c], survivors)

SurvivorsNorm == FoldSet(Larger, 0, {Magnitude(delta[c]) : c \in survivors})

\* What is revealed is the sum of exactly the updates that were there when the
\* recovery data was drawn up, as the field holds it: the number congruent to
\* it in (-modulus/2, modulus/2] (_lift_to_signed), and so the sum itself when
\* assert_no_wrap would accept the survivors' count and norm.  No mask is left
\* in it, and an update that arrives later is never half counted
\* (PairwiseMaskAggregator.aggregate).
RevealedIsSurvivorsSum ==
  phase = "revealed" /\ EnoughShares =>
    /\ Encode(result, modulus) = Encode(SurvivorsSum, modulus)
    /\ -modulus < 2 * result /\ 2 * result <= modulus
    /\ Fits(Cardinality(survivors), SurvivorsNorm, modulus) => result = SurvivorsSum

\* RFC-0011 section 2 promises that the integer sum never wraps, and section 8
\* that one that would is an error: what is revealed is the sum itself.  Nothing
\* between build_masked_update and aggregate sees to it.
SumNeverWraps == phase = "revealed" /\ EnoughShares => result = SurvivorsSum

\* RFC-0011 section 8 promises an error when the shares are too few: what is
\* revealed has no mask left in it.  aggregate uses the shares there are.
NoMaskRevealed == phase = "revealed" => NoMaskLeft
=============================================================================
