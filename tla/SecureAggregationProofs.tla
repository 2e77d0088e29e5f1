---------------------- MODULE SecureAggregationProofs ----------------------
(***************************************************************************)
(* The masks cancel for every number of participants, every threshold,     *)
(* every choice of the participants that drop out and every order in which *)
(* updates and shares arrive.  That the shares give the secrets back is    *)
(* proved too, from the primality of the field alone: Lagrange             *)
(* interpolation at 0 finds the constant term of a polynomial with as many *)
(* coefficients as there are shares.                                       *)
(***************************************************************************)
EXTENDS SecureAggregation, FiniteSetTheorems, WellFoundedInduction, TLAPS

Early == {"masking", "shares", "refused"}

One(b) == IF b THEN 1 ELSE 0

\* How far each phase has brought the three loops.
Progress ==
  /\ phase \in Early => added = {} /\ unmasked = {} /\ cleared = {} /\ NoMaskLeft
  /\ phase = "sum" => unmasked = {} /\ cleared = {}
  /\ phase = "unmask" => added = updates /\ cleared = {}
  /\ phase \in {"clear", "revealed"} => added = updates /\ unmasked = updates
  /\ phase = "revealed" => Dropouts \X updates \subseteq cleared
  /\ phase \notin Early /\ EnoughShares => Cardinality(used) = Threshold
  /\ unmasked \subseteq survivors

\* A self mask is in the total from the moment its update is added until it
\* is removed.
SelfMasks ==
  EnoughShares =>
    \A v \in GF : selfMask[v] = One(\E c \in added \ unmasked : SelfSecret[c] = v)

\* The coefficient of the mask c and d share, c < d: c's update adds it, d's
\* subtracts it, and the loop over the dropouts undoes the one that is left.
PairMasks ==
  EnoughShares =>
    /\ \A c, d \in Participant : c < d =>
         pairMask[Shared(SecretKey[c], SecretKey[d])] =
           One(c \in added) - One(d \in added)
             - One(<<d, c>> \in cleared) + One(<<c, d>> \in cleared)
    /\ \A k \in GF \X GF :
         (~ \E c, d \in Participant : c < d /\ k = Shared(SecretKey[c], SecretKey[d]))
           => pairMask[k] = 0

\* The inductive invariant but for the field arithmetic of plain.
Types ==
  /\ phase \in Phases
  /\ tail \in Tails
  /\ updates \subseteq Participant
  /\ survivors \subseteq updates
  /\ responders \subseteq survivors /\ used \subseteq responders
  /\ added \subseteq updates /\ unmasked \subseteq added
  /\ cleared \subseteq Dropouts \X updates
  /\ selfMask \in [GF -> Int] /\ pairMask \in [GF \X GF -> Int]

MaskInv == Types /\ Progress /\ SelfMasks /\ PairMasks

-----------------------------------------------------------------------------
(***************************************************************************)
(* Pure facts: the pairs of keys and the field's lift.                     *)
(***************************************************************************)
\* The mask two participants share determines them, in their order.
LEMMA SharedIsInjective ==
  ASSUME NEW a \in Participant, NEW b \in Participant,
         NEW c \in Participant, NEW d \in Participant,
         a < b, c < d,
         Shared(SecretKey[a], SecretKey[b]) = Shared(SecretKey[c], SecretKey[d])
  PROVE  a = c /\ b = d
  <1>1. SecretKey[a] \in Int /\ SecretKey[b] \in Int /\ SecretKey[c] \in Int /\ SecretKey[d] \in Int
    BY AggregationAssumption DEF GF
  <1>2. \/ SecretKey[a] = SecretKey[c] /\ SecretKey[b] = SecretKey[d]
        \/ SecretKey[a] = SecretKey[d] /\ SecretKey[b] = SecretKey[c]
    BY <1>1 DEF Shared
  <1>3. \/ a = c /\ b = d
        \/ a = d /\ b = c
    BY <1>2, AggregationAssumption
  <1>4. a \in Int /\ b \in Int /\ c \in Int /\ d \in Int
    BY AggregationAssumption DEF Participant
  <1> QED
    BY <1>3, <1>4

\* Either of the two may come first, and the mask is indexed by field elements.
LEMMA SharedIsSymmetric ==
  ASSUME NEW a \in GF, NEW b \in GF
  PROVE  Shared(a, b) = Shared(b, a) /\ Shared(a, b) \in GF \X GF
  <1>1. a \in Int /\ b \in Int
    BY AggregationAssumption DEF GF
  <1> QED
    BY <1>1 DEF Shared

\* Of two participants that share a mask the smaller adds it, the larger
\* subtracts it, and nobody else touches it.
LEMMA MaskSignOfPair ==
  ASSUME NEW a \in Participant, NEW b \in Participant, a < b, NEW c \in Participant
  PROVE  MaskSign(c, Shared(SecretKey[a], SecretKey[b])) = One(c = a) - One(c = b)
  <1> DEFINE k == Shared(SecretKey[a], SecretKey[b])
  <1>0. Participant \subseteq Int
    BY AggregationAssumption DEF Participant
  <1>1. ASSUME NEW p \in Participant, p > c, k = Shared(SecretKey[c], SecretKey[p])
        PROVE  c = a /\ p = b
    BY <1>1, <1>0, SharedIsInjective
  <1>2. ASSUME NEW p \in Participant, p < c, k = Shared(SecretKey[c], SecretKey[p])
        PROVE  c = b /\ p = a
    <2>1. SecretKey[c] \in GF /\ SecretKey[p] \in GF
      BY AggregationAssumption
    <2>2. k = Shared(SecretKey[p], SecretKey[c])
      BY <1>2, <2>1, SharedIsSymmetric
    <2> QED
      BY <1>2, <2>2, <1>0, SharedIsInjective
  <1>3. CASE c = a
    <2>1. \E p \in Participant : p > c /\ k = Shared(SecretKey[c], SecretKey[p])
      BY <1>3, <1>0
    <2>2. c # b
      BY <1>3, <1>0
    <2> QED
      BY <2>1, <2>2, <1>3 DEF MaskSign, One
  <1>4. CASE c = b
    <2>1. ~ \E p \in Participant : p > c /\ k = Shared(SecretKey[c], SecretKey[p])
      BY <1>1, <1>4, <1>0
    <2>2. SecretKey[c] \in GF /\ SecretKey[a] \in GF
      BY AggregationAssumption
    <2>3. \E p \in Participant : p < c /\ k = Shared(SecretKey[c], SecretKey[p])
      BY <1>4, <1>0, <2>2, SharedIsSymmetric
    <2>4. c # a
      BY <1>4, <1>0
    <2> QED
      BY <2>1, <2>3, <2>4, <1>4 DEF MaskSign, One
  <1>5. CASE c # a /\ c # b
    <2>1. ~ \E p \in Participant : p > c /\ k = Shared(SecretKey[c], SecretKey[p])
      BY <1>1, <1>5
    <2>2. ~ \E p \in Participant : p < c /\ k = Shared(SecretKey[c], SecretKey[p])
      BY <1>2, <1>5
    <2> QED
      BY <2>1, <2>2, <1>5 DEF MaskSign, One
  <1> QED
    BY <1>3, <1>4, <1>5

\* A key that no two participants share carries no mask.
LEMMA MaskSignOfNobody ==
  ASSUME NEW k,
         ~ \E c, d \in Participant : c < d /\ k = Shared(SecretKey[c], SecretKey[d]),
         NEW c \in Participant
  PROVE  MaskSign(c, k) = 0
  <1>0. Participant \subseteq Int
    BY AggregationAssumption DEF Participant
  <1>1. ~ \E p \in Participant : p > c /\ k = Shared(SecretKey[c], SecretKey[p])
    BY <1>0
  <1>2. ASSUME NEW p \in Participant, p < c, k = Shared(SecretKey[c], SecretKey[p])
        PROVE  FALSE
    <2>1. SecretKey[c] \in GF /\ SecretKey[p] \in GF
      BY AggregationAssumption
    <2> QED
      BY <1>2, <2>1, SharedIsSymmetric
  <1> QED
    BY <1>1, <1>2 DEF MaskSign

\* Recentring undoes the lift into the field for every value that stays below
\* half the modulus, at either sign and for odd and even moduli
\* (encode_delta, _lift_to_signed).
THEOREM LiftUndoesEncode ==
  ASSUME NEW m \in Nat \ {0}, NEW x \in Int, -(m \div 2) < x, x < m \div 2
  PROVE  Lift(Encode(x, m), m) = x
  <1>1. m \div 2 \in Int /\ 2 * (m \div 2) <= m
    OBVIOUS
  <1>2. CASE x >= 0
    <2>1. x % m = x
      BY <1>1, <1>2
    <2> QED
      BY <2>1 DEF Lift, Encode
  <1>3. CASE x < 0
    <2>1. x % m = x + m
      BY <1>1, <1>3
    <2>2. x + m > m \div 2
      BY <1>1
    <2> QED
      BY <2>1, <2>2, <1>1 DEF Lift, Encode
  <1> QED
    BY <1>2, <1>3

\* Recentring changes a field element by the modulus or not at all, and its result is
\* in (-modulus/2, modulus/2] (_lift_to_signed).
LEMMA LiftIsCentred ==
  ASSUME NEW m \in Nat \ {0}, NEW x \in Int
  PROVE  /\ Lift(x % m, m) % m = x % m
         /\ -m < 2 * Lift(x % m, m) /\ 2 * Lift(x % m, m) <= m
  <1>1. PICK y \in 0 .. m - 1 : y = x % m
    OBVIOUS
  <1>2. m \div 2 \in Int /\ 2 * (m \div 2) <= m /\ m <= 2 * (m \div 2) + 1
    OBVIOUS
  <1>3. CASE y > m \div 2
    <2>1. Lift(y, m) = y - m
      BY <1>3 DEF Lift
    <2>2. (y - m) % m = y
      BY <1>1
    <2> QED
      BY <1>1, <1>2, <1>3, <2>1, <2>2
  <1>4. CASE ~(y > m \div 2)
    <2>1. Lift(y, m) = y
      BY <1>4 DEF Lift
    <2>2. y % m = y
      BY <1>1
    <2> QED
      BY <1>1, <1>2, <1>4, <2>1, <2>2
  <1> QED
    BY <1>3, <1>4

-----------------------------------------------------------------------------
(***************************************************************************)
(* Sums over sets, as the folds of the community modules compute them.     *)
(***************************************************************************)
\* Induction on the numbers: a set of them that is not empty has a least one.
LEMMA LeastNumber ==
  ASSUME NEW M \in SUBSET Nat, M # {}
  PROVE  \E n \in M : \A m \in M : n <= m
  <1>1. PICK n \in M : \A m \in M : ~ (<<m, n>> \in OpToRel(<, Nat))
    BY NatLessThanWellFounded, WFMin
  <1>2. \A m \in M : ~ (m < n)
    BY <1>1 DEF OpToRel
  <1> QED
    BY <1>2

\* Induction on the subsets of a finite set: if some are bad, a smallest one is.
LEMMA SmallestSubset ==
  ASSUME NEW S, IsFiniteSet(S), NEW Bad \in SUBSET (SUBSET S), Bad # {}
  PROVE  \E s \in Bad : \A t \in SUBSET s : t # s => t \notin Bad
  <1> DEFINE Sizes == {Cardinality(s) : s \in Bad}
  <1>1. \A s \in SUBSET S : IsFiniteSet(s) /\ Cardinality(s) \in Nat
    BY FS_Subset, FS_CardinalityType
  <1>2. Sizes \in SUBSET Nat /\ Sizes # {}
    BY <1>1
  <1>3. PICK n \in Sizes : \A m \in Sizes : n <= m
    BY <1>2, LeastNumber
  <1>4. PICK s \in Bad : Cardinality(s) = n
    OBVIOUS
  <1>5. ASSUME NEW t \in SUBSET s, t # s, t \in Bad PROVE FALSE
    <2>1. Cardinality(t) < Cardinality(s)
      BY <1>1, <1>5, FS_Subset
    <2>2. n <= Cardinality(t)
      BY <1>3, <1>5
    <2> QED
      BY <1>1, <1>2, <1>4, <1>5, <2>1, <2>2
  <1> QED
    BY <1>5

\* A function on the subsets of S that folds: what a set folds to is a step from
\* what is left of it without the element that is chosen.
Folds(g, S, base, chosen, step) ==
  \A s \in SUBSET S :
    g[s] = IF s = {} THEN base ELSE step[<<chosen[s], g[s \ {chosen[s]}]>>]

\* Recursion over the subsets of a finite set defines a function.
LEMMA FoldExists ==
  ASSUME NEW S, IsFiniteSet(S), NEW V, NEW base \in V,
         NEW chosen, \A s \in SUBSET S : s # {} => chosen[s] \in s,
         NEW step \in [S \X V -> V]
  PROVE  \E g \in [SUBSET S -> V] : Folds(g, S, base, chosen, step)
  <1> DEFINE Upto(n) == {s \in SUBSET S : Cardinality(s) <= n}
             FoldsUpto(g, n) ==
               \A s \in Upto(n) :
                 g[s] = IF s = {} THEN base ELSE step[<<chosen[s], g[s \ {chosen[s]}]>>]
             Bad == {n \in Nat : ~ \E g \in [SUBSET S -> V] : FoldsUpto(g, n)}
  <1>1. \A s \in SUBSET S : IsFiniteSet(s) /\ Cardinality(s) \in Nat
    BY FS_Subset, FS_CardinalityType
  <1>2. \A s \in SUBSET S : s # {} =>
          /\ s \ {chosen[s]} \in SUBSET S
          /\ Cardinality(s \ {chosen[s]}) = Cardinality(s) - 1
    BY <1>1, FS_RemoveElement
  <1>3. Bad = {}
    <2> SUFFICES ASSUME Bad # {} PROVE FALSE
      OBVIOUS
    <2>1. PICK n \in Bad : \A m \in Bad : n <= m
      BY LeastNumber
    <2>2. n \in Nat /\ ~ \E g \in [SUBSET S -> V] : FoldsUpto(g, n)
      OBVIOUS
    <2>3. CASE n = 0
      <3> DEFINE g == [s \in SUBSET S |-> base]
      <3>1. \A s \in Upto(0) : s = {}
        BY <1>1, FS_EmptySet
      <3>2. g \in [SUBSET S -> V] /\ FoldsUpto(g, 0)
        BY <3>1
      <3> HIDE DEF g
      <3> QED
        BY <2>2, <2>3, <3>2
    <2>4. CASE n # 0
      <3>1. n - 1 \in Nat /\ ~ (n <= n - 1)
        BY <2>2, <2>4
      <3>2. PICK h \in [SUBSET S -> V] : FoldsUpto(h, n - 1)
        BY <2>1, <3>1
      <3> DEFINE g == [s \in SUBSET S |->
                         IF s = {} THEN base
                         ELSE step[<<chosen[s], h[s \ {chosen[s]}]>>]]
      <3>3. \A s \in SUBSET S : s # {} => step[<<chosen[s], h[s \ {chosen[s]}]>>] \in V
        <4> SUFFICES ASSUME NEW s \in SUBSET S, s # {}
                     PROVE  step[<<chosen[s], h[s \ {chosen[s]}]>>] \in V
          OBVIOUS
        <4>1. chosen[s] \in S /\ h[s \ {chosen[s]}] \in V
          BY <1>2
        <4>2. <<chosen[s], h[s \ {chosen[s]}]>> \in S \X V
          BY <4>1
        <4> QED
          BY <4>2
      <3>4. g \in [SUBSET S -> V]
        BY <3>3
      <3>5. \A s \in SUBSET S :
              g[s] = IF s = {} THEN base ELSE step[<<chosen[s], h[s \ {chosen[s]}]>>]
        OBVIOUS
      <3> HIDE DEF g
      <3>6. \A s \in Upto(n - 1) : g[s] = h[s]
        BY <3>2, <3>5
      <3>7. \A s \in Upto(n) : s # {} => s \ {chosen[s]} \in Upto(n - 1)
        BY <1>1, <1>2, <2>2
      <3>8. FoldsUpto(g, n)
        <4> SUFFICES ASSUME NEW s \in Upto(n)
                     PROVE  g[s] = IF s = {} THEN base
                                   ELSE step[<<chosen[s], g[s \ {chosen[s]}]>>]
          OBVIOUS
        <4>1. s \in SUBSET S
          OBVIOUS
        <4>2. s # {} => g[s \ {chosen[s]}] = h[s \ {chosen[s]}]
          BY <3>6, <3>7
        <4> HIDE DEF Upto
        <4> QED
          BY <3>5, <4>1, <4>2
      <3> HIDE DEF FoldsUpto
      <3> QED
        BY <2>2, <3>4, <3>8
    <2> QED
      BY <2>3, <2>4
  <1>4. Cardinality(S) \in Nat /\ Cardinality(S) \notin Bad
    BY <1>1, <1>3
  <1>5. PICK g \in [SUBSET S -> V] : FoldsUpto(g, Cardinality(S))
    BY <1>4
  <1>6. Upto(Cardinality(S)) = SUBSET S
    BY FS_Subset
  <1> QED
    BY <1>5, <1>6 DEF Folds

\* The sum of a set of updates, d being what each of them contributes.
Sum(d, T) == MapThenSumSet(LAMBDA c : d[c], T)

Chosen(S) == [s \in SUBSET S |-> CHOOSE x \in s : TRUE]
Plus(d, S) == [p \in S \X Int |-> d[p[1]] + p[2]]

\* What is chosen of a set that is not empty is in it.
LEMMA ChosenIsThere ==
  ASSUME NEW S
  PROVE  \A s \in SUBSET S : s # {} => Chosen(S)[s] \in s
  BY DEF Chosen

\* Two steps may be taken in either order.
Commutes(step, S, V) ==
  \A a, b \in S : \A v \in V : step[<<a, step[<<b, v>>]>>] = step[<<b, step[<<a, v>>]>>]

\* The fold may take any element of a set first.
FoldsAnyhow(g, S, base, step) ==
  /\ g[{}] = base
  /\ \A T \in SUBSET S : \A c \in T : g[T] = step[<<c, g[T \ {c}]>>]

\* What a fold gives does not depend on the order when two steps commute.
LEMMA FoldAnyOrder ==
  ASSUME NEW S, IsFiniteSet(S), NEW V, NEW base \in V,
         NEW step \in [S \X V -> V],
         Commutes(step, S, V),
         NEW g \in [SUBSET S -> V], Folds(g, S, base, Chosen(S), step)
  PROVE  FoldsAnyhow(g, S, base, step)
  <1>1. g[{}] = base
    BY DEF Folds
  <1>2. \A T \in SUBSET S : T # {} =>
          Chosen(S)[T] \in T /\ g[T] = step[<<Chosen(S)[T], g[T \ {Chosen(S)[T]}]>>]
    BY ChosenIsThere DEF Folds
  <1> DEFINE Bad == {T \in SUBSET S : \E c \in T : g[T] # step[<<c, g[T \ {c}]>>]}
  <1>3. Bad = {}
    <2> SUFFICES ASSUME Bad # {} PROVE FALSE
      OBVIOUS
    <2>1. Bad \in SUBSET (SUBSET S)
      OBVIOUS
    <2>2. PICK T \in Bad : \A U \in SUBSET T : U # T => U \notin Bad
      <3> HIDE DEF Bad
      <3> QED
        BY <2>1, SmallestSubset
    <2>3. PICK c \in T : g[T] # step[<<c, g[T \ {c}]>>]
      OBVIOUS
    <2>4. PICK x \in T : T \in SUBSET S /\ g[T] = step[<<x, g[T \ {x}]>>]
      BY <1>2
    <2>5. c # x
      BY <2>3, <2>4
    <2>6. g[T \ {x}] = step[<<c, g[(T \ {x}) \ {c}]>>]
      <3>1. T \ {x} \in SUBSET T /\ T \ {x} # T /\ c \in T \ {x}
        BY <2>4, <2>5
      <3> QED
        BY <2>2, <2>4, <3>1
    <2>7. g[T \ {c}] = step[<<x, g[(T \ {c}) \ {x}]>>]
      <3>1. T \ {c} \in SUBSET T /\ T \ {c} # T /\ x \in T \ {c}
        BY <2>4, <2>5
      <3> QED
        BY <2>2, <2>4, <3>1
    <2>8. PICK rest \in V : rest = g[(T \ {c}) \ {x}] /\ rest = g[(T \ {x}) \ {c}]
      <3>1. (T \ {x}) \ {c} = (T \ {c}) \ {x} /\ (T \ {c}) \ {x} \in SUBSET S
        BY <2>4
      <3> QED
        BY <3>1
    <2>9. g[T] = step[<<x, step[<<c, rest>>]>>] /\ step[<<c, g[T \ {c}]>>] = step[<<c, step[<<x, rest>>]>>]
      BY <2>4, <2>6, <2>7, <2>8
    <2>10. x \in S /\ c \in S
      BY <2>4
    <2> QED
      BY <2>3, <2>8, <2>9, <2>10 DEF Commutes
  <1> QED
    BY <1>1, <1>3 DEF FoldsAnyhow

\* A function that folds Plus over the subsets of S gives their sums.
LEMMA SumFolds ==
  ASSUME NEW S, IsFiniteSet(S), NEW d \in [S -> Int],
         NEW g \in [SUBSET S -> Int], Folds(g, S, 0, Chosen(S), Plus(d, S)),
         NEW T \in SUBSET S
  PROVE  Sum(d, T) = g[T]
  <1> DEFINE Body(f) == [s \in SUBSET T |->
                           IF s = {} THEN 0
                           ELSE d[CHOOSE x \in s : TRUE] + f[s \ {CHOOSE x \in s : TRUE}]]
             iter == CHOOSE f : f = Body(f)
             h == [s \in SUBSET T |-> g[s]]
  <1>1. Sum(d, T) = iter[T]
    BY DEF Sum, MapThenSumSet, MapThenFoldSet
  <1>2. h = Body(h)
    <2> SUFFICES ASSUME NEW s \in SUBSET T
                 PROVE  g[s] = IF s = {} THEN 0
                               ELSE d[CHOOSE x \in s : TRUE] + h[s \ {CHOOSE x \in s : TRUE}]
      OBVIOUS
    <2>1. s \in SUBSET S
      OBVIOUS
    <2>2. g[s] = IF s = {} THEN 0
                 ELSE Plus(d, S)[<<Chosen(S)[s], g[s \ {Chosen(S)[s]}]>>]
      BY <2>1 DEF Folds
    <2>3. Chosen(S)[s] = CHOOSE x \in s : TRUE
      BY <2>1 DEF Chosen
    <2>4. s # {} => Chosen(S)[s] \in s /\ g[s \ {Chosen(S)[s]}] \in Int
      BY <2>1, ChosenIsThere
    <2>5. s # {} => Plus(d, S)[<<Chosen(S)[s], g[s \ {Chosen(S)[s]}]>>]
                     = d[Chosen(S)[s]] + g[s \ {Chosen(S)[s]}]
      BY <2>1, <2>4 DEF Plus
    <2>6. g[s \ {Chosen(S)[s]}] = h[s \ {Chosen(S)[s]}]
      OBVIOUS
    <2> QED
      BY <2>2, <2>3, <2>5, <2>6
  <1>3. iter = Body(iter)
    <2> HIDE DEF h
    <2>1. \E f : f = Body(f)
      BY <1>2
    <2> HIDE DEF Body
    <2> QED
      BY <2>1
  <1>4. \A s \in SUBSET T : iter[s] = h[s]
    <2> DEFINE Bad == {s \in SUBSET T : iter[s] # h[s]}
    <2> SUFFICES ASSUME Bad # {} PROVE FALSE
      OBVIOUS
    <2>1. IsFiniteSet(T) /\ Bad \in SUBSET (SUBSET T)
      BY FS_Subset
    <2> HIDE DEF iter, h
    <2>2. PICK s \in Bad : \A t \in SUBSET s : t # s => t \notin Bad
      <3> HIDE DEF Bad
      <3> QED
        BY <2>1, SmallestSubset
    <2>3. s \in SUBSET T /\ iter[s] # h[s]
      OBVIOUS
    <2> DEFINE x == CHOOSE x \in s : TRUE
    <2>4. /\ iter[s] = IF s = {} THEN 0 ELSE d[x] + iter[s \ {x}]
          /\ h[s] = IF s = {} THEN 0 ELSE d[x] + h[s \ {x}]
      <3>1. \A f : Body(f)[s] = IF s = {} THEN 0 ELSE d[x] + f[s \ {x}]
        BY <2>3
      <3> HIDE DEF Body
      <3> QED
        BY <1>2, <1>3, <3>1
    <2>5. s # {} => x \in s
      OBVIOUS
    <2> HIDE DEF x
    <2>6. s # {} => iter[s \ {x}] = h[s \ {x}]
      BY <2>2, <2>3, <2>5
    <2> QED
      BY <2>3, <2>4, <2>6
  <1> QED
    BY <1>1, <1>4

\* Sums over the subsets of a finite set: nothing is 0, and any element may be taken
\* out first.
LEMMA SumProperties ==
  ASSUME NEW S, IsFiniteSet(S), NEW d \in [S -> Int]
  PROVE  /\ Sum(d, {}) = 0
         /\ \A T \in SUBSET S :
              /\ Sum(d, T) \in Int
              /\ \A c \in T : Sum(d, T) = d[c] + Sum(d, T \ {c})
  <1>1. PICK g \in [SUBSET S -> Int] : Folds(g, S, 0, Chosen(S), Plus(d, S))
    <2>0. Plus(d, S) \in [S \X Int -> Int]
      BY DEF Plus
    <2>1. PICK step \in [S \X Int -> Int] : step = Plus(d, S)
      BY <2>0
    <2>2. PICK chosen : chosen = Chosen(S)
      OBVIOUS
    <2>3. \A s \in SUBSET S : s # {} => chosen[s] \in s
      BY <2>2, ChosenIsThere
    <2>4. 0 \in Int
      OBVIOUS
    <2>5. \E g \in [SUBSET S -> Int] : Folds(g, S, 0, chosen, step)
      BY <2>3, <2>4, FoldExists
    <2> QED
      BY <2>1, <2>2, <2>5
  <1>2. \A T \in SUBSET S : Sum(d, T) = g[T]
    BY <1>1, SumFolds
  <1>3. \A c \in S, v \in Int : Plus(d, S)[<<c, v>>] = d[c] + v
    BY DEF Plus
  <1>4. PICK step \in [S \X Int -> Int] : step = Plus(d, S)
    <2>1. Plus(d, S) \in [S \X Int -> Int]
      BY DEF Plus
    <2> QED
      BY <2>1
  <1>5. Commutes(step, S, Int)
    <2> SUFFICES ASSUME NEW a \in S, NEW b \in S, NEW v \in Int
                 PROVE  step[<<a, step[<<b, v>>]>>] = step[<<b, step[<<a, v>>]>>]
      BY DEF Commutes
    <2>1. PICK x \in Int, y \in Int : x = d[a] + v /\ y = d[b] + v
      OBVIOUS
    <2>2. step[<<a, v>>] = x /\ step[<<b, v>>] = y
      BY <1>3, <1>4, <2>1
    <2>3. step[<<a, y>>] = d[a] + y /\ step[<<b, x>>] = d[b] + x
      BY <1>3, <1>4
    <2>4. d[a] + y = d[b] + x
      BY <2>1
    <2> QED
      BY <2>2, <2>3, <2>4
  <1>6. FoldsAnyhow(g, S, 0, step)
    <2>1. Folds(g, S, 0, Chosen(S), step) /\ 0 \in Int
      BY <1>1, <1>4
    <2> QED
      BY <1>5, <2>1, FoldAnyOrder
  <1>7. \A T \in SUBSET S : \A c \in T : g[T] = d[c] + g[T \ {c}]
    <2> SUFFICES ASSUME NEW T \in SUBSET S, NEW c \in T PROVE g[T] = d[c] + g[T \ {c}]
      OBVIOUS
    <2>1. PICK v \in Int : v = g[T \ {c}]
      OBVIOUS
    <2>2. g[T] = step[<<c, v>>] /\ c \in S
      BY <1>6, <2>1 DEF FoldsAnyhow
    <2> QED
      BY <1>3, <1>4, <2>1, <2>2
  <1> QED
    BY <1>2, <1>6, <1>7 DEF FoldsAnyhow

\* A sum is at most as many times the largest summand as there are summands.
LEMMA SumBound ==
  ASSUME NEW S, IsFiniteSet(S), NEW d \in [S -> Int], NEW norm \in Nat,
         NEW T \in SUBSET S, \A c \in T : Magnitude(d[c]) <= norm
  PROVE  /\ Cardinality(T) * norm \in Nat
         /\ Magnitude(Sum(d, T)) <= Cardinality(T) * norm
  <1> DEFINE Bad == {U \in SUBSET T : ~ (Magnitude(Sum(d, U)) <= Cardinality(U) * norm)}
  <1>0. IsFiniteSet(T)
    BY FS_Subset
  <1>1. \A U \in SUBSET T : IsFiniteSet(U) /\ Cardinality(U) \in Nat
    BY <1>0, FS_Subset, FS_CardinalityType
  <1>2. Bad = {}
    <2> SUFFICES ASSUME Bad # {} PROVE FALSE
      OBVIOUS
    <2>1. Bad \in SUBSET (SUBSET T)
      OBVIOUS
    <2>2. PICK U \in Bad : \A W \in SUBSET U : W # U => W \notin Bad
      <3> HIDE DEF Bad
      <3> QED
        BY <1>0, <2>1, SmallestSubset
    <2>3. U \in SUBSET T /\ U \in SUBSET S /\ ~ (Magnitude(Sum(d, U)) <= Cardinality(U) * norm)
      OBVIOUS
    <2>4. U # {}
      <3>1. Sum(d, {}) = 0 /\ Cardinality({}) = 0 /\ 0 * norm = 0
        BY SumProperties, FS_EmptySet
      <3>2. Magnitude(Sum(d, {})) <= Cardinality({}) * norm
        BY <3>1 DEF Magnitude
      <3> QED
        BY <2>3, <3>2
    <2>5. PICK c \in U : TRUE
      BY <2>4
    <2> DEFINE W == U \ {c}
    <2>6. W \in SUBSET S /\ W \in SUBSET T /\ W \in SUBSET U /\ W # U
      BY <2>3
    <2>7. Magnitude(Sum(d, W)) <= Cardinality(W) * norm
      BY <2>2, <2>6
    <2>8. Sum(d, U) = d[c] + Sum(d, W) /\ Sum(d, W) \in Int /\ d[c] \in Int
      BY <2>3, <2>6, SumProperties
    <2>9. Cardinality(U) = Cardinality(W) + 1 /\ Cardinality(W) \in Nat
      BY <1>1, <2>3, <2>6, FS_RemoveElement
    <2>10. Cardinality(U) * norm = Cardinality(W) * norm + norm
      BY <2>9
    <2>11. Magnitude(d[c]) <= norm
      BY <2>3
    <2>12. Cardinality(W) * norm \in Nat
      BY <2>9
    <2> HIDE DEF W, Bad
    <2>13. Magnitude(Sum(d, U)) <= Cardinality(W) * norm + norm
      BY <2>7, <2>8, <2>11, <2>12 DEF Magnitude
    <2> QED
      BY <2>3, <2>10, <2>13
  <1> QED
    BY <1>1, <1>2

\* The fold of Larger is at least its base and every element.
Largest(base, S) == FoldSet(Larger, base, S)
Larger2(S) == [p \in S \X Nat |-> Larger(p[1], p[2])]

\* The norm the field is sized for bounds the clip norm and every update.
LEMMA LargestBounds ==
  ASSUME NEW S \in SUBSET Nat, IsFiniteSet(S), NEW base \in Nat
  PROVE  /\ Largest(base, S) \in Nat
         /\ \A x \in S : x <= Largest(base, S)
  <1> DEFINE Body(f) == [s \in SUBSET S |->
                           IF s = {} THEN base
                           ELSE Larger(CHOOSE x \in s : TRUE, f[s \ {CHOOSE x \in s : TRUE}])]
             iter == CHOOSE f : f = Body(f)
  <1>1. Largest(base, S) = iter[S]
    BY DEF Largest, FoldSet, MapThenFoldSet
  <1>2. PICK g \in [SUBSET S -> Nat] : Folds(g, S, base, Chosen(S), Larger2(S))
    <2>1. PICK step \in [S \X Nat -> Nat] : step = Larger2(S)
      BY DEF Larger2, Larger
    <2>2. PICK chosen : chosen = Chosen(S)
      OBVIOUS
    <2>3. \A s \in SUBSET S : s # {} => chosen[s] \in s
      BY <2>2, ChosenIsThere
    <2>4. \E g \in [SUBSET S -> Nat] : Folds(g, S, base, chosen, step)
      BY <2>3, FoldExists
    <2> QED
      BY <2>1, <2>2, <2>4
  <1>3. g = Body(g)
    <2> SUFFICES ASSUME NEW s \in SUBSET S
                 PROVE  g[s] = IF s = {} THEN base
                               ELSE Larger(CHOOSE x \in s : TRUE, g[s \ {CHOOSE x \in s : TRUE}])
      OBVIOUS
    <2>2. g[s] = IF s = {} THEN base
                 ELSE Larger2(S)[<<Chosen(S)[s], g[s \ {Chosen(S)[s]}]>>]
      BY <1>2 DEF Folds
    <2>3. Chosen(S)[s] = CHOOSE x \in s : TRUE
      BY DEF Chosen
    <2>4. s # {} => Chosen(S)[s] \in S /\ g[s \ {Chosen(S)[s]}] \in Nat
      BY ChosenIsThere
    <2>5. s # {} => Larger2(S)[<<Chosen(S)[s], g[s \ {Chosen(S)[s]}]>>]
                     = Larger(Chosen(S)[s], g[s \ {Chosen(S)[s]}])
      BY <2>4 DEF Larger2
    <2> QED
      BY <2>2, <2>3, <2>5
  <1>4. iter = Body(iter)
    <2> HIDE DEF Body
    <2> QED
      BY <1>3
  <1>5. \A s \in SUBSET S :
          iter[s] = IF s = {} THEN base
                    ELSE Larger(CHOOSE x \in s : TRUE, iter[s \ {CHOOSE x \in s : TRUE}])
    <2> SUFFICES ASSUME NEW s \in SUBSET S
                 PROVE  iter[s] = IF s = {} THEN base
                                  ELSE Larger(CHOOSE x \in s : TRUE,
                                              iter[s \ {CHOOSE x \in s : TRUE}])
      OBVIOUS
    <2> HIDE DEF iter
    <2>1. Body(iter)[s] = IF s = {} THEN base
                          ELSE Larger(CHOOSE x \in s : TRUE,
                                      iter[s \ {CHOOSE x \in s : TRUE}])
      OBVIOUS
    <2> HIDE DEF Body
    <2> QED
      BY <1>4, <2>1
  <1> HIDE DEF iter
  <1> DEFINE Good(s) == iter[s] \in Nat /\ \A x \in s : x <= iter[s]
             Bad == {s \in SUBSET S : ~ Good(s)}
  <1>6. Bad = {}
    <2> SUFFICES ASSUME Bad # {} PROVE FALSE
      OBVIOUS
    <2>1. Bad \in SUBSET (SUBSET S)
      OBVIOUS
    <2>2. PICK s \in Bad : \A t \in SUBSET s : t # s => t \notin Bad
      <3> HIDE DEF Bad
      <3> QED
        BY <2>1, SmallestSubset
    <2>3. s \in SUBSET S /\ ~ Good(s)
      OBVIOUS
    <2> DEFINE y == CHOOSE x \in s : TRUE
    <2>4. s # {} /\ y \in s
      BY <1>5, <2>3
    <2>5. iter[s] = Larger(y, iter[s \ {y}])
      BY <1>5, <2>3, <2>4
    <2> HIDE DEF y
    <2>6. Good(s \ {y})
      BY <2>2, <2>3, <2>4
    <2> HIDE DEF Bad
    <2>7. /\ y \in Nat /\ iter[s] \in Nat /\ iter[s \ {y}] \in Nat
          /\ y <= iter[s] /\ iter[s \ {y}] <= iter[s]
      BY <2>3, <2>4, <2>5, <2>6 DEF Larger
    <2>8. ASSUME NEW x \in s PROVE x <= iter[s]
      <3>1. x \in Nat /\ (x = y \/ x <= iter[s \ {y}])
        BY <2>3, <2>6
      <3> HIDE DEF Good
      <3> QED
        BY <2>7, <3>1
    <2> QED
      BY <2>3, <2>7, <2>8
  <1> QED
    BY <1>1, <1>6

-----------------------------------------------------------------------------
(***************************************************************************)
(* Sums in the field.                                                      *)
(***************************************************************************)
\* Division with remainder.
LEMMA DivMod ==
  ASSUME NEW m \in Nat \ {0}, NEW x \in Int
  PROVE  \E q \in Int, r \in 0 .. m - 1 : x = m * q + r /\ r = x % m
  <1>1. PICK q \in Int : q = x \div m
    OBVIOUS
  <1>2. PICK r \in 0 .. m - 1 : r = x % m
    OBVIOUS
  <1>3. x % m = x - m * (x \div m)
    OBVIOUS
  <1>4. r = x - m * q
    BY <1>1, <1>2, <1>3
  <1>5. x = m * q + r
    BY <1>4
  <1> QED
    BY <1>2, <1>5

\* Two remainders do not differ by a multiple of the modulus.
LEMMA NoMultiple ==
  ASSUME NEW m \in Nat \ {0}, NEW k \in Int, NEW r \in 0 .. m - 1, NEW s \in 0 .. m - 1,
         r - s = m * k
  PROVE  r = s
  <1>1. k >= 1 => m * k >= m
    OBVIOUS
  <1>2. k <= -1 => m * k <= -m
    OBVIOUS
  <1>3. k = 0
    BY <1>1, <1>2
  <1> QED
    BY <1>3

\* The remainder is the only one.
LEMMA ModUnique ==
  ASSUME NEW m \in Nat \ {0}, NEW q \in Int, NEW r \in 0 .. m - 1
  PROVE  (m * q + r) % m = r
  <1> DEFINE z == m * q + r
  <1>1. z \in Int
    OBVIOUS
  <1>2. PICK p \in Int, s \in 0 .. m - 1 : z = m * p + s /\ s = z % m
    BY <1>1, DivMod
  <1>3. s - r = m * (q - p)
    <2>1. m * q + r = m * p + s
      BY <1>2
    <2>2. m * (q - p) = m * q - m * p
      OBVIOUS
    <2> QED
      BY <2>1, <2>2
  <1>4. s = r
    BY <1>3, NoMultiple
  <1> QED
    BY <1>2, <1>4

\* Adding in the field is adding the integers the elements stand for.
LEMMA ModAdds ==
  ASSUME NEW m \in Nat \ {0}, NEW x \in Int, NEW y \in Int
  PROVE  ((x % m) + (y % m)) % m = (x + y) % m
  <1>1. PICK q \in Int, r \in 0 .. m - 1 : x = m * q + r /\ r = x % m
    BY DivMod
  <1>2. PICK p \in Int, s \in 0 .. m - 1 : y = m * p + s /\ s = y % m
    BY DivMod
  <1>3. PICK z \in Int : z = r + s
    OBVIOUS
  <1>4. PICK k \in Int, t \in 0 .. m - 1 : z = m * k + t /\ t = z % m
    BY DivMod
  <1>5. x + y = m * (q + p + k) + t
    <2>1. x = m * q + r /\ y = m * p + s
      BY <1>1, <1>2
    <2>2. x + y = m * q + m * p + (r + s)
      BY <2>1
    <2>3. x + y = m * q + m * p + (m * k + t)
      BY <1>3, <1>4, <2>2
    <2>4. m * q + m * p + (m * k + t) = m * (q + p + k) + t
      OBVIOUS
    <2> QED
      BY <2>3, <2>4
  <1>6. (x + y) % m = t
    <2>1. q + p + k \in Int
      OBVIOUS
    <2>2. (m * (q + p + k) + t) % m = t
      BY <2>1, ModUnique
    <2> QED
      BY <1>5, <2>2, Zenon
  <1>7. (x % m) + (y % m) = z
    <2>1. x % m = r /\ y % m = s
      BY <1>1, <1>2
    <2> QED
      BY <1>3, <2>1
  <1>8. z % m = t
    BY <1>4
  <1> QED
    BY <1>6, <1>7, <1>8, Zenon

-----------------------------------------------------------------------------
(***************************************************************************)
(* The field: integers modulo a prime.                                     *)
(***************************************************************************)
\* Two integers stand for the same element of the field.
Same(a, b) == \E k \in Int : a = b + Prime * k

\* Same is an equivalence, and sums, products and differences respect it.
LEMMA SameReflects ==
  ASSUME NEW a \in Int PROVE Same(a, a)
  <1>1. a = a + Prime * 0
    BY PrimeAssumption
  <1> QED
    BY <1>1 DEF Same

LEMMA SameTurns ==
  ASSUME NEW a \in Int, NEW b \in Int, Same(a, b) PROVE Same(b, a)
  <1>1. PICK k \in Int : a = b + Prime * k
    BY DEF Same
  <1>2. b = a + Prime * (-k)
    BY <1>1, PrimeAssumption
  <1>3. -k \in Int
    OBVIOUS
  <1> QED
    BY <1>2, <1>3 DEF Same

LEMMA SameChains ==
  ASSUME NEW a \in Int, NEW b \in Int, NEW c \in Int, Same(a, b), Same(b, c)
  PROVE  Same(a, c)
  <1>1. PICK k \in Int : a = b + Prime * k
    BY DEF Same
  <1>2. PICK l \in Int : b = c + Prime * l
    BY DEF Same
  <1>3. Prime * (k + l) = Prime * k + Prime * l
    BY PrimeAssumption
  <1>4. a = c + Prime * (k + l) /\ k + l \in Int
    BY <1>1, <1>2, <1>3, PrimeAssumption
  <1> QED
    BY <1>4 DEF Same

LEMMA SameAdds ==
  ASSUME NEW a \in Int, NEW b \in Int, NEW c \in Int, NEW d \in Int,
         Same(a, b), Same(c, d)
  PROVE  Same(a + c, b + d)
  <1>1. PICK k \in Int : a = b + Prime * k
    BY DEF Same
  <1>2. PICK l \in Int : c = d + Prime * l
    BY DEF Same
  <1>3. Prime * (k + l) = Prime * k + Prime * l
    BY PrimeAssumption
  <1>4. a + c = b + d + Prime * (k + l) /\ k + l \in Int
    BY <1>1, <1>2, <1>3, PrimeAssumption
  <1> QED
    BY <1>4 DEF Same

LEMMA SameMultiplies ==
  ASSUME NEW a \in Int, NEW b \in Int, NEW c \in Int, NEW d \in Int,
         Same(a, b), Same(c, d)
  PROVE  Same(a * c, b * d)
  <1>0. Prime \in Int
    BY PrimeAssumption
  <1>1. PICK k \in Int : a = b + Prime * k
    BY DEF Same
  <1>2. PICK l \in Int : c = d + Prime * l
    BY DEF Same
  <1> DEFINE q == k * d + b * l + Prime * (k * l)
  <1>3. \A p \in Int : (b + p * k) * (d + p * l) = b * d + p * (k * d + b * l + p * (k * l))
    OBVIOUS
  <1>4. a * c = b * d + Prime * q /\ q \in Int
    BY <1>0, <1>1, <1>2, <1>3
  <1> QED
    BY <1>4 DEF Same

LEMMA SameScales ==
  ASSUME NEW a \in Int, NEW b \in Int, NEW c \in Int, Same(b, c)
  PROVE  Same(a * b, a * c) /\ a * b \in Int /\ a * c \in Int
  <1>1. Same(a, a)
    BY SameReflects
  <1>2. Same(a * b, a * c)
    BY <1>1, SameMultiplies
  <1> QED
    BY <1>2

LEMMA SameSubtracts ==
  ASSUME NEW a \in Int, NEW b \in Int, NEW c \in Int, NEW d \in Int,
         Same(a, b), Same(c, d)
  PROVE  Same(a - c, b - d)
  <1>1. PICK m \in Int : m = -1
    OBVIOUS
  <1>2. Same(m * c, m * d) /\ m * c \in Int /\ m * d \in Int
    BY SameScales
  <1>3. Same(a + m * c, b + m * d)
    BY <1>2, SameAdds
  <1> QED
    BY <1>1, <1>3

\* The remainder stands for the number it is the remainder of.
LEMMA SameRemainder ==
  ASSUME NEW a \in Int PROVE Same(a % Prime, a) /\ a % Prime \in GF
  <1>0. Prime \in Nat \ {0}
    BY PrimeAssumption
  <1>1. PICK q \in Int, r \in 0 .. Prime - 1 : a = Prime * q + r /\ r = a % Prime
    BY <1>0, DivMod
  <1>2. r = a + Prime * (-q) /\ -q \in Int
    BY <1>0, <1>1
  <1> QED
    BY <1>1, <1>2 DEF Same, GF

\* An element of the field has one representative in 0 .. Prime - 1.
LEMMA SameElement ==
  ASSUME NEW a \in GF, NEW b \in GF, Same(a, b) PROVE a = b
  <1>0. Prime \in Nat \ {0}
    BY PrimeAssumption
  <1>1. PICK k \in Int : a = b + Prime * k
    BY DEF Same
  <1>2. a - b = Prime * k /\ a \in 0 .. Prime - 1 /\ b \in 0 .. Prime - 1
    BY <1>0, <1>1 DEF GF
  <1> QED
    BY <1>0, <1>2, NoMultiple

\* Whatever is not 0 in the field has an inverse: the least positive number among
\* its multiples divides the prime.
LEMMA InverseExists ==
  ASSUME NEW a \in Int, ~ Same(a, 0)
  PROVE  FieldInverse(a) \in GF /\ Same(a * FieldInverse(a), 1)
  <1>0. Prime \in Nat \ {0} /\ 0 \in GF /\ 1 \in GF /\ GF \subseteq Nat
    BY PrimeAssumption DEF GF
  <1> DEFINE M == {m \in Nat : m # 0 /\ \E b \in Int : Same(a * b, m)}
  <1>m. ASSUME NEW m \in Nat, m # 0, NEW b \in Int, NEW c \in Int, c = a * b, Same(c, m)
        PROVE  m \in M
    BY <1>m
  <1>1. a % Prime \in M
    <2>1. Same(a % Prime, a) /\ a % Prime \in GF
      BY SameRemainder
    <2>2. Same(a, a % Prime)
      BY <1>0, <2>1, SameTurns
    <2>3. a % Prime # 0
      BY <2>2
    <2>4. PICK one \in Int : one = 1 /\ a = a * one
      OBVIOUS
    <2>5. a % Prime \in Nat
      BY <1>0, <2>1
    <2> HIDE DEF M
    <2> QED
      BY <1>m, <2>2, <2>3, <2>4, <2>5
  <1>2. PICK m \in M : \A n \in M : m <= n
    BY <1>1, LeastNumber
  <1>3. PICK b \in Int : Same(a * b, m)
    OBVIOUS
  <1>4. m \in Nat \ {0} /\ m < Prime
    <2>1. a % Prime \in GF /\ m <= a % Prime
      BY <1>1, <1>2, SameRemainder
    <2> QED
      BY <1>0, <2>1 DEF GF
  <1>5. PICK q \in Int, r \in 0 .. m - 1 : Prime = m * q + r /\ r = Prime % m
    <2>1. Prime \in Int
      BY <1>0
    <2> QED
      BY <1>4, <2>1, DivMod
  <1>6. r = 0
    <2> SUFFICES ASSUME r # 0 PROVE FALSE
      OBVIOUS
    <2>1. Same(a * b * (-q), m * (-q))
      <3>1. Same(-q, -q) /\ -q \in Int /\ a * b \in Int
        BY SameReflects
      <3> QED
        BY <1>3, <1>4, <3>1, SameMultiplies
    <2>2. Same(m * (-q), r)
      <3>1. m * (-q) = r + Prime * (-1)
        BY <1>0, <1>4, <1>5
      <3> QED
        BY <3>1 DEF Same
    <2>3. a * b * (-q) = a * (b * (-q)) /\ b * (-q) \in Int /\ m * (-q) \in Int
      BY <1>4
    <2>4. Same(a * (b * (-q)), r)
      BY <2>1, <2>2, <2>3, SameChains
    <2>5. PICK c \in Int : c = b * (-q)
      BY <2>3
    <2>6. Same(a * c, r) /\ a * c \in Int /\ r \in Nat
      BY <1>4, <2>4, <2>5
    <2>7. r \in M
      <3> HIDE DEF M
      <3> QED
        BY <1>m, <2>6
    <2> QED
      BY <1>2, <1>4, <2>7
  <1>7. m = 1
    BY <1>0, <1>4, <1>5, <1>6, PrimeAssumption
  <1>8. PICK c \in GF : Same(c, b)
    BY SameRemainder
  <1>9. (a * c) % Prime = 1
    <2>1. Same(a, a) /\ c \in Int
      BY <1>0, SameReflects
    <2>2. Same(a * c, a * b) /\ a * c \in Int /\ a * b \in Int
      BY <1>8, <2>1, SameMultiplies
    <2>3. Same(a * c, 1)
      BY <1>3, <1>7, <2>2, SameChains
    <2>4. Same((a * c) % Prime, a * c) /\ (a * c) % Prime \in GF
      BY <2>2, SameRemainder
    <2>5. Same((a * c) % Prime, 1)
      BY <1>0, <2>2, <2>3, <2>4, SameChains
    <2> QED
      BY <1>0, <2>4, <2>5, SameElement
  <1>10. FieldInverse(a) \in GF /\ (a * FieldInverse(a)) % Prime = 1
    BY <1>9 DEF FieldInverse
  <1>11. PICK e \in GF : e = FieldInverse(a)
    BY <1>10
  <1>12. Same((a * e) % Prime, a * e) /\ (a * e) % Prime = 1 /\ a * e \in Int
    BY <1>0, <1>10, <1>11, SameRemainder
  <1>13. Same(a * e, 1)
    BY <1>12, SameTurns
  <1> QED
    BY <1>11, <1>13

\* What is not 0 may be cancelled.
LEMMA SameCancels ==
  ASSUME NEW a \in Int, NEW b \in Int, NEW c \in Int, ~ Same(a, 0), Same(a * b, a * c)
  PROVE  Same(b, c)
  <1>1. GF \subseteq Int
    BY PrimeAssumption DEF GF
  <1>2. PICK e \in Int : Same(a * e, 1)
    BY <1>1, InverseExists
  <1>3. ASSUME NEW x \in Int PROVE Same(e * (a * x), x)
    <2>1. Same((a * e) * x, 1 * x)
      BY <1>2, SameReflects, SameMultiplies
    <2> QED
      BY <2>1
  <1>4. PICK u \in Int, v \in Int : u = a * b /\ v = a * c
    OBVIOUS
  <1>5. Same(u, v)
    BY <1>4
  <1>6. Same(e * u, e * v) /\ Same(e * u, b) /\ Same(e * v, c)
    BY <1>3, <1>4, <1>5, SameReflects, SameMultiplies
  <1>7. e * u \in Int /\ e * v \in Int
    OBVIOUS
  <1>8. Same(b, e * u)
    BY <1>6, <1>7, SameTurns
  <1>9. Same(b, e * v)
    BY <1>6, <1>7, <1>8, SameChains
  <1> QED
    BY <1>6, <1>7, <1>9, SameChains

\* A product is not 0 unless a factor is.
LEMMA SameZero ==
  ASSUME NEW a \in Int, NEW b \in Int, ~ Same(a, 0), ~ Same(b, 0)
  PROVE  ~ Same(a * b, 0)
  <1>1. a * 0 = 0
    OBVIOUS
  <1>2. SUFFICES ASSUME Same(a * b, 0) PROVE FALSE
    OBVIOUS
  <1>3. PICK z \in Int : z = 0 /\ a * z = z
    BY <1>1
  <1>4. Same(a * b, a * z)
    BY <1>2, <1>3
  <1> QED
    BY <1>3, <1>4, SameCancels

-----------------------------------------------------------------------------
(***************************************************************************)
(* Products over sets, as Reconstruct folds them.                          *)
(***************************************************************************)
\* A step of Product, as a function.
Times(a, S) == [p \in S \X Int |-> (p[2] * (a - p[1])) % Prime]

\* The factors of a product commute, reduced at every step or not.
LEMMA TimesCommutes ==
  ASSUME NEW a \in Int, NEW S \in SUBSET Int
  PROVE  /\ Times(a, S) \in [S \X Int -> Int]
         /\ \A b \in S, v \in Int : Times(a, S)[<<b, v>>] = (v * (a - b)) % Prime
         /\ Commutes(Times(a, S), S, Int)
  <1>0. GF \subseteq Int
    BY PrimeAssumption DEF GF
  <1>1. \A b \in S, v \in Int : Times(a, S)[<<b, v>>] = (v * (a - b)) % Prime
    BY DEF Times
  <1>2. \A b \in S, v \in Int : (v * (a - b)) \in Int
    OBVIOUS
  <1>3. \A x \in Int : x % Prime \in Int
    BY <1>0, SameRemainder
  <1>4. Times(a, S) \in [S \X Int -> Int]
    <2> SUFFICES ASSUME NEW b \in S, NEW v \in Int
                 PROVE  (v * (a - b)) % Prime \in Int
      BY DEF Times
    <2> QED
      BY <1>3
  <1>5. ASSUME NEW b \in S, NEW c \in S, NEW v \in Int
        PROVE  Same((((v * (a - c)) % Prime) * (a - b)) % Prime, (v * (a - c)) * (a - b))
    <2>1. PICK u \in Int : u = v * (a - c)
      OBVIOUS
    <2>2. PICK d \in Int : d = a - b
      OBVIOUS
    <2>3. PICK w \in Int : w = u % Prime /\ Same(w, u)
      BY <1>3, SameRemainder
    <2>4. Same(w * d, u * d)
      BY <2>3, SameReflects, SameMultiplies
    <2>5. PICK z \in Int : z = (w * d) % Prime /\ Same(z, w * d)
      <3>1. w * d \in Int
        OBVIOUS
      <3> QED
        BY <1>3, <3>1, SameRemainder
    <2>6. w * d \in Int /\ u * d \in Int
      OBVIOUS
    <2>7. Same(z, u * d)
      BY <2>4, <2>5, <2>6, SameChains
    <2> QED
      BY <2>1, <2>2, <2>3, <2>5, <2>7
  <1>6. ASSUME NEW b \in S, NEW c \in S, NEW v \in Int
        PROVE  Times(a, S)[<<b, Times(a, S)[<<c, v>>]>>] = Times(a, S)[<<c, Times(a, S)[<<b, v>>]>>]
    <2>1. PICK x \in GF : x = (((v * (a - c)) % Prime) * (a - b)) % Prime
      BY <1>3, SameRemainder
    <2>2. PICK y \in GF : y = (((v * (a - b)) % Prime) * (a - c)) % Prime
      BY <1>3, SameRemainder
    <2>3. PICK p \in Int : p = (v * (a - c)) * (a - b) /\ p = (v * (a - b)) * (a - c)
      OBVIOUS
    <2>4. Same(x, p) /\ Same(y, p)
      BY <1>5, <2>1, <2>2, <2>3
    <2>5. Same(x, y)
      BY <1>0, <2>4, SameTurns, SameChains
    <2>6. x = y
      BY <2>5, SameElement
    <2>7. PICK u \in Int : u = Times(a, S)[<<b, v>>] /\ u = (v * (a - b)) % Prime
      BY <1>1, <1>3
    <2>8. PICK w \in Int : w = Times(a, S)[<<c, v>>] /\ w = (v * (a - c)) % Prime
      BY <1>1, <1>3
    <2>9. Times(a, S)[<<b, w>>] = x /\ Times(a, S)[<<c, u>>] = y
      BY <1>1, <2>1, <2>2, <2>7, <2>8
    <2> QED
      BY <2>6, <2>7, <2>8, <2>9
  <1> QED
    BY <1>1, <1>4, <1>6 DEF Commutes

\* g holds the products over the subsets of S.
Products(a, S, g) == \A T \in SUBSET S : Product(a, T) = g[T]

\* A function that folds Times over the subsets of S gives their products.
LEMMA ProductFolds ==
  ASSUME NEW a \in Int, NEW S \in SUBSET Int, IsFiniteSet(S),
         NEW g \in [SUBSET S -> Int], Folds(g, S, 1, Chosen(S), Times(a, S))
  PROVE  Products(a, S, g)
  <1> SUFFICES ASSUME NEW T \in SUBSET S PROVE Product(a, T) = g[T]
    BY DEF Products
  <1> DEFINE Body(f) == [s \in SUBSET T |->
                           IF s = {} THEN 1
                           ELSE (f[s \ {CHOOSE x \in s : TRUE}] * (a - CHOOSE x \in s : TRUE)) % Prime]
             iter == CHOOSE f : f = Body(f)
             h == [s \in SUBSET T |-> g[s]]
  <1>1. Product(a, T) = iter[T]
    BY DEF Product, FoldSet, MapThenFoldSet
  <1>2. h = Body(h)
    <2> SUFFICES ASSUME NEW s \in SUBSET T
                 PROVE  g[s] = IF s = {} THEN 1
                               ELSE (h[s \ {CHOOSE x \in s : TRUE}] * (a - CHOOSE x \in s : TRUE)) % Prime
      OBVIOUS
    <2>1. s \in SUBSET S
      OBVIOUS
    <2>2. g[s] = IF s = {} THEN 1
                 ELSE Times(a, S)[<<Chosen(S)[s], g[s \ {Chosen(S)[s]}]>>]
      BY <2>1 DEF Folds
    <2>3. Chosen(S)[s] = CHOOSE x \in s : TRUE
      BY <2>1 DEF Chosen
    <2>4. s # {} => Chosen(S)[s] \in S /\ g[s \ {Chosen(S)[s]}] \in Int
      BY <2>1, ChosenIsThere
    <2>5. s # {} => Times(a, S)[<<Chosen(S)[s], g[s \ {Chosen(S)[s]}]>>]
                     = (g[s \ {Chosen(S)[s]}] * (a - Chosen(S)[s])) % Prime
      <3>1. \A b \in S, v \in Int : Times(a, S)[<<b, v>>] = (v * (a - b)) % Prime
        BY TimesCommutes
      <3> QED
        BY <2>4, <3>1
    <2>6. g[s \ {Chosen(S)[s]}] = h[s \ {Chosen(S)[s]}]
      OBVIOUS
    <2> QED
      BY <2>2, <2>3, <2>5, <2>6
  <1>3. iter = Body(iter)
    <2> HIDE DEF h
    <2>1. \E f : f = Body(f)
      BY <1>2
    <2> HIDE DEF Body
    <2> QED
      BY <2>1
  <1>4. \A s \in SUBSET T : iter[s] = h[s]
    <2> DEFINE Bad == {s \in SUBSET T : iter[s] # h[s]}
    <2> SUFFICES ASSUME Bad # {} PROVE FALSE
      OBVIOUS
    <2>1. IsFiniteSet(T) /\ Bad \in SUBSET (SUBSET T)
      BY FS_Subset
    <2> HIDE DEF iter, h
    <2>2. PICK s \in Bad : \A t \in SUBSET s : t # s => t \notin Bad
      <3> HIDE DEF Bad
      <3> QED
        BY <2>1, SmallestSubset
    <2>3. s \in SUBSET T /\ iter[s] # h[s]
      OBVIOUS
    <2> DEFINE x == CHOOSE x \in s : TRUE
    <2>4. /\ iter[s] = IF s = {} THEN 1 ELSE (iter[s \ {x}] * (a - x)) % Prime
          /\ h[s] = IF s = {} THEN 1 ELSE (h[s \ {x}] * (a - x)) % Prime
      <3>1. \A f : Body(f)[s] = IF s = {} THEN 1 ELSE (f[s \ {x}] * (a - x)) % Prime
        BY <2>3
      <3> HIDE DEF Body
      <3> QED
        BY <1>2, <1>3, <3>1
    <2>5. s # {} => x \in s
      OBVIOUS
    <2> HIDE DEF x
    <2>6. s # {} => iter[s \ {x}] = h[s \ {x}]
      BY <2>2, <2>3, <2>5
    <2> QED
      BY <2>3, <2>4, <2>6
  <1> QED
    BY <1>1, <1>4

\* A product over a set: nothing is 1, and any factor may be taken out first.
LEMMA ProductProperties ==
  ASSUME NEW a \in Int, NEW S \in SUBSET Int, IsFiniteSet(S)
  PROVE  /\ Product(a, {}) = 1
         /\ \A T \in SUBSET S :
              /\ Product(a, T) \in Int
              /\ \A c \in T : Same(Product(a, T), Product(a, T \ {c}) * (a - c))
  <1>1. PICK g \in [SUBSET S -> Int] : Folds(g, S, 1, Chosen(S), Times(a, S))
    <2>1. PICK step \in [S \X Int -> Int] : step = Times(a, S)
      BY TimesCommutes
    <2>2. PICK chosen : chosen = Chosen(S)
      OBVIOUS
    <2>3. \A s \in SUBSET S : s # {} => chosen[s] \in s
      BY <2>2, ChosenIsThere
    <2>4. 1 \in Int
      OBVIOUS
    <2>5. \E g \in [SUBSET S -> Int] : Folds(g, S, 1, chosen, step)
      BY <2>3, <2>4, FoldExists
    <2> QED
      BY <2>1, <2>2, <2>5
  <1>2. \A T \in SUBSET S : Product(a, T) = g[T]
    <2>1. Products(a, S, g)
      BY <1>1, ProductFolds
    <2> QED
      BY <2>1 DEF Products
  <1>3. /\ g[{}] = 1
        /\ \A T \in SUBSET S : \A c \in T : g[T] = Times(a, S)[<<c, g[T \ {c}]>>]
    <2>1. PICK step \in [S \X Int -> Int] : step = Times(a, S)
      BY TimesCommutes
    <2>2. Commutes(step, S, Int)
      BY <2>1, TimesCommutes
    <2>3. Folds(g, S, 1, Chosen(S), step) /\ 1 \in Int
      BY <1>1, <2>1
    <2>4. FoldsAnyhow(g, S, 1, step)
      BY <2>2, <2>3, FoldAnyOrder
    <2> QED
      BY <2>1, <2>4 DEF FoldsAnyhow
  <1>4. ASSUME NEW T \in SUBSET S, NEW c \in T
        PROVE  Same(Product(a, T), Product(a, T \ {c}) * (a - c))
    <2>1. PICK v \in Int : v = g[T \ {c}]
      OBVIOUS
    <2>0. c \in S
      OBVIOUS
    <2>2. g[T] = (v * (a - c)) % Prime
      <3>1. Times(a, S)[<<c, v>>] = (v * (a - c)) % Prime
        BY <2>0, TimesCommutes
      <3>2. g[T] = Times(a, S)[<<c, v>>]
        BY <1>3, <2>1
      <3> QED
        BY <3>1, <3>2
    <2>3. v * (a - c) \in Int
      OBVIOUS
    <2>4. Same(g[T], v * (a - c))
      BY <2>2, <2>3, SameRemainder
    <2>5. Product(a, T) = g[T] /\ Product(a, T \ {c}) = v
      BY <1>2, <2>1
    <2> QED
      BY <2>4, <2>5
  <1> QED
    BY <1>2, <1>3, <1>4

\* The field is finite, and different elements of it differ.
LEMMA FieldNodes ==
  /\ GF \in SUBSET Int /\ IsFiniteSet(GF)
  /\ \A a, b \in GF : a # b => ~ Same(a - b, 0)
  <1>1. GF \in SUBSET Int /\ IsFiniteSet(GF)
    BY PrimeAssumption, FS_Interval DEF GF
  <1>2. ASSUME NEW a \in GF, NEW b \in GF, Same(a - b, 0) PROVE a = b
    <2>1. PICK d \in Int : d = a - b /\ a = d + b /\ b = 0 + b
      BY <1>1
    <2>2. Same(d + b, 0 + b)
      BY <1>1, <1>2, <2>1, SameReflects, SameAdds
    <2> QED
      BY <2>1, <2>2, SameElement
  <1> QED
    BY <1>1, <1>2

\* No factor is 0, so the product is not.
LEMMA ProductNotZero ==
  ASSUME NEW a \in GF, NEW T \in SUBSET GF, a \notin T
  PROVE  Product(a, T) \in Int /\ ~ Same(Product(a, T), 0)
  <1>0. /\ a \in Int
        /\ Product(a, {}) = 1
        /\ \A U \in SUBSET GF : /\ Product(a, U) \in Int
                                /\ \A c \in U : Same(Product(a, U), Product(a, U \ {c}) * (a - c))
    BY FieldNodes, ProductProperties
  <1> DEFINE Bad == {U \in SUBSET T : Same(Product(a, U), 0)}
  <1>1. Bad = {}
    <2> SUFFICES ASSUME Bad # {} PROVE FALSE
      OBVIOUS
    <2>1. Bad \in SUBSET (SUBSET T) /\ IsFiniteSet(T)
      BY FieldNodes, FS_Subset
    <2>2. PICK U \in Bad : \A V \in SUBSET U : V # U => V \notin Bad
      <3> HIDE DEF Bad
      <3> QED
        BY <2>1, SmallestSubset
    <2>3. U \in SUBSET T /\ U \in SUBSET GF /\ Same(Product(a, U), 0)
      OBVIOUS
    <2>4. U # {}
      <3>1. 0 \in GF /\ 1 \in GF
        BY PrimeAssumption DEF GF
      <3>2. ~ Same(1, 0)
        BY <3>1, SameElement
      <3> QED
        BY <1>0, <2>3, <3>2
    <2>5. PICK c \in U : TRUE
      BY <2>4
    <2>6. PICK u \in Int : u = Product(a, U \ {c})
      BY <1>0, <2>3
    <2>7. ~ Same(u, 0)
      BY <2>2, <2>3, <2>6
    <2>8. a - c \in Int /\ ~ Same(a - c, 0) /\ c \in Int
      BY <2>3, FieldNodes
    <2>9. ~ Same(u * (a - c), 0)
      BY <2>7, <2>8, SameZero
    <2>10. Same(Product(a, U), u * (a - c)) /\ Product(a, U) \in Int /\ u * (a - c) \in Int
      BY <1>0, <2>3, <2>6, <2>8
    <2>11. Same(u * (a - c), Product(a, U))
      BY <2>10, SameTurns
    <2> QED
      BY <2>3, <2>9, <2>10, <2>11, SameChains
  <1> QED
    BY <1>0, <1>1

-----------------------------------------------------------------------------
(***************************************************************************)
(* Divided differences.  Over more nodes than a polynomial has             *)
(* coefficients its divided difference is 0; with 0 and the shares for     *)
(* nodes that says what the value at 0 is.                                 *)
(***************************************************************************)
\* On T, f is a times d and b times e.
Combines(f, a, d, b, e, T) == \A x \in T : Same(f[x], a * d[x] + b * e[x])

\* Sums are linear.
LEMMA SumLinear ==
  ASSUME NEW S, IsFiniteSet(S), NEW R, IsFiniteSet(R), NEW f \in [S -> Int],
         NEW d \in [R -> Int], NEW e \in [R -> Int], NEW a \in Int, NEW b \in Int,
         NEW T \in SUBSET S, T \in SUBSET R, Combines(f, a, d, b, e, T)
  PROVE  Same(Sum(f, T), a * Sum(d, T) + b * Sum(e, T))
  <1> DEFINE Good(U) == Same(Sum(f, U), a * Sum(d, U) + b * Sum(e, U))
             Bad == {U \in SUBSET T : ~ Good(U)}
  <1>0. /\ Sum(f, {}) = 0 /\ Sum(d, {}) = 0 /\ Sum(e, {}) = 0
        /\ \A U \in SUBSET T : Sum(f, U) \in Int /\ Sum(d, U) \in Int /\ Sum(e, U) \in Int
        /\ \A U \in SUBSET T : \A c \in U : /\ Sum(f, U) = f[c] + Sum(f, U \ {c})
                                            /\ Sum(d, U) = d[c] + Sum(d, U \ {c})
                                            /\ Sum(e, U) = e[c] + Sum(e, U \ {c})
    BY SumProperties
  <1>1. Bad = {}
    <2> SUFFICES ASSUME Bad # {} PROVE FALSE
      OBVIOUS
    <2>1. Bad \in SUBSET (SUBSET T) /\ IsFiniteSet(T)
      BY FS_Subset
    <2>2. PICK U \in Bad : \A V \in SUBSET U : V # U => V \notin Bad
      <3> HIDE DEF Bad
      <3> QED
        BY <2>1, SmallestSubset
    <2>3. U \in SUBSET T /\ ~ Good(U)
      OBVIOUS
    <2>4. U # {}
      <3>1. a * 0 + b * 0 = 0
        OBVIOUS
      <3>2. Good({})
        BY <1>0, <3>1, SameReflects
      <3> QED
        BY <2>3, <3>2
    <2>5. PICK c \in U : c \in T /\ c \in S /\ c \in R
      BY <2>3, <2>4
    <2>6. Good(U \ {c})
      BY <2>2, <2>3, <2>5
    <2>7. PICK fc \in Int, dc \in Int, ec \in Int : fc = f[c] /\ dc = d[c] /\ ec = e[c]
      BY <2>5
    <2>8. PICK fu \in Int, du \in Int, eu \in Int :
            fu = Sum(f, U \ {c}) /\ du = Sum(d, U \ {c}) /\ eu = Sum(e, U \ {c})
      BY <1>0, <2>3
    <2>9. Sum(f, U) = fc + fu /\ Sum(d, U) = dc + du /\ Sum(e, U) = ec + eu
      BY <1>0, <2>3, <2>7, <2>8
    <2>10. Same(fc, a * dc + b * ec)
      BY <2>5, <2>7 DEF Combines
    <2>11. Same(fu, a * du + b * eu)
      BY <2>6, <2>8
    <2>12. Same(fc + fu, (a * dc + b * ec) + (a * du + b * eu))
      <3>1. a * dc + b * ec \in Int /\ a * du + b * eu \in Int
        OBVIOUS
      <3> QED
        BY <2>10, <2>11, <3>1, SameAdds
    <2>13. (a * dc + b * ec) + (a * du + b * eu) = a * (dc + du) + b * (ec + eu)
      OBVIOUS
    <2>14. Good(U)
      BY <2>9, <2>12, <2>13
    <2> QED
      BY <2>3, <2>14
  <1> QED
    BY <1>1

\* What the value at x weighs in the divided difference over T.
Weight(T, x) == FieldInverse(Product(x, T \ {x}))

\* No two nodes are the same, so every weight is an inverse.
LEMMA WeightInverts ==
  ASSUME NEW T \in SUBSET GF, NEW x \in GF
  PROVE  /\ Weight(T, x) \in Int
         /\ Product(x, T \ {x}) \in Int
         /\ ~ Same(Product(x, T \ {x}), 0)
         /\ Same(Product(x, T \ {x}) * Weight(T, x), 1)
  <1>1. T \ {x} \in SUBSET GF /\ x \notin T \ {x}
    OBVIOUS
  <1>2. Product(x, T \ {x}) \in Int /\ ~ Same(Product(x, T \ {x}), 0)
    BY <1>1, ProductNotZero
  <1>3. Weight(T, x) \in GF /\ Same(Product(x, T \ {x}) * Weight(T, x), 1)
    BY <1>2, InverseExists DEF Weight
  <1> QED
    BY <1>2, <1>3, FieldNodes

\* A node less is a factor less to divide by.
LEMMA WeightWithout ==
  ASSUME NEW T \in SUBSET GF, NEW b \in T, NEW x \in GF, x # b
  PROVE  Same((x - b) * Weight(T, x), Weight(T \ {b}, x))
  <1>0. x \in Int /\ b \in Int
    BY FieldNodes
  <1>1. PICK p \in Int, w \in Int : /\ p = Product(x, T \ {x}) /\ w = Weight(T, x)
                                    /\ Same(p * w, 1)
    BY WeightInverts
  <1>2. PICK q \in Int, u \in Int : /\ q = Product(x, (T \ {b}) \ {x}) /\ u = Weight(T \ {b}, x)
                                    /\ Same(q * u, 1) /\ ~ Same(q, 0)
    <2>1. T \ {b} \in SUBSET GF
      OBVIOUS
    <2> QED
      BY <2>1, WeightInverts
  <1>3. PICK l \in Int : l = x - b
    BY <1>0
  <1>4. Same(p, q * l)
    <2>1. (T \ {b}) \ {x} = (T \ {x}) \ {b} /\ b \in T \ {x} /\ T \ {x} \in SUBSET GF
      OBVIOUS
    <2>2. Same(Product(x, T \ {x}), Product(x, (T \ {x}) \ {b}) * (x - b))
      BY <1>0, <2>1, FieldNodes, ProductProperties
    <2> QED
      BY <1>1, <1>2, <1>3, <2>1, <2>2
  <1>5. Same(p * w, (q * l) * w) /\ p * w \in Int /\ q * l \in Int /\ (q * l) * w \in Int
    <2>1. Same(w, w) /\ p * w \in Int /\ q * l \in Int /\ (q * l) * w \in Int
      BY SameReflects
    <2> QED
      BY <1>4, <2>1, SameMultiplies
  <1>6. (q * l) * w = q * (l * w) /\ l * w \in Int /\ q * u \in Int /\ q * (l * w) \in Int
    OBVIOUS
  <1>7. Same(q * (l * w), p * w)
    BY <1>5, <1>6, SameTurns
  <1>8. Same(q * (l * w), 1)
    BY <1>1, <1>5, <1>6, <1>7, SameChains
  <1>9. Same(1, q * u)
    BY <1>2, <1>6, SameTurns
  <1>10. Same(q * (l * w), q * u)
    BY <1>6, <1>8, <1>9, SameChains
  <1>11. Same(l * w, u)
    BY <1>2, <1>6, <1>10, SameCancels
  <1> QED
    BY <1>1, <1>2, <1>3, <1>11

\* The divided difference of h over the nodes T.
Difference(h, T) == Sum([x \in GF |-> h[x] * Weight(T, x)], T)

\* A divided difference is an integer.
LEMMA DifferenceType ==
  ASSUME NEW T \in SUBSET GF, NEW h \in [GF -> Int]
  PROVE  Difference(h, T) \in Int
  <1>1. \A x \in GF : Weight(T, x) \in Int
    BY WeightInverts
  <1>2. \A x \in GF : h[x] * Weight(T, x) \in Int
    BY <1>1
  <1>3. PICK w \in [GF -> Int] : w = [x \in GF |-> h[x] * Weight(T, x)]
    BY <1>2
  <1>4. Sum(w, T) \in Int
    BY FieldNodes, SumProperties
  <1> QED
    BY <1>3, <1>4 DEF Difference

\* Divided differences are linear.
LEMMA DifferenceLinear ==
  ASSUME NEW T \in SUBSET GF, NEW f \in [GF -> Int], NEW g \in [GF -> Int], NEW h \in [GF -> Int],
         NEW a \in Int, NEW b \in Int, Combines(f, a, g, b, h, T)
  PROVE  Same(Difference(f, T), a * Difference(g, T) + b * Difference(h, T))
  <1> DEFINE W(k) == [x \in GF |-> k[x] * Weight(T, x)]
  <1>0. \A x \in GF : Weight(T, x) \in Int
    BY WeightInverts
  <1>1. ASSUME NEW k \in [GF -> Int] PROVE W(k) \in [GF -> Int]
    <2>1. \A x \in GF : k[x] * Weight(T, x) \in Int
      BY <1>0
    <2> QED
      BY <2>1
  <1>2. ASSUME NEW x \in T
        PROVE  Same(W(f)[x], a * W(g)[x] + b * W(h)[x])
    <2>1. PICK w \in Int : w = Weight(T, x)
      BY <1>0
    <2>2. PICK fx \in Int, gx \in Int, hx \in Int : fx = f[x] /\ gx = g[x] /\ hx = h[x]
      OBVIOUS
    <2>3. W(f)[x] = fx * w /\ W(g)[x] = gx * w /\ W(h)[x] = hx * w
      BY <2>1, <2>2
    <2>4. Same(fx, a * gx + b * hx) /\ a * gx + b * hx \in Int
      BY <2>2 DEF Combines
    <2>5. Same(fx * w, (a * gx + b * hx) * w)
      BY <2>4, SameReflects, SameMultiplies
    <2>6. (a * gx + b * hx) * w = a * (gx * w) + b * (hx * w)
      OBVIOUS
    <2> QED
      BY <2>3, <2>5, <2>6
  <1> HIDE DEF W
  <1>3. Combines(W(f), a, W(g), b, W(h), T)
    BY <1>2 DEF Combines
  <1>4. PICK wf \in [GF -> Int], wg \in [GF -> Int], wh \in [GF -> Int] :
          wf = W(f) /\ wg = W(g) /\ wh = W(h)
    BY <1>1
  <1>5. Same(Sum(wf, T), a * Sum(wg, T) + b * Sum(wh, T))
    <2>1. Combines(wf, a, wg, b, wh, T) /\ IsFiniteSet(GF)
      BY <1>3, <1>4, FieldNodes
    <2> QED
      BY <2>1, SumLinear
  <1>6. Difference(f, T) = Sum(wf, T) /\ Difference(g, T) = Sum(wg, T) /\ Difference(h, T) = Sum(wh, T)
    BY <1>4 DEF Difference, W
  <1> QED
    BY <1>5, <1>6

\* A factor x - a and the node a cancel.
LEMMA DifferenceWithout ==
  ASSUME NEW T \in SUBSET GF, NEW a \in T, NEW f \in [GF -> Int], NEW h \in [GF -> Int],
         \A x \in T : f[x] = (x - a) * h[x]
  PROVE  Same(Difference(f, T), Difference(h, T \ {a}))
  <1> DEFINE R == T \ {a}
             wf == [x \in GF |-> f[x] * Weight(T, x)]
             wh == [x \in GF |-> h[x] * Weight(R, x)]
  <1>0. R \in SUBSET GF /\ a \in GF /\ GF \in SUBSET Int /\ a \in Int
    BY FieldNodes
  <1>1. \A x \in GF : Weight(T, x) \in Int /\ Weight(R, x) \in Int
    BY <1>0, WeightInverts
  <1>2. wf \in [GF -> Int] /\ wh \in [GF -> Int]
    <2>1. ASSUME NEW x \in GF
          PROVE  f[x] * Weight(T, x) \in Int /\ h[x] * Weight(R, x) \in Int
      <3>1. f[x] \in Int /\ h[x] \in Int /\ Weight(T, x) \in Int /\ Weight(R, x) \in Int
        BY <1>1
      <3> HIDE DEF R
      <3> QED
        BY <3>1
    <2> QED
      BY <2>1
  <1>3. wf[a] = 0
    <2>1. f[a] = (a - a) * h[a] /\ h[a] \in Int
      BY <1>0
    <2>2. f[a] = 0
      BY <1>0, <2>1
    <2> QED
      BY <1>0, <1>1, <2>2
  <1>4. ASSUME NEW x \in R PROVE Same(wf[x], 1 * wh[x] + 0 * wh[x])
    <2>1. x \in GF /\ x # a /\ x \in T /\ x \in Int
      BY <1>0
    <2>2. PICK w \in Int, u \in Int, hx \in Int, l \in Int :
            w = Weight(T, x) /\ u = Weight(R, x) /\ hx = h[x] /\ l = x - a
      <3> HIDE DEF R
      <3> QED
        BY <1>0, <1>1, <2>1
    <2>3. Same(l * w, u) /\ l * w \in Int
      <3>1. Same((x - a) * Weight(T, x), Weight(T \ {a}, x))
        BY <2>1, WeightWithout
      <3> QED
        BY <2>2, <3>1
    <2>4. Same(hx * (l * w), hx * u)
      BY <2>3, SameReflects, SameMultiplies
    <2>5. wf[x] = (l * hx) * w /\ wh[x] = hx * u
      BY <2>1, <2>2
    <2>6. (l * hx) * w = hx * (l * w) /\ hx * u = 1 * (hx * u) + 0 * (hx * u)
      OBVIOUS
    <2> QED
      BY <2>4, <2>5, <2>6
  <1>5. Difference(f, T) = Sum(wf, T) /\ Difference(h, R) = Sum(wh, R)
    BY DEF Difference
  <1> HIDE DEF wf, wh
  <1>6. Combines(wf, 1, wh, 0, wh, R)
    BY <1>4 DEF Combines
  <1>7. Same(Sum(wf, R), 1 * Sum(wh, R) + 0 * Sum(wh, R))
    <2>1. PICK one \in Int, zero \in Int : one = 1 /\ zero = 0
      OBVIOUS
    <2>2. Combines(wf, one, wh, zero, wh, R)
      BY <1>6, <2>1
    <2> HIDE DEF R
    <2>3. Same(Sum(wf, R), one * Sum(wh, R) + zero * Sum(wh, R))
      BY <1>0, <1>2, <2>2, FieldNodes, SumLinear
    <2> QED
      BY <2>1, <2>3
  <1>8. Sum(wf, T) = wf[a] + Sum(wf, R) /\ Sum(wf, R) \in Int /\ Sum(wh, R) \in Int
    <2>1. IsFiniteSet(GF) /\ T \in SUBSET GF /\ a \in T
      BY FieldNodes
    <2>2. Sum(wf, T) = wf[a] + Sum(wf, T \ {a})
      BY <1>2, <2>1, SumProperties
    <2>3. Sum(wf, T \ {a}) \in Int /\ Sum(wh, T \ {a}) \in Int
      BY <1>0, <1>2, <2>1, SumProperties
    <2> QED
      BY <2>2, <2>3
  <1>9. Sum(wf, T) = Sum(wf, R) /\ 1 * Sum(wh, R) + 0 * Sum(wh, R) = Sum(wh, R)
    BY <1>3, <1>8
  <1> QED
    BY <1>5, <1>7, <1>8, <1>9

\* The constant polynomial.
Constant(c) == [x \in GF |-> c]

\* Over one node the divided difference is the value.
LEMMA OneNode ==
  ASSUME NEW a \in GF PROVE Same(Difference(Constant(1), {a}), 1)
  <1> DEFINE w == [x \in GF |-> Constant(1)[x] * Weight({a}, x)]
  <1>1. {a} \in SUBSET GF /\ {a} \ {a} = {} /\ a \in Int
    BY FieldNodes
  <1>2. \A x \in GF : Weight({a}, x) \in Int
    BY <1>1, WeightInverts
  <1>3. w \in [GF -> Int] /\ w[a] = Weight({a}, a)
    BY <1>2 DEF Constant
  <1>4. Difference(Constant(1), {a}) = Sum(w, {a})
    BY DEF Difference
  <1> HIDE DEF w
  <1>5. Sum(w, {a}) = w[a] + Sum(w, {a} \ {a}) /\ Sum(w, {}) = 0
    <2>1. IsFiniteSet(GF) /\ a \in {a}
      BY FieldNodes
    <2>2. Sum(w, {}) = 0
      BY <1>3, <2>1, SumProperties
    <2>3. PICK T \in SUBSET GF : T = {a}
      BY <1>1
    <2>4. a \in T
      BY <2>3
    <2>5. Sum(w, T) = w[a] + Sum(w, T \ {a})
      BY <1>3, <2>1, <2>4, SumProperties
    <2> QED
      BY <2>2, <2>3, <2>5
  <1>6. Product(a, {}) = 1
    BY <1>1, FieldNodes, ProductProperties
  <1>7. Same(1 * Weight({a}, a), 1)
    BY <1>1, <1>6, WeightInverts
  <1>8. Weight({a}, a) \in Int
    BY <1>2
  <1>9. Sum(w, {a}) = Weight({a}, a) /\ 1 * Weight({a}, a) = Weight({a}, a)
    BY <1>1, <1>3, <1>5, <1>8
  <1> QED
    BY <1>4, <1>7, <1>9

\* The divided difference of a constant over two nodes and more is 0.
LEMMA ConstantVanishes ==
  ASSUME NEW T \in SUBSET GF, NEW a \in T, NEW b \in T, a # b
  PROVE  Same(Difference(Constant(1), T), 0)
  <1> DEFINE Bad == {U \in SUBSET T : /\ \E x, y \in U : x # y
                                      /\ ~ Same(Difference(Constant(1), U), 0)}
             From(x) == [y \in GF |-> y - x]
  <1>0. /\ Constant(1) \in [GF -> Int]
        /\ \A x \in GF : Constant(1)[x] = 1
    BY DEF Constant
  <1>1. Bad = {}
    <2> SUFFICES ASSUME Bad # {} PROVE FALSE
      OBVIOUS
    <2>1. Bad \in SUBSET (SUBSET T) /\ IsFiniteSet(T)
      BY FieldNodes, FS_Subset
    <2>2. PICK U \in Bad : \A V \in SUBSET U : V # U => V \notin Bad
      <3> HIDE DEF Bad
      <3> QED
        BY <2>1, SmallestSubset
    <2>3. U \in SUBSET T /\ U \in SUBSET GF /\ ~ Same(Difference(Constant(1), U), 0)
      OBVIOUS
    <2>4. PICK x \in U, y \in U : x # y
      OBVIOUS
    <2>5. x \in GF /\ y \in GF /\ x \in Int /\ y \in Int
      BY <2>3, FieldNodes
    <2>6. From(x) \in [GF -> Int] /\ From(y) \in [GF -> Int]
      BY <2>5, FieldNodes
    <2> DEFINE dx == Difference(Constant(1), U \ {x})
               dy == Difference(Constant(1), U \ {y})
               d  == Difference(Constant(1), U)
               l  == y - x
    <2>7. Same(Difference(From(x), U), dx) /\ dx \in Int
      <3>0. U \ {x} \in SUBSET GF
        BY <2>3
      <3>1. \A z \in U : From(x)[z] = (z - x) * Constant(1)[z]
        BY <1>0, <2>3, <2>5, FieldNodes
      <3> HIDE DEF From
      <3> QED
        BY <1>0, <2>3, <2>6, <3>0, <3>1, DifferenceWithout, DifferenceType
    <2>8. Same(Difference(From(y), U), dy) /\ dy \in Int
      <3>0. U \ {y} \in SUBSET GF
        BY <2>3
      <3>1. \A z \in U : From(y)[z] = (z - y) * Constant(1)[z]
        BY <1>0, <2>3, <2>5, FieldNodes
      <3> HIDE DEF From
      <3> QED
        BY <1>0, <2>3, <2>6, <3>0, <3>1, DifferenceWithout, DifferenceType
    <2>9. Same(dx - dy, 0)
      <3>1. CASE \E z \in U : z # x /\ z # y
        <4>1. PICK z \in U : z # x /\ z # y
          BY <3>1
        <4>2. Same(dx, 0)
          <5>1. U \ {x} \in SUBSET U /\ U \ {x} # U /\ U \ {x} \in SUBSET T
            BY <2>3, <2>4
          <5>2. y \in U \ {x} /\ z \in U \ {x} /\ y # z
            BY <2>4, <4>1
          <5> QED
            BY <2>2, <5>1, <5>2
        <4>3. Same(dy, 0)
          <5>1. U \ {y} \in SUBSET U /\ U \ {y} # U /\ U \ {y} \in SUBSET T
            BY <2>3, <2>4
          <5>2. x \in U \ {y} /\ z \in U \ {y} /\ x # z
            BY <2>4, <4>1
          <5> QED
            BY <2>2, <5>1, <5>2
        <4> HIDE DEF dx, dy
        <4>4. Same(dx - dy, 0 - 0)
          BY <2>7, <2>8, <4>2, <4>3, SameSubtracts
        <4> QED
          BY <4>4
      <3>2. CASE ~ \E z \in U : z # x /\ z # y
        <4>1. U \ {x} = {y} /\ U \ {y} = {x}
          BY <2>4, <3>2
        <4>2. Same(dx, 1) /\ Same(dy, 1)
          BY <2>5, <4>1, OneNode
        <4> HIDE DEF dx, dy
        <4>3. Same(dx - dy, 1 - 1)
          BY <2>7, <2>8, <4>2, SameSubtracts
        <4> QED
          BY <4>3
      <3> QED
        BY <3>1, <3>2
    <2>10. PICK k \in [GF -> Int] : \A z \in GF : k[z] = l
      <3>1. Constant(l) \in [GF -> Int] /\ \A z \in GF : Constant(l)[z] = l
        BY <2>5 DEF Constant
      <3> QED
        BY <3>1
    <2>11. PICK one \in Int, m \in Int, zero \in Int : one = 1 /\ m = -1 /\ zero = 0
      OBVIOUS
    <2>12. Combines(k, one, From(x), m, From(y), U)
      <3> SUFFICES ASSUME NEW z \in U
                   PROVE  Same(k[z], one * From(x)[z] + m * From(y)[z])
        BY DEF Combines
      <3>1. z \in GF /\ z \in Int
        BY <2>3, FieldNodes
      <3>2. From(x)[z] = z - x /\ From(y)[z] = z - y
        BY <3>1
      <3>3. one * From(x)[z] + m * From(y)[z] = l
        BY <2>5, <2>11, <3>1, <3>2
      <3>4. k[z] = l /\ l \in Int
        BY <2>5, <2>10, <3>1
      <3> QED
        BY <3>3, <3>4, SameReflects
    <2>13. Combines(k, l, Constant(1), zero, Constant(1), U)
      <3> SUFFICES ASSUME NEW z \in U
                   PROVE  Same(k[z], l * Constant(1)[z] + zero * Constant(1)[z])
        BY DEF Combines
      <3>1. z \in GF /\ Constant(1)[z] = 1 /\ k[z] = l /\ l \in Int
        BY <1>0, <2>3, <2>5, <2>10
      <3>2. l * Constant(1)[z] + zero * Constant(1)[z] = l
        BY <2>11, <3>1
      <3> QED
        BY <3>1, <3>2, SameReflects
    <2> HIDE DEF From
    <2>14. l \in Int /\ ~ Same(l, 0)
      BY <2>4, <2>5, FieldNodes
    <2>15. Difference(k, U) \in Int
      BY <2>3, DifferenceType
    <2>16. Same(Difference(k, U), one * Difference(From(x), U) + m * Difference(From(y), U))
      BY <2>3, <2>6, <2>12, DifferenceLinear
    <2> HIDE DEF l
    <2>16a. Same(Difference(k, U), l * d + zero * d)
      BY <1>0, <2>3, <2>13, <2>14, DifferenceLinear
    <2>17. d \in Int
      BY <1>0, <2>3, DifferenceType
    <2>18. PICK fx \in Int, fy \in Int : fx = Difference(From(x), U) /\ fy = Difference(From(y), U)
      BY <2>3, <2>6, DifferenceType
    <2> HIDE DEF dx, dy, d
    <2>19. Same(one * fx + m * fy, dx - dy)
      <3>1. Same(fx, dx) /\ Same(fy, dy)
        BY <2>7, <2>8, <2>18
      <3>2. Same(fx - fy, dx - dy)
        BY <2>7, <2>8, <3>1, SameSubtracts
      <3>3. one * fx + m * fy = fx - fy
        BY <2>11
      <3> QED
        BY <3>2, <3>3
    <2>20. PICK dk \in Int, c \in Int, e \in Int :
             dk = Difference(k, U) /\ c = one * fx + m * fy /\ e = dx - dy
      BY <2>7, <2>8, <2>15
    <2>21. Same(dk, c) /\ Same(c, e) /\ Same(e, 0)
      BY <2>9, <2>16, <2>18, <2>19, <2>20
    <2>22. Same(dk, 0)
      <3>1. Same(dk, e)
        BY <2>21, SameChains
      <3> QED
        BY <2>21, <3>1, SameChains
    <2>23. l * d + zero * d = l * d /\ l * d \in Int
      BY <2>11, <2>14, <2>17
    <2>24. Same(l * d, dk)
      BY <2>16a, <2>20, <2>23, SameTurns
    <2>25. Same(l * d, 0)
      BY <2>22, <2>23, <2>24, SameChains
    <2>26. ~ Same(d, 0)
      BY <2>3 DEF d
    <2> QED
      BY <2>14, <2>17, <2>25, <2>26, SameZero
  <1> QED
    BY <1>1

\* The values of polynomials by Horner's rule: one more coefficient at every step.
Horner(e, c, n) ==
  /\ \A x \in GF : e[0][x] = 0
  /\ \A k \in 1 .. n : \A x \in GF : Same(e[k][x], c[k] + x * e[k - 1][x])

\* The divided difference of a polynomial over more nodes than it has coefficients
\* is 0.
LEMMA PolynomialVanishes ==
  ASSUME NEW n \in Nat, NEW c \in [1 .. n -> Int], NEW e \in [0 .. n -> [GF -> Int]],
         Horner(e, c, n)
  PROVE  \A k \in 0 .. n : \A T \in SUBSET GF :
           k < Cardinality(T) => Same(Difference(e[k], T), 0)
  <1> DEFINE Good(k) == \A T \in SUBSET GF : k < Cardinality(T) => Same(Difference(e[k], T), 0)
             Bad == {k \in 0 .. n : ~ Good(k)}
  <1>0. \A T \in SUBSET GF : IsFiniteSet(T) /\ Cardinality(T) \in Nat
    BY FieldNodes, FS_Subset, FS_CardinalityType
  <1>c. Constant(1) \in [GF -> Int] /\ \A x \in GF : Constant(1)[x] = 1
    BY DEF Constant
  <1>1. Bad = {}
    <2> SUFFICES ASSUME Bad # {} PROVE FALSE
      OBVIOUS
    <2>1. Bad \in SUBSET Nat
      OBVIOUS
    <2>2. PICK k \in Bad : \A l \in Bad : k <= l
      <3> HIDE DEF Bad
      <3> QED
        BY <2>1, LeastNumber
    <2>3. k \in 0 .. n /\ ~ Good(k)
      OBVIOUS
    <2>4. PICK T \in SUBSET GF : k < Cardinality(T) /\ ~ Same(Difference(e[k], T), 0)
      BY <2>3
    <2>5. PICK f \in [GF -> Int] : f = e[k]
      BY <2>3
    <2>6. k # 0
      <3> SUFFICES ASSUME k = 0 PROVE FALSE
        OBVIOUS
      <3>1. PICK zero \in Int : zero = 0
        OBVIOUS
      <3>2. \A x \in GF : f[x] = 0
        BY <2>5 DEF Horner
      <3>3. Combines(f, zero, f, zero, f, T)
        <4> SUFFICES ASSUME NEW x \in T PROVE Same(f[x], zero * f[x] + zero * f[x])
          BY DEF Combines
        <4>1. f[x] = 0 /\ zero * f[x] + zero * f[x] = 0
          BY <3>1, <3>2
        <4> QED
          BY <4>1, SameReflects
      <3>4. Same(Difference(f, T), zero * Difference(f, T) + zero * Difference(f, T))
        BY <3>3, DifferenceLinear
      <3>5. zero * Difference(f, T) + zero * Difference(f, T) = 0
        <4>1. PICK d \in Int : d = Difference(f, T)
          BY DifferenceType
        <4>2. zero * d + zero * d = 0
          BY <3>1
        <4> QED
          BY <4>1, <4>2
      <3> QED
        BY <2>4, <2>5, <3>4, <3>5
    <2>7. k - 1 \in 0 .. n /\ k \in 1 .. n /\ k \in Int /\ ~ (k <= k - 1)
      BY <2>3, <2>6
    <2>8. Good(k - 1)
      BY <2>2, <2>7
    <2>9. PICK h \in [GF -> Int] : h = e[k - 1]
      BY <2>7
    <2>10. PICK cc \in Int : cc = c[k]
      BY <2>7
    <2>11. \A x \in GF : Same(f[x], cc + x * h[x])
      BY <2>5, <2>7, <2>9, <2>10 DEF Horner
    <2>12. Cardinality(T) \in Nat /\ IsFiniteSet(T) /\ Cardinality(T) >= 2
      BY <1>0, <2>4, <2>7
    <2>13. PICK a \in T : TRUE
      <3>1. T # {}
        BY <2>12, FS_EmptySet
      <3> QED
        BY <3>1
    <2>14. Cardinality(T \ {a}) = Cardinality(T) - 1 /\ T \ {a} \in SUBSET GF
      BY <2>12, FS_RemoveElement
    <2>15. PICK b \in T : b # a
      <3>1. Cardinality(T \ {a}) # 0
        BY <2>12, <2>14
      <3>2. Cardinality({}) = 0
        BY FS_EmptySet
      <3>3. T \ {a} # {}
        BY <3>1, <3>2
      <3> QED
        BY <3>3
    <2>16. a \in Int /\ a \in GF
      BY FieldNodes
    <2>17. PICK g \in [GF -> Int] : \A x \in GF : g[x] = (x - a) * h[x]
      <3>1. \A x \in GF : (x - a) * h[x] \in Int
        BY <2>16, FieldNodes
      <3>2. [x \in GF |-> (x - a) * h[x]] \in [GF -> Int]
        BY <3>1
      <3> QED
        BY <3>2
    <2>18. PICK r \in [GF -> Int] : \A x \in GF : r[x] = a * h[x] + cc
      <3>1. ASSUME NEW x \in GF PROVE a * h[x] + cc \in Int
        <4>1. h[x] \in Int
          OBVIOUS
        <4> QED
          BY <2>16, <4>1
      <3>2. [x \in GF |-> a * h[x] + cc] \in [GF -> Int]
        BY <3>1
      <3> QED
        BY <3>2
    <2>19. PICK one \in Int : one = 1
      OBVIOUS
    <2>20. Combines(r, a, h, cc, Constant(1), T)
      <3> SUFFICES ASSUME NEW x \in T PROVE Same(r[x], a * h[x] + cc * Constant(1)[x])
        BY DEF Combines
      <3>1. r[x] = a * h[x] + cc /\ r[x] \in Int /\ Constant(1)[x] = 1 /\ cc * 1 = cc
        BY <1>c, <2>18
      <3> QED
        BY <3>1, SameReflects
    <2>21. Combines(f, one, g, one, r, T)
      <3> SUFFICES ASSUME NEW x \in T PROVE Same(f[x], one * g[x] + one * r[x])
        BY DEF Combines
      <3>1. x \in GF /\ x \in Int
        BY FieldNodes
      <3>2. PICK hx \in Int : hx = h[x]
        BY <3>1
      <3>3. g[x] = (x - a) * hx /\ r[x] = a * hx + cc
        BY <2>17, <2>18, <3>1, <3>2
      <3>4. (x - a) * hx + (a * hx + cc) = cc + x * hx
        BY <2>16, <3>1
      <3>5. one * g[x] + one * r[x] = g[x] + r[x]
        BY <2>19, <3>1
      <3> QED
        BY <2>11, <3>1, <3>2, <3>3, <3>4, <3>5
    <2>22. PICK df \in Int, dg \in Int, dr \in Int, dh \in Int, dc \in Int, du \in Int :
             /\ df = Difference(f, T) /\ dg = Difference(g, T) /\ dr = Difference(r, T)
             /\ dh = Difference(h, T) /\ dc = Difference(Constant(1), T)
             /\ du = Difference(h, T \ {a})
      BY <1>c, <2>14, DifferenceType
    <2>23. Same(df, one * dg + one * dr)
      BY <2>19, <2>21, <2>22, DifferenceLinear
    <2>24. Same(dr, a * dh + cc * dc)
      BY <1>c, <2>16, <2>20, <2>22, DifferenceLinear
    <2>25. Same(dg, du)
      <3>1. \A x \in T : g[x] = (x - a) * h[x]
        BY <2>17
      <3>2. Same(Difference(g, T), Difference(h, T \ {a}))
        BY <3>1, DifferenceWithout
      <3> QED
        BY <2>22, <3>2
    <2>26. Same(dh, 0) /\ Same(du, 0)
      <3>1. k - 1 < Cardinality(T) /\ k - 1 < Cardinality(T \ {a})
        <4>1. PICK s \in Nat, t \in Int : s = Cardinality(T) /\ t = Cardinality(T \ {a})
          BY <2>12, <2>14
        <4>2. k < s /\ t = s - 1
          BY <2>4, <2>14, <4>1
        <4>3. k - 1 < s /\ k - 1 < t
          BY <2>7, <4>2
        <4> QED
          BY <4>1, <4>3
      <3> QED
        BY <2>8, <2>9, <2>14, <2>22, <3>1
    <2>27. Same(dc, 0)
      BY <2>15, <2>22, ConstantVanishes
    <2> HIDE DEF Good, Bad
    <2>28. Same(dr, 0)
      <3>1. PICK z \in Int : z = 0 /\ a * z = 0 /\ cc * z = 0
        BY <2>16
      <3>2. Same(a * dh, 0) /\ a * dh \in Int
        <4>1. Same(a * dh, a * z) /\ a * dh \in Int
          BY <2>16, <2>26, <3>1, SameScales
        <4> QED
          BY <3>1, <4>1
      <3>3. Same(cc * dc, 0) /\ cc * dc \in Int
        <4>1. Same(cc * dc, cc * z) /\ cc * dc \in Int
          BY <2>27, <3>1, SameScales
        <4> QED
          BY <3>1, <4>1
      <3>4. Same(a * dh + cc * dc, 0 + 0)
        BY <3>2, <3>3, SameAdds
      <3>5. a * dh + cc * dc \in Int
        BY <3>2, <3>3
      <3> QED
        BY <2>24, <3>4, <3>5, SameChains
    <2>29. Same(dg, 0)
      BY <2>25, <2>26, SameChains
    <2>30. Same(one * dg + one * dr, 0)
      <3>1. Same(dg + dr, 0 + 0)
        BY <2>28, <2>29, SameAdds
      <3>2. one * dg + one * dr = dg + dr /\ 0 + 0 = 0
        BY <2>19
      <3> QED
        BY <3>1, <3>2
    <2>31. one * dg + one * dr \in Int
      OBVIOUS
    <2>32. Same(df, 0)
      BY <2>23, <2>30, <2>31, SameChains
    <2> QED
      BY <2>4, <2>5, <2>22, <2>32
  <1> QED
    BY <1>1

-----------------------------------------------------------------------------
(***************************************************************************)
(* Horner's rule, and the secret.                                          *)
(***************************************************************************)
\* An interval starts at its least element.
LEMMA LeastOfInterval ==
  ASSUME NEW i \in Int, NEW n \in Int, i <= n
  PROVE  Min(i .. n) = i /\ (i .. n) \ {i} = (i + 1) .. n
  <1>1. i \in i .. n /\ \A y \in i .. n : i <= y
    OBVIOUS
  <1>2. \A x \in i .. n : (\A y \in i .. n : x <= y) => x = i
    BY <1>1
  <1>3. Min(i .. n) = i
    BY <1>1, <1>2 DEF Min
  <1>4. (i .. n) \ {i} = (i + 1) .. n
    OBVIOUS
  <1> QED
    BY <1>3, <1>4

\* The coefficient of the last step of Horner's rule is the first of the polynomial.
Backwards(c) == [k \in 1 .. Len(c) |-> c[Len(c) - k + 1]]

\* The fold that evaluates the coefficients at x is Horner's rule.
LEMMA EvaluateSteps ==
  ASSUME NEW c \in Seq(GF), NEW x \in GF
  PROVE  \E v \in [0 .. Len(c) -> Int] :
           /\ v[0] = 0
           /\ \A k \in 1 .. Len(c) : Same(v[k], Backwards(c)[k] + x * v[k - 1])
           /\ v[Len(c)] = Evaluate(c, x)
  <1>0. GF \subseteq Int /\ x \in Int
    BY FieldNodes
  <1>1. PICK n \in Nat : n = Len(c) /\ DOMAIN c = 1 .. n /\ \A i \in 1 .. n : c[i] \in GF
    OBVIOUS
  <1> DEFINE S == 1 .. n
             Body(f) == [s \in SUBSET S |->
                           IF s = {} THEN 0
                           ELSE (f[s \ {Min(s)}] * x + c[Min(s)]) % Prime]
             iter == CHOOSE f : f = Body(f)
  <1>2. Evaluate(c, x) = iter[S]
    BY <1>1 DEF Evaluate, FoldRight, MapThenFoldSet
  <1>3. \E f : f = Body(f)
    <2> DEFINE Chosen2 == [s \in SUBSET S |-> Min(s)]
               Step == [p \in S \X Int |-> (p[2] * x + c[p[1]]) % Prime]
    <2>1. \A i \in S, y \in Int : (y * x + c[i]) % Prime \in Int
      <3> SUFFICES ASSUME NEW i \in S, NEW y \in Int PROVE (y * x + c[i]) % Prime \in Int
        OBVIOUS
      <3>1. y * x + c[i] \in Int
        <4>1. PICK b \in Int : b = c[i]
          BY <1>0, <1>1
        <4>2. y * x + b \in Int
          BY <1>0
        <4> QED
          BY <4>1, <4>2
      <3> QED
        BY <1>0, <3>1, SameRemainder
    <2>2. PICK step \in [S \X Int -> Int] : step = Step
      BY <2>1
    <2>3. \A s \in SUBSET S : s # {} => Min(s) \in s
      <3> SUFFICES ASSUME NEW s \in SUBSET S, s # {} PROVE Min(s) \in s
        OBVIOUS
      <3>1. s \in SUBSET Nat
        OBVIOUS
      <3>2. \E i \in s : \A m \in s : i <= m
        BY <3>1, LeastNumber
      <3> QED
        BY <3>2 DEF Min
    <2>4. PICK chosen : chosen = Chosen2
      OBVIOUS
    <2>5. \A s \in SUBSET S : s # {} => chosen[s] \in s
      BY <2>3, <2>4
    <2>6. IsFiniteSet(S)
      BY FS_Interval
    <2>7. PICK g \in [SUBSET S -> Int] : Folds(g, S, 0, chosen, step)
      <3>1. 0 \in Int
        OBVIOUS
      <3> HIDE DEF S
      <3> QED
        BY <2>5, <2>6, <3>1, FoldExists
    <2>8. ASSUME NEW s \in SUBSET S
          PROVE  g[s] = IF s = {} THEN 0 ELSE (g[s \ {Min(s)}] * x + c[Min(s)]) % Prime
      <3>1. g[s] = IF s = {} THEN 0 ELSE step[<<chosen[s], g[s \ {chosen[s]}]>>]
        BY <2>7 DEF Folds
      <3>2. chosen[s] = Min(s)
        BY <2>4
      <3>3. s # {} => Min(s) \in S /\ g[s \ {Min(s)}] \in Int
        BY <2>3
      <3>4. \A i \in S, y \in Int : step[<<i, y>>] = (y * x + c[i]) % Prime
        BY <2>2
      <3> QED
        BY <3>1, <3>2, <3>3, <3>4
    <2>9. g = Body(g)
      BY <2>8
    <2> QED
      BY <2>9
  <1>4. iter = Body(iter)
    <2> HIDE DEF Body
    <2> QED
      BY <1>3
  <1>5. /\ iter[{}] = 0
        /\ \A s \in SUBSET S : s # {} => iter[s] = (iter[s \ {Min(s)}] * x + c[Min(s)]) % Prime
    <2> HIDE DEF iter
    <2>1. ASSUME NEW s \in SUBSET S
          PROVE  Body(iter)[s] = IF s = {} THEN 0
                                 ELSE (iter[s \ {Min(s)}] * x + c[Min(s)]) % Prime
      OBVIOUS
    <2> HIDE DEF Body
    <2>2. ASSUME NEW s \in SUBSET S
          PROVE  iter[s] = IF s = {} THEN 0
                           ELSE (iter[s \ {Min(s)}] * x + c[Min(s)]) % Prime
      BY <1>4, <2>1
    <2>3. {} \in SUBSET S
      OBVIOUS
    <2> HIDE DEF S
    <2> QED
      BY <2>2, <2>3
  <1> HIDE DEF iter
  <1> DEFINE v(k) == iter[(n - k + 1) .. n]
  <1>6. v(0) = 0
    <2>1. (n - 0 + 1) .. n = {}
      OBVIOUS
    <2> QED
      BY <1>5, <2>1
  <1>7. ASSUME NEW k \in 1 .. n
        PROVE  v(k) = (v(k - 1) * x + c[n - k + 1]) % Prime
    <2>1. PICK i \in 1 .. n : i = n - k + 1
      OBVIOUS
    <2>2. PICK s : s = i .. n
      OBVIOUS
    <2>3. Min(s) = i /\ s \ {i} = (i + 1) .. n
      BY <2>1, <2>2, LeastOfInterval
    <2>4. s \in SUBSET S /\ s # {}
      BY <2>1, <2>2
    <2>5. i + 1 = n - (k - 1) + 1
      BY <2>1
    <2>6. v(k) = iter[s] /\ v(k - 1) = iter[s \ {i}]
      BY <2>1, <2>2, <2>3, <2>5
    <2> HIDE DEF v
    <2> QED
      BY <1>5, <2>1, <2>3, <2>4, <2>6
  <1> HIDE DEF v
  <1> DEFINE Bad == {k \in 0 .. n : v(k) \notin Int}
  <1>8. Bad = {}
    <2> SUFFICES ASSUME Bad # {} PROVE FALSE
      OBVIOUS
    <2>1. Bad \in SUBSET Nat
      OBVIOUS
    <2>2. PICK k \in Bad : \A l \in Bad : k <= l
      <3> HIDE DEF Bad
      <3> QED
        BY <2>1, LeastNumber
    <2>3. k \in 0 .. n /\ v(k) \notin Int
      OBVIOUS
    <2>4. k # 0
      BY <1>6, <2>3
    <2>5. k \in 1 .. n /\ k - 1 \in 0 .. n /\ ~ (k <= k - 1)
      BY <2>3, <2>4
    <2>6. PICK y \in Int : y = v(k - 1)
      BY <2>2, <2>5
    <2>7. n - k + 1 \in 1 .. n
      BY <2>5
    <2>8. PICK b \in Int : b = c[n - k + 1]
      BY <1>0, <1>1, <2>7
    <2>10. PICK z \in Int : z = y * x + b
      BY <1>0
    <2>9. v(k) = z % Prime
      BY <1>7, <2>5, <2>6, <2>8, <2>10
    <2> QED
      BY <1>0, <2>3, <2>9, SameRemainder
  <1>9. \A k \in 0 .. n : v(k) \in Int
    BY <1>8
  <1> HIDE DEF Bad
  <1>10. PICK w \in [0 .. n -> Int] : \A k \in 0 .. n : w[k] = v(k)
    <2>1. [k \in 0 .. n |-> v(k)] \in [0 .. n -> Int]
      BY <1>9
    <2> QED
      BY <2>1
  <1>11. w[0] = 0
    BY <1>6, <1>10
  <1>12. ASSUME NEW k \in 1 .. n PROVE Same(w[k], Backwards(c)[k] + x * w[k - 1])
    <2>1. k \in 0 .. n /\ k - 1 \in 0 .. n /\ n - k + 1 \in 1 .. n
      OBVIOUS
    <2>2. PICK y \in Int, b \in Int : y = w[k - 1] /\ y = v(k - 1) /\ b = c[n - k + 1]
      BY <1>0, <1>1, <1>10, <2>1
    <2>3. w[k] = (y * x + b) % Prime
      BY <1>7, <1>10, <2>1, <2>2
    <2>4. Backwards(c)[k] = b
      BY <1>1, <2>2 DEF Backwards
    <2>5. y * x + b \in Int /\ b + x * y = y * x + b
      BY <1>0
    <2>6. Same(w[k], y * x + b)
      BY <2>3, <2>5, SameRemainder
    <2> QED
      BY <2>2, <2>4, <2>5, <2>6
  <1>13. w[n] = Evaluate(c, x)
    <2>1. n \in 0 .. n /\ n - n + 1 = 1
      OBVIOUS
    <2>2. v(n) = iter[S]
      BY <2>1 DEF v
    <2> QED
      BY <1>2, <1>10, <2>1, <2>2
  <1> QED
    BY <1>1, <1>10, <1>11, <1>12, <1>13

\* v[k] is the value at x of the last k coefficients of c.
Evaluates(c, x, v) ==
  /\ v[0] = 0
  /\ \A k \in 1 .. Len(c) : Same(v[k], Backwards(c)[k] + x * v[k - 1])
  /\ v[Len(c)] = Evaluate(c, x)

\* The shares of a polynomial have a divided difference of 0 over more nodes than
\* the polynomial has coefficients.
LEMMA EvaluateVanishes ==
  ASSUME NEW c \in Seq(GF), NEW T \in SUBSET GF, Len(c) < Cardinality(T),
         NEW f \in [GF -> Int], \A x \in GF : f[x] = Evaluate(c, x)
  PROVE  Same(Difference(f, T), 0)
  <1> DEFINE n == Len(c)
             V == [x \in GF |-> CHOOSE v \in [0 .. n -> Int] : Evaluates(c, x, v)]
             e == [k \in 0 .. n |-> [x \in GF |-> V[x][k]]]
  <1>0. n \in Nat /\ n \in 0 .. n
    OBVIOUS
  <1>1. \A x \in GF : V[x] \in [0 .. n -> Int] /\ Evaluates(c, x, V[x])
    <2> SUFFICES ASSUME NEW x \in GF
                 PROVE  V[x] \in [0 .. n -> Int] /\ Evaluates(c, x, V[x])
      OBVIOUS
    <2>1. \E v \in [0 .. n -> Int] : Evaluates(c, x, v)
      BY EvaluateSteps DEF Evaluates
    <2>2. V[x] = CHOOSE v \in [0 .. n -> Int] : Evaluates(c, x, v)
      OBVIOUS
    <2> HIDE DEF n, V
    <2> QED
      BY <2>1, <2>2
  <1> HIDE DEF V
  <1>2. e \in [0 .. n -> [GF -> Int]]
    <2>1. \A k \in 0 .. n : \A x \in GF : V[x][k] \in Int
      BY <1>1
    <2> QED
      BY <2>1
  <1>3. \A k \in 0 .. n : \A x \in GF : e[k][x] = V[x][k]
    OBVIOUS
  <1> HIDE DEF e
  <1>4. Backwards(c) \in [1 .. n -> Int]
    <2>1. \A k \in 1 .. n : n - k + 1 \in 1 .. n
      BY <1>0
    <2>2. \A i \in 1 .. n : c[i] \in Int
      BY FieldNodes
    <2> HIDE DEF n
    <2>3. \A k \in 1 .. n : c[n - k + 1] \in Int
      BY <2>1, <2>2
    <2> QED
      BY <2>3 DEF Backwards, n
  <1>5. Horner(e, Backwards(c), n)
    <2>1. \A x \in GF : e[0][x] = 0
      BY <1>0, <1>1, <1>3 DEF Evaluates
    <2>2. ASSUME NEW k \in 1 .. n, NEW x \in GF
          PROVE  Same(e[k][x], Backwards(c)[k] + x * e[k - 1][x])
      <3>1. k \in 0 .. n /\ k - 1 \in 0 .. n
        BY <1>0
      <3>2. Same(V[x][k], Backwards(c)[k] + x * V[x][k - 1])
        BY <1>1 DEF Evaluates
      <3> QED
        BY <1>3, <3>1, <3>2
    <2> QED
      BY <2>1, <2>2 DEF Horner
  <1>6. f = e[n]
    <2>1. \A x \in GF : f[x] = e[n][x]
      BY <1>0, <1>1, <1>3 DEF Evaluates
    <2>2. e[n] \in [GF -> Int]
      BY <1>0, <1>2
    <2> QED
      BY <2>1, <2>2
  <1> HIDE DEF n
  <1>7. Same(Difference(e[n], T), 0)
    <2>1. n < Cardinality(T)
      BY DEF n
    <2>2. PICK b \in [1 .. n -> Int] : b = Backwards(c)
      BY <1>4
    <2>3. Horner(e, b, n)
      BY <1>5, <2>2
    <2> QED
      BY <1>0, <1>2, <2>1, <2>3, PolynomialVanishes
  <1> QED
    BY <1>6, <1>7

\* A value of a polynomial is an element of the field, and the value at 0 is the
\* constant term.
LEMMA EvaluateTells ==
  ASSUME NEW c \in Seq(GF), Len(c) > 0
  PROVE  /\ \A x \in GF : Evaluate(c, x) \in Int
         /\ Same(Evaluate(c, 0), c[1])
  <1>1. ASSUME NEW x \in GF PROVE Evaluate(c, x) \in Int
    <2>1. PICK v \in [0 .. Len(c) -> Int] : v[Len(c)] = Evaluate(c, x)
      BY EvaluateSteps
    <2>2. Len(c) \in 0 .. Len(c)
      OBVIOUS
    <2> QED
      BY <2>1, <2>2
  <1>2. Same(Evaluate(c, 0), c[1])
    <2>1. 0 \in GF /\ GF \subseteq Int
      BY PrimeAssumption DEF GF
    <2>2. PICK v \in [0 .. Len(c) -> Int] : Evaluates(c, 0, v)
      BY <2>1, EvaluateSteps DEF Evaluates
    <2>3. PICK n \in Nat : n = Len(c) /\ n \in 1 .. n /\ n - 1 \in 0 .. n /\ n - n + 1 = 1
      OBVIOUS
    <2>4. Same(v[n], Backwards(c)[n] + 0 * v[n - 1]) /\ v[n] = Evaluate(c, 0)
      BY <2>2, <2>3 DEF Evaluates
    <2>5. Backwards(c)[n] = c[1]
      BY <2>3 DEF Backwards
    <2>6. PICK a \in Int, y \in Int : a = c[1] /\ y = v[n - 1]
      BY <2>1, <2>3
    <2>7. a + 0 * y = a
      OBVIOUS
    <2> QED
      BY <2>4, <2>5, <2>6, <2>7
  <1> QED
    BY <1>1, <1>2

\* Interpolating at 0 through as many shares as there are coefficients gives the
\* constant term, the secret (shamir_reconstruct).
THEOREM ShamirReconstructs ==
  ASSUME NEW c \in Seq(GF), Len(c) > 0, NEW xs \in SUBSET (GF \ {0}), Cardinality(xs) = Len(c),
         NEW shares, DOMAIN shares = xs, \A x \in xs : shares[x] = Evaluate(c, x)
  PROVE  Reconstruct(shares) = c[1]
  <1> DEFINE T == xs \cup {0}
             f == [x \in GF |-> Evaluate(c, x)]
             term == [x \in xs |-> (shares[x] * Product(0, xs \ {x}) * Weight(xs, x)) % Prime]
             d == [x \in GF |-> f[x] * Weight(T, x)]
  <1>0. /\ GF \subseteq Int /\ IsFiniteSet(GF) /\ 0 \in GF /\ 0 \notin xs
        /\ xs \in SUBSET GF /\ T \in SUBSET GF /\ T \ {0} = xs /\ 0 \in T
        /\ IsFiniteSet(xs)
    <2>1. 0 \in GF /\ GF \subseteq Int /\ IsFiniteSet(GF)
      BY FieldNodes, PrimeAssumption DEF GF
    <2>2. IsFiniteSet(xs)
      BY <2>1, FS_Subset
    <2> QED
      BY <2>1, <2>2
  <1>1. Reconstruct(shares) = Sum(term, xs) % Prime
    BY DEF Reconstruct, Sum, Weight
  <1>2. f \in [GF -> Int] /\ \A x \in GF : f[x] = Evaluate(c, x)
    BY EvaluateTells
  <1>3. d \in [GF -> Int] /\ Difference(f, T) = Sum(d, T)
    <2>1. ASSUME NEW x \in GF PROVE f[x] * Weight(T, x) \in Int
      <3> HIDE DEF f
      <3>1. f[x] \in Int /\ Weight(T, x) \in Int
        BY <1>0, <1>2, WeightInverts
      <3> QED
        BY <3>1
    <2> QED
      BY <2>1 DEF Difference
  <1>4. Same(Sum(d, T), 0)
    <2>1. Cardinality(T) = Cardinality(xs) + 1
      BY <1>0, FS_AddElement
    <2>2. Len(c) < Cardinality(T)
      BY <2>1
    <2> HIDE DEF T, f, d
    <2> QED
      BY <1>0, <1>2, <1>3, <2>2, EvaluateVanishes
  <1>5. \A x \in xs : d[x] = f[x] * Weight(T, x)
    BY <1>0
  <1>6. d[0] = f[0] * Weight(T, 0)
    BY <1>0
  <1> HIDE DEF d, T
  <1>7. PICK rest \in Int, p \in Int, w \in Int, y \in Int :
          /\ rest = Sum(d, xs) /\ p = Product(0, xs) /\ w = Weight(T, 0) /\ y = f[0]
          /\ Same(p * w, 1) /\ Same(y * w + rest, 0)
    <2>1. Sum(d, xs) \in Int /\ Sum(d, T) = d[0] + Sum(d, T \ {0})
      BY <1>0, <1>3, SumProperties
    <2>2. Weight(T, 0) \in Int /\ Product(0, T \ {0}) \in Int /\ Same(Product(0, T \ {0}) * Weight(T, 0), 1)
      BY <1>0, WeightInverts
    <2> HIDE DEF f
    <2>3. f[0] \in Int
      BY <1>0, <1>2
    <2>4. PICK b \in Int, p \in Int, w \in Int, y \in Int :
            b = Sum(d, xs) /\ p = Product(0, xs) /\ w = Weight(T, 0) /\ y = f[0]
      BY <1>0, <2>1, <2>2, <2>3
    <2>5. Same(p * w, 1)
      BY <1>0, <2>2, <2>4
    <2>6. Sum(d, T) = y * w + b
      BY <1>0, <1>6, <2>1, <2>4
    <2> QED
      BY <1>4, <2>4, <2>5, <2>6
  <1>8. ASSUME NEW x \in xs
        PROVE  /\ term[x] \in Int
               /\ Same(term[x], (-p) * d[x] + 0 * d[x])
    <2>1. x \in GF /\ x \in Int /\ x # 0 /\ x \in T
      BY <1>0 DEF T
    <2>2. PICK num \in Int, u \in Int, v \in Int, z \in Int :
            /\ num = Product(0, xs \ {x}) /\ u = Weight(xs, x) /\ v = Weight(T, x)
            /\ z = f[x] /\ z = shares[x]
      <3>1. Product(0, xs \ {x}) \in Int
        <4>1. 0 \in Int /\ xs \ {x} \in SUBSET GF
          BY <1>0
        <4> QED
          BY <1>0, <4>1, ProductProperties
      <3>2. Weight(xs, x) \in Int /\ Weight(T, x) \in Int
        BY <1>0, <2>1, WeightInverts
      <3> HIDE DEF f
      <3>3. f[x] \in Int /\ f[x] = shares[x]
        BY <1>2, <2>1
      <3> QED
        BY <3>1, <3>2, <3>3
    <2>3. Same((x - 0) * v, u)
      BY <1>0, <2>1, <2>2, WeightWithout
    <2>4. Same(p, num * (0 - x))
      <3>1. Same(Product(0, xs), Product(0, xs \ {x}) * (0 - x))
        BY <1>0, ProductProperties
      <3> QED
        BY <1>7, <2>2, <3>1
    <2>5. PICK a \in Int : a = z * num * u
      OBVIOUS
    <2>6. term[x] = a % Prime
      BY <2>2, <2>5
    <2>7. term[x] \in Int /\ Same(term[x], a)
      BY <1>0, <2>6, SameRemainder
    <2> HIDE DEF term, f
    <2>8. x - 0 = x /\ 0 - x = -x
      BY <2>1
    <2>9. PICK b \in Int : b = z * num * (x * v)
      BY <2>1
    <2>10. Same(a, b)
      <3>1. x * v \in Int /\ z * num \in Int
        BY <2>1
      <3>2. Same(u, x * v)
        BY <2>3, <2>8, <3>1, SameTurns
      <3> QED
        BY <2>5, <2>9, <3>1, <3>2, SameScales
    <2>11. PICK m \in Int : m = -p
      OBVIOUS
    <2>12. PICK g \in Int : g = z * v
      OBVIOUS
    <2>13. Same(b, m * g)
      <3>1. PICK q \in Int : q = num * (-x)
        BY <2>1
      <3>2. PICK k \in Int : k = -g
        OBVIOUS
      <3>3. Same(k * p, k * q) /\ k * p \in Int /\ k * q \in Int
        BY <2>4, <2>8, <3>1, SameScales
      <3>4. k * p = m * g
        BY <2>11, <3>2
      <3>5. k * q = b
        <4>1. \A h, i, j, l \in Int : (-(i * l)) * (j * (-h)) = i * j * (h * l)
          OBVIOUS
        <4>2. (-(z * v)) * (num * (-x)) = z * num * (x * v)
          BY <2>1, <4>1
        <4>3. k * q = (-(z * v)) * (num * (-x))
          BY <2>12, <3>1, <3>2
        <4> QED
          BY <2>9, <4>2, <4>3
      <3> QED
        BY <3>3, <3>4, <3>5, SameTurns
    <2>14. m * g \in Int /\ d[x] = g /\ m * g = m * g + 0 * g
      <3>1. d[x] = z * v
        BY <1>5, <2>2
      <3> QED
        BY <2>12, <3>1
    <2>15. Same(a, m * g)
      BY <2>10, <2>13, <2>14, SameChains
    <2>16. Same(term[x], m * g)
      BY <2>7, <2>14, <2>15, SameChains
    <2> QED
      BY <2>7, <2>11, <2>14, <2>16
  <1>9. PICK t \in [xs -> Int] : t = term
    BY <1>8
  <1>10. PICK m \in Int, zero \in Int : m = -p /\ zero = 0
    OBVIOUS
  <1>11. Combines(t, m, d, zero, d, xs)
    BY <1>8, <1>9, <1>10 DEF Combines
  <1> HIDE DEF term
  <1>12. Same(Sum(t, xs), m * Sum(d, xs) + zero * Sum(d, xs))
    <2>1. xs \in SUBSET xs
      OBVIOUS
    <2> QED
      BY <1>0, <1>3, <1>11, <2>1, SumLinear
  <1>13. PICK s \in Int : s = Sum(t, xs)
    <2>1. xs \in SUBSET xs
      OBVIOUS
    <2> QED
      BY <1>0, <2>1, SumProperties
  <1>14. Same(s, m * rest)
    <2>1. m * rest + zero * rest = m * rest
      BY <1>10
    <2> QED
      BY <1>7, <1>12, <1>13, <2>1
  <1>15. Same(m * rest, y)
    <2>1. PICK g \in Int : g = y * w + rest
      OBVIOUS
    <2>2. PICK nil \in Int : nil = 0
      OBVIOUS
    <2>3. Same(m * g, m * nil)
      BY <1>7, <2>1, <2>2, SameScales
    <2>4. m * nil = 0
      BY <2>2
    <2>5. PICK h \in Int : h = p * w
      OBVIOUS
    <2>6. PICK one \in Int : one = 1
      OBVIOUS
    <2>7. Same(h, one)
      BY <1>7, <2>5, <2>6
    <2>8. Same(y * h, y * one)
      BY <2>7, SameScales
    <2>9. PICK i \in Int, j \in Int, l \in Int : i = m * g /\ j = y * h /\ l = y * one
      OBVIOUS
    <2>10. Same(i, nil) /\ Same(j, l)
      BY <2>2, <2>3, <2>4, <2>8, <2>9
    <2>11. Same(i + j, nil + l)
      BY <2>10, SameAdds
    <2>12. i + j = m * rest
      BY <1>10, <2>1, <2>5, <2>9
    <2>13. nil + l = y
      BY <2>2, <2>6, <2>9
    <2> QED
      BY <2>11, <2>12, <2>13
  <1>16. PICK secret \in GF : secret = c[1] /\ Same(y, secret)
    <2>1. c[1] \in GF
      OBVIOUS
    <2>2. Same(Evaluate(c, 0), c[1])
      BY EvaluateTells
    <2>3. y = Evaluate(c, 0)
      BY <1>0, <1>2, <1>7
    <2> QED
      BY <2>1, <2>2, <2>3
  <1>17. PICK r \in GF : r = s % Prime /\ Same(r, s)
    BY SameRemainder
  <1>18. Same(r, secret)
    <2>1. m * rest \in Int /\ r \in Int /\ secret \in Int
      BY <1>0
    <2>2. Same(r, m * rest)
      BY <1>14, <1>17, <2>1, SameChains
    <2>3. Same(r, y)
      BY <1>15, <2>1, <2>2, SameChains
    <2> QED
      BY <1>16, <2>1, <2>3, SameChains
  <1>19. r = secret
    BY <1>18, SameElement
  <1> QED
    BY <1>1, <1>9, <1>13, <1>16, <1>17, <1>19

\* Whatever Threshold of the shares of a secret the aggregator uses, and whatever the
\* other coefficients of its polynomial are, they give the secret back (shamir_split,
\* shamir_reconstruct).
THEOREM EveryThresholdReconstructs == SharesReconstruct
  <1> SUFFICES ASSUME NEW xs \in SUBSET Participant, NEW t \in Tails, NEW secret \in GF,
                      Cardinality(xs) = Threshold
               PROVE  Reconstruct([x \in xs |-> Split(secret, t[secret], N)[x]]) = secret
    BY DEF SharesReconstruct
  <1> DEFINE c == <<secret>> \o t[secret]
             shares == [x \in xs |-> Split(secret, t[secret], N)[x]]
  <1>1. t[secret] \in Seq(GF) /\ Len(t[secret]) = Threshold - 1
    BY AggregationAssumption
  <1>2. Threshold \in Nat \ {0} /\ N \in Nat /\ N < Prime /\ Prime \in Nat
    BY AggregationAssumption, PrimeAssumption
  <1>3. c \in Seq(GF) /\ c[1] = secret /\ Len(c) = Threshold
    BY <1>1, <1>2
  <1>4. xs \in SUBSET (GF \ {0})
    BY <1>2 DEF Participant, GF
  <1>5. \A x \in xs : shares[x] = Evaluate(c, x)
    BY DEF Split, Participant
  <1> HIDE DEF c
  <1>6. DOMAIN shares = xs
    OBVIOUS
  <1> HIDE DEF shares
  <1>7. Reconstruct(shares) = c[1]
    BY <1>2, <1>3, <1>4, <1>5, <1>6, ShamirReconstructs
  <1> QED
    BY <1>3, <1>7 DEF shares

-----------------------------------------------------------------------------
(***************************************************************************)
(* The inductive invariant.                                                *)
(***************************************************************************)
\* At the start no mask is in the total.
LEMMA InitMasks ==
  ASSUME Init PROVE MaskInv
  <1>1. Types
    BY AggregationAssumption DEF Init, Types, Phases
  <1>2. Progress
    BY DEF Init, Progress, Early, NoMaskLeft
  <1>3. SelfMasks
    BY DEF Init, SelfMasks, One
  <1>4. PairMasks
    BY AggregationAssumption, SharedIsSymmetric DEF Init, PairMasks, One
  <1> QED
    BY <1>1, <1>2, <1>3, <1>4 DEF MaskInv

\* What adds and removes nothing keeps the masks as they are.
LEMMA DeliverUpdateStep ==
  ASSUME MaskInv, NEW c \in Participant, DeliverUpdate(c) PROVE MaskInv'
  <1> USE DEF MaskInv, DeliverUpdate, config, round, loops, total
  <1>1. Types' /\ Progress'
    BY DEF Types, Progress, Phases, Early, NoMaskLeft, Dropouts, EnoughShares
  <1>2. SelfMasks' /\ PairMasks'
    BY DEF SelfMasks, PairMasks, EnoughShares
  <1> QED
    BY <1>1, <1>2

LEMMA DrawUpRecoveryStep ==
  ASSUME MaskInv, DrawUpRecovery PROVE MaskInv'
  <1> USE DEF MaskInv, DrawUpRecovery, config, round, loops, total
  <1>1. Types' /\ Progress'
    BY DEF Types, Progress, Phases, Early, NoMaskLeft, Dropouts, EnoughShares
  <1>2. SelfMasks' /\ PairMasks'
    BY DEF SelfMasks, PairMasks, EnoughShares
  <1> QED
    BY <1>1, <1>2

\* More shares may be enough where there were too few before: nothing has been
\* added yet.
LEMMA DeliverSharesStep ==
  ASSUME MaskInv, NEW c \in Participant, DeliverShares(c) PROVE MaskInv'
  <1> USE DEF MaskInv, DeliverShares, config, round, loops, total
  <1>1. Types' /\ Progress'
    BY DEF Types, Progress, Phases, Early, NoMaskLeft, Dropouts, EnoughShares
  <1>2. added = {} /\ cleared = {} /\ NoMaskLeft
    BY DEF Progress, Early
  <1>3. SelfMasks'
    BY <1>2 DEF SelfMasks, NoMaskLeft, One
  <1>4. PairMasks'
    <2>1. \A a, b \in Participant : Shared(SecretKey[a], SecretKey[b]) \in GF \X GF
      BY AggregationAssumption, SharedIsSymmetric
    <2> QED
      BY <1>2, <2>1 DEF PairMasks, NoMaskLeft, One
  <1> QED
    BY <1>1, <1>3, <1>4

\* The shares used are Threshold of them if there are as many.
LEMMA AggregateStep ==
  ASSUME MaskInv, NEW us \in SUBSET Participant, Aggregate(us) PROVE MaskInv'
  <1> USE DEF MaskInv, Aggregate, config, round, loops, total
  <1>1. Types' /\ Progress'
    BY DEF Types, Progress, Phases, Early, NoMaskLeft, Dropouts, EnoughShares
  <1>2. SelfMasks' /\ PairMasks'
    BY DEF SelfMasks, PairMasks, EnoughShares
  <1> QED
    BY <1>1, <1>2

\* An update brings its self mask and one signed mask per peer.
LEMMA AddUpdateStep ==
  ASSUME MaskInv, NEW c \in Participant, AddUpdate(c) PROVE MaskInv'
  <1> USE DEF MaskInv, AddUpdate, config, round
  <1>0. /\ SelfSecret[c] \in GF
        /\ \A k : MaskSign(c, k) \in Int
    BY AggregationAssumption DEF MaskSign
  <1>1. Types'
    BY <1>0 DEF Types, Phases, Dropouts
  <1>2. Progress'
    BY DEF Types, Progress, Early, NoMaskLeft, Dropouts, EnoughShares
  <1>3. SelfMasks'
    <2> SUFFICES ASSUME EnoughShares', NEW v \in GF
                 PROVE selfMask'[v] = One(\E e \in (added \ unmasked)' : SelfSecret[e] = v)
      BY DEF SelfMasks
    <2>1. unmasked = {} /\ unmasked' = {} /\ added \subseteq Participant /\ c \notin added
      BY DEF Progress, Types
    <2>2. selfMask[v] = One(\E e \in added : SelfSecret[e] = v)
      BY <2>1 DEF SelfMasks, EnoughShares
    <2>3. selfMask'[v] = IF v = SelfSecret[c] THEN selfMask[v] + 1 ELSE selfMask[v]
      BY <1>0 DEF Types
    <2>4. CASE v = SelfSecret[c]
      <3>1. ~ \E e \in added : SelfSecret[e] = v
        BY <2>1, <2>4, AggregationAssumption
      <3>2. \E e \in added' : SelfSecret[e] = v
        BY <2>4
      <3> QED
        BY <2>1, <2>2, <2>3, <2>4, <3>1, <3>2 DEF One
    <2>5. CASE v # SelfSecret[c]
      BY <2>1, <2>2, <2>3, <2>5 DEF One
    <2> QED
      BY <2>4, <2>5
  <1>4. PairMasks'
    <2> SUFFICES ASSUME EnoughShares' PROVE PairMasks'
      BY DEF PairMasks
    <2>0. EnoughShares /\ cleared' = cleared /\ added' = added \cup {c} /\ c \notin added
      BY DEF EnoughShares
    <2>1. \A k \in GF \X GF : pairMask'[k] = pairMask[k] + MaskSign(c, k)
      OBVIOUS
    <2>2. ASSUME NEW a \in Participant, NEW b \in Participant, a < b
          PROVE  pairMask'[Shared(SecretKey[a], SecretKey[b])] =
                   One(a \in added') - One(b \in added')
                     - One(<<b, a>> \in cleared') + One(<<a, b>> \in cleared')
      <3> DEFINE k == Shared(SecretKey[a], SecretKey[b])
      <3>1. k \in GF \X GF
        BY AggregationAssumption, SharedIsSymmetric
      <3>2. pairMask[k] = One(a \in added) - One(b \in added)
                     - One(<<b, a>> \in cleared) + One(<<a, b>> \in cleared)
        BY <2>0, <2>2 DEF PairMasks
      <3>3. MaskSign(c, k) = One(c = a) - One(c = b)
        BY <2>2, MaskSignOfPair
      <3>4. One(a \in added') = One(a \in added) + One(c = a)
        BY <2>0 DEF One
      <3>5. One(b \in added') = One(b \in added) + One(c = b)
        BY <2>0 DEF One
      <3>6. pairMask'[k] = pairMask[k] + MaskSign(c, k)
        BY <2>1, <3>1
      <3> HIDE DEF k
      <3>7. \A x, y, z, w, p, q \in Int : (x - y - z + w) + (p - q) = (x + p) - (y + q) - z + w
        OBVIOUS
      <3>8. \A t \in BOOLEAN : One(t) \in Int
        BY DEF One
      <3>9. pairMask'[k] = One(a \in added') - One(b \in added')
                     - One(<<b, a>> \in cleared') + One(<<a, b>> \in cleared')
        BY <2>0, <3>2, <3>3, <3>4, <3>5, <3>6, <3>7, <3>8 DEF One
      <3> QED
        BY <3>9 DEF k
    <2>3. ASSUME NEW k \in GF \X GF,
                 ~ \E a, b \in Participant : a < b /\ k = Shared(SecretKey[a], SecretKey[b])
          PROVE  pairMask'[k] = 0
      <3>1. MaskSign(c, k) = 0
        BY <2>3, MaskSignOfNobody
      <3>2. pairMask[k] = 0
        BY <2>0, <2>3 DEF PairMasks
      <3> QED
        BY <2>1, <3>1, <3>2
    <2> QED
      BY <2>2, <2>3 DEF PairMasks
  <1> QED
    BY <1>1, <1>2, <1>3, <1>4

\* With enough shares the aggregator works with the secrets that were split.
LEMMA RecoveredIsSecret ==
  ASSUME MaskInv, phase \notin Early, EnoughShares, NEW secret \in GF
  PROVE  Recovered(secret) = secret
  <1>1. used \in SUBSET Participant /\ tail \in Tails
    BY DEF MaskInv, Types
  <1>2. Cardinality(used) = Threshold
    BY DEF MaskInv, Progress
  <1> QED
    BY <1>1, <1>2, EveryThresholdReconstructs DEF SharesReconstruct, Recovered

\* The mask removed is the one the update brought, once.
LEMMA RemoveSelfMaskStep ==
  ASSUME MaskInv, NEW c \in Participant, RemoveSelfMask(c)
  PROVE  MaskInv'
  <1> USE DEF MaskInv, RemoveSelfMask, config, round
  <1>0. SelfSecret[c] \in GF
    BY AggregationAssumption
  <1>1. Types'
    BY DEF Types, Phases, Dropouts, Progress
  <1>2. Progress'
    BY DEF Types, Progress, Early, NoMaskLeft, Dropouts, EnoughShares
  <1>3. SelfMasks'
    <2> SUFFICES ASSUME EnoughShares', NEW v \in GF
                 PROVE selfMask'[v] = One(\E e \in (added \ unmasked)' : SelfSecret[e] = v)
      BY DEF SelfMasks
    <2>1. EnoughShares /\ added = updates /\ added \subseteq Participant /\ c \in added \ unmasked
      BY DEF Progress, Types, EnoughShares
    <2>2. selfMask[v] = One(\E e \in added \ unmasked : SelfSecret[e] = v)
      BY <2>1 DEF SelfMasks
    <2>3. CASE c \in survivors
      <3>1. Recovered(SelfSecret[c]) = SelfSecret[c]
        BY <1>0, <2>1, RecoveredIsSecret DEF Early
      <3>2. selfMask'[v] = IF v = SelfSecret[c] THEN selfMask[v] - 1 ELSE selfMask[v]
        BY <1>0, <2>3, <3>1 DEF Types
      <3>3. unmasked' = unmasked \cup {c} /\ added' = added
        BY <2>3
      <3>4. CASE v = SelfSecret[c]
        <4>1. ~ \E e \in added' \ unmasked' : SelfSecret[e] = v
          BY <2>1, <3>3, <3>4, AggregationAssumption
        <4>2. \E e \in added \ unmasked : SelfSecret[e] = v
          BY <2>1, <3>4
        <4> QED
          BY <2>2, <3>2, <3>4, <4>1, <4>2 DEF One
      <3>5. CASE v # SelfSecret[c]
        BY <2>2, <3>2, <3>3, <3>5 DEF One
      <3> QED
        BY <3>4, <3>5
    <2>4. CASE c \notin survivors
      BY <2>2, <2>4
    <2> QED
      BY <2>3, <2>4
  <1>4. PairMasks'
    BY DEF PairMasks, EnoughShares
  <1> QED
    BY <1>1, <1>2, <1>3, <1>4

\* The mask undone is the one the dropout and the survivor share, with the
\* sign the survivor did not give it.
LEMMA RemovePairMaskStep ==
  ASSUME MaskInv, NEW d \in Participant, NEW c \in Participant,
         RemovePairMask(d, c)
  PROVE  MaskInv'
  <1> USE DEF MaskInv, RemovePairMask, config, round
  <1>0. Participant \subseteq Int /\ SecretKey[d] \in GF /\ SecretKey[c] \in GF
    BY AggregationAssumption DEF Participant
  <1>1. Types'
    <2> DEFINE key == Shared(Recovered(SecretKey[d]), SecretKey[c])
    <2>1. pairMask' = [pairMask EXCEPT ![key] = IF d > c THEN @ - 1 ELSE @ + 1]
      OBVIOUS
    <2> HIDE DEF key
    <2>2. pairMask' \in [GF \X GF -> Int]
      <3>1. pairMask \in [GF \X GF -> Int]
        BY DEF Types
      <3>2. pairMask' = [k \in GF \X GF |->
                           IF k = key THEN (IF d > c THEN pairMask[k] - 1 ELSE pairMask[k] + 1)
                                      ELSE pairMask[k]]
        <4> DEFINE x == IF d > c THEN pairMask[key] - 1 ELSE pairMask[key] + 1
        <4>1. pairMask' = [pairMask EXCEPT ![key] = x]
          BY <2>1
        <4> HIDE DEF x
        <4>2. pairMask' = [k \in GF \X GF |-> IF k = key THEN x ELSE pairMask[k]]
          BY <3>1, <4>1
        <4> QED
          BY <4>2 DEF x
      <3>3. \A k \in GF \X GF :
              (IF k = key THEN (IF d > c THEN pairMask[k] - 1 ELSE pairMask[k] + 1)
                          ELSE pairMask[k]) \in Int
        BY <3>1
      <3> QED
        BY <3>2, <3>3
    <2> QED
      BY <2>2 DEF Types, Phases, Dropouts
  <1>2. Progress'
    BY DEF Types, Progress, Early, NoMaskLeft, Dropouts, EnoughShares
  <1>3. SelfMasks'
    BY DEF SelfMasks, EnoughShares
  <1>4. PairMasks'
    <2> SUFFICES ASSUME EnoughShares' PROVE PairMasks'
      BY DEF PairMasks
    <2>0. EnoughShares /\ added' = added /\ cleared' = cleared \cup {<<d, c>>} /\ <<d, c>> \notin cleared
      BY DEF EnoughShares
    <2>1. c # d
      BY DEF Progress, Dropouts
    <2> DEFINE key == Shared(SecretKey[d], SecretKey[c])
    <2>2. Recovered(SecretKey[d]) = SecretKey[d]
      BY <1>0, <2>0, RecoveredIsSecret DEF Early
    <2>3. key \in GF \X GF /\ key = Shared(SecretKey[c], SecretKey[d])
      BY <1>0, SharedIsSymmetric
    <2>4. pairMask' = [pairMask EXCEPT ![key] = IF d > c THEN @ - 1 ELSE @ + 1]
      BY <2>2
    <2> HIDE DEF key
    <2>5. \A k \in GF \X GF :
            pairMask'[k] = IF k = key THEN (IF d > c THEN pairMask[k] - 1 ELSE pairMask[k] + 1)
                                      ELSE pairMask[k]
      BY <2>3, <2>4 DEF Types
    <2>6. ASSUME NEW a \in Participant, NEW b \in Participant, a < b
          PROVE  pairMask'[Shared(SecretKey[a], SecretKey[b])] =
                   One(a \in added') - One(b \in added')
                     - One(<<b, a>> \in cleared') + One(<<a, b>> \in cleared')
      <3> DEFINE k == Shared(SecretKey[a], SecretKey[b])
      <3>1. k \in GF \X GF
        BY AggregationAssumption, SharedIsSymmetric
      <3>2. pairMask[k] = One(a \in added) - One(b \in added)
                     - One(<<b, a>> \in cleared) + One(<<a, b>> \in cleared)
        BY <2>0, <2>6 DEF PairMasks
      <3>3. CASE c = a /\ d = b
        <4>1. k = key /\ d > c
          BY <2>3, <2>6, <3>3, <1>0
        <4>2. <<b, a>> \in cleared' /\ <<b, a>> \notin cleared
          BY <2>0, <3>3
        <4>3. <<a, b>> \in cleared' <=> <<a, b>> \in cleared
          BY <2>0, <2>1, <3>3
        <4> QED
          BY <2>0, <2>5, <3>1, <3>2, <4>1, <4>2, <4>3 DEF One
      <3>4. CASE c = b /\ d = a
        <4>1. k = key /\ ~(d > c)
          BY <2>6, <3>4, <1>0 DEF key
        <4>2. <<a, b>> \in cleared' /\ <<a, b>> \notin cleared
          BY <2>0, <3>4
        <4>3. <<b, a>> \in cleared' <=> <<b, a>> \in cleared
          BY <2>0, <2>1, <3>4
        <4> QED
          BY <2>0, <2>5, <3>1, <3>2, <4>1, <4>2, <4>3 DEF One
      <3>5. CASE ~(c = a /\ d = b) /\ ~(c = b /\ d = a)
        <4>1. k # key
          <5>1. CASE d < c
            BY <5>1, <3>5, <2>6, SharedIsInjective DEF key
          <5>2. CASE c < d
            BY <5>2, <3>5, <2>6, <2>3, SharedIsInjective
          <5> QED
            BY <5>1, <5>2, <2>1, <1>0
        <4>2. /\ <<a, b>> \in cleared' <=> <<a, b>> \in cleared
              /\ <<b, a>> \in cleared' <=> <<b, a>> \in cleared
          BY <2>0, <3>5
        <4> QED
          BY <2>0, <2>5, <3>1, <3>2, <4>1, <4>2 DEF One
      <3> QED
        BY <3>3, <3>4, <3>5
    <2>7. ASSUME NEW k \in GF \X GF,
                 ~ \E a, b \in Participant : a < b /\ k = Shared(SecretKey[a], SecretKey[b])
          PROVE  pairMask'[k] = 0
      <3>1. k # key
        <4>1. CASE d < c
          BY <4>1, <2>7 DEF key
        <4>2. CASE c < d
          BY <4>2, <2>7, <2>3
        <4> QED
          BY <4>1, <4>2, <2>1, <1>0
      <3>2. pairMask[k] = 0
        BY <2>0, <2>7 DEF PairMasks
      <3> QED
        BY <2>5, <3>1, <3>2
    <2> QED
      BY <2>6, <2>7 DEF PairMasks
  <1> QED
    BY <1>1, <1>2, <1>3, <1>4

\* Revealing is the end of the loops.
LEMMA RevealStep ==
  ASSUME MaskInv, Reveal PROVE MaskInv'
  <1> USE DEF MaskInv, Reveal, config, round, loops, total
  <1>1. Types' /\ Progress'
    BY DEF Types, Progress, Phases, Early, Dropouts, EnoughShares
  <1>2. SelfMasks' /\ PairMasks'
    BY DEF SelfMasks, PairMasks, EnoughShares
  <1> QED
    BY <1>1, <1>2

\* Every step keeps the account of the masks.
LEMMA MasksStep ==
  ASSUME MaskInv, [Next]_vars PROVE MaskInv'
  <1>2. CASE DrawUpRecovery       BY <1>2, DrawUpRecoveryStep
  <1>3. CASE Reveal               BY <1>3, RevealStep
  <1>4. ASSUME NEW c \in Participant,
               DeliverUpdate(c) \/ DeliverShares(c) \/ AddUpdate(c) \/ RemoveSelfMask(c)
        PROVE  MaskInv'
    BY <1>4, DeliverUpdateStep, DeliverSharesStep, AddUpdateStep, RemoveSelfMaskStep
  <1>5. ASSUME NEW us \in SUBSET Participant, Aggregate(us) PROVE MaskInv'
    BY <1>5, AggregateStep
  <1>6. ASSUME NEW d \in Participant, NEW c \in Participant, RemovePairMask(d, c) PROVE MaskInv'
    BY <1>6, RemovePairMaskStep
  <1>7. CASE UNCHANGED vars
    <2> USE <1>7 DEF vars, config, round, loops, total, MaskInv
    <2>1. Types' /\ Progress'
      BY DEF Types, Progress, Phases, Early, NoMaskLeft, Dropouts, EnoughShares
    <2>2. SelfMasks' /\ PairMasks'
      BY DEF SelfMasks, PairMasks, EnoughShares
    <2> QED
      BY <2>1, <2>2
  <1> QED
    BY <1>2, <1>3, <1>4, <1>5, <1>6, <1>7 DEF Next

\* At the end every pair of participants has either both updates in the sum,
\* or one and its residual term undone, or none.
LEMMA MasksCancelAtTheEnd ==
  ASSUME MaskInv PROVE MasksCancel
  <1> SUFFICES ASSUME phase = "revealed", EnoughShares PROVE NoMaskLeft
    BY DEF MasksCancel
  <1>1. added = updates /\ unmasked = updates /\ survivors = updates
    BY DEF MaskInv, Progress, Types
  <1>2. \A a, b \in Participant : <<a, b>> \in cleared <=> a \notin updates /\ b \in updates
    BY <1>1 DEF MaskInv, Progress, Types, Dropouts
  <1>3. \A v \in GF : selfMask[v] = 0
    BY <1>1 DEF MaskInv, SelfMasks, One
  <1>4. \A k \in GF \X GF : pairMask[k] = 0
    <2> SUFFICES ASSUME NEW k \in GF \X GF PROVE pairMask[k] = 0
      OBVIOUS
    <2>1. CASE \E a, b \in Participant : a < b /\ k = Shared(SecretKey[a], SecretKey[b])
      <3> PICK a \in Participant, b \in Participant :
                 a < b /\ k = Shared(SecretKey[a], SecretKey[b])
        BY <2>1
      <3>1. pairMask[k] = One(a \in updates) - One(b \in updates)
                     - One(b \notin updates /\ a \in updates)
                     + One(a \notin updates /\ b \in updates)
        BY <1>1, <1>2 DEF MaskInv, PairMasks, One
      <3> QED
        BY <3>1 DEF One
    <2>2. CASE ~ \E a, b \in Participant : a < b /\ k = Shared(SecretKey[a], SecretKey[b])
      BY <2>2 DEF MaskInv, PairMasks
    <2> QED
      BY <2>1, <2>2
  <1> QED
    BY <1>3, <1>4 DEF NoMaskLeft

\* Whatever dropped out and in whatever order things arrived, once enough
\* shares came back no mask is left in the revealed sum
\* (PairwiseMaskAggregator.aggregate).
THEOREM MasksAlwaysCancel == Spec => []MasksCancel
  <1>1. Init => MaskInv
    BY InitMasks
  <1>2. MaskInv /\ [Next]_vars => MaskInv'
    BY MasksStep
  <1>3. MaskInv => MasksCancel
    BY MasksCancelAtTheEnd
  <1> QED
    BY <1>1, <1>2, <1>3, PTL DEF Spec

-----------------------------------------------------------------------------
(***************************************************************************)
(* Types.                                                                  *)
(***************************************************************************)
\* TypeOK and what it needs to be inductive: which loop is at work in which phase.
TypeInv ==
  /\ TypeOK
  /\ phase \in Early => added = {} /\ unmasked = {} /\ cleared = {}
  /\ phase \notin Early \cup {"sum"} => added = updates

\* An encoded value and a running total are field elements.
LEMMA FieldElements ==
  ASSUME NEW m \in Nat \ {0}, NEW x \in Int
  PROVE  x % m \in 0 .. m - 1
  OBVIOUS

\* Every step keeps the types.
LEMMA TypeStep ==
  ASSUME TypeInv, [Next]_vars PROVE TypeInv'
  <1> USE DEF TypeInv, TypeOK, Phases, Early, config, round, loops, total
  <1>2. CASE DrawUpRecovery       BY <1>2 DEF DrawUpRecovery, Dropouts
  <1>3. CASE Reveal               BY <1>3 DEF Reveal, Dropouts
  <1>4. ASSUME NEW c \in Participant, DeliverUpdate(c) PROVE TypeInv'
    BY <1>4 DEF DeliverUpdate, Dropouts
  <1>5. ASSUME NEW c \in Participant, DeliverShares(c) PROVE TypeInv'
    BY <1>5 DEF DeliverShares, Dropouts
  <1>6. ASSUME NEW c \in Participant, AddUpdate(c) PROVE TypeInv'
    <2> USE <1>6 DEF AddUpdate
    <2>1. SelfSecret[c] \in GF /\ \A k : MaskSign(c, k) \in Int
      BY AggregationAssumption DEF MaskSign
    <2>2. modulus \in Nat \ {0} /\ delta[c] \in Int
      BY AggregationAssumption
    <2>3. plain' \in 0 .. modulus' - 1
      <3>1. Encode(delta[c], modulus) \in Int
        BY <2>2, FieldElements DEF Encode
      <3>2. plain + Encode(delta[c], modulus) \in Int
        BY <3>1, <2>2
      <3> HIDE DEF TypeInv, TypeOK
      <3> QED
        BY <2>2, <3>2, FieldElements DEF FieldAdd
    <2>4. selfMask' \in [GF -> Int] /\ pairMask' \in [GF \X GF -> Int]
      BY <2>1
    <2> QED
      BY <2>3, <2>4 DEF Dropouts
  <1>7. ASSUME NEW c \in Participant, RemoveSelfMask(c) PROVE TypeInv'
    BY <1>7 DEF RemoveSelfMask, Dropouts
  <1>8. ASSUME NEW us \in SUBSET Participant, Aggregate(us) PROVE TypeInv'
    BY <1>8 DEF Aggregate, Dropouts
  <1>9. ASSUME NEW d \in Participant, NEW c \in Participant, RemovePairMask(d, c)
        PROVE  TypeInv'
    <2> DEFINE key == Shared(Recovered(SecretKey[d]), SecretKey[c])
               x   == IF d > c THEN pairMask[key] - 1 ELSE pairMask[key] + 1
    <2> USE <1>9 DEF RemovePairMask
    <2>1. pairMask' = [pairMask EXCEPT ![key] = x]
      OBVIOUS
    <2> HIDE DEF x
    <2>2. pairMask' = [k \in GF \X GF |-> IF k = key THEN x ELSE pairMask[k]]
      BY <2>1
    <2>3. \A k \in GF \X GF : (IF k = key THEN x ELSE pairMask[k]) \in Int
      BY DEF x
    <2>4. pairMask' \in [GF \X GF -> Int]
      BY <2>2, <2>3
    <2> QED
      BY <2>4 DEF Dropouts
  <1>10. CASE UNCHANGED vars
    BY <1>10 DEF vars, Dropouts
  <1> QED
    BY <1>2, <1>3, <1>4, <1>5, <1>6, <1>7, <1>8, <1>9, <1>10 DEF Next

\* Nothing is added yet, and 0 is a field element.
LEMMA InitTypeInv == Init => TypeInv
  <1> SUFFICES ASSUME Init PROVE TypeInv
    OBVIOUS
  <1>1. 0 \in 0 .. modulus - 1
    BY AggregationAssumption DEF Init
  <1> QED
    BY <1>1 DEF Init, TypeInv, TypeOK, Phases, Early, Dropouts

\* The total stays a field element, the loops only visit what was sent, and
\* no dropout's key is recovered for an update that is not there.
THEOREM AggregationTypeCorrect == Spec => []TypeOK
  <1>1. Init => TypeInv
    BY InitTypeInv
  <1>2. TypeInv /\ [Next]_vars => TypeInv'
    BY TypeStep
  <1>3. TypeInv => TypeOK
    BY DEF TypeInv
  <1> QED
    BY <1>1, <1>2, <1>3, PTL DEF Spec

-----------------------------------------------------------------------------
(***************************************************************************)
(* What is revealed.                                                       *)
(***************************************************************************)
\* The total is the sum of the updates added, in the field, and what is revealed is
\* the total, recentred.
PlainTells ==
  /\ modulus \in Nat \ {0} /\ delta \in [Participant -> Int]
  /\ plain = Sum(delta, added) % modulus
  /\ phase = "revealed" /\ NoMaskLeft => result = Lift(plain, modulus)

\* The participants are finitely many, N of them.
LEMMA ParticipantsFinite ==
  IsFiniteSet(Participant) /\ Cardinality(Participant) = N
  <1>1. IsFiniteSet(1 .. N) /\ Cardinality(1 .. N) = IF 1 > N THEN 0 ELSE N - 1 + 1
    BY FS_Interval, AggregationAssumption
  <1> QED
    BY <1>1, AggregationAssumption DEF Participant

\* At the start nothing is added.
LEMMA InitPlain == Init => PlainTells
  <1> SUFFICES ASSUME Init PROVE PlainTells
    OBVIOUS
  <1>1. modulus \in Nat \ {0} /\ delta \in [Participant -> Int]
    BY AggregationAssumption DEF Init
  <1>2. Sum(delta, {}) = 0
    BY <1>1, ParticipantsFinite, SumProperties
  <1>3. 0 % modulus = 0
    BY <1>1
  <1> QED
    BY <1>1, <1>2, <1>3 DEF Init, PlainTells

\* An update that is added is in the total.
LEMMA AddUpdatePlain ==
  ASSUME TypeInv, PlainTells, NEW c \in Participant, AddUpdate(c)
  PROVE  PlainTells'
  <1>1. /\ phase = "sum" /\ phase' \in {"sum", "unmask"}
        /\ c \in updates \ added /\ added' = added \cup {c}
        /\ plain' = FieldAdd(plain, Encode(delta[c], modulus), modulus)
        /\ UNCHANGED <<modulus, delta>>
    BY DEF AddUpdate, config
  <1>2. /\ modulus \in Nat \ {0} /\ delta \in [Participant -> Int]
        /\ plain = Sum(delta, added) % modulus
    BY DEF PlainTells
  <1>3. added \in SUBSET Participant /\ added' \in SUBSET Participant
    BY <1>1 DEF TypeInv, TypeOK
  <1>4. Sum(delta, added') = delta[c] + Sum(delta, added)
    <2>1. c \in added' /\ added' \ {c} = added
      BY <1>1
    <2> QED
      BY <1>2, <1>3, <2>1, ParticipantsFinite, SumProperties
  <1>5. Sum(delta, added) \in Int /\ delta[c] \in Int
    BY <1>2, <1>3, ParticipantsFinite, SumProperties
  <1>6. plain' = ((Sum(delta, added) % modulus) + (delta[c] % modulus)) % modulus
    BY <1>1, <1>2 DEF FieldAdd, Encode
  <1>7. plain' = (Sum(delta, added) + delta[c]) % modulus
    BY <1>2, <1>5, <1>6, ModAdds
  <1>8. Sum(delta, added) + delta[c] = Sum(delta, added')
    BY <1>4, <1>5
  <1> QED
    BY <1>1, <1>2, <1>7, <1>8 DEF PlainTells

\* Every step keeps the total the sum of what was added.
LEMMA PlainStep ==
  ASSUME TypeInv, PlainTells, [Next]_vars PROVE PlainTells'
  <1> USE DEF config, round, loops, total
  <1>2. CASE DrawUpRecovery
    BY <1>2 DEF DrawUpRecovery, PlainTells, NoMaskLeft
  <1>3. CASE Reveal
    BY <1>3 DEF Reveal, PlainTells, NoMaskLeft
  <1>4. ASSUME NEW c \in Participant, DeliverUpdate(c) \/ DeliverShares(c) PROVE PlainTells'
    BY <1>4 DEF DeliverUpdate, DeliverShares, PlainTells, NoMaskLeft
  <1>5. ASSUME NEW c \in Participant, AddUpdate(c) PROVE PlainTells'
    BY <1>5, AddUpdatePlain
  <1>6. ASSUME NEW c \in Participant, RemoveSelfMask(c) PROVE PlainTells'
    BY <1>6 DEF RemoveSelfMask, PlainTells
  <1>7. ASSUME NEW us \in SUBSET Participant, Aggregate(us) PROVE PlainTells'
    BY <1>7 DEF Aggregate, PlainTells
  <1>8. ASSUME NEW d \in Participant, NEW c \in Participant, RemovePairMask(d, c)
        PROVE  PlainTells'
    BY <1>8 DEF RemovePairMask, PlainTells
  <1>9. CASE UNCHANGED vars
    BY <1>9 DEF vars, PlainTells, NoMaskLeft
  <1> QED
    BY <1>2, <1>3, <1>4, <1>5, <1>6, <1>7, <1>8, <1>9 DEF Next

\* A sum that assert_no_wrap would accept stays below half the modulus, so recentring
\* the total gives the sum itself.
LEMMA FittingSumIsExact ==
  ASSUME PlainTells, survivors \in SUBSET Participant,
         Fits(Cardinality(survivors), SurvivorsNorm, modulus)
  PROVE  Lift(Sum(delta, survivors) % modulus, modulus) = Sum(delta, survivors)
  <1> DEFINE norms == {Magnitude(delta[c]) : c \in survivors}
  <1>1. modulus \in Nat \ {0} /\ delta \in [Participant -> Int]
    BY DEF PlainTells
  <1>2. IsFiniteSet(survivors) /\ Cardinality(survivors) \in Nat
    BY ParticipantsFinite, FS_Subset, FS_CardinalityType
  <1>3. norms \in SUBSET Nat
    BY <1>1 DEF Magnitude
  <1>4. IsFiniteSet(norms)
    <2> DEFINE magnitudes == [c \in survivors |-> Magnitude(delta[c])]
    <2>1. magnitudes \in Surjection(survivors, norms)
      BY DEF Surjection
    <2> QED
      BY <1>2, <2>1, FS_Surjection
  <1>5. SurvivorsNorm = Largest(0, norms)
    BY DEF SurvivorsNorm, Largest
  <1> HIDE DEF norms
  <1>6. SurvivorsNorm \in Nat /\ \A x \in norms : x <= SurvivorsNorm
    BY <1>3, <1>4, <1>5, LargestBounds
  <1>7. \A c \in survivors : Magnitude(delta[c]) <= SurvivorsNorm
    BY <1>6 DEF norms
  <1> DEFINE bound == Cardinality(survivors) * SurvivorsNorm
  <1>8. Magnitude(Sum(delta, survivors)) <= bound
    BY <1>1, <1>6, <1>7, ParticipantsFinite, SumBound
  <1>9. bound \in Int /\ bound < modulus \div 2
    BY <1>2, <1>6 DEF Fits
  <1>10. Sum(delta, survivors) \in Int
    BY <1>1, ParticipantsFinite, SumProperties
  <1> HIDE DEF bound
  <1>11. -(modulus \div 2) < Sum(delta, survivors) /\ Sum(delta, survivors) < modulus \div 2
    BY <1>1, <1>8, <1>9, <1>10 DEF Magnitude
  <1> QED
    BY <1>1, <1>10, <1>11, LiftUndoesEncode DEF Encode

\* RevealedIsSurvivorsSum for any number of participants, any updates and any modulus
\* of the field, whether or not the sum fits it: the masks are gone, nobody but the
\* survivors was added, and what is revealed is their sum as the field holds it.
THEOREM RevealedSum == Spec => []RevealedIsSurvivorsSum
  <1> DEFINE SumInv == MaskInv /\ TypeInv /\ PlainTells
  <1>1. Init => SumInv
    BY InitMasks, InitTypeInv, InitPlain
  <1>2. SumInv /\ [Next]_vars => SumInv'
    BY MasksStep, TypeStep, PlainStep
  <1>3. ASSUME SumInv PROVE RevealedIsSurvivorsSum
    <2> SUFFICES ASSUME phase = "revealed", EnoughShares
                 PROVE  /\ Encode(result, modulus) = Encode(SurvivorsSum, modulus)
                        /\ -modulus < 2 * result /\ 2 * result <= modulus
                        /\ Fits(Cardinality(survivors), SurvivorsNorm, modulus)
                             => result = SurvivorsSum
      BY DEF RevealedIsSurvivorsSum
    <2>1. NoMaskLeft
      BY <1>3, MasksCancelAtTheEnd DEF MasksCancel
    <2>2. added = survivors /\ survivors \in SUBSET Participant
      BY <1>3 DEF MaskInv, Types, Progress
    <2>3. SurvivorsSum = Sum(delta, survivors)
      BY DEF SurvivorsSum, Sum
    <2>4. result = Lift(Sum(delta, survivors) % modulus, modulus)
      BY <1>3, <2>1, <2>2 DEF PlainTells
    <2>5. modulus \in Nat \ {0} /\ Sum(delta, survivors) \in Int
      BY <1>3, <2>2, ParticipantsFinite, SumProperties DEF PlainTells
    <2>6. /\ Encode(result, modulus) = Encode(SurvivorsSum, modulus)
          /\ -modulus < 2 * result /\ 2 * result <= modulus
      BY <2>3, <2>4, <2>5, LiftIsCentred DEF Encode
    <2>7. Fits(Cardinality(survivors), SurvivorsNorm, modulus) => result = SurvivorsSum
      BY <1>3, <2>2, <2>3, <2>4, FittingSumIsExact
    <2> QED
      BY <2>6, <2>7
  <1>4. SumInv => RevealedIsSurvivorsSum
    BY <1>3
  <1> QED
    BY <1>1, <1>2, <1>4, PTL DEF Spec
=============================================================================
