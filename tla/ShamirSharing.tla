--------------------------- MODULE ShamirSharing ---------------------------
(***************************************************************************)
(* The threshold sharing of lensemble.aggregation.masking: a secret of the *)
(* prime field is the constant term of a polynomial, a share is the value  *)
(* of the polynomial at 1, 2, ..., and any threshold of the shares         *)
(* interpolate the polynomial back at 0.                                   *)
(*                                                                         *)
(* The code derives the other coefficients from the secret by hashing;     *)
(* here they are a parameter, so every polynomial may be tried.            *)
(***************************************************************************)
EXTENDS Integers, FiniteSets, SequencesExt

CONSTANT Prime  \* _SHAMIR_PRIME

ASSUME PrimeAssumption ==
  /\ Prime \in Nat
  /\ Prime > 1
  /\ \A d \in 2 .. Prime - 1 : Prime % d # 0

GF == 0 .. Prime - 1

FieldInverse(a) == CHOOSE b \in GF : (a * b) % Prime = 1

\* Horner's rule, from the highest coefficient down.
Evaluate(coeffs, x) ==
  FoldRight(LAMBDA coeff, y : (y * x + coeff) % Prime, coeffs, 0)

\* The share of x is the value at x; the secret sits at 0.
Split(secret, tail, n) == [x \in 1..n |-> Evaluate(<<secret>> \o tail, x)]

\* The product of a - o over the o of S.
Product(a, S) == FoldSet(LAMBDA o, acc : (acc * (a - o)) % Prime, 1, S)

\* Lagrange interpolation at 0 through the given shares, and no others:
\* whether they are enough is not looked at.
Reconstruct(shares) ==
  LET xs     == DOMAIN shares
      Num(x) == Product(0, xs \ {x})
      Den(x) == Product(x, xs \ {x})
      term   == [x \in xs |-> (shares[x] * Num(x) * FieldInverse(Den(x))) % Prime]
  IN  MapThenSumSet(LAMBDA x : term[x], xs) % Prime
=============================================================================
