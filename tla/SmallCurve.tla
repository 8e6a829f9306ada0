----------------------------- MODULE SmallCurve -----------------------------
(***************************************************************************)
(* The cryptography the account relies on but does not contain: ECDSA on a *)
(* curve y^2 = x^3 - 3x + b over the integers modulo a prime p, with a     *)
(* group of prime order n.  P-256 is such a curve; the runs take one small *)
(* enough that every key and every signature can be tried, with n < p and  *)
(* both below the word size as for P-256.                                  *)
(***************************************************************************)
EXTENDS Integers, Sequences, SequencesExt

CONSTANTS
    FieldPrime,   \* p
    OrderN,       \* n, the number of points, infinity included
    CurveB,       \* b
    GX, GY,       \* the generator G
    WordSize      \* the integers are words below this bound, 2^256 in the code

Word == 0 .. WordSize - 1
Infinity == <<0, 0>>     \* not on the curve, so free to stand for the identity

-----------------------------------------------------------------------------
(* The group. *)

Reciprocal(a, m) == CHOOSE i \in 1 .. m - 1 : (a * i) % m = 1

Slope(P, Q) ==
    IF P = Q THEN (3 * P[1] * P[1] - 3) * Reciprocal((2 * P[2]) % FieldPrime, FieldPrime)
             ELSE (Q[2] - P[2]) * Reciprocal((Q[1] - P[1]) % FieldPrime, FieldPrime)

PlusPoint(P, Q) ==
    CASE P = Infinity -> Q
      [] Q = Infinity -> P
      [] P # Infinity /\ Q # Infinity /\ P[1] = Q[1] /\ (P[2] + Q[2]) % FieldPrime = 0 ->
            Infinity
      [] OTHER ->
            LET l == Slope(P, Q)
                x == (l * l - P[1] - Q[1]) % FieldPrime
            IN  <<x, (l * (P[1] - x) - P[2]) % FieldPrime>>

\* Multiples[d] is d times G, the public key of the private key d.
Multiples ==
    FoldLeft(LAMBDA s, P : Append(s, PlusPoint(Last(s), P)), <<<<GX, GY>>>>,
             [i \in 1 .. OrderN - 2 |-> <<GX, GY>>])

PrivateKeys == 1 .. OrderN - 1
PublicKeys == {Multiples[d] : d \in PrivateKeys}
PrivateKeyOf(Q) == CHOOSE d \in PrivateKeys : Multiples[d] = Q

\* What is known of the curve, and holds of P-256: its points form a group of
\* prime order, G generates it, and points of opposite sign share their x.
ASSUME GroupAssumption ==
    /\ CurveB \in Nat
    /\ \A d \in PrivateKeys :
          /\ Multiples[d][1] \in Nat
          /\ Multiples[OrderN - d][1] = Multiples[d][1]
          /\ \E i \in PrivateKeys : (d * i) % OrderN = 1
    /\ \A d, e \in PrivateKeys : Multiples[d] = Multiples[e] => d = e
    /\ \A x, y \in 1 .. FieldPrime - 1 :
          (y * y) % FieldPrime = (x * x * x - 3 * x + CurveB) % FieldPrime
             => <<x, y>> \in PublicKeys

-----------------------------------------------------------------------------
(* ECDSA. *)

\* A signature by the private key d over a hash, with the secret k.
SignRaw(d, hash, k) ==
    LET r == Multiples[k][1] % OrderN
    IN  [r |-> r, s |-> ((hash + r * d) * Reciprocal(k, OrderN)) % OrderN]

\* Signing draws another secret when one of the scalars comes out as 0.
Signs(d, hash, k) == LET g == SignRaw(d, hash, k) IN g.r # 0 /\ g.s # 0

\* RIP-7212: what the precompile checks for the words hash, r, s, x, y.
Rip7212(hash, r, s, x, y) ==
    /\ {r, s} \subseteq 1 .. OrderN - 1
    /\ <<x, y>> \in PublicKeys
    /\ LET w == Reciprocal(s, OrderN)
           k == ((hash + r * PrivateKeyOf(<<x, y>>)) * w) % OrderN
       IN  k # 0 /\ Multiples[k][1] % OrderN = r
=============================================================================
