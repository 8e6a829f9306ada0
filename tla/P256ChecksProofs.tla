-------------------------- MODULE P256ChecksProofs --------------------------
(***************************************************************************)
(* For every curve, word size and set of hashes: an accepted signature has *)
(* no second encoding; and if the points of the curve form a group of      *)
(* prime order, as those of P-256 do (GroupAssumption), an installed owner *)
(* is a usable key and the signatures of owners pass.  The run             *)
(* `arithmetic` tries all of it on a curve of 17 points.                   *)
(***************************************************************************)
EXTENDS P256Checks, TLAPS

\* What was accepted was accepted by ValidateP256Signature.
VerdictTrue ==
    msg # NoMsg =>
        msg.verdict = ValidateP256Signature(msg.hash, msg.sig, msg.key[1], msg.key[2])

LEMMA SmallRemainder ==
    ASSUME NEW a \in Nat, a < OrderN
    PROVE  a % OrderN = a
BY CurveAssumption

\* The scalars of an accepted signature: both in 1 .. n - 1, s in the lower half.
LEMMA AcceptedScalars ==
    ASSUME NEW hash, NEW sig, NEW x, NEW y,
           ValidateP256Signature(hash, sig, x, y) = "ok"
    PROVE  /\ sig.r \in Nat /\ sig.r < OrderN
           /\ sig.s \in Nat /\ sig.s # 0 /\ sig.s <= HalfOrder
BY CurveAssumption
   DEF ValidateP256Signature, IsValidScalar, IsLowS, VerifyP256Precompile, Rip7212

\* Of s and n - s, exactly one is low, so two low scalars that stand for the
\* same signature are equal.
LEMMA LowSExclusive ==
    ASSUME NEW s \in Nat, NEW t \in Nat, s # 0, t # 0,
           s <= HalfOrder, t <= HalfOrder,
           s % OrderN = t % OrderN \/ s % OrderN = (OrderN - t) % OrderN
    PROVE  s = t
<1>1. /\ s < OrderN /\ t < OrderN
      /\ OrderN - t \in Nat /\ OrderN - t < OrderN
  BY CurveAssumption
<1>2. /\ s % OrderN = s
      /\ t % OrderN = t
      /\ (OrderN - t) % OrderN = OrderN - t
  BY <1>1, SmallRemainder
<1>3. s # OrderN - t
  BY CurveAssumption
<1> QED
  BY <1>2, <1>3

-----------------------------------------------------------------------------
(* Arithmetic modulo m. *)

Congruent(a, b, m) == \E q \in Int : a = b + q * m

LEMMA Remainder ==
    ASSUME NEW a \in Int, NEW m \in Nat \ {0}
    PROVE  a % m \in 0 .. m - 1 /\ Congruent(a % m, a, m)
<1>1. a % m \in 0 .. m - 1 /\ a = m * (a \div m) + (a % m) /\ a \div m \in Int
  OBVIOUS
<1> DEFINE q == a \div m
           r == a % m
<1>2. a = m * q + r /\ q \in Int /\ r \in Int
  BY <1>1
<1> HIDE DEF q, r
<1>3. r = a + (-q) * m /\ -q \in Int
  <2>1. (-q) * m = -(m * q)
    BY <1>2
  <2> QED
    BY <1>2, <2>1
<1>4. Congruent(r, a, m)
  BY <1>3 DEF Congruent
<1> QED
  BY <1>1, <1>4 DEF r

LEMMA CongruentSymmetric ==
    ASSUME NEW a \in Int, NEW b \in Int, NEW m \in Nat, Congruent(a, b, m)
    PROVE  Congruent(b, a, m)
<1>1. PICK q \in Int : a = b + q * m
  BY DEF Congruent
<1>2. b = a + (-q) * m /\ -q \in Int
  <2>1. (-q) * m = -(q * m) /\ q * m \in Int
    OBVIOUS
  <2> QED
    BY <1>1, <2>1
<1> QED
  BY <1>2 DEF Congruent

LEMMA CongruentTransitive ==
    ASSUME NEW a \in Int, NEW b \in Int, NEW c \in Int, NEW m \in Nat,
           Congruent(a, b, m), Congruent(b, c, m)
    PROVE  Congruent(a, c, m)
<1>1. PICK p \in Int : a = b + p * m
  BY DEF Congruent
<1>2. PICK q \in Int : b = c + q * m
  BY DEF Congruent
<1>3. a = c + (p + q) * m /\ p + q \in Int
  <2>1. (p + q) * m = p * m + q * m /\ p * m \in Int /\ q * m \in Int
    OBVIOUS
  <2> QED
    BY <1>1, <1>2, <2>1
<1> QED
  BY <1>3 DEF Congruent

LEMMA CongruentTimes ==
    ASSUME NEW a \in Int, NEW b \in Int, NEW c \in Int, NEW m \in Nat, Congruent(a, b, m)
    PROVE  Congruent(a * c, b * c, m)
<1>1. PICK q \in Int : a = b + q * m
  BY DEF Congruent
<1>2. a * c = b * c + (q * c) * m /\ q * c \in Int
  <2>1. (b + q * m) * c = b * c + (q * c) * m
    OBVIOUS
  <2> QED
    BY <1>1, <2>1
<1> QED
  BY <1>2 DEF Congruent

LEMMA CongruentPlus ==
    ASSUME NEW a \in Int, NEW b \in Int, NEW c \in Int, NEW d \in Int, NEW m \in Nat,
           Congruent(a, b, m), Congruent(c, d, m)
    PROVE  Congruent(a + c, b + d, m) /\ Congruent(a - c, b - d, m)
<1>1. PICK p \in Int : a = b + p * m
  BY DEF Congruent
<1>2. PICK q \in Int : c = d + q * m
  BY DEF Congruent
<1>3. /\ (p + q) * m = p * m + q * m
      /\ (p - q) * m = p * m - q * m
      /\ p * m \in Int /\ q * m \in Int
  OBVIOUS
<1>4. a + c = (b + d) + (p + q) * m /\ a - c = (b - d) + (p - q) * m
  BY <1>1, <1>2, <1>3
<1>5. p + q \in Int /\ p - q \in Int
  OBVIOUS
<1>6. Congruent(a + c, b + d, m)
  BY <1>4, <1>5 DEF Congruent
<1>7. Congruent(a - c, b - d, m)
  BY <1>4, <1>5 DEF Congruent
<1> QED
  BY <1>6, <1>7

LEMMA CongruentSelf ==
    ASSUME NEW a \in Int, NEW m \in Nat
    PROVE  Congruent(a, a, m) /\ Congruent(m, 0, m)
<1>1. a = a + 0 * m /\ m = 0 + 1 * m
  OBVIOUS
<1> QED
  BY <1>1 DEF Congruent

\* Numbers below m that are congruent are equal.
LEMMA CongruentEqual ==
    ASSUME NEW m \in Nat \ {0}, NEW a \in 0 .. m - 1, NEW b \in 0 .. m - 1,
           Congruent(a, b, m)
    PROVE  a = b
<1>1. PICK q \in Int : a = b + q * m
  BY DEF Congruent
<1>2. ASSUME q >= 1 PROVE FALSE
  <2>1. q - 1 \in Nat /\ q * m = (q - 1) * m + m
    BY <1>2
  <2>2. (q - 1) * m \in Nat
    BY <2>1
  <2> QED
    BY <1>1, <2>1, <2>2
<1>3. ASSUME q <= -1 PROVE FALSE
  <2>1. -1 - q \in Nat /\ q * m = -((-1 - q) * m) - m
    BY <1>3
  <2>2. (-1 - q) * m \in Nat
    BY <2>1
  <2> QED
    BY <1>1, <2>1, <2>2
<1>4. q = 0
  BY <1>2, <1>3
<1> QED
  BY <1>1, <1>4

LEMMA SameRemainder ==
    ASSUME NEW m \in Nat \ {0}, NEW a \in Int, NEW b \in Int
    PROVE  a % m = b % m <=> Congruent(a, b, m)
<1>1. /\ a % m \in 0 .. m - 1 /\ Congruent(a % m, a, m)
      /\ b % m \in 0 .. m - 1 /\ Congruent(b % m, b, m)
  BY Remainder
<1> DEFINE r == a % m
           s == b % m
<1>2. /\ r \in 0 .. m - 1 /\ Congruent(r, a, m) /\ Congruent(a, r, m)
      /\ s \in 0 .. m - 1 /\ Congruent(s, b, m) /\ Congruent(b, s, m)
      /\ r \in Int /\ s \in Int
  BY <1>1, CongruentSymmetric
<1> HIDE DEF r, s
<1>3. r = s => Congruent(a, b, m)
  BY <1>2, CongruentTransitive
<1>4. ASSUME Congruent(a, b, m) PROVE r = s
  <2>1. Congruent(r, b, m)
    BY <1>2, <1>4, CongruentTransitive
  <2>2. Congruent(r, s, m)
    BY <1>2, <2>1, CongruentTransitive
  <2> QED
    BY <1>2, <2>2, CongruentEqual
<1> QED
  BY <1>3, <1>4 DEF r, s

-----------------------------------------------------------------------------
LEMMA VerdictTrueInductive == VerdictTrue /\ [Next]_vars => VerdictTrue'
<1> SUFFICES ASSUME VerdictTrue, [Next]_vars PROVE VerdictTrue'
  OBVIOUS
<1>1. ASSUME NEW hash, NEW sig, NEW by, msg' = Checked(hash, sig, by)
      PROVE  VerdictTrue'
  BY <1>1 DEF VerdictTrue, Checked, ValidateP256Signature, VerifyP256Precompile
<1>2. ASSUME NEW x \in Word, NEW y \in Word, Constructor(x, y)
      PROVE  VerdictTrue'
  BY <1>2 DEF VerdictTrue, Constructor
<1>3. ASSUME NEW x \in Word, NEW y \in Word, RotateOwner(x, y)
      PROVE  VerdictTrue'
  BY <1>3 DEF VerdictTrue, RotateOwner
<1>4. ASSUME NEW hash \in Hashes, NEW k \in PrivateKeys, OwnerSigns(hash, k)
      PROVE  VerdictTrue'
  BY <1>1, <1>4 DEF OwnerSigns
<1>5. ASSUME NEW hash \in Hashes, NEW sig \in Submissions, AnyoneShows(hash, sig)
      PROVE  VerdictTrue'
  BY <1>1, <1>5 DEF AnyoneShows
<1>6. CASE Forget
  BY <1>6 DEF VerdictTrue, Forget
<1>7. CASE UNCHANGED vars
  BY <1>7 DEF VerdictTrue, vars
<1> QED
  BY <1>2, <1>3, <1>4, <1>5, <1>6, <1>7 DEF Next

LEMMA VerdictTrueSuffices == VerdictTrue => OneEncoding
<1> SUFFICES ASSUME VerdictTrue, msg # NoMsg, msg.verdict = "ok",
                    NEW r \in Word, NEW s \in Word, NEW sig,
                    sig = [len |-> 64, r |-> r, s |-> s],
                    SameSignature(sig, msg.sig),
                    ValidateP256Signature(msg.hash, sig, msg.key[1], msg.key[2]) = "ok"
             PROVE  r = msg.sig.r /\ s = msg.sig.s
  BY DEF OneEncoding
<1>1. /\ msg.sig.r \in Nat /\ msg.sig.r < OrderN
      /\ msg.sig.s \in Nat /\ msg.sig.s # 0 /\ msg.sig.s <= HalfOrder
  BY AcceptedScalars DEF VerdictTrue
<1>2. /\ r \in Nat /\ r < OrderN
      /\ s \in Nat /\ s # 0 /\ s <= HalfOrder
  BY AcceptedScalars
<1>3. r = msg.sig.r
  BY <1>1, <1>2, SmallRemainder DEF SameSignature
<1>4. s = msg.sig.s
  BY <1>1, <1>2, LowSExclusive DEF SameSignature
<1> QED
  BY <1>3, <1>4

\* On every curve, an accepted signature has no other accepted encoding: an
\* authorisation cannot be shown again in another form.
THEOREM OneEncodingAlways == Spec => []OneEncoding
<1>1. Init => VerdictTrue
  BY DEF Init, VerdictTrue
<1> QED
  BY <1>1, VerdictTrueInductive, VerdictTrueSuffices, PTL DEF Spec

-----------------------------------------------------------------------------
(* Owners. *)

LEMMA WordRemainder ==
    ASSUME NEW m \in Nat, NEW a \in 0 .. m - 1
    PROVE  a % m = a
OBVIOUS

\* The code's equation, in words, is the curve's; and both signs of y solve it.
LEMMA EquationHolds ==
    ASSUME NEW x \in 1 .. FieldPrime - 1, NEW y \in 1 .. FieldPrime - 1
    PROVE  IsOnCurve(x, y) <=>
              (y * y) % FieldPrime = (x * x * x - 3 * x + CurveB) % FieldPrime
<1> DEFINE p == FieldPrime
           x2 == (x * x) % p
           x3 == (x2 * x) % p
           threeX == (x * 3) % p
           minus == (p - threeX) % WordSize
           sum == (x3 + minus) % p
<1>1. /\ p \in Nat \ {0} /\ p < WordSize /\ WordSize \in Nat /\ CurveB \in Nat
      /\ x \in Int /\ y \in Int
  BY CurveAssumption, GroupAssumption
<1>2. IsOnCurve(x, y) <=> (y * y) % p = (sum + CurveB) % p
  BY DEF IsOnCurve, MulMod, AddMod, Minus
<1> HIDE DEF p
<1>3. x2 \in Int /\ Congruent(x2, x * x, p)
  <2> DEFINE e == x * x
  <2>1. e \in Int
    BY <1>1
  <2> HIDE DEF e
  <2>2. e % p \in 0 .. p - 1 /\ Congruent(e % p, e, p)
    BY <1>1, <2>1, Remainder
  <2> QED
    BY <1>1, <2>2 DEF e
<1> HIDE DEF x2
<1>4. x3 \in Int /\ Congruent(x3, x2 * x, p)
  <2> DEFINE e == x2 * x
  <2>1. e \in Int
    BY <1>1, <1>3
  <2> HIDE DEF e
  <2>2. e % p \in 0 .. p - 1 /\ Congruent(e % p, e, p)
    BY <1>1, <2>1, Remainder
  <2> QED
    BY <1>1, <2>2 DEF e
<1>5. threeX \in 0 .. p - 1 /\ Congruent(threeX, x * 3, p)
  <2> DEFINE e == x * 3
  <2>1. e \in Int
    BY <1>1
  <2> HIDE DEF e
  <2>2. e % p \in 0 .. p - 1 /\ Congruent(e % p, e, p)
    BY <1>1, <2>1, Remainder
  <2> QED
    BY <1>1, <2>2 DEF e
<1> HIDE DEF x3, threeX
<1>6. minus = p - threeX
  <2>1. p - threeX \in 0 .. WordSize - 1
    BY <1>1, <1>5
  <2> DEFINE d == p - threeX
  <2> HIDE DEF d
  <2>2. d \in 0 .. WordSize - 1 => d % WordSize = d
    BY <1>1, WordRemainder
  <2>3. d % WordSize = d
    BY <2>1, <2>2 DEF d
  <2> QED
    BY <2>3 DEF d
<1>7. minus \in Int
  BY <1>1, <1>5, <1>6
<1> HIDE DEF minus
<1>8. sum \in Int /\ Congruent(sum, x3 + minus, p)
  <2> DEFINE e == x3 + minus
  <2>1. e \in Int
    BY <1>4, <1>7
  <2> HIDE DEF e
  <2>2. e % p \in 0 .. p - 1 /\ Congruent(e % p, e, p)
    BY <1>1, <2>1, Remainder
  <2> QED
    BY <1>1, <2>2 DEF e
<1> HIDE DEF sum
<1>9. Congruent(x3, x * x * x, p)
  <2> DEFINE square == x * x
             times == x2 * x
             cube == square * x
  <2>1. square \in Int /\ times \in Int /\ cube \in Int
    BY <1>1, <1>3
  <2>2. Congruent(x2, square, p) /\ Congruent(x3, times, p)
    BY <1>3, <1>4
  <2> HIDE DEF square
  <2>3. Congruent(times, cube, p)
    BY <1>1, <1>3, <2>1, <2>2, CongruentTimes
  <2> HIDE DEF times, cube
  <2>4. Congruent(x3, cube, p)
    BY <1>1, <1>4, <2>1, <2>2, <2>3, CongruentTransitive
  <2> QED
    BY <2>4 DEF cube, square
<1>10. Congruent(minus, 0 - 3 * x, p)
  <2>1. Congruent(p, 0, p)
    BY <1>1, CongruentSelf
  <2>2. Congruent(p - threeX, 0 - x * 3, p)
    BY <1>1, <1>5, <2>1, CongruentPlus
  <2>3. x * 3 = 3 * x
    BY <1>1
  <2> QED
    BY <1>6, <2>2, <2>3
<1>11. Congruent(sum + CurveB, x * x * x - 3 * x + CurveB, p)
  <2> DEFINE cube == x * x * x
             triple == 3 * x
  <2>1. cube \in Int /\ triple \in Int
    BY <1>1
  <2>2. Congruent(x3, cube, p) /\ Congruent(minus, 0 - triple, p)
    BY <1>9, <1>10
  <2> HIDE DEF cube, triple
  <2>3. Congruent(x3 + minus, cube + (0 - triple), p)
    BY <1>1, <1>4, <1>7, <2>1, <2>2, CongruentPlus
  <2>4. cube + (0 - triple) = cube - triple /\ cube - triple \in Int
    BY <2>1
  <2>5. Congruent(sum, cube - triple, p)
    BY <1>1, <1>4, <1>7, <1>8, <2>3, <2>4, CongruentTransitive
  <2>6. Congruent(CurveB, CurveB, p)
    BY <1>1, CongruentSelf
  <2>7. Congruent(sum + CurveB, cube - triple + CurveB, p)
    BY <1>1, <1>8, <2>4, <2>5, <2>6, CongruentPlus
  <2> QED
    BY <2>7 DEF cube, triple
<1>12. (sum + CurveB) % p = (x * x * x - 3 * x + CurveB) % p
  <2> DEFINE right == x * x * x - 3 * x + CurveB
  <2>1. right \in Int /\ sum + CurveB \in Int
    BY <1>1, <1>8
  <2>2. Congruent(sum + CurveB, right, p)
    BY <1>11
  <2> HIDE DEF right
  <2>3. (sum + CurveB) % p = right % p
    BY <1>1, <2>1, <2>2, SameRemainder
  <2> QED
    BY <2>3 DEF right
<1> QED
  BY <1>2, <1>12 DEF p

LEMMA MirrorSquare ==
    ASSUME NEW y \in 1 .. FieldPrime - 1
    PROVE  ((FieldPrime - y) * (FieldPrime - y)) % FieldPrime = (y * y) % FieldPrime
<1> DEFINE p == FieldPrime
<1>1. p \in Nat \ {0} /\ y \in Int
  BY CurveAssumption
<1> HIDE DEF p
<1>2. (p - y) * (p - y) = y * y + (p - 2 * y) * p /\ p - 2 * y \in Int
  BY <1>1
<1> DEFINE left == (p - y) * (p - y)
           right == y * y
<1>3. left \in Int /\ right \in Int
  BY <1>1
<1>4. Congruent(left, right, p)
  BY <1>2 DEF Congruent
<1> HIDE DEF left, right
<1>5. left % p = right % p
  BY <1>1, <1>3, <1>4, SameRemainder
<1> QED
  BY <1>5 DEF left, right, p

\* A key that passes the contract's checks is a key pair's, and so is its mirror.
LEMMA ValidKeyUsable ==
    ASSUME NEW x \in Word, NEW y \in Word, IsValidPubkey(x, y)
    PROVE  <<x, y>> \in PublicKeys /\ IsValidPubkey(x, FieldPrime - y)
<1>1. /\ FieldPrime \in Nat /\ WordSize \in Nat
      /\ x \in 1 .. FieldPrime - 1 /\ y \in 1 .. FieldPrime - 1
      /\ FieldPrime - y \in 1 .. FieldPrime - 1
  BY CurveAssumption DEF IsValidPubkey, IsValidPubkeyComponent, Word
<1>2. (y * y) % FieldPrime = (x * x * x - 3 * x + CurveB) % FieldPrime
  BY <1>1, EquationHolds DEF IsValidPubkey
<1>3. <<x, y>> \in PublicKeys
  BY <1>1, <1>2, GroupAssumption
<1>4. IsOnCurve(x, FieldPrime - y)
  <2> DEFINE z == FieldPrime - y
  <2>1. (z * z) % FieldPrime = (x * x * x - 3 * x + CurveB) % FieldPrime
    BY <1>1, <1>2, MirrorSquare
  <2>2. z \in 1 .. FieldPrime - 1
    BY <1>1
  <2> HIDE DEF z
  <2>3. IsOnCurve(x, z)
    BY <1>1, <2>1, <2>2, EquationHolds
  <2> QED
    BY <2>3 DEF z
<1>5. IsValidPubkeyComponent(x) /\ IsValidPubkeyComponent(FieldPrime - y)
  BY <1>1 DEF IsValidPubkeyComponent
<1> QED
  BY <1>3, <1>4, <1>5 DEF IsValidPubkey

-----------------------------------------------------------------------------
(* Signatures. *)

\* Multiply by the reciprocals: what is signed with the secret k is verified as
\* k, or as its opposite when s was replaced by its own.
LEMMA Recovered ==
    ASSUME NEW n \in Nat \ {0}, NEW e \in Int, NEW k \in Int, NEW i \in Int, NEW s \in Int,
           NEW w \in Int, NEW t \in Int,
           Congruent(s, e * i, n), Congruent(k * i, 1, n), Congruent(t * w, 1, n)
    PROVE  /\ t = s => Congruent(e * w, k, n)
           /\ t = n - s => Congruent(e * w, n - k, n)
<1> DEFINE ei == e * i
           ki == k * i
           sk == s * k
           sw == s * w
           ew == e * w
           tw == t * w
           nw == n * w
<1>1. /\ ei \in Int /\ ki \in Int /\ sk \in Int /\ sw \in Int
      /\ ew \in Int /\ tw \in Int /\ nw \in Int
  OBVIOUS
<1>2. Congruent(s, ei, n) /\ Congruent(ki, 1, n) /\ Congruent(tw, 1, n)
  OBVIOUS
<1>3. /\ ei * k = ki * e
      /\ sk * w = sw * k
      /\ 1 * e = e /\ 1 * k = k
  OBVIOUS
<1>4. /\ t = s => tw = sw
      /\ t = n - s => sw = nw - tw
  OBVIOUS
<1>5. Congruent(nw, 0, n)
  <2>1. nw = 0 + w * n
    OBVIOUS
  <2> QED
    BY <2>1 DEF Congruent
<1>6. Congruent(s, ei, n) => Congruent(sk, ei * k, n)
  BY <1>1, CongruentTimes
<1>7. \A a, b \in Int : Congruent(a, b, n) => Congruent(a * w, b * w, n)
  BY CongruentTimes
<1>8. \A a, b \in Int : Congruent(a, b, n) => Congruent(a * k, b * k, n)
  BY CongruentTimes
<1>9. \A a, b \in Int : Congruent(a, b, n) => Congruent(a * e, b * e, n)
  BY CongruentTimes
<1> DEFINE kie == ki * e
           skw == sk * w
           swk == sw * k
<1>10. kie \in Int /\ skw \in Int /\ swk \in Int
  BY <1>1
<1>11. Congruent(sk, kie, n) /\ Congruent(kie, e, n)
  BY <1>1, <1>2, <1>3, <1>6, <1>9
<1>12. Congruent(sk, e, n)
  <2> HIDE DEF sk, kie, ki
  <2> QED
    BY <1>1, <1>10, <1>11, CongruentTransitive
<1>13. Congruent(ew, swk, n)
  <2>1. Congruent(skw, ew, n)
    <3> HIDE DEF sk
    <3> QED
      BY <1>1, <1>7, <1>12
  <2>2. skw = swk
    BY <1>3
  <2> HIDE DEF skw, swk, ew
  <2> QED
    BY <1>1, <1>10, <2>1, <2>2, CongruentSymmetric
<1>14. ASSUME t = s PROVE Congruent(ew, k, n)
  <2>1. Congruent(swk, k, n)
    <3>1. Congruent(sw, 1, n)
      BY <1>2, <1>4, <1>14
    <3>2. Congruent(sw * k, 1 * k, n)
      <4> HIDE DEF sw
      <4> QED
        BY <1>1, <1>8, <3>1
    <3> QED
      BY <1>3, <3>2
  <2> HIDE DEF swk, ew
  <2> QED
    BY <1>1, <1>10, <1>13, <2>1, CongruentTransitive
<1>15. ASSUME t = n - s PROVE Congruent(ew, n - k, n)
  <2>1. Congruent(nw - tw, 0 - 1, n)
    <3> HIDE DEF nw, tw
    <3> QED
      BY <1>1, <1>2, <1>5, CongruentPlus
  <2>2. Congruent(sw, -1, n)
    BY <1>4, <1>15, <2>1
  <2>3. Congruent(swk, -k, n)
    <3>1. Congruent(sw * k, (-1) * k, n)
      <4> HIDE DEF sw
      <4> QED
        BY <1>1, <1>8, <2>2
    <3>2. (-1) * k = -k
      OBVIOUS
    <3> QED
      BY <3>1, <3>2
  <2>4. Congruent(-k, n - k, n)
    <3>1. -k = (n - k) + (-1) * n
      OBVIOUS
    <3> QED
      BY <3>1 DEF Congruent
  <2>5. -k \in Int /\ n - k \in Int
    OBVIOUS
  <2> HIDE DEF swk, ew
  <2>6. Congruent(swk, n - k, n)
    BY <1>10, <2>3, <2>4, <2>5, CongruentTransitive
  <2> QED
    BY <1>1, <1>10, <1>13, <2>5, <2>6, CongruentTransitive
<1> QED
  BY <1>14, <1>15 DEF ew

LEMMA ReciprocalWorks ==
    ASSUME NEW a \in PrivateKeys
    PROVE  /\ Reciprocal(a, OrderN) \in PrivateKeys
           /\ Congruent(a * Reciprocal(a, OrderN), 1, OrderN)
<1> DEFINE i == Reciprocal(a, OrderN)
<1>1. i \in PrivateKeys /\ (a * i) % OrderN = 1
  BY GroupAssumption DEF Reciprocal, PrivateKeys
<1>2. OrderN \in Nat \ {0} /\ a \in Int /\ i \in Int
  BY <1>1, CurveAssumption DEF PrivateKeys
<1> HIDE DEF i
<1> DEFINE e == a * i
<1>3. e \in Int /\ e % OrderN = 1
  BY <1>1, <1>2
<1> HIDE DEF e
<1>4. Congruent(1, e, OrderN)
  BY <1>2, <1>3, Remainder
<1>5. Congruent(e, 1, OrderN)
  BY <1>2, <1>3, <1>4, CongruentSymmetric
<1> QED
  BY <1>1, <1>5 DEF i, e

\* The signer's low-S form of a raw signature, under the key pair's public key.
LEMMA HonestPasses ==
    ASSUME NEW d \in PrivateKeys, NEW k \in PrivateKeys, NEW hash \in Word,
           Signs(d, hash, k), NEW x, NEW y, <<x, y>> = Multiples[d],
           NEW g, g = NormalizeS(SignRaw(d, hash, k)),
           NEW sig, sig = [len |-> 64, r |-> g.r, s |-> g.s]
    PROVE  ValidateP256Signature(hash, sig, x, y) = "ok"
<1> DEFINE n == OrderN
           r == Multiples[k][1] % n
           e == hash + r * d
           i == Reciprocal(k, n)
           s == (e * i) % n
           t == IF s > HalfOrder THEN n - s ELSE s
           w == Reciprocal(t, n)
           v == (e * w) % n
<1>1. /\ n \in Nat \ {0} /\ HalfOrder \in Nat /\ n = 2 * HalfOrder + 1
      /\ d \in Int /\ k \in 1 .. n - 1 /\ hash \in Int
      /\ Multiples[k][1] \in Nat
  BY CurveAssumption, GroupAssumption DEF PrivateKeys, Word
<1>2. r \in 0 .. n - 1
  BY <1>1
<1>3. e \in Int
  <2> HIDE DEF r
  <2>1. r * d \in Int
    BY <1>1, <1>2
  <2> QED
    BY <1>1, <2>1
<1>4. i \in Int /\ Congruent(k * i, 1, n)
  BY ReciprocalWorks DEF PrivateKeys
<1>5. SignRaw(d, hash, k) = [r |-> r, s |-> s]
  BY DEF SignRaw
<1>6. r # 0 /\ s # 0
  BY <1>5 DEF Signs
<1>7. g.r = r /\ g.s = t
  BY <1>5 DEF NormalizeS
<1> HIDE DEF r, e, i
<1>8. s \in 0 .. n - 1 /\ Congruent(s, e * i, n)
  <2> DEFINE ei == e * i
  <2>1. ei \in Int
    BY <1>3, <1>4
  <2> HIDE DEF ei
  <2>2. ei % n \in 0 .. n - 1 /\ Congruent(ei % n, ei, n)
    BY <1>1, <2>1, Remainder
  <2> QED
    BY <2>2 DEF ei
<1> HIDE DEF s
<1>9. t \in 1 .. n - 1 /\ t <= HalfOrder
  BY <1>1, <1>6, <1>8
<1>10. t = s \/ t = n - s
  OBVIOUS
<1> HIDE DEF t
<1>11. w \in Int /\ Congruent(t * w, 1, n)
  BY <1>9, ReciprocalWorks DEF PrivateKeys
<1> HIDE DEF w
<1>12. v \in 0 .. n - 1 /\ Congruent(v, e * w, n) /\ e * w \in Int
  <2> DEFINE ew == e * w
  <2>1. ew \in Int
    BY <1>3, <1>11
  <2> HIDE DEF ew
  <2>2. ew % n \in 0 .. n - 1 /\ Congruent(ew % n, ew, n)
    BY <1>1, <2>1, Remainder
  <2> QED
    BY <2>1, <2>2 DEF ew
<1> HIDE DEF v
<1>13. v = k \/ v = n - k
  <2> DEFINE ew == e * w
  <2>1. Congruent(ew, k, n) \/ Congruent(ew, n - k, n)
    <3> HIDE DEF n
    <3>1. /\ n \in Nat \ {0} /\ e \in Int /\ k \in Int /\ i \in Int
          /\ s \in Int /\ w \in Int /\ t \in Int
      BY <1>1, <1>3, <1>4, <1>8, <1>9, <1>11
    <3>2. Congruent(s, e * i, n) /\ Congruent(k * i, 1, n) /\ Congruent(t * w, 1, n)
      BY <1>4, <1>8, <1>11
    <3>3. /\ t = s => Congruent(e * w, k, n)
          /\ t = n - s => Congruent(e * w, n - k, n)
      BY ONLY <3>1, <3>2, Recovered
    <3> QED
      BY <1>10, <3>3
  <2>2. ew \in Int /\ Congruent(v, ew, n)
    BY <1>12
  <2> HIDE DEF ew, n
  <2>3. k \in Int /\ n - k \in Int /\ k \in 0 .. n - 1 /\ n - k \in 0 .. n - 1 /\ v \in Int
    BY <1>1, <1>12
  <2>4. Congruent(v, k, n) \/ Congruent(v, n - k, n)
    BY <1>1, <2>1, <2>2, <2>3, CongruentTransitive
  <2> QED
    BY <1>1, <1>12, <2>3, <2>4, CongruentEqual
<1>14. v # 0 /\ Multiples[v][1] % n = r
  <2>1. Multiples[n - k][1] = Multiples[k][1]
    BY GroupAssumption
  <2> QED
    BY <1>1, <1>13, <2>1 DEF r
<1>15. <<x, y>> \in PublicKeys /\ PrivateKeyOf(<<x, y>>) = d
  BY GroupAssumption DEF PublicKeys, PrivateKeyOf
<1>16. Rip7212(hash, r, t, x, y)
  <2>1. {r, t} \subseteq 1 .. OrderN - 1
    BY <1>1, <1>2, <1>6, <1>9
  <2>2. v = ((hash + r * PrivateKeyOf(<<x, y>>)) * Reciprocal(t, OrderN)) % OrderN
    BY <1>15 DEF v, e, w
  <2> QED
    BY <1>14, <1>15, <2>1, <2>2 DEF Rip7212
<1>17. sig.len = 64 /\ sig.r = r /\ sig.s = t
  BY <1>7
<1>18. IsValidScalar(r) /\ IsValidScalar(t) /\ IsLowS(t)
  BY <1>1, <1>2, <1>6, <1>9 DEF IsValidScalar, IsLowS
<1> QED
  BY <1>16, <1>17, <1>18 DEF ValidateP256Signature, VerifyP256Precompile

-----------------------------------------------------------------------------
(* Every owner is a valid key. *)

ValidOwner ==
    owner # NoOwner =>
        \E x, y \in Word : owner = <<x, y>> /\ IsValidPubkey(x, y)

LEMMA ValidOwnerUsable == ValidOwner => OwnerUsable
<1> SUFFICES ASSUME NEW x \in Word, NEW y \in Word, owner = <<x, y>>, IsValidPubkey(x, y)
             PROVE  owner \in PublicKeys /\ IsValidPubkey(owner[1], FieldPrime - owner[2])
  BY DEF ValidOwner, OwnerUsable
<1> QED
  BY ValidKeyUsable

LEMMA ValidOwnerInductive == ValidOwner /\ [Next]_vars => ValidOwner'
<1> SUFFICES ASSUME ValidOwner, [Next]_vars PROVE ValidOwner'
  OBVIOUS
<1>1. ASSUME NEW x \in Word, NEW y \in Word, Constructor(x, y) \/ RotateOwner(x, y)
      PROVE  ValidOwner'
  <2>1. owner' = <<x, y>> /\ IsValidPubkey(x, y)
    BY <1>1 DEF Constructor, RotateOwner, ValidateConstructorArgs, ValidateRotationRequest
  <2>2. IsValidPubkey(x, y)'
    BY <2>1 DEF IsValidPubkey, IsValidPubkeyComponent, IsOnCurve, MulMod, AddMod, Minus
  <2> QED
    BY <2>1, <2>2 DEF ValidOwner
<1>2. ASSUME UNCHANGED owner PROVE ValidOwner'
  BY <1>2 DEF ValidOwner, IsValidPubkey, IsValidPubkeyComponent, IsOnCurve, MulMod, AddMod,
              Minus
<1> QED
  BY <1>1, <1>2 DEF Next, OwnerSigns, AnyoneShows, Forget, vars

LEMMA HonestInductive == ValidOwner /\ OwnerSignaturesPass /\ [Next]_vars => OwnerSignaturesPass'
<1> SUFFICES ASSUME ValidOwner, OwnerSignaturesPass, [Next]_vars
             PROVE  OwnerSignaturesPass'
  OBVIOUS
<1>1. ASSUME NEW hash \in Hashes, NEW k \in PrivateKeys, OwnerSigns(hash, k)
      PROVE  OwnerSignaturesPass'
  <2> DEFINE d == PrivateKeyOf(owner)
             g == NormalizeS(SignRaw(d, hash, k))
             sig == [len |-> 64, r |-> g.r, s |-> g.s]
  <2>1. owner \in PublicKeys
    BY <1>1, ValidOwnerUsable DEF OwnerSigns, OwnerUsable
  <2>2. PICK x \in Word, y \in Word : owner = <<x, y>>
    BY <1>1 DEF OwnerSigns, ValidOwner
  <2>3. d \in PrivateKeys /\ Multiples[d] = <<x, y>>
    BY <2>1, <2>2 DEF PublicKeys, PrivateKeyOf
  <2>4. Signs(d, hash, k) /\ hash \in Word
    BY <1>1, CurveAssumption DEF OwnerSigns
  <2>5. msg' = Checked(hash, sig, "owner")
    BY <1>1 DEF OwnerSigns
  <2> HIDE DEF d, g
  <2>6. ValidateP256Signature(hash, sig, x, y) = "ok"
    BY <2>3, <2>4, HonestPasses DEF g
  <2>7. msg'.verdict = "ok"
    BY <2>2, <2>5, <2>6 DEF Checked
  <2> QED
    BY <2>7 DEF OwnerSignaturesPass
<1>2. ASSUME NEW hash \in Hashes, NEW sig \in Submissions, AnyoneShows(hash, sig)
      PROVE  OwnerSignaturesPass'
  BY <1>2 DEF AnyoneShows, Checked, OwnerSignaturesPass
<1>3. ASSUME msg' = msg \/ msg' = NoMsg PROVE OwnerSignaturesPass'
  BY <1>3 DEF OwnerSignaturesPass
<1> QED
  BY <1>1, <1>2, <1>3 DEF Next, Constructor, RotateOwner, Forget, vars

LEMMA ChecksInvariant == Spec => [](ValidOwner /\ OwnerSignaturesPass)
<1>1. Init => ValidOwner /\ OwnerSignaturesPass
  BY DEF Init, ValidOwner, OwnerSignaturesPass
<1> QED
  BY <1>1, ValidOwnerInductive, HonestInductive, PTL DEF Spec

\* On every curve whose points are a group of prime order: whatever key the
\* constructor or a rotation installs has a private key, and its mirror image
\* would have been admitted, too.
THEOREM OwnerAlwaysUsable == Spec => []OwnerUsable
BY ChecksInvariant, ValidOwnerUsable, PTL

\* On every such curve, what the owner signs and normalises to low-S passes the
\* contract's comparisons and the precompile, whatever the hash and the secret.
THEOREM HonestAlwaysPasses == Spec => []OwnerSignaturesPass
BY ChecksInvariant, PTL
=============================================================================
