----------------------------- MODULE P256Checks -----------------------------
(***************************************************************************)
(* The arithmetic between the account and the RIP-7212 precompile: which   *)
(* public keys the account takes for an owner and which pairs of words it  *)
(* takes for a signature.  P256Account treats a signature as "strict" or   *)
(* not and a key as good or bad; here are the comparisons behind that.     *)
(*                                                                         *)
(* An owner is installed by the constructor or by a rotation.  Holders of  *)
(* private keys sign hashes, as the SDKs and the devnode harness do, and   *)
(* anyone may present any pair of words as a signature over a hash that    *)
(* was signed.                                                             *)
(***************************************************************************)
EXTENDS SmallCurve

CONSTANTS
    HalfOrder,    \* P256_HALF_ORDER
    Hashes,       \* the digests that get signed
    NoOwner, NoMsg,
    MaxNonce      \* bound: rotations

ASSUME CurveAssumption ==
    /\ OrderN \in Nat \ {0}
    /\ HalfOrder \in Nat
    /\ OrderN = 2 * HalfOrder + 1
    /\ WordSize \in Nat
    /\ OrderN < WordSize
    /\ FieldPrime \in Nat
    /\ FieldPrime < WordSize
    /\ Hashes \subseteq Word

VARIABLES
    owner,    \* <<owner_x, owner_y>>
    nonce,
    msg       \* the signature being checked: over which hash, for which key, by
              \* whom, and what came out; or NoMsg

vars == <<owner, nonce, msg>>

-----------------------------------------------------------------------------
(* Variants with a planted mistake, for the mutation runs. *)
LowSExcludingHalf(s) == s # 0 /\ s < HalfOrder
LowSIncludingNext(s) == s # 0 /\ s <= HalfOrder + 1
RangeOnly(x, y) == TRUE

-----------------------------------------------------------------------------
(* 256-bit words. *)

Minus(a, b) == (a - b) % WordSize
MulMod(a, b, m) == (a * b) % m
AddMod(a, b, m) == (a + b) % m

-----------------------------------------------------------------------------
(* Public keys. *)

IsValidPubkeyComponent(c) == c # 0 /\ c < FieldPrime

IsOnCurve(x, y) ==
    LET x3 == MulMod(MulMod(x, x, FieldPrime), x, FieldPrime)
        threeX == MulMod(x, 3, FieldPrime)
    IN  MulMod(y, y, FieldPrime)
          = AddMod(AddMod(x3, Minus(FieldPrime, threeX), FieldPrime), CurveB, FieldPrime)

IsValidPubkey(x, y) ==
    IsValidPubkeyComponent(x) /\ IsValidPubkeyComponent(y) /\ IsOnCurve(x, y)

ValidateConstructorArgs(x, y) == IF IsValidPubkey(x, y) THEN "ok" ELSE "InvalidPublicKey"

-----------------------------------------------------------------------------
(* Signatures. *)

\* verify_p256_precompile: any answer but the word 1 is a failed verification.
VerifyP256Precompile(hash, r, s, x, y) == Rip7212(hash, r, s, x, y)

IsLowS(s) == s # 0 /\ s <= HalfOrder
IsValidScalar(c) == c # 0 /\ c < OrderN

\* The first check that fails names the error.
ValidateP256Signature(hash, sig, x, y) ==
    IF sig.len # 64 THEN "InvalidSignatureLength"
    ELSE IF ~IsValidScalar(sig.r) THEN "InvalidR"
    ELSE IF ~IsValidScalar(sig.s) THEN "InvalidS"
    ELSE IF ~IsLowS(sig.s) THEN "HighS"
    ELSE IF ~VerifyP256Precompile(hash, sig.r, sig.s, x, y) THEN "InvalidSignature"
    ELSE "ok"

\* The nonce, then the new key, then the signature of the current owner.
ValidateRotationRequest(current, n, x, y, hash, sig) ==
    IF current # n THEN "NonceMismatch"
    ELSE IF ~IsValidPubkey(x, y) THEN "InvalidPublicKey"
    ELSE ValidateP256Signature(hash, sig, owner[1], owner[2])

-----------------------------------------------------------------------------
\* Keypair::sign: a raw signature with the larger scalar replaced.
NormalizeS(g) == IF g.s > HalfOrder THEN [g EXCEPT !.s = OrderN - @] ELSE g

Checked(hash, sig, by) ==
    [hash |-> hash, sig |-> sig, key |-> owner, by |-> by,
     verdict |-> ValidateP256Signature(hash, sig, owner[1], owner[2])]

Init ==
    /\ owner = NoOwner
    /\ nonce = 0
    /\ msg = NoMsg

Constructor(x, y) ==
    /\ owner = NoOwner
    /\ ValidateConstructorArgs(x, y) = "ok"
    /\ owner' = <<x, y>>
    /\ UNCHANGED <<nonce, msg>>

\* The owner signs a hash, k being the signature's secret.
OwnerSigns(hash, k) ==
    /\ owner # NoOwner
    /\ msg = NoMsg
    /\ LET d == PrivateKeyOf(owner)
           g == NormalizeS(SignRaw(d, hash, k))
       IN  /\ Signs(d, hash, k)
           /\ msg' = Checked(hash, [len |-> 64, r |-> g.r, s |-> g.s], "owner")
    /\ UNCHANGED <<owner, nonce>>

\* Anyone presents two words, or another number of bytes.
AnyoneShows(hash, sig) ==
    /\ owner # NoOwner
    /\ msg = NoMsg
    /\ msg' = Checked(hash, sig, "anyone")
    /\ UNCHANGED <<owner, nonce>>

\* rotate_owner, msg.hash being the digest of this rotation.
RotateOwner(x, y) ==
    /\ msg # NoMsg
    /\ msg.by = "owner"
    /\ nonce < MaxNonce
    /\ ValidateRotationRequest(nonce, nonce, x, y, msg.hash, msg.sig) = "ok"
    /\ owner' = <<x, y>>
    /\ nonce' = nonce + 1
    /\ msg' = NoMsg

Forget ==
    /\ msg # NoMsg
    /\ msg' = NoMsg
    /\ UNCHANGED <<owner, nonce>>

Submissions == [len : {64}, r : Word, s : Word] \cup [len : {63}, r : {1}, s : {1}]

Next ==
    \/ \E x, y \in Word : Constructor(x, y) \/ RotateOwner(x, y)
    \/ \E hash \in Hashes, k \in PrivateKeys : OwnerSigns(hash, k)
    \/ \E hash \in Hashes, sig \in Submissions : AnyoneShows(hash, sig)
    \/ Forget

Spec == Init /\ [][Next]_vars

-----------------------------------------------------------------------------
\* Whatever was installed as the owner, by the constructor or by a rotation, is
\* a key somebody can hold the private key of (the check of the range and of the
\* curve equation admits nothing else), and its mirror image is admitted, too.
OwnerUsable ==
    owner # NoOwner =>
        /\ owner \in PublicKeys
        /\ IsValidPubkey(owner[1], FieldPrime - owner[2])

\* What an owner signs and normalises is always accepted: no honest signature
\* falls to a comparison that is off by one, at s = n/2 least of all.
OwnerSignaturesPass ==
    msg # NoMsg /\ msg.by = "owner" => msg.verdict = "ok"

\* Words that stand for the same signature: congruent scalars, or the other s.
SameSignature(g, h) ==
    /\ g.r % OrderN = h.r % OrderN
    /\ (g.s % OrderN = h.s % OrderN \/ g.s % OrderN = (OrderN - h.s) % OrderN)

\* An accepted signature has no other encoding that is accepted for the same
\* hash and key: not n - s, and not a scalar plus n.
OneEncoding ==
    msg # NoMsg /\ msg.verdict = "ok" =>
        \A r, s \in Word :
            LET sig == [len |-> 64, r |-> r, s |-> s]
            IN  /\ SameSignature(sig, msg.sig)
                /\ ValidateP256Signature(msg.hash, sig, msg.key[1], msg.key[2]) = "ok"
                => r = msg.sig.r /\ s = msg.sig.s
=============================================================================
