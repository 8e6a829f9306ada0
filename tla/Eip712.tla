------------------------------- MODULE Eip712 -------------------------------
(***************************************************************************)
(* The typed digests a P-256 account accepts signatures over.              *)
(*                                                                         *)
(* keccak256 is modelled as an injective function: a hash IS the value     *)
(* that was hashed.  What stays visible is exactly what the account relies *)
(* on: which fields each digest binds (the chain, the account, the type,   *)
(* the payload, the nonce) and that the four struct types cannot be        *)
(* confused with each other.                                               *)
(*                                                                         *)
(* An intent is what the owner agreed to when the signature was made; it   *)
(* is kept apart from the digest so that a digest that binds too little    *)
(* shows as a signature used for something its owner never agreed to.      *)
(***************************************************************************)

(* Variants with a planted mistake.  Nothing uses them but the mutation    *)
(* runs, which put one in the place of the definition it varies.           *)
DomainWithoutChain(a) == [verifyingContract |-> a.addr]
RotateHashNonceOnly(a, newOwner, n) ==
    [domain |-> a, struct |-> [type |-> "RotateOwner", nonce |-> n]]
RawChallenge(a, hash) == hash

-----------------------------------------------------------------------------
\* compute_domain_separator: name and version are the same for every account.
DomainSeparator(a) == [chainId |-> a.chain, verifyingContract |-> a.addr]

\* eip712_envelope: every digest is bound to the account's domain.
Envelope(a, struct) == [domain |-> DomainSeparator(a), struct |-> struct]

\* compute_execute_hash
ExecuteHash(a, call, n) ==
    Envelope(a, [type |-> "Execute", call |-> call, nonce |-> n])

\* compute_batch_hash: the whole call array under one nonce.
BatchHash(a, calls, n) ==
    Envelope(a, [type |-> "BatchExecute", calls |-> calls, nonce |-> n])

\* compute_rotate_hash
RotateHash(a, newOwner, n) ==
    Envelope(a, [type |-> "RotateOwner", newOwner |-> newOwner, nonce |-> n])

\* compute_personal_sign_hash: an EIP-1271 challenge, wrapped.  `hash` is
\* chosen by the challenger and may itself be the digest of an operation.
PersonalSignHash(a, hash) ==
    Envelope(a, [type |-> "PersonalSign", hash |-> hash])

-----------------------------------------------------------------------------
\* Operations, and what a key holder agrees to by signing.
ExecuteOp(call) == [kind |-> "execute", call |-> call]
BatchOp(calls) == [kind |-> "batch", calls |-> calls]
RotateOp(newOwner) == [kind |-> "rotate", newOwner |-> newOwner]
LoginOp(hash) == [kind |-> "login", hash |-> hash]

\* A login carries no nonce; its intent says 0.
Intent(a, op, n) == [account |-> a, op |-> op, nonce |-> n]

\* The digest the owner's device signs for an intent.
DigestOf(intent) ==
    LET a == intent.account
        op == intent.op
    IN  CASE op.kind = "execute" -> ExecuteHash(a, op.call, intent.nonce)
          [] op.kind = "batch"   -> BatchHash(a, op.calls, intent.nonce)
          [] op.kind = "rotate"  -> RotateHash(a, op.newOwner, intent.nonce)
          [] op.kind = "login"   -> PersonalSignHash(a, op.hash)
=============================================================================
