---------------------------- MODULE P256Account ----------------------------
(***************************************************************************)
(* The smart account contract (contracts/stylus/p256-account/src/lib.rs),  *)
(* deployed any number of times, together with the EVM call stack it runs  *)
(* on.                                                                     *)
(*                                                                         *)
(* A transaction is a stack of call frames.  "ext" frames run code that is *)
(* not the account's: the transaction's sender, or a contract the account  *)
(* calls.  Such code may call any entry point of any account of the same   *)
(* chain, with any signature the key holders ever produced, and may revert *)
(* at any point.  An account frame is one `execute` or `execute_batch`     *)
(* waiting for its next inner call.  Every frame remembers the chain state *)
(* at the moment it was entered: a frame that fails restores it, which is  *)
(* how the EVM unwinds storage, logs and nested calls.                     *)
(*                                                                         *)
(* A rejected request (a guard below that does not hold) makes the entry   *)
(* point return Err: its frame unwinds and nothing has changed, so a       *)
(* rejection is not a step.                                                *)
(***************************************************************************)
EXTENDS Eip712, Naturals, Sequences, SequencesExt, FiniteSets

CONSTANTS
    Chains, Addrs,     \* where accounts may be deployed
    Keys,              \* P-256 public keys somebody holds the private key of
    BadPoints,         \* pairs (x, y) out of range or off the curve
    NoOwner,           \* the owner slots before the constructor ran
    Calls,             \* inner calls, [to |-> "ext" or "self", data |-> ...]
    Batches,           \* call arrays submitted to execute_batch
    Challenges,        \* hashes a dApp asks the owner to sign (EIP-1271)
    MaxBatchCalls,     \* MAX_BATCH_CALLS, 32 in the code
    MaxNonce,          \* bound: operations per account
    MaxDepth,          \* bound: frames on the call stack
    MaxSigned          \* bound: signatures ever produced

Accounts == [chain : Chains, addr : Addrs]

ASSUME ConstantsAssumption ==
    /\ NoOwner \notin Keys
    /\ Keys \cap BadPoints = {}
    /\ \A c \in Calls : c.to \in {"ext", "self"}
    /\ Batches \subseteq Seq(Calls)
    /\ MaxBatchCalls \in Nat
    /\ MaxNonce \in Nat
    /\ MaxDepth \in Nat
    /\ MaxSigned \in Nat

VARIABLES
    chain,    \* chain[a]: the storage of account a, its logs, and the calls
              \* it made that took effect
    stack,    \* the call frames of the running transaction, <<>> between two
    signed    \* the signatures produced so far, as [key, intent] pairs

vars == <<chain, stack, signed>>

-----------------------------------------------------------------------------
(* The state of one account. *)

Events ==
    [type : {"OwnerInitialized"}, key : Keys]
        \cup [type : {"Executed"}, call : Calls, nonce : Nat, success : BOOLEAN]
        \cup [type : {"BatchExecuted"}, calls : Nat, nonce : Nat]
        \cup [type : {"OwnerRotated"}, prev : Keys, new : Keys, nonce : Nat]

AccountState ==
    [owner : Keys \cup {NoOwner}, nonce : Nat, inCall : BOOLEAN,
     log : Seq(Events), delivered : Seq([call : Calls, nonce : Nat])]

FreshAccount ==
    [owner |-> NoOwner, nonce |-> 0, inCall |-> FALSE,
     log |-> <<>>, delivered |-> <<>>]

Emit(s, event) == [s EXCEPT !.log = Append(@, event)]

(* Variants with a planted mistake.  Nothing uses them but the mutation    *)
(* runs, which put one in the place of the definition it varies.           *)
AnyPoint(p) == TRUE
UnlockedAlways(s) == TRUE
BeginKeepingNonce(s, n) == [s EXCEPT !.inCall = TRUE]
ExitForgotten(s) == s
RotationSwapped(prev, new, n) ==
    [type |-> "OwnerRotated", prev |-> new, new |-> prev, nonce |-> n]
RevertTakenForSuccess(result) == TRUE
BatchFailureKept(f, w) == w

-----------------------------------------------------------------------------
(* The pieces the entry points share. *)

\* enter: refuse while an authorised call is on the stack.
Unlocked(s) == ~s.inCall

\* enter has latched the guard and the nonce is set to current_nonce + 1.
Begin(s, n) == [s EXCEPT !.inCall = TRUE, !.nonce = n + 1]

\* exit: release the guard.
Exit(s) == [s EXCEPT !.inCall = FALSE]

OwnerRotated(prev, new, n) ==
    [type |-> "OwnerRotated", prev |-> prev, new |-> new, nonce |-> n]

\* execute_outcome: a callee that reverted is a failed call, not an error.
ExecuteOutcome(result) == result = "ok"

\* BatchCallFailed is an error: the frame unwinds to what it found on entry,
\* w being what it would have left.
BatchCallFailed(f, w) == f.saved

-----------------------------------------------------------------------------
(* Signatures. *)

\* "strict" is a 64-byte signature with both scalars in range and s in the
\* low half; the others fail one of the checks before the precompile.
SigForms == {"strict", "badLength", "badR", "badS", "highS"}

Signatures ==
    [form : SigForms, key : Keys, digest : {DigestOf(s.intent) : s \in signed}]

\* RIP-7212: the signature verifies for the key and digest it was made with.
PrecompileVerifies(sig, digest, owner) ==
    sig.key = owner /\ sig.digest = digest

\* validate_p256_signature
ValidSignature(sig, digest, owner) ==
    /\ sig.form = "strict"
    /\ PrecompileVerifies(sig, digest, owner)

\* is_valid_signature, for an account owned by `owner`: EIP-1271 callers hand in
\* any hash, and it is checked wrapped, never raw.
IsValidSignature(a, owner, hash, sig) ==
    ValidSignature(sig, PersonalSignHash(a, hash), owner)

\* Whoever saw a signature can present it, as it is or re-encoded.
Presentable(sig) ==
    \E s \in signed : s.key = sig.key /\ DigestOf(s.intent) = sig.digest

\* is_valid_pubkey: in range and on the curve.
IsValidPubkey(p) == p \in Keys

\* validate_batch_shape (the parallel arrays are one sequence here)
ValidBatchShape(calls) == Len(calls) # 0 /\ Len(calls) <= MaxBatchCalls

\* validate_authorised_hash: the nonce, then the current owner's signature.
ValidateAuthorisedHash(s, digest, n, sig) ==
    /\ s.nonce = n
    /\ ValidSignature(sig, digest, s.owner)

\* What execute, execute_batch and rotate_owner all start with: the guard, then
\* the nonce and the signature over this operation's digest.
Accepts(s, digest, n, sig) ==
    /\ Unlocked(s)
    /\ ValidateAuthorisedHash(s, digest, n, sig)

-----------------------------------------------------------------------------
(* The call stack. *)

Top == Last(stack)

ExtFrame(c, saved) == [kind |-> "ext", chainId |-> c, saved |-> saved]

AccountFrame(kind, a, calls, n, saved) ==
    [kind |-> kind, acct |-> a, calls |-> calls, nonce |-> n, next |-> 1,
     saved |-> saved]

InExt == stack # <<>> /\ Top.kind = "ext"
InAccount == stack # <<>> /\ Top.kind # "ext"

\* External code is running on a's chain, so it can call a.
CanCall(a) == InExt /\ Top.chainId = a.chain

Owns(frame, a) == frame.kind # "ext" /\ frame.acct = a

-----------------------------------------------------------------------------
Init ==
    /\ chain = [a \in Accounts |-> FreshAccount]
    /\ stack = <<>>
    /\ signed = {}

\* A key holder signs.  A transaction runs atomically with respect to anything
\* off-chain, so signatures appear between transactions.
Sign(k, intent) ==
    /\ stack = <<>>
    /\ Cardinality(signed) < MaxSigned
    /\ [key |-> k, intent |-> intent] \notin signed
    /\ signed' = signed \cup {[key |-> k, intent |-> intent]}
    /\ UNCHANGED <<chain, stack>>

\* Anyone sends a transaction on chain c.
BeginTx(c) ==
    /\ stack = <<>>
    /\ stack' = <<ExtFrame(c, chain)>>
    /\ UNCHANGED <<chain, signed>>

EndTx ==
    /\ InExt
    /\ Len(stack) = 1
    /\ stack' = <<>>
    /\ UNCHANGED <<chain, signed>>

AbortTx ==
    /\ InExt
    /\ Len(stack) = 1
    /\ stack' = <<>>
    /\ chain' = Top.saved
    /\ UNCHANGED signed

\* constructor: once per deployed instance, with a usable key.
Constructor(a, p) ==
    /\ CanCall(a)
    /\ chain[a].owner = NoOwner
    /\ IsValidPubkey(p)
    /\ chain' = [chain EXCEPT ![a] =
            Emit([@ EXCEPT !.owner = p], [type |-> "OwnerInitialized", key |-> p])]
    /\ UNCHANGED <<stack, signed>>

\* execute, up to its external call: the guard is latched and the nonce is
\* consumed before the call is made.
Execute(a, call, n, sig) ==
    /\ CanCall(a)
    /\ Len(stack) < MaxDepth
    /\ n < MaxNonce
    /\ Accepts(chain[a], ExecuteHash(a, call, n), n, sig)
    /\ chain' = [chain EXCEPT ![a] = Begin(@, n)]
    /\ stack' = Append(stack, AccountFrame("execute", a, <<call>>, n, chain))
    /\ UNCHANGED signed

\* execute_batch, up to its first external call.
ExecuteBatch(a, calls, n, sig) ==
    /\ CanCall(a)
    /\ Len(stack) < MaxDepth
    /\ n < MaxNonce
    /\ ValidBatchShape(calls)
    /\ Accepts(chain[a], BatchHash(a, calls, n), n, sig)
    /\ chain' = [chain EXCEPT ![a] = Begin(@, n)]
    /\ stack' = Append(stack, AccountFrame("batch", a, calls, n, chain))
    /\ UNCHANGED signed

\* rotate_owner: no external call, so the whole handler is one step.
RotateOwner(a, p, n, sig) ==
    /\ CanCall(a)
    /\ n < MaxNonce
    /\ IsValidPubkey(p)
    /\ Accepts(chain[a], RotateHash(a, p, n), n, sig)
    /\ chain' = [chain EXCEPT ![a] =
            Exit(Emit([Begin(@, n) EXCEPT !.owner = p], OwnerRotated(@.owner, p, n)))]
    /\ UNCHANGED <<stack, signed>>

-----------------------------------------------------------------------------
(* Inner calls. *)

\* What the chain looks like while the callee of account a's call runs.
Deliver(w, a, call, n) ==
    [w EXCEPT ![a].delivered = Append(@, [call |-> call, nonce |-> n])]

\* The handler's code after call::call came back with `result`, w being the
\* chain as the callee left it: log the outcome, then finish, go on with the
\* next call of the batch, or fail the batch.
Resume(frames, w, result) ==
    LET f == Last(frames)
        a == f.acct
        success == ExecuteOutcome(result)
        executed == [type |-> "Executed", call |-> f.calls[f.next],
                     nonce |-> f.nonce, success |-> success]
        batchExecuted == [type |-> "BatchExecuted", calls |-> Len(f.calls),
                          nonce |-> f.nonce]
        logged == Emit(w[a], executed)
    IN  \/ /\ f.kind = "execute"
           /\ chain' = [w EXCEPT ![a] = Exit(logged)]
           /\ stack' = Front(frames)
        \/ /\ f.kind = "batch"
           /\ ~success
           /\ chain' = BatchCallFailed(f, [w EXCEPT ![a] = Exit(logged)])
           /\ stack' = Front(frames)
        \/ /\ f.kind = "batch"
           /\ success
           /\ f.next < Len(f.calls)
           /\ chain' = [w EXCEPT ![a] = logged]
           /\ stack' = Append(Front(frames), [f EXCEPT !.next = @ + 1])
        \/ /\ f.kind = "batch"
           /\ success
           /\ f.next = Len(f.calls)
           /\ chain' = [w EXCEPT ![a] = Exit(Emit(logged, batchExecuted))]
           /\ stack' = Front(frames)

\* The next call goes to another contract: its code runs, on top.
CallExternal ==
    /\ InAccount
    /\ Len(stack) < MaxDepth
    /\ LET call == Top.calls[Top.next]
       IN  /\ call.to = "ext"
           /\ chain' = Deliver(chain, Top.acct, call, Top.nonce)
    /\ stack' = Append(stack, ExtFrame(Top.acct.chain, chain))
    /\ UNCHANGED signed

\* What an account does when it is called with this calldata: empty calldata
\* reaches receive(), a view or a token hook answers, an unknown selector
\* reaches fallback(), and an authorised entry point stops at the guard.
SelfCallAccepted(s, data) ==
    CASE data \in {"empty", "view"} -> TRUE
      [] data = "unknown" -> FALSE
      [] data = "authorised" -> ~s.inCall

\* The next call goes to the account itself.  It can also fail for want of
\* balance or because it sends value to an entry point that is not payable.
CallSelf ==
    /\ InAccount
    /\ LET call == Top.calls[Top.next]
       IN  /\ call.to = "self"
           /\ \/ /\ SelfCallAccepted(chain[Top.acct], call.data)
                 /\ Resume(stack, Deliver(chain, Top.acct, call, Top.nonce), "ok")
              \/ Resume(stack, chain, "revert")
    /\ UNCHANGED signed

\* A callee returns to the account that called it.
CalleeReturns ==
    /\ InExt
    /\ Len(stack) > 1
    /\ Resume(Front(stack), chain, "ok")
    /\ UNCHANGED signed

\* A callee reverts, or the call could not be made: what it did is undone.
CalleeReverts ==
    /\ InExt
    /\ Len(stack) > 1
    /\ Resume(Front(stack), Top.saved, "revert")
    /\ UNCHANGED signed

\* The account's own frame runs out of gas: the caller sees a failed call.
AccountTraps ==
    /\ InAccount
    /\ chain' = Top.saved
    /\ stack' = Front(stack)
    /\ UNCHANGED signed

-----------------------------------------------------------------------------
\* What a key holder may be asked to sign: any operation, or a challenge that
\* is a random hash or, from a hostile dApp, the digest of an operation.
Operations ==
    {ExecuteOp(call) : call \in Calls}
        \cup {BatchOp(calls) : calls \in Batches}
        \cup {RotateOp(p) : p \in Keys \cup BadPoints}

Intents ==
    {Intent(a, op, n) : a \in Accounts, op \in Operations, n \in 0 .. MaxNonce - 1}
        \cup {Intent(a, LoginOp(h), 0) : a \in Accounts, h \in Challenges}

Next ==
    \/ \E k \in Keys, intent \in Intents : Sign(k, intent)
    \/ \E c \in Chains : BeginTx(c)
    \/ EndTx
    \/ AbortTx
    \/ \E a \in Accounts, p \in Keys \cup BadPoints : Constructor(a, p)
    \/ \E a \in Accounts, n \in 0 .. MaxNonce - 1, sig \in Signatures :
          /\ Presentable(sig)
          /\ \/ \E call \in Calls : Execute(a, call, n, sig)
             \/ \E calls \in Batches : ExecuteBatch(a, calls, n, sig)
             \/ \E p \in Keys \cup BadPoints : RotateOwner(a, p, n, sig)
    \/ CallExternal
    \/ CallSelf
    \/ CalleeReturns
    \/ CalleeReverts
    \/ AccountTraps

Spec == Init /\ [][Next]_vars

-----------------------------------------------------------------------------
ChainState == [Accounts -> AccountState]

Frames ==
    [kind : {"ext"}, chainId : Chains, saved : ChainState]
        \cup [kind : {"execute", "batch"}, acct : Accounts, calls : Seq(Calls),
              nonce : Nat, next : Nat, saved : ChainState]

\* Storage, logs, frames and signatures are well formed; in particular the
\* owner of a deployed account is a usable key, so the account is not bricked.
TypeOK ==
    /\ chain \in ChainState
    /\ stack \in Seq(Frames)
    /\ signed \subseteq [key : Keys, intent : Intents]
=============================================================================
