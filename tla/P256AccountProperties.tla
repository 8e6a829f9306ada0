----------------------- MODULE P256AccountProperties -----------------------
(***************************************************************************)
(* What makes the account correct, stated over its logs: the only history  *)
(* an indexer, a client or an auditor ever sees.                           *)
(***************************************************************************)
EXTENDS P256Account

\* No authorised call of a is on the stack.
Idle(a) == ~ \E i \in DOMAIN stack : Owns(stack[i], a)

\* Where s logged operation n; the first event is OwnerInitialized.
Places(s, n) == {i \in 2 .. Len(s.log) : s.log[i].nonce = n}

\* The events account state s logged under nonce n: the outcome of operation n.
\* Logs are in nonce order, so it is a stretch of the log.
Outcome(s, n) ==
    IF Places(s, n) = {} THEN <<>>
    ELSE SubSeq(s.log, Min(Places(s, n)), Max(Places(s, n)))

\* Where s reports a call that took effect.
Succeeded(s) == {i \in DOMAIN s.log : s.log[i].type = "Executed" /\ s.log[i].success}

Genesis(s) == IF s.log = <<>> THEN NoOwner ELSE s.log[1].key

\* The operation an outcome reports.
OperationOf(outcome) ==
    CASE Last(outcome).type = "Executed" ->
            ExecuteOp(outcome[1].call)
      [] Last(outcome).type = "BatchExecuted" ->
            BatchOp([i \in DOMAIN Front(outcome) |-> outcome[i].call])
      [] Last(outcome).type = "OwnerRotated" ->
            RotateOp(outcome[1].new)

\* Operations of an account that is not in the middle of one.
LedgerOf(s) == [i \in 1 .. s.nonce |-> OperationOf(Outcome(s, i - 1))]

\* What transactions have settled: the chain as it was before the running one.
Committed == IF stack = <<>> THEN chain ELSE stack[1].saved

Ledger == INSTANCE AccountLedger WITH
    genesis <- [a \in Accounts |-> Genesis(Committed[a])],
    ledger <- [a \in Accounts |-> LedgerOf(Committed[a])]

-----------------------------------------------------------------------------
\* The guard is exact: it is latched precisely while one authorised call of
\* the account is on the stack, and there is never a second one.  A guard left
\* latched by any exit path of execute, execute_batch or rotate_owner would
\* brick the account.
GuardExact ==
    \A a \in Accounts :
        /\ chain[a].inCall <=> ~Idle(a)
        /\ \A i, j \in DOMAIN stack :
            Owns(stack[i], a) /\ Owns(stack[j], a) => i = j

\* Logs are in nonce order, as the events promise to indexers: a callee that
\* got a second operation in would log it before the first.
LogInNonceOrder ==
    \A a \in Accounts :
        LET log == chain[a].log
        IN  \A i, j \in 2 .. Len(log) : i < j => log[i].nonce <= log[j].nonce

\* awaitExecuted reports the first Executed log of the account in a receipt as
\* the outcome of the operation it sent.  That is right: from the moment an
\* operation starts, the account logs nothing but that operation's own calls, one
\* each, however its callees call back or unwind.
OwnLogFirst ==
    \A i \in DOMAIN stack :
        LET f == stack[i]
        IN  f.kind # "ext" =>
                Len(chain[f.acct].log) = Len(f.saved[f.acct].log) + f.next - 1

\* Exactly once: of an idle account, each consumed nonce left one outcome, and
\* a complete one: a single Executed, a rotation, or a whole batch, all of
\* whose calls succeeded.
Complete(out, n) ==
    /\ \A i \in DOMAIN out : out[i].nonce = n
    /\ \/ Len(out) = 1 /\ out[1].type \in {"Executed", "OwnerRotated"}
       \/ /\ Len(out) > 1
          /\ Last(out).type = "BatchExecuted"
          /\ Last(out).calls = Len(out) - 1
          /\ \A i \in DOMAIN Front(out) : out[i].type = "Executed" /\ out[i].success

EachNonceOneOutcome ==
    \A a \in Accounts :
        Idle(a) =>
            /\ \A i \in 2 .. Len(chain[a].log) : chain[a].log[i].nonce < chain[a].nonce
            /\ \A n \in 0 .. chain[a].nonce - 1 : Complete(Outcome(chain[a], n), n)

\* Every outcome was signed, for this chain, this account, this nonce and this
\* payload, by the key that owned the account when the nonce was consumed: no
\* replay on another deployment, and no use of a key after its rotation.
EveryOutcomeSigned ==
    \A a \in Accounts :
        Idle(a) =>
            LET ops == LedgerOf(chain[a])
            IN  Ledger!Authorised(a, Genesis(chain[a]), ops)

\* The logs tell the truth about the world: the calls that took effect are
\* those reported successful, in order.  A failed batch leaves no effect, a
\* failed execute none but its consumed nonce.
EffectsMatchLog ==
    \A a \in Accounts :
        Idle(a) =>
            LET log == chain[a].log
                ok == Succeeded(chain[a])
            IN  /\ Len(chain[a].delivered) = Cardinality(ok)
                /\ \A i \in ok :
                      chain[a].delivered[Cardinality({j \in ok : j <= i})] =
                          [call |-> log[i].call, nonce |-> log[i].nonce]

\* An indexer that replays OwnerInitialized and OwnerRotated knows the owner.
OwnerRebuildable ==
    \A a \in Accounts :
        Idle(a) =>
            chain[a].owner =
                Ledger!OwnerAfter(Genesis(chain[a]), LedgerOf(chain[a]), chain[a].nonce)

\* What isValidSignature accepts is a login: the account's owner was shown
\* this very challenge for this very account.  No signature made for an
\* operation passes, even for a challenge equal to the operation's digest.
LoginMeansLogin ==
    \A a \in Accounts, h \in Challenges, sig \in Signatures :
        /\ Presentable(sig)
        /\ IsValidSignature(a, chain[a].owner, h, sig)
        => [key |-> chain[a].owner, intent |-> Intent(a, LoginOp(h), 0)] \in signed

\* Between transactions the accounts are AccountLedger's ledgers, whatever
\* calls back, reverts or is replayed: settled operations stay settled, and
\* the next one is always the next nonce, signed by the owner of that moment.
LedgerImplemented == Ledger!Spec
=============================================================================
