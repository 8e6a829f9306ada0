--------------------------- MODULE AccountLedger ---------------------------
(***************************************************************************)
(* What P-256 accounts promise, with no call stack, no guard, no digests   *)
(* and no storage: each is a ledger of settled operations that only ever   *)
(* grows.  The n-th operation (counting from 0) is settled only if the key *)
(* that owned the account at that point agreed to exactly that operation,  *)
(* for exactly this account, under exactly the number n.                   *)
(***************************************************************************)
EXTENDS Naturals, Sequences, FiniteSetsExt, SequencesExt

CONSTANTS
    Accounts,    \* [chain |-> ..., addr |-> ...] records
    Keys,        \* usable public keys
    NoOwner      \* the genesis key of an account that is not deployed yet

VARIABLES
    genesis,     \* genesis[a]: the key given to the constructor
    ledger,      \* ledger[a]: the settled operations, in order
    signed       \* what key holders agreed to: [key, intent] pairs

\* The key in charge after the first n operations.
OwnerAfter(key, ops, n) ==
    LET rotations == {i \in 1 .. n : ops[i].kind = "rotate"}
    IN  IF rotations = {} THEN key ELSE ops[Max(rotations)].newOwner

Authorised(a, key, ops) ==
    \A i \in DOMAIN ops :
        [key |-> OwnerAfter(key, ops, i - 1),
         intent |-> [account |-> a, op |-> ops[i], nonce |-> i - 1]] \in signed

Init ==
    /\ genesis = [a \in Accounts |-> NoOwner]
    /\ ledger = [a \in Accounts |-> <<>>]
    /\ signed = {}

\* Somebody signs something.
Sign ==
    /\ signed \subseteq signed'
    /\ UNCHANGED <<genesis, ledger>>

\* A transaction deploys accounts, settles operations of accounts, or both.
Settle ==
    /\ \A a \in Accounts :
        /\ \/ genesis'[a] = genesis[a]
           \/ genesis[a] = NoOwner /\ genesis'[a] \in Keys
        /\ IsPrefix(ledger[a], ledger'[a])
        /\ Authorised(a, genesis'[a], ledger'[a])
    /\ UNCHANGED signed

Next == Sign \/ Settle

Spec == Init /\ [][Next]_<<genesis, ledger, signed>>
=============================================================================
