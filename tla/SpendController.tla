-------------------------- MODULE SpendController --------------------------
(***************************************************************************)
(* The relayer's spend and rate control                                    *)
(* (sdk/tooling/src/relayer/guard.ts).  A reservation is an object that    *)
(* sits in two lists, its account's and the global one; the lists are      *)
(* pruned only when they are rewritten, so either may hold reservations    *)
(* older than the window.  Order in a list means nothing, so a list is the *)
(* set of its reservations, and a reservation is named by the request that *)
(* made it.                                                                *)
(***************************************************************************)
EXTENDS Naturals, FiniteSets, Functions

CONSTANTS
    Accounts,            \* accounts that requests are for
    Requests,            \* requests ever posted: each reserves at most once
    Allowlist,           \* policy.allowlist
    PerAccountBudgetWei,
    GlobalBudgetWei,
    PerAccountRequests,
    WindowMs,
    MaxTime              \* bound: the clock stops here

ASSUME PolicyAssumption ==
    /\ IsFiniteSet(Requests)
    /\ Allowlist \subseteq Accounts
    /\ PerAccountBudgetWei \in Nat
    /\ GlobalBudgetWei \in Nat
    /\ PerAccountRequests \in Nat
    /\ WindowMs \in Nat
    /\ MaxTime \in Nat

VARIABLES
    now,          \* the relayer's clock
    perAccount,   \* perAccount[a]: account a's list
    global,       \* the list of all accounts
    spend         \* spend[r]: the reservation made by r, shared by both lists

spendVars == <<now, perAccount, global, spend>>

Spend == [at : Nat, wei : Nat]

(* Variants with a planted mistake.  Nothing uses them but the mutation    *)
(* runs, which put one in the place of the definition it varies.           *)
PruneTooEarly(list) == {r \in list : spend[r].at + WindowMs > now}
ReleaseFromAccountOnly(a, r) ==
    /\ perAccount' = [perAccount EXCEPT ![a] = @ \ {r}]
    /\ UNCHANGED <<now, global, spend>>
SettleForgetsWhen(r, actualWei) ==
    /\ spend' = [spend EXCEPT ![r] = [wei |-> actualWei]]
    /\ UNCHANGED <<now, perAccount, global>>

-----------------------------------------------------------------------------
\* prune: the reservations of a list that are still in the window.
Prune(list) == {r \in list : spend[r].at + WindowMs >= now}

Total(list) == SumFunctionOnSet([r \in Requests |-> spend[r].wei], list)

\* A variant with a planted mistake, as above: the budgets are compared with what
\* is booked already, and the estimate at hand is left out.
AdmissibleOnPastSpend(a, wei) ==
    /\ a \in Allowlist
    /\ Cardinality(Prune(perAccount[a])) < PerAccountRequests
    /\ Total(Prune(perAccount[a])) <= PerAccountBudgetWei
    /\ Total(Prune(global)) <= GlobalBudgetWei

\* admit's checks.  Which one failed decides the status code, nothing else.
Admissible(a, wei) ==
    /\ a \in Allowlist
    /\ Cardinality(Prune(perAccount[a])) < PerAccountRequests
    /\ Total(Prune(perAccount[a])) + wei <= PerAccountBudgetWei
    /\ Total(Prune(global)) + wei <= GlobalBudgetWei

\* admit, when it says yes: check and reservation are one synchronous step.
\* Saying no changes nothing.
Admit(r, a, wei) ==
    /\ Admissible(a, wei)
    /\ spend' = [spend EXCEPT ![r] = [at |-> now, wei |-> wei]]
    /\ perAccount' = [perAccount EXCEPT ![a] = Prune(@) \cup {r}]
    /\ global' = Prune(global) \cup {r}
    /\ UNCHANGED now

\* settle: both lists hold the object, so both see the new amount.
Settle(r, actualWei) ==
    /\ spend' = [spend EXCEPT ![r].wei = actualWei]
    /\ UNCHANGED <<now, perAccount, global>>

\* release: out of both lists.
Release(a, r) ==
    /\ perAccount' = [perAccount EXCEPT ![a] = @ \ {r}]
    /\ global' = global \ {r}
    /\ UNCHANGED <<now, spend>>

\* A new SpendController starts with empty lists.
Forget ==
    /\ perAccount' = [a \in Accounts |-> {}]
    /\ global' = {}
    /\ UNCHANGED <<now, spend>>

\* Date.now() moves on, and is taken never to step back.
Tick ==
    /\ now < MaxTime
    /\ now' = now + 1
    /\ UNCHANGED <<perAccount, global, spend>>

SpendInit ==
    /\ now = 0
    /\ perAccount = [a \in Accounts |-> {}]
    /\ global = {}
    /\ spend = [r \in Requests |-> [at |-> 0, wei |-> 0]]

SpendTypeOK ==
    /\ now \in Nat
    /\ perAccount \in [Accounts -> SUBSET Requests]
    /\ global \in SUBSET Requests
    /\ spend \in [Requests -> Spend]
=============================================================================
