------------------------- MODULE RelayerProperties -------------------------
(***************************************************************************)
(* What the relayer owes its operator (never to spend more than the policy *)
(* says, never to lose a transaction to itself) and its clients (an        *)
(* answer, and a true one).                                                *)
(***************************************************************************)
EXTENDS Relayer

\* r holds a reservation: this process admitted it and did not release it.
Reserved(r) ==
    /\ r \notin forgotten
    /\ pc[r] \in {"queued", "signing", "receipt"} \/ (pc[r] = "done" /\ answer[r] = "hash")

ReservedFor(a) == {r \in Requests : Reserved(r) /\ req[r].account = a}

\* The reservations of S made in the window that starts at t.
Window(S, t) == {r \in S : spend[r].at \in t .. t + WindowMs}

\* What r has cost, or may still cost.
Charge(r) ==
    IF r \in Mined THEN bill[r].wei
    ELSE IF r \in pool \/ pc[r] \in {"queued", "signing"} THEN gas[r] * price[r]
    ELSE 0

\* Every request that ever passed this process's admit.
Admitted == {r \in Requests : price[r] # 0} \ forgotten

TypeOK ==
    /\ SpendTypeOK
    /\ pc \in [Requests -> {"idle", "nonce", "estimate", "price", "queued",
                            "signing", "receipt", "done"}]
    /\ req \in [Requests -> [account : Accounts \cup {NoRequest.account}, nonce : Nat]]
    /\ answer \in [Requests -> {"none", "hash", "refused", "failed", "cut"}]
    /\ gas \in [Requests -> Nat]
    /\ price \in [Requests -> Nat]
    /\ queue \in Seq(Requests)
    /\ forgotten \in SUBSET Requests
    /\ restarts \in Nat
    /\ txNonce \in [Requests -> Nat]
    /\ pool \in SUBSET Requests
    /\ mined \in Seq(Requests)
    /\ dropped \in SUBSET Requests
    /\ accountNonce \in [Accounts -> Nat]
    /\ bill \in [Requests -> Spend]

-----------------------------------------------------------------------------
\* The books are exact: whatever handlers interleave, both lists hold just the
\* live reservations of the window, each under its own account.
BooksExact ==
    /\ \A a \in Accounts : Prune(perAccount[a]) = Prune(ReservedFor(a))
    /\ Prune(global) = Prune({r \in Requests : Reserved(r)})

\* "Max requests per account within windowMs", for any window, not only the one
\* that ends now: no interleaving of handlers gets an extra request in.
RateLimited ==
    \A a \in Accounts, t \in 0 .. MaxTime :
        Cardinality(Window(ReservedFor(a), t)) <= PerAccountRequests

\* The requests admitted in any window cost at most the budgets, per account and
\* in all, counting what is mined at its real cost and what may yet be mined at
\* the most it can cost.  Holds while prices do not rise and no reply is lost.
SpendingBounded ==
    \A t \in 0 .. MaxTime :
        LET cost(S) == SumFunctionOnSet([r \in Requests |-> Charge(r)], Window(S, t))
        IN  /\ cost(Admitted) <= GlobalBudgetWei
            /\ \A a \in Accounts :
                cost({r \in Admitted : req[r].account = a}) <= PerAccountBudgetWei

\* The relayer never replaces its own transaction: one whose hash a client was
\* given is with the node, mined, or was dropped by the node itself.
NothingReplaced ==
    \A r \in Requests : answer[r] = "hash" => r \in pool \cup Mined \cup dropped

\* Every request is answered, also those queued behind one that failed.
EveryRequestAnswered ==
    \A r \in Requests : pc[r] # "idle" ~> answer[r] # "none"

-----------------------------------------------------------------------------
\* The comment where a failed broadcast releases its reservation: "Nothing was
\* broadcast".  What was answered 500 never reaches the chain.
FailureMeansNotBroadcast ==
    \A r \in Requests : answer[r] = "failed" => r \notin pool \cup Mined
=============================================================================
