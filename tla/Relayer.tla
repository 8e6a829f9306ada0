------------------------------ MODULE Relayer ------------------------------
(***************************************************************************)
(* The reference relayer (sdk/tooling/src/relayer/server.ts): one          *)
(* JavaScript process that handles any number of POST /relay at once.      *)
(* Between two awaits a handler runs alone; at each await any other        *)
(* handler, the clock and the chain may move.  So a handler is a sequence  *)
(* of steps, pc[r] saying which await request r is at:                     *)
(*                                                                         *)
(*   nonce, estimate, price   the three reads it makes before it commits   *)
(*   queued                   waiting for its turn to broadcast            *)
(*   signing                  in sendTransaction                           *)
(*   receipt                  answered, waiting to settle its reservation  *)
(*                                                                         *)
(* The chain is what the relayer sees of it: the nonces of the accounts,   *)
(* and the transactions of the relayer's own EOA.                          *)
(***************************************************************************)
EXTENDS SpendController, Sequences, SequencesExt

CONSTANTS
    GasUses,       \* gas an execution may take
    MaxGas,        \* MAX_GAS
    Prices,        \* gas prices the chain may quote, 0 among them
    MaxNonce,      \* bound: nonces of accounts
    MaxRestarts,   \* bound: restarts of the process
    LostReplies,   \* TRUE: a broadcast may succeed and its reply get lost
    PriceRises     \* TRUE: a transaction may cost more per gas than quoted

ASSUME RelayerAssumption ==
    /\ GasUses \subseteq Nat
    /\ MaxGas \in Nat
    /\ Prices \subseteq Nat
    /\ MaxNonce \in Nat
    /\ MaxRestarts \in Nat
    /\ LostReplies \in BOOLEAN
    /\ PriceRises \in BOOLEAN

VARIABLES
    pc,            \* pc[r]: where the handler of r is
    req,           \* req[r]: the request: account, signed nonce
    answer,        \* answer[r]: "none", "hash" (200), "refused" (4xx, 503),
                   \* "failed" (500) or "cut" (the connection broke)
    gas,           \* gas[r]: gasWithHeadroom
    price,         \* price[r]: the quoted gas price
    queue,         \* broadcastChain: admitted requests not broadcast yet
    forgotten,     \* requests admitted before the last restart
    restarts,      \* how often the process was restarted
    txNonce,       \* txNonce[r]: the EOA nonce r's transaction was signed with
    pool,          \* transactions of the EOA that the node holds
    mined,         \* mined transactions of the EOA, in order
    dropped,       \* transactions the node forgot
    accountNonce,  \* accountNonce[a]: the on-chain nonce of account a
    bill           \* bill[r]: what r's transaction cost, and when

processVars == <<forgotten, restarts>>
handlerVars == <<pc, req, answer, gas, price, queue, processVars>>
nodeVars == <<txNonce, pool, mined, dropped, accountNonce, bill>>
vars == <<spendVars, handlerVars, nodeVars>>

NoRequest == [account |-> "none", nonce |-> 0]

-----------------------------------------------------------------------------
(* Variants with a planted mistake.  Nothing uses them but the mutation    *)
(* runs, which put one in the place of the definition it varies.           *)
NotSerialised(r) == r \in ToSet(queue)
StuckAfterFailure(q) == q

-----------------------------------------------------------------------------
(* The node. *)

Mined == ToSet(mined)

\* eth_getTransactionCount(pending): the first nonce no transaction holds.
PendingCount ==
    LET held == {txNonce[r] : r \in pool}
    IN  CHOOSE n \in Len(mined) .. Len(mined) + Cardinality(pool) :
            /\ n \notin held
            /\ \A m \in Len(mined) .. n - 1 : m \in held

\* eth_sendRawTransaction: a transaction replaces one with its nonce.
Accept(r) == pool' = {s \in pool : txNonce[s] # txNonce[r]} \cup {r}

\* The next transaction is mined, for at most its gas limit.  Its account's
\* nonce moves if that is the nonce that was signed; else it reverts, for a fee.
Mine(r, used, effectivePrice) ==
    /\ r \in pool
    /\ txNonce[r] = Len(mined)
    /\ used <= gas[r]
    /\ PriceRises \/ effectivePrice <= price[r]
    /\ mined' = Append(mined, r)
    /\ pool' = pool \ {r}
    /\ bill' = [bill EXCEPT ![r] = [at |-> now, wei |-> used * effectivePrice]]
    /\ LET a == req[r].account
       IN  accountNonce' =
             [accountNonce EXCEPT ![a] = IF @ = req[r].nonce THEN @ + 1 ELSE @]
    /\ UNCHANGED <<spendVars, handlerVars, txNonce, dropped>>

Drop(r) ==
    /\ r \in pool
    /\ pool' = pool \ {r}
    /\ dropped' = dropped \cup {r}
    /\ UNCHANGED <<spendVars, handlerVars, txNonce, mined, accountNonce, bill>>

-----------------------------------------------------------------------------
(* The handler, up to the reservation. *)

\* The response has been sent and nothing is left to do.
Answered(r, response) ==
    /\ pc' = [pc EXCEPT ![r] = "done"]
    /\ answer' = [answer EXCEPT ![r] = response]

\* The body has arrived: shape and allowlist are checked before any read.  A
\* malformed body is refused like an unsponsored account.
Post(r, a, nonce, stated) ==
    /\ pc[r] = "idle"
    /\ req' = [req EXCEPT ![r] = [account |-> a, nonce |-> nonce]]
    /\ IF a \notin Allowlist
       THEN Answered(r, "refused")
       ELSE /\ pc' = [pc EXCEPT ![r] = IF stated THEN "nonce" ELSE "estimate"]
            /\ UNCHANGED answer
    /\ UNCHANGED <<processVars, spendVars, gas, price, queue, nodeVars>>

\* The nonce check: 409 when the signed nonce is not the one on chain.
CheckNonce(r) ==
    /\ pc[r] = "nonce"
    /\ IF accountNonce[req[r].account] = req[r].nonce
       THEN pc' = [pc EXCEPT ![r] = "estimate"] /\ UNCHANGED answer
       ELSE Answered(r, "refused")
    /\ UNCHANGED <<processVars, spendVars, req, gas, price, queue, nodeVars>>

\* estimateGas runs the call on the present state: a nonce that does not match
\* reverts (422).
GasWithHeadroom(g) == (g * 120) \div 100

EstimateGas(r, g) ==
    /\ pc[r] = "estimate"
    /\ accountNonce[req[r].account] = req[r].nonce
    /\ g <= MaxGas
    /\ gas' = [gas EXCEPT ![r] = GasWithHeadroom(g)]
    /\ pc' = [pc EXCEPT ![r] = "price"]
    /\ UNCHANGED <<processVars, spendVars, req, answer, price, queue, nodeVars>>

\* The estimate reverts or exceeds the cap, or there is no price to be had.
RefuseUnpriced(r) ==
    /\ pc[r] \in {"estimate", "price"}
    /\ Answered(r, "refused")
    /\ UNCHANGED <<processVars, spendVars, req, gas, price, queue, nodeVars>>

\* The nonce read throws: nobody catches it but the server.
NonceReadFails(r) ==
    /\ pc[r] = "nonce"
    /\ Answered(r, "failed")
    /\ UNCHANGED <<processVars, spendVars, req, gas, price, queue, nodeVars>>

\* A price arrived: admit and join the broadcast chain in the same step.
Enqueue(r, p) ==
    /\ pc[r] = "price"
    /\ p # 0
    /\ Admit(r, req[r].account, gas[r] * p)
    /\ price' = [price EXCEPT ![r] = p]
    /\ queue' = Append(queue, r)
    /\ pc' = [pc EXCEPT ![r] = "queued"]
    /\ UNCHANGED <<processVars, req, answer, gas, nodeVars>>

RefuseOverBudget(r, p) ==
    /\ pc[r] = "price"
    /\ p = 0 \/ ~Admissible(req[r].account, gas[r] * p)
    /\ Answered(r, "refused")
    /\ UNCHANGED <<processVars, spendVars, req, gas, price, queue, nodeVars>>

-----------------------------------------------------------------------------
(* serialise(sendTransaction) *)

\* broadcastChain.then(fn, fn): a send starts when the one before it is over.
MyTurn(r) == queue # <<>> /\ Head(queue) = r

\* next.catch(() => undefined): a send that failed is over, too.
AfterFailure(q) == Tail(q)

\* sendTransaction asks the node for the EOA's next nonce ...
StartSend(r) ==
    /\ pc[r] = "queued"
    /\ MyTurn(r)
    /\ txNonce' = [txNonce EXCEPT ![r] = PendingCount]
    /\ pc' = [pc EXCEPT ![r] = "signing"]
    /\ UNCHANGED <<processVars, spendVars, req, answer, gas, price, queue, pool, mined, dropped,
                   accountNonce, bill>>

\* ... signs with it and broadcasts; the client gets the hash.
Broadcast(r) ==
    /\ pc[r] = "signing"
    /\ Accept(r)
    /\ queue' = Tail(queue)
    /\ pc' = [pc EXCEPT ![r] = "receipt"]
    /\ answer' = [answer EXCEPT ![r] = "hash"]
    /\ UNCHANGED <<processVars, spendVars, req, gas, price, txNonce, mined, dropped, accountNonce,
                   bill>>

\* sendTransaction throws: the reservation is released and the client told so.
\* It may throw for want of an answer to a broadcast that succeeded.
BroadcastFails(r) ==
    /\ pc[r] = "signing"
    /\ \/ UNCHANGED pool
       \/ LostReplies /\ Accept(r)
    /\ Release(req[r].account, r)
    /\ queue' = AfterFailure(queue)
    /\ Answered(r, "failed")
    /\ UNCHANGED <<processVars, req, gas, price, txNonce, mined, dropped, accountNonce, bill>>

-----------------------------------------------------------------------------
(* Reconciliation, after the answer. *)

Reconcile(r) ==
    /\ pc[r] = "receipt"
    /\ r \in Mined
    /\ Settle(r, bill[r].wei)
    /\ pc' = [pc EXCEPT ![r] = "done"]
    /\ UNCHANGED <<processVars, req, answer, gas, price, queue, nodeVars>>

\* No receipt: the estimate stays booked.
KeepEstimate(r) == UNCHANGED spendVars

ReceiptNeverArrives(r) ==
    /\ pc[r] = "receipt"
    /\ KeepEstimate(r)
    /\ pc' = [pc EXCEPT ![r] = "done"]
    /\ UNCHANGED <<processVars, req, answer, gas, price, queue, nodeVars>>

\* The process dies and is started again.  Its lists, its queue and its handlers
\* were in memory; a transaction on its way to the node may still arrive.
Restart ==
    /\ restarts < MaxRestarts
    /\ restarts' = restarts + 1
    /\ Forget
    /\ forgotten' = {r \in Requests : price[r] # 0}
    /\ queue' = <<>>
    /\ pc' = [r \in Requests |-> IF pc[r] = "idle" THEN "idle" ELSE "done"]
    /\ answer' = [r \in Requests |->
            IF pc[r] # "idle" /\ answer[r] = "none" THEN "cut" ELSE answer[r]]
    /\ \/ UNCHANGED pool
       \/ \E r \in Requests : pc[r] = "signing" /\ Accept(r)
    /\ UNCHANGED <<req, gas, price, txNonce, mined, dropped, accountNonce, bill>>

-----------------------------------------------------------------------------
Init ==
    /\ SpendInit
    /\ forgotten = {}
    /\ restarts = 0
    /\ pc = [r \in Requests |-> "idle"]
    /\ req = [r \in Requests |-> NoRequest]
    /\ answer = [r \in Requests |-> "none"]
    /\ gas = [r \in Requests |-> 0]
    /\ price = [r \in Requests |-> 0]
    /\ queue = <<>>
    /\ txNonce = [r \in Requests |-> 0]
    /\ pool = {}
    /\ mined = <<>>
    /\ dropped = {}
    /\ accountNonce = [a \in Accounts |-> 0]
    /\ bill = [r \in Requests |-> [at |-> 0, wei |-> 0]]

\* What the process itself does for request r.
Handle(r) ==
    \/ CheckNonce(r)
    \/ NonceReadFails(r)
    \/ \E g \in GasUses : EstimateGas(r, g)
    \/ RefuseUnpriced(r)
    \/ \E p \in Prices : Enqueue(r, p) \/ RefuseOverBudget(r, p)
    \/ StartSend(r)
    \/ Broadcast(r)
    \/ BroadcastFails(r)
    \/ Reconcile(r)
    \/ ReceiptNeverArrives(r)

Next ==
    \/ \E r \in Requests, a \in Accounts, n \in 0 .. MaxNonce, stated \in BOOLEAN :
          Post(r, a, n, stated)
    \/ \E r \in Requests : Handle(r)
    \/ \E r \in Requests, used \in GasUses, p \in Prices : Mine(r, used, p)
    \/ \E r \in Requests : Drop(r)
    \/ Restart
    \/ Tick /\ UNCHANGED <<handlerVars, nodeVars>>

Spec == Init /\ [][Next]_vars

\* Every read and every send returns or throws within viem's timeouts, so every
\* handler moves on.  Nothing is assumed of clients, clock or miners.
FairSpec == Spec /\ \A r \in Requests : WF_vars(Handle(r))
=============================================================================
