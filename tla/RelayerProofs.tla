--------------------------- MODULE RelayerProofs ---------------------------
(***************************************************************************)
(* TypeOK, BooksExact, RateLimited and NothingReplaced hold of the relayer *)
(* for any number of requests and accounts, any policy, any prices, any    *)
(* loss of replies and any number of restarts; SpendingBounded holds while *)
(* no reply is lost and prices do not rise.                                *)
(*                                                                         *)
(* A list may keep reservations older than the window, so BooksExact is    *)
(* strengthened (Books) to: a list holds only live reservations, and all   *)
(* of those in the window.  NothingReplaced rests on whose turn it is to   *)
(* broadcast (Sends): only the head of the queue is signing, with a nonce  *)
(* that nobody in the node's pool has.  For SpendingBounded the sums are   *)
(* counted out (Coins); a reservation covers what its transaction costs    *)
(* (Accounted), and the reservations of a window are within the budgets    *)
(* (Budgets).                                                              *)
(***************************************************************************)
EXTENDS RelayerProperties, FiniteSetTheorems, SequenceTheorems, WellFoundedInduction,
        TLAPS

Early == {"idle", "nonce", "estimate", "price"}

Phase(r) ==
    /\ pc[r] # "idle" => req[r].account \in Accounts
    /\ pc[r] \in Early => price[r] = 0 /\ answer[r] = "none"
    /\ pc[r] \in {"queued", "signing"} => price[r] # 0 /\ answer[r] = "none"
    /\ pc[r] = "receipt" => answer[r] = "hash"
    /\ answer[r] = "hash" => price[r] # 0 /\ pc[r] \in {"receipt", "done"}
    /\ r \in forgotten => pc[r] = "done"

Phases == \A r \in Requests : Phase(r)

Booked(r) ==
    /\ spend[r].at <= now
    /\ \A a \in Accounts : r \in perAccount[a] => Reserved(r) /\ req[r].account = a
    /\ r \in global => Reserved(r)
    /\ Reserved(r) /\ spend[r].at + WindowMs >= now =>
          r \in global /\ r \in perAccount[req[r].account]

Books == \A r \in Requests : Booked(r)

Fresh(r) ==
    /\ txNonce[r] >= Len(mined)
    /\ r \notin pool
    /\ \A s \in pool : txNonce[s] # txNonce[r]

Sends ==
    /\ \A r \in pool : txNonce[r] >= Len(mined)
    /\ \A r, s \in pool : txNonce[r] = txNonce[s] => r = s
    /\ \A r \in Requests : pc[r] = "signing" => MyTurn(r) /\ Fresh(r)
    /\ \A r \in Requests : pc[r] \in Early \cup {"queued"} => r \notin pool
    /\ NothingReplaced

-----------------------------------------------------------------------------
(* Arithmetic. *)

LEMMA Least ==
    ASSUME NEW T, T \subseteq Nat, T # {}
    PROVE  \E x \in T : \A y \in T : x <= y
<1> DEFINE R == OpToRel(<, Nat)
<1>1. IsWellFoundedOn(R, Nat)
  BY NatLessThanWellFounded
<1>2. \A x, y \in Nat : y < x => <<y, x>> \in R
  BY DEF OpToRel
<1> HIDE DEF R
<1>3. PICK x \in T : \A y \in T : ~ (<<y, x>> \in R)
  BY <1>1, WFMin
<1>4. ASSUME NEW y \in T PROVE x <= y
  <2>1. x \in Nat /\ y \in Nat
    OBVIOUS
  <2>2. ~(y < x)
    BY <1>2, <1>3, <2>1
  <2> QED
    BY <2>1, <2>2
<1> QED
  BY <1>4

\* Of k + 1 numbers in a row, one is missing from a set of at most k, and the
\* first that is missing has none missing before it.
LEMMA FirstFree ==
    ASSUME NEW held, IsFiniteSet(held), NEW l \in Nat, NEW k \in Nat,
           Cardinality(held) <= k
    PROVE  \E n \in l .. l + k : n \notin held /\ \A m \in l .. n - 1 : m \in held
<1> DEFINE T == (l .. l + k) \ held
<1>1. T # {}
  <2> SUFFICES ASSUME T = {} PROVE FALSE
    OBVIOUS
  <2>1. (l .. l + k) \in SUBSET held
    OBVIOUS
  <2>2. Cardinality(l .. l + k) <= Cardinality(held)
    BY <2>1, FS_Subset
  <2>3. Cardinality(l .. l + k) = k + 1
    BY FS_Interval
  <2>4. Cardinality(held) \in Nat
    BY FS_CardinalityType
  <2> QED
    BY <2>2, <2>3, <2>4
<1>2. T \subseteq Nat
  OBVIOUS
<1>3. PICK n \in T : \A m \in T : n <= m
  <2> HIDE DEF T
  <2> QED
    BY <1>1, <1>2, Least
<1>4. n \in l .. l + k /\ n \notin held
  BY <1>3
<1>5. ASSUME NEW m \in l .. n - 1, m \notin held PROVE FALSE
  <2>1. m \in T
    BY <1>4, <1>5
  <2> QED
    BY <1>3, <1>4, <2>1
<1> QED
  BY <1>4, <1>5

\* The nonce the node answers is nobody's.
LEMMA PendingCountFree ==
    ASSUME TypeOK
    PROVE  /\ PendingCount \in Nat
           /\ PendingCount >= Len(mined)
           /\ \A s \in pool : txNonce[s] # PendingCount
<1> DEFINE held == {txNonce[r] : r \in pool}
           f == [r \in pool |-> txNonce[r]]
           k == Cardinality(pool)
           l == Len(mined)
           P(n) == n \notin held /\ \A m \in l .. n - 1 : m \in held
<1>1. IsFiniteSet(pool) /\ k \in Nat
  BY PolicyAssumption, FS_Subset, FS_CardinalityType DEF TypeOK
<1>2. f \in Surjection(pool, held)
  BY DEF Surjection
<1>3. IsFiniteSet(held) /\ Cardinality(held) <= k
  BY <1>1, <1>2, FS_Surjection
<1>4. l \in Nat
  BY LenProperties DEF TypeOK
<1> HIDE DEF k, l
<1>5. \E n \in l .. l + k : P(n)
  BY <1>1, <1>3, <1>4, FirstFree
<1>6. PendingCount = CHOOSE n \in l .. l + k : P(n)
  BY DEF PendingCount, l, k
<1>7. PendingCount \in l .. l + k /\ PendingCount \notin held
  BY <1>5, <1>6
<1> QED
  BY <1>1, <1>4, <1>7 DEF l

-----------------------------------------------------------------------------
(* Reservations. *)

LEMMA SpendTypes ==
    ASSUME TypeOK
    PROVE  /\ now \in Nat
           /\ spend \in [Requests -> [at : Nat, wei : Nat]]
           /\ \A s \in Requests : spend[s].at \in Nat /\ spend[s].wei \in Nat
<1>1. now \in Nat /\ spend \in [Requests -> [at : Nat, wei : Nat]]
  BY DEF TypeOK, SpendTypeOK, Spend
<1> QED
  BY ONLY <1>1

\* Every request that is queued, signing or waiting for its receipt is live.
LEMMA InFlightIsReserved ==
    ASSUME Phases, NEW r \in Requests, pc[r] \in {"queued", "signing", "receipt"}
    PROVE  Reserved(r)
  BY DEF Phases, Phase, Reserved

\* The steps about a request that neither reserve nor release.
Quiet(r) ==
    \/ \E a \in Accounts, n \in 0 .. MaxNonce, stated \in BOOLEAN : Post(r, a, n, stated)
    \/ CheckNonce(r) \/ NonceReadFails(r)
    \/ \E g \in GasUses : EstimateGas(r, g)
    \/ RefuseUnpriced(r)
    \/ \E p \in Prices : RefuseOverBudget(r, p)
    \/ StartSend(r) \/ Broadcast(r) \/ Reconcile(r) \/ ReceiptNeverArrives(r)
    \/ \E used \in GasUses, p \in Prices : Mine(r, used, p)
    \/ Drop(r)

LEMMA QuietStep ==
    ASSUME TypeOK, Phases, NEW r \in Requests, Quiet(r)
    PROVE  /\ UNCHANGED <<now, perAccount, global>>
           /\ \A s \in Requests : /\ Reserved(s)' <=> Reserved(s)
                                  /\ Reserved(s) => req'[s] = req[s]
                                  /\ spend'[s].at = spend[s].at
<1> DEFINE Kept(s) == /\ Reserved(s)' <=> Reserved(s)
                      /\ Reserved(s) => req'[s] = req[s]
                      /\ spend'[s].at = spend[s].at
<1>1. /\ pc = [s \in Requests |-> pc[s]]
      /\ answer = [s \in Requests |-> answer[s]]
      /\ req = [s \in Requests |-> req[s]]
  BY DEF TypeOK
<1>2. Phase(r)
  BY DEF Phases
<1>3. ASSUME \A s \in Requests \ {r} : /\ pc'[s] = pc[s] /\ answer'[s] = answer[s]
                                       /\ req'[s] = req[s],
             forgotten' = forgotten,
             \A s \in Requests : spend'[s].at = spend[s].at,
             Reserved(r)' <=> Reserved(r),
             Reserved(r) => req'[r] = req[r]
      PROVE  \A s \in Requests : Kept(s)
  <2>1. \A s \in Requests \ {r} : Reserved(s)' <=> Reserved(s)
    BY <1>3 DEF Reserved
  <2> QED
    BY <1>3, <2>1
\* A step of the handler that leaves the reservations alone.
<1>4. ASSUME pc' = [pc EXCEPT ![r] = pc'[r]], answer' = [answer EXCEPT ![r] = answer'[r]],
             UNCHANGED <<req, forgotten>>,
             \A s \in Requests : spend'[s].at = spend[s].at,
             \/ /\ pc[r] \in Early /\ pc'[r] \in Early \cup {"done"}
                /\ answer'[r] # "hash"
             \/ pc[r] = "queued" /\ pc'[r] = "signing"
             \/ pc[r] = "signing" /\ pc'[r] = "receipt" /\ answer'[r] = "hash"
             \/ pc[r] = "receipt" /\ pc'[r] = "done" /\ answer'[r] = "hash"
      PROVE  \A s \in Requests : Kept(s)
  <2>1. Reserved(r)' <=> Reserved(r)
    BY <1>2, <1>4 DEF Reserved, Phase, Early
  <2>2. \A s \in Requests \ {r} : pc'[s] = pc[s] /\ answer'[s] = answer[s]
    BY <1>1, <1>4
  <2> HIDE DEF Kept
  <2> QED
    BY <1>3, <1>4, <2>1, <2>2
<1>5. /\ UNCHANGED answer => answer' = [answer EXCEPT ![r] = answer'[r]]
      /\ \A x : pc' = [pc EXCEPT ![r] = x] => pc'[r] = x
      /\ \A x : answer' = [answer EXCEPT ![r] = x] => answer'[r] = x
  BY <1>1
<1>6. UNCHANGED spend => \A s \in Requests : spend'[s].at = spend[s].at
  OBVIOUS
<1>7. ASSUME NEW a \in Accounts, NEW n \in 0 .. MaxNonce, NEW stated \in BOOLEAN,
             Post(r, a, n, stated)
      PROVE  \A s \in Requests : Kept(s)
  <2>1. /\ pc[r] = "idle"
        /\ req' = [req EXCEPT ![r] = [account |-> a, nonce |-> n]]
        /\ UNCHANGED <<forgotten, spend>>
    BY <1>7 DEF Post, processVars, spendVars
  <2>2. /\ \E x \in {"nonce", "estimate", "done"} : pc' = [pc EXCEPT ![r] = x]
        /\ UNCHANGED answer \/ answer' = [answer EXCEPT ![r] = "refused"]
    BY <1>7 DEF Post, Answered
  <2>3. pc'[r] \in {"nonce", "estimate", "done"} /\ answer'[r] \in {answer[r], "refused"}
    BY <1>1, <2>2
  <2>4. ~ Reserved(r) /\ ~ Reserved(r)'
    BY <1>2, <2>1, <2>3 DEF Reserved, Phase, Early
  <2>5. \A s \in Requests \ {r} : /\ pc'[s] = pc[s] /\ answer'[s] = answer[s]
                                  /\ req'[s] = req[s]
    BY <1>1, <2>1, <2>2
  <2> HIDE DEF Kept
  <2> QED
    BY <1>3, <1>6, <2>1, <2>4, <2>5
<1>8. ASSUME \/ CheckNonce(r) \/ NonceReadFails(r) \/ RefuseUnpriced(r)
             \/ \E g \in GasUses : EstimateGas(r, g)
             \/ \E p \in Prices : RefuseOverBudget(r, p)
      PROVE  \A s \in Requests : Kept(s)
  <2>1. pc[r] \in Early /\ UNCHANGED <<req, forgotten, spend>>
    BY <1>8 DEF CheckNonce, NonceReadFails, RefuseUnpriced, EstimateGas, RefuseOverBudget,
                Early, processVars, spendVars
  <2>2. \E x \in Early \cup {"done"} : pc' = [pc EXCEPT ![r] = x]
    BY <1>8 DEF CheckNonce, NonceReadFails, RefuseUnpriced, EstimateGas, RefuseOverBudget,
                Early, Answered
  <2>3. \/ UNCHANGED answer
        \/ \E y \in {"refused", "failed"} : answer' = [answer EXCEPT ![r] = y]
    BY <1>8 DEF CheckNonce, NonceReadFails, RefuseUnpriced, EstimateGas, RefuseOverBudget,
                Answered
  <2>4. answer[r] # "hash"
    BY <1>2, <2>1 DEF Phase
  <2>5. pc'[r] \in Early \cup {"done"} /\ pc' = [pc EXCEPT ![r] = pc'[r]]
    BY <1>5, <2>2
  <2>6. answer'[r] # "hash" /\ answer' = [answer EXCEPT ![r] = answer'[r]]
    BY <1>5, <2>3, <2>4
  <2> HIDE DEF Kept
  <2> QED
    BY <1>4, <1>6, <2>1, <2>5, <2>6
<1>9. ASSUME StartSend(r)
       PROVE  \A s \in Requests : Kept(s)
  <2>1. /\ pc[r] = "queued" /\ pc' = [pc EXCEPT ![r] = "signing"]
        /\ UNCHANGED <<answer, req, forgotten, spend>>
    BY <1>9 DEF StartSend, processVars, spendVars
  <2>2. pc'[r] = "signing" /\ pc' = [pc EXCEPT ![r] = pc'[r]]
    BY <1>5, <2>1
  <2>3. answer' = [answer EXCEPT ![r] = answer'[r]]
    BY <1>5, <2>1
  <2>4. \A s \in Requests : spend'[s].at = spend[s].at
    BY <1>6, <2>1
  <2>5. UNCHANGED <<req, forgotten>>
    BY <2>1
  <2> HIDE DEF Kept
  <2> QED
    BY <1>4, <2>1, <2>2, <2>3, <2>4, <2>5
<1>10. ASSUME Broadcast(r)
       PROVE  \A s \in Requests : Kept(s)
  <2>1. /\ pc[r] = "signing" /\ pc' = [pc EXCEPT ![r] = "receipt"]
        /\ answer' = [answer EXCEPT ![r] = "hash"]
        /\ UNCHANGED <<req, forgotten, spend>>
    BY <1>10 DEF Broadcast, processVars, spendVars
  <2>2. pc'[r] = "receipt" /\ pc' = [pc EXCEPT ![r] = pc'[r]]
    BY <1>5, <2>1
  <2>3. answer'[r] = "hash" /\ answer' = [answer EXCEPT ![r] = answer'[r]]
    BY <1>5, <2>1
  <2>4. \A s \in Requests : spend'[s].at = spend[s].at
    BY <1>6, <2>1
  <2>5. UNCHANGED <<req, forgotten>>
    BY <2>1
  <2> HIDE DEF Kept
  <2> QED
    BY <1>4, <2>1, <2>2, <2>3, <2>4, <2>5
<1>11. ASSUME Reconcile(r) \/ ReceiptNeverArrives(r)
       PROVE  \A s \in Requests : Kept(s)
  <2>1. /\ pc[r] = "receipt" /\ pc' = [pc EXCEPT ![r] = "done"]
        /\ UNCHANGED <<answer, req, forgotten>>
    BY <1>11 DEF Reconcile, ReceiptNeverArrives, processVars
  <2>2. UNCHANGED spend \/ spend' = [spend EXCEPT ![r].wei = bill[r].wei]
    BY <1>11 DEF Reconcile, Settle, ReceiptNeverArrives, KeepEstimate, spendVars
  <2>3. \A s \in Requests : spend'[s].at = spend[s].at
    <3>1. spend \in [Requests -> [at : Nat, wei : Nat]]
      BY SpendTypes
    <3>2. CASE spend' = [spend EXCEPT ![r].wei = bill[r].wei]
      <4>1. spend' = [spend EXCEPT ![r] = [spend[r] EXCEPT !.wei = bill[r].wei]]
        BY <3>2
      <4>2. \A s \in Requests \ {r} : spend'[s] = spend[s]
        BY <3>1, <4>1
      <4>3. spend'[r] = [spend[r] EXCEPT !.wei = bill[r].wei]
        BY <3>1, <4>1
      <4>4. spend'[r].at = spend[r].at
        BY <3>1, <4>3
      <4> QED
        BY <4>2, <4>4
    <3> QED
      BY <2>2, <3>2
  <2>4. pc'[r] = "done" /\ pc' = [pc EXCEPT ![r] = pc'[r]]
    BY <1>5, <2>1
  <2>5. answer'[r] = "hash" /\ answer' = [answer EXCEPT ![r] = answer'[r]]
    BY <1>2, <1>5, <2>1 DEF Phase
  <2>6. UNCHANGED <<req, forgotten>>
    BY <2>1
  <2> HIDE DEF Kept
  <2> QED
    BY <1>4, <2>1, <2>3, <2>4, <2>5, <2>6
<1>12. ASSUME (\E used \in GasUses, p \in Prices : Mine(r, used, p)) \/ Drop(r)
       PROVE  \A s \in Requests : Kept(s)
  <2>1. UNCHANGED <<pc, answer, req, forgotten, spend>>
    BY <1>12 DEF Mine, Drop, spendVars, handlerVars, processVars
  <2>2. ASSUME NEW s \in Requests PROVE Kept(s)
    <3>1. pc'[s] = pc[s] /\ answer'[s] = answer[s] /\ forgotten' = forgotten
      BY <2>1
    <3>2. Reserved(s)' <=> Reserved(s)
      BY <3>1 DEF Reserved
    <3> QED
      BY <2>1, <3>2
  <2> QED
    BY <2>2
<1>13. UNCHANGED <<now, perAccount, global>>
  BY DEF Quiet, Post, CheckNonce, NonceReadFails, EstimateGas, RefuseUnpriced,
         RefuseOverBudget, StartSend, Broadcast, Reconcile, Settle, ReceiptNeverArrives,
         KeepEstimate, Mine, Drop, spendVars
<1>14. \A s \in Requests : Kept(s)
  <2> HIDE DEF Kept
  <2> QED
    BY <1>7, <1>8, <1>9, <1>10, <1>11, <1>12 DEF Quiet
<1> QED
  BY <1>13, <1>14

\* A step is quiet, reserves, releases, restarts, lets time pass, or stutters.
LEMMA StepKinds ==
    ASSUME [Next]_vars
    PROVE  \/ \E r \in Requests : \/ Quiet(r)
                                  \/ \E p \in Prices : Enqueue(r, p)
                                  \/ BroadcastFails(r)
           \/ Restart
           \/ Tick /\ UNCHANGED <<handlerVars, nodeVars>>
           \/ UNCHANGED vars
  BY DEF Next, Handle, Quiet

-----------------------------------------------------------------------------
(* Types. *)

LEMMA HandlerTypes ==
    ASSUME TypeOK, Sends, NEW r \in Requests, Handle(r)
    PROVE  TypeOK'
<1> USE RelayerAssumption, PolicyAssumption
    DEF TypeOK, SpendTypeOK, Spend, spendVars, processVars, nodeVars
<1>1. CASE CheckNonce(r)
  BY <1>1 DEF CheckNonce, Answered
<1>2. CASE NonceReadFails(r)
  BY <1>2 DEF NonceReadFails, Answered
<1>3. ASSUME NEW g \in GasUses, EstimateGas(r, g) PROVE TypeOK'
  <2>1. GasWithHeadroom(g) \in Nat
    BY DEF GasWithHeadroom
  <2> QED
    BY <1>3, <2>1 DEF EstimateGas
<1>4. CASE RefuseUnpriced(r)
  BY <1>4 DEF RefuseUnpriced, Answered
<1>5. ASSUME NEW p \in Prices, Enqueue(r, p) PROVE TypeOK'
  <2>1. gas[r] * p \in Nat
    OBVIOUS
  <2>2. Append(queue, r) \in Seq(Requests)
    BY AppendProperties
  <2>3. Prune(perAccount[req[r].account]) \subseteq Requests /\ Prune(global) \subseteq Requests
    <3>1. req[r].account \in Accounts
      BY <1>5 DEF Enqueue, Admit, Admissible
    <3> QED
      BY <3>1 DEF Prune
  <2> QED
    BY <1>5, <2>1, <2>2, <2>3 DEF Enqueue, Admit
<1>6. ASSUME NEW p \in Prices, RefuseOverBudget(r, p) PROVE TypeOK'
  BY <1>6 DEF RefuseOverBudget, Answered
<1>7. CASE StartSend(r)
  <2>1. PendingCount \in Nat
    BY PendingCountFree
  <2> QED
    BY <1>7, <2>1 DEF StartSend
<1>8. ASSUME pc[r] = "signing" PROVE Tail(queue) \in Seq(Requests)
  <2>1. queue # <<>>
    BY <1>8 DEF Sends, MyTurn
  <2> QED
    BY <2>1, HeadTailProperties
<1>9. CASE Broadcast(r)
  BY <1>8, <1>9 DEF Broadcast, Accept
<1>10. CASE BroadcastFails(r)
  BY <1>8, <1>10 DEF BroadcastFails, Accept, Release, Answered, AfterFailure
<1>11. CASE Reconcile(r)
  <2>1. spend' \in [Requests -> [at : Nat, wei : Nat]]
    <3>1. bill[r].wei \in Nat
      OBVIOUS
    <3>2. spend' = [spend EXCEPT ![r] = [spend[r] EXCEPT !.wei = bill[r].wei]]
      BY <1>11 DEF Reconcile, Settle
    <3>3. spend \in [Requests -> [at : Nat, wei : Nat]]
      BY SpendTypes
    <3>4. [spend[r] EXCEPT !.wei = bill[r].wei] \in [at : Nat, wei : Nat]
      BY ONLY r \in Requests, <3>1, <3>3
    <3> QED
      BY ONLY r \in Requests, <3>2, <3>3, <3>4
  <2> QED
    BY <1>11, <2>1 DEF Reconcile, Settle
<1>12. CASE ReceiptNeverArrives(r)
  BY <1>12 DEF ReceiptNeverArrives, KeepEstimate
<1> QED
  BY <1>1, <1>2, <1>3, <1>4, <1>5, <1>6, <1>7, <1>9, <1>10, <1>11, <1>12 DEF Handle

LEMMA TypeStep ==
    ASSUME TypeOK, Sends, [Next]_vars
    PROVE  TypeOK'
<1> USE RelayerAssumption, PolicyAssumption
    DEF TypeOK, SpendTypeOK, Spend, spendVars, processVars, handlerVars, nodeVars
<1>1. ASSUME NEW r \in Requests, NEW a \in Accounts, NEW n \in 0 .. MaxNonce,
             NEW stated \in BOOLEAN, Post(r, a, n, stated)
      PROVE  TypeOK'
  <2>1. req' \in [Requests -> [account : Accounts \cup {NoRequest.account}, nonce : Nat]]
    BY <1>1 DEF Post
  <2>2. pc' \in [Requests -> {"idle", "nonce", "estimate", "price", "queued",
                              "signing", "receipt", "done"}]
    BY <1>1 DEF Post, Answered
  <2>3. answer' \in [Requests -> {"none", "hash", "refused", "failed", "cut"}]
    BY <1>1 DEF Post, Answered
  <2> QED
    BY <1>1, <2>1, <2>2, <2>3 DEF Post
<1>2. ASSUME NEW r \in Requests, Handle(r) PROVE TypeOK'
  BY <1>2, HandlerTypes
<1>3. ASSUME NEW r \in Requests, NEW used \in GasUses, NEW p \in Prices, Mine(r, used, p)
      PROVE  TypeOK'
  <2>1. used * p \in Nat
    OBVIOUS
  <2>2. Append(mined, r) \in Seq(Requests)
    BY AppendProperties
  <2>3. bill' \in [Requests -> [at : Nat, wei : Nat]]
    BY <1>3, <2>1 DEF Mine
  <2>4. accountNonce' \in [Accounts -> Nat]
    <3> DEFINE a == req[r].account
    <3>1. accountNonce' = [accountNonce EXCEPT ![a] =
                              IF accountNonce[a] = req[r].nonce THEN accountNonce[a] + 1
                              ELSE accountNonce[a]]
      BY <1>3 DEF Mine
    <3>2. accountNonce \in [Accounts -> Nat]
      OBVIOUS
    <3> HIDE DEF a, TypeOK
    <3>3. CASE a \in Accounts
      <4> DEFINE n == IF accountNonce[a] = req[r].nonce THEN accountNonce[a] + 1
                      ELSE accountNonce[a]
      <4>1. n \in Nat
        BY <3>2, <3>3
      <4> HIDE DEF n
      <4> QED
        BY <3>1, <3>2, <4>1 DEF n
    <3>4. CASE a \notin Accounts
      BY <3>1, <3>2, <3>4
    <3> QED
      BY <3>3, <3>4
  <2> QED
    BY <1>3, <2>2, <2>3, <2>4 DEF Mine
<1>4. ASSUME NEW r \in Requests, Drop(r) PROVE TypeOK'
  BY <1>4 DEF Drop
<1>5. CASE Restart
  <2>1. pool' \subseteq Requests
    BY <1>5 DEF Restart, Accept
  <2>2. SpendTypeOK'
    BY <1>5 DEF Restart, Forget
  <2>3. pc' \in [Requests -> {"idle", "done"}]
    BY <1>5 DEF Restart
  <2>4. answer' \in [Requests -> {"none", "hash", "refused", "failed", "cut"}]
    BY <1>5 DEF Restart
  <2>5. forgotten' \subseteq Requests /\ restarts' \in Nat /\ queue' \in Seq(Requests)
    BY <1>5 DEF Restart
  <2> HIDE DEF SpendTypeOK
  <2> QED
    BY <1>5, <2>1, <2>2, <2>3, <2>4, <2>5 DEF Restart
<1>6. CASE Tick /\ UNCHANGED <<handlerVars, nodeVars>>
  BY <1>6 DEF Tick
<1>7. CASE UNCHANGED vars
  BY <1>7 DEF vars
<1> HIDE DEF TypeOK, SpendTypeOK, Spend, spendVars, processVars, handlerVars, nodeVars
<1> QED
  BY <1>1, <1>2, <1>3, <1>4, <1>5, <1>6, <1>7 DEF Next

-----------------------------------------------------------------------------
(* Phases. *)

LEMMA HandlerPhases ==
    ASSUME TypeOK, Phases, NEW r \in Requests, Handle(r), NEW s \in Requests
    PROVE  Phase(s)'
<1> USE DEF TypeOK, Phases, Phase, Early, processVars, nodeVars
<1>1. CASE CheckNonce(r)
  BY <1>1 DEF CheckNonce, Answered
<1>2. CASE NonceReadFails(r)
  BY <1>2 DEF NonceReadFails, Answered
<1>3. CASE \E g \in GasUses : EstimateGas(r, g)
  BY <1>3 DEF EstimateGas
<1>4. CASE RefuseUnpriced(r)
  BY <1>4 DEF RefuseUnpriced, Answered
<1>5. ASSUME NEW p \in Prices, Enqueue(r, p) PROVE Phase(s)'
  BY <1>5 DEF Enqueue
<1>6. ASSUME NEW p \in Prices, RefuseOverBudget(r, p) PROVE Phase(s)'
  BY <1>6 DEF RefuseOverBudget, Answered
<1>7. CASE StartSend(r)
  BY <1>7 DEF StartSend
<1>8. CASE Broadcast(r)
  BY <1>8 DEF Broadcast
<1>9. CASE BroadcastFails(r)
  BY <1>9 DEF BroadcastFails, Answered
<1>10. CASE Reconcile(r)
  BY <1>10 DEF Reconcile
<1>11. CASE ReceiptNeverArrives(r)
  BY <1>11 DEF ReceiptNeverArrives
<1> HIDE DEF TypeOK, Phases, Phase, Early, processVars, nodeVars
<1> QED
  BY <1>1, <1>2, <1>3, <1>4, <1>5, <1>6, <1>7, <1>8, <1>9, <1>10, <1>11 DEF Handle

LEMMA PhasesStep ==
    ASSUME TypeOK, Phases, [Next]_vars
    PROVE  Phases'
<1> SUFFICES ASSUME NEW s \in Requests PROVE Phase(s)'
  BY DEF Phases
<1> USE DEF TypeOK, Phases, Phase, Early, processVars, handlerVars
<1>1. ASSUME NEW r \in Requests, NEW a \in Accounts, NEW n \in 0 .. MaxNonce,
             NEW stated \in BOOLEAN, Post(r, a, n, stated)
      PROVE  Phase(s)'
  BY <1>1 DEF Post, Answered
<1>2. ASSUME NEW r \in Requests, Handle(r) PROVE Phase(s)'
  BY <1>2, HandlerPhases
<1>3. ASSUME NEW r \in Requests, NEW used \in GasUses, NEW p \in Prices, Mine(r, used, p)
      PROVE  Phase(s)'
  BY <1>3 DEF Mine
<1>4. ASSUME NEW r \in Requests, Drop(r) PROVE Phase(s)'
  BY <1>4 DEF Drop
<1>5. CASE Restart
  BY <1>5 DEF Restart
<1>6. CASE Tick /\ UNCHANGED <<handlerVars, nodeVars>>
  BY <1>6
<1>7. CASE UNCHANGED vars
  BY <1>7 DEF vars
<1> HIDE DEF TypeOK, Phases, Phase, Early, processVars, handlerVars
<1> QED
  BY <1>1, <1>2, <1>3, <1>4, <1>5, <1>6, <1>7 DEF Next

-----------------------------------------------------------------------------
(* The books. *)

LEMMA BooksStep ==
    ASSUME TypeOK, Phases, Books, [Next]_vars
    PROVE  Books'
<1> SUFFICES ASSUME NEW s \in Requests PROVE Booked(s)'
  BY DEF Books
<1>1. ASSUME NEW r \in Requests, Quiet(r) PROVE Booked(s)'
  BY <1>1, QuietStep DEF Books, Booked
<1>2. ASSUME NEW r \in Requests, NEW p \in Prices, Enqueue(r, p) PROVE Booked(s)'
  <2> DEFINE b == req[r].account
  <2>1. b \in Accounts /\ r \notin forgotten
    BY <1>2 DEF Enqueue, Phases, Phase
  <2>2. Reserved(s)' <=> Reserved(s) \/ s = r
    BY <1>2, <2>1 DEF Enqueue, Reserved, TypeOK, processVars
  <2>3. /\ perAccount' = [perAccount EXCEPT ![b] = Prune(perAccount[b]) \cup {r}]
        /\ global' = Prune(global) \cup {r}
        /\ UNCHANGED <<now, req>>
        /\ spend'[s].at = IF s = r THEN now ELSE spend[s].at
    BY <1>2 DEF Enqueue, Admit, TypeOK, SpendTypeOK
  <2>4. now \in Nat /\ perAccount \in [Accounts -> SUBSET Requests]
    BY DEF TypeOK, SpendTypeOK
  <2>5. \A a \in Accounts : s \in perAccount'[a] =>
                               s \in perAccount[a] \/ (s = r /\ a = b)
    BY <2>3, <2>4 DEF Prune
  <2>6. \/ s = r /\ s \in perAccount'[b]
        \/ spend[s].at + WindowMs >= now =>
              \A a \in Accounts : s \in perAccount[a] => s \in perAccount'[a]
    BY <2>1, <2>3, <2>4 DEF Prune
  <2>7. /\ s \in global' => s \in global \/ s = r
        /\ \/ s = r /\ s \in global'
           \/ spend[s].at + WindowMs >= now /\ s \in global => s \in global'
    BY <2>3 DEF Prune
  <2>8. Reserved(s) => req[s].account \in Accounts
    BY DEF Phases, Phase, Reserved
  <2> QED
    BY <2>1, <2>2, <2>3, <2>4, <2>5, <2>6, <2>7, <2>8 DEF Books, Booked
<1>3. ASSUME NEW r \in Requests, BroadcastFails(r) PROVE Booked(s)'
  <2> DEFINE b == req[r].account
  <2>1. b \in Accounts /\ Reserved(r)
    BY <1>3, InFlightIsReserved DEF BroadcastFails, Phases, Phase
  <2>2. Reserved(s)' <=> Reserved(s) /\ s # r
    BY <1>3 DEF BroadcastFails, Answered, Reserved, TypeOK, processVars
  <2>3. /\ perAccount' = [perAccount EXCEPT ![b] = perAccount[b] \ {r}]
        /\ global' = global \ {r}
        /\ UNCHANGED <<now, spend, req>>
    BY <1>3 DEF BroadcastFails, Release
  <2>4. perAccount \in [Accounts -> SUBSET Requests]
    BY DEF TypeOK, SpendTypeOK
  <2>5. Reserved(s) => req[s].account \in Accounts
    BY DEF Phases, Phase, Reserved
  <2> QED
    BY <2>1, <2>2, <2>3, <2>4, <2>5 DEF Books, Booked
<1>4. CASE Restart
  <2>1. ~ Reserved(s)'
    BY <1>4 DEF Restart, Reserved, TypeOK, Phases, Phase
  <2> QED
    BY <1>4, <2>1 DEF Restart, Forget, Books, Booked
<1>5. CASE Tick /\ UNCHANGED <<handlerVars, nodeVars>>
  <2>1. Reserved(s)' <=> Reserved(s)
    BY <1>5 DEF handlerVars, processVars, Reserved
  <2>2. /\ now \in Nat /\ WindowMs \in Nat /\ spend[s].at \in Nat
        /\ now' = now + 1
        /\ UNCHANGED <<perAccount, global, spend, req>>
    BY <1>5, PolicyAssumption DEF Tick, TypeOK, SpendTypeOK, Spend, handlerVars
  <2> QED
    BY <2>1, <2>2 DEF Books, Booked
<1>6. CASE UNCHANGED vars
  BY <1>6 DEF vars, spendVars, handlerVars, processVars, Books, Booked, Reserved
<1> QED
  BY <1>1, <1>2, <1>3, <1>4, <1>5, <1>6, StepKinds

-----------------------------------------------------------------------------
(* Whose turn it is, and with which nonce. *)

LEMMA OneSigns ==
    ASSUME Sends, NEW r \in Requests, NEW s \in Requests,
           pc[r] \in {"queued", "signing"}, MyTurn(r), pc[s] = "signing"
    PROVE  s = r
  BY DEF Sends, MyTurn

LEMMA MinedGrows ==
    ASSUME mined \in Seq(Requests), NEW r \in Requests, mined' = Append(mined, r)
    PROVE  Mined' = Mined \cup {r} /\ Len(mined') = Len(mined) + 1
<1>1. /\ Len(mined') = Len(mined) + 1
      /\ \A i \in 1 .. Len(mined) : mined'[i] = mined[i]
      /\ mined'[Len(mined) + 1] = r
      /\ DOMAIN mined = 1 .. Len(mined) /\ Len(mined) \in Nat
      /\ DOMAIN mined' = 1 .. Len(mined) + 1
  BY AppendProperties, LenProperties
<1> QED
  BY <1>1 DEF Mined, ToSet

\* A transaction that reaches the node displaces none.
LEMMA NodeAccepts ==
    ASSUME TypeOK, Sends, NEW r \in Requests, pc[r] = "signing",
           pool' = pool \/ Accept(r), UNCHANGED <<txNonce, mined, dropped>>
    PROVE  /\ pool' \in {pool, pool \cup {r}}
           /\ \A s \in pool' : txNonce'[s] >= Len(mined')
           /\ \A s, t \in pool' : txNonce'[s] = txNonce'[t] => s = t
<1>1. Fresh(r)
  BY DEF Sends
<1>2. pool' \in {pool, pool \cup {r}}
  BY <1>1 DEF Accept, Fresh
<1> QED
  BY <1>1, <1>2 DEF Sends, Fresh

LEMMA SendsStep ==
    ASSUME TypeOK, Phases, Sends, [Next]_vars
    PROVE  Sends'
<1> USE DEF processVars, spendVars, handlerVars, nodeVars
<1>1. ASSUME NEW r \in Requests,
             \/ \E a \in Accounts, n \in 0 .. MaxNonce, stated \in BOOLEAN :
                   Post(r, a, n, stated)
             \/ CheckNonce(r) \/ NonceReadFails(r)
             \/ \E g \in GasUses : EstimateGas(r, g)
             \/ RefuseUnpriced(r)
             \/ \E p \in Prices : RefuseOverBudget(r, p)
             \/ Reconcile(r) \/ ReceiptNeverArrives(r)
      PROVE  Sends'
  <2>1. UNCHANGED <<txNonce, pool, mined, dropped, queue>>
    BY <1>1 DEF Post, CheckNonce, NonceReadFails, EstimateGas, RefuseUnpriced,
                RefuseOverBudget, Reconcile, ReceiptNeverArrives
  <2>2. ASSUME NEW s \in Requests
        PROVE  /\ pc'[s] = "signing" => pc[s] = "signing"
               /\ pc'[s] \in Early \cup {"queued"} => pc[s] \in Early \cup {"queued"}
               /\ answer'[s] = "hash" => answer[s] = "hash"
    BY <1>1 DEF Post, CheckNonce, NonceReadFails, EstimateGas, RefuseUnpriced,
                RefuseOverBudget, Reconcile, ReceiptNeverArrives, Answered, TypeOK, Early
  <2> QED
    BY <2>1, <2>2 DEF Sends, NothingReplaced, MyTurn, Fresh, Mined
<1>2. ASSUME NEW r \in Requests, NEW p \in Prices, Enqueue(r, p) PROVE Sends'
  <2>1. UNCHANGED <<txNonce, pool, mined, dropped, answer>> /\ queue' = Append(queue, r)
    BY <1>2 DEF Enqueue
  <2>2. ASSUME NEW s \in Requests
        PROVE  /\ pc'[s] = "signing" => pc[s] = "signing"
               /\ pc'[s] \in Early \cup {"queued"} => pc[s] \in Early \cup {"queued"}
    BY <1>2 DEF Enqueue, TypeOK, Early
  <2>3. ASSUME NEW s \in Requests, MyTurn(s) PROVE MyTurn(s)'
    <3>1. queue \in Seq(Requests) /\ queue # <<>> /\ Head(queue) = s
      BY <2>3 DEF MyTurn, TypeOK
    <3>2. Len(queue) \in Nat /\ Len(queue) >= 1
      BY <3>1, EmptySeq, LenProperties
    <3>3. queue' # <<>> /\ queue'[1] = queue[1]
      BY <2>1, <3>1, <3>2, AppendProperties
    <3>4. Head(queue') = Head(queue)
      BY <2>1, <3>1, <3>2, <3>3
    <3> QED
      BY <3>1, <3>3, <3>4 DEF MyTurn
  <2> QED
    BY <2>1, <2>2, <2>3 DEF Sends, NothingReplaced, Fresh, Mined
<1>3. ASSUME NEW r \in Requests, StartSend(r) PROVE Sends'
  <2>1. UNCHANGED <<pool, mined, dropped, answer, queue>>
    BY <1>3 DEF StartSend
  <2>2. r \notin pool /\ MyTurn(r)
    BY <1>3 DEF StartSend, Sends
  <2>3. txNonce' = [txNonce EXCEPT ![r] = PendingCount]
    BY <1>3 DEF StartSend
  <2>4. Fresh(r)'
    BY <2>1, <2>2, <2>3, PendingCountFree DEF Fresh, TypeOK
  <2>5. ASSUME NEW s \in Requests, pc'[s] = "signing" PROVE s = r
    BY <1>3, <2>5, OneSigns DEF StartSend, TypeOK
  <2>6. ASSUME NEW s \in Requests, pc'[s] \in Early \cup {"queued"}
        PROVE  pc[s] \in Early \cup {"queued"}
    BY <1>3, <2>6 DEF StartSend, TypeOK, Early
  <2>7. \A s \in pool : txNonce'[s] = txNonce[s]
    BY <2>2, <2>3 DEF TypeOK
  <2> QED
    BY <2>1, <2>2, <2>4, <2>5, <2>6, <2>7 DEF Sends, NothingReplaced, MyTurn, Mined
<1>4. ASSUME NEW r \in Requests, Broadcast(r) \/ BroadcastFails(r) PROVE Sends'
  <2>1. /\ pc[r] = "signing"
        /\ UNCHANGED <<txNonce, mined, dropped>>
        /\ pool' = pool \/ Accept(r)
    BY <1>4 DEF Broadcast, BroadcastFails
  <2>2. ASSUME NEW s \in Requests
        PROVE  /\ pc'[s] # "signing"
               /\ pc'[s] \in Early \cup {"queued"} => pc[s] \in Early \cup {"queued"} /\ s # r
    <3>1. s # r => pc[s] # "signing"
      BY <2>1, OneSigns DEF Sends
    <3> QED
      BY <1>4, <3>1 DEF Broadcast, BroadcastFails, Answered, TypeOK, Early
  <2>3. \A s \in Requests : answer'[s] = "hash" => answer[s] = "hash" \/ (s = r /\ r \in pool')
    BY <1>4 DEF Broadcast, BroadcastFails, Answered, Accept, TypeOK
  <2> QED
    BY <2>1, <2>2, <2>3, NodeAccepts DEF Sends, NothingReplaced, Mined
<1>5. ASSUME NEW r \in Requests, NEW used \in GasUses, NEW p \in Prices, Mine(r, used, p)
      PROVE  Sends'
  <2>1. /\ UNCHANGED <<txNonce, dropped, pc, answer, queue>>
        /\ r \in pool /\ pool' = pool \ {r}
        /\ txNonce[r] = Len(mined)
        /\ mined' = Append(mined, r)
    BY <1>5 DEF Mine
  <2>2. Mined' = Mined \cup {r} /\ Len(mined') = Len(mined) + 1
    BY <2>1, MinedGrows DEF TypeOK
  <2>3. /\ txNonce \in [Requests -> Nat] /\ Len(mined) \in Nat
        /\ pool \subseteq Requests
    BY LenProperties DEF TypeOK
  <2> HIDE DEF processVars, spendVars, handlerVars, nodeVars, Mined
  <2>4. \A s \in pool' : txNonce'[s] >= Len(mined')
    BY <2>1, <2>2, <2>3 DEF Sends
  <2>5. ASSUME NEW s \in Requests, Fresh(s) PROVE Fresh(s)'
    BY <2>1, <2>2, <2>3, <2>5 DEF Fresh
  <2>6. NothingReplaced'
    BY <2>1, <2>2 DEF Sends, NothingReplaced
  <2> QED
    BY <2>1, <2>4, <2>5, <2>6 DEF Sends, MyTurn
<1>6. ASSUME NEW r \in Requests, Drop(r) PROVE Sends'
  BY <1>6 DEF Drop, Sends, NothingReplaced, MyTurn, Fresh, Mined
<1>7. CASE Restart
  <2>1. /\ UNCHANGED <<txNonce, mined, dropped>>
        /\ \/ pool' = pool
           \/ \E r \in Requests : pc[r] = "signing" /\ Accept(r)
    BY <1>7 DEF Restart
  <2>2. \A s \in Requests : /\ pc'[s] \notin {"queued", "signing"}
                            /\ pc'[s] \in Early => pc[s] \in Early
                            /\ answer'[s] = "hash" => answer[s] = "hash"
    BY <1>7 DEF Restart, Early
  <2>3. CASE pool' = pool
    BY <2>1, <2>2, <2>3 DEF Sends, NothingReplaced, Mined
  <2>4. ASSUME NEW r \in Requests, pc[r] = "signing", Accept(r) PROVE Sends'
    <3>1. r \notin {s \in Requests : pc[s] \in Early}
      BY <2>4 DEF Early
    <3> QED
      BY <2>1, <2>2, <2>4, <3>1, NodeAccepts DEF Sends, NothingReplaced, Mined
  <2> QED
    BY <2>1, <2>3, <2>4
<1>8. CASE (Tick /\ UNCHANGED <<handlerVars, nodeVars>>) \/ UNCHANGED vars
  BY <1>8 DEF vars, Sends, NothingReplaced, MyTurn, Fresh, Mined
<1> HIDE DEF processVars, spendVars, handlerVars, nodeVars
<1> QED
  BY <1>1, <1>2, <1>3, <1>4, <1>5, <1>6, <1>7, <1>8 DEF Next, Handle

-----------------------------------------------------------------------------
(* The rate limit. *)

\* A request is admitted when fewer than the limit are in the window that ends
\* now; and a window that holds now holds, of what was admitted before, only that.
LEMMA RateStep ==
    ASSUME TypeOK, Phases, Books, RateLimited, [Next]_vars
    PROVE  RateLimited'
<1> SUFFICES ASSUME NEW a \in Accounts, NEW t \in 0 .. MaxTime
             PROVE  Cardinality(Window(ReservedFor(a), t)') <= PerAccountRequests
  BY DEF RateLimited
<1> DEFINE before == Window(ReservedFor(a), t)
           after == Window(ReservedFor(a), t)'
<1>1. IsFiniteSet(before) /\ Cardinality(before) <= PerAccountRequests
  <2>1. before \subseteq Requests
    BY DEF Window, ReservedFor
  <2> QED
    BY <2>1, PolicyAssumption, FS_Subset DEF RateLimited
<1>2. ASSUME after \subseteq before PROVE Cardinality(after) <= PerAccountRequests
  <2>1. Cardinality(after) <= Cardinality(before)
    BY <1>1, <1>2, FS_Subset
  <2>2. Cardinality(after) \in Nat /\ Cardinality(before) \in Nat
    BY <1>1, <1>2, FS_Subset, FS_CardinalityType
  <2> QED
    BY <1>1, <2>1, <2>2, PolicyAssumption
<1>3. ASSUME \A s \in Requests : Reserved(s)' => /\ Reserved(s)
                                                 /\ req'[s] = req[s]
                                                 /\ spend'[s].at = spend[s].at
      PROVE  after \subseteq before
  BY <1>3 DEF Window, ReservedFor
<1>4. ASSUME NEW r \in Requests, Quiet(r) PROVE Cardinality(after) <= PerAccountRequests
  BY <1>2, <1>3, <1>4, QuietStep
<1>5. ASSUME NEW r \in Requests, NEW p \in Prices, Enqueue(r, p)
      PROVE  Cardinality(after) <= PerAccountRequests
  <2> DEFINE b == req[r].account
             held == Prune(perAccount[b])
  <2>1. /\ UNCHANGED <<req, forgotten, answer, now>>
        /\ Cardinality(held) < PerAccountRequests
        /\ \A s \in Requests : spend'[s].at = IF s = r THEN now ELSE spend[s].at
    BY <1>5 DEF Enqueue, Admit, Admissible, processVars, TypeOK, SpendTypeOK
  <2>2. \A s \in Requests : s # r /\ Reserved(s)' => Reserved(s)
    BY <1>5 DEF Enqueue, Reserved, processVars, TypeOK
  <2>3. /\ now \in Nat /\ WindowMs \in Nat /\ t \in Nat
        /\ \A s \in Requests : spend[s].at \in Nat
    BY PolicyAssumption DEF TypeOK, SpendTypeOK, Spend
  <2>4. CASE r \notin after
    BY <1>2, <2>1, <2>2, <2>4 DEF Window, ReservedFor
  <2>5. CASE r \in after
    <3>1. a = b /\ now <= t + WindowMs
      BY <2>1, <2>3, <2>5 DEF Window, ReservedFor
    <3>2. ASSUME NEW s \in after, s # r PROVE s \in held
      <4>1. s \in Requests /\ Reserved(s) /\ req[s].account = b
        BY <2>1, <2>2, <3>1, <3>2 DEF Window, ReservedFor
      <4>2. spend[s].at \in t .. t + WindowMs
        BY <2>1, <3>2, <4>1 DEF Window
      <4>3. spend[s].at + WindowMs >= now
        BY <2>3, <3>1, <4>1, <4>2
      <4> QED
        BY <4>1, <4>3 DEF Books, Booked, Prune
    <3>3. held \subseteq Requests
      <4>1. b \in Accounts
        BY <1>5 DEF Enqueue, Phases, Phase
      <4> QED
        BY <4>1 DEF Prune, TypeOK, SpendTypeOK
    <3>4. IsFiniteSet(held) /\ Cardinality(held) \in Nat
      BY <3>3, PolicyAssumption, FS_Subset, FS_CardinalityType
    <3>5. /\ IsFiniteSet(held \cup {r})
          /\ Cardinality(held \cup {r}) <= Cardinality(held) + 1
      <4> HIDE DEF held
      <4>1. /\ IsFiniteSet(held \cup {r})
            /\ Cardinality(held \cup {r}) =
                 IF r \in held THEN Cardinality(held) ELSE Cardinality(held) + 1
        BY <3>4, FS_AddElement
      <4> QED
        BY <3>4, <4>1
    <3>6. after \in SUBSET (held \cup {r})
      BY <3>2
    <3>7. Cardinality(after) <= Cardinality(held \cup {r})
      BY <3>5, <3>6, FS_Subset
    <3>8. Cardinality(after) \in Nat /\ Cardinality(held \cup {r}) \in Nat
      BY <3>5, <3>6, FS_Subset, FS_CardinalityType
    <3> QED
      BY <2>1, <3>4, <3>5, <3>7, <3>8, PolicyAssumption
  <2> QED
    BY <2>4, <2>5
<1>6. ASSUME NEW r \in Requests, BroadcastFails(r)
      PROVE  Cardinality(after) <= PerAccountRequests
  <2>1. \A s \in Requests : Reserved(s)' => Reserved(s)
    BY <1>6 DEF BroadcastFails, Answered, Reserved, TypeOK, processVars
  <2> QED
    BY <1>2, <1>3, <1>6, <2>1 DEF BroadcastFails, Release
<1>7. CASE Restart
  <2>1. \A s \in Requests : ~ Reserved(s)'
    BY <1>7 DEF Restart, Reserved, TypeOK, Phases, Phase
  <2> QED
    BY <1>2, <1>3, <2>1
<1>8. CASE (Tick /\ UNCHANGED <<handlerVars, nodeVars>>) \/ UNCHANGED vars
  <2>1. UNCHANGED <<pc, answer, req, forgotten, spend>>
    BY <1>8 DEF Tick, vars, spendVars, handlerVars, processVars
  <2> QED
    BY <1>2, <1>3, <2>1 DEF Reserved
<1> QED
  BY <1>4, <1>5, <1>6, <1>7, <1>8, StepKinds

-----------------------------------------------------------------------------
(* Sums of naturals are counts: of f[x] coins for each x. *)

Coins(f, S) == {c \in S \X Nat : c[2] \in 1 .. f[c[1]]}

LEMMA CoinsAdd ==
    ASSUME NEW f, NEW S, IsFiniteSet(Coins(f, S)), NEW x, f[x] \in Nat
    PROVE  /\ IsFiniteSet(Coins(f, S \cup {x}))
           /\ Cardinality(Coins(f, S \cup {x})) =
                 IF x \in S THEN Cardinality(Coins(f, S))
                 ELSE f[x] + Cardinality(Coins(f, S))
<1>1. CASE x \in S
  <2>1. S \cup {x} = S
    BY <1>1
  <2> QED
    BY <1>1, <2>1
<1>2. CASE x \notin S
  <2> DEFINE new == {x} \X (1 .. f[x])
             old == Coins(f, S)
  <2>1. Coins(f, S \cup {x}) = old \cup new
    BY DEF Coins
  <2>2. old \cap new = {}
    BY <1>2 DEF Coins
  <2>3. IsFiniteSet({x}) /\ Cardinality({x}) = 1
    BY FS_Singleton
  <2>4. IsFiniteSet(1 .. f[x]) /\ Cardinality(1 .. f[x]) = f[x]
    <3>1. 1 \in Int /\ f[x] \in Int
      OBVIOUS
    <3>2. /\ IsFiniteSet(1 .. f[x])
          /\ Cardinality(1 .. f[x]) = IF 1 > f[x] THEN 0 ELSE f[x] - 1 + 1
      BY <3>1, FS_Interval
    <3> QED
      BY <3>2
  <2>5. IsFiniteSet(new) /\ Cardinality(new) = Cardinality({x}) * Cardinality(1 .. f[x])
    BY <2>3, <2>4, FS_Product
  <2>6. Cardinality(new) = f[x]
    BY <2>3, <2>4, <2>5
  <2> HIDE DEF old, new
  <2>7. IsFiniteSet(old) /\ Cardinality(old) \in Nat
    BY FS_CardinalityType DEF old
  <2>8. /\ IsFiniteSet(old \cup new)
        /\ Cardinality(old \cup new) =
              Cardinality(old) + Cardinality(new) - Cardinality(old \cap new)
    BY <2>5, <2>7, FS_Union
  <2>9. Cardinality(old \cap new) = 0
    BY <2>2, FS_EmptySet
  <2>10. Cardinality(old \cup new) = f[x] + Cardinality(old)
    BY <2>6, <2>7, <2>8, <2>9
  <2>11. /\ IsFiniteSet(Coins(f, S \cup {x}))
         /\ Cardinality(Coins(f, S \cup {x})) = f[x] + Cardinality(old)
    BY <2>1, <2>8, <2>10
  <2> QED
    BY <1>2, <2>11 DEF old
<1> QED
  BY <1>1, <1>2

\* Of the subsets of S that are in Bad, one has all its proper subsets outside.
LEMMA SmallestSubset ==
    ASSUME NEW S, IsFiniteSet(S), NEW Bad \in SUBSET SUBSET S, Bad # {}
    PROVE  \E s \in Bad : \A x \in s : s \ {x} \notin Bad
<1> DEFINE sizes == {Cardinality(s) : s \in Bad}
<1>1. ASSUME NEW s \in Bad
      PROVE  IsFiniteSet(s) /\ Cardinality(s) \in Nat
  BY FS_Subset, FS_CardinalityType
<1>2. sizes \subseteq Nat /\ sizes # {}
  BY <1>1
<1>3. PICK n \in sizes : \A m \in sizes : n <= m
  <2> HIDE DEF sizes
  <2> QED
    BY <1>2, Least
<1>4. PICK s \in Bad : n = Cardinality(s)
  BY <1>3
<1>5. ASSUME NEW x \in s, s \ {x} \in Bad
      PROVE  FALSE
  <2>1. Cardinality(s \ {x}) = Cardinality(s) - 1
    BY <1>1, FS_RemoveElement
  <2>2. n <= Cardinality(s \ {x})
    BY <1>3, <1>5
  <2> QED
    BY <1>1, <1>4, <2>1, <2>2
<1> QED
  BY <1>5

LEMMA CoinsFinite ==
    ASSUME NEW S, IsFiniteSet(S), NEW f, \A x \in S : f[x] \in Nat
    PROVE  IsFiniteSet(Coins(f, S)) /\ Cardinality(Coins(f, S)) \in Nat
<1> DEFINE Bad == {s \in SUBSET S : ~ IsFiniteSet(Coins(f, s))}
<1>1. Bad = {}
  <2> SUFFICES ASSUME Bad # {} PROVE FALSE
    OBVIOUS
  <2>1. PICK s \in Bad : \A x \in s : s \ {x} \notin Bad
    <3>1. Bad \in SUBSET SUBSET S
      OBVIOUS
    <3> HIDE DEF Bad
    <3> QED
      BY <3>1, SmallestSubset
  <2>2. CASE s = {}
    <3>1. Coins(f, s) = {}
      BY <2>2 DEF Coins
    <3> QED
      BY <2>1, <3>1, FS_EmptySet
  <2>3. ASSUME NEW x \in s PROVE FALSE
    <3>1. IsFiniteSet(Coins(f, s \ {x})) /\ f[x] \in Nat
      BY <2>1
    <3>2. (s \ {x}) \cup {x} = s
      OBVIOUS
    <3>3. IsFiniteSet(Coins(f, (s \ {x}) \cup {x}))
      BY <3>1, CoinsAdd
    <3> QED
      BY <2>1, <3>2, <3>3
  <2> QED
    BY <2>2, <2>3
<1> QED
  BY <1>1, FS_CardinalityType

LEMMA SumIsCount ==
    ASSUME NEW S, IsFiniteSet(S), NEW f, \A x \in S : f[x] \in Nat
    PROVE  SumFunctionOnSet(f, S) = Cardinality(Coins(f, S))
<1> DEFINE count(s) == Cardinality(Coins(f, s))
           any(s) == CHOOSE x \in s : TRUE
           Sums(g) == g = [s \in SUBSET S |->
                             IF s = {} THEN 0 ELSE f[any(s)] + g[s \ {any(s)}]]
           sums == CHOOSE g : Sums(g)
<1>1. SumFunctionOnSet(f, S) = sums[S]
  BY DEF SumFunctionOnSet, FoldFunctionOnSet, MapThenFoldSet
<1>2. count({}) = 0
  <2>1. Coins(f, {}) = {}
    BY DEF Coins
  <2> QED
    BY <2>1, FS_EmptySet
<1>3. ASSUME NEW s \in SUBSET S, s # {}
      PROVE  /\ any(s) \in s
             /\ s \ {any(s)} \in SUBSET S
             /\ count(s) = f[any(s)] + count(s \ {any(s)})
  <2> DEFINE x == any(s)
             t == s \ {x}
  <2>1. x \in s
    BY <1>3
  <2> HIDE DEF x
  <2>2. t \in SUBSET S /\ x \notin t /\ t \cup {x} = s
    BY <2>1
  <2>3. f[x] \in Nat /\ IsFiniteSet(t) /\ \A y \in t : f[y] \in Nat
    BY <2>1, <2>2, FS_Subset
  <2> HIDE DEF t
  <2>4. IsFiniteSet(Coins(f, t))
    BY <2>3, CoinsFinite
  <2>5. Cardinality(Coins(f, t \cup {x})) = f[x] + Cardinality(Coins(f, t))
    BY <2>2, <2>3, <2>4, CoinsAdd
  <2> QED
    BY <2>1, <2>2, <2>5 DEF t, x
<1> HIDE DEF count, any
<1>4. Sums([s \in SUBSET S |-> count(s)])
  BY <1>2, <1>3
<1>5. Sums(sums)
  <2> HIDE DEF Sums
  <2> QED
    BY <1>4
<1>6. ASSUME NEW s \in SUBSET S
      PROVE  sums[s] = IF s = {} THEN 0 ELSE f[any(s)] + sums[s \ {any(s)}]
  <2> HIDE DEF sums
  <2> QED
    BY <1>5
<1> HIDE DEF sums
<1> DEFINE Bad == {s \in SUBSET S : sums[s] # count(s)}
<1>7. Bad = {}
  <2> SUFFICES ASSUME Bad # {} PROVE FALSE
    OBVIOUS
  <2>1. PICK s \in Bad : \A x \in s : s \ {x} \notin Bad
    <3>1. Bad \in SUBSET SUBSET S
      OBVIOUS
    <3> HIDE DEF Bad
    <3> QED
      BY <3>1, SmallestSubset
  <2>2. CASE s = {}
    BY <1>2, <1>6, <2>1, <2>2
  <2>3. CASE s # {}
    <3>1. sums[s \ {any(s)}] = count(s \ {any(s)})
      BY <1>3, <2>1, <2>3
    <3> QED
      BY <1>3, <1>6, <2>1, <2>3, <3>1
  <2> QED
    BY <2>2, <2>3
<1>8. sums[S] = count(S)
  BY <1>7
<1> QED
  BY <1>1, <1>8 DEF count

-----------------------------------------------------------------------------
(* What a reservation covers. *)

Quote(r) == gas[r] * price[r]

Owed == [r \in Requests |-> spend[r].wei]

Reservations == {r \in Requests : Reserved(r)}

\* While no reply is lost and prices do not rise, a reservation is worth at least
\* what its transaction cost or may cost, and without one there is no transaction.
Accounted(r) ==
    /\ r \in pool \cup Mined => pc[r] \in {"receipt", "done"}
    /\ r \in pool => r \notin Mined
    /\ r \in Admitted /\ ~ Reserved(r) => r \notin pool \cup Mined
    /\ Reserved(r) => IF r \in Mined THEN bill[r].wei <= spend[r].wei
                      ELSE Quote(r) = spend[r].wei

AllAccounted == \A r \in Requests : Accounted(r)

Within(S, budget) ==
    \A t \in 0 .. MaxTime : Cardinality(Coins(Owed, Window(S, t))) <= budget

Budgets ==
    /\ Within(Reservations, GlobalBudgetWei)
    /\ \A a \in Accounts : Within(ReservedFor(a), PerAccountBudgetWei)

LEMMA ProductsGrow ==
    ASSUME NEW a \in Nat, NEW b \in Nat, NEW c \in Nat, NEW d \in Nat, a <= c, b <= d
    PROVE  a * b <= c * d
<1>1. a * b <= c * b
  <2>1. c - a \in Nat
    OBVIOUS
  <2>2. c * b = a * b + (c - a) * b
    OBVIOUS
  <2>3. (c - a) * b \in Nat /\ a * b \in Nat
    BY <2>1
  <2> QED
    BY <2>2, <2>3
<1>2. c * b <= c * d
  <2>1. d - b \in Nat
    OBVIOUS
  <2>2. c * d = c * b + c * (d - b)
    OBVIOUS
  <2>3. c * (d - b) \in Nat /\ c * b \in Nat
    BY <2>1
  <2> QED
    BY <2>2, <2>3
<1>3. a * b \in Nat /\ c * b \in Nat /\ c * d \in Nat
  OBVIOUS
<1> QED
  BY <1>1, <1>2, <1>3

LEMMA AccountedStep ==
    ASSUME TypeOK, Phases, Sends, AllAccounted, ~ LostReplies, ~ PriceRises, [Next]_vars
    PROVE  AllAccounted'
<1> SUFFICES ASSUME NEW s \in Requests PROVE Accounted(s)'
  BY DEF AllAccounted
<1> DEFINE Unspent(x) == /\ UNCHANGED <<pool, mined, bill, spend, forgotten>>
                         /\ price'[x] = price[x]
                         /\ Reserved(x) => gas'[x] = gas[x]
<1>0. Accounted(s)
  BY DEF AllAccounted
<1>1. ASSUME Unspent(s), Reserved(s)' <=> Reserved(s),
             pc[s] \in {"receipt", "done"} => pc'[s] \in {"receipt", "done"}
      PROVE  Accounted(s)'
  <2>1. Reserved(s) => Quote(s)' = Quote(s)
    BY <1>1 DEF Quote
  <2>2. Mined' = Mined /\ (s \in Admitted)' = (s \in Admitted)
    BY <1>1 DEF Mined, Admitted
  <2> QED
    BY <1>0, <1>1, <2>1, <2>2 DEF Accounted
<1>2. ASSUME NEW r \in Requests,
             \/ \E a \in Accounts, n \in 0 .. MaxNonce, stated \in BOOLEAN :
                   Post(r, a, n, stated)
             \/ CheckNonce(r) \/ NonceReadFails(r)
             \/ \E g \in GasUses : EstimateGas(r, g)
             \/ RefuseUnpriced(r)
             \/ \E p \in Prices : RefuseOverBudget(r, p)
             \/ StartSend(r) \/ ReceiptNeverArrives(r)
      PROVE  Accounted(s)'
  <2>1. Reserved(s)' <=> Reserved(s)
    BY <1>2, QuietStep DEF Quiet
  <2>2. Unspent(s)
    BY <1>2 DEF Post, CheckNonce, NonceReadFails, EstimateGas, RefuseUnpriced,
                RefuseOverBudget, StartSend, ReceiptNeverArrives, KeepEstimate, Reserved,
                TypeOK, Phases, Phase, processVars, spendVars, nodeVars
  <2>3. pc[s] \in {"receipt", "done"} => pc'[s] \in {"receipt", "done"}
    BY <1>2 DEF Post, CheckNonce, NonceReadFails, EstimateGas, RefuseUnpriced,
                RefuseOverBudget, StartSend, ReceiptNeverArrives, Answered, TypeOK
  <2> QED
    BY <1>1, <2>1, <2>2, <2>3
<1>3. ASSUME NEW r \in Requests, NEW p \in Prices, Enqueue(r, p) PROVE Accounted(s)'
  <2>1. /\ UNCHANGED <<pool, mined, bill, forgotten, gas, answer>>
        /\ pc[r] = "price"
        /\ pc' = [pc EXCEPT ![r] = "queued"]
        /\ price' = [price EXCEPT ![r] = p]
        /\ spend' = [spend EXCEPT ![r] = [at |-> now, wei |-> gas[r] * p]]
    BY <1>3 DEF Enqueue, Admit, nodeVars, processVars
  <2>2. CASE s = r
    <3>1. r \notin pool \cup Mined
      BY <1>0, <2>1, <2>2 DEF Accounted
    <3>2. Reserved(r)'
      BY <2>1, <1>3 DEF Reserved, TypeOK, Phases, Phase
    <3>3. Quote(r)' = spend'[r].wei
      BY <2>1 DEF Quote, TypeOK, SpendTypeOK
    <3> QED
      BY <2>1, <2>2, <3>1, <3>2, <3>3 DEF Accounted, Mined
  <2>3. CASE s # r
    <3>1. Reserved(s)' <=> Reserved(s)
      BY <2>1, <2>3 DEF Reserved, TypeOK
    <3>2. spend'[s] = spend[s] /\ price'[s] = price[s] /\ pc'[s] = pc[s]
      BY <2>1, <2>3 DEF TypeOK, SpendTypeOK
    <3>3. Quote(s)' = Quote(s) /\ Mined' = Mined /\ (s \in Admitted)' = (s \in Admitted)
      BY <2>1, <3>2 DEF Quote, Mined, Admitted
    <3> QED
      BY <1>0, <2>1, <3>1, <3>2, <3>3 DEF Accounted
  <2> QED
    BY <2>2, <2>3
<1>4. ASSUME NEW r \in Requests, Broadcast(r) PROVE Accounted(s)'
  <2>1. Reserved(s)' <=> Reserved(s)
    BY <1>4, QuietStep DEF Quiet
  <2>2. /\ UNCHANGED <<mined, bill, spend, forgotten, price, gas>>
        /\ pc[r] = "signing"
        /\ pc' = [pc EXCEPT ![r] = "receipt"]
        /\ pool' \subseteq pool \cup {r}
    BY <1>4 DEF Broadcast, Accept, processVars, spendVars
  <2>3. Quote(s)' = Quote(s) /\ Mined' = Mined /\ (s \in Admitted)' = (s \in Admitted)
    BY <2>2 DEF Quote, Mined, Admitted
  <2>4. s = r => Reserved(s) /\ s \notin Mined
    BY <1>0, <2>2, InFlightIsReserved DEF Accounted
  <2> QED
    BY <1>0, <2>1, <2>2, <2>3, <2>4 DEF Accounted, TypeOK
<1>5. ASSUME NEW r \in Requests, BroadcastFails(r) PROVE Accounted(s)'
  <2>1. /\ UNCHANGED <<mined, bill, spend, forgotten, price, gas, pool>>
        /\ pc[r] = "signing"
        /\ pc' = [pc EXCEPT ![r] = "done"]
        /\ answer' = [answer EXCEPT ![r] = "failed"]
    BY <1>5 DEF BroadcastFails, Release, Answered, processVars
  <2>2. Reserved(s)' <=> Reserved(s) /\ s # r
    BY <2>1 DEF Reserved, TypeOK
  <2>3. Quote(s)' = Quote(s) /\ Mined' = Mined /\ (s \in Admitted)' = (s \in Admitted)
    BY <2>1 DEF Quote, Mined, Admitted
  <2>4. s = r => s \notin pool \cup Mined
    BY <1>0, <2>1 DEF Accounted
  <2> QED
    BY <1>0, <2>1, <2>2, <2>3, <2>4 DEF Accounted, TypeOK
<1>6. ASSUME NEW r \in Requests, Reconcile(r) PROVE Accounted(s)'
  <2>1. Reserved(s)' <=> Reserved(s)
    BY <1>6, QuietStep DEF Quiet
  <2>2. /\ UNCHANGED <<mined, bill, forgotten, price, gas, pool>>
        /\ r \in Mined
        /\ pc' = [pc EXCEPT ![r] = "done"]
        /\ spend' = [spend EXCEPT ![r].wei = bill[r].wei]
    BY <1>6 DEF Reconcile, Settle, processVars, nodeVars
  <2>3. Quote(s)' = Quote(s) /\ Mined' = Mined /\ (s \in Admitted)' = (s \in Admitted)
    BY <2>2 DEF Quote, Mined, Admitted
  <2>4. CASE s = r
    <3>1. spend'[r].wei = bill'[r].wei /\ bill'[r].wei \in Nat
      BY <2>2 DEF TypeOK, SpendTypeOK, Spend
    <3> QED
      BY <1>0, <2>1, <2>2, <2>3, <2>4, <3>1 DEF Accounted, TypeOK
  <2>5. CASE s # r
    <3>1. spend'[s] = spend[s]
      BY <2>2, <2>5 DEF TypeOK, SpendTypeOK
    <3> QED
      BY <1>0, <2>1, <2>2, <2>3, <2>5, <3>1 DEF Accounted, TypeOK
  <2> QED
    BY <2>4, <2>5
<1>7. ASSUME NEW r \in Requests, NEW used \in GasUses, NEW p \in Prices, Mine(r, used, p)
      PROVE  Accounted(s)'
  <2>1. Reserved(s)' <=> Reserved(s)
    BY <1>7, QuietStep DEF Quiet
  <2>2. /\ UNCHANGED <<spend, forgotten, price, gas, pc>>
        /\ r \in pool /\ pool' = pool \ {r}
        /\ used <= gas[r] /\ p <= price[r]
        /\ mined' = Append(mined, r)
        /\ bill' = [bill EXCEPT ![r] = [at |-> now, wei |-> used * p]]
    BY <1>7 DEF Mine, spendVars, handlerVars, processVars
  <2>3. Quote(s)' = Quote(s) /\ (s \in Admitted)' = (s \in Admitted)
    BY <2>2 DEF Quote, Admitted
  <2>4. Mined' = Mined \cup {r}
    BY <2>2, MinedGrows DEF TypeOK
  <2>5. CASE s = r
    <3>1. bill'[s].wei <= Quote(s)
      <4>1. used * p <= gas[r] * price[r]
        BY <2>2, RelayerAssumption, ProductsGrow DEF TypeOK
      <4>2. bill'[r].wei = used * p
        BY <2>2 DEF TypeOK
      <4> QED
        BY <2>5, <4>1, <4>2 DEF Quote
    <3> QED
      BY <1>0, <2>1, <2>2, <2>3, <2>4, <2>5, <3>1 DEF Accounted
  <2>6. CASE s # r
    <3>1. bill'[s] = bill[s]
      BY <2>2, <2>6 DEF TypeOK
    <3> QED
      BY <1>0, <2>1, <2>2, <2>3, <2>4, <2>6, <3>1 DEF Accounted
  <2> QED
    BY <2>5, <2>6
<1>8. ASSUME NEW r \in Requests, Drop(r) PROVE Accounted(s)'
  <2>1. Reserved(s)' <=> Reserved(s)
    BY <1>8, QuietStep DEF Quiet
  <2>2. /\ UNCHANGED <<spend, forgotten, price, gas, pc, mined, bill>>
        /\ pool' = pool \ {r}
    BY <1>8 DEF Drop, spendVars, handlerVars, processVars
  <2>3. Quote(s)' = Quote(s) /\ Mined' = Mined /\ (s \in Admitted)' = (s \in Admitted)
    BY <2>2 DEF Quote, Mined, Admitted
  <2> QED
    BY <1>0, <2>1, <2>2, <2>3 DEF Accounted
<1>9. CASE Restart
  <2>1. ~ Reserved(s)'
    BY <1>9 DEF Restart, Reserved, TypeOK, Phases, Phase
  <2>2. (s \notin Admitted)'
    BY <1>9 DEF Restart, Admitted
  <2>3. /\ Mined' = Mined
        /\ pc[s] \in {"receipt", "done"} => pc'[s] = "done"
        /\ s \in pool' => s \in pool \/ (pc[s] = "signing" /\ pc'[s] = "done")
    BY <1>9 DEF Restart, Accept, Mined
  <2> QED
    BY <1>0, <2>1, <2>2, <2>3 DEF Accounted
<1>10. CASE (Tick /\ UNCHANGED <<handlerVars, nodeVars>>) \/ UNCHANGED vars
  <2>1. UNCHANGED <<pc, answer, forgotten, spend, pool, mined, bill, price, gas>>
    BY <1>10 DEF Tick, vars, spendVars, handlerVars, processVars, nodeVars
  <2> QED
    BY <1>1, <2>1 DEF Reserved
<1> QED
  BY <1>2, <1>3, <1>4, <1>5, <1>6, <1>7, <1>8, <1>9, <1>10 DEF Next, Handle

-----------------------------------------------------------------------------
(* The budgets. *)

LEMMA CoinsFewer ==
    ASSUME NEW S, IsFiniteSet(S), NEW f, \A x \in S : f[x] \in Nat,
           NEW T \in SUBSET S, NEW g, \A x \in T : g[x] \in Nat /\ g[x] <= f[x]
    PROVE  /\ Cardinality(Coins(f, S)) \in Nat
           /\ Cardinality(Coins(g, T)) \in Nat
           /\ Cardinality(Coins(g, T)) <= Cardinality(Coins(f, S))
<1>1. IsFiniteSet(Coins(f, S)) /\ Cardinality(Coins(f, S)) \in Nat
  BY CoinsFinite
<1>2. IsFiniteSet(T)
  BY FS_Subset
<1>3. Cardinality(Coins(g, T)) \in Nat
  BY <1>2, CoinsFinite
<1>4. Coins(g, T) \in SUBSET Coins(f, S)
  <2>1. ASSUME NEW c \in Coins(g, T) PROVE c \in Coins(f, S)
    <3>1. /\ c \in T \X Nat /\ c \in S \X Nat
          /\ c[1] \in T /\ c[2] \in Nat /\ c[2] \in 1 .. g[c[1]]
      BY DEF Coins
    <3>2. g[c[1]] \in Nat /\ f[c[1]] \in Nat /\ g[c[1]] <= f[c[1]]
      BY <3>1
    <3>3. c[2] \in 1 .. f[c[1]]
      BY <3>1, <3>2
    <3> QED
      BY <3>1, <3>3 DEF Coins
  <2> QED
    BY <2>1
<1> QED
  BY <1>1, <1>3, <1>4, FS_Subset

\* A step that reserves nothing new and raises no amount keeps a budget.
LEMMA BudgetKept ==
    ASSUME TypeOK, NEW S \in SUBSET Requests, NEW budget \in Nat, Within(S, budget),
           NEW U \in SUBSET S,
           \A s \in U : /\ spend'[s].at = spend[s].at
                        /\ spend'[s].wei \in Nat
                        /\ spend'[s].wei <= spend[s].wei,
           NEW t \in 0 .. MaxTime
    PROVE  Cardinality(Coins(Owed', {s \in U : spend'[s].at \in t .. t + WindowMs})) <= budget
<1> DEFINE before == Window(S, t)
           after == {s \in U : spend'[s].at \in t .. t + WindowMs}
<1>1. before \in SUBSET Requests /\ after \in SUBSET before
  BY DEF Window
<1>2. IsFiniteSet(before)
  BY <1>1, PolicyAssumption, FS_Subset
<1>3. \A s \in before : Owed[s] \in Nat
  BY <1>1 DEF Owed, TypeOK, SpendTypeOK, Spend
<1>4. \A s \in after : Owed'[s] \in Nat /\ Owed'[s] <= Owed[s]
  BY <1>1 DEF Owed
<1>5. Cardinality(Coins(Owed, before)) <= budget
  BY DEF Within
<1> HIDE DEF before, after
<1>6. /\ Cardinality(Coins(Owed, before)) \in Nat
      /\ Cardinality(Coins(Owed', after)) \in Nat
      /\ Cardinality(Coins(Owed', after)) <= Cardinality(Coins(Owed, before))
  BY <1>1, <1>2, <1>3, <1>4, CoinsFewer
<1>7. Cardinality(Coins(Owed', after)) <= budget
  BY <1>5, <1>6
<1> QED
  BY <1>7 DEF after

\* A reservation that fits next to the pruned list keeps the list's budget: a
\* window that holds now holds, of what was reserved before, only pruned ones.
LEMMA BudgetTaken ==
    ASSUME TypeOK, NEW S \in SUBSET Requests, NEW budget \in Nat, Within(S, budget),
           NEW r \in Requests, r \notin S, NEW wei \in Nat,
           spend' = [spend EXCEPT ![r] = [at |-> now, wei |-> wei]],
           NEW list \in SUBSET Requests, r \notin list,
           \A s \in S : spend[s].at + WindowMs >= now => s \in list,
           Total(Prune(list)) + wei <= budget,
           NEW t \in 0 .. MaxTime
    PROVE  Cardinality(Coins(Owed', {s \in S \cup {r} : spend'[s].at \in t .. t + WindowMs}))
              <= budget
<1> DEFINE held == Prune(list)
           after == {s \in S \cup {r} : spend'[s].at \in t .. t + WindowMs}
<1>1. /\ now \in Nat /\ WindowMs \in Nat /\ t \in Nat
      /\ \A s \in Requests : spend[s].at \in Nat /\ spend[s].wei \in Nat
  BY PolicyAssumption, SpendTypes
<1>2. /\ \A s \in Requests \ {r} : spend'[s] = spend[s]
      /\ spend'[r].at = now /\ spend'[r].wei = wei
  <2>1. DOMAIN spend = Requests
    BY DEF TypeOK, SpendTypeOK
  <2>2. spend'[r] = [at |-> now, wei |-> wei]
    BY <2>1
  <2> QED
    BY <2>1, <2>2
<1>3. /\ \A s \in Requests \ {r} : Owed'[s] = Owed[s]
      /\ Owed'[r] = wei
      /\ \A s \in Requests : Owed[s] \in Nat /\ Owed'[s] \in Nat
  BY <1>1, <1>2 DEF Owed
<1>4. CASE now \notin t .. t + WindowMs
  <2>1. after = {s \in S : spend'[s].at \in t .. t + WindowMs}
    BY <1>2, <1>4
  <2>2. \A s \in S : /\ spend'[s].at = spend[s].at
                     /\ spend'[s].wei \in Nat
                     /\ spend'[s].wei <= spend[s].wei
    BY <1>1, <1>2
  <2> HIDE DEF after
  <2>3. Cardinality(Coins(Owed', {s \in S : spend'[s].at \in t .. t + WindowMs})) <= budget
    BY <2>2, BudgetKept
  <2> QED
    BY <2>1, <2>3 DEF after
<1>5. CASE now \in t .. t + WindowMs
  <2>1. held \in SUBSET Requests /\ r \notin held
    BY DEF Prune
  <2>2. after \in SUBSET (held \cup {r})
    <3>1. ASSUME NEW s \in after, s # r PROVE s \in held
      <4>1. s \in S /\ spend[s].at \in t .. t + WindowMs /\ spend[s].at \in Nat
        BY <1>1, <1>2, <3>1
      <4>2. spend[s].at + WindowMs >= now
        BY <1>1, <1>5, <4>1
      <4> QED
        BY <4>1, <4>2 DEF Prune
    <3> QED
      BY <3>1
  <2>3. IsFiniteSet(held) /\ IsFiniteSet(held \cup {r})
    BY <2>1, PolicyAssumption, FS_Subset, FS_AddElement
  <2>4. Total(held) = Cardinality(Coins(Owed, held))
    <3>1. Total(held) = SumFunctionOnSet(Owed, held)
      BY DEF Total, Owed
    <3> QED
      BY <1>3, <2>1, <2>3, <3>1, SumIsCount
  <2> HIDE DEF after, held
  <2>5. /\ IsFiniteSet(Coins(Owed', held))
        /\ Cardinality(Coins(Owed', held)) = Cardinality(Coins(Owed, held))
        /\ Cardinality(Coins(Owed, held)) \in Nat
    <3>1. Coins(Owed', held) = Coins(Owed, held)
      BY <1>3, <2>1 DEF Coins
    <3> QED
      BY <1>3, <2>1, <2>3, <3>1, CoinsFinite
  <2>6. Cardinality(Coins(Owed', held \cup {r})) = wei + Cardinality(Coins(Owed, held))
    BY <1>3, <2>1, <2>5, CoinsAdd
  <2>7. /\ Cardinality(Coins(Owed', after)) \in Nat
        /\ Cardinality(Coins(Owed', after)) <= Cardinality(Coins(Owed', held \cup {r}))
    <3>1. \A s \in held \cup {r} : Owed'[s] \in Nat
      BY <1>3, <2>1
    <3>2. \A s \in after : Owed'[s] \in Nat /\ Owed'[s] <= Owed'[s]
      BY <2>2, <3>1
    <3> QED
      BY <2>2, <2>3, <3>1, <3>2, CoinsFewer
  <2>8. Total(held) + wei <= budget
    BY DEF held
  <2>9. Cardinality(Coins(Owed', after)) <= budget
    BY <2>4, <2>5, <2>6, <2>7, <2>8
  <2> QED
    BY <2>9 DEF after
<1> QED
  BY <1>4, <1>5

LEMMA BudgetsStep ==
    ASSUME TypeOK, Phases, Books, AllAccounted, Budgets, [Next]_vars
    PROVE  Budgets'
<1>1. ASSUME NEW t \in 0 .. MaxTime
      PROVE  /\ Window(Reservations, t)' =
                   {s \in Reservations' : spend'[s].at \in t .. t + WindowMs}
             /\ \A a \in Accounts :
                   Window(ReservedFor(a), t)' =
                      {s \in ReservedFor(a)' : spend'[s].at \in t .. t + WindowMs}
  BY DEF Window
<1>2. /\ GlobalBudgetWei \in Nat /\ PerAccountBudgetWei \in Nat
      /\ Reservations \in SUBSET Requests
      /\ \A a \in Accounts : ReservedFor(a) \in SUBSET Requests
  BY PolicyAssumption DEF Reservations, ReservedFor
<1>3. ASSUME \A s \in Requests : Reserved(s)' => /\ Reserved(s)
                                                 /\ req'[s] = req[s]
                                                 /\ spend'[s].at = spend[s].at
                                                 /\ spend'[s].wei \in Nat
                                                 /\ spend'[s].wei <= spend[s].wei
      PROVE  Budgets'
  <2>1. /\ Reservations' \in SUBSET Reservations
        /\ \A a \in Accounts : ReservedFor(a)' \in SUBSET ReservedFor(a)
    BY <1>3 DEF Reservations, ReservedFor
  <2>2. \A s \in Reservations' : /\ spend'[s].at = spend[s].at
                                 /\ spend'[s].wei \in Nat
                                 /\ spend'[s].wei <= spend[s].wei
    BY <1>3 DEF Reservations
  <2>3. \A a \in Accounts : ReservedFor(a)' \in SUBSET Reservations'
    BY DEF Reservations, ReservedFor
  <2>4. ASSUME NEW t \in 0 .. MaxTime
        PROVE  Cardinality(Coins(Owed, Window(Reservations, t)))' <= GlobalBudgetWei
    <3>1. Within(Reservations, GlobalBudgetWei)
      BY DEF Budgets
    <3>2. Cardinality(Coins(Owed', {s \in Reservations' : spend'[s].at \in t .. t + WindowMs}))
             <= GlobalBudgetWei
      BY <1>2, <2>1, <2>2, <3>1, BudgetKept
    <3> QED
      BY <1>1, <3>2
  <2>5. ASSUME NEW a \in Accounts, NEW t \in 0 .. MaxTime
        PROVE  Cardinality(Coins(Owed, Window(ReservedFor(a), t)))' <= PerAccountBudgetWei
    <3>1. Within(ReservedFor(a), PerAccountBudgetWei)
      BY DEF Budgets
    <3>2. \A s \in ReservedFor(a)' : /\ spend'[s].at = spend[s].at
                                     /\ spend'[s].wei \in Nat
                                     /\ spend'[s].wei <= spend[s].wei
      BY <2>2, <2>3
    <3>3. Cardinality(Coins(Owed', {s \in ReservedFor(a)' : spend'[s].at \in t .. t + WindowMs}))
             <= PerAccountBudgetWei
      BY <1>2, <2>1, <3>1, <3>2, BudgetKept
    <3> QED
      BY <1>1, <3>3
  <2> QED
    BY <2>4, <2>5 DEF Budgets, Within
<1>4. ASSUME NEW r \in Requests, Quiet(r) PROVE Budgets'
  <2>1. \A s \in Requests : Reserved(s)' => /\ Reserved(s)
                                            /\ req'[s] = req[s]
                                            /\ spend'[s].at = spend[s].at
    BY <1>4, QuietStep
  <2>2. ASSUME NEW s \in Requests, Reserved(s)
        PROVE  spend'[s].wei \in Nat /\ spend'[s].wei <= spend[s].wei
    <3>1. CASE UNCHANGED spend
      BY <3>1, SpendTypes
    <3>2. CASE Reconcile(r)
      <4>1. /\ r \in Mined
            /\ spend' = [spend EXCEPT ![r].wei = bill[r].wei]
        BY <3>2 DEF Reconcile, Settle
      <4>2. s = r => bill[r].wei <= spend[r].wei
        BY <2>2, <4>1 DEF AllAccounted, Accounted
      <4>3. bill[r].wei \in Nat /\ spend[s].wei \in Nat
        <5>1. bill \in [Requests -> [at : Nat, wei : Nat]]
          BY DEF TypeOK, Spend
        <5>2. bill[r] \in [at : Nat, wei : Nat]
          BY ONLY <5>1, r \in Requests
        <5> QED
          BY <5>2, SpendTypes
      <4>4. spend'[s].wei = IF s = r THEN bill[r].wei ELSE spend[s].wei
        BY <4>1, SpendTypes
      <4> QED
        BY <4>2, <4>3, <4>4
    <3>3. UNCHANGED spend \/ Reconcile(r)
      BY <1>4 DEF Quiet, Post, CheckNonce, NonceReadFails, EstimateGas, RefuseUnpriced,
                  RefuseOverBudget, StartSend, Broadcast, ReceiptNeverArrives,
                  KeepEstimate, Mine, Drop, spendVars
    <3> QED
      BY <3>1, <3>2, <3>3
  <2> QED
    BY <1>3, <2>1, <2>2
<1>5. ASSUME NEW r \in Requests, NEW p \in Prices, Enqueue(r, p) PROVE Budgets'
  <2> DEFINE wei == gas[r] * p
  <2>0. PICK b \in Accounts : b = req[r].account
    BY <1>5 DEF Enqueue, Admit, Admissible, Phases, Phase
  <2>1. /\ UNCHANGED <<req, forgotten, answer>>
        /\ pc[r] = "price"
        /\ pc' = [pc EXCEPT ![r] = "queued"]
        /\ spend' = [spend EXCEPT ![r] = [at |-> now, wei |-> wei]]
        /\ Total(Prune(perAccount[b])) + wei <= PerAccountBudgetWei
        /\ Total(Prune(global)) + wei <= GlobalBudgetWei
    BY <1>5, <2>0 DEF Enqueue, Admit, Admissible, processVars
  <2>2. /\ wei \in Nat
        /\ ~ Reserved(r)
        /\ perAccount[b] \in SUBSET Requests /\ global \in SUBSET Requests
    BY <2>1, RelayerAssumption
       DEF TypeOK, SpendTypeOK, Reserved, Phases, Phase
  <2>3. \A s \in Requests : Reserved(s)' <=> Reserved(s) \/ s = r
    BY <2>1, <2>2 DEF Reserved, TypeOK, Phases, Phase
  <2>4. /\ r \notin global /\ r \notin perAccount[b]
        /\ \A s \in Reservations : spend[s].at + WindowMs >= now => s \in global
        /\ \A s \in ReservedFor(b) : spend[s].at + WindowMs >= now => s \in perAccount[b]
    BY <2>0, <2>2 DEF Books, Booked, Reservations, ReservedFor
  <2>5. /\ Reservations' = Reservations \cup {r}
        /\ ReservedFor(b)' = ReservedFor(b) \cup {r}
        /\ \A a \in Accounts \ {b} : ReservedFor(a)' = ReservedFor(a)
        /\ r \notin Reservations
        /\ \A a \in Accounts : r \notin ReservedFor(a)
    BY <2>0, <2>1, <2>2, <2>3 DEF Reservations, ReservedFor
  <2> HIDE DEF wei
  <2>6. ASSUME NEW t \in 0 .. MaxTime
        PROVE  Cardinality(Coins(Owed, Window(Reservations, t)))' <= GlobalBudgetWei
    <3>1. Within(Reservations, GlobalBudgetWei)
      BY DEF Budgets
    <3>2. Cardinality(Coins(Owed', {s \in Reservations \cup {r} :
                                       spend'[s].at \in t .. t + WindowMs})) <= GlobalBudgetWei
      BY <1>2, <2>1, <2>2, <2>4, <2>5, <3>1, BudgetTaken
    <3> QED
      BY <1>1, <2>5, <3>2
  <2>7. ASSUME NEW a \in Accounts, NEW t \in 0 .. MaxTime
        PROVE  Cardinality(Coins(Owed, Window(ReservedFor(a), t)))' <= PerAccountBudgetWei
    <3>1. Within(ReservedFor(a), PerAccountBudgetWei)
      BY DEF Budgets
    <3>2. CASE a = b
      <4>1. Within(ReservedFor(b), PerAccountBudgetWei)
        BY DEF Budgets
      <4>2. Cardinality(Coins(Owed', {s \in ReservedFor(b) \cup {r} :
                                         spend'[s].at \in t .. t + WindowMs}))
               <= PerAccountBudgetWei
        <5> DEFINE S == ReservedFor(b)
                   list == perAccount[b]
        <5>1. S \in SUBSET Requests /\ r \notin S /\ PerAccountBudgetWei \in Nat
          BY <1>2, <2>5
        <5>2. /\ list \in SUBSET Requests /\ r \notin list
              /\ \A s \in S : spend[s].at + WindowMs >= now => s \in list
          BY <2>2, <2>4
        <5>3. Within(S, PerAccountBudgetWei) /\ Total(Prune(list)) + wei <= PerAccountBudgetWei
          BY <2>1, <4>1
        <5> HIDE DEF S, list
        <5>4. Cardinality(Coins(Owed', {s \in S \cup {r} : spend'[s].at \in t .. t + WindowMs}))
                 <= PerAccountBudgetWei
          BY <2>1, <2>2, <5>1, <5>2, <5>3, BudgetTaken
        <5> QED
          BY <5>4 DEF S
      <4>3. Cardinality(Coins(Owed, Window(ReservedFor(b), t)))' <= PerAccountBudgetWei
        BY <1>1, <2>5, <4>2
      <4> QED
        BY <3>2, <4>3
    <3>3. CASE a # b
      <4>1. \A s \in ReservedFor(a) : /\ spend'[s].at = spend[s].at
                                      /\ spend'[s].wei \in Nat
                                      /\ spend'[s].wei <= spend[s].wei
        <5>1. \A s \in Requests \ {r} : spend'[s] = spend[s] /\ spend[s].wei \in Nat
          BY <2>1 DEF TypeOK, SpendTypeOK, Spend
        <5>2. ReservedFor(a) \in SUBSET (Requests \ {r})
          BY <1>2, <2>5
        <5> QED
          BY <5>1, <5>2
      <4>2. Cardinality(Coins(Owed', {s \in ReservedFor(a) :
                                         spend'[s].at \in t .. t + WindowMs}))
               <= PerAccountBudgetWei
        BY <1>2, <3>1, <4>1, BudgetKept
      <4> QED
        BY <1>1, <2>5, <3>3, <4>2
    <3> QED
      BY <3>2, <3>3
  <2> QED
    BY <2>6, <2>7 DEF Budgets, Within
<1>6. ASSUME NEW r \in Requests, BroadcastFails(r) PROVE Budgets'
  <2>1. UNCHANGED <<req, spend>>
    BY <1>6 DEF BroadcastFails, Release
  <2>2. \A s \in Requests : Reserved(s)' => Reserved(s)
    BY <1>6 DEF BroadcastFails, Answered, Reserved, TypeOK, processVars
  <2> QED
    BY <1>3, <2>1, <2>2, SpendTypes
<1>7. CASE Restart
  <2>1. \A s \in Requests : /\ pc'[s] \in {"idle", "done"}
                            /\ pc'[s] = "done" => pc[s] # "idle"
                            /\ answer'[s] = "hash" => answer[s] = "hash"
    BY <1>7 DEF Restart
  <2>2. forgotten' = {s \in Requests : price[s] # 0}
    BY <1>7 DEF Restart
  <2>3. ASSUME NEW s \in Requests PROVE ~ Reserved(s)'
    <3>1. answer[s] = "hash" => price[s] # 0
      BY DEF Phases, Phase
    <3> QED
      BY <2>1, <2>2, <3>1 DEF Reserved
  <2> QED
    BY <1>3, <2>3
<1>8. CASE (Tick /\ UNCHANGED <<handlerVars, nodeVars>>) \/ UNCHANGED vars
  <2>1. UNCHANGED <<pc, answer, req, forgotten, spend>>
    BY <1>8 DEF Tick, vars, spendVars, handlerVars, processVars
  <2>2. \A s \in Requests : Reserved(s)' => Reserved(s)
    BY <2>1 DEF Reserved
  <2>3. \A s \in Requests : spend[s].wei \in Nat
    BY SpendTypes
  <2> QED
    BY <1>3, <2>1, <2>2, <2>3
<1> QED
  BY <1>4, <1>5, <1>6, <1>7, <1>8, StepKinds

-----------------------------------------------------------------------------
(* The theorems. *)

RelayerInv == TypeOK /\ Phases /\ Books /\ Sends /\ RateLimited

LEMMA RelayerInit ==
    ASSUME Init
    PROVE  RelayerInv
<1> USE PolicyAssumption, RelayerAssumption DEF Init, SpendInit
<1>1. TypeOK
  <2>1. SpendTypeOK
    BY DEF SpendTypeOK, Spend
  <2>2. queue \in Seq(Requests) /\ mined \in Seq(Requests)
    BY EmptySeq
  <2>3. req \in [Requests -> [account : Accounts \cup {NoRequest.account}, nonce : Nat]]
    BY DEF NoRequest
  <2>4. bill \in [Requests -> Spend]
    BY DEF Spend
  <2> QED
    BY <2>1, <2>2, <2>3, <2>4 DEF TypeOK
<1>2. Phases /\ Books
  <2> SUFFICES ASSUME NEW r \in Requests PROVE Phase(r) /\ Booked(r)
    BY DEF Phases, Books
  <2>1. pc[r] = "idle" /\ answer[r] = "none" /\ price[r] = 0 /\ forgotten = {}
    OBVIOUS
  <2>2. spend[r].at <= now /\ r \notin global /\ \A a \in Accounts : r \notin perAccount[a]
    OBVIOUS
  <2> HIDE DEF Init, SpendInit
  <2> QED
    BY <2>1, <2>2 DEF Phase, Early, Booked, Reserved
<1>3. Sends
  BY DEF Sends, NothingReplaced
<1>4. RateLimited
  <2> SUFFICES ASSUME NEW a \in Accounts, NEW t \in 0 .. MaxTime
               PROVE  Cardinality(Window(ReservedFor(a), t)) <= PerAccountRequests
    BY DEF RateLimited
  <2>1. Window(ReservedFor(a), t) = {}
    BY DEF Window, ReservedFor, Reserved
  <2> HIDE DEF Init, SpendInit
  <2> QED
    BY <2>1, FS_EmptySet
<1> QED
  BY <1>1, <1>2, <1>3, <1>4 DEF RelayerInv

LEMMA RelayerInvariant == Spec => []RelayerInv
<1>1. RelayerInv /\ [Next]_vars => RelayerInv'
  BY TypeStep, PhasesStep, BooksStep, SendsStep, RateStep DEF RelayerInv
<1> QED
  BY RelayerInit, <1>1, PTL DEF Spec

\* Every variable of the relayer keeps its type.
THEOREM RelayerTypeCorrect == Spec => []TypeOK
<1>1. RelayerInv => TypeOK
  BY DEF RelayerInv
<1> QED
  BY <1>1, RelayerInvariant, PTL

\* However handlers interleave, fail or are cut off by a restart, the lists hold
\* just the live reservations of the window (guard.ts, admit and release).
THEOREM BooksAlwaysExact == Spec => []BooksExact
<1>1. ASSUME RelayerInv PROVE BooksExact
  <2> USE <1>1 DEF RelayerInv
  <2>1. ASSUME NEW a \in Accounts, NEW r \in Requests, spend[r].at + WindowMs >= now
        PROVE  r \in perAccount[a] <=> r \in ReservedFor(a)
    BY <2>1 DEF Books, Booked, ReservedFor
  <2>2. ASSUME NEW r \in Requests, spend[r].at + WindowMs >= now
        PROVE  r \in global <=> Reserved(r)
    BY <2>2 DEF Books, Booked
  <2>3. /\ \A a \in Accounts : perAccount[a] \subseteq Requests
        /\ global \subseteq Requests
    BY DEF TypeOK, SpendTypeOK
  <2>4. \A a \in Accounts : Prune(perAccount[a]) = Prune(ReservedFor(a))
    BY <2>1, <2>3 DEF Prune, ReservedFor
  <2>5. Prune(global) = Prune({r \in Requests : Reserved(r)})
    BY <2>2, <2>3 DEF Prune
  <2> QED
    BY <2>4, <2>5 DEF BooksExact
<1> QED
  BY <1>1, RelayerInvariant, PTL

\* No window of the length of the policy's, wherever it starts, ever holds more
\* reservations of one account than the policy's limit.
THEOREM RateAlwaysLimited == Spec => []RateLimited
<1>1. RelayerInv => RateLimited
  BY DEF RelayerInv
<1> QED
  BY <1>1, RelayerInvariant, PTL

\* The relayer never replaces a transaction of its own, whose hash a client has:
\* serialise lets one handler at a time ask for a nonce and broadcast.
THEOREM NothingEverReplaced == Spec => []NothingReplaced
<1>1. RelayerInv => NothingReplaced
  BY DEF RelayerInv, Sends
<1> QED
  BY <1>1, RelayerInvariant, PTL

\* While prices do not rise after the quote and no reply is lost, what was
\* admitted in any window, mined or not, costs at most the account's and the
\* global budget (guard.ts, admit and settle; server.ts, reserve before sending).
THEOREM SpendingAlwaysBounded ==
    ASSUME ~ LostReplies, ~ PriceRises
    PROVE  Spec => []SpendingBounded
<1> DEFINE Inv == RelayerInv /\ AllAccounted /\ Budgets
           charge == [r \in Requests |-> Charge(r)]
<1>1. ASSUME Init PROVE AllAccounted /\ Budgets
  <2> USE <1>1 DEF Init, SpendInit
  <2>1. ASSUME NEW r \in Requests
        PROVE  r \notin pool \cup Mined /\ ~ Reserved(r) /\ r \notin Admitted
    BY DEF Mined, ToSet, Reserved, Admitted
  <2> HIDE DEF Init, SpendInit
  <2>2. AllAccounted
    BY <2>1 DEF AllAccounted, Accounted
  <2>3. ASSUME NEW S \in SUBSET Reservations, NEW budget \in Nat PROVE Within(S, budget)
    <3>1. \A t \in 0 .. MaxTime : Coins(Owed, Window(S, t)) = {}
      BY <2>1 DEF Reservations, Window, Coins
    <3> QED
      BY <3>1, FS_EmptySet DEF Within
  <2>4. \A a \in Accounts : ReservedFor(a) \in SUBSET Reservations
    BY DEF Reservations, ReservedFor
  <2> QED
    BY <2>2, <2>3, <2>4, PolicyAssumption DEF Budgets
<1>2. Spec => []Inv
  <2>1. Init => Inv
    BY <1>1, RelayerInit
  <2>2. Inv /\ [Next]_vars => Inv'
    BY TypeStep, PhasesStep, BooksStep, SendsStep, RateStep, AccountedStep, BudgetsStep
       DEF RelayerInv
  <2> QED
    BY <2>1, <2>2, PTL DEF Spec
<1>3. ASSUME Inv PROVE SpendingBounded
  <2> USE <1>3 DEF RelayerInv
  <2>1. ASSUME NEW r \in Requests
        PROVE  /\ Owed[r] \in Nat /\ charge[r] \in Nat
               /\ Reserved(r) => charge[r] <= Owed[r]
               /\ r \in Admitted /\ ~ Reserved(r) => charge[r] = 0
    <3>1. Quote(r) \in Nat /\ bill[r].wei \in Nat /\ spend[r].wei \in Nat
      BY DEF TypeOK, SpendTypeOK, Spend, Quote
    <3>2. charge[r] = IF r \in Mined THEN bill[r].wei
                      ELSE IF r \in pool \/ pc[r] \in {"queued", "signing"} THEN Quote(r)
                      ELSE 0
      BY DEF Charge, Quote
    <3>3. Owed[r] = spend[r].wei
      BY DEF Owed
    <3>4. r \in Admitted /\ ~ Reserved(r) => pc[r] \notin {"queued", "signing"}
      BY InFlightIsReserved
    <3> HIDE DEF charge
    <3> QED
      BY <3>1, <3>2, <3>3, <3>4 DEF AllAccounted, Accounted
  <2> HIDE DEF charge
  <2>2. ASSUME NEW S \in SUBSET Admitted, NEW R \in SUBSET Requests,
               \A r \in S : Reserved(r) => r \in R,
               NEW budget \in Nat, Within(R, budget), NEW t \in 0 .. MaxTime
        PROVE  SumFunctionOnSet(charge, Window(S, t)) <= budget
    <3> DEFINE W == Window(S, t)
               V == Window(R, t)
    <3>1. W \in SUBSET Requests /\ V \in SUBSET Requests
      BY DEF Window, Admitted
    <3>2. IsFiniteSet(W) /\ IsFiniteSet(V)
      BY <3>1, PolicyAssumption, FS_Subset
    <3>3. SumFunctionOnSet(charge, W) = Cardinality(Coins(charge, W))
      <4>1. \A r \in W : charge[r] \in Nat
        BY <2>1, <3>1
      <4> HIDE DEF W
      <4> QED
        BY <3>2, <4>1, SumIsCount
    <3>4. Coins(charge, W) \in SUBSET Coins(Owed, V)
      <4>1. ASSUME NEW c \in Coins(charge, W) PROVE c \in Coins(Owed, V)
        <5>1. /\ c \in W \X Nat /\ c[1] \in W /\ c[2] \in Nat
              /\ c[2] \in 1 .. charge[c[1]]
          BY DEF Coins
        <5> DEFINE r == c[1]
        <5>2. r \in Requests /\ r \in Admitted /\ r \in S
          BY <3>1, <5>1 DEF Window
        <5>3. charge[r] # 0 /\ charge[r] \in Nat
          BY <2>1, <5>1, <5>2
        <5>4. Reserved(r) /\ charge[r] <= Owed[r] /\ Owed[r] \in Nat
          BY <2>1, <5>2, <5>3
        <5>5. r \in V
          BY <2>2, <5>1, <5>2, <5>4 DEF Window
        <5>6. c[2] \in 1 .. Owed[r]
          BY <5>1, <5>3, <5>4
        <5>7. c \in V \X Nat
          BY <5>1, <5>5
        <5> QED
          BY <5>6, <5>7 DEF Coins
      <4> QED
        BY <4>1
    <3>5. IsFiniteSet(Coins(Owed, V)) /\ Cardinality(Coins(Owed, V)) \in Nat
      BY <2>1, <3>1, <3>2, CoinsFinite
    <3>6. Cardinality(Coins(Owed, V)) <= budget
      BY <2>2 DEF Within
    <3> HIDE DEF W, V
    <3>7. /\ Cardinality(Coins(charge, W)) <= Cardinality(Coins(Owed, V))
          /\ Cardinality(Coins(charge, W)) \in Nat
      BY <3>4, <3>5, FS_Subset, FS_CardinalityType
    <3>8. SumFunctionOnSet(charge, W) <= budget
      BY <3>3, <3>5, <3>6, <3>7
    <3> QED
      BY <3>8 DEF W
  <2>3. /\ GlobalBudgetWei \in Nat /\ PerAccountBudgetWei \in Nat
        /\ Reservations \in SUBSET Requests
        /\ \A a \in Accounts : ReservedFor(a) \in SUBSET Requests
    BY PolicyAssumption DEF Reservations, ReservedFor
  <2>4. /\ Within(Reservations, GlobalBudgetWei)
        /\ \A a \in Accounts : Within(ReservedFor(a), PerAccountBudgetWei)
    BY DEF Budgets
  <2>5. ASSUME NEW t \in 0 .. MaxTime
        PROVE  SumFunctionOnSet(charge, Window(Admitted, t)) <= GlobalBudgetWei
    <3>1. \A r \in Admitted : Reserved(r) => r \in Reservations
      BY DEF Admitted, Reservations
    <3> QED
      BY <2>2, <2>3, <2>4, <3>1
  <2>6. ASSUME NEW t \in 0 .. MaxTime, NEW a \in Accounts
        PROVE  SumFunctionOnSet(charge, Window({r \in Admitted : req[r].account = a}, t))
                  <= PerAccountBudgetWei
    <3> DEFINE S == {r \in Admitted : req[r].account = a}
    <3>1. S \in SUBSET Admitted /\ \A r \in S : Reserved(r) => r \in ReservedFor(a)
      BY DEF Admitted, ReservedFor
    <3> HIDE DEF S
    <3>2. SumFunctionOnSet(charge, Window(S, t)) <= PerAccountBudgetWei
      BY <2>2, <2>3, <2>4, <3>1
    <3> QED
      BY <3>2 DEF S
  <2> QED
    BY <2>5, <2>6 DEF SpendingBounded, charge
<1> QED
  BY <1>2, <1>3, PTL
=============================================================================
