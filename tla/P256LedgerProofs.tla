-------------------------- MODULE P256LedgerProofs --------------------------
(***************************************************************************)
(* P256Account implements AccountLedger, and its logs are that ledger, for *)
(* every set of accounts, keys, calls and batches, every nonce and every   *)
(* depth of the call stack: EachNonceOneOutcome, EveryOutcomeSigned,       *)
(* OwnerRebuildable, EffectsMatchLog and LedgerImplemented.                *)
(*                                                                         *)
(* All of them are about accounts at rest.  The invariant says what an     *)
(* account at rest is (Settled), what one in the middle of an operation    *)
(* is, compared with the account at rest that its frame saved (Running),   *)
(* and which calls have taken effect but are not logged yet (Ahead), of    *)
(* the present chain and of every chain that a frame may put back.         *)
(***************************************************************************)
EXTENDS P256AccountProofs, FiniteSetTheorems, WellFoundedInduction

\* Ledger!Authorised, over any set of signatures.
Agreed(a, key, ops, sg) ==
    \A i \in DOMAIN ops :
        [key |-> Ledger!OwnerAfter(key, ops, i - 1),
         intent |-> Intent(a, ops[i], i - 1)] \in sg

\* Account state s is a ledger of complete operations, all agreed to, and its
\* owner is the one they leave in charge.
Settled(a, s, sg) ==
    /\ s.owner = NoOwner => s.nonce = 0
    /\ Genesis(s) \in Keys \cup {NoOwner}
    /\ \A n \in 0 .. s.nonce - 1 : Complete(Outcome(s, n), n)
    /\ Agreed(a, Genesis(s), LedgerOf(s), sg)
    /\ s.owner = Ledger!OwnerAfter(Genesis(s), LedgerOf(s), s.nonce)

\* t is s, or what s became: nothing logged is lost, and what was added was
\* logged under later nonces.
Extends(t, s) ==
    /\ s.nonce <= t.nonce
    /\ Len(s.log) <= Len(t.log)
    /\ \A i \in 1 .. Len(s.log) : t.log[i] = s.log[i]
    /\ \A i \in 2 .. Len(t.log) :
          i > Len(s.log) => t.log[i].nonce \in s.nonce .. t.nonce - 1

\* The operation of a frame, and the event of its j-th call.
OperationIn(f) ==
    IF f.kind = "execute" THEN ExecuteOp(f.calls[1]) ELSE BatchOp(f.calls)
CallDone(f, j) ==
    [type |-> "Executed", call |-> f.calls[j], nonce |-> f.nonce, success |-> TRUE]

\* In w, frame f's account is as the frame found it, but for the events of the
\* calls that are done; and the owner it found agreed to the operation.
Running(w, f, sg) ==
    LET s == w[f.acct]
        v == f.saved[f.acct]
    IN  /\ s.owner = v.owner
        /\ v.nonce = f.nonce
        /\ \A i \in 1 .. Len(v.log) : s.log[i] = v.log[i]
        /\ \A j \in 1 .. f.next - 1 : s.log[Len(v.log) + j] = CallDone(f, j)
        /\ f.kind = "execute" => Len(f.calls) = 1
        /\ [key |-> v.owner, intent |-> Intent(f.acct, OperationIn(f), f.nonce)] \in sg

\* w is a chain state that may be in force while the first k frames run.
HistoryFits(w, frames, k, sg) ==
    /\ \A a \in Accounts :
        (\A i \in 1 .. k : ~Owns(frames[i], a)) => Settled(a, w[a], sg)
    /\ \A i \in 1 .. k : frames[i].kind # "ext" => Running(w, frames[i], sg)
    /\ \A i \in 1 .. k : \A a \in Accounts : Extends(w[a], frames[i].saved[a])

SavedHistory(frames, sg) ==
    \A i \in 1 .. Len(frames) : HistoryFits(frames[i].saved, frames, i - 1, sg)

\* So are the present one and, for the frames below it, every saved one.
HistoryOK(w, frames, sg) ==
    /\ HistoryFits(w, frames, Len(frames), sg)
    /\ SavedHistory(frames, sg)

\* Every call s reports as successful took effect, in this order.
Told(s) ==
    \A i \in Succeeded(s) :
        s.delivered[Cardinality({j \in Succeeded(s) : j <= i})] =
            [call |-> s.log[i].call, nonce |-> s.log[i].nonce]

Matched(s) == Told(s) /\ Len(s.delivered) = Cardinality(Succeeded(s))

\* So did one more, the call frame f is waiting for.
Ahead(s, f) ==
    /\ Told(s)
    /\ Len(s.delivered) = Cardinality(Succeeded(s)) + 1
    /\ s.delivered[Len(s.delivered)] = [call |-> f.calls[f.next], nonce |-> f.nonce]

\* In w, the account frames among the first m are waiting for a call.
EffectsFit(w, frames, m) ==
    /\ \A i \in 1 .. m : frames[i].kind # "ext" => Ahead(w[frames[i].acct], frames[i])
    /\ \A a \in Accounts : (\A i \in 1 .. m : ~Owns(frames[i], a)) => Matched(w[a])

\* A saved chain is from before the call its caller is waiting for.
SavedEffects(frames) ==
    \A i \in 1 .. Len(frames) : EffectsFit(frames[i].saved, frames, i - 2)

\* All account frames but the top one are waiting for a call.
EffectsOK(w, frames) ==
    /\ EffectsFit(w, frames, Len(frames) - 1)
    /\ SavedEffects(frames)

\* The inductive invariants.
HistoryInv == HistoryOK(chain, stack, signed)
EffectsInv == EffectsOK(chain, stack)

-----------------------------------------------------------------------------
(* Intervals. *)

LEMMA LastIndex ==
    ASSUME NEW k \in Nat \ {0}
    PROVE  /\ \A i \in 1 .. k : i \in 1 .. k - 1 \/ i = k
           /\ \A i \in 1 .. k - 1 : i \in 1 .. k /\ i # k
           /\ k \in 1 .. k
           /\ k - 1 \in Nat
OBVIOUS

LEMMA FinitePart ==
    ASSUME NEW n \in Nat, NEW S \in SUBSET (1 .. n)
    PROVE  IsFiniteSet(S) /\ Cardinality(S) \in Nat
<1>1. IsFiniteSet(1 .. n)
  BY FS_Interval
<1>2. IsFiniteSet(S)
  BY <1>1, FS_Subset
<1> QED
  BY <1>2, FS_CardinalityType

-----------------------------------------------------------------------------
(* Effects: one account. *)

LEMMA RankRange ==
    ASSUME NEW n \in Nat, NEW S \in SUBSET (1 .. n), NEW i \in S
    PROVE  Cardinality({j \in S : j <= i}) \in 1 .. Cardinality(S)
<1> DEFINE T == {j \in S : j <= i}
<1>2. IsFiniteSet(S)
  BY FinitePart
<1>3. IsFiniteSet(T) /\ Cardinality(T) <= Cardinality(S)
  <2>1. T \in SUBSET S
    OBVIOUS
  <2> QED
    BY <1>2, <2>1, FS_Subset
<1>4. i \in T
  OBVIOUS
<1>5. Cardinality(T) # 0
  BY <1>3, <1>4, FS_EmptySet
<1>6. Cardinality(T) \in Nat /\ Cardinality(S) \in Nat
  BY <1>2, <1>3, FS_CardinalityType
<1> QED
  BY <1>3, <1>5, <1>6

LEMMA EmitFields ==
    ASSUME NEW s \in AccountState, NEW e \in Events
    PROVE  /\ Emit(s, e).owner = s.owner
           /\ Emit(s, e).nonce = s.nonce
           /\ Emit(s, e).delivered = s.delivered
           /\ Len(s.log) \in Nat
           /\ DOMAIN s.log = 1 .. Len(s.log)
           /\ Emit(s, e).log = Append(s.log, e)
           /\ Len(Emit(s, e).log) = Len(s.log) + 1
           /\ DOMAIN Emit(s, e).log = 1 .. Len(s.log) + 1
           /\ Emit(s, e).log[Len(s.log) + 1] = e
           /\ \A i \in 1 .. Len(s.log) : Emit(s, e).log[i] = s.log[i]
<1>1. s.log \in Seq(Events)
  BY DEF AccountState
<1>2. ASSUME NEW l
      PROVE  /\ [s EXCEPT !.log = l].log = l
             /\ [s EXCEPT !.log = l].owner = s.owner
             /\ [s EXCEPT !.log = l].nonce = s.nonce
             /\ [s EXCEPT !.log = l].delivered = s.delivered
  BY DEF AccountState
<1>3. /\ Append(s.log, e) \in Seq(Events)
      /\ Len(Append(s.log, e)) = Len(s.log) + 1
      /\ Append(s.log, e)[Len(s.log) + 1] = e
      /\ \A i \in 1 .. Len(s.log) : Append(s.log, e)[i] = s.log[i]
  BY <1>1, AppendProperties
<1>4. /\ DOMAIN Append(s.log, e) = 1 .. Len(s.log) + 1
      /\ Len(s.log) \in Nat
      /\ DOMAIN s.log = 1 .. Len(s.log)
  BY <1>1, <1>3, LenProperties
<1> QED
  BY <1>2, <1>3, <1>4 DEF Emit

\* An event that reports no successful call.
LEMMA EmitOther ==
    ASSUME NEW s \in AccountState, NEW e \in Events,
           e.type = "Executed" => ~e.success, Matched(s)
    PROVE  Matched(Emit(s, e))
<1> DEFINE t == Emit(s, e)
           k == Len(s.log)
<1>1. /\ t.delivered = s.delivered
      /\ k \in Nat
      /\ DOMAIN s.log = 1 .. k
      /\ DOMAIN t.log = 1 .. k + 1
      /\ t.log[k + 1] = e
      /\ \A i \in 1 .. k : t.log[i] = s.log[i]
  BY EmitFields
<1> HIDE DEF t, k
<1>2. \A i \in 1 .. k + 1 : i \in 1 .. k \/ i = k + 1
  BY <1>1
<1>3. \A i \in 1 .. k : i \in 1 .. k + 1
  BY <1>1
<1>4. Succeeded(t) = Succeeded(s)
  BY <1>1, <1>2, <1>3 DEF Succeeded
<1>5. \A i \in Succeeded(s) : t.log[i] = s.log[i]
  BY <1>1 DEF Succeeded
<1> QED
  BY <1>1, <1>4, <1>5 DEF Matched, Told, t

\* The call that took effect is logged.
LEMMA EmitSuccess ==
    ASSUME NEW s \in AccountState, NEW e \in Events, NEW f, Ahead(s, f),
           e.type = "Executed", e.success = TRUE,
           e.call = f.calls[f.next], e.nonce = f.nonce
    PROVE  Matched(Emit(s, e))
<1> DEFINE t == Emit(s, e)
           k == Len(s.log)
           S == Succeeded(s)
           T == Succeeded(t)
<1>1. /\ t.delivered = s.delivered
      /\ k \in Nat
      /\ DOMAIN s.log = 1 .. k
      /\ DOMAIN t.log = 1 .. k + 1
      /\ t.log[k + 1] = e
      /\ \A i \in 1 .. k : t.log[i] = s.log[i]
  BY EmitFields
<1> HIDE DEF t, k
<1>2. \A i \in 1 .. k + 1 : i \in 1 .. k \/ i = k + 1
  BY <1>1
<1>3. (\A i \in 1 .. k : i \in 1 .. k + 1) /\ k + 1 \in 1 .. k + 1 /\ k + 1 \notin 1 .. k
  BY <1>1
<1>4. T = S \cup {k + 1}
  BY <1>1, <1>2, <1>3 DEF Succeeded
<1>5. S \in SUBSET (1 .. k)
  BY <1>1 DEF Succeeded
<1>6. IsFiniteSet(S) /\ Cardinality(S) \in Nat
  BY <1>1, <1>5, FinitePart
<1>7. Cardinality(T) = Cardinality(S) + 1
  BY <1>3, <1>4, <1>5, <1>6, FS_AddElement
<1> HIDE DEF S, T
<1>8. Len(t.delivered) = Cardinality(T)
  BY <1>1, <1>7 DEF Ahead, S
<1>9. ASSUME NEW i \in T
      PROVE  t.delivered[Cardinality({j \in T : j <= i})] =
                [call |-> t.log[i].call, nonce |-> t.log[i].nonce]
  <2>1. CASE i \in S
    <3>1. {j \in T : j <= i} = {j \in S : j <= i}
      BY <1>1, <1>4, <1>5, <2>1
    <3>2. i \in 1 .. k
      BY <1>5, <2>1
    <3> QED
      BY <1>1, <2>1, <3>1, <3>2 DEF Ahead, Told, S
  <2>2. CASE i = k + 1
    <3>1. {j \in T : j <= i} = T
      <4>1. \A j \in 1 .. k : j <= k + 1
        BY <1>1
      <4>2. \A j \in T : j <= i
        BY <1>1, <1>4, <1>5, <2>2, <4>1
      <4> QED
        BY <4>2
    <3> QED
      BY <1>1, <1>7, <1>8, <2>2, <3>1 DEF Ahead, S
  <2> QED
    BY <1>4, <2>1, <2>2
<1> QED
  BY <1>8, <1>9 DEF Matched, Told, T, t

\* A call takes effect.
LEMMA DeliverAhead ==
    ASSUME NEW s \in AccountState, Matched(s), NEW f,
           f.calls[f.next] \in Calls, f.nonce \in Nat
    PROVE  Ahead([s EXCEPT !.delivered =
                     Append(@, [call |-> f.calls[f.next], nonce |-> f.nonce])], f)
<1> DEFINE d == [call |-> f.calls[f.next], nonce |-> f.nonce]
           q == Append(s.delivered, d)
           t == [s EXCEPT !.delivered = q]
           S == Succeeded(s)
<1>1. s.delivered \in Seq([call : Calls, nonce : Nat]) /\ s.log \in Seq(Events)
  BY DEF AccountState
<1>2. d \in [call : Calls, nonce : Nat]
  OBVIOUS
<1>3. /\ Len(q) = Len(s.delivered) + 1
      /\ q[Len(s.delivered) + 1] = d
      /\ \A i \in 1 .. Len(s.delivered) : q[i] = s.delivered[i]
  BY <1>1, <1>2, AppendProperties
<1>4. t.delivered = q /\ t.log = s.log
  <2> HIDE DEF q
  <2> QED
    BY DEF AccountState
<1>5. S \in SUBSET (1 .. Len(s.log)) /\ Len(s.log) \in Nat
  BY <1>1, LenProperties DEF Succeeded
<1> HIDE DEF q, t
<1>6. Succeeded(t) = S
  BY <1>4 DEF Succeeded
<1>7. Told(t)
  <2> SUFFICES ASSUME NEW i \in S
               PROVE  q[Cardinality({j \in S : j <= i})] =
                         [call |-> s.log[i].call, nonce |-> s.log[i].nonce]
    BY <1>4, <1>6 DEF Told
  <2>1. Cardinality({j \in S : j <= i}) \in 1 .. Len(s.delivered)
    BY <1>5, RankRange DEF Matched
  <2> QED
    BY <1>3, <2>1 DEF Matched, Told
<1>8. Len(t.delivered) = Cardinality(S) + 1 /\ t.delivered[Len(t.delivered)] = d
  BY <1>3, <1>4 DEF Matched
<1> QED
  BY <1>6, <1>7, <1>8 DEF Ahead, t, q

\* What the handlers do besides.
LEMMA SameMatched ==
    ASSUME NEW s, NEW t, t.log = s.log, t.delivered = s.delivered, Matched(s)
    PROVE  Matched(t)
BY DEF Matched, Told, Succeeded

LEMMA SameAhead ==
    ASSUME NEW s, NEW t, t.log = s.log, t.delivered = s.delivered,
           NEW f, Ahead(s, f)
    PROVE  Ahead(t, f)
BY DEF Ahead, Told, Succeeded

-----------------------------------------------------------------------------
(* Effects: the call stack. *)

\* A chain goes on as it is.
LEMMA SameFit ==
    ASSUME NEW w, NEW frames, NEW g, NEW m, EffectsFit(w, frames, m),
           \A i \in 1 .. m : g[i] = frames[i]
    PROVE  EffectsFit(w, g, m)
BY DEF EffectsFit

\* External frames are waiting for nothing.
LEMMA ExtFit ==
    ASSUME NEW w, NEW frames, NEW m \in Nat \ {0}, frames[m].kind = "ext"
    PROVE  EffectsFit(w, frames, m) <=> EffectsFit(w, frames, m - 1)
<1>1. \A i \in 1 .. m : i \in 1 .. m - 1 \/ i = m
  OBVIOUS
<1>2. \A i \in 1 .. m - 1 : i \in 1 .. m
  OBVIOUS
<1>3. \A a \in Accounts : ~Owns(frames[m], a)
  BY DEF Owns
<1> QED
  BY <1>1, <1>2, <1>3 DEF EffectsFit

\* An account without a frame changes, and still matches.
LEMMA IdleFit ==
    ASSUME NEW w \in ChainState, NEW frames, NEW m, NEW s, NEW a \in Accounts,
           \A i \in 1 .. m : frames[i] \in Frames /\ ~Owns(frames[i], a),
           \A i \in 1 .. m : frames[i].kind # "ext" =>
               Ahead(w[frames[i].acct], frames[i]),
           \A b \in Accounts :
               (\A i \in 1 .. m : ~Owns(frames[i], b)) => b = a \/ Matched(w[b]),
           Matched(s)
    PROVE  EffectsFit([w EXCEPT ![a] = s], frames, m)
<1> DEFINE v == [w EXCEPT ![a] = s]
<1>1. v[a] = s /\ \A b \in Accounts : b # a => v[b] = w[b]
  BY DEF ChainState
<1> HIDE DEF v
<1>2. ASSUME NEW i \in 1 .. m, frames[i].kind # "ext"
      PROVE  Ahead(v[frames[i].acct], frames[i])
  <2>1. frames[i].acct \in Accounts /\ frames[i].acct # a
    BY <1>2, AccountFrameType DEF Owns
  <2> QED
    BY <1>1, <1>2, <2>1
<1>3. EffectsFit(v, frames, m)
  BY <1>1, <1>2 DEF EffectsFit
<1> QED
  BY <1>3 DEF v

\* The calling frame is waiting again.
LEMMA WaitFit ==
    ASSUME NEW w \in ChainState, NEW frames \in Seq(Frames), OneFrameEach(frames),
           frames # <<>>, Last(frames).kind # "ext",
           EffectsFit(w, frames, Len(frames) - 1),
           NEW s, Ahead(s, Last(frames))
    PROVE  EffectsFit([w EXCEPT ![Last(frames).acct] = s], frames, Len(frames))
<1> DEFINE k == Len(frames)
           f == Last(frames)
           a == f.acct
           v == [w EXCEPT ![a] = s]
<1>1. /\ k \in Nat \ {0}
      /\ DOMAIN frames = 1 .. k
      /\ f = frames[k]
      /\ k \in 1 .. k
      /\ f \in Frames
  <2>1. k \in Nat \ {0}
    BY EmptySeq, LenProperties
  <2> QED
    BY <2>1, LenProperties, ElementOfSeq DEF Last
<1>2. a \in Accounts /\ Owns(f, a)
  <2>1. f.kind # "ext"
    BY Zenon DEF f
  <2> HIDE DEF f
  <2> QED
    BY <1>1, <2>1, AccountFrameType DEF Owns
<1>3. \A i \in 1 .. k : frames[i].kind # "ext" /\ frames[i].acct = a => i = k
  BY <1>1, <1>2, Zenon DEF OneFrameEach, Owns
<1>4. v[a] = s /\ \A b \in Accounts : b # a => v[b] = w[b]
  <2>1. DOMAIN w = Accounts
    BY ONLY w \in ChainState DEF ChainState
  <2> HIDE DEF a
  <2> QED
    BY ONLY <1>2, <2>1 DEF v
<1>5. \A i \in 1 .. k : i \in 1 .. k - 1 \/ i = k
  BY <1>1, LastIndex, Zenon
<1> HIDE DEF v, f, k
<1>6. ASSUME NEW i \in 1 .. k, frames[i].kind # "ext"
      PROVE  Ahead(v[frames[i].acct], frames[i])
  <2>1. CASE i = k
    BY <1>1, <1>4, <2>1 DEF f
  <2>2. CASE i # k
    <3>1. i \in 1 .. k - 1 /\ frames[i].acct # a
      BY <1>3, <1>5, <1>6, <2>2
    <3>2. frames[i].acct \in Accounts
      BY <1>6, ElementOfSeq, AccountFrameType DEF k
    <3> QED
      BY <1>4, <1>6, <3>1, <3>2 DEF EffectsFit, k
  <2> QED
    BY <2>1, <2>2
<1>7. ASSUME NEW b \in Accounts, \A i \in 1 .. k : ~Owns(frames[i], b)
      PROVE  Matched(v[b])
  <2>1. b # a
    BY <1>1, <1>2, <1>7
  <2>2. \A i \in 1 .. k - 1 : i \in 1 .. k
    BY <1>1
  <2>3. Matched(w[b])
    BY <1>7, <2>2 DEF EffectsFit, k
  <2> QED
    BY <1>4, <2>1, <2>3
<1>8. EffectsFit(v, frames, k)
  BY <1>6, <1>7 DEF EffectsFit
<1> QED
  BY <1>8 DEF v, f, k

\* The top frame leaves.
LEMMA PopEffects ==
    ASSUME NEW frames, StackOK(frames), frames # <<>>, SavedEffects(frames)
    PROVE  /\ SavedEffects(Front(frames))
           /\ EffectsFit(Last(frames).saved, Front(frames), Len(Front(frames)) - 1)
           /\ \A w, m : m \in Nat /\ m < Len(frames) =>
                 (EffectsFit(w, frames, m) <=> EffectsFit(w, Front(frames), m))
<1> DEFINE k == Len(frames)
           g == Front(frames)
<1>1. /\ k \in Nat \ {0}
      /\ Len(g) = k - 1
      /\ \A i \in 1 .. k - 1 : g[i] = frames[i]
  BY PopStackOK
<1>2. \A i \in 1 .. k - 1 : \A j \in 1 .. i - 2 : j \in 1 .. k - 1
  BY <1>1
<1>3. \A i \in 1 .. k - 1 : i \in 1 .. k
  BY <1>1
<1>4. SavedEffects(g)
  <2> SUFFICES ASSUME NEW i \in 1 .. k - 1
               PROVE  EffectsFit(g[i].saved, g, i - 2)
    BY <1>1 DEF SavedEffects
  <2>1. EffectsFit(g[i].saved, frames, i - 2)
    BY <1>1, <1>3 DEF SavedEffects
  <2>2. \A j \in 1 .. i - 2 : g[j] = frames[j]
    BY <1>1, <1>2
  <2> HIDE DEF g
  <2> QED
    BY <2>1, <2>2, SameFit
<1>5. EffectsFit(frames[k].saved, g, k - 2)
  <2>1. k \in 1 .. k /\ \A j \in 1 .. k - 2 : j \in 1 .. k - 1
    BY <1>1
  <2> QED
    BY <1>1, <2>1 DEF SavedEffects, EffectsFit
<1>6. ASSUME NEW w, NEW m \in Nat, m < k
      PROVE  EffectsFit(w, frames, m) <=> EffectsFit(w, g, m)
  <2>1. \A i \in 1 .. m : i \in 1 .. k - 1
    BY <1>1, <1>6
  <2> QED
    BY <1>1, <2>1 DEF EffectsFit
<1>7. k - 1 - 1 = k - 2 /\ Last(frames) = frames[k]
  BY <1>1 DEF Last
<1> QED
  BY <1>1, <1>4, <1>5, <1>6, <1>7

\* A frame enters.
LEMMA PushEffects ==
    ASSUME NEW frames \in Seq(Frames), SavedEffects(frames), NEW f \in Frames,
           EffectsFit(f.saved, frames, Len(frames) - 1),
           NEW v, EffectsFit(v, frames, Len(frames))
    PROVE  EffectsOK(v, Append(frames, f))
<1> DEFINE k == Len(frames)
           g == Append(frames, f)
<1>1. /\ k \in Nat
      /\ Len(g) = k + 1
      /\ g[k + 1] = f
      /\ \A i \in 1 .. k : g[i] = frames[i]
  BY AppendProperties, LenProperties
<1>2. EffectsFit(v, g, k)
  BY <1>1 DEF EffectsFit
<1>3. ASSUME NEW i \in 1 .. k + 1
      PROVE  EffectsFit(g[i].saved, g, i - 2)
  <2>1. \A j \in 1 .. i - 2 : g[j] = frames[j]
    BY <1>1
  <2>2. CASE i \in 1 .. k
    BY <1>1, <2>1, <2>2, SameFit DEF SavedEffects
  <2>3. CASE i = k + 1
    <3>1. i - 2 = k - 1
      BY <1>1, <2>3
    <3> QED
      BY <1>1, <2>1, <2>3, <3>1, SameFit
  <2> QED
    BY <1>1, <2>2, <2>3
<1>4. k + 1 - 1 = k
  BY <1>1
<1> QED
  BY <1>1, <1>2, <1>3, <1>4 DEF EffectsOK, SavedEffects

-----------------------------------------------------------------------------
(* Effects: the handlers. *)

\* What the top account frame of a run is, and what is below it.
LEMMA TopAccount ==
    ASSUME NEW w, NEW frames, RunOK(w, frames), frames # <<>>,
           Last(frames).kind # "ext"
    PROVE  LET f == Last(frames)
               k == Len(frames)
           IN  /\ f \in Frames
               /\ f.kind \in {"execute", "batch"}
               /\ f.acct \in Accounts
               /\ f.calls \in Seq(Calls)
               /\ Len(f.calls) \in Nat
               /\ f.nonce \in Nat
               /\ f.next \in 1 .. Len(f.calls)
               /\ f.calls[f.next] \in Calls
               /\ f.saved \in ChainState
               /\ w \in ChainState
               /\ w[f.acct] \in AccountState
               /\ frames \in Seq(Frames)
               /\ k \in Nat /\ k > 1
               /\ frames[k] = f
               /\ frames[k - 1].kind = "ext"
               /\ \A i \in 1 .. k - 1 : frames[i] \in Frames /\ ~Owns(frames[i], f.acct)
               /\ Len(Front(frames)) = k - 1
               /\ \A i \in 1 .. k - 1 : Front(frames)[i] = frames[i]
               /\ Front(frames) \in Seq(Frames)
<1> DEFINE f == Last(frames)
           k == Len(frames)
<1>1. /\ f \in Frames
      /\ f.kind \in {"execute", "batch"}
      /\ f.acct \in Accounts
      /\ f.calls \in Seq(Calls)
      /\ f.nonce \in Nat
      /\ f.saved \in ChainState
      /\ f.next \in 1 .. Len(f.calls)
  BY TopFrame, AccountFrameType
<1>2. f.calls[f.next] \in Calls /\ Len(f.calls) \in Nat
  BY <1>1, ElementOfSeq, LenProperties
<1>3. w \in ChainState /\ StackOK(frames) /\ frames \in Seq(Frames)
  BY DEF RunOK, StackOK
<1>4. w[f.acct] \in AccountState
  BY <1>1, <1>3 DEF ChainState
<1>5. /\ k \in Nat \ {0}
      /\ Len(Front(frames)) = k - 1
      /\ \A i \in 1 .. k - 1 : Front(frames)[i] = frames[i]
      /\ Front(frames) \in Seq(Frames)
      /\ DOMAIN frames = 1 .. k
      /\ frames[k] = f
  BY <1>3, PopStackOK, LenProperties DEF StackOK, Last
<1>6. k > 1
  <2>1. k # 1
    BY TopFrame
  <2> QED
    BY <1>5, <2>1
<1> HIDE DEF f, k
<1>7. k \in 1 .. k /\ \A i \in 1 .. k - 1 : i \in 1 .. k /\ i # k
  BY <1>5, LastIndex
<1>8. frames[k - 1].kind = "ext"
  BY <1>3, <1>5, <1>6, <1>7 DEF StackOK, Alternating, f
<1>9. ASSUME NEW i \in 1 .. k - 1
      PROVE  frames[i] \in Frames /\ ~Owns(frames[i], f.acct)
  <2>1. frames[i] \in Frames
    BY <1>3, <1>5, <1>7, ElementOfSeq DEF k
  <2>2. Owns(f, f.acct)
    BY <1>1 DEF Owns
  <2> QED
    BY <1>1, <1>3, <1>5, <1>7, <2>1, <2>2 DEF StackOK, OneFrameEach
<1> QED
  BY <1>1, <1>2, <1>3, <1>4, <1>5, <1>6, <1>8, <1>9 DEF f, k

\* Whatever an inner call did, the rest of the handler reports it.
LEMMA ResumeEffects ==
    ASSUME NEW w, NEW frames, RunOK(w, frames), frames # <<>>,
           Last(frames).kind # "ext", SavedEffects(frames),
           NEW result \in {"ok", "revert"}, Resume(frames, w, result),
           result = "ok" => EffectsFit(w, frames, Len(frames)),
           result = "revert" => EffectsFit(w, frames, Len(frames) - 1)
    PROVE  EffectsOK(chain, stack)'
<1> DEFINE f == Last(frames)
           a == f.acct
           k == Len(frames)
           success == ExecuteOutcome(result)
           executed == [type |-> "Executed", call |-> f.calls[f.next],
                        nonce |-> f.nonce, success |-> success]
           batchExecuted == [type |-> "BatchExecuted", calls |-> Len(f.calls),
                             nonce |-> f.nonce]
           logged == Emit(w[a], executed)
           closed == Emit(logged, batchExecuted)
<1>1. /\ f \in Frames /\ f.kind \in {"execute", "batch"}
      /\ a \in Accounts
      /\ f.calls \in Seq(Calls) /\ Len(f.calls) \in Nat
      /\ f.nonce \in Nat
      /\ f.next \in 1 .. Len(f.calls)
      /\ f.calls[f.next] \in Calls
      /\ w \in ChainState /\ w[a] \in AccountState
  BY TopAccount
<1>2. /\ frames \in Seq(Frames)
      /\ k \in Nat /\ k > 1
      /\ frames[k] = f
      /\ frames[k - 1].kind = "ext"
      /\ \A i \in 1 .. k - 1 : frames[i] \in Frames /\ ~Owns(frames[i], a)
      /\ Len(Front(frames)) = k - 1
      /\ \A i \in 1 .. k - 1 : Front(frames)[i] = frames[i]
      /\ Front(frames) \in Seq(Frames)
  BY TopAccount
<1>3. executed \in Events /\ batchExecuted \in Events
  BY <1>1 DEF Events, ExecuteOutcome
<1>4. k - 1 \in Nat \ {0} /\ k - 1 < k /\ k - 2 \in Nat /\ k - 2 < k
  BY <1>2
<1>5. /\ SavedEffects(Front(frames))
      /\ EffectsFit(f.saved, Front(frames), Len(Front(frames)) - 1)
      /\ \A v, m : m \in Nat /\ m < k =>
            (EffectsFit(v, frames, m) <=> EffectsFit(v, Front(frames), m))
  BY PopEffects DEF RunOK
<1>6. \A i \in 1 .. k : i \in 1 .. k - 1 \/ i = k
  BY <1>2, LastIndex
<1>7. \A i \in 1 .. k - 1 : i \in 1 .. k /\ i # k
  BY <1>2, LastIndex
<1> HIDE DEF f, k, executed, batchExecuted
<1>8. ASSUME NEW s, Matched(s)
      PROVE  EffectsFit([w EXCEPT ![a] = s], frames, k - 1)
  <2>1. \A i \in 1 .. k - 1 : frames[i].kind # "ext" => Ahead(w[frames[i].acct], frames[i])
    BY <1>7 DEF EffectsFit, k
  <2>2. ASSUME NEW b \in Accounts, \A i \in 1 .. k - 1 : ~Owns(frames[i], b), b # a
        PROVE  Matched(w[b])
    <3>1. \A i \in 1 .. k : ~Owns(frames[i], b)
      BY <1>2, <1>6, <2>2 DEF Owns
    <3> QED
      BY <2>2, <3>1 DEF EffectsFit, k
  <2> HIDE DEF a
  <2> QED
    BY <1>1, <1>2, <1>8, <2>1, <2>2, IdleFit
<1>9. ASSUME NEW s, Matched(s)
      PROVE  EffectsOK([w EXCEPT ![a] = s], Front(frames))
  <2> DEFINE v == [w EXCEPT ![a] = s]
  <2>1. EffectsFit(v, frames, k - 1)
    BY <1>8, <1>9
  <2> HIDE DEF v
  <2>2. EffectsFit(v, frames, k - 1 - 1)
    BY <1>2, <1>4, <2>1, ExtFit
  <2>3. k - 1 - 1 = k - 2
    BY <1>2
  <2>4. EffectsFit(v, Front(frames), k - 1 - 1)
    BY <1>4, <1>5, <2>2, <2>3
  <2> QED
    BY <1>2, <1>5, <2>4 DEF EffectsOK, v
<1>10. Matched(logged)
  <2>1. CASE result = "ok"
    <3>1. Ahead(w[a], f)
      <4>1. k \in 1 .. k
        BY <1>2
      <4> QED
        BY <1>1, <1>2, <2>1, <4>1 DEF EffectsFit, k
    <3>2. /\ executed.type = "Executed" /\ executed.success = TRUE
          /\ executed.call = f.calls[f.next] /\ executed.nonce = f.nonce
      BY <2>1 DEF executed, ExecuteOutcome
    <3> QED
      BY <1>1, <1>3, <3>1, <3>2, EmitSuccess
  <2>2. CASE result = "revert"
    <3>1. Matched(w[a])
      BY <1>1, <1>2, <2>2 DEF EffectsFit, k
    <3>2. ~executed.success
      BY <2>2 DEF executed, ExecuteOutcome
    <3> QED
      BY <1>1, <1>3, <3>1, <3>2, EmitOther
  <2> QED
    BY <2>1, <2>2
<1>11. logged \in AccountState
  BY <1>1, <1>3, EmitType
<1>12. Matched(closed) /\ closed \in AccountState
  <2>1. batchExecuted.type # "Executed"
    BY DEF batchExecuted
  <2> HIDE DEF logged
  <2> QED
    BY <1>3, <1>10, <1>11, <2>1, EmitOther, EmitType
<1>13. ASSUME NEW s \in AccountState, Matched(s)
       PROVE  Matched(Exit(s))
  <2>1. Exit(s).log = s.log /\ Exit(s).delivered = s.delivered
    BY DEF Exit, AccountState
  <2> QED
    BY <1>13, <2>1, SameMatched
<1> HIDE DEF logged, closed, a
<1>14. CASE /\ chain' = [w EXCEPT ![a] = Exit(logged)]
            /\ stack' = Front(frames)
  BY <1>9, <1>10, <1>11, <1>13, <1>14
<1>15. CASE /\ chain' = f.saved
            /\ stack' = Front(frames)
  BY <1>5, <1>15 DEF EffectsOK
<1>16. CASE /\ chain' = [w EXCEPT ![a] = logged]
            /\ f.next < Len(f.calls)
            /\ stack' = Append(Front(frames), [f EXCEPT !.next = @ + 1])
  <2> DEFINE v == [w EXCEPT ![a] = logged]
             f2 == [f EXCEPT !.next = f.next + 1]
  <2>1. EffectsFit(v, frames, k - 1)
    BY <1>8, <1>10
  <2>2. f2 \in Frames /\ f2.saved = f.saved
    <3>1. f.next + 1 \in Nat
      BY <1>1
    <3> QED
      BY <1>1, <3>1 DEF Frames
  <2> HIDE DEF v, f2
  <2>3. EffectsFit(v, Front(frames), Len(Front(frames)))
    BY <1>2, <1>4, <1>5, <2>1
  <2>4. EffectsOK(v, Append(Front(frames), f2))
    BY <1>2, <1>5, <2>2, <2>3, PushEffects
  <2> QED
    BY <1>16, <2>4 DEF v, f2
<1>17. CASE /\ chain' = [w EXCEPT ![a] = Exit(closed)]
            /\ stack' = Front(frames)
  BY <1>9, <1>12, <1>13, <1>17
<1> QED
  BY <1>14, <1>15, <1>16, <1>17
     DEF Resume, BatchCallFailed, logged, closed, a, f, executed, batchExecuted

-----------------------------------------------------------------------------
(* Effects: every step. *)

LEMMA InitEffectsInv == Init => EffectsInv
<1> SUFFICES ASSUME Init PROVE EffectsInv
  OBVIOUS
<1>1. Len(stack) = 0
  BY EmptySeq DEF Init
<1>2. ASSUME NEW a \in Accounts
      PROVE  Matched(chain[a])
  <2>1. chain[a].log = <<>> /\ chain[a].delivered = <<>>
    BY DEF Init, FreshAccount
  <2>2. DOMAIN <<>> = {} /\ Len(<<>>) = 0
    BY EmptySeq
  <2>3. Succeeded(chain[a]) = {}
    BY <2>1, <2>2 DEF Succeeded
  <2> QED
    BY <2>1, <2>2, <2>3, FS_EmptySet DEF Matched, Told
<1>3. EffectsFit(chain, stack, -1)
  BY <1>2 DEF EffectsFit
<1>4. SavedEffects(stack)
  BY <1>1 DEF SavedEffects
<1> QED
  BY <1>1, <1>3, <1>4 DEF EffectsInv, EffectsOK

\* An account without a frame changes.
LEMMA IdleEffects ==
    ASSUME NEW w \in ChainState, NEW frames \in Seq(Frames), EffectsOK(w, frames),
           NEW a \in Accounts, NEW s, Matched(s),
           \A i \in 1 .. Len(frames) : ~Owns(frames[i], a)
    PROVE  EffectsOK([w EXCEPT ![a] = s], frames)
<1> DEFINE k == Len(frames)
<1>1. k \in Nat
  BY LenProperties
<1>2. \A i \in 1 .. k - 1 : i \in 1 .. k
  BY <1>1
<1>3. \A i \in 1 .. k - 1 : frames[i] \in Frames /\ ~Owns(frames[i], a)
  BY <1>2, ElementOfSeq
<1>4. EffectsFit([w EXCEPT ![a] = s], frames, k - 1)
  BY <1>3, IdleFit DEF EffectsOK, EffectsFit
<1> QED
  BY <1>4 DEF EffectsOK

\* An operation starts.
LEMMA StartEffects ==
    ASSUME NEW w, NEW frames, RunOK(w, frames), EffectsOK(w, frames),
           frames # <<>>, Last(frames).kind = "ext",
           NEW kind \in {"execute", "batch"}, NEW a \in Accounts,
           ~w[a].inCall, NEW calls \in Seq(Calls), NEW n \in Nat
    PROVE  EffectsOK([w EXCEPT ![a] = Begin(w[a], n)],
                     Append(frames, AccountFrame(kind, a, calls, n, w)))
<1> DEFINE f == AccountFrame(kind, a, calls, n, w)
           v == [w EXCEPT ![a] = Begin(w[a], n)]
           k == Len(frames)
<1>1. /\ w \in ChainState
      /\ frames \in Seq(Frames)
      /\ w[a] \in AccountState
      /\ k \in Nat \ {0}
      /\ Last(frames) = frames[k]
  BY EmptySeq, LenProperties DEF RunOK, StackOK, ChainState, Last
<1>2. \A i \in 1 .. k : frames[i] \in Frames /\ ~Owns(frames[i], a)
  BY <1>1, ElementOfSeq DEF RunOK, GuardBelow
<1>3. EffectsFit(w, frames, k)
  BY <1>1, ExtFit DEF EffectsOK
<1>4. Matched(Begin(w[a], n))
  <2>1. Matched(w[a])
    BY <1>2, <1>3 DEF EffectsFit
  <2>2. Begin(w[a], n).log = w[a].log /\ Begin(w[a], n).delivered = w[a].delivered
    BY <1>1 DEF Begin, AccountState
  <2> QED
    BY <2>1, <2>2, SameMatched
<1>5. EffectsFit(v, frames, k)
  BY <1>1, <1>2, <1>3, <1>4, IdleFit DEF EffectsFit
<1>6. f \in Frames /\ f.saved = w
  BY <1>1 DEF AccountFrame, Frames
<1> HIDE DEF f, v
<1>7. EffectsOK(v, Append(frames, f))
  BY <1>1, <1>5, <1>6, PushEffects DEF EffectsOK
<1> QED
  BY <1>7 DEF f, v

\* An inner call of the running operation takes effect.
LEMMA DeliverEffects ==
    ASSUME IInv, EffectsInv, InAccount
    PROVE  LET f == Last(stack)
               w == Deliver(chain, f.acct, f.calls[f.next], f.nonce)
           IN  EffectsFit(w, stack, Len(stack))
<1> DEFINE f == Last(stack)
           a == f.acct
           d == [call |-> f.calls[f.next], nonce |-> f.nonce]
           s == [chain[a] EXCEPT !.delivered = Append(chain[a].delivered, d)]
<1>1. stack # <<>> /\ f.kind # "ext" /\ RunOK(chain, stack)
  BY DEF IInv, InAccount, Top
<1>2. /\ a \in Accounts
      /\ f.nonce \in Nat
      /\ f.calls[f.next] \in Calls
      /\ chain \in ChainState /\ chain[a] \in AccountState
      /\ stack \in Seq(Frames) /\ OneFrameEach(stack)
      /\ Len(stack) \in Nat
      /\ \A i \in 1 .. Len(stack) - 1 : ~Owns(stack[i], a)
  BY <1>1, TopAccount DEF RunOK, StackOK
<1>3. EffectsFit(chain, stack, Len(stack) - 1)
  BY DEF EffectsInv, EffectsOK
<1>4. Matched(chain[a])
  BY <1>2, <1>3 DEF EffectsFit
<1>5. Ahead(s, f)
  BY <1>2, <1>4, DeliverAhead
<1> HIDE DEF s
<1>6. EffectsFit([chain EXCEPT ![a] = s], stack, Len(stack))
  BY <1>1, <1>2, <1>3, <1>5, WaitFit
<1> QED
  BY <1>6 DEF Deliver, s

LEMMA NextEffectsInv == IInv /\ LogInv /\ EffectsInv /\ [Next]_vars => EffectsInv'
<1> SUFFICES ASSUME IInv, LogInv, EffectsInv, [Next]_vars PROVE EffectsInv'
  OBVIOUS
<1> USE DEF EffectsInv
<1>0. /\ RunOK(chain, stack)
      /\ StackOK(stack)
      /\ chain \in ChainState
      /\ chain \in [Accounts -> AccountState]
      /\ stack \in Seq(Frames)
      /\ SavedEffects(stack)
  BY DEF IInv, RunOK, StackOK, ChainState, EffectsOK
<1>1. ASSUME NEW k \in Keys, NEW intent \in Intents, Sign(k, intent)
      PROVE  EffectsInv'
  BY <1>1 DEF Sign
<1>2. ASSUME NEW c \in Chains, BeginTx(c)
      PROVE  EffectsInv'
  <2>1. /\ stack = <<>> /\ Len(stack) = 0
        /\ stack' = Append(stack, ExtFrame(c, chain))
        /\ chain' = chain
    BY <1>2, EmptySeq DEF BeginTx
  <2>2. EffectsFit(chain, stack, Len(stack) - 1) /\ EffectsFit(chain, stack, Len(stack))
    BY <2>1 DEF EffectsOK, EffectsFit
  <2>3. EffectsOK(chain, Append(stack, ExtFrame(c, chain)))
    BY <1>0, <2>2, ExtFrameType, PushEffects
  <2> QED
    BY <2>1, <2>3
<1>3. ASSUME NEW w, NEW m \in {0, -1}, EffectsFit(w, stack, m)
      PROVE  EffectsOK(w, <<>>)
  <2>1. Len(<<>>) = 0
    BY EmptySeq
  <2>2. \A i \in 1 .. m : FALSE
    OBVIOUS
  <2>3. EffectsFit(w, <<>>, -1)
    BY <1>3, <2>2 DEF EffectsFit
  <2> QED
    BY <2>1, <2>3 DEF EffectsOK, SavedEffects
<1>4. CASE EndTx
  <2>1. chain' = chain /\ stack' = <<>> /\ Len(stack) = 1
    BY <1>4 DEF EndTx
  <2>2. EffectsFit(chain, stack, 0)
    BY <2>1 DEF EffectsOK
  <2> QED
    BY <1>3, <2>1, <2>2
<1>5. CASE AbortTx
  <2>1. chain' = stack[1].saved /\ stack' = <<>> /\ Len(stack) = 1
    BY <1>5 DEF AbortTx, Top, Last
  <2>2. EffectsFit(stack[1].saved, stack, -1)
    BY <1>0, <2>1 DEF SavedEffects
  <2> QED
    BY <1>3, <2>1, <2>2
<1>6. ASSUME NEW a \in Accounts, NEW p \in Keys \cup BadPoints, Constructor(a, p)
      PROVE  EffectsInv'
  <2> DEFINE s == [chain[a] EXCEPT !.owner = p]
             e == [type |-> "OwnerInitialized", key |-> p]
  <2>1. p \in Keys /\ e \in Events /\ e.type # "Executed"
    BY <1>6 DEF Constructor, IsValidPubkey, Events
  <2>2. s \in AccountState /\ s.delivered = chain[a].delivered /\ s.log = chain[a].log
    BY <1>0, <2>1 DEF AccountState
  <2>3. ASSUME NEW i \in 1 .. Len(stack)
        PROVE  ~Owns(stack[i], a)
    <3>1. stack[i].kind # "ext" => Midway(chain, stack[i])
      BY DEF LogInv, LogOK, ChainFits
    <3> QED
      BY <1>6, <3>1 DEF Owns, Midway, Constructor
  <2>4. Matched(chain[a])
    <3>1. \A i \in 1 .. Len(stack) - 1 : i \in 1 .. Len(stack)
      BY <1>0, LenProperties
    <3> QED
      BY <2>3, <3>1 DEF EffectsOK, EffectsFit
  <2>5. chain' = [chain EXCEPT ![a] = Emit(s, e)] /\ stack' = stack
    BY <1>6 DEF Constructor
  <2> HIDE DEF s, e
  <2>6. Matched(Emit(s, e))
    BY <2>1, <2>2, <2>4, SameMatched, EmitOther
  <2> QED
    BY <1>0, <2>3, <2>5, <2>6, IdleEffects
<1>7. ASSUME NEW a \in Accounts, NEW call \in Calls, NEW n \in 0 .. MaxNonce - 1,
             NEW sig \in Signatures, Execute(a, call, n, sig)
      PROVE  EffectsInv'
  <2>1. /\ stack # <<>> /\ Last(stack).kind = "ext" /\ ~chain[a].inCall
        /\ chain' = [chain EXCEPT ![a] = Begin(chain[a], n)]
        /\ stack' = Append(stack, AccountFrame("execute", a, <<call>>, n, chain))
    BY <1>7 DEF Execute, CanCall, InExt, Top, Accepts, Unlocked
  <2>2. <<call>> \in Seq(Calls) /\ n \in Nat
    BY ConstantsAssumption
  <2> QED
    BY <1>0, <2>1, <2>2, StartEffects
<1>8. ASSUME NEW a \in Accounts, NEW calls \in Batches, NEW n \in 0 .. MaxNonce - 1,
             NEW sig \in Signatures, ExecuteBatch(a, calls, n, sig)
      PROVE  EffectsInv'
  <2>1. /\ stack # <<>> /\ Last(stack).kind = "ext" /\ ~chain[a].inCall
        /\ chain' = [chain EXCEPT ![a] = Begin(chain[a], n)]
        /\ stack' = Append(stack, AccountFrame("batch", a, calls, n, chain))
    BY <1>8 DEF ExecuteBatch, CanCall, InExt, Top, Accepts, Unlocked
  <2>2. calls \in Seq(Calls) /\ n \in Nat
    BY ConstantsAssumption
  <2> QED
    BY <1>0, <2>1, <2>2, StartEffects
<1>9. ASSUME NEW a \in Accounts, NEW p \in Keys \cup BadPoints,
             NEW n \in 0 .. MaxNonce - 1, NEW sig \in Signatures, RotateOwner(a, p, n, sig)
      PROVE  EffectsInv'
  <2> DEFINE b == Begin(chain[a], n)
             s == [b EXCEPT !.owner = p]
             e == OwnerRotated(chain[a].owner, p, n)
  <2>1. /\ p \in Keys /\ ~chain[a].inCall
        /\ chain[a].owner \in Keys /\ n \in Nat
    BY <1>0, <1>9, AcceptedFacts, ConstantsAssumption DEF RotateOwner, IsValidPubkey
  <2>2. e \in Events /\ e.type # "Executed"
    BY <2>1 DEF OwnerRotated, Events
  <2>3. /\ b \in AccountState
        /\ b.log = chain[a].log /\ b.delivered = chain[a].delivered
    <3>1. chain[a] \in AccountState
      BY <1>0
    <3> QED
      BY <2>1, <3>1, BeginType DEF Begin, AccountState
  <2> HIDE DEF b
  <2>4. s \in AccountState /\ s.log = b.log /\ s.delivered = b.delivered
    BY <2>1, <2>3 DEF AccountState
  <2>5. \A i \in 1 .. Len(stack) : ~Owns(stack[i], a)
    BY <1>0, <2>1 DEF RunOK, GuardBelow
  <2>6. Matched(chain[a])
    <3>1. \A i \in 1 .. Len(stack) - 1 : i \in 1 .. Len(stack)
      BY <1>0, LenProperties
    <3> QED
      BY <2>5, <3>1 DEF EffectsOK, EffectsFit
  <2>7. chain' = [chain EXCEPT ![a] = Exit(Emit(s, e))] /\ stack' = stack
    BY <1>9 DEF RotateOwner, b
  <2> HIDE DEF s, e
  <2>8. Matched(Emit(s, e)) /\ Emit(s, e) \in AccountState
    BY <2>2, <2>3, <2>4, <2>6, SameMatched, EmitOther, EmitType
  <2> DEFINE t == Emit(s, e)
  <2> HIDE DEF t
  <2>9. Exit(t).log = t.log /\ Exit(t).delivered = t.delivered
    BY <2>8 DEF Exit, AccountState, t
  <2>10. Matched(Exit(t))
    BY <2>8, <2>9, SameMatched DEF t
  <2> QED
    BY <1>0, <2>5, <2>7, <2>10, IdleEffects DEF t
<1>10. CASE CallExternal
  <2> DEFINE f == Last(stack)
             w == Deliver(chain, f.acct, f.calls[f.next], f.nonce)
             e == ExtFrame(f.acct.chain, chain)
  <2>1. InAccount /\ chain' = w /\ stack' = Append(stack, e)
    BY <1>10 DEF CallExternal, Top
  <2>2. f.acct.chain \in Chains
    BY <2>1, DeliverRunOK DEF Accounts
  <2>3. e \in Frames /\ e.saved = chain
    BY <1>0, <2>2, ExtFrameType
  <2>4. EffectsFit(w, stack, Len(stack))
    BY <2>1, DeliverEffects
  <2> HIDE DEF w, e
  <2> QED
    BY <1>0, <2>1, <2>3, <2>4, PushEffects DEF EffectsOK
<1>11. CASE CallSelf
  <2> DEFINE f == Last(stack)
             w == Deliver(chain, f.acct, f.calls[f.next], f.nonce)
  <2>1. InAccount
    BY <1>11 DEF CallSelf
  <2>2. \/ Resume(stack, w, "ok")
        \/ Resume(stack, chain, "revert")
    BY <1>11 DEF CallSelf, Top
  <2>3. /\ stack # <<>> /\ f.kind # "ext"
        /\ RunOK(w, stack)
        /\ EffectsFit(w, stack, Len(stack))
    BY <2>1, DeliverRunOK, DeliverEffects
  <2>4. EffectsFit(chain, stack, Len(stack) - 1)
    BY DEF EffectsOK
  <2> HIDE DEF w
  <2> QED
    BY <1>0, <2>2, <2>3, <2>4, ResumeEffects
<1>12. ASSUME InExt, Len(stack) > 1
       PROVE  /\ Front(stack) # <<>>
              /\ Last(Front(stack)).kind # "ext"
              /\ RunOK(chain, Front(stack))
              /\ EffectsFit(chain, Front(stack), Len(Front(stack)))
              /\ RunOK(Last(stack).saved, Front(stack))
              /\ EffectsFit(Last(stack).saved, Front(stack), Len(Front(stack)) - 1)
              /\ SavedEffects(Front(stack))
  <2>1. stack # <<>>
    BY <1>12 DEF InExt
  <2>2. /\ Len(stack) \in Nat \ {0}
        /\ Len(Front(stack)) = Len(stack) - 1
    BY <1>0, <2>1, PopStackOK
  <2>3. /\ SavedEffects(Front(stack))
        /\ EffectsFit(Last(stack).saved, Front(stack), Len(Front(stack)) - 1)
        /\ EffectsFit(chain, Front(stack), Len(stack) - 1)
    <3>1. Len(stack) - 1 \in Nat /\ Len(stack) - 1 < Len(stack)
      BY <2>2
    <3> QED
      BY <1>0, <2>1, <3>1, PopEffects DEF EffectsOK
  <2> QED
    BY <1>12, <2>2, <2>3, CalleeFrames
<1>13. CASE CalleeReturns
  BY <1>12, <1>13, ResumeEffects DEF CalleeReturns
<1>14. CASE CalleeReverts
  BY <1>12, <1>14, ResumeEffects DEF CalleeReverts, Top
<1>15. CASE AccountTraps
  BY <1>0, <1>15, PopEffects DEF AccountTraps, InAccount, Top, EffectsOK
<1>16. CASE UNCHANGED vars
  BY <1>16 DEF vars
<1> QED
  BY <1>1, <1>2, <1>4, <1>5, <1>6, <1>7, <1>8, <1>9, <1>10, <1>11, <1>13, <1>14,
     <1>15, <1>16 DEF Next

-----------------------------------------------------------------------------
(* History: one log. *)

LEMMA StretchEnds ==
    ASSUME NEW lo \in Nat, NEW hi \in Nat, lo <= hi
    PROVE  Min(lo .. hi) = lo /\ Max(lo .. hi) = hi
<1>1. /\ lo \in lo .. hi /\ \A y \in lo .. hi : lo <= y
      /\ hi \in lo .. hi /\ \A y \in lo .. hi : hi >= y
  OBVIOUS
<1>2. \A x \in lo .. hi : (\A y \in lo .. hi : x <= y) => x = lo
  BY <1>1
<1>3. \A x \in lo .. hi : (\A y \in lo .. hi : x >= y) => x = hi
  BY <1>1
<1> QED
  BY <1>1, <1>2, <1>3 DEF Min, Max

\* The events logged under n, if they are a stretch of the log.
LEMMA OutcomeStretch ==
    ASSUME NEW s, s.log \in Seq(Events), NEW n, NEW lo \in Nat,
           2 <= lo, lo <= Len(s.log),
           \A i \in 2 .. Len(s.log) : s.log[i].nonce = n <=> i >= lo
    PROVE  /\ Outcome(s, n) \in Seq(Events)
           /\ Len(Outcome(s, n)) = Len(s.log) - lo + 1
           /\ \A j \in 1 .. Len(s.log) - lo + 1 : Outcome(s, n)[j] = s.log[lo + j - 1]
<1> DEFINE hi == Len(s.log)
<1>1. hi \in Nat
  BY LenProperties
<1>2. Places(s, n) = lo .. hi
  BY <1>1 DEF Places
<1>3. Places(s, n) # {}
  BY <1>1, <1>2
<1>4. Outcome(s, n) = SubSeq(s.log, lo, hi)
  BY <1>1, <1>2, <1>3, StretchEnds DEF Outcome
<1>5. \A i \in lo .. hi : s.log[i] \in Events
  BY <1>1, ElementOfSeq
<1> QED
  BY <1>1, <1>4, <1>5, SubSeqProperties

\* Nothing is ever added to the outcome of a consumed nonce.
LEMMA OutcomeKept ==
    ASSUME NEW s \in AccountState, NEW t \in AccountState, Extends(t, s),
           NEW n \in 0 .. s.nonce - 1
    PROVE  Outcome(t, n) = Outcome(s, n)
<1> DEFINE k == Len(s.log)
           l == Len(t.log)
<1>1. /\ s.log \in Seq(Events) /\ t.log \in Seq(Events)
      /\ s.nonce \in Nat
      /\ k \in Nat /\ l \in Nat /\ k <= l
  BY LenProperties DEF AccountState, Extends
<1>2. \A i \in 2 .. k : i \in 1 .. k /\ i \in 2 .. l
  BY <1>1
<1>3. \A i \in 2 .. l : i \in 2 .. k \/ i > k
  BY <1>1
<1>4. \A i \in 2 .. l : i > k => t.log[i].nonce # n
  <2>1. \A i \in 2 .. l : i > k => t.log[i].nonce \in s.nonce .. t.nonce - 1
    BY DEF Extends
  <2> QED
    BY <1>1, <2>1
<1>5. Places(t, n) = Places(s, n)
  BY <1>2, <1>3, <1>4 DEF Places, Extends
<1>6. CASE Places(s, n) = {}
  BY <1>5, <1>6 DEF Outcome
<1>7. CASE Places(s, n) # {}
  <2> DEFINE P == Places(s, n)
             lo == Min(P)
             hi == Max(P)
  <2>1. P \in SUBSET (1 .. k) /\ P \subseteq 2 .. k
    BY <1>2 DEF Places
  <2>2. lo \in P /\ hi \in P
    BY <1>1, <1>7, <2>1, Extremes
  <2>3. lo \in 2 .. k /\ hi \in 2 .. k
    BY <2>1, <2>2
  <2> HIDE DEF P, lo, hi
  <2>4. \A i \in lo .. hi : i \in 1 .. k /\ i \in 1 .. l
    BY <1>1, <2>3
  <2>5. \A i \in lo .. hi : s.log[i] \in Events /\ t.log[i] \in Events /\ t.log[i] = s.log[i]
    BY <1>1, <2>4, ElementOfSeq DEF Extends
  <2>6. SubSeq(s.log, lo, hi) = SubSeq(t.log, lo, hi)
    <3> DEFINE u == SubSeq(s.log, lo, hi)
               v == SubSeq(t.log, lo, hi)
    <3>1. /\ u \in Seq(Events) /\ v \in Seq(Events)
          /\ Len(u) = IF lo <= hi THEN hi - lo + 1 ELSE 0
          /\ Len(v) = Len(u)
          /\ \A i \in 1 .. hi - lo + 1 : u[i] = s.log[lo + i - 1] /\ v[i] = t.log[lo + i - 1]
      BY <2>3, <2>5, SubSeqProperties
    <3>2. \A i \in 1 .. hi - lo + 1 : lo + i - 1 \in lo .. hi
      BY <2>3
    <3> HIDE DEF u, v
    <3>3. \A i \in 1 .. Len(u) : u[i] = v[i]
      <4>1. \A i \in 1 .. Len(u) : i \in 1 .. hi - lo + 1
        BY <2>3, <3>1
      <4> QED
        BY <2>5, <3>1, <3>2, <4>1
    <3>4. u = v
      BY <3>1, <3>3, SeqEqual
    <3> QED
      BY <3>4 DEF u, v
  <2> QED
    BY <1>5, <1>7, <2>6 DEF Outcome, P, lo, hi
<1> QED
  BY <1>6, <1>7

LEMMA ExtendsSame ==
    ASSUME NEW s \in AccountState, NEW t, t.log = s.log,
           t.nonce \in Nat, s.nonce <= t.nonce
    PROVE  Extends(t, s)
<1>1. Len(s.log) \in Nat
  BY LenProperties DEF AccountState
<1> QED
  BY <1>1 DEF Extends

LEMMA ExtendsTwice ==
    ASSUME NEW s \in AccountState, NEW t \in AccountState, NEW u \in AccountState,
           Extends(t, s), Extends(u, t)
    PROVE  Extends(u, s)
<1> DEFINE k == Len(s.log)
           l == Len(t.log)
           m == Len(u.log)
<1>1. /\ s.nonce \in Nat /\ t.nonce \in Nat /\ u.nonce \in Nat
      /\ k \in Nat /\ l \in Nat /\ m \in Nat /\ k <= l /\ l <= m
      /\ s.nonce <= t.nonce /\ t.nonce <= u.nonce
      /\ u.log \in Seq(Events)
  BY LenProperties DEF AccountState, Extends
<1>2. \A i \in 1 .. k : u.log[i] = s.log[i]
  <2>1. \A i \in 1 .. k : i \in 1 .. l
    BY <1>1
  <2> QED
    BY <2>1 DEF Extends
<1>3. ASSUME NEW i \in 2 .. m, i > k
      PROVE  u.log[i].nonce \in s.nonce .. u.nonce - 1
  <2>1. CASE i > l
    <3>1. u.log[i].nonce \in t.nonce .. u.nonce - 1
      BY <1>1, <1>3, <2>1 DEF Extends
    <3> QED
      BY <1>1, <3>1
  <2>2. CASE i <= l
    <3>1. i \in 2 .. l /\ i \in 1 .. l
      BY <1>1, <1>3, <2>2
    <3>2. u.log[i] = t.log[i] /\ t.log[i].nonce \in s.nonce .. t.nonce - 1
      BY <1>3, <3>1 DEF Extends
    <3> QED
      BY <1>1, <3>2
  <2> QED
    BY <1>1, <2>1, <2>2
<1> QED
  BY <1>1, <1>2, <1>3 DEF Extends

-----------------------------------------------------------------------------
(* History: one ledger. *)

LEMMA LedgerMax ==
    ASSUME NEW S
    PROVE  Ledger!Max(S) = Max(S)
BY DEF Ledger!Max, Max

\* Who is in charge after n operations depends on those n only.
LEMMA OwnerAfterSame ==
    ASSUME NEW key, NEW ops, NEW more, NEW n \in Nat,
           \A i \in 1 .. n : more[i] = ops[i]
    PROVE  Ledger!OwnerAfter(key, more, n) = Ledger!OwnerAfter(key, ops, n)
<1> DEFINE P == {i \in 1 .. n : ops[i].kind = "rotate"}
           Q == {i \in 1 .. n : more[i].kind = "rotate"}
<1>1. P = Q /\ P \in SUBSET (1 .. n)
  OBVIOUS
<1>2. P # {} => Max(P) \in 1 .. n
  BY <1>1, Extremes
<1>3. P # {} => more[Max(P)].newOwner = ops[Max(P)].newOwner
  BY <1>2
<1>4. /\ Ledger!OwnerAfter(key, more, n) = IF Q = {} THEN key ELSE more[Max(Q)].newOwner
      /\ Ledger!OwnerAfter(key, ops, n) = IF P = {} THEN key ELSE ops[Max(P)].newOwner
  BY LedgerMax DEF Ledger!OwnerAfter
<1> HIDE DEF P, Q
<1> QED
  BY <1>1, <1>3, <1>4

\* One more operation changes the owner if it is a rotation.
LEMMA OwnerAfterNext ==
    ASSUME NEW key, NEW ops, NEW n \in Nat
    PROVE  Ledger!OwnerAfter(key, ops, n + 1) =
               IF ops[n + 1].kind = "rotate" THEN ops[n + 1].newOwner
               ELSE Ledger!OwnerAfter(key, ops, n)
<1> DEFINE P == {i \in 1 .. n : ops[i].kind = "rotate"}
           Q == {i \in 1 .. n + 1 : ops[i].kind = "rotate"}
<1>1. /\ Ledger!OwnerAfter(key, ops, n + 1) = IF Q = {} THEN key ELSE ops[Max(Q)].newOwner
      /\ Ledger!OwnerAfter(key, ops, n) = IF P = {} THEN key ELSE ops[Max(P)].newOwner
  BY LedgerMax DEF Ledger!OwnerAfter
<1>2. \A i \in 1 .. n + 1 : i \in 1 .. n \/ i = n + 1
  OBVIOUS
<1>3. \A i \in 1 .. n : i \in 1 .. n + 1
  OBVIOUS
<1>4. CASE ops[n + 1].kind # "rotate"
  <2>1. P = Q
    BY <1>2, <1>3, <1>4
  <2> QED
    BY <1>1, <1>4, <2>1
<1>5. CASE ops[n + 1].kind = "rotate"
  <2>1. n + 1 \in Q /\ Q \in SUBSET (1 .. n + 1)
    BY <1>5
  <2>2. Max(Q) \in Q /\ \A x \in Q : x <= Max(Q)
    <3>1. n + 1 \in Nat /\ Q # {}
      BY <2>1
    <3> HIDE DEF Q
    <3> QED
      BY <2>1, <3>1, Extremes
  <2>3. Max(Q) = n + 1
    BY <2>1, <2>2
  <2> QED
    BY <1>1, <1>5, <2>1, <2>3
<1> QED
  BY <1>4, <1>5

\* An account state at rest, seen through what Settled depends on.
LEMMA SettledSame ==
    ASSUME NEW a, NEW sg, NEW more, sg \subseteq more, NEW s, Settled(a, s, sg), NEW t,
           t.owner = s.owner, t.nonce = s.nonce, t.log = s.log
    PROVE  Settled(a, t, more)
<1>1. \A n : Outcome(t, n) = Outcome(s, n)
  BY DEF Outcome, Places
<1>2. LedgerOf(t) = LedgerOf(s)
  BY <1>1 DEF LedgerOf
<1>3. Genesis(t) = Genesis(s)
  BY DEF Genesis
<1> QED
  BY <1>1, <1>2, <1>3 DEF Settled, Agreed

LEMMA LedgerFields ==
    ASSUME NEW s
    PROVE  /\ DOMAIN LedgerOf(s) = 1 .. s.nonce
           /\ \A i \in 1 .. s.nonce : LedgerOf(s)[i] = OperationOf(Outcome(s, i - 1))
BY DEF LedgerOf

\* The ledger only grows.
LEMMA LedgerKept ==
    ASSUME NEW s \in AccountState, NEW t \in AccountState, Extends(t, s)
    PROVE  /\ \A i \in 1 .. s.nonce : LedgerOf(t)[i] = LedgerOf(s)[i]
           /\ s.log # <<>> => Genesis(t) = Genesis(s)
<1>1. s.nonce \in Nat /\ t.nonce \in Nat /\ s.nonce <= t.nonce
  BY DEF Extends, AccountState
<1>2. ASSUME NEW i \in 1 .. s.nonce
      PROVE  LedgerOf(t)[i] = LedgerOf(s)[i]
  <2>1. i \in 1 .. t.nonce /\ i - 1 \in 0 .. s.nonce - 1
    BY <1>1
  <2>2. Outcome(t, i - 1) = Outcome(s, i - 1)
    BY <2>1, OutcomeKept
  <2> QED
    BY <2>1, <2>2, LedgerFields
<1>3. s.log # <<>> => Genesis(t) = Genesis(s)
  <2> SUFFICES ASSUME s.log # <<>> PROVE Genesis(t) = Genesis(s)
    OBVIOUS
  <2>1. Len(s.log) \in Nat \ {0}
    BY EmptySeq DEF AccountState
  <2>2. Len(s.log) <= Len(t.log) /\ t.log[1] = s.log[1]
    BY <2>1 DEF Extends
  <2>3. t.log # <<>>
    BY <2>1, <2>2, EmptySeq
  <2> QED
    BY <2>2, <2>3 DEF Genesis
<1> QED
  BY <1>2, <1>3

\* One operation settles: its outcome is complete, the owner agreed to it, and
\* the account is now in the hands it says.
LEMMA SettleOne ==
    ASSUME NEW a, NEW sg, NEW s \in AccountState, Settled(a, s, sg), s.log # <<>>,
           NEW t \in AccountState, Extends(t, s), t.nonce = s.nonce + 1,
           t.owner # NoOwner,
           Complete(Outcome(t, s.nonce), s.nonce),
           NEW op, op = OperationOf(Outcome(t, s.nonce)),
           [key |-> s.owner, intent |-> Intent(a, op, s.nonce)] \in sg,
           t.owner = IF op.kind = "rotate" THEN op.newOwner ELSE s.owner
    PROVE  Settled(a, t, sg)
<1> DEFINE n == s.nonce
           key == Genesis(s)
           old == LedgerOf(s)
           new == LedgerOf(t)
<1>1. n \in Nat /\ t.nonce = n + 1
  BY DEF AccountState
<1>2. /\ \A i \in 1 .. n : new[i] = old[i]
      /\ Genesis(t) = key
  BY LedgerKept
<1>3. new[n + 1] = op
  <2>1. n + 1 \in 1 .. t.nonce /\ n + 1 - 1 = n
    BY <1>1
  <2>2. ASSUME NEW i \in 1 .. t.nonce
        PROVE  new[i] = OperationOf(Outcome(t, i - 1))
    BY LedgerFields
  <2> HIDE DEF new, n
  <2>3. new[n + 1] = OperationOf(Outcome(t, n))
    BY <1>1, <2>1, <2>2
  <2> QED
    BY <2>3 DEF n
<1>4. /\ DOMAIN old = 1 .. n
      /\ DOMAIN new = 1 .. n + 1
  BY <1>1, LedgerFields
<1> HIDE DEF n, old, new, key
<1>5. \A i \in 0 .. n :
        Ledger!OwnerAfter(key, new, i) = Ledger!OwnerAfter(key, old, i)
  <2> SUFFICES ASSUME NEW i \in 0 .. n
               PROVE  Ledger!OwnerAfter(key, new, i) = Ledger!OwnerAfter(key, old, i)
    OBVIOUS
  <2>1. \A j \in 1 .. i : new[j] = old[j]
    <3>1. \A j \in 1 .. i : j \in 1 .. n
      BY <1>1
    <3> QED
      BY <1>2, <3>1
  <2>2. i \in Nat
    OBVIOUS
  <2> QED
    BY <2>1, <2>2, OwnerAfterSame
<1>6. Ledger!OwnerAfter(key, new, n) = s.owner
  <2>1. n \in 0 .. n
    BY <1>1
  <2> QED
    BY <1>5, <2>1 DEF Settled, n, key, old
<1>7. t.owner = Ledger!OwnerAfter(key, new, t.nonce)
  BY <1>1, <1>3, <1>6, OwnerAfterNext
<1>8. ASSUME NEW i \in 1 .. n + 1
      PROVE  [key |-> Ledger!OwnerAfter(key, new, i - 1),
              intent |-> Intent(a, new[i], i - 1)] \in sg
  <2>1. CASE i \in 1 .. n
    <3>1. i - 1 \in 0 .. n
      BY <1>1, <2>1
    <3> QED
      BY <1>2, <1>4, <1>5, <2>1, <3>1 DEF Settled, Agreed, key, old
  <2>2. CASE i = n + 1
    <3>1. i - 1 = n
      BY <1>1, <2>2
    <3> QED
      BY <1>3, <1>6, <2>2, <3>1 DEF n
  <2> QED
    BY <1>1, <2>1, <2>2
<1>9. Agreed(a, key, new, sg)
  BY <1>4, <1>8 DEF Agreed
<1>10. ASSUME NEW i \in 0 .. t.nonce - 1
       PROVE  Complete(Outcome(t, i), i)
  <2>1. CASE i = n
    BY <2>1 DEF n
  <2>2. CASE i # n
    <3>1. i \in 0 .. n - 1
      BY <1>1, <2>2
    <3>2. Outcome(t, i) = Outcome(s, i)
      BY <3>1, OutcomeKept DEF n
    <3> QED
      BY <3>1, <3>2 DEF Settled, n
  <2> QED
    BY <2>1, <2>2
<1> QED
  BY <1>2, <1>7, <1>9, <1>10 DEF Settled, key, new

-----------------------------------------------------------------------------
(* History: one operation. *)

\* What was logged since v is the outcome of the nonce consumed since v.
LEMMA OutcomeSince ==
    ASSUME NEW v \in AccountState, Ordered(v), v.log # <<>>,
           NEW t \in AccountState, Extends(t, v), t.nonce = v.nonce + 1,
           Len(v.log) < Len(t.log)
    PROVE  LET x == Outcome(t, v.nonce)
               m == Len(t.log) - Len(v.log)
           IN  /\ x \in Seq(Events)
               /\ m \in Nat \ {0}
               /\ Len(x) = m
               /\ DOMAIN x = 1 .. m
               /\ \A j \in 1 .. m : x[j] = t.log[Len(v.log) + j]
               /\ \A j \in 1 .. m : x[j].nonce = v.nonce
               /\ Last(x) = x[m]
               /\ DOMAIN Front(x) = 1 .. m - 1
<1> DEFINE n == v.nonce
           k == Len(v.log)
           l == Len(t.log)
           x == Outcome(t, n)
<1>1. /\ n \in Nat /\ k \in Nat \ {0} /\ l \in Nat /\ k < l
      /\ t.log \in Seq(Events)
      /\ t.nonce = n + 1
  BY EmptySeq, LenProperties DEF AccountState
<1>2. \A i \in 2 .. k : t.log[i] = v.log[i] /\ v.log[i].nonce \in 0 .. n - 1
  BY <1>1 DEF Ordered, Extends
<1>3. \A i \in 2 .. l : i > k => t.log[i].nonce \in n .. t.nonce - 1
  BY DEF Extends
<1> HIDE DEF n, k, l
<1>4. ASSUME NEW i \in 2 .. l
      PROVE  t.log[i].nonce = n <=> i >= k + 1
  <2>1. CASE i > k
    <3>1. t.log[i].nonce \in n .. t.nonce - 1
      BY <1>3, <2>1
    <3> QED
      BY <1>1, <2>1, <3>1
  <2>2. CASE i <= k
    <3>1. i \in 2 .. k
      BY <1>1, <2>2
    <3>2. t.log[i].nonce \in 0 .. n - 1
      BY <1>2, <3>1
    <3> QED
      BY <1>1, <2>2, <3>2
  <2> QED
    BY <1>1, <2>1, <2>2
<1>5. k + 1 \in Nat /\ 2 <= k + 1 /\ k + 1 <= l /\ l - (k + 1) + 1 = l - k
  BY <1>1
<1>6. /\ x \in Seq(Events)
      /\ Len(x) = l - k
      /\ \A j \in 1 .. l - k : x[j] = t.log[k + 1 + j - 1]
  <2>1. \A i \in 2 .. Len(t.log) : t.log[i].nonce = n <=> i >= k + 1
    BY <1>4 DEF l
  <2>2. k + 1 <= Len(t.log)
    BY <1>5 DEF l
  <2>3. /\ x \in Seq(Events)
        /\ Len(x) = Len(t.log) - (k + 1) + 1
        /\ \A j \in 1 .. Len(t.log) - (k + 1) + 1 : x[j] = t.log[k + 1 + j - 1]
    <3> DEFINE lo == k + 1
    <3>1. /\ lo \in Nat /\ 2 <= lo /\ lo <= Len(t.log)
          /\ \A i \in 2 .. Len(t.log) : t.log[i].nonce = n <=> i >= lo
      BY <1>5, <2>1, <2>2
    <3> HIDE DEF lo
    <3>2. /\ x \in Seq(Events)
          /\ Len(x) = Len(t.log) - lo + 1
          /\ \A j \in 1 .. Len(t.log) - lo + 1 : x[j] = t.log[lo + j - 1]
      <4>1. t.log \in Seq(Events)
        BY <1>1
      <4> QED
        BY ONLY <3>1, <4>1, OutcomeStretch DEF x
    <3> QED
      BY <3>2 DEF lo
  <2> QED
    BY <1>5, <2>3 DEF l
<1> HIDE DEF x
<1>7. ASSUME NEW j \in 1 .. l - k
      PROVE  x[j] = t.log[k + j] /\ x[j].nonce = n
  <2>1. k + 1 + j - 1 = k + j /\ k + j \in 2 .. l /\ k + j >= k + 1
    BY <1>1
  <2> QED
    BY <1>4, <1>6, <2>1
<1>8. l - k \in Nat \ {0} /\ l - k - 1 \in Nat
  BY <1>1
<1>9. DOMAIN x = 1 .. l - k /\ Last(x) = x[l - k]
  BY <1>6, LenProperties DEF Last
<1>10. DOMAIN Front(x) = 1 .. l - k - 1
  <2> DEFINE m == l - k - 1
  <2>1. \A i \in 1 .. m : x[i] \in Events
    BY <1>6, <1>8, ElementOfSeq
  <2>2. m \in Int /\ Front(x) = SubSeq(x, 1, m)
    BY <1>6, <1>8 DEF Front
  <2>3. /\ SubSeq(x, 1, m) \in Seq(Events)
        /\ Len(SubSeq(x, 1, m)) = IF 1 <= m THEN m - 1 + 1 ELSE 0
    BY <2>1, <2>2, SubSeqProperties
  <2> HIDE DEF m
  <2>4. m \in Nat
    BY <1>8 DEF m
  <2>5. DOMAIN Front(x) = 1 .. m
    BY <2>2, <2>3, <2>4, LenProperties
  <2> QED
    BY <2>5 DEF m
<1> QED
  BY <1>6, <1>7, <1>8, <1>9, <1>10 DEF n, k, l, x

\* The same, when one event was added.
LEMMA OneSince ==
    ASSUME NEW v \in AccountState, Ordered(v), v.log # <<>>,
           NEW t \in AccountState, Extends(t, v), t.nonce = v.nonce + 1,
           Len(v.log) < Len(t.log), Len(t.log) - Len(v.log) = 1
    PROVE  LET x == Outcome(t, v.nonce)
           IN  /\ Len(x) = 1
               /\ DOMAIN x = 1 .. 1
               /\ \A j \in 1 .. 1 : x[j] = t.log[Len(v.log) + j]
               /\ \A j \in 1 .. 1 : x[j].nonce = v.nonce
               /\ Last(x) = x[1]
<1> DEFINE x == Outcome(t, v.nonce)
           m == Len(t.log) - Len(v.log)
<1>1. /\ Len(x) = m
      /\ DOMAIN x = 1 .. m
      /\ \A j \in 1 .. m : x[j] = t.log[Len(v.log) + j]
      /\ \A j \in 1 .. m : x[j].nonce = v.nonce
      /\ Last(x) = x[m]
  BY OutcomeSince
<1>2. m = 1
  OBVIOUS
<1> HIDE DEF x, m
<1>3. /\ Len(x) = 1
      /\ DOMAIN x = 1 .. 1
      /\ \A j \in 1 .. 1 : x[j] = t.log[Len(v.log) + j]
      /\ \A j \in 1 .. 1 : x[j].nonce = v.nonce
      /\ Last(x) = x[1]
  BY ONLY <1>1, <1>2
<1> QED
  BY ONLY <1>3 DEF x

LEMMA SettleExecute ==
    ASSUME NEW a, NEW sg, NEW v \in AccountState, Settled(a, v, sg), Ordered(v),
           v.log # <<>>, v.owner # NoOwner,
           NEW t \in AccountState, Extends(t, v), t.nonce = v.nonce + 1,
           t.owner = v.owner, Len(t.log) = Len(v.log) + 1,
           t.log[Len(v.log) + 1].type = "Executed",
           [key |-> v.owner,
            intent |-> Intent(a, ExecuteOp(t.log[Len(v.log) + 1].call), v.nonce)] \in sg
    PROVE  Settled(a, t, sg)
<1> DEFINE x == Outcome(t, v.nonce)
           e == t.log[Len(v.log) + 1]
           op == ExecuteOp(e.call)
<1>1. Len(v.log) \in Nat
  BY LenProperties DEF AccountState
<1>2. Len(t.log) - Len(v.log) = 1 /\ Len(v.log) < Len(t.log)
  BY <1>1
<1>3. /\ Len(x) = 1
      /\ DOMAIN x = 1 .. 1
      /\ \A j \in 1 .. 1 : x[j] = t.log[Len(v.log) + j]
      /\ \A j \in 1 .. 1 : x[j].nonce = v.nonce
      /\ Last(x) = x[1]
  BY <1>2, OneSince
<1> HIDE DEF x
<1>4. x[1] = e
  BY <1>3
<1>5. Complete(x, v.nonce)
  BY <1>3, <1>4 DEF Complete
<1>6. OperationOf(x) = op
  BY <1>3, <1>4 DEF OperationOf
<1>7. op.kind # "rotate"
  BY DEF ExecuteOp
<1> HIDE DEF op
<1> QED
  BY <1>5, <1>6, <1>7, SettleOne DEF x, op

LEMMA SettleRotate ==
    ASSUME NEW a, NEW sg, NEW v \in AccountState, Settled(a, v, sg), Ordered(v),
           v.log # <<>>,
           NEW t \in AccountState, Extends(t, v), t.nonce = v.nonce + 1,
           Len(t.log) = Len(v.log) + 1,
           t.log[Len(v.log) + 1].type = "OwnerRotated",
           t.owner = t.log[Len(v.log) + 1].new, t.owner # NoOwner,
           [key |-> v.owner, intent |-> Intent(a, RotateOp(t.owner), v.nonce)] \in sg
    PROVE  Settled(a, t, sg)
<1> DEFINE x == Outcome(t, v.nonce)
           e == t.log[Len(v.log) + 1]
           op == RotateOp(e.new)
<1>1. Len(v.log) \in Nat
  BY LenProperties DEF AccountState
<1>2. Len(t.log) - Len(v.log) = 1 /\ Len(v.log) < Len(t.log)
  BY <1>1
<1>3. /\ Len(x) = 1
      /\ DOMAIN x = 1 .. 1
      /\ \A j \in 1 .. 1 : x[j] = t.log[Len(v.log) + j]
      /\ \A j \in 1 .. 1 : x[j].nonce = v.nonce
      /\ Last(x) = x[1]
  BY <1>2, OneSince
<1> HIDE DEF x
<1>4. x[1] = e
  BY <1>3
<1>5. Complete(x, v.nonce)
  BY <1>3, <1>4 DEF Complete
<1>6. OperationOf(x) = op
  BY <1>3, <1>4 DEF OperationOf
<1>7. op.kind = "rotate" /\ op.newOwner = t.owner
  BY DEF RotateOp
<1> HIDE DEF op
<1> QED
  BY <1>5, <1>6, <1>7, SettleOne DEF x, op

LEMMA SettleBatch ==
    ASSUME NEW a, NEW sg, NEW v \in AccountState, Settled(a, v, sg), Ordered(v),
           v.log # <<>>, v.owner # NoOwner,
           NEW t \in AccountState, Extends(t, v), t.nonce = v.nonce + 1,
           t.owner = v.owner,
           NEW calls \in Seq(Calls), calls # <<>>,
           Len(t.log) = Len(v.log) + Len(calls) + 1,
           \A j \in 1 .. Len(calls) :
              /\ t.log[Len(v.log) + j].type = "Executed"
              /\ t.log[Len(v.log) + j].success
              /\ t.log[Len(v.log) + j].call = calls[j],
           t.log[Len(v.log) + Len(calls) + 1].type = "BatchExecuted",
           t.log[Len(v.log) + Len(calls) + 1].calls = Len(calls),
           [key |-> v.owner, intent |-> Intent(a, BatchOp(calls), v.nonce)] \in sg
    PROVE  Settled(a, t, sg)
<1> DEFINE x == Outcome(t, v.nonce)
           k == Len(v.log)
           m == Len(calls)
           op == BatchOp(calls)
<1>1. k \in Nat /\ m \in Nat \ {0}
  BY EmptySeq, LenProperties DEF AccountState
<1>0. /\ Len(t.log) = k + m + 1
      /\ \A j \in 1 .. m : /\ t.log[k + j].type = "Executed"
                          /\ t.log[k + j].success
                          /\ t.log[k + j].call = calls[j]
      /\ t.log[k + m + 1].type = "BatchExecuted"
      /\ t.log[k + m + 1].calls = m
  OBVIOUS
<1> HIDE DEF x, k, m
<1>2. Len(t.log) - k = m + 1 /\ k < Len(t.log)
  BY <1>0, <1>1
<1>3. /\ Len(x) = m + 1
      /\ DOMAIN x = 1 .. m + 1
      /\ \A j \in 1 .. m + 1 : x[j] = t.log[k + j]
      /\ \A j \in 1 .. m + 1 : x[j].nonce = v.nonce
      /\ Last(x) = x[m + 1]
      /\ DOMAIN Front(x) = 1 .. m + 1 - 1
  <2> DEFINE d == Len(t.log) - k
  <2>1. /\ Len(x) = d
        /\ DOMAIN x = 1 .. d
        /\ \A j \in 1 .. d : x[j] = t.log[k + j]
        /\ \A j \in 1 .. d : x[j].nonce = v.nonce
        /\ Last(x) = x[d]
        /\ DOMAIN Front(x) = 1 .. d - 1
    <3>1. Len(v.log) < Len(t.log)
      BY <1>2 DEF k
    <3> QED
      BY ONLY <3>1, v \in AccountState, Ordered(v), v.log # <<>>, t \in AccountState,
              Extends(t, v), t.nonce = v.nonce + 1, OutcomeSince DEF x, k
  <2>2. d = m + 1 /\ m + 1 \in Nat
    BY <1>1, <1>2
  <2> HIDE DEF d
  <2> QED
    BY <1>1, <2>1, <2>2
<1>4. /\ \A j \in 1 .. m : j \in 1 .. m + 1
      /\ m + 1 \in 1 .. m + 1
      /\ m + 1 - 1 = m /\ m + 1 > 1
      /\ k + (m + 1) = k + m + 1
  BY <1>1
<1>5. /\ Last(x).type = "BatchExecuted"
      /\ Last(x).calls = m
      /\ \A j \in 1 .. m : x[j].type = "Executed" /\ x[j].success /\ x[j].call = calls[j]
  <2>1. x[m + 1] = t.log[k + m + 1]
    BY <1>3, <1>4
  <2>2. \A j \in 1 .. m : x[j] = t.log[k + j]
    BY <1>3, <1>4
  <2>3. \A j \in 1 .. m : x[j].type = "Executed" /\ x[j].success /\ x[j].call = calls[j]
    BY ONLY <1>0, <2>2
  <2> QED
    BY <1>0, <1>3, <2>1, <2>3
<1>6. Complete(x, v.nonce)
  <2>1. \A i \in DOMAIN x : x[i].nonce = v.nonce
    BY <1>3
  <2>2. \A i \in DOMAIN Front(x) : x[i].type = "Executed" /\ x[i].success
    BY <1>3, <1>4, <1>5
  <2>3. Len(x) > 1 /\ Last(x).calls = Len(x) - 1
    BY <1>1, <1>3, <1>4, <1>5
  <2> QED
    BY <1>5, <2>1, <2>2, <2>3 DEF Complete
<1>7. [i \in DOMAIN Front(x) |-> x[i].call] = calls
  <2>1. DOMAIN calls = 1 .. m /\ calls \in [1 .. m -> Calls]
    BY LenProperties DEF m
  <2>2. DOMAIN Front(x) = 1 .. m
    BY <1>3, <1>4
  <2> QED
    BY <1>5, <2>1, <2>2
<1>8. OperationOf(x) = op
  BY <1>5, <1>7 DEF OperationOf
<1>9. op.kind # "rotate"
  BY DEF BatchOp
<1> HIDE DEF op
<1> QED
  BY <1>6, <1>8, <1>9, SettleOne DEF x, op

-----------------------------------------------------------------------------
(* History: the call stack. *)

LEMMA SavedStates ==
    ASSUME NEW frames \in Seq(Frames), NEW i \in 1 .. Len(frames), NEW a \in Accounts
    PROVE  frames[i].saved[a] \in AccountState
<1>1. frames[i].saved \in ChainState
  BY ElementOfSeq, SavedType
<1> QED
  BY <1>1 DEF ChainState

\* Somebody signs.
LEMMA SignedHistory ==
    ASSUME NEW sg, NEW more, sg \subseteq more, NEW w, NEW frames, HistoryOK(w, frames, sg)
    PROVE  HistoryOK(w, frames, more)
<1>1. \A a, s : Settled(a, s, sg) => Settled(a, s, more)
  BY SettledSame
<1>2. \A v, f : Running(v, f, sg) => Running(v, f, more)
  BY DEF Running
<1>3. \A v, k : HistoryFits(v, frames, k, sg) => HistoryFits(v, frames, k, more)
  BY <1>1, <1>2 DEF HistoryFits
<1> QED
  BY <1>3 DEF HistoryOK, SavedHistory

\* The top frame leaves.
LEMMA PopHistory ==
    ASSUME NEW sg, NEW frames, StackOK(frames), frames # <<>>, SavedHistory(frames, sg)
    PROVE  /\ SavedHistory(Front(frames), sg)
           /\ HistoryOK(Last(frames).saved, Front(frames), sg)
           /\ \A w : HistoryFits(w, frames, Len(frames), sg) /\ Last(frames).kind = "ext"
                        => HistoryOK(w, Front(frames), sg)
<1> DEFINE k == Len(frames)
           g == Front(frames)
<1>1. /\ k \in Nat \ {0}
      /\ Len(g) = k - 1
      /\ \A i \in 1 .. k - 1 : g[i] = frames[i]
      /\ Last(frames) = frames[k]
  BY PopStackOK DEF Last
<1>2. /\ \A i \in 1 .. k - 1 : i \in 1 .. k /\ i # k
      /\ \A i \in 1 .. k : i \in 1 .. k - 1 \/ i = k
      /\ k \in 1 .. k
      /\ k - 1 \in Nat
  BY <1>1, LastIndex
<1>3. \A i \in 1 .. k - 1 : \A j \in 1 .. i - 1 : j \in 1 .. k - 1
  BY <1>1
<1> HIDE DEF k, g
<1>4. ASSUME NEW v, NEW m, \A j \in 1 .. m : j \in 1 .. k - 1,
             HistoryFits(v, frames, m, sg)
      PROVE  HistoryFits(v, g, m, sg)
  BY <1>1, <1>4 DEF HistoryFits
<1>5. SavedHistory(g, sg)
  <2> SUFFICES ASSUME NEW i \in 1 .. k - 1
               PROVE  HistoryFits(frames[i].saved, g, i - 1, sg)
    BY <1>1 DEF SavedHistory
  <2>1. HistoryFits(frames[i].saved, frames, i - 1, sg)
    BY <1>2 DEF SavedHistory, k
  <2> QED
    BY <1>3, <1>4, <2>1
<1>6. HistoryFits(frames[k].saved, g, k - 1, sg)
  <2>1. HistoryFits(frames[k].saved, frames, k - 1, sg)
    BY <1>2 DEF SavedHistory, k
  <2> QED
    BY <1>4, <2>1
<1>7. ASSUME NEW w, HistoryFits(w, frames, k, sg), frames[k].kind = "ext"
      PROVE  HistoryFits(w, g, k - 1, sg)
  <2>1. \A a \in Accounts : ~Owns(frames[k], a)
    BY <1>7 DEF Owns
  <2>2. \A a \in Accounts :
          (\A i \in 1 .. k - 1 : ~Owns(frames[i], a)) => \A i \in 1 .. k : ~Owns(frames[i], a)
    BY <1>2, <2>1
  <2>3. HistoryFits(w, frames, k - 1, sg)
    BY <1>2, <1>7, <2>2 DEF HistoryFits
  <2> QED
    BY <1>4, <2>3
<1> QED
  BY <1>1, <1>5, <1>6, <1>7 DEF HistoryOK, k, g

\* A frame enters, v being the chain it runs on.
LEMMA PushHistory ==
    ASSUME NEW sg, NEW frames \in Seq(Frames), NEW f \in Frames, NEW v,
           HistoryOK(f.saved, frames, sg),
           \A a \in Accounts :
              (\A i \in 1 .. Len(frames) : ~Owns(frames[i], a)) /\ ~Owns(f, a)
                 => Settled(a, v[a], sg),
           \A i \in 1 .. Len(frames) : frames[i].kind # "ext" => Running(v, frames[i], sg),
           f.kind # "ext" => Running(v, f, sg),
           v \in ChainState,
           \A a \in Accounts : Extends(v[a], f.saved[a])
    PROVE  HistoryOK(v, Append(frames, f), sg)
<1> DEFINE k == Len(frames)
           g == Append(frames, f)
<1>1. /\ k \in Nat
      /\ Len(g) = k + 1
      /\ g[k + 1] = f
      /\ \A i \in 1 .. k : g[i] = frames[i]
  BY AppendProperties, LenProperties
<1>2. /\ \A i \in 1 .. k + 1 : i \in 1 .. k \/ i = k + 1
      /\ \A i \in 1 .. k : \A j \in 1 .. i - 1 : j \in 1 .. k
      /\ \A i \in 1 .. k : i \in 1 .. k + 1
      /\ k + 1 \in 1 .. k + 1
      /\ k + 1 - 1 = k
  BY <1>1
<1>3. ASSUME NEW i \in 1 .. k, NEW a \in Accounts
      PROVE  Extends(v[a], frames[i].saved[a])
  <2>1. frames[i].saved[a] \in AccountState
    BY SavedStates
  <2>2. f.saved[a] \in AccountState /\ v[a] \in AccountState
    BY SavedType DEF ChainState
  <2>3. Extends(f.saved[a], frames[i].saved[a])
    BY DEF HistoryOK, HistoryFits
  <2> QED
    BY <2>1, <2>2, <2>3, ExtendsTwice
<1> HIDE DEF k, g
<1>4. HistoryFits(v, g, k + 1, sg)
  <2>1. ASSUME NEW a \in Accounts, \A i \in 1 .. k + 1 : ~Owns(g[i], a)
        PROVE  Settled(a, v[a], sg)
    BY <1>1, <1>2, <2>1 DEF k
  <2>2. ASSUME NEW i \in 1 .. k + 1, g[i].kind # "ext"
        PROVE  Running(v, g[i], sg)
    BY <1>1, <1>2, <2>2 DEF k
  <2>3. ASSUME NEW i \in 1 .. k + 1, NEW a \in Accounts
        PROVE  Extends(v[a], g[i].saved[a])
    BY <1>1, <1>2, <1>3
  <2> QED
    BY <2>1, <2>2, <2>3 DEF HistoryFits
<1>5. ASSUME NEW u, NEW m, \A j \in 1 .. m : j \in 1 .. k,
             HistoryFits(u, frames, m, sg)
      PROVE  HistoryFits(u, g, m, sg)
  BY <1>1, <1>5 DEF HistoryFits
<1>6. ASSUME NEW i \in 1 .. k + 1
      PROVE  HistoryFits(g[i].saved, g, i - 1, sg)
  <2>1. CASE i \in 1 .. k
    <3>1. HistoryFits(frames[i].saved, frames, i - 1, sg)
      BY <2>1 DEF HistoryOK, SavedHistory, k
    <3> QED
      BY <1>1, <1>2, <1>5, <2>1, <3>1
  <2>2. CASE i = k + 1
    <3>1. HistoryFits(f.saved, frames, k, sg)
      BY DEF HistoryOK, k
    <3> QED
      BY <1>1, <1>2, <1>5, <2>2, <3>1
  <2> QED
    BY <1>2, <2>1, <2>2
<1> QED
  BY <1>1, <1>4, <1>6 DEF HistoryOK, SavedHistory, g

\* An account that has no operation on the stack changes.
LEMMA IdleHistory ==
    ASSUME NEW sg, NEW w \in ChainState, NEW frames \in Seq(Frames),
           HistoryOK(w, frames, sg),
           NEW a \in Accounts, NEW s \in AccountState, Settled(a, s, sg), Extends(s, w[a]),
           \A i \in 1 .. Len(frames) : ~Owns(frames[i], a)
    PROVE  HistoryOK([w EXCEPT ![a] = s], frames, sg)
<1> DEFINE v == [w EXCEPT ![a] = s]
           k == Len(frames)
<1>1. v[a] = s /\ \A b \in Accounts : b # a => v[b] = w[b]
  <2>1. DOMAIN w = Accounts
    BY ONLY w \in ChainState DEF ChainState
  <2> QED
    BY ONLY a \in Accounts, <2>1 DEF v
<1> HIDE DEF v, k
<1>2. ASSUME NEW i \in 1 .. k, frames[i].kind # "ext"
      PROVE  Running(v, frames[i], sg)
  <2>1. frames[i].acct \in Accounts /\ frames[i].acct # a
    BY <1>2, ElementOfSeq, AccountFrameType DEF Owns, k
  <2>2. Running(w, frames[i], sg)
    BY <1>2 DEF HistoryOK, HistoryFits, k
  <2> QED
    BY <1>1, <2>1, <2>2, Zenon DEF Running
<1>3. ASSUME NEW i \in 1 .. k, NEW b \in Accounts
      PROVE  Extends(v[b], frames[i].saved[b])
  <2>1. Extends(w[b], frames[i].saved[b])
    BY DEF HistoryOK, HistoryFits, k
  <2>2. frames[i].saved[b] \in AccountState /\ w[b] \in AccountState
    BY SavedStates DEF ChainState, k
  <2>3. b = a => Extends(s, frames[i].saved[b])
    BY <2>1, <2>2, ExtendsTwice
  <2> QED
    BY <1>1, <2>1, <2>3
<1>4. ASSUME NEW b \in Accounts, \A i \in 1 .. k : ~Owns(frames[i], b)
      PROVE  Settled(b, v[b], sg)
  BY <1>1, <1>4 DEF HistoryOK, HistoryFits, k
<1>5. HistoryFits(v, frames, k, sg)
  BY <1>2, <1>3, <1>4 DEF HistoryFits
<1> QED
  BY <1>5 DEF HistoryOK, v, k

\* An account changes in nothing but its guard and what it delivered.
LEMMA SameHistory ==
    ASSUME NEW sg, NEW w \in ChainState, NEW frames \in Seq(Frames),
           HistoryOK(w, frames, sg), NEW a \in Accounts, NEW s,
           s.owner = w[a].owner, s.nonce = w[a].nonce, s.log = w[a].log
    PROVE  HistoryOK([w EXCEPT ![a] = s], frames, sg)
<1> DEFINE v == [w EXCEPT ![a] = s]
           k == Len(frames)
<1>1. \A b \in Accounts :
        v[b].owner = w[b].owner /\ v[b].nonce = w[b].nonce /\ v[b].log = w[b].log
  <2>1. v[a] = s /\ \A b \in Accounts : b # a => v[b] = w[b]
    <3>1. DOMAIN w = Accounts
      BY ONLY w \in ChainState DEF ChainState
    <3> QED
      BY ONLY a \in Accounts, <3>1 DEF v
  <2> HIDE DEF v
  <2> QED
    BY <2>1
<1> HIDE DEF v, k
<1>2. ASSUME NEW i \in 1 .. k, frames[i].kind # "ext"
      PROVE  Running(v, frames[i], sg)
  <2>1. frames[i].acct \in Accounts
    BY <1>2, ElementOfSeq, AccountFrameType DEF k
  <2>2. Running(w, frames[i], sg)
    BY <1>2 DEF HistoryOK, HistoryFits, k
  <2> QED
    BY <1>1, <2>1, <2>2, Zenon DEF Running
<1>3. ASSUME NEW i \in 1 .. k, NEW b \in Accounts
      PROVE  Extends(v[b], frames[i].saved[b])
  BY <1>1 DEF HistoryOK, HistoryFits, Extends, k
<1>4. ASSUME NEW b \in Accounts, \A i \in 1 .. k : ~Owns(frames[i], b)
      PROVE  Settled(b, v[b], sg)
  <2>1. Settled(b, w[b], sg)
    BY <1>4 DEF HistoryOK, HistoryFits, k
  <2> QED
    BY <1>1, <2>1, SettledSame
<1>5. HistoryFits(v, frames, k, sg)
  BY <1>2, <1>3, <1>4 DEF HistoryFits
<1> QED
  BY <1>5 DEF HistoryOK, v, k

\* What a run knows of the account of its top frame, now and when it started.
LEMMA RunningTop ==
    ASSUME NEW sg, NEW w, NEW frames, RunOK(w, frames), LogOK(w, frames),
           HistoryOK(w, frames, sg), frames # <<>>, Last(frames).kind # "ext"
    PROVE  LET f == Last(frames)
               s == w[f.acct]
               v == f.saved[f.acct]
           IN  /\ v \in AccountState
               /\ Settled(f.acct, v, sg)
               /\ Ordered(v)
               /\ v.log # <<>>
               /\ v.owner # NoOwner
               /\ v.nonce = f.nonce
               /\ Running(w, f, sg)
               /\ Extends(s, v)
               /\ s.nonce = f.nonce + 1
               /\ Len(s.log) = Len(v.log) + f.next - 1
<1> DEFINE f == Last(frames)
           a == f.acct
           k == Len(frames)
<1>1. /\ f.kind # "ext"
      /\ a \in Accounts
      /\ k \in Nat /\ k > 1
      /\ frames[k] = f
      /\ frames \in Seq(Frames)
      /\ \A i \in 1 .. k - 1 : ~Owns(frames[i], a)
  BY TopAccount
<1>2. k \in 1 .. k
  BY <1>1
<1>3. f.saved[a] \in AccountState
  BY <1>1, <1>2, SavedStates
<1> HIDE DEF f, k
<1>4. Midway(w, f) /\ Ordered(f.saved[a]) /\ Recorded(f.saved[a])
  BY <1>1, <1>2 DEF LogOK, ChainFits, k
<1>5. Running(w, f, sg) /\ Extends(w[a], f.saved[a])
  BY <1>1, <1>2 DEF HistoryOK, HistoryFits, k
<1>6. Settled(a, f.saved[a], sg)
  <2>1. HistoryFits(f.saved, frames, k - 1, sg)
    BY <1>1, <1>2 DEF HistoryOK, SavedHistory, k
  <2> QED
    BY <1>1, <2>1 DEF HistoryFits
<1> QED
  BY <1>3, <1>4, <1>5, <1>6, Zenon DEF Midway, Running, Recorded, f

\* A step of another account.
LEMMA RunningSame ==
    ASSUME NEW sg, NEW f, NEW w, NEW u, u[f.acct] = w[f.acct], Running(w, f, sg)
    PROVE  Running(u, f, sg)
BY DEF Running

\* The operation on top ends, and leaves its account at rest.
LEMMA TopSettles ==
    ASSUME NEW sg, NEW w, NEW frames, RunOK(w, frames), HistoryOK(w, frames, sg),
           frames # <<>>, Last(frames).kind # "ext",
           NEW s \in AccountState, Settled(Last(frames).acct, s, sg),
           Extends(s, Last(frames).saved[Last(frames).acct])
    PROVE  HistoryOK([w EXCEPT ![Last(frames).acct] = s], Front(frames), sg)
<1> DEFINE f == Last(frames)
           a == f.acct
           k == Len(frames)
           g == Front(frames)
           u == [w EXCEPT ![a] = s]
<1>1. /\ f \in Frames
      /\ f.kind # "ext"
      /\ a \in Accounts
      /\ w \in ChainState
      /\ k \in Nat /\ k > 1
      /\ frames[k] = f
      /\ \A i \in 1 .. k - 1 : frames[i] \in Frames /\ ~Owns(frames[i], a)
      /\ Len(g) = k - 1
      /\ \A i \in 1 .. k - 1 : g[i] = frames[i]
      /\ g \in Seq(Frames)
  BY TopAccount
<1>2. SavedHistory(g, sg) /\ HistoryOK(f.saved, g, sg)
  BY PopHistory DEF RunOK, HistoryOK
<1>3. /\ \A i \in 1 .. k : i \in 1 .. k - 1 \/ i = k
      /\ \A i \in 1 .. k - 1 : i \in 1 .. k
  BY <1>1, LastIndex
<1>4. u[a] = s /\ \A b \in Accounts : b # a => u[b] = w[b]
  BY <1>1 DEF ChainState
<1> HIDE DEF f, k, g, u
<1>5. ASSUME NEW b \in Accounts, \A i \in 1 .. k - 1 : ~Owns(g[i], b)
      PROVE  Settled(b, u[b], sg)
  <2>1. CASE b = a
    BY <1>4, <2>1 DEF f
  <2>2. CASE b # a
    <3>1. \A i \in 1 .. k : ~Owns(frames[i], b)
      BY <1>1, <1>3, <1>5, <2>2 DEF Owns
    <3> QED
      BY <1>4, <2>2, <3>1 DEF HistoryOK, HistoryFits, k
  <2> QED
    BY <2>1, <2>2
<1>6. ASSUME NEW i \in 1 .. k - 1, g[i].kind # "ext"
      PROVE  Running(u, g[i], sg)
  <2>1. g[i] = frames[i] /\ frames[i].acct \in Accounts /\ frames[i].acct # a
    BY <1>1, <1>6, AccountFrameType DEF Owns
  <2>2. Running(w, frames[i], sg)
    BY <1>3, <1>6, <2>1 DEF HistoryOK, HistoryFits, k
  <2>3. u[frames[i].acct] = w[frames[i].acct]
    BY <1>4, <2>1
  <2>4. Running(u, frames[i], sg)
    BY <2>2, <2>3, RunningSame
  <2> QED
    BY <2>1, <2>4
<1>7. ASSUME NEW i \in 1 .. k - 1, NEW b \in Accounts
      PROVE  Extends(u[b], g[i].saved[b])
  <2>1. CASE b = a
    <3>1. g[i].saved[a] \in AccountState /\ f.saved[a] \in AccountState
      BY <1>1, SavedType DEF ChainState
    <3>2. Extends(f.saved[a], g[i].saved[a])
      BY <1>1, <1>2 DEF HistoryOK, HistoryFits
    <3>3. Extends(s, f.saved[a])
      BY DEF f
    <3> QED
      BY <1>4, <2>1, <3>1, <3>2, <3>3, ExtendsTwice
  <2>2. CASE b # a
    <3>1. Extends(w[b], frames[i].saved[b])
      BY <1>3 DEF HistoryOK, HistoryFits, k
    <3> QED
      BY <1>1, <1>4, <2>2, <3>1
  <2> QED
    BY <2>1, <2>2
<1>8. HistoryFits(u, g, k - 1, sg)
  BY <1>5, <1>6, <1>7 DEF HistoryFits
<1> QED
  BY <1>1, <1>2, <1>8 DEF HistoryOK, u, f, g

\* An operation that consumed v's nonce logs one more event.
LEMMA EmitExtends ==
    ASSUME NEW v \in AccountState, NEW s \in AccountState, Extends(s, v),
           s.nonce = v.nonce + 1, NEW e \in Events, e.nonce = v.nonce
    PROVE  Extends(Emit(s, e), v)
<1> DEFINE t == Emit(s, e)
           k == Len(v.log)
           l == Len(s.log)
<1>1. /\ t.nonce = s.nonce
      /\ l \in Nat
      /\ Len(t.log) = l + 1
      /\ t.log[l + 1] = e
      /\ \A i \in 1 .. l : t.log[i] = s.log[i]
  BY EmitFields
<1>2. k \in Nat /\ v.nonce \in Nat
  BY LenProperties DEF AccountState
<1>3. k <= l
  BY DEF Extends
<1>4. /\ \A i \in 1 .. k : i \in 1 .. l
      /\ \A i \in 2 .. l + 1 : (i \in 1 .. l /\ i \in 2 .. l) \/ i = l + 1
      /\ v.nonce \in v.nonce .. s.nonce - 1
      /\ v.nonce <= s.nonce
      /\ k <= l + 1
  BY <1>1, <1>2, <1>3
<1> HIDE DEF t, k, l
<1>5. \A i \in 1 .. k : t.log[i] = v.log[i]
  BY <1>1, <1>4 DEF Extends, k
<1>6. \A i \in 2 .. l + 1 : i > k => t.log[i].nonce \in v.nonce .. s.nonce - 1
  BY <1>1, <1>4 DEF Extends, k, l
<1> QED
  BY <1>1, <1>4, <1>5, <1>6 DEF Extends, t, k

LEMMA ExitSame ==
    ASSUME NEW s \in AccountState
    PROVE  /\ Exit(s) \in AccountState
           /\ Exit(s).owner = s.owner
           /\ Exit(s).nonce = s.nonce
           /\ Exit(s).log = s.log
BY DEF Exit, AccountState

\* Whatever an inner call did, the rest of the handler settles the operation,
\* unwinds it, or goes on with it.
LEMMA ResumeHistory ==
    ASSUME NEW sg, NEW w, NEW frames, RunOK(w, frames), LogOK(w, frames),
           HistoryOK(w, frames, sg), frames # <<>>, Last(frames).kind # "ext",
           NEW result, Resume(frames, w, result)
    PROVE  HistoryOK(chain', stack', sg)
<1> DEFINE f == Last(frames)
           a == f.acct
           k == Len(frames)
           s == w[a]
           v == f.saved[a]
           m == Len(v.log)
           success == ExecuteOutcome(result)
           executed == [type |-> "Executed", call |-> f.calls[f.next],
                        nonce |-> f.nonce, success |-> success]
           batchExecuted == [type |-> "BatchExecuted", calls |-> Len(f.calls),
                             nonce |-> f.nonce]
           logged == Emit(s, executed)
           closed == Emit(logged, batchExecuted)
<1>1. /\ f \in Frames /\ f.kind \in {"execute", "batch"}
      /\ a \in Accounts
      /\ f.calls \in Seq(Calls) /\ Len(f.calls) \in Nat
      /\ f.nonce \in Nat
      /\ f.next \in 1 .. Len(f.calls)
      /\ f.calls[f.next] \in Calls
      /\ w \in ChainState /\ s \in AccountState
  BY TopAccount
<1>2. /\ frames \in Seq(Frames)
      /\ k \in Nat /\ k > 1
      /\ frames[k] = f
      /\ \A i \in 1 .. k - 1 : frames[i] \in Frames /\ ~Owns(frames[i], a)
      /\ Len(Front(frames)) = k - 1
      /\ \A i \in 1 .. k - 1 : Front(frames)[i] = frames[i]
      /\ Front(frames) \in Seq(Frames)
  BY TopAccount
<1>3. /\ v \in AccountState
      /\ Settled(a, v, sg)
      /\ Ordered(v)
      /\ v.log # <<>>
      /\ v.owner # NoOwner
      /\ v.nonce = f.nonce
      /\ Running(w, f, sg)
      /\ Extends(s, v)
      /\ s.nonce = f.nonce + 1
      /\ Len(s.log) = m + f.next - 1
  BY RunningTop
<1>4. /\ executed \in Events
      /\ executed.type = "Executed"
      /\ executed.call = f.calls[f.next]
      /\ executed.nonce = f.nonce
      /\ executed.success = success
      /\ batchExecuted \in Events
      /\ batchExecuted.type = "BatchExecuted"
      /\ batchExecuted.calls = Len(f.calls)
      /\ batchExecuted.nonce = f.nonce
  BY <1>1 DEF Events, ExecuteOutcome
<1>5. m \in Nat /\ f.next \in Nat /\ f.next \in 1 .. f.next
  <2>1. v.log \in Seq(Events)
    BY <1>3 DEF AccountState
  <2>2. m \in Nat
    BY ONLY <2>1, LenProperties DEF m
  <2> HIDE DEF m
  <2> QED
    BY <1>1, <2>2
<1>6. /\ s.owner = v.owner
      /\ \A j \in 1 .. f.next - 1 : s.log[m + j] = CallDone(f, j)
      /\ f.kind = "execute" => Len(f.calls) = 1
      /\ [key |-> v.owner, intent |-> Intent(a, OperationIn(f), f.nonce)] \in sg
      /\ \A j \in 1 .. m : s.log[j] = v.log[j]
  BY <1>3, Zenon DEF Running
<1> HIDE DEF f, k, s, v, m, success, executed, batchExecuted
<1>7. /\ logged \in AccountState
      /\ logged.owner = v.owner
      /\ logged.nonce = v.nonce + 1
      /\ Len(logged.log) = m + f.next
      /\ logged.log[m + f.next] = executed
      /\ \A j \in 1 .. f.next - 1 : logged.log[m + j] = CallDone(f, j)
      /\ \A j \in 1 .. m : logged.log[j] = v.log[j]
      /\ Extends(logged, v)
  <2>1. /\ logged.owner = s.owner
        /\ logged.nonce = s.nonce
        /\ Len(logged.log) = Len(s.log) + 1
        /\ logged.log[Len(s.log) + 1] = executed
        /\ \A i \in 1 .. Len(s.log) : logged.log[i] = s.log[i]
    BY <1>1, <1>4, EmitFields
  <2>2. /\ Len(s.log) + 1 = m + f.next
        /\ \A j \in 1 .. f.next - 1 : m + j \in 1 .. Len(s.log)
        /\ \A j \in 1 .. m : j \in 1 .. Len(s.log)
    BY <1>3, <1>5
  <2>3. logged \in AccountState
    BY <1>1, <1>4, EmitType
  <2>4. Extends(logged, v)
    BY <1>1, <1>3, <1>4, EmitExtends
  <2> HIDE DEF logged
  <2> QED
    BY <1>3, <1>6, <2>1, <2>2, <2>3, <2>4
<1>8. /\ closed \in AccountState
      /\ closed.owner = v.owner
      /\ closed.nonce = v.nonce + 1
      /\ Len(closed.log) = m + f.next + 1
      /\ closed.log[m + f.next + 1] = batchExecuted
      /\ \A j \in 1 .. f.next : closed.log[m + j] = logged.log[m + j]
      /\ Extends(closed, v)
  <2> HIDE DEF logged
  <2>1. /\ closed.owner = logged.owner
        /\ closed.nonce = logged.nonce
        /\ Len(closed.log) = Len(logged.log) + 1
        /\ closed.log[Len(logged.log) + 1] = batchExecuted
        /\ \A i \in 1 .. Len(logged.log) : closed.log[i] = logged.log[i]
    BY <1>4, <1>7, EmitFields
  <2>2. \A j \in 1 .. f.next : m + j \in 1 .. m + f.next
    BY <1>5
  <2>3. closed \in AccountState
    BY <1>4, <1>7, EmitType
  <2>4. Extends(closed, v)
    BY <1>3, <1>4, <1>7, EmitExtends
  <2> HIDE DEF closed
  <2> QED
    BY <1>7, <2>1, <2>2, <2>3, <2>4
<1> HIDE DEF logged, closed, a
<1>9. ASSUME NEW u \in AccountState, Settled(a, u, sg), Extends(u, v)
      PROVE  HistoryOK([w EXCEPT ![a] = u], Front(frames), sg)
  BY <1>9, TopSettles DEF f, a, v
<1>10. CASE /\ f.kind = "execute"
            /\ chain' = [w EXCEPT ![a] = Exit(logged)]
            /\ stack' = Front(frames)
  <2> DEFINE u == Exit(logged)
  <2>1. /\ u \in AccountState
        /\ u.owner = logged.owner /\ u.nonce = logged.nonce /\ u.log = logged.log
    BY <1>7, ExitSame
  <2> HIDE DEF u
  <2>2. f.next = 1
    BY <1>1, <1>6, <1>10
  <2>3. Extends(u, v)
    BY <1>7, <2>1 DEF Extends
  <2>4. /\ Len(u.log) = m + 1
        /\ u.log[m + 1].type = "Executed"
        /\ u.log[m + 1].call = f.calls[1]
    BY <1>4, <1>7, <2>1, <2>2
  <2>5. OperationIn(f) = ExecuteOp(u.log[m + 1].call)
    BY <1>10, <2>4 DEF OperationIn
  <2>6. [key |-> v.owner, intent |-> Intent(a, ExecuteOp(u.log[m + 1].call), v.nonce)] \in sg
    BY <1>3, <1>6, <2>5
  <2>7. Settled(a, u, sg)
    BY <1>3, <1>7, <2>1, <2>3, <2>4, <2>6, SettleExecute DEF m
  <2> QED
    BY <1>9, <1>10, <2>1, <2>3, <2>7 DEF u
<1>11. CASE /\ chain' = f.saved
            /\ stack' = Front(frames)
  BY <1>11, PopHistory DEF RunOK, HistoryOK, f
<1>12. CASE /\ f.kind = "batch"
            /\ success
            /\ f.next < Len(f.calls)
            /\ chain' = [w EXCEPT ![a] = logged]
            /\ stack' = Append(Front(frames), [f EXCEPT !.next = @ + 1])
  <2> DEFINE u == [w EXCEPT ![a] = logged]
             f2 == [f EXCEPT !.next = f.next + 1]
             g == Front(frames)
  <2>1. u[a] = logged /\ \A b \in Accounts : b # a => u[b] = w[b]
    BY <1>1 DEF ChainState
  <2>2. u \in ChainState
    BY <1>1, <1>7 DEF ChainState
  <2>3. /\ f2 \in Frames
        /\ f2.kind = f.kind
        /\ f2.acct = a
        /\ f2.calls = f.calls
        /\ f2.saved = f.saved
        /\ f2.nonce = f.nonce
        /\ f2.next = f.next + 1
    <3>1. f.next + 1 \in Nat
      BY <1>5
    <3> QED
      BY <1>1, <3>1 DEF Frames, a
  <2> HIDE DEF u, f2, g
  <2>4. HistoryOK(f2.saved, g, sg)
    BY <2>3, PopHistory DEF RunOK, HistoryOK, f, g
  <2>5. /\ \A i \in 1 .. k : i \in 1 .. k - 1 \/ i = k
        /\ \A i \in 1 .. k - 1 : i \in 1 .. k
        /\ k \in 1 .. k
    BY <1>2, LastIndex
  <2>6. ASSUME NEW b \in Accounts, \A i \in 1 .. Len(g) : ~Owns(g[i], b), ~Owns(f2, b)
        PROVE  Settled(b, u[b], sg)
    <3>1. b # a
      BY <1>1, <2>3, <2>6 DEF Owns
    <3>2. \A i \in 1 .. k : ~Owns(frames[i], b)
      BY <1>2, <2>5, <2>6, <3>1 DEF Owns, g, a
    <3> QED
      BY <2>1, <3>1, <3>2 DEF HistoryOK, HistoryFits, k
  <2>7. ASSUME NEW i \in 1 .. Len(g), g[i].kind # "ext"
        PROVE  Running(u, g[i], sg)
    <3>1. i \in 1 .. k - 1 /\ g[i] = frames[i]
      BY <1>2 DEF g
    <3>2. frames[i].acct \in Accounts /\ frames[i].acct # a
      BY <1>2, <2>7, <3>1, AccountFrameType DEF Owns
    <3>3. Running(w, frames[i], sg)
      BY <2>5, <2>7, <3>1 DEF HistoryOK, HistoryFits, k
    <3>4. u[frames[i].acct] = w[frames[i].acct]
      BY <2>1, <3>2
    <3>5. Running(u, frames[i], sg)
      BY <3>3, <3>4, RunningSame
    <3> QED
      BY <3>1, <3>5
  <2>8. Running(u, f2, sg)
    <3>1. ASSUME NEW j \in 1 .. f2.next - 1
          PROVE  logged.log[m + j] = CallDone(f2, j)
      <4>1. j \in 1 .. f.next - 1 \/ j = f.next
        BY <1>5, <2>3
      <4>2. CallDone(f2, j) = CallDone(f, j)
        BY <2>3 DEF CallDone
      <4>3. executed = CallDone(f, f.next)
        BY <1>12 DEF executed, CallDone, success, ExecuteOutcome
      <4> QED
        BY <1>7, <4>1, <4>2, <4>3
    <3>2. OperationIn(f2) = OperationIn(f)
      BY <2>3 DEF OperationIn
    <3>3. u[f2.acct] = logged /\ f2.saved[f2.acct] = v
      BY <2>1, <2>3 DEF v
    <3>4. [key |-> v.owner, intent |-> Intent(f2.acct, OperationIn(f2), f2.nonce)] \in sg
      BY <1>6, <2>3, <3>2
    <3> QED
      BY <1>3, <1>7, <1>12, <2>3, <3>1, <3>3, <3>4 DEF Running, m
  <2>9. ASSUME NEW b \in Accounts
        PROVE  Extends(u[b], f2.saved[b])
    <3>1. Extends(w[b], f.saved[b])
      BY <1>2, <2>5 DEF HistoryOK, HistoryFits, k
    <3> QED
      BY <1>7, <2>1, <2>3, <3>1 DEF v
  <2>10. HistoryOK(u, Append(g, f2), sg)
    <3>1. g \in Seq(Frames)
      BY <1>2 DEF g
    <3> QED
      BY <2>2, <2>3, <2>4, <2>6, <2>7, <2>8, <2>9, <3>1, PushHistory
  <2> QED
    BY <1>12, <2>10 DEF u, f2, g
<1>13. CASE /\ f.kind = "batch"
            /\ success
            /\ f.next = Len(f.calls)
            /\ chain' = [w EXCEPT ![a] = Exit(closed)]
            /\ stack' = Front(frames)
  <2> DEFINE u == Exit(closed)
             n == Len(f.calls)
  <2>1. /\ u \in AccountState
        /\ u.owner = closed.owner /\ u.nonce = closed.nonce /\ u.log = closed.log
    BY <1>8, ExitSame
  <2> HIDE DEF u
  <2>2. Extends(u, v)
    BY <1>8, <2>1 DEF Extends
  <2>3. f.calls # <<>>
    BY <1>1, EmptySeq
  <2>4. Len(u.log) = m + n + 1 /\ u.log[m + n + 1] = batchExecuted
    BY <1>8, <1>13, <2>1
  <2>5. ASSUME NEW j \in 1 .. n
        PROVE  /\ u.log[m + j].type = "Executed"
               /\ u.log[m + j].success
               /\ u.log[m + j].call = f.calls[j]
    <3>1. (j \in 1 .. f.next - 1 \/ j = f.next) /\ j \in 1 .. f.next
      BY <1>5, <1>13
    <3>2. executed = CallDone(f, f.next)
      BY <1>13 DEF executed, CallDone, success, ExecuteOutcome
    <3>3. u.log[m + j] = CallDone(f, j)
      BY <1>7, <1>8, <2>1, <3>1, <3>2
    <3> QED
      BY <3>3 DEF CallDone
  <2>6. [key |-> v.owner, intent |-> Intent(a, BatchOp(f.calls), v.nonce)] \in sg
    <3>1. OperationIn(f) = BatchOp(f.calls)
      BY <1>13 DEF OperationIn
    <3> QED
      BY <1>3, <1>6, <3>1
  <2>7. Settled(a, u, sg)
    <3> DEFINE calls == f.calls
    <3>1. /\ u.owner = v.owner /\ u.nonce = v.nonce + 1
          /\ calls \in Seq(Calls) /\ calls # <<>>
          /\ [key |-> v.owner, intent |-> Intent(a, BatchOp(calls), v.nonce)] \in sg
      BY <1>1, <1>8, <2>1, <2>3, <2>6
    <3>2. /\ Len(u.log) = Len(v.log) + Len(calls) + 1
          /\ u.log[Len(v.log) + Len(calls) + 1].type = "BatchExecuted"
          /\ u.log[Len(v.log) + Len(calls) + 1].calls = Len(calls)
      BY <1>4, <2>4 DEF m
    <3>3. ASSUME NEW j \in 1 .. Len(calls)
          PROVE  /\ u.log[Len(v.log) + j].type = "Executed"
                 /\ u.log[Len(v.log) + j].success
                 /\ u.log[Len(v.log) + j].call = calls[j]
      BY <2>5 DEF m
    <3> HIDE DEF calls
    <3> QED
      BY <1>3, <2>1, <2>2, <3>1, <3>2, <3>3, SettleBatch
  <2> QED
    BY <1>9, <1>13, <2>1, <2>2, <2>7 DEF u
<1> QED
  BY <1>1, <1>10, <1>11, <1>12, <1>13
     DEF Resume, BatchCallFailed, logged, closed, a, s, f, success, executed, batchExecuted

-----------------------------------------------------------------------------
(* History: every step. *)

\* An account with no operations yet.
LEMMA SettledStart ==
    ASSUME NEW a, NEW sg, NEW s, s.nonce = 0, s.owner = Genesis(s),
           Genesis(s) \in Keys \cup {NoOwner}
    PROVE  Settled(a, s, sg)
<1>1. \A n \in 0 .. 0 - 1 : FALSE
  OBVIOUS
<1>2. DOMAIN LedgerOf(s) = {}
  <2>1. DOMAIN LedgerOf(s) = 1 .. 0
    BY LedgerFields
  <2> QED
    BY <2>1
<1>3. Ledger!OwnerAfter(Genesis(s), LedgerOf(s), 0) = Genesis(s)
  <2>1. {i \in 1 .. 0 : LedgerOf(s)[i].kind = "rotate"} = {}
    OBVIOUS
  <2> QED
    BY <2>1 DEF Ledger!OwnerAfter
<1> QED
  BY <1>1, <1>2, <1>3 DEF Settled, Agreed

LEMMA InitHistoryInv == Init => HistoryInv
<1> SUFFICES ASSUME Init PROVE HistoryInv
  OBVIOUS
<1>1. Len(stack) = 0
  BY EmptySeq DEF Init
<1>2. ASSUME NEW a \in Accounts
      PROVE  Settled(a, chain[a], signed)
  <2>1. chain[a].nonce = 0 /\ chain[a].owner = NoOwner /\ Genesis(chain[a]) = NoOwner
    BY DEF Init, FreshAccount, Genesis
  <2> QED
    BY <2>1, SettledStart
<1> QED
  BY <1>1, <1>2 DEF HistoryInv, HistoryOK, HistoryFits, SavedHistory

\* Between two transactions.
LEMMA NoFramesHistory ==
    ASSUME NEW sg, NEW w, NEW frames, Len(frames) = 0, HistoryOK(w, frames, sg)
    PROVE  HistoryOK(w, <<>>, sg)
<1>1. Len(<<>>) = 0
  BY EmptySeq
<1> QED
  BY <1>1 DEF HistoryOK, HistoryFits, SavedHistory

\* An operation starts: the key in charge signed it, for this very nonce.
LEMMA StartHistory ==
    ASSUME NEW sg, NEW w, NEW frames, RunOK(w, frames), LogOK(w, frames),
           HistoryOK(w, frames, sg),
           NEW kind \in {"execute", "batch"}, NEW a \in Accounts, ~w[a].inCall,
           NEW calls \in Seq(Calls), NEW n, w[a].nonce = n,
           kind = "execute" => Len(calls) = 1,
           [key |-> w[a].owner,
            intent |-> Intent(a, IF kind = "execute" THEN ExecuteOp(calls[1])
                                 ELSE BatchOp(calls), n)] \in sg
    PROVE  HistoryOK([w EXCEPT ![a] = Begin(w[a], n)],
                     Append(frames, AccountFrame(kind, a, calls, n, w)), sg)
<1> DEFINE f == AccountFrame(kind, a, calls, n, w)
           b == Begin(w[a], n)
           v == [w EXCEPT ![a] = b]
           k == Len(frames)
<1>1. /\ w \in ChainState
      /\ frames \in Seq(Frames)
      /\ w[a] \in AccountState
      /\ n \in Nat
      /\ Ordered(w[a]) /\ Recorded(w[a])
  BY DEF RunOK, StackOK, ChainState, AccountState, LogOK, ChainFits
<1>2. /\ f \in Frames
      /\ f.kind = kind /\ f.kind # "ext"
      /\ f.acct = a /\ f.calls = calls /\ f.nonce = n /\ f.next = 1 /\ f.saved = w
  BY <1>1 DEF AccountFrame, Frames
<1>3. b \in AccountState /\ b.owner = w[a].owner /\ b.nonce = n + 1 /\ b.log = w[a].log
  BY <1>1, BeginOrdered, BeginType
<1> HIDE DEF f, b, k
<1>4. v \in ChainState /\ v[a] = b /\ \A c \in Accounts : c # a => v[c] = w[c]
  BY <1>1, <1>3 DEF ChainState
<1> HIDE DEF v
<1>5. ASSUME NEW c \in Accounts, \A i \in 1 .. k : ~Owns(frames[i], c), ~Owns(f, c)
      PROVE  Settled(c, v[c], sg)
  <2>1. c # a
    BY <1>2, <1>5 DEF Owns
  <2> QED
    BY <1>4, <1>5, <2>1 DEF HistoryOK, HistoryFits, k
<1>6. ASSUME NEW i \in 1 .. k, frames[i].kind # "ext"
      PROVE  Running(v, frames[i], sg)
  <2>1. frames[i].acct \in Accounts /\ frames[i].acct # a
    BY <1>1, <1>6, ElementOfSeq, AccountFrameType DEF RunOK, GuardBelow, Owns, k
  <2>2. Running(w, frames[i], sg)
    BY <1>6 DEF HistoryOK, HistoryFits, k
  <2> QED
    BY <1>4, <2>1, <2>2, RunningSame
<1>7. Running(v, f, sg)
  <2>1. v[f.acct] = b /\ f.saved[f.acct] = w[a]
    BY <1>2, <1>4
  <2>2. \A j \in 1 .. f.next - 1 : FALSE
    BY <1>2
  <2>3. [key |-> w[a].owner, intent |-> Intent(f.acct, OperationIn(f), f.nonce)] \in sg
    BY <1>2 DEF OperationIn
  <2> QED
    BY <1>2, <1>3, <2>1, <2>2, <2>3 DEF Running
<1>8. ASSUME NEW c \in Accounts
      PROVE  Extends(v[c], f.saved[c])
  <2>1. w[c] \in AccountState /\ w[c].nonce \in Nat
    BY <1>1 DEF ChainState, AccountState
  <2>2. v[c].log = w[c].log /\ v[c].nonce \in Nat /\ w[c].nonce <= v[c].nonce
    BY <1>1, <1>3, <1>4, <2>1
  <2> QED
    BY <1>2, <2>1, <2>2, ExtendsSame
<1>9. HistoryOK(v, Append(frames, f), sg)
  BY <1>1, <1>2, <1>4, <1>5, <1>6, <1>7, <1>8, PushHistory DEF k
<1> QED
  BY <1>9 DEF f, b, v

\* An inner call takes effect.
LEMMA DeliverHistory ==
    ASSUME IInv, HistoryInv, InAccount
    PROVE  LET f == Last(stack)
               w == Deliver(chain, f.acct, f.calls[f.next], f.nonce)
           IN  /\ HistoryOK(w, stack, signed)
               /\ \A b \in Accounts : Extends(w[b], chain[b])
<1> DEFINE f == Last(stack)
           a == f.acct
           d == [call |-> f.calls[f.next], nonce |-> f.nonce]
           s == [chain[a] EXCEPT !.delivered = Append(chain[a].delivered, d)]
           w == [chain EXCEPT ![a] = s]
<1>1. /\ chain \in ChainState
      /\ chain \in [Accounts -> AccountState]
      /\ stack \in Seq(Frames)
      /\ a \in Accounts
  BY DeliverRunOK DEF IInv, RunOK, StackOK, ChainState
<1>2. ASSUME NEW q
      PROVE  /\ [chain[a] EXCEPT !.delivered = q].owner = chain[a].owner
             /\ [chain[a] EXCEPT !.delivered = q].nonce = chain[a].nonce
             /\ [chain[a] EXCEPT !.delivered = q].log = chain[a].log
  BY <1>1 DEF AccountState
<1>3. s.owner = chain[a].owner /\ s.nonce = chain[a].nonce /\ s.log = chain[a].log
  BY <1>2
<1> HIDE DEF s, a
<1>4. HistoryOK(w, stack, signed)
  BY <1>1, <1>3, SameHistory DEF HistoryInv
<1>5. ASSUME NEW b \in Accounts
      PROVE  Extends(w[b], chain[b])
  <2>1. chain[b] \in AccountState
    BY <1>1
  <2>2. chain[b].nonce \in Nat
    BY <2>1 DEF AccountState
  <2>3. w[b].log = chain[b].log /\ w[b].nonce = chain[b].nonce
    BY <1>1, <1>3
  <2> HIDE DEF w
  <2>4. w[b].nonce \in Nat /\ chain[b].nonce <= w[b].nonce
    BY <2>2, <2>3
  <2> QED
    BY <2>1, <2>3, <2>4, ExtendsSame
<1> QED
  BY <1>4, <1>5 DEF Deliver, s, a

LEMMA NextHistoryInv == IInv /\ LogInv /\ HistoryInv /\ [Next]_vars => HistoryInv'
<1> SUFFICES ASSUME IInv, LogInv, HistoryInv, [Next]_vars PROVE HistoryInv'
  OBVIOUS
<1> USE DEF HistoryInv
<1>0. /\ RunOK(chain, stack)
      /\ LogOK(chain, stack)
      /\ HistoryOK(chain, stack, signed)
      /\ StackOK(stack)
      /\ chain \in ChainState
      /\ chain \in [Accounts -> AccountState]
      /\ stack \in Seq(Frames)
      /\ \A a \in Accounts : Ordered(chain[a]) /\ Recorded(chain[a])
      /\ TypeOK
  BY DEF IInv, LogInv, RunOK, StackOK, ChainState, LogOK, ChainFits, TypeOK
<1>1. ASSUME NEW k \in Keys, NEW intent \in Intents, Sign(k, intent)
      PROVE  HistoryInv'
  <2>1. signed \subseteq signed' /\ chain' = chain /\ stack' = stack
    BY <1>1 DEF Sign
  <2>2. HistoryOK(chain, stack, signed')
    BY <1>0, <2>1, SignedHistory
  <2> QED
    BY <2>1, <2>2
<1>2. ASSUME NEW c \in Chains, BeginTx(c)
      PROVE  HistoryInv'
  <2> DEFINE f == ExtFrame(c, chain)
  <2>1. /\ stack = <<>> /\ Len(stack) = 0
        /\ stack' = Append(stack, f)
        /\ chain' = chain /\ signed' = signed
    BY <1>2, EmptySeq DEF BeginTx
  <2>2. f \in Frames /\ f.kind = "ext" /\ f.saved = chain
    BY <1>0, ExtFrameType
  <2> HIDE DEF f
  <2>3. \A a \in Accounts : Extends(chain[a], f.saved[a])
    <3> SUFFICES ASSUME NEW a \in Accounts PROVE Extends(chain[a], chain[a])
      BY <2>2
    <3>1. chain[a] \in AccountState
      BY <1>0
    <3>2. chain[a].nonce \in Nat
      BY <3>1 DEF AccountState
    <3>3. chain[a].nonce <= chain[a].nonce
      BY <3>2
    <3> QED
      BY <3>1, <3>2, <3>3, ExtendsSame
  <2>4. \A a \in Accounts : Settled(a, chain[a], signed)
    BY <1>0, <2>1 DEF HistoryOK, HistoryFits
  <2>5. \A i \in 1 .. Len(stack) : FALSE
    BY <2>1
  <2>6. HistoryOK(chain, Append(stack, f), signed)
    BY <1>0, <2>2, <2>3, <2>4, <2>5, PushHistory
  <2> QED
    BY <2>1, <2>6
<1>3. ASSUME NEW w, HistoryOK(w, Front(stack), signed), Len(stack) = 1, stack # <<>>
      PROVE  HistoryOK(w, <<>>, signed)
  <2>1. Len(Front(stack)) = 0
    <3>1. Len(Front(stack)) = Len(stack) - 1
      BY <1>0, <1>3, PopStackOK
    <3> QED
      BY <1>3, <3>1
  <2> QED
    BY <1>3, <2>1, NoFramesHistory
<1>4. CASE EndTx
  <2>1. /\ stack # <<>> /\ Last(stack).kind = "ext" /\ Len(stack) = 1
        /\ chain' = chain /\ stack' = <<>> /\ signed' = signed
    BY <1>4 DEF EndTx, InExt, Top
  <2>2. HistoryOK(chain, Front(stack), signed)
    BY <1>0, <2>1, PopHistory DEF HistoryOK
  <2> QED
    BY <1>3, <2>1, <2>2
<1>5. CASE AbortTx
  <2>1. /\ stack # <<>> /\ Len(stack) = 1
        /\ chain' = Last(stack).saved /\ stack' = <<>> /\ signed' = signed
    BY <1>5 DEF AbortTx, InExt, Top
  <2>2. HistoryOK(Last(stack).saved, Front(stack), signed)
    BY <1>0, <2>1, PopHistory DEF HistoryOK
  <2> QED
    BY <1>3, <2>1, <2>2
<1>6. ASSUME NEW a \in Accounts, NEW p \in Keys \cup BadPoints, Constructor(a, p)
      PROVE  HistoryInv'
  <2> DEFINE s == [chain[a] EXCEPT !.owner = p]
             e == [type |-> "OwnerInitialized", key |-> p]
             t == Emit(s, e)
  <2>1. /\ p \in Keys /\ e \in Events /\ e.key = p
        /\ chain[a].owner = NoOwner /\ chain[a].log = <<>>
    BY <1>0, <1>6 DEF Constructor, IsValidPubkey, Events, Recorded
  <2>2. ASSUME NEW i \in 1 .. Len(stack)
        PROVE  ~Owns(stack[i], a)
    <3>1. stack[i].kind # "ext" => Midway(chain, stack[i])
      BY DEF LogInv, LogOK, ChainFits
    <3> QED
      BY <1>6, <3>1 DEF Owns, Midway, Constructor
  <2>3. chain[a].nonce = 0
    BY <1>0, <2>1, <2>2 DEF HistoryOK, HistoryFits, Settled
  <2>4. s \in AccountState /\ s.owner = p /\ s.nonce = 0 /\ s.log = <<>>
    BY <1>0, <2>1, <2>3 DEF AccountState
  <2>5. chain' = [chain EXCEPT ![a] = t] /\ stack' = stack /\ signed' = signed
    BY <1>6 DEF Constructor
  <2>6. Len(<<>>) = 0
    BY EmptySeq
  <2> HIDE DEF s, e
  <2>7. /\ t \in AccountState
        /\ t.owner = p
        /\ t.nonce = 0
        /\ Len(t.log) = 1
        /\ t.log[1] = e
    <3>1. /\ t.owner = s.owner /\ t.nonce = s.nonce
          /\ Len(t.log) = Len(s.log) + 1
          /\ t.log[Len(s.log) + 1] = e
      BY <2>1, <2>4, EmitFields
    <3>2. t \in AccountState
      BY <2>1, <2>4, EmitType
    <3> HIDE DEF t
    <3> QED
      BY <2>4, <2>6, <3>1, <3>2
  <2> HIDE DEF t
  <2>8. Genesis(t) = p
    BY <2>1, <2>6, <2>7 DEF Genesis
  <2>9. Settled(a, t, signed)
    BY <2>1, <2>7, <2>8, SettledStart
  <2>10. Extends(t, chain[a])
    <3>1. Len(chain[a].log) = 0
      BY <2>1, <2>6
    <3>2. \A i \in 2 .. 1 : FALSE
      OBVIOUS
    <3> QED
      BY <2>3, <2>7, <3>1, <3>2 DEF Extends
  <2> QED
    BY <1>0, <2>2, <2>5, <2>7, <2>9, <2>10, IdleHistory
<1>7. ASSUME NEW a \in Accounts, NEW n \in 0 .. MaxNonce - 1, NEW sig \in Signatures,
             Presentable(sig), NEW digest, Accepts(chain[a], digest, n, sig)
      PROVE  /\ ~chain[a].inCall
             /\ chain[a].nonce = n
             /\ n \in Nat
             /\ chain[a].owner \in Keys
             /\ \E i \in Intents :
                    /\ DigestOf(i) = digest
                    /\ [key |-> chain[a].owner, intent |-> i] \in signed
  <2>1. /\ ~chain[a].inCall /\ chain[a].nonce = n /\ chain[a].owner \in Keys
    BY <1>0, <1>7, AcceptedFacts
  <2>2. n \in Nat
    BY ConstantsAssumption
  <2> QED
    BY <1>0, <1>7, <2>1, <2>2, PresentedSignature DEF Accepts, ValidateAuthorisedHash
<1>8. ASSUME NEW a \in Accounts, NEW call \in Calls, NEW n \in 0 .. MaxNonce - 1,
             NEW sig \in Signatures, Presentable(sig), Execute(a, call, n, sig)
      PROVE  HistoryInv'
  <2>1. /\ Accepts(chain[a], ExecuteHash(a, call, n), n, sig)
        /\ chain' = [chain EXCEPT ![a] = Begin(chain[a], n)]
        /\ stack' = Append(stack, AccountFrame("execute", a, <<call>>, n, chain))
        /\ signed' = signed
    BY <1>8 DEF Execute
  <2>2. ~chain[a].inCall /\ chain[a].nonce = n
    BY <1>7, <1>8, <2>1
  <2>3. [key |-> chain[a].owner, intent |-> Intent(a, ExecuteOp(call), n)] \in signed
    <3>1. PICK i \in Intents :
              /\ DigestOf(i) = ExecuteHash(a, call, n)
              /\ [key |-> chain[a].owner, intent |-> i] \in signed
      BY <1>7, <1>8, <2>1
    <3>2. i = Intent(a, ExecuteOp(call), n)
      BY <3>1, ExecuteDigest
    <3> QED
      BY <3>1, <3>2
  <2>4. <<call>> \in Seq(Calls) /\ Len(<<call>>) = 1 /\ <<call>>[1] = call
    OBVIOUS
  <2>5. HistoryOK(chain', stack', signed)
    BY <1>0, <2>1, <2>2, <2>3, <2>4, StartHistory
  <2> QED
    BY <2>1, <2>5
<1>9. ASSUME NEW a \in Accounts, NEW calls \in Batches, NEW n \in 0 .. MaxNonce - 1,
             NEW sig \in Signatures, Presentable(sig), ExecuteBatch(a, calls, n, sig)
      PROVE  HistoryInv'
  <2>1. /\ Accepts(chain[a], BatchHash(a, calls, n), n, sig)
        /\ chain' = [chain EXCEPT ![a] = Begin(chain[a], n)]
        /\ stack' = Append(stack, AccountFrame("batch", a, calls, n, chain))
        /\ signed' = signed
    BY <1>9 DEF ExecuteBatch
  <2>2. ~chain[a].inCall /\ chain[a].nonce = n
    BY <1>7, <1>9, <2>1
  <2>3. [key |-> chain[a].owner, intent |-> Intent(a, BatchOp(calls), n)] \in signed
    <3>1. PICK i \in Intents :
              /\ DigestOf(i) = BatchHash(a, calls, n)
              /\ [key |-> chain[a].owner, intent |-> i] \in signed
      BY <1>7, <1>9, <2>1
    <3>2. i = Intent(a, BatchOp(calls), n)
      BY <3>1, BatchDigest
    <3> QED
      BY <3>1, <3>2
  <2>4. calls \in Seq(Calls)
    BY ConstantsAssumption
  <2>5. HistoryOK(chain', stack', signed)
    BY <1>0, <2>1, <2>2, <2>3, <2>4, StartHistory
  <2> QED
    BY <2>1, <2>5
<1>10. ASSUME NEW a \in Accounts, NEW p \in Keys \cup BadPoints,
              NEW n \in 0 .. MaxNonce - 1, NEW sig \in Signatures, Presentable(sig),
              RotateOwner(a, p, n, sig)
       PROVE  HistoryInv'
  <2> DEFINE v == chain[a]
             b == Begin(v, n)
             s == [b EXCEPT !.owner = p]
             e == OwnerRotated(v.owner, p, n)
             x == Emit(s, e)
             t == Exit(x)
  <2>1. /\ Accepts(v, RotateHash(a, p, n), n, sig)
        /\ chain' = [chain EXCEPT ![a] = t]
        /\ stack' = stack /\ signed' = signed
        /\ p \in Keys
    BY <1>10 DEF RotateOwner, IsValidPubkey
  <2>2. ~v.inCall /\ v.nonce = n /\ n \in Nat /\ v.owner \in Keys /\ p # NoOwner
    BY <1>7, <1>10, <2>1, ConstantsAssumption
  <2>3. [key |-> v.owner, intent |-> Intent(a, RotateOp(p), n)] \in signed
    <3>1. PICK i \in Intents :
              /\ DigestOf(i) = RotateHash(a, p, n)
              /\ [key |-> chain[a].owner, intent |-> i] \in signed
      BY <1>7, <1>10, <2>1
    <3>2. i = Intent(a, RotateOp(p), n)
      BY <3>1, RotateDigest
    <3> QED
      BY <3>1, <3>2
  <2>4. /\ e \in Events /\ e.type = "OwnerRotated" /\ e.new = p /\ e.nonce = n
    BY <2>1, <2>2 DEF OwnerRotated, Events
  <2>5. v \in AccountState /\ Ordered(v) /\ Recorded(v)
    BY <1>0
  <2>6. \A i \in 1 .. Len(stack) : ~Owns(stack[i], a)
    BY <1>0, <2>2 DEF RunOK, GuardBelow
  <2>7. Settled(a, v, signed)
    BY <1>0, <2>6 DEF HistoryOK, HistoryFits
  <2>8. v.log # <<>>
    BY <2>2, <2>5, ConstantsAssumption DEF Recorded
  <2> HIDE DEF v, e
  <2>9. b \in AccountState /\ b.log = v.log /\ b.nonce = n + 1
    BY <2>2, <2>5, BeginOrdered, BeginType
  <2> HIDE DEF b
  <2>10. s \in AccountState /\ s.log = v.log /\ s.nonce = n + 1 /\ s.owner = p
    BY <2>1, <2>9 DEF AccountState
  <2> HIDE DEF s
  <2>11. Extends(s, v)
    <3>1. s.nonce \in Nat /\ v.nonce <= s.nonce
      BY <2>2, <2>10
    <3> QED
      BY <2>5, <2>10, <3>1, ExtendsSame
  <2>12. /\ x \in AccountState
         /\ Extends(x, v)
         /\ x.nonce = n + 1
         /\ x.owner = p
         /\ Len(x.log) = Len(v.log) + 1
         /\ x.log[Len(v.log) + 1] = e
    <3>1. /\ x.owner = s.owner /\ x.nonce = s.nonce
          /\ Len(x.log) = Len(s.log) + 1
          /\ x.log[Len(s.log) + 1] = e
      BY <2>4, <2>10, EmitFields
    <3>2. x \in AccountState
      BY <2>4, <2>10, EmitType
    <3>3. Extends(x, v)
      BY <2>2, <2>4, <2>5, <2>10, <2>11, EmitExtends
    <3> HIDE DEF x
    <3> QED
      BY <2>10, <3>1, <3>2, <3>3
  <2> HIDE DEF x
  <2>13. t \in AccountState /\ t.owner = x.owner /\ t.nonce = x.nonce /\ t.log = x.log
    BY <2>12, ExitSame
  <2> HIDE DEF t
  <2>14. Extends(t, v)
    BY <2>12, <2>13 DEF Extends
  <2>15. Settled(a, t, signed)
    <3>1. /\ t.nonce = v.nonce + 1
          /\ t.owner = t.log[Len(v.log) + 1].new
          /\ t.log[Len(v.log) + 1].type = "OwnerRotated"
          /\ Len(t.log) = Len(v.log) + 1
          /\ [key |-> v.owner, intent |-> Intent(a, RotateOp(t.owner), v.nonce)] \in signed
          /\ t.owner # NoOwner
      BY <2>2, <2>3, <2>4, <2>12, <2>13
    <3> QED
      BY <2>5, <2>7, <2>8, <2>13, <2>14, <3>1, SettleRotate
  <2>16. HistoryOK([chain EXCEPT ![a] = t], stack, signed)
    BY <1>0, <2>6, <2>13, <2>14, <2>15, IdleHistory DEF v
  <2> QED
    BY <2>1, <2>16
<1>11. CASE CallExternal
  <2> DEFINE f == Last(stack)
             w == Deliver(chain, f.acct, f.calls[f.next], f.nonce)
             e == ExtFrame(f.acct.chain, chain)
  <2>1. InAccount /\ chain' = w /\ stack' = Append(stack, e) /\ signed' = signed
    BY <1>11 DEF CallExternal, Top
  <2>2. f.acct.chain \in Chains
    BY <2>1, DeliverRunOK DEF Accounts
  <2>3. e \in Frames /\ e.kind = "ext" /\ e.saved = chain
    BY <1>0, <2>2, ExtFrameType
  <2>4. /\ HistoryOK(w, stack, signed)
        /\ \A b \in Accounts : Extends(w[b], chain[b])
        /\ w \in ChainState
    BY <2>1, DeliverHistory, DeliverRunOK DEF RunOK
  <2> HIDE DEF w, e, f
  <2>5. ASSUME NEW b \in Accounts, \A i \in 1 .. Len(stack) : ~Owns(stack[i], b)
        PROVE  Settled(b, w[b], signed)
    BY <2>4, <2>5 DEF HistoryOK, HistoryFits
  <2>6. \A i \in 1 .. Len(stack) : stack[i].kind # "ext" => Running(w, stack[i], signed)
    BY <2>4 DEF HistoryOK, HistoryFits
  <2>7. HistoryOK(w, Append(stack, e), signed)
    BY <1>0, <2>3, <2>4, <2>5, <2>6, PushHistory
  <2> QED
    BY <2>1, <2>7
<1>12. CASE CallSelf
  <2> DEFINE f == Last(stack)
             w == Deliver(chain, f.acct, f.calls[f.next], f.nonce)
  <2>1. InAccount /\ signed' = signed
    BY <1>12 DEF CallSelf
  <2>2. \/ Resume(stack, w, "ok")
        \/ Resume(stack, chain, "revert")
    BY <1>12 DEF CallSelf, Top
  <2>3. /\ stack # <<>> /\ f.kind # "ext"
        /\ RunOK(w, stack)
        /\ LogOK(w, stack)
        /\ HistoryOK(w, stack, signed)
    BY <2>1, DeliverRunOK, DeliverLogOK, DeliverHistory
  <2> HIDE DEF w
  <2> QED
    BY <1>0, <2>1, <2>2, <2>3, ResumeHistory
<1>13. ASSUME InExt, Len(stack) > 1
       PROVE  /\ Front(stack) # <<>>
              /\ Last(Front(stack)).kind # "ext"
              /\ RunOK(chain, Front(stack)) /\ LogOK(chain, Front(stack))
              /\ HistoryOK(chain, Front(stack), signed)
              /\ RunOK(Last(stack).saved, Front(stack))
              /\ LogOK(Last(stack).saved, Front(stack))
              /\ HistoryOK(Last(stack).saved, Front(stack), signed)
  <2>1. stack # <<>> /\ Last(stack).kind = "ext"
    BY <1>13 DEF InExt, Top
  <2>2. /\ HistoryOK(chain, Front(stack), signed)
        /\ HistoryOK(Last(stack).saved, Front(stack), signed)
    BY <1>0, <2>1, PopHistory DEF HistoryOK
  <2> QED
    BY <1>13, <2>2, CalleeFrames
<1>14. CASE CalleeReturns
  BY <1>13, <1>14, ResumeHistory DEF CalleeReturns
<1>15. CASE CalleeReverts
  BY <1>13, <1>15, ResumeHistory DEF CalleeReverts, Top
<1>16. CASE AccountTraps
  BY <1>0, <1>16, PopHistory DEF AccountTraps, InAccount, Top, HistoryOK
<1>17. CASE UNCHANGED vars
  BY <1>17 DEF vars
<1> QED
  BY <1>1, <1>2, <1>4, <1>5, <1>6, <1>8, <1>9, <1>10, <1>11, <1>12, <1>14, <1>15,
     <1>16, <1>17 DEF Next

-----------------------------------------------------------------------------
(* The refinement. *)

\* The bottom frame stays.
LEMMA FirstKept ==
    ASSUME NEW frames \in Seq(Frames), frames # <<>>, NEW f \in Frames
    PROVE  Append(frames, f) # <<>> /\ Append(frames, f)[1] = frames[1]
<1>1. Len(frames) \in Nat \ {0}
  BY EmptySeq
<1>2. /\ Len(Append(frames, f)) = Len(frames) + 1
      /\ \A i \in 1 .. Len(frames) : Append(frames, f)[i] = frames[i]
  BY AppendProperties
<1>3. 1 \in 1 .. Len(frames) /\ Len(frames) + 1 # 0
  BY <1>1
<1> QED
  BY <1>2, <1>3, EmptySeq

LEMMA FirstPopped ==
    ASSUME NEW frames, StackOK(frames), frames # <<>>, Front(frames) # <<>>
    PROVE  Front(frames)[1] = frames[1]
<1>1. /\ StackOK(Front(frames))
      /\ Len(frames) \in Nat \ {0}
      /\ Len(Front(frames)) = Len(frames) - 1
      /\ \A i \in 1 .. Len(frames) - 1 : Front(frames)[i] = frames[i]
  BY PopStackOK
<1>2. Len(Front(frames)) # 0
  BY <1>1, EmptySeq DEF StackOK
<1> QED
  BY <1>1, <1>2

\* An inner call came back: whatever the handler does, its transaction goes on.
LEMMA ResumeFirst ==
    ASSUME NEW w, NEW frames, NEW result, RunOK(w, frames), frames # <<>>,
           Last(frames).kind # "ext", Resume(frames, w, result)
    PROVE  stack' # <<>> /\ stack'[1] = frames[1]
<1> DEFINE f == Last(frames)
           f2 == [f EXCEPT !.next = f.next + 1]
           g == Front(frames)
<1>1. StackOK(frames)
  BY DEF RunOK
<1>2. g # <<>> /\ g \in Seq(Frames)
  <2>1. Len(g) = Len(frames) - 1 /\ Len(frames) \in Nat /\ Len(frames) > 1 /\ g \in Seq(Frames)
    BY TopAccount
  <2>2. Len(g) # 0
    <3> DEFINE k == Len(frames)
    <3>1. k \in Nat /\ k > 1 /\ Len(g) = k - 1
      BY <2>1
    <3> HIDE DEF g, k
    <3> QED
      BY <3>1
  <2> QED
    BY <2>1, <2>2, EmptySeq
<1>3. g[1] = frames[1]
  BY <1>1, <1>2, FirstPopped
<1>4. f2 \in Frames
  <2>1. f \in Frames /\ f.kind # "ext" /\ f.next + 1 \in Nat
    <3>1. f \in Frames /\ f.next \in 1 .. Len(f.calls)
      BY TopAccount
    <3>2. f.next + 1 \in Nat
      BY <3>1
    <3> QED
      BY <3>1, <3>2
  <2> QED
    BY <2>1 DEF Frames
<1>5. Append(g, f2) # <<>> /\ Append(g, f2)[1] = frames[1]
  <2> HIDE DEF g, f2
  <2> QED
    BY <1>2, <1>3, <1>4, FirstKept
<1>6. stack' = g \/ stack' = Append(g, f2)
  BY DEF Resume
<1> QED
  BY <1>2, <1>3, <1>5, <1>6

\* Only the end of a transaction that did not revert commits anything.
LEMMA CommittedStep ==
    ASSUME IInv, LogInv, [Next]_vars
    PROVE  Committed' = Committed \/ EndTx
<1>0. RunOK(chain, stack) /\ StackOK(stack) /\ stack \in Seq(Frames) /\ chain \in ChainState
  BY DEF IInv, RunOK, StackOK
<1>1. ASSUME stack # <<>>, stack' # <<>>, stack'[1] = stack[1]
      PROVE  Committed' = Committed
  BY <1>1 DEF Committed
<1>2. ASSUME stack' = stack, chain' = chain
      PROVE  Committed' = Committed
  BY <1>2 DEF Committed
<1>3. ASSUME NEW c \in Chains, BeginTx(c)
      PROVE  Committed' = Committed
  <2>1. stack = <<>> /\ stack' = <<ExtFrame(c, chain)>>
    BY <1>3 DEF BeginTx
  <2>2. stack' # <<>> /\ stack'[1] = ExtFrame(c, chain)
    BY <2>1
  <2>3. ExtFrame(c, chain).saved = chain
    BY <1>0, ExtFrameType
  <2> QED
    BY <2>1, <2>2, <2>3 DEF Committed
<1>4. CASE AbortTx
  <2>1. /\ stack # <<>> /\ Len(stack) = 1 /\ stack' = <<>> /\ chain' = stack[1].saved
    BY <1>4 DEF AbortTx, InExt, Top, Last
  <2> QED
    BY <2>1 DEF Committed
<1>5. ASSUME NEW a \in Accounts, NEW p \in Keys \cup BadPoints, NEW n, NEW sig,
             Constructor(a, p) \/ RotateOwner(a, p, n, sig)
      PROVE  Committed' = Committed
  BY <1>1, <1>5 DEF Constructor, RotateOwner, CanCall, InExt
<1>6. ASSUME NEW f \in Frames, stack # <<>>, stack' = Append(stack, f)
      PROVE  Committed' = Committed
  BY <1>0, <1>1, <1>6, FirstKept
<1>7. ASSUME NEW kind \in {"execute", "batch"}, NEW a \in Accounts,
             NEW calls \in Seq(Calls), NEW n \in 0 .. MaxNonce - 1
      PROVE  AccountFrame(kind, a, calls, n, chain) \in Frames
  <2>1. n \in Nat
    BY ConstantsAssumption
  <2> QED
    BY <1>0, <2>1 DEF AccountFrame, Frames
<1>8. ASSUME NEW a \in Accounts, NEW call \in Calls, NEW n \in 0 .. MaxNonce - 1,
             NEW sig, Execute(a, call, n, sig)
      PROVE  Committed' = Committed
  <2>1. /\ stack # <<>>
        /\ stack' = Append(stack, AccountFrame("execute", a, <<call>>, n, chain))
    BY <1>8 DEF Execute, CanCall, InExt
  <2>2. AccountFrame("execute", a, <<call>>, n, chain) \in Frames
    <3>1. <<call>> \in Seq(Calls)
      OBVIOUS
    <3> QED
      BY <1>7, <3>1
  <2> QED
    BY <1>6, <2>1, <2>2
<1>9. ASSUME NEW a \in Accounts, NEW calls \in Batches, NEW n \in 0 .. MaxNonce - 1,
             NEW sig, ExecuteBatch(a, calls, n, sig)
      PROVE  Committed' = Committed
  <2>1. /\ stack # <<>>
        /\ stack' = Append(stack, AccountFrame("batch", a, calls, n, chain))
    BY <1>9 DEF ExecuteBatch, CanCall, InExt
  <2>2. AccountFrame("batch", a, calls, n, chain) \in Frames
    BY <1>7, ConstantsAssumption
  <2> QED
    BY <1>6, <2>1, <2>2
<1>10. CASE CallExternal
  <2> DEFINE f == Last(stack)
             e == ExtFrame(f.acct.chain, chain)
  <2>1. InAccount /\ stack # <<>> /\ stack' = Append(stack, e)
    BY <1>10 DEF CallExternal, InAccount, Top
  <2>2. f.acct.chain \in Chains
    BY <2>1, DeliverRunOK DEF Accounts
  <2>3. e \in Frames
    BY <1>0, <2>2, ExtFrameType
  <2> HIDE DEF e
  <2> QED
    BY <1>6, <2>1, <2>3
<1>11. CASE CallSelf
  <2> DEFINE f == Last(stack)
             w == Deliver(chain, f.acct, f.calls[f.next], f.nonce)
  <2>1. InAccount
    BY <1>11 DEF CallSelf
  <2>2. \/ Resume(stack, w, "ok")
        \/ Resume(stack, chain, "revert")
    BY <1>11 DEF CallSelf, Top
  <2>3. stack # <<>> /\ f.kind # "ext" /\ RunOK(w, stack)
    BY <2>1, DeliverRunOK
  <2> HIDE DEF w
  <2>4. stack' # <<>> /\ stack'[1] = stack[1]
    BY <1>0, <2>2, <2>3, ResumeFirst
  <2> QED
    BY <1>1, <2>3, <2>4
<1>12. CASE CalleeReturns \/ CalleeReverts
  <2>1. InExt /\ Len(stack) > 1 /\ stack # <<>>
    BY <1>12 DEF CalleeReturns, CalleeReverts, InExt
  <2>2. /\ Front(stack) # <<>>
        /\ Last(Front(stack)).kind # "ext"
        /\ RunOK(chain, Front(stack))
        /\ RunOK(Last(stack).saved, Front(stack))
    BY <2>1, CalleeFrames
  <2>3. stack' # <<>> /\ stack'[1] = Front(stack)[1]
    BY <1>12, <2>2, ResumeFirst DEF CalleeReturns, CalleeReverts, Top
  <2>4. Front(stack)[1] = stack[1]
    BY <1>0, <2>1, <2>2, FirstPopped
  <2> QED
    BY <1>1, <2>1, <2>3, <2>4
<1>13. CASE AccountTraps
  <2>1. stack # <<>> /\ Last(stack).kind # "ext" /\ stack' = Front(stack)
    BY <1>13 DEF AccountTraps, InAccount, Top
  <2>2. Front(stack) # <<>>
    <3>1. /\ Len(Front(stack)) = Len(stack) - 1
          /\ Len(stack) \in Nat /\ Len(stack) > 1
          /\ Front(stack) \in Seq(Frames)
      BY <1>0, <2>1, TopAccount
    <3>2. Len(Front(stack)) # 0
      BY <3>1
    <3> QED
      BY <3>1, <3>2, EmptySeq
  <2> QED
    BY <1>0, <1>1, <2>1, <2>2, FirstPopped
<1>14. CASE (\E k \in Keys, intent \in Intents : Sign(k, intent)) \/ UNCHANGED vars
  BY <1>2, <1>14 DEF Sign, vars
<1> QED
  BY <1>3, <1>4, <1>5, <1>8, <1>9, <1>10, <1>11, <1>12, <1>13, <1>14 DEF Next

\* What transactions have settled is what an account at rest looks like.
LEMMA CommittedSettled ==
    ASSUME IInv, LogInv, HistoryInv, NEW a \in Accounts
    PROVE  /\ Committed[a] \in AccountState
           /\ Settled(a, Committed[a], signed)
           /\ Recorded(Committed[a])
<1>1. CASE stack = <<>>
  <2>1. Len(stack) = 0
    BY <1>1, EmptySeq
  <2>2. \A i \in 1 .. 0 : FALSE
    OBVIOUS
  <2>3. Settled(a, chain[a], signed)
    BY <2>1, <2>2 DEF HistoryInv, HistoryOK, HistoryFits
  <2>4. Recorded(chain[a]) /\ chain[a] \in AccountState
    BY DEF LogInv, LogOK, ChainFits, IInv, RunOK, ChainState
  <2> QED
    BY <1>1, <2>3, <2>4 DEF Committed
<1>2. CASE stack # <<>>
  <2>1. stack \in Seq(Frames) /\ Len(stack) \in Nat \ {0}
    BY <1>2, EmptySeq DEF IInv, RunOK, StackOK
  <2>2. 1 \in 1 .. Len(stack) /\ 1 - 1 = 0
    BY <2>1
  <2>3. \A i \in 1 .. 0 : FALSE
    OBVIOUS
  <2>4. HistoryFits(stack[1].saved, stack, 0, signed)
    BY <2>2 DEF HistoryInv, HistoryOK, SavedHistory
  <2>5. Settled(a, stack[1].saved[a], signed)
    BY <2>3, <2>4 DEF HistoryFits
  <2>6. Recorded(stack[1].saved[a])
    BY <2>2 DEF LogInv, LogOK, ChainFits
  <2>7. stack[1].saved[a] \in AccountState
    BY <2>1, <2>2, SavedStates
  <2> QED
    BY <1>2, <2>5, <2>6, <2>7 DEF Committed
<1> QED
  BY <1>1, <1>2

\* A ledger that has grown starts as it did.
LEMMA LedgerPrefix ==
    ASSUME NEW s \in AccountState, NEW t \in AccountState, Extends(t, s)
    PROVE  Ledger!IsPrefix(LedgerOf(s), LedgerOf(t))
<1> DEFINE x == LedgerOf(s)
           y == LedgerOf(t)
           m == s.nonce
           n == t.nonce
           D == {x[i] : i \in 1 .. m} \cup {y[i] : i \in 1 .. n}
<1>1. m \in Nat /\ n \in Nat /\ m <= n
  BY DEF AccountState, Extends
<1>2. \A i \in 1 .. m : y[i] = x[i]
  BY LedgerKept
<1>3. x = [i \in 1 .. m |-> x[i]] /\ y = [i \in 1 .. n |-> y[i]]
  BY DEF LedgerOf
<1> HIDE DEF x, y, m, n
<1>4. x \in Seq(D) /\ y \in Seq(D) /\ Len(x) = m /\ Len(y) = n
  <2>1. (\A i \in 1 .. m : x[i] \in D) /\ (\A i \in 1 .. n : y[i] \in D)
    OBVIOUS
  <2> HIDE DEF D
  <2>2. x \in [1 .. m -> D] /\ y \in [1 .. n -> D]
    BY <1>3, <2>1
  <2>3. x \in Seq(D) /\ y \in Seq(D)
    BY <1>1, <2>2, SeqDef
  <2>4. Len(x) = m /\ Len(y) = n
    BY <1>1, <2>2, <2>3, LenProperties
  <2> QED
    BY <2>3, <2>4
<1>5. SubSeq(x, 1, m) = SubSeq(y, 1, m)
  <2> DEFINE u == SubSeq(x, 1, m)
             v == SubSeq(y, 1, m)
  <2>1. \A i \in 1 .. m : x[i] \in D /\ y[i] \in D
    <3>1. \A i \in 1 .. m : i \in 1 .. n
      BY <1>1
    <3> QED
      BY <3>1
  <2> HIDE DEF D
  <2>2. 1 \in Int /\ m \in Int /\ m - 1 + 1 = m
    BY <1>1
  <2>3. /\ u \in Seq(D) /\ v \in Seq(D)
        /\ Len(u) = (IF 1 <= m THEN m - 1 + 1 ELSE 0) /\ Len(v) = Len(u)
        /\ \A i \in 1 .. m - 1 + 1 : u[i] = x[1 + i - 1] /\ v[i] = y[1 + i - 1]
    BY <2>1, <2>2, SubSeqProperties
  <2> HIDE DEF u, v
  <2>4. Len(u) = m /\ \A i \in 1 .. m : u[i] = x[i] /\ v[i] = y[i]
    <3>1. \A i \in 1 .. m : 1 + i - 1 = i
      OBVIOUS
    <3> QED
      BY <1>1, <2>2, <2>3, <3>1
  <2>5. u = v
    BY <1>2, <2>3, <2>4, SeqEqual
  <2> QED
    BY <2>5 DEF u, v
<1> QED
  BY <1>1, <1>4, <1>5 DEF Ledger!IsPrefix, x, y

-----------------------------------------------------------------------------
(* The theorems. *)

LEMMA IdleOwns ==
    ASSUME IInv, NEW a \in Accounts
    PROVE  Idle(a) <=> \A i \in 1 .. Len(stack) : ~Owns(stack[i], a)
<1>1. DOMAIN stack = 1 .. Len(stack)
  BY LenProperties DEF IInv, RunOK, StackOK
<1> QED
  BY <1>1 DEF Idle

\* What frames of the stack, present and saved, say of logs, effects and nonces
\* (EffectsInv): the inductive form of EffectsMatchLog.
THEOREM EffectsInvariant == Spec => []EffectsInv
BY InductiveInvariant, LogInvariant, InitEffectsInv, NextEffectsInv, PTL DEF Spec

\* Every log, present and saved, is a history of signed operations, one for each
\* nonce in turn, the running one aside (HistoryInv).
THEOREM HistoryInvariant == Spec => []HistoryInv
BY InductiveInvariant, LogInvariant, InitHistoryInv, NextHistoryInv, PTL DEF Spec

\* What the logs of an account at rest report is what happened: a failed batch
\* left no effect, a failed execute none, and nothing took effect unreported,
\* however its callees called back, failed or ran out of gas.
THEOREM EffectsAlwaysMatchLog == Spec => []EffectsMatchLog
<1>1. ASSUME IInv, EffectsInv
      PROVE  EffectsMatchLog
  <2> SUFFICES ASSUME NEW a \in Accounts, Idle(a)
               PROVE  Matched(chain[a])
    BY DEF EffectsMatchLog, Matched, Told
  <2>1. \A i \in 1 .. Len(stack) - 1 : i \in 1 .. Len(stack)
    BY LenProperties DEF IInv, RunOK, StackOK
  <2>2. \A i \in 1 .. Len(stack) - 1 : ~Owns(stack[i], a)
    BY <1>1, <2>1, IdleOwns
  <2> QED
    BY <1>1, <2>2 DEF EffectsInv, EffectsOK, EffectsFit
<1> QED
  BY <1>1, InductiveInvariant, EffectsInvariant, PTL

\* An account at rest is settled.
LEMMA IdleSettled ==
    ASSUME IInv, HistoryInv, NEW a \in Accounts, Idle(a)
    PROVE  Settled(a, chain[a], signed)
BY IdleOwns DEF HistoryInv, HistoryOK, HistoryFits

\* Exactly once: every consumed nonce of an account at rest has one outcome, and
\* no batch is ever logged in part.
THEOREM OneOutcomeEach == Spec => []EachNonceOneOutcome
<1>1. ASSUME IInv, LogInv, HistoryInv
      PROVE  EachNonceOneOutcome
  <2> SUFFICES ASSUME NEW a \in Accounts, Idle(a)
               PROVE  /\ \A i \in 2 .. Len(chain[a].log) : chain[a].log[i].nonce < chain[a].nonce
                      /\ \A n \in 0 .. chain[a].nonce - 1 : Complete(Outcome(chain[a], n), n)
    BY DEF EachNonceOneOutcome
  <2>1. chain[a].nonce \in Nat
    BY <1>1 DEF IInv, RunOK, ChainState, AccountState
  <2>2. ASSUME NEW i \in 2 .. Len(chain[a].log)
        PROVE  chain[a].log[i].nonce < chain[a].nonce
    <3>1. chain[a].log[i].nonce \in 0 .. chain[a].nonce - 1
      BY <1>1 DEF LogInv, LogOK, ChainFits, Ordered
    <3> QED
      BY <2>1, <3>1
  <2> QED
    BY <1>1, <2>2, IdleSettled DEF Settled
<1> QED
  BY <1>1, InductiveInvariant, LogInvariant, HistoryInvariant, PTL

\* Every outcome in the log was signed, for this chain, this account, this nonce
\* and this payload, by the key that its earlier outcomes had put in charge.
THEOREM EveryOutcomeAlwaysSigned == Spec => []EveryOutcomeSigned
<1>1. ASSUME IInv, HistoryInv
      PROVE  EveryOutcomeSigned
  BY <1>1, IdleSettled DEF EveryOutcomeSigned, Settled, Agreed, Ledger!Authorised, Intent
<1> QED
  BY <1>1, InductiveInvariant, HistoryInvariant, PTL

\* Whoever replays the log of an account at rest finds its present owner.
THEOREM OwnerAlwaysRebuildable == Spec => []OwnerRebuildable
<1>1. ASSUME IInv, HistoryInv
      PROVE  OwnerRebuildable
  BY <1>1, IdleSettled DEF OwnerRebuildable, Settled
<1> QED
  BY <1>1, InductiveInvariant, HistoryInvariant, PTL

\* A transaction that ends settles operations, all of them agreed to.
LEMMA EndTxSettles ==
    ASSUME IInv, LogInv, HistoryInv, HistoryInv', EndTx
    PROVE  Ledger!Settle
<1>1. /\ stack # <<>> /\ stack' = <<>> /\ chain' = chain /\ signed' = signed
  BY DEF EndTx, InExt
<1>2. Committed = stack[1].saved /\ Committed' = chain
  BY <1>1 DEF Committed
<1>3. 1 \in 1 .. Len(stack)
  <2>1. stack \in Seq(Frames) /\ Len(stack) \in Nat \ {0}
    BY <1>1, EmptySeq DEF IInv, RunOK, StackOK
  <2> QED
    BY <2>1
<1>4. ASSUME NEW a \in Accounts
      PROVE  LET s == Committed[a]
                 t == Committed'[a]
             IN  /\ Genesis(t) = Genesis(s) \/ (Genesis(s) = NoOwner /\ Genesis(t) \in Keys)
                 /\ Ledger!IsPrefix(LedgerOf(s), LedgerOf(t))
                 /\ Agreed(a, Genesis(t), LedgerOf(t), signed)
  <2> DEFINE s == Committed[a]
             t == Committed'[a]
  <2>1. s \in AccountState /\ Settled(a, s, signed)
    BY CommittedSettled
  <2>2. t \in AccountState /\ Settled(a, t, signed)
    <3>1. chain[a] \in AccountState
      BY DEF IInv, RunOK, ChainState
    <3>2. Len(<<>>) = 0 /\ \A i \in 1 .. 0 : FALSE
      BY EmptySeq
    <3>3. HistoryFits(chain, <<>>, 0, signed)
      BY <1>1, <3>2 DEF HistoryInv, HistoryOK
    <3>4. Settled(a, chain[a], signed)
      BY <3>2, <3>3 DEF HistoryFits
    <3> QED
      BY <1>2, <3>1, <3>4
  <2>3. Extends(t, s)
    BY <1>2, <1>3 DEF HistoryInv, HistoryOK, HistoryFits
  <2>4. s.log = <<>> => Genesis(s) = NoOwner
    BY DEF Genesis
  <2>5. s.log # <<>> => Genesis(t) = Genesis(s)
    BY <2>1, <2>2, <2>3, LedgerKept
  <2>6. Genesis(t) \in Keys \cup {NoOwner} /\ Agreed(a, Genesis(t), LedgerOf(t), signed)
    BY <2>2 DEF Settled
  <2>7. Ledger!IsPrefix(LedgerOf(s), LedgerOf(t))
    BY <2>1, <2>2, <2>3, LedgerPrefix
  <2> QED
    BY <2>4, <2>5, <2>6, <2>7
<1> QED
  BY <1>1, <1>4 DEF Ledger!Settle, Ledger!Authorised, Agreed, Intent

\* What an owner has signed stays signed.
LEMMA SignedGrows ==
    ASSUME [Next]_vars
    PROVE  signed \subseteq signed'
<1>1. ASSUME NEW k \in Keys, NEW intent \in Intents, Sign(k, intent)
      PROVE  signed \subseteq signed'
  BY <1>1 DEF Sign
<1>2. ASSUME \/ \E c \in Chains : BeginTx(c)
             \/ EndTx \/ AbortTx
             \/ \E a \in Accounts, p \in Keys \cup BadPoints : Constructor(a, p)
      PROVE  signed' = signed
  BY <1>2 DEF BeginTx, EndTx, AbortTx, Constructor
<1>3. ASSUME NEW a \in Accounts, NEW n \in 0 .. MaxNonce - 1, NEW sig \in Signatures,
             \/ \E call \in Calls : Execute(a, call, n, sig)
             \/ \E calls \in Batches : ExecuteBatch(a, calls, n, sig)
             \/ \E p \in Keys \cup BadPoints : RotateOwner(a, p, n, sig)
      PROVE  signed' = signed
  BY <1>3 DEF Execute, ExecuteBatch, RotateOwner
<1>4. ASSUME CallExternal \/ CallSelf \/ CalleeReturns \/ CalleeReverts \/ AccountTraps
      PROVE  signed' = signed
  BY <1>4 DEF CallExternal, CallSelf, CalleeReturns, CalleeReverts, AccountTraps
<1>5. UNCHANGED vars => signed' = signed
  BY DEF vars
<1> QED
  BY <1>1, <1>2, <1>3, <1>4, <1>5 DEF Next

\* P256Account implements AccountLedger: between transactions, accounts are
\* ledgers that only grow, each operation settled once, in nonce order, and
\* agreed to by the key in charge of its account at that point.
THEOREM LedgerRefinement == Spec => LedgerImplemented
<1>1. Init => Ledger!Init
  <2> SUFFICES ASSUME Init PROVE Ledger!Init
    OBVIOUS
  <2>1. Committed = chain
    BY DEF Init, Committed
  <2>2. ASSUME NEW a \in Accounts
        PROVE  Genesis(chain[a]) = NoOwner /\ LedgerOf(chain[a]) = <<>>
    <3>1. chain[a] = FreshAccount
      BY DEF Init
    <3>2. Genesis(FreshAccount) = NoOwner
      BY DEF Genesis, FreshAccount
    <3>3. LedgerOf(FreshAccount) = <<>>
      BY DEF LedgerOf, FreshAccount
    <3> QED
      BY <3>1, <3>2, <3>3
  <2> QED
    BY <2>1, <2>2 DEF Init, Ledger!Init
<1>2. ASSUME IInv, LogInv, HistoryInv, HistoryInv', [Next]_vars
      PROVE  [Ledger!Next]_<<[a \in Accounts |-> Genesis(Committed[a])],
                             [a \in Accounts |-> LedgerOf(Committed[a])], signed>>
  <2>1. CASE EndTx
    BY <1>2, <2>1, EndTxSettles DEF Ledger!Next
  <2>2. CASE Committed' = Committed
    <3>1. signed \subseteq signed'
      BY <1>2, SignedGrows
    <3> QED
      BY <2>2, <3>1 DEF Ledger!Next, Ledger!Sign
  <2> QED
    BY <1>2, <2>1, <2>2, CommittedStep
<1> QED
  BY <1>1, <1>2, InductiveInvariant, LogInvariant, HistoryInvariant, PTL
     DEF Spec, LedgerImplemented, Ledger!Spec
=============================================================================
