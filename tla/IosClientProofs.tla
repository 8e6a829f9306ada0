-------------------------- MODULE IosClientProofs --------------------------
(***************************************************************************)
(* What the Swift client's reservation is worth without a lock, for any    *)
(* number of calls: while the client is in step, calls made one after the  *)
(* other never make each other mismatch, and after trouble it is in step   *)
(* again as soon as it starts from the chain's nonce with nothing on the   *)
(* way.                                                                    *)
(*                                                                         *)
(* As for the Kotlin client, the reservation is the first nonce after      *)
(* those on the way, or spent; but only while at most one call is running  *)
(* (Alone), which here is up to the caller.                                *)
(***************************************************************************)
EXTENDS IosClient, SequenceTheorems, TLAPS

Inside == {"reading", "read", "signing", "sending", "sent"}

\* The first nonce that nothing on the way has.
NextNonce == onChain + Len(live)

Alone == serial => \A c, d \in Calls : pc[c] \in Inside /\ pc[d] \in Inside => d = c

\* What a call has signed does not change any more once it is on the way.
OnTheWay == \A i \in 1 .. Len(live) : pc[live[i]] \in {"sent", "done"}

\* Only a call that is over has an action that the relay may bring later.
HeldIsDone == \A c \in Calls : fate[c] = "held" => pc[c] = "done"

SeenBehind == \A c \in Calls : pc[c] = "read" => seen[c] <= onChain

InARow == \A i \in 1 .. Len(live) : signedNonce[live[i]] = onChain + i - 1

\* A reservation that the chain has overtaken counts for nothing.
Spent == reservedNonce = NoNonce \/ reservedNonce < onChain

Reserve ==
    (\A c \in Calls : pc[c] # "sent") =>
        \/ Spent /\ live = <<>>
        \/ reservedNonce = NextNonce

NonceOf(c) ==
    /\ pc[c] = "read" /\ Spent => seen[c] = onChain
    /\ pc[c] \in {"signing", "sending"} => signedNonce[c] = NextNonce
    /\ pc[c] = "sent" => signedNonce[c] + 1 = NextNonce

Calm == InARow /\ Reserve /\ \A c \in Calls : NonceOf(c)

Structure == Alone /\ OnTheWay /\ HeldIsDone /\ SeenBehind

ClientInv == TypeOK /\ Structure /\ (calm /\ serial => Calm)

-----------------------------------------------------------------------------
(* Types. *)

LEMMA StepTypes ==
    ASSUME TypeOK, NEW c \in Calls,
           \/ NodeAnswers(c) \/ reserveNonce(c) \/ Sign(c) \/ Deliver(c)
           \/ RelayAnswers(c) \/ Throw(c) \/ GiveUp(c) \/ ReplyLost(c)
    PROVE  TypeOK'
<1> USE ClientAssumption
    DEF TypeOK, WorldTypeOK, Fates, Troubles, worldVars, Return
<1>1. CASE NodeAnswers(c)
  BY <1>1 DEF NodeAnswers
<1>2. CASE reserveNonce(c)
  <2>1. trouble' \subseteq Troubles
    BY <1>2 DEF reserveNonce
  <2>2. signedNonce' \in [Calls -> Nat]
    BY <1>2 DEF reserveNonce, Standing
  <2>3. reservedNonce' \in Nat \cup {NoNonce} /\ reservedAt' \in Nat
    BY <1>2 DEF reserveNonce, resetNonce
  <2>4. UNCHANGED <<now, onChain, keyed, live, fate, foreign, serial>>
        /\ seen' = [seen EXCEPT ![c] = 0] /\ pc' = [pc EXCEPT ![c] = "signing"]
    BY <1>2 DEF reserveNonce
  <2> QED
    BY <2>1, <2>2, <2>3, <2>4
<1>3. CASE Sign(c)
  BY <1>3 DEF Sign
<1>4. CASE Deliver(c)
  <2>1. Append(live, c) \in Seq(Calls)
    BY AppendProperties
  <2> QED
    BY <1>4, <2>1 DEF Deliver, Broadcast
<1>5. CASE RelayAnswers(c)
  BY <1>5 DEF RelayAnswers, commitNonce
<1>6. CASE Throw(c)
  BY <1>6 DEF Throw
<1>7. CASE ReplyLost(c)
  BY <1>7 DEF ReplyLost
<1>8. CASE GiveUp(c)
  BY <1>8 DEF GiveUp
<1> HIDE DEF TypeOK, WorldTypeOK, Fates, Troubles, worldVars, Return
<1> QED
  BY <1>1, <1>2, <1>3, <1>4, <1>5, <1>6, <1>7, <1>8

\* What is left on the way was on the way before.
LEMMA Dropped ==
    ASSUME live \in Seq(Calls), NEW i \in DOMAIN live, Drop(i)
    PROVE  /\ live' \in Seq(Calls)
           /\ \A j \in 1 .. Len(live') : \E k \in 1 .. Len(live) : live'[j] = live[k]
<1> DEFINE front == SubSeq(live, 1, i - 1)
           back == SubSeq(live, i + 1, Len(live))
<1>1. /\ Len(live) \in Nat /\ i \in 1 .. Len(live)
      /\ \A k \in 1 .. Len(live) : live[k] \in Calls
  BY LenProperties, ElementOfSeq
<1>2. /\ front \in Seq(Calls)
      /\ Len(front) = i - 1
      /\ \A j \in 1 .. i - 1 : front[j] = live[j]
  BY <1>1, SubSeqProperties
<1>3. /\ back \in Seq(Calls)
      /\ Len(back) = Len(live) - i
      /\ \A j \in 1 .. Len(live) - i : back[j] = live[i + j]
  BY <1>1, SubSeqProperties
<1>4. live' = front \o back
  BY DEF Drop, RemoveAt
<1> HIDE DEF front, back
<1>5. /\ live' \in Seq(Calls)
      /\ Len(live') = Len(live) - 1
      /\ \A j \in 1 .. Len(live) - 1 :
            live'[j] = IF j <= i - 1 THEN front[j] ELSE back[j - (i - 1)]
  <2>1. Len(front \o back) = Len(front) + Len(back) /\ front \o back \in Seq(Calls)
    BY <1>2, <1>3, ConcatProperties
  <2>2. \A j \in 1 .. Len(front) + Len(back) :
           (front \o back)[j] = IF j <= Len(front) THEN front[j] ELSE back[j - Len(front)]
    BY <1>2, <1>3, ConcatProperties
  <2>3. Len(front) + Len(back) = Len(live) - 1
    BY <1>1, <1>2, <1>3
  <2> QED
    BY <1>2, <1>4, <2>1, <2>2, <2>3
<1>6. ASSUME NEW j \in 1 .. Len(live')
      PROVE  \E k \in 1 .. Len(live) : live'[j] = live[k]
  <2>1. CASE j <= i - 1
    <3>1. live'[j] = front[j] /\ j \in 1 .. i - 1
      BY <1>1, <1>5, <2>1
    <3>2. front[j] = live[j]
      BY <1>2, <3>1
    <3> QED
      BY <1>1, <3>1, <3>2
  <2>2. CASE j > i - 1
    <3>1. live'[j] = back[j - (i - 1)] /\ j - (i - 1) \in 1 .. Len(live) - i
      BY <1>1, <1>5, <2>2
    <3>2. PICK k \in 1 .. Len(live) - i : k = j - (i - 1)
      BY <3>1
    <3>3. i + k \in 1 .. Len(live)
      BY <1>1
    <3>4. back[k] = live[i + k]
      BY <1>3
    <3> QED
      BY <3>1, <3>2, <3>3, <3>4
  <2> QED
    BY <1>1, <2>1, <2>2
<1> QED
  BY <1>5, <1>6

LEMMA TypeStep ==
    ASSUME TypeOK, [Next]_vars
    PROVE  TypeOK'
<1> USE WorldAssumption, ClientAssumption
    DEF TypeOK, WorldTypeOK, Fates, Troubles, worldVars, clientVars
<1>1. ASSUME NEW c \in Calls, Call(c) PROVE TypeOK'
  BY <1>1 DEF Call
<1>2. ASSUME NEW c \in Calls,
             \/ NodeAnswers(c) \/ reserveNonce(c) \/ Sign(c) \/ Deliver(c)
             \/ RelayAnswers(c) \/ Throw(c) \/ GiveUp(c) \/ ReplyLost(c)
      PROVE  TypeOK'
  BY <1>2, StepTypes
<1>3. ASSUME NEW c \in Calls, Land(c, signedNonce[c]), UNCHANGED clientVars PROVE TypeOK'
  <2>1. Tail(live) \in Seq(Calls)
    BY <1>3, HeadTailProperties DEF Land
  <2>2. CASE Applied(c, signedNonce[c])
    BY <1>3, <2>1, <2>2 DEF Land, Applied
  <2>3. CASE Mismatched(c, signedNonce[c])
    BY <1>3, <2>1, <2>3 DEF Land, Mismatched
  <2>4. CASE RevertsInTurn(c, signedNonce[c])
    BY <1>3, <2>1, <2>4 DEF Land, RevertsInTurn
  <2> QED
    BY <1>3, <2>2, <2>3, <2>4 DEF Land
<1>4. ASSUME NEW i \in DOMAIN live, Drop(i), UNCHANGED clientVars PROVE TypeOK'
  <2>1. live' \in Seq(Calls)
    BY <1>4, Dropped
  <2> QED
    BY <1>4, <2>1 DEF Drop
<1>5. CASE ManualReset
  BY <1>5 DEF ManualReset, resetNonce
<1>6. CASE (OtherDevice \/ Tick) /\ UNCHANGED clientVars
  <2>1. CASE OtherDevice /\ UNCHANGED clientVars
    <3>1. /\ now' = now /\ onChain' = onChain + 1 /\ live' = live /\ fate' = fate
          /\ foreign' = foreign + 1 /\ trouble' = trouble \cup {"beyond"}
          /\ keyed' \in BOOLEAN
      BY <2>1 DEF OtherDevice
    <3>2. UNCHANGED <<pc, seen, signedNonce, reservedNonce, reservedAt, serial>>
      BY <2>1
    <3>3. onChain' \in Nat /\ foreign' \in Nat
      BY <3>1
    <3>4. trouble' \subseteq Troubles /\ keyed' \in BOOLEAN
      BY <3>1
    <3> QED
      BY <3>1, <3>2, <3>3, <3>4
  <2>2. CASE Tick /\ UNCHANGED clientVars
    BY <2>2 DEF Tick
  <2> QED
    BY <1>6, <2>1, <2>2
<1>7. CASE UNCHANGED vars
  BY <1>7 DEF vars
<1>8. ASSUME NEW c \in Calls, BroadcastLate(c), UNCHANGED clientVars PROVE TypeOK'
  <2>1. Append(live, c) \in Seq(Calls)
    BY AppendProperties
  <2> QED
    BY <1>8, <2>1 DEF BroadcastLate, Broadcast
<1> HIDE DEF TypeOK, WorldTypeOK, Fates, Troubles, worldVars, clientVars
<1> QED
  BY <1>1, <1>2, <1>3, <1>4, <1>5, <1>6, <1>7, <1>8 DEF Next

-----------------------------------------------------------------------------
(* The actions on the way. *)

LEMMA Landed ==
    ASSUME live \in Seq(Calls), live # <<>>, live' = Tail(live)
    PROVE  /\ live' \in Seq(Calls)
           /\ Len(live) \in Nat /\ Len(live') = Len(live) - 1
           /\ Len(live) >= 1 /\ Head(live) = live[1]
           /\ \A i \in 1 .. Len(live') : live'[i] = live[i + 1]
<1>1. Len(live) \in Nat \ {0}
  BY EmptySeq
<1> QED
  BY <1>1, HeadTailProperties

LEMMA Sent ==
    ASSUME live \in Seq(Calls), NEW c \in Calls, live' = Append(live, c)
    PROVE  /\ Len(live) \in Nat /\ Len(live') = Len(live) + 1
           /\ live'[Len(live')] = c
           /\ \A i \in 1 .. Len(live) : live'[i] = live[i]
  BY AppendProperties, LenProperties

-----------------------------------------------------------------------------
(* One call at a time. *)

LEMMA StructureStep ==
    ASSUME TypeOK, Structure, [Next]_vars
    PROVE  Structure'
<1> USE DEF Structure, Inside, worldVars, clientVars
<1>0. /\ live \in Seq(Calls)
      /\ \A i \in 1 .. Len(live) : live[i] \in Calls
      /\ pc \in [Calls -> {"idle", "reading", "read", "signing", "sending",
                           "sent", "done"}]
      /\ onChain \in Nat /\ seen \in [Calls -> Nat] /\ fate \in [Calls -> Fates]
  BY ElementOfSeq DEF TypeOK, WorldTypeOK
<1>1. ASSUME NEW c \in Calls,
             Call(c) \/ NodeAnswers(c) \/ reserveNonce(c) \/ Sign(c)
      PROVE  Structure'
  <2>1. UNCHANGED <<live, onChain, fate>>
    BY <1>1 DEF Call, NodeAnswers, reserveNonce, Sign
  <2>2. Alone'
    <3> SUFFICES ASSUME serial', NEW d \in Calls, NEW e \in Calls,
                        pc'[d] \in Inside, pc'[e] \in Inside
                 PROVE  e = d
      BY DEF Alone
    <3>1. CASE Call(c)
      <4>1. \A f \in Calls : f # c => pc'[f] \notin Inside
        BY <1>0, <3>1 DEF Call
      <4> QED
        BY <4>1
    <3>2. CASE NodeAnswers(c) \/ reserveNonce(c) \/ Sign(c)
      <4>1. serial /\ \A f \in Calls : pc'[f] \in Inside => pc[f] \in Inside
        BY <1>0, <3>2 DEF NodeAnswers, reserveNonce, Sign
      <4> QED
        BY <4>1 DEF Alone
    <3> QED
      BY <1>1, <3>1, <3>2
  <2>3. \A d \in Calls : pc[d] \in {"sent", "done"} => pc'[d] = pc[d]
    BY <1>0, <1>1 DEF Call, NodeAnswers, reserveNonce, Sign
  <2>4. SeenBehind'
    BY <1>0, <1>1 DEF Call, NodeAnswers, reserveNonce, Sign, SeenBehind
  <2> QED
    BY <1>0, <2>1, <2>2, <2>3, <2>4 DEF OnTheWay, HeldIsDone
<1>2. ASSUME NEW c \in Calls, Deliver(c) PROVE Structure'
  <2>1. /\ pc[c] = "sending" /\ pc' = [pc EXCEPT ![c] = "sent"]
        /\ live' = Append(live, c)
        /\ fate' = [fate EXCEPT ![c] = "live"]
        /\ UNCHANGED <<serial, seen, onChain>>
    BY <1>2 DEF Deliver, Broadcast
  <2>2. OnTheWay'
    BY <1>0, <2>1, Sent DEF OnTheWay
  <2> QED
    BY <1>0, <2>1, <2>2 DEF Alone, HeldIsDone, SeenBehind
<1>3. ASSUME NEW c \in Calls, RelayAnswers(c) \/ Throw(c) \/ GiveUp(c) \/ ReplyLost(c)
      PROVE  Structure'
  <2>1. /\ pc[c] \in Inside /\ pc' = [pc EXCEPT ![c] = "done"]
        /\ UNCHANGED <<live, seen, onChain>>
        /\ \A d \in Calls : fate'[d] = "held" => d = c \/ fate[d] = "held"
    BY <1>0, <1>3 DEF RelayAnswers, Throw, GiveUp, ReplyLost, Return
  <2>2. serial' = serial /\ \A d \in Calls : pc'[d] \in Inside => pc[d] \in Inside
    BY <1>0, <1>3, <2>1 DEF RelayAnswers, Throw, GiveUp, ReplyLost
  <2> QED
    BY <1>0, <2>1, <2>2 DEF Alone, OnTheWay, HeldIsDone, SeenBehind
<1>4. ASSUME NEW c \in Calls, Land(c, signedNonce[c]), UNCHANGED clientVars
      PROVE  Structure'
  <2>1. live # <<>> /\ live' = Tail(live) /\ onChain' \in {onChain, onChain + 1}
        /\ \A d \in Calls : fate'[d] = "held" => fate[d] = "held"
    BY <1>0, <1>4 DEF Land, Applied, Mismatched, RevertsInTurn
  <2>2. OnTheWay'
    BY <1>0, <1>4, <2>1, Landed DEF OnTheWay
  <2> QED
    BY <1>0, <1>4, <2>1, <2>2 DEF Alone, HeldIsDone, SeenBehind
<1>5. ASSUME NEW i \in DOMAIN live, Drop(i), UNCHANGED clientVars PROVE Structure'
  <2>1. OnTheWay'
    BY <1>0, <1>5, Dropped DEF OnTheWay
  <2>2. \A d \in Calls : fate'[d] = "held" => fate[d] = "held"
    BY <1>0, <1>5 DEF Drop
  <2> QED
    BY <1>5, <2>1, <2>2 DEF Drop, Alone, HeldIsDone, SeenBehind
<1>6. CASE ManualReset
  BY <1>6 DEF ManualReset, Alone, OnTheWay, HeldIsDone, SeenBehind
<1>7. CASE (OtherDevice \/ Tick) /\ UNCHANGED clientVars
  <2>1. UNCHANGED <<live, fate>> /\ onChain' \in {onChain, onChain + 1}
    BY <1>7 DEF OtherDevice, Tick
  <2>2. Alone' /\ OnTheWay' /\ HeldIsDone'
    BY <1>7, <2>1 DEF Alone, OnTheWay, HeldIsDone
  <2>3. SeenBehind'
    BY <1>0, <1>7, <2>1 DEF SeenBehind
  <2> QED
    BY <2>2, <2>3
<1>8. CASE UNCHANGED vars
  BY <1>8 DEF vars, Alone, OnTheWay, HeldIsDone, SeenBehind
<1>9. ASSUME NEW c \in Calls, BroadcastLate(c), UNCHANGED clientVars
      PROVE  Structure'
  <2>1. /\ fate[c] = "held" /\ pc[c] = "done"
        /\ live' = Append(live, c)
        /\ fate' = [fate EXCEPT ![c] = "live"]
        /\ UNCHANGED onChain
    BY <1>9 DEF BroadcastLate, Broadcast, HeldIsDone
  <2>2. OnTheWay'
    BY <1>0, <1>9, <2>1, Sent DEF OnTheWay
  <2> QED
    BY <1>0, <1>9, <2>1, <2>2 DEF Alone, HeldIsDone, SeenBehind
<1> HIDE DEF Structure, Inside, worldVars, clientVars
<1> QED
  BY <1>1, <1>2, <1>3, <1>4, <1>5, <1>6, <1>7, <1>8, <1>9 DEF Next

\* While calls are made one after the other, only one is running.
LEMMA OneRuns ==
    ASSUME Structure, serial, NEW c \in Calls, NEW d \in Calls,
           pc[c] \in Inside, pc[d] \in Inside
    PROVE  d = c
  BY DEF Structure, Alone

-----------------------------------------------------------------------------
(* The reservation. *)

LEMMA CalmStep ==
    ASSUME ClientInv, [Next]_vars, calm', serial'
    PROVE  Calm'
<1> USE ClientAssumption DEF worldVars, clientVars, calm
<1>0. /\ live \in Seq(Calls) /\ Len(live) \in Nat
      /\ \A i \in 1 .. Len(live) : live[i] \in Calls
      /\ pc \in [Calls -> {"idle", "reading", "read", "signing", "sending",
                           "sent", "done"}]
      /\ onChain \in Nat /\ NextNonce \in Nat
      /\ seen \in [Calls -> Nat] /\ signedNonce \in [Calls -> Nat]
      /\ reservedNonce \in Nat \cup {NoNonce}
      /\ Structure
      /\ serial \in BOOLEAN
  BY ElementOfSeq, LenProperties DEF ClientInv, TypeOK, WorldTypeOK, NextNonce
<1>a. ASSUME calm, serial PROVE InARow /\ Reserve /\ \A c \in Calls : NonceOf(c)
  BY <1>a DEF ClientInv, Calm
\* Running calls are not joined by another, as serial still holds.
<1>b. serial
  BY <1>0 DEF Next, Call, NodeAnswers, reserveNonce, Sign, Deliver, RelayAnswers, Throw,
              GiveUp, ReplyLost, BroadcastLate, Drop, Land, ManualReset, OtherDevice, Tick, vars
\* Nothing lands and nobody broadcasts.
<1>1. ASSUME NEW c \in Calls, Call(c) \/ Sign(c) PROVE Calm'
  <2>1. /\ UNCHANGED <<live, onChain, signedNonce, seen, reservedNonce>>
        /\ calm
    BY <1>1 DEF Call, Sign
  <2>2. \A d \in Calls : /\ pc'[d] = "sent" <=> pc[d] = "sent"
                         /\ pc'[d] = "read" => pc[d] = "read"
                         /\ pc'[d] \in {"signing", "sending"} => pc[d] \in {"signing", "sending"}
    BY <1>0, <1>1 DEF Call, Sign
  <2> QED
    BY <1>a, <1>b, <2>1, <2>2 DEF Calm, InARow, Reserve, NonceOf, Spent, NextNonce
<1>2. ASSUME NEW c \in Calls, NodeAnswers(c) PROVE Calm'
  <2>1. /\ UNCHANGED <<live, onChain, signedNonce, reservedNonce>>
        /\ calm
        /\ pc' = [pc EXCEPT ![c] = "read"] /\ pc[c] = "reading"
        /\ seen' = [seen EXCEPT ![c] = onChain]
    BY <1>2 DEF NodeAnswers
  <2>2. \A d \in Calls : NonceOf(d)'
    BY <1>0, <1>a, <1>b, <2>1 DEF NonceOf, Spent, NextNonce
  <2>3. Reserve'
    BY <1>0, <1>a, <1>b, <2>1 DEF Reserve, Spent, NextNonce
  <2> QED
    BY <1>a, <1>b, <2>1, <2>2, <2>3 DEF Calm, InARow
<1>3. ASSUME NEW c \in Calls, reserveNonce(c) PROVE Calm'
  <2>1. /\ UNCHANGED <<live, onChain>> /\ seen' = [seen EXCEPT ![c] = 0]
        /\ pc' = [pc EXCEPT ![c] = "signing"] /\ pc[c] = "read"
    BY <1>3 DEF reserveNonce
  <2>2. \A d \in Calls : d # c => pc[d] \notin Inside
    BY <1>0, <1>b, <2>1, OneRuns DEF Inside
  <2>3. Len(<<>>) = 0 /\ seen[c] <= onChain
    BY <1>0, <2>1 DEF Structure, SeenBehind
  \* While the client is in step, a spent reservation means the chain's nonce is
  \* the one to sign, and any other stands.
  <2>4. ASSUME calm
        PROVE  \/ InStep(c) /\ Spent
               \/ Standing(c) /\ reservedNonce = NextNonce
    <3>1. \A d \in Calls : pc[d] # "sent"
      BY <1>0, <2>1, <2>2 DEF Inside
    <3>2. CASE Spent /\ live = <<>>
      BY <1>a, <1>b, <2>1, <2>4, <3>2 DEF NonceOf, InStep
    <3>3. CASE reservedNonce = NextNonce
      <4>1. reservedNonce # NoNonce /\ seen[c] \in Nat /\ onChain <= NextNonce
        BY <1>0, <3>3 DEF NextNonce
      <4> QED
        BY <1>0, <2>3, <3>3, <4>1 DEF Standing
    <3> QED
      BY <1>a, <1>b, <2>4, <3>1, <3>2, <3>3 DEF Reserve
  <2>5. CASE /\ InStep(c)
             /\ signedNonce' = [signedNonce EXCEPT ![c] = seen[c]]
             /\ \/ ~Standing(c) /\ reservedNonce' = reservedNonce
                \/ resetNonce
    <3>1. live = <<>> /\ NextNonce = onChain /\ seen[c] = onChain
      BY <1>0, <2>3, <2>5 DEF InStep, NextNonce
    <3>2. Spent'
      BY <1>0, <2>1, <2>5, <3>1 DEF Standing, resetNonce, Spent
    <3>3. InARow'
      BY <2>1, <2>3, <3>1 DEF InARow
    <3>4. Reserve'
      BY <2>1, <3>1, <3>2 DEF Reserve
    <3>5. \A d \in Calls : NonceOf(d)'
      BY <1>0, <2>1, <2>2, <2>5, <3>1 DEF NonceOf, Inside, Spent, NextNonce
    <3> QED
      BY <3>3, <3>4, <3>5 DEF Calm
  <2>6. CASE /\ calm /\ Standing(c)
             /\ signedNonce' = [signedNonce EXCEPT ![c] = reservedNonce]
             /\ reservedNonce' = reservedNonce
    <3>1. reservedNonce = NextNonce
      BY <1>0, <2>4, <2>6 DEF InStep, Spent, Standing
    <3>2. \A i \in 1 .. Len(live) : live[i] # c
      BY <1>0, <2>1 DEF Structure, OnTheWay
    <3>3. InARow'
      BY <1>0, <1>a, <1>b, <2>1, <2>6, <3>2 DEF InARow
    <3>4. Reserve'
      BY <2>1, <2>6, <3>1 DEF Reserve, NextNonce
    <3>5. \A d \in Calls : NonceOf(d)'
      BY <1>0, <2>1, <2>2, <2>6, <3>1 DEF NonceOf, Inside, Spent, NextNonce
    <3> QED
      BY <3>3, <3>4, <3>5 DEF Calm
  <2>7. CASE /\ ~Standing(c) /\ reservedNonce' = reservedNonce
             /\ signedNonce' = [signedNonce EXCEPT ![c] = seen[c]]
             /\ trouble' = IF InStep(c) THEN {} ELSE trouble
    <3>1. InStep(c)
      BY <2>4, <2>7
    <3> QED
      BY <2>5, <2>7, <3>1
  <2>8. CASE /\ Standing(c) /\ resetNonce
             /\ signedNonce' = [signedNonce EXCEPT ![c] = seen[c]]
             /\ trouble' = IF InStep(c) THEN {} ELSE trouble \cup {"beyond"}
    <3>1. InStep(c)
      BY <2>8
    <3> QED
      BY <2>5, <2>8, <3>1
  <2> QED
    BY <1>3, <2>6, <2>7, <2>8 DEF reserveNonce
<1>4. ASSUME NEW c \in Calls, Deliver(c) PROVE Calm'
  <2>1. /\ UNCHANGED <<onChain, trouble, seen, signedNonce, reservedNonce>>
        /\ pc' = [pc EXCEPT ![c] = "sent"] /\ pc[c] = "sending"
        /\ live' = Append(live, c)
    BY <1>4 DEF Deliver, Broadcast
  <2>2. \A d \in Calls : d # c => pc[d] \notin Inside
    BY <1>0, <1>b, <2>1, OneRuns DEF Inside
  <2>3. calm /\ signedNonce[c] = onChain + Len(live)
    BY <1>a, <1>b, <2>1 DEF NonceOf, Spent, NextNonce
  <2>4. /\ Len(live') = Len(live) + 1
        /\ live'[Len(live')] = c
        /\ \A i \in 1 .. Len(live) : live'[i] = live[i]
    BY <1>0, <2>1, Sent
  <2>5. InARow'
    <3> SUFFICES ASSUME NEW i \in 1 .. Len(live')
                 PROVE  signedNonce'[live'[i]] = onChain' + i - 1
      BY DEF InARow
    <3>1. CASE i = Len(live')
      BY <1>0, <2>1, <2>3, <2>4, <3>1
    <3>2. CASE i # Len(live')
      <4>1. i \in 1 .. Len(live)
        BY <1>0, <2>4, <3>2
      <4> QED
        BY <1>a, <1>b, <2>1, <2>3, <2>4, <4>1 DEF InARow
    <3> QED
      BY <3>1, <3>2
  <2>6. \A d \in Calls : NonceOf(d)'
    BY <1>0, <2>1, <2>2, <2>3, <2>4 DEF NonceOf, Inside, Spent, NextNonce
  <2>7. Reserve'
    BY <1>0, <2>1 DEF Reserve
  <2> QED
    BY <1>0, <1>a, <1>b, <2>1, <2>3, <2>5, <2>6, <2>7 DEF Calm
<1>5. ASSUME NEW c \in Calls, RelayAnswers(c) \/ Throw(c) PROVE Calm'
  <2>1. /\ UNCHANGED <<live, onChain, trouble, seen, signedNonce>>
        /\ pc' = [pc EXCEPT ![c] = "done"] /\ pc[c] \in Inside
    BY <1>5 DEF RelayAnswers, Throw, Return, Inside
  <2>2. \A d \in Calls : d # c => pc[d] \notin Inside
    BY <1>0, <1>b, <2>1, OneRuns
  <2>3. \A d \in Calls : NonceOf(d)'
    BY <1>0, <2>1, <2>2 DEF NonceOf, Inside, Spent
  <2>4. Reserve'
    <3>1. CASE RelayAnswers(c)
      <4>1. signedNonce[c] + 1 = NextNonce /\ reservedNonce' = signedNonce[c] + 1
        BY <1>a, <1>b, <2>1, <3>1 DEF RelayAnswers, commitNonce, NonceOf
      <4> QED
        BY <2>1, <4>1 DEF Reserve, Spent, NextNonce
    <3>2. CASE Throw(c)
      <4>1. reservedNonce' = reservedNonce /\ pc[c] # "sent"
        BY <3>2 DEF Throw
      <4>2. \A d \in Calls : pc[d] # "sent"
        BY <2>2, <4>1 DEF Inside
      <4> QED
        BY <1>a, <1>b, <2>1, <4>1, <4>2 DEF Reserve, Spent, NextNonce
    <3> QED
      BY <1>5, <3>1, <3>2
  <2> QED
    BY <1>a, <1>b, <2>1, <2>3, <2>4 DEF Calm, InARow
<1>6. ASSUME NEW c \in Calls, Land(c, signedNonce[c]), UNCHANGED clientVars PROVE Calm'
  <2>1. /\ UNCHANGED <<pc, seen, signedNonce, reservedNonce>>
        /\ live # <<>> /\ c = Head(live) /\ live' = Tail(live)
    BY <1>6 DEF Land
  <2>2. /\ Len(live') = Len(live) - 1 /\ Len(live) >= 1 /\ c = live[1]
        /\ \A i \in 1 .. Len(live') : live'[i] = live[i + 1]
    BY <1>0, <2>1, Landed
  <2>3. calm /\ ~RevertsInTurn(c, signedNonce[c])
    BY <1>6 DEF Land, Applied, Mismatched, RevertsInTurn
  <2>4. onChain' = onChain + 1
    <3>1. 1 \in 1 .. Len(live)
      BY <1>0, <2>2
    <3>2. signedNonce[c] = onChain + 1 - 1
      BY <1>a, <1>b, <2>2, <2>3, <3>1 DEF InARow
    <3>3. signedNonce[c] = onChain
      BY <1>0, <3>2
    <3>4. ~Mismatched(c, signedNonce[c])
      BY <3>3 DEF Mismatched
    <3> QED
      BY <1>6, <2>3, <3>4 DEF Land, Applied
  <2>5. InARow'
    <3> SUFFICES ASSUME NEW i \in 1 .. Len(live')
                 PROVE  signedNonce'[live'[i]] = onChain' + i - 1
      BY DEF InARow
    <3>1. i + 1 \in 1 .. Len(live)
      BY <1>0, <2>2
    <3>2. signedNonce[live[i + 1]] = onChain + (i + 1) - 1
      BY <1>a, <1>b, <2>3, <3>1 DEF InARow
    <3> QED
      BY <1>0, <2>1, <2>2, <2>4, <3>2
  <2>6. NextNonce' = NextNonce
    BY <1>0, <2>2, <2>4 DEF NextNonce
  <2>7. Reserve'
    BY <1>a, <1>b, <2>1, <2>3, <2>6 DEF Reserve
  \* Somebody's action is on the way, so the reservation is beyond it.
  <2>8. \A d \in Calls : pc[d] = "read" => ~Spent'
    <3> SUFFICES ASSUME NEW d \in Calls, pc[d] = "read" PROVE ~Spent'
      OBVIOUS
    <3>1. \A e \in Calls : pc[e] # "sent"
      BY <1>0, <1>b, OneRuns DEF Inside
    <3>2. reservedNonce = NextNonce
      BY <1>0, <1>a, <1>b, <2>1, <2>3, <3>1 DEF Reserve
    <3>3. reservedNonce' \in Nat /\ onChain' \in Nat /\ reservedNonce' >= onChain'
      BY <1>0, <2>1, <2>2, <2>4, <3>2 DEF NextNonce
    <3> QED
      BY <3>3 DEF Spent
  <2>9. \A d \in Calls : NonceOf(d)'
    BY <1>a, <1>b, <2>1, <2>3, <2>6, <2>8 DEF NonceOf
  <2> QED
    BY <2>5, <2>7, <2>9 DEF Calm
<1>7. CASE (Tick /\ UNCHANGED clientVars) \/ UNCHANGED vars
  <2>1. UNCHANGED <<trouble, live, onChain, pc, seen, signedNonce, reservedNonce>>
    BY <1>7 DEF Tick, vars
  <2> QED
    BY <1>a, <1>b, <2>1 DEF Calm, InARow, Reserve, NonceOf, Spent, NextNonce
\* A reset between calls, with nothing on the way.
<1>8. CASE ManualReset
  <2>1. /\ UNCHANGED <<live, pc, onChain, seen, signedNonce>>
        /\ reservedNonce' = NoNonce
    BY <1>8 DEF ManualReset, resetNonce
  <2>5. (Resting /\ live = <<>>) \/ (Mended /\ calm)
    <3>1. \/ Resting /\ live = <<>>
          \/ Mended /\ trouble' = trouble
          \/ trouble' = trouble \cup {"beyond"}
      BY <1>8 DEF ManualReset
    <3>2. trouble' = {}
      BY DEF calm
    <3> QED
      BY <3>1, <3>2
  <2>2. CASE Resting /\ live = <<>>
    <3>1. \A d \in Calls : pc[d] \notin Inside
      BY <1>0, <2>2 DEF Resting, Inside
    <3>2. Len(<<>>) = 0
      OBVIOUS
    <3> QED
      BY <1>0, <2>1, <2>2, <3>1, <3>2 DEF Calm, InARow, Reserve, NonceOf, Spent, Inside
  \* The commit of the call that is sent brings the reservation back.
  <2>3. ASSUME calm, NEW c \in Calls, pc[c] = "sent" PROVE Calm'
    <3>1. \A d \in Calls : pc[d] \in Inside => d = c
      BY <1>0, <1>b, <2>3, OneRuns DEF Inside
    <3> QED
      BY <1>0, <1>a, <1>b, <2>1, <2>3, <3>1 DEF Calm, InARow, Reserve, NonceOf, Inside, NextNonce
  <2>4. ASSUME calm, live = <<>>, \A c \in Calls : pc[c] = "read" => InStep(c)
        PROVE  Calm'
    BY <1>0, <1>a, <1>b, <2>1, <2>4 DEF Calm, InARow, Reserve, NonceOf, NextNonce, Spent, InStep
  <2> QED
    BY <2>2, <2>3, <2>4, <2>5 DEF Mended
\* Whatever else happens ends the calm.
<1>9. ASSUME \/ \E c \in Calls : GiveUp(c) \/ ReplyLost(c) \/ BroadcastLate(c)
             \/ \E i \in DOMAIN live : Drop(i)
             \/ OtherDevice
      PROVE  FALSE
  BY <1>9 DEF GiveUp, ReplyLost, BroadcastLate, Drop, OtherDevice
<1> HIDE DEF worldVars, clientVars, calm
<1> QED
  BY <1>1, <1>2, <1>3, <1>4, <1>5, <1>6, <1>7, <1>8, <1>9 DEF Next

\* What lands while the client is in step has the account's nonce.
LEMMA NoneMismatches ==
    ASSUME ClientInv, [Next]_vars, calm, serial, NEW c \in Calls, fate'[c] = "mismatched"
    PROVE  fate[c] = "mismatched"
<1> USE DEF worldVars, clientVars
<1>1. /\ fate \in [Calls -> Fates] /\ live \in Seq(Calls)
      /\ onChain \in Nat /\ InARow
      /\ \A i \in 1 .. Len(live) : live[i] \in Calls
  BY ElementOfSeq DEF ClientInv, TypeOK, WorldTypeOK, Calm
<1>2. ASSUME NEW d \in Calls, Land(d, signedNonce[d])
      PROVE  fate[c] = "mismatched"
  <2>1. Len(live) >= 1 /\ d = live[1] /\ Len(live) \in Nat
    BY <1>1, <1>2, Landed DEF Land
  <2>2. signedNonce[d] = onChain
    BY <1>1, <2>1 DEF InARow
  <2> QED
    BY <1>1, <1>2, <2>2 DEF Land, Applied, Mismatched, RevertsInTurn
<1>3. ASSUME NEW d \in Calls, Deliver(d) \/ GiveUp(d) \/ BroadcastLate(d)
      PROVE  fate[c] = "mismatched"
  BY <1>1, <1>3 DEF Deliver, GiveUp, BroadcastLate, Broadcast
<1>4. ASSUME NEW i \in DOMAIN live, Drop(i) PROVE fate[c] = "mismatched"
  BY <1>1, <1>4 DEF Drop
<1>5. ASSUME NEW d \in Calls,
             \/ Call(d) \/ NodeAnswers(d) \/ reserveNonce(d) \/ Sign(d)
             \/ RelayAnswers(d) \/ Throw(d) \/ ReplyLost(d)
      PROVE  fate[c] = "mismatched"
  BY <1>5 DEF Call, NodeAnswers, reserveNonce, Sign, RelayAnswers, Throw, ReplyLost
<1>6. CASE ManualReset \/ OtherDevice \/ Tick \/ UNCHANGED vars
  BY <1>6 DEF ManualReset, OtherDevice, Tick, vars
<1> HIDE DEF worldVars, clientVars
<1> QED
  BY <1>2, <1>3, <1>4, <1>5, <1>6 DEF Next

-----------------------------------------------------------------------------
(* The theorems. *)

LEMMA ClientInit ==
    ASSUME Init
    PROVE  ClientInv
<1> USE DEF Init, WorldInit
<1>1. live = <<>> /\ live \in Seq(Calls) /\ Len(live) = 0
  BY EmptySeq
<1>2. TypeOK
  BY <1>1 DEF TypeOK, WorldTypeOK, Fates
<1>3. Structure
  BY <1>1 DEF Structure, Alone, Inside, OnTheWay, HeldIsDone, SeenBehind
<1>4. Calm
  BY <1>1 DEF Calm, InARow, Reserve, NonceOf, Spent
<1> QED
  BY <1>2, <1>3, <1>4 DEF ClientInv

LEMMA ClientInvariant == Spec => []ClientInv
<1>1. ClientInv /\ [Next]_vars => ClientInv'
  BY TypeStep, StructureStep, CalmStep DEF ClientInv
<1> QED
  BY ClientInit, <1>1, PTL DEF Spec

\* Every variable of the client keeps its type.
THEOREM ClientTypeCorrect == Spec => []TypeOK
<1>1. ClientInv => TypeOK
  BY DEF ClientInv
<1> QED
  BY <1>1, ClientInvariant, PTL

\* Calls made one after the other never make each other mismatch while the client
\* is in step: reserveNonce hands each of them the nonce after those on the way,
\* however late those land, and takes the chain's once the reservation is spent.
THEOREM SerialCallsAlwaysApplied == Spec => SerialCallsApplied
<1> DEFINE NoneNew ==
        \A c \in Calls : calm /\ serial /\ fate'[c] = "mismatched" => fate[c] = "mismatched"
<1>1. ASSUME ClientInv, [Next]_vars PROVE [NoneNew]_vars
  BY <1>1, NoneMismatches
<1> QED
  BY <1>1, ClientInvariant, PTL DEF Spec, SerialCallsApplied
=============================================================================
