--------------------------- MODULE AndroidClient ---------------------------
(***************************************************************************)
(* The Kotlin client, P256Account.kt: `execute`, `executeBatch` and        *)
(* `rotateOwner` all run their body in withReservedNonce, which holds      *)
(* nonceMutex from before the nonce is read until the relay has answered.  *)
(* A call is a coroutine: pc[c] is the suspension point it is at.          *)
(*                                                                         *)
(*   waiting   for the mutex                                               *)
(*   reading   nonce() is on its way to the node                           *)
(*   read      the node's answer is on its way back                        *)
(*   signing   in signer.sign, i.e. in front of the biometric prompt       *)
(*   sending   in relay.send, the action not broadcast yet                 *)
(*   sent      in relay.send, the action broadcast                         *)
(***************************************************************************)
EXTENDS ClientWorld

CONSTANTS NoCall, NoNonce

ASSUME ClientAssumption == NoCall \notin Calls /\ NoNonce \notin Nat

VARIABLES
    pc,              \* pc[c]: where the coroutine of call c is
    seen,            \* seen[c]: the nonce the node answered
    signedNonce,     \* signedNonce[c]: the nonce call c runs with
    holder,          \* who holds nonceMutex
    reservedNonce,
    reservedAt       \* reservedAtMillis

clientVars == <<pc, seen, signedNonce, holder, reservedNonce, reservedAt>>
vars == <<worldVars, clientVars>>

(* Variants with a planted mistake.  Nothing uses them but the mutation    *)
(* runs, which put one in the place of the definition it varies.           *)
NoMutex(c) == pc[c] = "waiting" /\ holder' = c
KeepsMutex == UNCHANGED holder
ResetToMinusOne ==
    /\ reservedNonce' = 0 - 1
    /\ reservedAt' = 0
ReservesBeforeSending(n) ==
    /\ reservedNonce' = n + 1
    /\ reservedAt' = now

-----------------------------------------------------------------------------
\* nonceMutex.withLock { ... }
Lock(c) ==
    /\ pc[c] = "waiting"
    /\ holder = NoCall
    /\ holder' = c

Unlock == holder' = NoCall

\* There is a reservation, and the chain call c saw has not overtaken it.
Standing(c) == reservedNonce # NoNonce /\ seen[c] <= reservedNonce

\* The reservation is older than the TTL.
Expired == now - reservedAt > TTL

ResetNonce ==
    /\ reservedNonce' = NoNonce
    /\ reservedAt' = 0

\* Nothing is on the way and the chain's answer is fresh: whoever starts from it
\* is in step.
InStep(c) == live = <<>> /\ seen[c] = onChain

Return(c) ==
    /\ pc' = [pc EXCEPT ![c] = "done"]
    /\ Unlock

-----------------------------------------------------------------------------
\* execute, executeBatch or rotateOwner is called.
Call(c) ==
    /\ pc[c] = "idle"
    /\ pc' = [pc EXCEPT ![c] = "waiting"]
    /\ UNCHANGED <<worldVars, seen, signedNonce, holder, reservedNonce,
                   reservedAt>>

Acquire(c) ==
    /\ Lock(c)
    /\ pc' = [pc EXCEPT ![c] = "reading"]
    /\ UNCHANGED <<worldVars, seen, signedNonce, reservedNonce, reservedAt>>

\* The node answers nonce() at `latest`.
NodeAnswers(c) ==
    /\ pc[c] = "reading"
    /\ seen' = [seen EXCEPT ![c] = onChain]
    /\ pc' = [pc EXCEPT ![c] = "read"]
    /\ UNCHANGED <<worldVars, signedNonce, holder, reservedNonce, reservedAt>>

\* withReservedNonce, from the nonce's arrival to the call of `block`.
TakeNonce(c) ==
    /\ pc[c] = "read"
    /\ LET take(n) == signedNonce' = [signedNonce EXCEPT ![c] = n]
       IN  \/ /\ ~Standing(c)
              /\ take(seen[c])
              /\ trouble' = IF InStep(c) THEN {} ELSE trouble
              /\ UNCHANGED <<reservedNonce, reservedAt>>
           \/ /\ Standing(c)
              /\ Expired
              /\ ResetNonce
              /\ take(seen[c])
              /\ trouble' = IF InStep(c) THEN {} ELSE trouble \cup {"beyond"}
           \/ /\ Standing(c)
              /\ ~Expired
              /\ take(reservedNonce)
              /\ UNCHANGED <<reservedNonce, reservedAt, trouble>>
    /\ pc' = [pc EXCEPT ![c] = "signing"]
    /\ seen' = [seen EXCEPT ![c] = 0]     \* which is not read again
    /\ UNCHANGED <<now, onChain, keyed, live, fate, foreign, holder>>

Sign(c) ==
    /\ pc[c] = "signing"
    /\ pc' = [pc EXCEPT ![c] = "sending"]
    /\ UNCHANGED <<worldVars, seen, signedNonce, holder, reservedNonce,
                   reservedAt>>

Deliver(c) ==
    /\ pc[c] = "sending"
    /\ Broadcast(c)
    /\ pc' = [pc EXCEPT ![c] = "sent"]
    /\ UNCHANGED <<now, onChain, keyed, foreign, trouble, seen, signedNonce, holder,
                   reservedNonce, reservedAt>>

\* The success path after `block`.
CommitNonce(n) ==
    /\ reservedNonce' = n + 1
    /\ reservedAt' = now

RelayAnswers(c) ==
    /\ pc[c] = "sent"
    /\ CommitNonce(signedNonce[c])
    /\ Return(c)
    /\ UNCHANGED <<worldVars, seen, signedNonce>>

\* What a `block` that throws does to the reservation.
AfterThrow(n) == UNCHANGED <<reservedNonce, reservedAt>>

\* The read fails, the user declines, or the relay refuses the action.
Throw(c) ==
    /\ pc[c] \in {"reading", "signing", "sending"}
    /\ AfterThrow(signedNonce[c])
    /\ Return(c)
    /\ UNCHANGED <<worldVars, seen, signedNonce>>

\* The relay has the action, but the call gives up before it is broadcast.
GiveUp(c) ==
    /\ pc[c] = "sending"
    /\ fate' = [fate EXCEPT ![c] = "held"]
    /\ AfterThrow(signedNonce[c])
    /\ Return(c)
    /\ trouble' = trouble \cup {"beyond"}
    /\ UNCHANGED <<now, onChain, keyed, live, foreign, seen, signedNonce>>

\* The relay broadcast the action, but its answer never arrives.
ReplyLost(c) ==
    /\ pc[c] = "sent"
    /\ AfterThrow(signedNonce[c])
    /\ Return(c)
    /\ trouble' = trouble \cup {"beyond"}
    /\ UNCHANGED <<now, onChain, keyed, live, fate, foreign, seen, signedNonce>>

\* What a reset forgets is made good: the call that is inside commits its nonce all
\* the same, or there is nothing to forget that the chain does not know.
Mended ==
    \/ \E c \in Calls : pc[c] = "sent"
    \/ live = <<>> /\ \A c \in Calls : pc[c] = "read" => InStep(c)

\* resetNonce, called by the app: it takes no lock.  Between calls, with nothing on
\* the way, it puts the client in step.
ManualReset ==
    /\ ResetNonce
    /\ \/ holder = NoCall /\ live = <<>> /\ trouble' = {}
       \/ holder # NoCall /\ Mended /\ UNCHANGED trouble
       \/ ~Mended /\ trouble' = trouble \cup {"beyond"}
    /\ UNCHANGED <<now, onChain, keyed, live, fate, foreign, pc, seen,
                   signedNonce, holder>>

-----------------------------------------------------------------------------
Init ==
    /\ WorldInit
    /\ pc = [c \in Calls |-> "idle"]
    /\ seen = [c \in Calls |-> 0]
    /\ signedNonce = [c \in Calls |-> 0]
    /\ holder = NoCall
    /\ reservedNonce = NoNonce
    /\ reservedAt = 0

\* What moves a call on once it was made.
Progress(c) ==
    \/ NodeAnswers(c)
    \/ TakeNonce(c)
    \/ Sign(c)
    \/ Deliver(c)
    \/ RelayAnswers(c)
    \/ Throw(c)
    \/ GiveUp(c)
    \/ ReplyLost(c)

Next ==
    \/ \E c \in Calls :
        \/ Call(c)
        \/ Acquire(c)
        \/ Progress(c)
        \/ BroadcastLate(c) /\ UNCHANGED clientVars
        \/ Land(c, signedNonce[c]) /\ UNCHANGED clientVars
    \/ \E i \in DOMAIN live : Drop(i) /\ UNCHANGED clientVars
    \/ ManualReset
    \/ OtherDevice /\ UNCHANGED clientVars
    \/ Tick /\ UNCHANGED clientVars

Spec == Init /\ [][Next]_vars

\* RPC, prompt and relay answer or time out, and the coroutine mutex is fair
\* to those that wait for it.
FairSpec ==
    /\ Spec
    /\ \A c \in Calls : WF_vars(Progress(c)) /\ SF_vars(Acquire(c))

-----------------------------------------------------------------------------
TypeOK ==
    /\ WorldTypeOK
    /\ pc \in [Calls -> {"idle", "waiting", "reading", "read", "signing", "sending",
                         "sent", "done"}]
    /\ seen \in [Calls -> Nat]
    /\ signedNonce \in [Calls -> Nat]
    /\ holder \in Calls \cup {NoCall}
    /\ reservedNonce \in Nat \cup {NoNonce}
    /\ reservedAt \in Nat

\* The reservation does its work: however calls overlap, and however late their
\* actions land, the account refuses none with NonceMismatch while the client is
\* in step.  After trouble it is in step again from the first call that starts from
\* the chain's nonce with nothing on the way.
CalmMeansApplied ==
    [][\A c \in Calls :
          calm /\ fate'[c] = "mismatched" => fate[c] = "mismatched"]_vars

\* A nonce ahead of the chain is never out of reach: while the client is in step,
\* all the nonces below it are taken by own actions that are on the way.
NonceReachable ==
    calm => \A c \in Calls :
        pc[c] \in {"signing", "sending", "sent"} =>
            \A n \in onChain .. signedNonce[c] - 1 :
                \E d \in ToSet(live) \ {c} : signedNonce[d] = n

\* No call holds the others up for ever: each returns or throws, and whatever it
\* does, the next in line gets the mutex.
EveryCallReturns == \A c \in Calls : pc[c] = "waiting" ~> pc[c] = "done"
=============================================================================
