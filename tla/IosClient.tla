----------------------------- MODULE IosClient -----------------------------
(***************************************************************************)
(* The Swift client, P256Account.swift: an actor with no lock.  An actor   *)
(* runs one task at a time, but at every await it takes up another, so two *)
(* calls of `execute`, `executeBatch` or `rotateOwner` interleave at the   *)
(* suspension points, which pc[c] names as in AndroidClient:               *)
(*                                                                         *)
(*   reading   nonce() is on its way to the node                           *)
(*   read      the node's answer is on its way back                        *)
(*   signing   in signer.sign                                              *)
(*   sending   in relay.send, the action not broadcast yet                 *)
(*   sent      in relay.send, the action broadcast                         *)
(*                                                                         *)
(* reserveNonce, from the answer to its return, and commitNonce run        *)
(* without suspension.                                                     *)
(***************************************************************************)
EXTENDS ClientWorld

CONSTANT NoNonce

ASSUME ClientAssumption == NoNonce \notin Nat

VARIABLES
    pc,              \* pc[c]: where the task of call c is
    seen,            \* seen[c]: the nonce the node answered
    signedNonce,     \* signedNonce[c]: the nonce call c runs with
    reservedNonce,
    reservedAt,
    serial           \* no call was made while another was running

clientVars == <<pc, seen, signedNonce, reservedNonce, reservedAt, serial>>
vars == <<worldVars, clientVars>>

(* Variants with a planted mistake.  Nothing uses them but the mutation    *)
(* runs, which put one in the place of the definition it varies.           *)
ReservationForgotten(n) == UNCHANGED <<reservedNonce, reservedAt>>
ResetToMinusOne ==
    /\ reservedNonce' = 0 - 1
    /\ reservedAt' = 0

-----------------------------------------------------------------------------
Standing(c) == reservedNonce # NoNonce /\ seen[c] <= reservedNonce

Expired == now - reservedAt > TTL

resetNonce ==
    /\ reservedNonce' = NoNonce
    /\ reservedAt' = 0

\* Nothing is on the way and the chain's answer is fresh: whoever starts from it
\* is in step.
InStep(c) == live = <<>> /\ seen[c] = onChain

Return(c) ==
    /\ pc' = [pc EXCEPT ![c] = "done"]

-----------------------------------------------------------------------------
\* execute, executeBatch or rotateOwner is called, and asks for the nonce.
Call(c) ==
    /\ pc[c] = "idle"
    /\ pc' = [pc EXCEPT ![c] = "reading"]
    /\ serial' = (serial /\ \A d \in Calls : pc[d] \in {"idle", "done"})
    /\ UNCHANGED <<worldVars, seen, signedNonce, reservedNonce, reservedAt>>

NodeAnswers(c) ==
    /\ pc[c] = "reading"
    /\ seen' = [seen EXCEPT ![c] = onChain]
    /\ pc' = [pc EXCEPT ![c] = "read"]
    /\ UNCHANGED <<worldVars, signedNonce, reservedNonce, reservedAt,
                   serial>>

\* The rest of reserveNonce.
reserveNonce(c) ==
    /\ pc[c] = "read"
    /\ LET take(n) == signedNonce' = [signedNonce EXCEPT ![c] = n]
       IN  \/ /\ ~Standing(c)
              /\ take(seen[c])
              /\ trouble' = IF InStep(c) THEN {} ELSE trouble
              /\ UNCHANGED <<reservedNonce, reservedAt>>
           \/ /\ Standing(c)
              /\ Expired
              /\ resetNonce
              /\ take(seen[c])
              /\ trouble' = IF InStep(c) THEN {} ELSE trouble \cup {"beyond"}
           \/ /\ Standing(c)
              /\ ~Expired
              /\ take(reservedNonce)
              /\ UNCHANGED <<reservedNonce, reservedAt, trouble>>
    /\ pc' = [pc EXCEPT ![c] = "signing"]
    /\ seen' = [seen EXCEPT ![c] = 0]     \* which is not read again
    /\ UNCHANGED <<now, onChain, keyed, live, fate, foreign, serial>>

Sign(c) ==
    /\ pc[c] = "signing"
    /\ pc' = [pc EXCEPT ![c] = "sending"]
    /\ UNCHANGED <<worldVars, seen, signedNonce, reservedNonce, reservedAt,
                   serial>>

Deliver(c) ==
    /\ pc[c] = "sending"
    /\ Broadcast(c)
    /\ pc' = [pc EXCEPT ![c] = "sent"]
    /\ UNCHANGED <<now, onChain, keyed, foreign, trouble, seen, signedNonce,
                   reservedNonce, reservedAt, serial>>

\* What the reservation was meanwhile makes no difference to commitNonce.
commitNonce(n) ==
    /\ reservedNonce' = n + 1
    /\ reservedAt' = now

RelayAnswers(c) ==
    /\ pc[c] = "sent"
    /\ commitNonce(signedNonce[c])
    /\ Return(c)
    /\ UNCHANGED <<worldVars, seen, signedNonce, serial>>

\* The read fails, the user declines, or the relay refuses the action.
Throw(c) ==
    /\ pc[c] \in {"reading", "signing", "sending"}
    /\ Return(c)
    /\ UNCHANGED <<worldVars, seen, signedNonce, reservedNonce, reservedAt,
                   serial>>

\* The relay has the action, but the call gives up before it is broadcast.
GiveUp(c) ==
    /\ pc[c] = "sending"
    /\ fate' = [fate EXCEPT ![c] = "held"]
    /\ Return(c)
    /\ trouble' = trouble \cup {"beyond"}
    /\ UNCHANGED <<now, onChain, keyed, live, foreign, seen, signedNonce,
                   reservedNonce, reservedAt, serial>>

\* The relay broadcast the action, but its answer never arrives.
ReplyLost(c) ==
    /\ pc[c] = "sent"
    /\ Return(c)
    /\ trouble' = trouble \cup {"beyond"}
    /\ UNCHANGED <<now, onChain, keyed, live, fate, foreign, seen, signedNonce,
                   reservedNonce, reservedAt, serial>>

Resting == \A c \in Calls : pc[c] \in {"idle", "done"}

\* What a reset forgets is made good: a call commits its nonce all the same, or
\* there is nothing to forget that the chain does not know.
Mended ==
    \/ \E c \in Calls : pc[c] = "sent"
    \/ live = <<>> /\ \A c \in Calls : pc[c] = "read" => InStep(c)

\* resetNonce, called by the app.  Between calls, with nothing on the way, it puts
\* the client in step.
ManualReset ==
    /\ resetNonce
    /\ \/ Resting /\ live = <<>> /\ trouble' = {}
       \/ ~Resting /\ Mended /\ UNCHANGED trouble
       \/ ~Mended /\ trouble' = trouble \cup {"beyond"}
    /\ UNCHANGED <<now, onChain, keyed, live, fate, foreign, pc, seen,
                   signedNonce, serial>>

-----------------------------------------------------------------------------
Init ==
    /\ WorldInit
    /\ pc = [c \in Calls |-> "idle"]
    /\ seen = [c \in Calls |-> 0]
    /\ signedNonce = [c \in Calls |-> 0]
    /\ reservedNonce = NoNonce
    /\ reservedAt = 0
    /\ serial = TRUE

Next ==
    \/ \E c \in Calls :
        \/ Call(c)
        \/ NodeAnswers(c)
        \/ reserveNonce(c)
        \/ Sign(c)
        \/ Deliver(c)
        \/ RelayAnswers(c)
        \/ Throw(c)
        \/ GiveUp(c)
        \/ ReplyLost(c)
        \/ BroadcastLate(c) /\ UNCHANGED clientVars
        \/ Land(c, signedNonce[c]) /\ UNCHANGED clientVars
    \/ \E i \in DOMAIN live : Drop(i) /\ UNCHANGED clientVars
    \/ ManualReset
    \/ OtherDevice /\ UNCHANGED clientVars
    \/ Tick /\ UNCHANGED clientVars

Spec == Init /\ [][Next]_vars

-----------------------------------------------------------------------------
TypeOK ==
    /\ WorldTypeOK
    /\ pc \in [Calls -> {"idle", "reading", "read", "signing", "sending", "sent",
                         "done"}]
    /\ seen \in [Calls -> Nat]
    /\ signedNonce \in [Calls -> Nat]
    /\ reservedNonce \in Nat \cup {NoNonce}
    /\ reservedAt \in Nat
    /\ serial \in BOOLEAN

\* Calls made one after the other never collide while the client is in step,
\* however late their actions land: rotateOwner counts on what execute reserved
\* and the other way round, and after trouble the first call that starts from the
\* chain's nonce with nothing on the way puts the client in step again.
SerialCallsApplied ==
    [][\A c \in Calls :
          calm /\ serial /\ fate'[c] = "mismatched" => fate[c] = "mismatched"]_vars

-----------------------------------------------------------------------------
\* The class comment: "Without actor isolation two concurrent `execute` calls
\* interleave across that await and take the same nonce", so with it they are
\* taken not to: calls may overlap, and none is refused with NonceMismatch while
\* the client is in step.
OverlappingCallsApplied ==
    [][\A c \in Calls :
          calm /\ fate'[c] = "mismatched" => fate[c] = "mismatched"]_vars
=============================================================================
