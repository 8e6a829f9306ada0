---------------------------- MODULE ClientWorld ----------------------------
(***************************************************************************)
(* What a mobile client of one account works against, the same for both    *)
(* SDKs: the account (its nonce, and whether its owner is the key the      *)
(* client signs with), a relay that broadcasts signed actions from one     *)
(* EOA, so that they land in the order they were sent, and a clock.        *)
(*                                                                         *)
(* An action lands whatever nonce it was signed for.  The account applies  *)
(* it, refuses it with NonceMismatch, or lets it revert in its turn: then  *)
(* the nonce is not consumed, and stays the account's.                     *)
(*                                                                         *)
(* `trouble` is a history variable: what has happened since the client     *)
(* was last in step with the chain that may make its next nonce the wrong  *)
(* one.  "reverted": an action of its own reverted in its turn.  "beyond": *)
(* something beyond the client: an action dropped, another device, an      *)
(* answer of the relay that was lost or came too late, a reset while calls *)
(* are running, or a reservation that expired although its action was only *)
(* late.  The client is in step again when it starts from the chain's      *)
(* nonce with nothing on the way.                                          *)
(***************************************************************************)
EXTENDS Naturals, Sequences, SequencesExt

CONSTANTS
    Calls,         \* calls of execute, executeBatch or rotateOwner, made once each
    TTL,           \* RESERVATION_TTL_MILLIS, defaultReservationTTL
    MaxTime,       \* bound: the clock stops here
    MaxForeign     \* bound: actions landed by other devices

ASSUME WorldAssumption ==
    /\ TTL \in Nat
    /\ MaxTime \in Nat
    /\ MaxForeign \in Nat

VARIABLES
    now,        \* the device's clock
    onChain,    \* the account's nonce
    keyed,      \* the account's owner is the key this client signs with
    live,       \* broadcast actions that have not landed, in order
    fate,       \* fate[c]: what became of the action of call c
    foreign,    \* how often another device got an action in
    trouble     \* what the client may be out of step by

worldVars == <<now, onChain, keyed, live, fate, foreign, trouble>>

Fates == {"unsent", "held", "live", "applied", "reverted", "mismatched", "dropped"}
Troubles == {"beyond", "reverted"}

\* The client is in step with the chain.
calm == trouble = {}

WorldInit ==
    /\ now = 0
    /\ onChain = 0
    /\ keyed = TRUE
    /\ live = <<>>
    /\ fate = [c \in Calls |-> "unsent"]
    /\ foreign = 0
    /\ trouble = {}

-----------------------------------------------------------------------------
(* The relay. *)

\* The relay broadcasts the action of call c.
Broadcast(c) ==
    /\ live' = Append(live, c)
    /\ fate' = [fate EXCEPT ![c] = "live"]

\* It does so after call c has given up on it.
BroadcastLate(c) ==
    /\ fate[c] = "held"
    /\ Broadcast(c)
    /\ trouble' = trouble \cup {"beyond"}
    /\ UNCHANGED <<now, onChain, keyed, foreign>>

\* The i-th action on the way is dropped or replaced.
Drop(i) ==
    /\ live' = RemoveAt(live, i)
    /\ fate' = [fate EXCEPT ![live[i]] = "dropped"]
    /\ trouble' = trouble \cup {"beyond"}
    /\ UNCHANGED <<now, onChain, keyed, foreign>>

-----------------------------------------------------------------------------
(* The account.  Whether c is an execute, a batch or a rotation shows when *)
(* its action lands.                                                       *)

\* The action takes its nonce; a rotation may put another key in charge.
Applied(c, n) ==
    /\ n = onChain
    /\ keyed
    /\ onChain' = onChain + 1
    /\ keyed' \in BOOLEAN
    /\ fate' = [fate EXCEPT ![c] = "applied"]
    /\ UNCHANGED trouble

\* The action is refused: NonceMismatch, the first thing that is looked at.
Mismatched(c, n) ==
    /\ n # onChain
    /\ fate' = [fate EXCEPT ![c] = "mismatched"]
    /\ UNCHANGED <<onChain, keyed, trouble>>

\* Its nonce is the account's, but the action reverts as a whole and leaves the
\* nonce as it is: a call of a batch failed, the transaction ran out of gas, or
\* the key that signed it is no longer the owner.
RevertsInTurn(c, n) ==
    /\ n = onChain
    /\ fate' = [fate EXCEPT ![c] = "reverted"]
    /\ trouble' = trouble \cup {"reverted"}
    /\ UNCHANGED <<onChain, keyed>>

\* The oldest broadcast action lands, signed for nonce n.
Land(c, n) ==
    /\ live # <<>>
    /\ c = Head(live)
    /\ live' = Tail(live)
    /\ Applied(c, n) \/ Mismatched(c, n) \/ RevertsInTurn(c, n)
    /\ UNCHANGED <<now, foreign>>

\* The owner's other device, or a second client instance, lands an action.
OtherDevice ==
    /\ foreign < MaxForeign
    /\ foreign' = foreign + 1
    /\ onChain' = onChain + 1
    /\ keyed' \in BOOLEAN
    /\ trouble' = trouble \cup {"beyond"}
    /\ UNCHANGED <<now, live, fate>>

Tick ==
    /\ now < MaxTime
    /\ now' = now + 1
    /\ UNCHANGED <<onChain, keyed, live, fate, foreign, trouble>>

WorldTypeOK ==
    /\ now \in Nat
    /\ onChain \in Nat
    /\ keyed \in BOOLEAN
    /\ live \in Seq(Calls)
    /\ fate \in [Calls -> Fates]
    /\ foreign \in Nat
    /\ trouble \subseteq Troubles
=============================================================================
