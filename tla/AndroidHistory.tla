--------------------------- MODULE AndroidHistory ---------------------------
(***************************************************************************)
(* The Kotlin client with one thing remembered that the code does not      *)
(* keep, to check what its comments say of the reservation over time.      *)
(***************************************************************************)
EXTENDS AndroidClient

VARIABLE
    stillSince   \* when the chain last moved, or the client last relayed an
                 \* action whose nonce it had not from the reservation

hVars == <<vars, stillSince>>

HInit == Init /\ stillSince = 0

FromChain(c) == RelayAnswers(c) /\ signedNonce[c] # reservedNonce

HNext ==
    /\ Next
    /\ stillSince' = IF onChain' # onChain \/ \E c \in Calls : FromChain(c)
                     THEN now ELSE stillSince

HSpec == HInit /\ [][HNext]_hVars

-----------------------------------------------------------------------------
\* "How long a local nonce reservation survives without the chain catching up",
\* and "Without this the client would sign an unreachable nonce forever": with
\* nothing on the way, a call goes ahead of the chain at most TTL after the chain
\* last moved.  But every relayed action renews reservedAt, a dead one too.
FallbackAfterTTL ==
    [][\A c \in Calls :
          TakeNonce(c) /\ live = <<>> /\ signedNonce'[c] # seen[c]
             => now - stillSince <= TTL]_hVars
=============================================================================
