---------------------------- MODULE MCP256Account ----------------------------
(* Instances of P256Account for TLC. *)
EXTENDS P256AccountProperties

CONSTANTS h0   \* a challenge that is nobody's digest

ToWorld == [to |-> "ext", data |-> "swap"]
ToSelf(data) == [to |-> "self", data |-> data]

\* One account, reentrant callees, every kind of inner call.
OneCalls == {ToWorld, ToSelf("empty"), ToSelf("authorised")}
OneBatches ==
    {<<>>, <<ToWorld, ToWorld>>, <<ToSelf("empty"), ToWorld>>,
     <<ToWorld, ToWorld, ToWorld>>}
OneChallenges == {h0}

\* Two accounts under one key, challenged with an operation's digest.
TwoCalls == {ToWorld}
TwoBatches == {<<ToWorld, ToWorld>>}
TwoChallenges == {h0} \cup {ExecuteHash(a, ToWorld, 0) : a \in Accounts}
=============================================================================
