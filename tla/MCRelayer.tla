----------------------------- MODULE MCRelayer -----------------------------
(* Instances of Relayer for TLC. *)
EXTENDS RelayerProperties

Posts == Permutations(Requests)
=============================================================================
