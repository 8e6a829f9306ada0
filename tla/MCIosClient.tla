---------------------------- MODULE MCIosClient ----------------------------
(* Instances of IosClient for TLC. *)
EXTENDS IosClient, TLC

AnyOrder == Permutations(Calls)
=============================================================================
