----------------------------- MODULE MCMsgPool ------------------------------
(* Buffers and owners are interchangeable. *)
EXTENDS MsgPool, TLC

Symmetry == Permutations(Buffers) \cup Permutations(Owners)
=============================================================================
