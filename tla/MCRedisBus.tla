----------------------------- MODULE MCRedisBus -----------------------------
(* Small instances of RedisBus for TLC. *)
EXTENDS RedisBus, TLC

Symmetry == Permutations(Consumers)
=============================================================================
