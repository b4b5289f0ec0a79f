-------------------------- MODULE MCFrpcProcess --------------------------
(* Instances of FrpcProcess for TLC. *)
EXTENDS FrpcProcess, TLC

Symmetry == Permutations(Pids) \cup Permutations(Callers)
===========================================================================
