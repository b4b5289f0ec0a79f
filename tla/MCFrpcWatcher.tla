-------------------------- MODULE MCFrpcWatcher --------------------------
(* Instances of FrpcWatcher for TLC. *)
EXTENDS FrpcWatcher, TLC
===========================================================================
