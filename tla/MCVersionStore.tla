--------------------------- MODULE MCVersionStore ---------------------------
(* An instance of VersionStore for TLC. *)
EXTENDS VersionStore, TLC

Symmetry == Permutations(Ids) \cup Permutations(Tasks)
=============================================================================
