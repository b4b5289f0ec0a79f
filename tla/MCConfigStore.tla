-------------------------- MODULE MCConfigStore --------------------------
(* Instances of ConfigStore for TLC. *)
EXTENDS ConfigStore, TLC

Symmetry == Permutations(Tasks)

\* TOML files that list no proxies, and files that may list one.
NoProxies == {{}}
SomeProxies == SUBSET Proxies
===========================================================================
