----------------------------- MODULE MCProvider -----------------------------
(* Instances of Provider for TLC: providers and contexts have no order.    *)
EXTENDS Provider, TLC

OwnerSymmetry == Permutations(Providers) \union Permutations(Contexts)
=============================================================================
