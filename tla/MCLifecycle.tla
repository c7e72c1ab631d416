---------------------------- MODULE MCLifecycle ----------------------------
(* Instances of Lifecycle for TLC.                                           *)
EXTENDS Lifecycle, TLC

Symmetric == Permutations(Comps) \cup Permutations(Callers)
=============================================================================
