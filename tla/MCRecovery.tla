----------------------------- MODULE MCRecovery -----------------------------
(* Instances of Recovery for TLC.                                           *)
EXTENDS Recovery

\* Mutations, calls and replicas are interchangeable in the safety properties.
RequestSymmetry ==
    Permutations(Writes) \union Permutations(Calls) \union Permutations(Replicas)
=============================================================================
