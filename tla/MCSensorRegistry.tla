-------------------------- MODULE MCSensorRegistry --------------------------
(* Instances of SensorRegistry for TLC.                                     *)
EXTENDS SensorRegistry, TLC

\* No definition names an organization, a host, a token, an identifier or a request.
RegistrySymmetry ==
    Permutations(Organizations) \union Permutations(Tokens)
        \union Permutations(Ids) \union Permutations(Machines) \union Permutations(Requests)
=============================================================================
