------------------------- MODULE MCDeliveryRestore -------------------------
(* Instances of DeliveryRestore for TLC.                                    *)
EXTENDS DeliveryRestore, TLC

\* Commands and handlers are interchangeable: no definition names one.
RestoreSymmetry == Permutations(Handlers) \union Permutations(Commands)
============================================================================
