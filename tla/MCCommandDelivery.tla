------------------------- MODULE MCCommandDelivery -------------------------
(* Instances of CommandDelivery for TLC.                                    *)
EXTENDS CommandDelivery, TLC

\* Handlers are interchangeable in every action and in every safety property.
HandlerSymmetry == Permutations(Handlers)

\* So are commands: none is named by any definition.
FullSymmetry == Permutations(Handlers) \union Permutations(Commands)
============================================================================
