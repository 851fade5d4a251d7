--------------------------- MODULE MCManualDelivery ----------------------------
(***************************************************************************)
(* Instances of ManualDelivery for TLC.                                    *)
(***************************************************************************)
EXTENDS ManualDelivery, TLC

Symmetry == Permutations(Handler)
===============================================================================
