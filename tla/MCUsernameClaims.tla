--------------------------- MODULE MCUsernameClaims ----------------------------
(***************************************************************************)
(* Instances of UsernameClaims for TLC.                                    *)
(***************************************************************************)
EXTENDS UsernameClaims, TLC

Symmetry == Permutations(Signup) \cup Permutations(User)
              \cup Permutations(Name) \cup Permutations(Handler)
===============================================================================
