---------------------------- MODULE MCMemberIdentity ---------------------------
(***************************************************************************)
(* Instances of MemberIdentity for TLC: one member is new, another has     *)
(* been here.                                                              *)
(***************************************************************************)
EXTENDS MemberIdentity, TLC

CONSTANTS ann, bob, ann0, bob0

MCSignupName == [m \in Member |-> IF m = ann THEN ann0 ELSE bob0]

Symmetry == Permutations(Handler) \cup Permutations(Name \ {ann0, bob0})
================================================================================
