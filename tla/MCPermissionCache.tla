--------------------------- MODULE MCPermissionCache ---------------------------
(***************************************************************************)
(* Instances of PermissionCache for TLC.                                   *)
(***************************************************************************)
EXTENDS PermissionCache, TLC

\* Of what the roles page asks for, the grant that is protected and the one that
\* is not.  An officer who is granted roles.manage could only edit what an
\* administrator edits here.
MCToggled == {<<"admin", "roles.manage">>, <<"admin", "roles.read">>}

MCRolesOf == [u \in User |-> IF u = "ada" THEN {"admin"} ELSE {"officer"}]

Symmetry == Permutations(Replica)
================================================================================
