------------------------------- MODULE RoleKeys --------------------------------
(***************************************************************************)
(* What the modules about roles share: the members, the keys of roles, and *)
(* a value that stands for null.                                           *)
(***************************************************************************)
CONSTANTS User,  \* members
          Role,  \* keys of roles
          None   \* nothing: no page, no copy, no request
================================================================================
