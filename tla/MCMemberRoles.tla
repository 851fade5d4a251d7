----------------------------- MODULE MCMemberRoles -----------------------------
(***************************************************************************)
(* Instances of MemberRoles for TLC: everyone begins with the role of SIG  *)
(* leaders, so that two clicks reach what would otherwise take four, and   *)
(* alumni manage members too, so that an officer who is not an admin has   *)
(* changes refused.                                                        *)
(***************************************************************************)
EXTENDS MemberRoles

MCGiven == {{"sig_leader"}, {"sig_leader", "admin"}}
================================================================================
