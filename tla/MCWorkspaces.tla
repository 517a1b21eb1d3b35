---------------------------- MODULE MCWorkspaces ----------------------------
(***************************************************************************)
(* Workspaces on their own, for what the comments claim of the last        *)
(* administrator: two users with the same e-mail local part.               *)
(***************************************************************************)
EXTENDS Workspaces

CONSTANTS u1, u2

MCslugForWorkspace == [u \in Subs |-> "acme"]
=============================================================================
