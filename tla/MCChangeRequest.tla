-------------------------- MODULE MCChangeRequest --------------------------
(* Users for ChangeRequest. *)
EXTENDS ChangeRequest

CONSTANTS requester, admin1, admin2
=============================================================================
