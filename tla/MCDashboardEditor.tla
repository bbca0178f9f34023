-------------------------- MODULE MCDashboardEditor --------------------------
(* The dashboard editor on a small instance.                                 *)
EXTENDS DashboardEditor
=============================================================================
