------------------------- MODULE MCDashboardClient -------------------------
(* DashboardClient for TLC. *)
EXTENDS DashboardClient
=============================================================================
