------------------------ MODULE MCDashboardService ------------------------
(***************************************************************************)
(* Model checking DashboardService: its callers are alike, and so are the  *)
(* items of either kind.                                                   *)
(***************************************************************************)
EXTENDS DashboardService, TLC

DashboardSymmetry == Permutations(Callers) \cup Permutations(Registered)
===========================================================================
