---------------------------- MODULE MCDashboard -----------------------------
(***************************************************************************)
(* Dashboard.tla with rounds that may take longer than the interval, the   *)
(* smallest timeout that TimingAssumption allows, and two polls at a time. *)
(***************************************************************************)
EXTENDS Dashboard
=============================================================================
