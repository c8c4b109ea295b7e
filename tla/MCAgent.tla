------------------------------ MODULE MCAgent -------------------------------
(***************************************************************************)
(* Agent.tla on small instances: the reconciler and one or two handlers.   *)
(***************************************************************************)
EXTENDS Agent
=============================================================================
