----------------------------- MODULE MCRuntime ------------------------------
(***************************************************************************)
(* ContainerRuntime.tla on small instances.                                *)
(***************************************************************************)
EXTENDS ContainerRuntime, TLC

\* Callers are interchangeable (safety runs only).
Symmetry == Permutations(Callers)
=============================================================================
