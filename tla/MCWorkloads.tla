---------------------------- MODULE MCWorkloads -----------------------------
(***************************************************************************)
(* Workloads.tla on small instances.                                       *)
(***************************************************************************)
EXTENDS Workloads, TLC

\* Requests for the same ports in different orders, for one port twice
\* (given as "" and as "tcp"), for one port, for none.
Ask(h, p) == [host |-> h, proto |-> p]

CrossedPorts ==
    {<< >>, <<Ask(1, "")>>, <<Ask(1, "tcp"), Ask(2, "tcp")>>,
     <<Ask(2, ""), Ask(1, "")>>, <<Ask(1, ""), Ask(1, "tcp")>>}

OnePort == {<< >>, <<Ask(1, ""), Ask(2, "tcp")>>}

\* Requests, names and nodes are interchangeable (safety runs only).
Symmetry == Permutations(Reqs) \cup Permutations(Names) \cup Permutations(Nodes)
=============================================================================
