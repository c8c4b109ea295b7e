--------------------------- MODULE MCRegistration ---------------------------
(***************************************************************************)
(* Registration.tla on small instances: agents a1 and a2 are (mis)given    *)
(* the same node name, the common case of two machines with one hostname.  *)
(***************************************************************************)
EXTENDS Registration
CONSTANTS n1, n2, a3

MCNodeName == [a \in Agents |-> IF a = a3 THEN n2 ELSE n1]
=============================================================================
