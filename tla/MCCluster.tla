----------------------------- MODULE MCCluster ------------------------------
(***************************************************************************)
(* Cluster.tla on two nodes: of the requests, a1 and b1 want one host port *)
(* of n1, a1 and a2 one name, b1 and bad one name, and wrong is refused by *)
(* ambudctl, so at most two workloads come to exist.                       *)
(***************************************************************************)
EXTENDS Cluster

CONSTANTS a1, b1, bad, a2, wrong, a, b, n1, n2

Ask(client, w, n, ports) == [client |-> client, name |-> w, node |-> n, ports |-> ports]
Typed(h, c, p) == [host |-> h, container |-> c, proto |-> p]

Requested ==
    [r \in {a1, b1, bad, a2, wrong} |->
        CASE r = a1 -> Ask("ambudctl", a, n1, {Typed(8080, 80, "TCP")})
          [] r = b1 -> Ask("other", b, n1, {Typed(8080, 80, "")})
          [] r = bad -> Ask("ambudctl", b, n1, {Typed(8080, 80, "udp")})
          [] r = a2 -> Ask("ambudctl", a, n2, {Typed(8080, 80, NoProto)})
          [] r = wrong -> Ask("ambudctl", b, n2, {Typed(8080, 0, "tcp")})]

\* A container of the local API forwards the host port that a1 and b1 want.
SamePort == {{Typed(8080, 81, "tcp")}}
=============================================================================
