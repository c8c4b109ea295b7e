------------------------------ MODULE PortSpec ------------------------------
(***************************************************************************)
(* The conversions a port mapping goes through between the operator and    *)
(* the network: ambudctl parses what was typed, the API decodes what a     *)
(* client sends, the store gives a missing protocol its default, and so    *)
(* does the network set-up.  The copies between the wire, store and runtime *)
(* types change nothing.                                                   *)
(***************************************************************************)
EXTENDS Integers

\* A typed number that strconv.ParseUint refuses, or a missing part.
NotANumber == -1

\* No "/protocol" was typed; "" is one that is empty.
NoProto == "none"

\* strings.ToLower on the protocols that matter.
Lower(t) == CASE t = "TCP" -> "tcp" [] t = "UDP" -> "udp" [] OTHER -> t

\* The largest uint16.
MaxPort == 65535

\* parsePortNumber accepts n.
ParsePortNumber(n) == n \in 1..MaxPort

\* parsePortSpec, on what it accepts.
ParsePortSpec(s) == [s EXCEPT !.proto = IF @ = NoProto THEN "tcp" ELSE Lower(@)]

\* parsePortSpec returns no error.
Accepts(s) ==
    /\ ParsePortSpec(s).proto \in {"tcp", "udp"}
    /\ ParsePortNumber(s.host) /\ ParsePortNumber(s.container)

\* The API decodes a port of any other client: two uint16, any protocol.
Decodes(s) == s.host \in 0..MaxPort /\ s.container \in 0..MaxPort

\* Mutant of Normalise: the protocol is stored as it was given.
AsGiven(p) == p

\* CreateWorkload stores "tcp" for a port without a protocol.
Normalise(p) == [p EXCEPT !.proto = IF @ = "" THEN "tcp" ELSE @]

\* network.setup does the same for a port a container is run with.
Setup(p) == [p EXCEPT !.proto = IF @ = "" THEN "tcp" ELSE @]
=============================================================================
