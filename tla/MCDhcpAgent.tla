----------------------------- MODULE MCDhcpAgent -----------------------------
(***************************************************************************)
(* Two networks, of which one may get a second subnet and has a port.      *)
(***************************************************************************)
EXTENDS DhcpAgent

CONSTANTS n1, n2, s1, s2, s3, p1

MCNetOf == [p \in Clients |-> n1]
MCSubnetOf == [p \in Clients |-> s1]
MCSubnetsOf == [n \in Networks |-> IF n = n1 THEN {s1, s2} ELSE {s3}]
=============================================================================
