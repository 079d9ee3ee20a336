--------------------------- MODULE MCDhcpReconcile ---------------------------
(***************************************************************************)
(* Two networks, of which n1 may get another dhcp port; a service that     *)
(* changes its reservations, its command line or its port, or goes.        *)
(***************************************************************************)
EXTENDS DhcpReconcile

CONSTANTS n1, n2, p1, p1b, p2, a1, a2, c1, c2, g1, g2, dhcp0

MCInJail == [i \in Ifs |-> IF i = p2 THEN n2 ELSE n1]
MCNameIn == [i \in Ifs |-> dhcp0]

Serve(port, hosts, opts, args, a) ==
    [port |-> port, files |-> [f \in Files |-> IF f = "hosts" THEN hosts ELSE opts],
     args |-> args, addr |-> a]
Ask(s1, s2) == [n \in Nets |-> IF n = n1 THEN s1 ELSE s2]

MCConfigs ==
    {Ask(Serve(p1, c1, c1, g1, a1), Serve(p2, c1, c1, g1, a1)),
     Ask(Serve(p1, c1, c2, g1, a2), Off),
     Ask(Serve(p1, c2, c1, g2, a1), Serve(p2, c2, c1, g1, a1)),
     Ask(Serve(p1b, c1, c1, g1, a1), Off)}
=============================================================================
