-------------------------------- MODULE Router --------------------------------
(***************************************************************************)
(* What the l3 agent makes of one entry of the server's answer to          *)
(* sync_routers (l3_agent/router.py): the spec of a router, and from it    *)
(* the addresses, the routes and the translations its jail must have.      *)
(*                                                                         *)
(* The code sorts interfaces, floating ips and routes, so that the order   *)
(* in which the server lists them does not show: they are sets here.  The  *)
(* fixed ips of a port keep the server's order, which picks the address    *)
(* that snat uses and the subnet whose gateway is the next hop.  A port    *)
(* stands for its id and for the interface names made from it.             *)
(***************************************************************************)
EXTENDS Sequences

CONSTANTS
    V6,             \* the addresses, prefixes and destinations written with a colon
    Null,           \* an attribute that is missing or None
    Canonical,      \* destinations as the server and netstat spell them, made canonical
    DefaultRoute,
    Single          \* the prefix length of a floating ip, 32

-----------------------------------------------------------------------------
(* port_from_rpc                                                            *)

SubnetOf(p, fixed) == CHOOSE s \in p.subnets : s.id = fixed.subnet

UsedIps(p) ==
    SelectSeq(p.fixed_ips, LAMBDA f : f.ip \notin V6 /\ \E s \in p.subnets : s.id = f.subnet)

\* The gateway of the first used subnet that has one.
GatewayIp(p) ==
    LET gateways == [k \in DOMAIN UsedIps(p) |-> SubnetOf(p, UsedIps(p)[k]).gateway_ip]
        given == SelectSeq(gateways, LAMBDA g : g # Null)
    IN  IF given = <<>> THEN Null ELSE Head(given)

\* The prefix of an address stands for its length.
PortFromRpc(p) ==
    IF p = Null \/ UsedIps(p) = <<>> THEN Null
    ELSE [id |-> p.id, mac |-> p.mac,
          ips |-> [k \in DOMAIN UsedIps(p) |->
                      <<UsedIps(p)[k].ip, SubnetOf(p, UsedIps(p)[k]).cidr>>],
          cidrs |-> {s.cidr : s \in p.subnets} \ V6,
          gateway_ip |-> GatewayIp(p)]

-----------------------------------------------------------------------------
(* from_rpc                                                                 *)

FloatingIps(body) ==
    {f \in body.floating_ips : f.fixed # Null /\ f.floating \notin V6}

ExtraRoutes(body) ==
    {<<Canonical[r[1]], r[2]>> : r \in {x \in body.routes : {x[1], x[2]} \cap V6 = {}}}

\* The router's own flag, else that of its gateway, else snat.  Null is a key that is
\* missing; the server sends no flag without a value.
EnableSnat(body) ==
    CASE body.enable_snat # Null    -> body.enable_snat
      [] body.gateway_snat # Null   -> body.gateway_snat
      [] OTHER                      -> TRUE

FromRpc(body) ==
    [gateway |-> PortFromRpc(body.gw_port),
     interfaces |-> {PortFromRpc(p) : p \in body.interfaces} \ {Null},
     floating_ips |-> FloatingIps(body),
     routes |-> ExtraRoutes(body),
     enable_snat |-> EnableSnat(body)]

-----------------------------------------------------------------------------
(* The spec's properties                                                    *)

GatewayPort(r) == IF r.gateway = Null THEN {} ELSE {r.gateway}
Ports(r) == GatewayPort(r) \cup r.interfaces

InetsOf(p) == {p.ips[k] : k \in DOMAIN p.ips}

\* The gateway port answers for every floating ip.
AddressOf(r, p) ==
    [mac |-> p.mac,
     inets |-> InetsOf(p) \cup (IF p \in GatewayPort(r)
                                  THEN {<<f.floating, Single>> : f \in r.floating_ips}
                                  ELSE {})]

Routes(r) ==
    r.routes \cup {<<DefaultRoute, p.gateway_ip>> : p \in {q \in GatewayPort(r) : q.gateway_ip # Null}}

Internal(r) == UNION {p.cidrs : p \in r.interfaces}

\* The rules, and the hash made of them.  All are on the gateway's interface.
PfText(r) ==
    IF r.gateway = Null THEN [on |-> Null, binat |-> {}, nat |-> Null]
    ELSE [on |-> r.gateway.id,
          binat |-> {<<f.fixed, f.floating>> : f \in r.floating_ips},
          nat |-> IF r.enable_snat /\ Internal(r) # {}
                    THEN <<Internal(r), r.gateway.ips[1][1]>> ELSE Null]
=============================================================================
