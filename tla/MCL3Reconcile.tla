---------------------------- MODULE MCL3Reconcile ----------------------------
(***************************************************************************)
(* A router that gets another gateway port on the same external network,   *)
(* loses its gateway, its inside port or its route, or goes, and a second  *)
(* router that comes or goes.                                              *)
(***************************************************************************)
EXTENDS L3Reconcile

CONSTANTS
    r1, r2, g1, g1b, i1, i2, qg, qgb, qr,
    ext, int, ext6, hopX, hopI, hop6, out, out6,
    e1, e1b, e6, f1, f2, v1, mac, sub1, sub2, sub6

MCInJail == [i \in Ifs |-> IF i = i2 THEN r2 ELSE r1]
MCNameIn == [i \in Ifs |-> CASE i = g1 -> qg [] i = g1b -> qgb [] OTHER -> qr]
MCV6 == {ext6, hop6, out6, e6}
MCCanonical == [d \in {"default", out, out6} |-> IF d = "default" THEN DefaultRoute ELSE d]
MCCovers == [h \in NextHops |-> IF h = hopX THEN {ext} ELSE {int}]

External == {[id |-> sub1, cidr |-> ext, gateway_ip |-> hopX],
             [id |-> sub6, cidr |-> ext6, gateway_ip |-> hop6]}
Inside == {[id |-> sub2, cidr |-> int, gateway_ip |-> Null]}

PortBody(id, ips, subnets) ==
    [id |-> id, mac |-> mac, fixed_ips |-> ips, subnets |-> subnets]
Gateway(id, ip) ==
    PortBody(id, <<[ip |-> e6, subnet |-> sub6], [ip |-> ip, subnet |-> sub1]>>, External)
Interface(id) == PortBody(id, <<[ip |-> v1, subnet |-> sub2]>>, Inside)
Body(gw, interfaces, fips, extra) ==
    [gw_port |-> gw, interfaces |-> interfaces, floating_ips |-> fips, routes |-> extra,
     enable_snat |-> Null, gateway_snat |-> Null]

Fip == {[id |-> f1, floating |-> f1, fixed |-> v1], [id |-> f2, floating |-> f2, fixed |-> Null]}
Extra == {<<out, hopI>>, <<out6, hop6>>}

Bare(i) == Body(Null, {Interface(i)}, {}, {})
Answer(b1, b2) == [r \in Routers |-> IF r = r1 THEN b1 ELSE b2]

MCConfigs ==
    {Answer(Body(Gateway(g1, e1), {Interface(i1)}, Fip, Extra), Off),
     Answer(Body(Gateway(g1b, e1b), {}, Fip, {}), Off),
     Answer(Bare(i1), Off), Answer(Off, Bare(i2))}

MCAddresses ==
    UNION {UNION {{AddressOf(FromRpc(c[r]), p) : p \in Ports(FromRpc(c[r]))}
                     : r \in {x \in Routers : c[x] # Off}} : c \in MCConfigs}
=============================================================================
