---------------------------- MODULE MCPortConfig ----------------------------
(* Rules alone and in pairs on one port, and pairs of ports on every kind of *)
(* segment and of every kind of owner.                                       *)
EXTENDS PortConfig

CONSTANTS addr, addr2, own6, peer, mate, mate6, far, any, broadcast, null

MCV6 == {own6, mate6}
MCAddressesIn == [net4 |-> {peer}, net6 |-> {mate6}]

Rule(dir, ether, proto, lo, hi, remote) ==
    [direction |-> dir, ethertype |-> ether, protocol |-> proto, min |-> lo, max |-> hi,
     prefix |-> IF remote \in {"net4", "net6"} THEN remote ELSE null,
     group |-> IF remote \in {"g1", "g2"} THEN remote ELSE null]

Directions == {"ingress", "egress"}

Rules ==
    {Rule(d, "IPv4", proto, null, null, r) :
        d \in Directions, proto \in {null, "icmp", "sctp"}, r \in {"all", "net4", "g2"}}
      \cup {Rule(d, "IPv4", proto, ports[1], ports[2], r) :
            d \in Directions, proto \in {"tcp", "udp"},
            ports \in {<<null, null>>, <<22, null>>, <<22, 23>>}, r \in {"all", "net4", "g2"}}
      \cup {Rule(d, "IPv6", proto, null, null, r) :
            d \in Directions, proto \in {null, "ipv6-icmp", "tcp"}, r \in {"all", "net6", "g2"}}

\* Echo requests, their replies, and a type with a code.
Typed == {Rule("ingress", "IPv4", "icmp", t[1], t[2], "all") : t \in {<<8, null>>, <<0, null>>, <<8, 0>>, <<3, 4>>}}

Port(id, owner, net, security, ips) ==
    [id |-> id, owner |-> owner, network_type |-> net[1], physical_network |-> net[2],
     segmentation_id |-> net[3], network_id |-> net[4], mac |-> IF ips = <<>> THEN null ELSE "mac",
     fixed_ips |-> ips, security |-> security, groups |-> {"g1"}]

Nets == {<<"vlan", "phys1", 100, "A">>, <<"vlan", "phys1", 200, "B">>, <<"vlan", "phys2", 100, "C">>,
         <<"flat", "phys1", null, "D">>, <<"flat", "phys3", null, "E">>,
         <<"local", null, null, "F">>, <<"local", null, null, "G">>}

Tenant(security, ips) == {Port("p1", "compute:nova", <<"vlan", "phys1", 100, "A">>, security, ips)}

Request(ports, rules1, rules2) ==
    [ports |-> ports, rules |-> [g1 |-> rules1, g2 |-> rules2],
     members |-> [g1 |-> {addr}, g2 |-> {mate, mate6}],
     mappings |-> [phys1 |-> "em0", phys2 |-> "em1"]]

MCRequests ==
    {Request(Tenant(TRUE, <<own6, addr, addr2>>), {r, s}, {}) : r, s \in Rules}
      \cup {Request(Tenant(TRUE, ips), {r}, {Rule(d, "IPv4", null, null, null, "all")}) :
            r \in Rules \cup Typed, d \in Directions, ips \in {<<>>, <<own6>>}}
      \cup {Request(Tenant(TRUE, <<addr>>), {r}, {}) : r \in Typed}
      \cup {Request({Port("p1", o[1], n[1], s[1], <<addr>>), Port("p2", o[2], n[2], s[2], <<mate>>)},
                    {Rule("ingress", "IPv4", "tcp", 22, 22, "g2")}, {}) :
            n \in Nets \X Nets,
            o \in {"compute:nova", "network:dhcp", "network:router_interface_distributed"} \X {"compute:nova", "network:router_gateway"},
            s \in BOOLEAN \X BOOLEAN}

MCPackets ==
    {x \in [dir : {"in", "out"}, family : {"IPv4"}, proto : {"tcp", "udp", "icmp"}, port : {22, 23, 24, 67, 68},
            own : {addr, addr2, any}, peer : {peer, mate, far, broadcast}] :
        /\ x.proto = "icmp" => x.port = 24
        /\ x.proto = "tcp" => x.port < 60
        /\ x.own = any => x.dir = "out"
        /\ x.peer = broadcast => x.dir = "out"}
      \cup {x \in [dir : {"in", "out"}, family : {"IPv6"}, proto : {"tcp", "icmp6"}, port : {22},
                   own : {own6}, peer : {mate6, far}] : TRUE}
=============================================================================
