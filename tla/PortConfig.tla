------------------------------ MODULE PortConfig ------------------------------
(***************************************************************************)
(* How the l2 agent turns the server's port details and security groups    *)
(* into the desired configuration (l2_agent/port_config.py), which checks  *)
(* of l2_agent/model.py that passes, the pf rules made from it             *)
(* (l2_agent/pf.py: render), and which segments the mechanism driver       *)
(* binds on the strength of it (mech.py).                                  *)
(*                                                                         *)
(* All of it is calculation: a behavior picks a request and builds it.     *)
(* Names are pairs of a kind and what they are cut or hashed from.  The    *)
(* code sorts the rules of a filter, whose order cannot matter as all pass *)
(* and all are quick: they are a set here.  Where order matters, between   *)
(* the locks, the rules and the denying tail, an anchor is a sequence.     *)
(***************************************************************************)
EXTENDS Integers, Sequences, FiniteSets

CONSTANTS
    Requests,           \* what the server may answer, see Request
    V6,                 \* addresses and prefixes with a colon
    AddressesIn,        \* the addresses each prefix has
    Any, Broadcast,     \* 0.0.0.0 and 255.255.255.255
    Null,               \* an attribute that is missing or None
    Packets             \* first packets of a connection

VARIABLES request, result

vars == <<request, result>>

\* Ports: id, owner, network_type, physical_network, segmentation_id, network_id, mac,
\* fixed_ips, security (port_security_enabled), groups.  Rules: direction, ethertype,
\* protocol, min, max, prefix, group.  Packets, as the workload sees them: dir, family,
\* proto, port (where it goes), own and peer (the addresses).

-----------------------------------------------------------------------------
(* Ways the builder could have been written wrong; none is used.            *)

OwnDirection(dir) == dir
OnlyFirst(r) == IF r.min = Null THEN Null ELSE <<r.min, r.min>>
NoTable(req) == {}
NameByVlan(p) == <<p.network_type, p.segmentation_id>>
LockOnly(iface, bind) ==
    IF bind = Null THEN <<>>
    ELSE <<{[action |-> "block", dir |-> "in", family |-> "IPv4", proto |-> Null,
             from |-> [no |-> bind], to |-> Null, port |-> Null]}>>

-----------------------------------------------------------------------------
(* Names (names.py).                                                        *)

BridgeName(p) ==
    CASE p.network_type = "vlan" -> <<"vlan", p.physical_network, p.segmentation_id>>
      [] p.network_type = "flat" -> <<"flat", p.physical_network>>
      [] OTHER -> <<p.network_type,
                    IF p.segmentation_id \in {Null, 0} THEN p.network_id ELSE p.segmentation_id>>

\* The owners that start with a key of SERVICE_IF_NAME.
ServiceOwners == {"network:dhcp", "network:router_interface", "network:router_gateway",
                  "network:router_interface_distributed"}
IsService(p) == p.owner \in ServiceOwners

InterfaceName(p) ==
    CASE p.owner = "network:dhcp" -> <<"dh", p.id>>
      [] IsService(p) /\ p.owner # "network:dhcp" -> <<"rt", p.id>>
      [] OTHER -> <<"tap", p.id>>

-----------------------------------------------------------------------------
(* One security group rule (sg_rules_for_port).                             *)

Proto ==
    [name \in {"tcp", "udp", "icmp", "ipv6-icmp", "icmpv6", "icmp6"} |->
        IF name \in {"tcp", "udp", "icmp"} THEN name ELSE "icmp6"]

\* Rules pf cannot express are skipped.
Expressible(r) ==
    /\ r.protocol \in {Null} \cup DOMAIN Proto
    /\ r.ethertype = "IPv6" => r.protocol = Null \/ Proto[r.protocol] = "icmp6"

PortValue(r) ==
    CASE r.min = Null -> Null
      [] r.min # Null /\ (r.max = Null \/ r.max = r.min) -> <<r.min, r.min>>
      [] OTHER -> <<r.min, r.max>>

\* A prefix, a reference to a group's table, or any.
Remote(r) ==
    CASE r.prefix # Null -> [prefix |-> r.prefix]
      [] r.prefix = Null /\ r.group # Null -> [table |-> r.group]
      [] OTHER -> Null

Body(r) ==
    [proto |-> IF r.protocol = Null THEN Null ELSE Proto[r.protocol],
     port |-> PortValue(r),
     from |-> IF r.direction = "ingress" THEN Remote(r) ELSE Null,
     to |-> IF r.direction = "egress" THEN Remote(r) ELSE Null]

RulesOf(req, p) == UNION {req.rules[g] : g \in p.groups}

\* What a rule may be about: the server takes a range only with a protocol, and one of
\* tcp or udp only if it is a range of ports.
RuleTypeOK(req, r) ==
    /\ r.direction \in {"ingress", "egress"}
    /\ r.min \in {Null} \cup Nat /\ r.max \in {Null} \cup Nat
    /\ r.prefix \in {Null} \cup DOMAIN AddressesIn
    /\ r.group \in {Null} \cup DOMAIN req.members
    /\ r.min # Null => r.protocol # Null
    /\ r.min # Null /\ r.protocol \in {"tcp", "udp"} =>
          \E last \in r.min .. 65535 : r.min >= 1 /\ r.max \in {Null, last}

\* What a segment may be.
SegmentTypeOK(p) ==
    /\ p.network_type = "vlan" => p.segmentation_id \in 1 .. 4094
    /\ p.network_type = "local" => p.segmentation_id = Null

ASSUME RequestsAssumption ==
    \A req \in Requests :
        /\ \A p, q \in req.ports : p.id = q.id => p = q
        /\ \A p \in req.ports : SegmentTypeOK(p) /\ \A r \in RulesOf(req, p) : RuleTypeOK(req, r)
        /\ Null \notin DOMAIN req.mappings

ASSUME PacketsAssumption ==
    \A x \in Packets :
        /\ x.dir \in {"in", "out"} /\ x.family \in {"IPv4", "IPv6"} /\ x.port \in Nat
        \* Each family has its own addresses, 0.0.0.0 and icmp6 are of one.
        /\ x.family = "IPv4" => x.own \notin V6 /\ x.peer \notin V6 /\ x.proto # "icmp6"
        /\ x.own = Any => x.family = "IPv4"

\* Null is no protocol, no family, no range of ports, no vlan, no reference and no error.
ASSUME NullAssumption ==
    /\ Null \notin {"tcp", "udp", "icmp", "icmp6", "IPv4", "IPv6"} /\ Null \notin Nat \X Nat
    /\ Null \notin Nat /\ Null # [error |-> TRUE]
    /\ Null \notin [address : {Any, Broadcast}] /\ Null \notin [prefix : DOMAIN AddressesIn]
    /\ \A req \in Requests : Null \notin [table : DOMAIN req.members]

Rendered(req, p, direction) ==
    {Body(r) : r \in {x \in RulesOf(req, p) : Expressible(x) /\ x.direction = direction}}

\* infra_rules: dhcp client traffic and icmp6.
Infra(port) ==
    {[proto |-> "udp", port |-> <<port, port>>, from |-> Null, to |-> Null],
     [proto |-> "icmp6", port |-> Null, from |-> Null, to |-> Null]}

FilterOf(req, p) ==
    [in |-> Infra(68) \cup Rendered(req, p, "ingress"),
     out |-> Infra(67) \cup Rendered(req, p, "egress")]

-----------------------------------------------------------------------------
(* The configuration (build).                                               *)

HasFilter(p) == ~IsService(p) /\ p.security

FirstV4(p) ==
    LET v4 == SelectSeq(p.fixed_ips, LAMBDA ip : ip \notin V6)
    IN  IF v4 = <<>> \/ p.mac = Null THEN Null ELSE Head(v4)

ASSUME LockAssumption ==
    \A req \in Requests : \A p \in req.ports : Null # [no |-> FirstV4(p)]

Member(p) ==
    [name |-> InterfaceName(p), port |-> p.id, made |-> ~IsService(p),
     filter |-> IF HasFilter(p) THEN p.id ELSE Null,
     bind |-> IF HasFilter(p) THEN FirstV4(p) ELSE Null]

Mapped(req, p) ==
    p.network_type \in {"vlan", "flat"} /\ p.physical_network \in DOMAIN req.mappings

Segment(p) ==
    [physnet |-> p.physical_network,
     vlan |-> IF p.network_type = "vlan" THEN p.segmentation_id ELSE Null]

\* The groups that some rule names and is not skipped for.
TablesUsed(req) ==
    {r.group : r \in {x \in UNION {RulesOf(req, p) : p \in {q \in req.ports : HasFilter(q)}} :
                          Expressible(x) /\ x.prefix = Null /\ x.group # Null}}

Tree(req) ==
    [physnet |-> [n \in {p.physical_network : p \in {q \in req.ports : Mapped(req, q)}} |->
                    req.mappings[n]],
     bridge |-> [b \in {BridgeName(p) : p \in req.ports} |->
                    LET on == {p \in req.ports : BridgeName(p) = b}
                    IN  [member |-> {Member(p) : p \in on},
                         segment |-> {Segment(p) : p \in {q \in on : Mapped(req, q)}}]],
     filter |-> [f \in {p.id : p \in {q \in req.ports : HasFilter(q)}} |->
                    FilterOf(req, CHOOSE p \in req.ports : p.id = f)],
     table |-> [g \in TablesUsed(req) |-> req.members[g] \ V6]]

-----------------------------------------------------------------------------
(* The checks of model.py: from_tree raises SchemaError unless all hold.    *)

\* canonical_port
PortOK(port) == port = Null \/ (1 <= port[1] /\ port[1] <= port[2] /\ port[2] <= 65535)

SegmentOK(s) == s.physnet # Null /\ (s.vlan = Null \/ s.vlan \in 1 .. 4094)

RefOK(tree, ref) == ref # Null /\ "table" \in DOMAIN ref => ref.table \in DOMAIN tree.table

FilterOK(tree, f) ==
    \A b \in f.in \cup f.out : PortOK(b.port) /\ RefOK(tree, b.from) /\ RefOK(tree, b.to)

SchemaOK(tree) ==
    /\ \A f \in DOMAIN tree.filter : FilterOK(tree, tree.filter[f])
    /\ \A b \in DOMAIN tree.bridge :
          /\ \A s \in tree.bridge[b].segment : SegmentOK(s) /\ s.physnet \in DOMAIN tree.physnet
          /\ \A m \in tree.bridge[b].member : m.filter \in {Null} \cup DOMAIN tree.filter

SchemaError == [error |-> TRUE]

Config(req) == IF SchemaOK(Tree(req)) THEN Tree(req) ELSE SchemaError

Init == request \in Requests /\ result = Null

Build == result = Null /\ result' = Config(request) /\ UNCHANGED request

Next == Build

Spec == Init /\ [][Next]_vars

-----------------------------------------------------------------------------
(* The anchor of a member (pf.render).                                      *)

\* pf sees the host's side of the tap.
Direction(dir) == IF dir = "in" THEN "out" ELSE "in"

RenderRule(dir, b) ==
    [action |-> "pass", dir |-> Direction(dir),
     family |-> CASE b.proto = Null -> Null
                  [] b.proto = "icmp6" -> "IPv6"
                  [] OTHER -> "IPv4",
     proto |-> b.proto, from |-> b.from, to |-> b.to, port |-> b.port]

\* A member with a lock may ask for a lease and otherwise only speak as itself.
Lock(iface, bind) ==
    IF bind = Null THEN <<>>
    ELSE <<{[action |-> "pass", dir |-> "in", family |-> "IPv4", proto |-> "udp",
             from |-> [address |-> Any], to |-> [address |-> Broadcast], port |-> <<67, 67>>]},
           {[action |-> "block", dir |-> "in", family |-> "IPv4", proto |-> Null,
             from |-> [no |-> bind], to |-> Null, port |-> Null]}>>

Deny(dir) ==
    [action |-> "block", dir |-> dir, family |-> Null, proto |-> Null, from |-> Null,
     to |-> Null, port |-> Null]

Anchor(tree, m) ==
    Lock(m.name, m.bind)
      \o (IF m.filter = Null THEN <<>>
          ELSE <<{RenderRule("in", b) : b \in tree.filter[m.filter].in}
                   \cup {RenderRule("out", b) : b \in tree.filter[m.filter].out}>>)
      \o <<{Deny("out"), Deny("in")}>>

-----------------------------------------------------------------------------
(* pf, as far as the renderer relies on it.                                 *)

\* Only tcp and udp have ports.
Loads(anchor) ==
    \A k \in DOMAIN anchor : \A r \in anchor[k] : r.port # Null => r.proto \in {"tcp", "udp"}

InRef(tree, address, ref) ==
    CASE ref = Null -> TRUE
      [] ref # Null /\ "prefix" \in DOMAIN ref -> address \in AddressesIn[ref.prefix]
      [] ref # Null /\ "table" \in DOMAIN ref -> address \in tree.table[ref.table]
      [] ref # Null /\ "address" \in DOMAIN ref -> address = ref.address
      [] ref # Null /\ "no" \in DOMAIN ref -> address # ref.no

\* pf sees what the workload sends come in.
Matches(tree, r, x) ==
    LET from == IF x.dir = "out" THEN x.own ELSE x.peer
        to == IF x.dir = "out" THEN x.peer ELSE x.own
    IN  /\ r.dir = (IF x.dir = "out" THEN "in" ELSE "out")
        /\ r.family \in {Null, x.family}
        /\ r.proto \in {Null, x.proto}
        /\ r.port = Null \/ (r.port[1] <= x.port /\ x.port <= r.port[2])
        /\ InRef(tree, from, r.from) /\ InRef(tree, to, r.to)

\* The first rule that matches decides: all are quick.
Passes(tree, anchor, x) ==
    \E k \in DOMAIN anchor :
        /\ \E r \in anchor[k] : r.action = "pass" /\ Matches(tree, r, x)
        /\ \A j \in 1 .. k - 1 : \A r \in anchor[j] : ~Matches(tree, r, x)

-----------------------------------------------------------------------------
(* The mechanism driver (mech.py).                                          *)

SupportedNetworkTypes == {"local", "flat", "vlan"}

\* check_segment_for_agent, with the mappings the agent advertises: its own.
Binds(mappings, p) ==
    /\ p.network_type \in SupportedNetworkTypes
    /\ p.network_type = "local" \/ p.physical_network \in DOMAIN mappings

-----------------------------------------------------------------------------
(* Properties.                                                              *)

Built == result \notin {Null, SchemaError}

Members == UNION {result.bridge[b].member : b \in DOMAIN result.bridge}

PortOf(m) == CHOOSE p \in request.ports : p.id = m.port

\* What a group's rule lets through, by the server's meaning of it.
Permits(r, x) ==
    /\ x.dir = (IF r.direction = "ingress" THEN "in" ELSE "out")
    /\ r.protocol = Null \/ Proto[r.protocol] = x.proto
    /\ r.min = Null \/ (r.min <= x.port /\ x.port <= (IF r.max = Null THEN r.min ELSE r.max))
    /\ CASE r.prefix # Null -> x.peer \in AddressesIn[r.prefix]
         [] r.prefix = Null /\ r.group # Null -> x.peer \in request.members[r.group]
         [] OTHER -> TRUE

AlwaysAllowed(x) ==
    \/ x.proto = "icmp6" /\ x.family = "IPv6"
    \/ x.proto = "udp" /\ x.family = "IPv4" /\ x.port = (IF x.dir = "out" THEN 67 ELSE 68)

Discovers(x) ==
    x.dir = "out" /\ x.proto = "udp" /\ x.port = 67 /\ x.own = Any /\ x.peer = Broadcast

\* A locked member's IPv4 packets carry its own address.
SpeaksAsItself(m, x) ==
    m.bind = Null \/ x.dir = "in" \/ x.family = "IPv6" \/ x.own = m.bind

ExpressibleOf(p) == {r \in RulesOf(request, p) : Expressible(r)}

\* FilterKeepsPromises: a packet that a rule of the port's groups permits, or that every
\* port is allowed, gets through the loaded anchor if its sender speaks as itself, and
\* so does a client's search for a dhcp server, from no address at all.  For IPv6 only
\* prefixes count: the tables hold IPv4 members (port_config.py: build; pf.py: render).
FilterKeepsPromises ==
    Built => \A m \in {n \in Members : n.filter # Null /\ Loads(Anchor(result, n))}, x \in Packets :
        \/ /\ SpeaksAsItself(m, x)
           /\ \/ AlwaysAllowed(x)
              \/ \E r \in ExpressibleOf(PortOf(m)) :
                    r.ethertype = x.family /\ (x.family = "IPv4" \/ r.group = Null) /\ Permits(r, x)
        \/ Discovers(x)
        => Passes(result, Anchor(result, m), x)

\* NothingElsePasses: what gets through an anchor is permitted by a rule of the port's
\* own groups or allowed to every port, and nobody sends from another's address except
\* to look for a dhcp server (pf.py: render, "must precede the source lock").
NothingElsePasses ==
    Built => \A m \in {n \in Members : n.filter # Null}, x \in Packets :
        Passes(result, Anchor(result, m), x) =>
            \/ Discovers(x)
            \/ /\ SpeaksAsItself(m, x)
               /\ AlwaysAllowed(x) \/ \E r \in ExpressibleOf(PortOf(m)) : Permits(r, x)

AnchorsLoad == \A m \in {n \in Members : n.filter # Null} : Loads(Anchor(result, m))

IcmpNamed(r) == r.protocol # Null /\ r.protocol \notin {"tcp", "udp"} /\ r.min # Null

\* Buildable: whatever the groups of whatever ports say, short of naming an icmp type,
\* the builder's configuration passes the model's checks and pf takes its anchors: one
\* port's rules never cost another its configuration (port_config.py: sg_rules_for_port).
Buildable ==
    (\A p \in request.ports : ~\E r \in RulesOf(request, p) : IcmpNamed(r)) =>
        result # SchemaError /\ (Built => AnchorsLoad)

\* InexpressibleIsSkipped: "skip what pf cannot express, which blocks that traffic"
\* (port_config.py): a rule pf has no words for never fails the rest.
InexpressibleIsSkipped == result # SchemaError /\ (Built => AnchorsLoad)

\* SegmentsRealised: every port is a member of one bridge.  One on a segment the driver
\* agrees to bind here is on a bridge with that segment's uplink, local ones on a bridge
\* with none, and two such ports share a bridge exactly if they share a segment
\* (mech.py: check_segment_for_agent).
SegmentsRealised ==
    Built =>
        LET Bound == {p \in request.ports : Binds(request.mappings, p)}
            SameSegment(p, q) ==
                /\ p.network_type = q.network_type
                /\ IF p.network_type = "local" THEN p.network_id = q.network_id
                   ELSE Segment(p) = Segment(q)
        IN  /\ \A p \in request.ports :
                  Cardinality({b \in DOMAIN result.bridge :
                                   \E m \in result.bridge[b].member : m.port = p.id}) = 1
            /\ \A p \in Bound :
                  result.bridge[BridgeName(p)].segment
                    = IF p.network_type = "local" THEN {} ELSE {Segment(p)}
            /\ \A p, q \in Bound : BridgeName(p) = BridgeName(q) <=> SameSegment(p, q)
=============================================================================
