--------------------------- MODULE PortConfigProofs ---------------------------
(***************************************************************************)
(* What gets through an anchor, what does not, which segments the bridges  *)
(* realise and what can be built, for any ports, rules, groups, mappings   *)
(* and packets.                                                            *)
(***************************************************************************)
EXTENDS PortConfig, SequenceTheorems, FiniteSetTheorems, TLAPS

\* The configuration is built from the request.
FromRequest == \E req \in Requests : request = req /\ result \in {Null, Config(req)}

LEMMA Builds == Spec => []FromRequest
<1>1. Init => FromRequest
  BY DEF Init, FromRequest
<1>2. FromRequest /\ [Next]_vars => FromRequest'
  BY DEF FromRequest, Next, Build, vars
<1>3. QED
  BY <1>1, <1>2, PTL DEF Spec

\* A filtered member stands for one port and has the filter of that port.
LEMMA MemberOfPort ==
    ASSUME FromRequest, Built, NEW m \in Members, m.filter # Null
    PROVE  \E p \in request.ports :
              /\ HasFilter(p) /\ PortOf(m) = p
              /\ m.bind = FirstV4(p) /\ result.filter[m.filter] = FilterOf(request, p)
              /\ result = Tree(request)
<1>1. result = Tree(request)
  BY DEF FromRequest, Built, Config
<1>2. PICK b \in {BridgeName(q) : q \in request.ports} : m \in result.bridge[b].member
  BY <1>1 DEF Members, Tree
<1>3. result.bridge[b].member = {Member(q) : q \in {o \in request.ports : BridgeName(o) = b}}
  BY <1>1, <1>2 DEF Tree
<1>4. PICK p \in request.ports : m = Member(p)
  BY <1>2, <1>3
<1>5. HasFilter(p) /\ m.filter = p.id /\ m.port = p.id /\ m.bind = FirstV4(p)
  BY <1>4 DEF Member
<1>6. \A q \in request.ports : q.id = p.id => q = p
  BY RequestsAssumption DEF FromRequest
<1>7. (CHOOSE q \in request.ports : q.id = p.id) = p
  BY <1>6
<1>8. PortOf(m) = p
  BY <1>5, <1>7 DEF PortOf
<1>9. result.filter[p.id] = FilterOf(request, p)
  <2>1. p.id \in {q.id : q \in {o \in request.ports : HasFilter(o)}}
    BY <1>5
  <2>2. QED
    BY <1>1, <1>7, <2>1 DEF Tree
<1>10. QED
  BY <1>1, <1>5, <1>8, <1>9

\* The parts of an anchor, in their order.
FilterRules(tree, f) ==
    {RenderRule("in", b) : b \in tree.filter[f].in} \cup {RenderRule("out", b) : b \in tree.filter[f].out}

\* The concatenations an anchor is made of.
LEMMA PartsInOrder ==
    ASSUME NEW a, NEW b, NEW c, NEW d
    PROVE  <<>> \o <<c>> \o <<d>> = <<c, d>> /\ <<a, b>> \o <<c>> \o <<d>> = <<a, b, c, d>>
<1> DEFINE S == {a, b, c, d}
<1>1. /\ <<>> \in Seq(S) /\ <<c>> \in Seq(S) /\ <<d>> \in Seq(S) /\ <<c, d>> \in Seq(S)
      /\ <<a, b>> \in Seq(S) /\ <<a, b, c>> \in Seq(S) /\ <<a, b, c, d>> \in Seq(S)
  OBVIOUS
<1> HIDE DEF S
<1>2. <<>> \o <<c>> = <<c>>
  BY <1>1, ConcatEmptySeq
<1>3. <<c>> \o <<d>> = <<c, d>>
  <2>1. /\ <<c>> \o <<d>> \in Seq(S) /\ Len(<<c>> \o <<d>>) = 2
        /\ \A i \in 1 .. 2 : (<<c>> \o <<d>>)[i] = IF i <= 1 THEN <<c>>[i] ELSE <<d>>[i - 1]
    BY <1>1, ConcatProperties
  <2>2. \A i \in 1 .. 2 : (<<c>> \o <<d>>)[i] = <<c, d>>[i]
    BY <2>1
  <2>3. QED
    BY <1>1, <2>1, <2>2, SeqEqual
<1>4. <<a, b>> \o <<c>> = <<a, b, c>>
  <2>1. /\ <<a, b>> \o <<c>> \in Seq(S) /\ Len(<<a, b>> \o <<c>>) = 3
        /\ \A i \in 1 .. 3 : (<<a, b>> \o <<c>>)[i] = IF i <= 2 THEN <<a, b>>[i] ELSE <<c>>[i - 2]
    BY <1>1, ConcatProperties
  <2>2. \A i \in 1 .. 3 : (<<a, b>> \o <<c>>)[i] = <<a, b, c>>[i]
    BY <2>1
  <2>3. QED
    BY <1>1, <2>1, <2>2, SeqEqual
<1>5. <<a, b, c>> \o <<d>> = <<a, b, c, d>>
  <2>1. /\ <<a, b, c>> \o <<d>> \in Seq(S) /\ Len(<<a, b, c>> \o <<d>>) = 4
        /\ \A i \in 1 .. 4 :
              (<<a, b, c>> \o <<d>>)[i] = IF i <= 3 THEN <<a, b, c>>[i] ELSE <<d>>[i - 3]
    BY <1>1, ConcatProperties
  <2>2. \A i \in 1 .. 4 : (<<a, b, c>> \o <<d>>)[i] = <<a, b, c, d>>[i]
    BY <2>1
  <2>3. QED
    BY <1>1, <2>1, <2>2, SeqEqual
<1>6. QED
  BY <1>2, <1>3, <1>4, <1>5

LEMMA AnchorParts ==
    ASSUME NEW tree, NEW m, m.filter # Null
    PROVE  /\ m.bind = Null => Anchor(tree, m) = <<FilterRules(tree, m.filter), {Deny("out"), Deny("in")}>>
           /\ m.bind # Null =>
                 Anchor(tree, m) = <<Lock(m.name, m.bind)[1], Lock(m.name, m.bind)[2],
                                     FilterRules(tree, m.filter), {Deny("out"), Deny("in")}>>
<1> DEFINE rules == FilterRules(tree, m.filter)
           deny == {Deny("out"), Deny("in")}
<1>1. Anchor(tree, m) = Lock(m.name, m.bind) \o <<rules>> \o <<deny>>
  BY DEF Anchor, FilterRules
<1>2. CASE m.bind = Null
  <2>1. Lock(m.name, m.bind) = <<>>
    BY <1>2 DEF Lock
  <2> HIDE DEF rules, deny
  <2>2. <<>> \o <<rules>> \o <<deny>> = <<rules, deny>>
    BY PartsInOrder
  <2>3. QED
    BY <1>1, <1>2, <2>1, <2>2 DEF rules, deny
<1>3. CASE m.bind # Null
  <2> DEFINE ask == Lock(m.name, m.bind)[1]
             own == Lock(m.name, m.bind)[2]
  <2>1. Lock(m.name, m.bind) = <<ask, own>>
    BY <1>3 DEF Lock
  <2> HIDE DEF rules, deny, ask, own
  <2>2. <<ask, own>> \o <<rules>> \o <<deny>> = <<ask, own, rules, deny>>
    BY PartsInOrder
  <2>3. QED
    BY <1>1, <1>3, <2>1, <2>2 DEF rules, deny, ask, own
<1>4. QED
  BY <1>2, <1>3

-----------------------------------------------------------------------------
(* The rules of a filter.                                                   *)

\* What a rule made for a packet's direction says of it.
LEMMA InRefMeans ==
    ASSUME NEW req \in Requests, NEW p \in req.ports, HasFilter(p),
           NEW r \in RulesOf(req, p), Expressible(r), NEW address,
           InRef(Tree(req), address, Remote(r))
    PROVE  CASE r.prefix # Null -> address \in AddressesIn[r.prefix]
             [] r.prefix = Null /\ r.group # Null -> address \in req.members[r.group]
             [] OTHER -> TRUE
<1>1. RuleTypeOK(req, r)
  BY RequestsAssumption
<1>2. CASE r.prefix # Null
  <2>1. Remote(r) = [prefix |-> r.prefix] /\ Remote(r) # Null
    BY <1>1, <1>2, NullAssumption DEF Remote, RuleTypeOK
  <2>2. QED
    BY <1>2, <2>1 DEF InRef
<1>3. CASE r.prefix = Null /\ r.group # Null
  <2>1. Remote(r) = [table |-> r.group] /\ Remote(r) # Null
    BY <1>1, <1>3, NullAssumption DEF Remote, RuleTypeOK
  <2>2. r.group \in TablesUsed(req)
    BY <1>3 DEF TablesUsed
  <2>3. Tree(req).table[r.group] = req.members[r.group] \ V6
    BY <2>2 DEF Tree
  <2>4. QED
    BY <1>3, <2>1, <2>3 DEF InRef
<1>4. CASE r.prefix = Null /\ r.group = Null
  BY <1>4
<1>5. QED
  BY <1>2, <1>3, <1>4

LEMMA PortMeans ==
    ASSUME NEW req \in Requests, NEW p \in req.ports, NEW r \in RulesOf(req, p),
           NEW port \in Nat,
           PortValue(r) = Null \/ (PortValue(r)[1] <= port /\ port <= PortValue(r)[2])
    PROVE  r.min = Null \/ (r.min <= port /\ port <= (IF r.max = Null THEN r.min ELSE r.max))
<1>1. r.min \in {Null} \cup Nat /\ r.max \in {Null} \cup Nat
  BY RequestsAssumption DEF RuleTypeOK
<1>2. CASE r.min # Null
  <2>1. PortValue(r) \in Nat \X Nat \/ r.max = Null \/ r.max \in Nat
    BY <1>1
  <2>2. PortValue(r) = IF r.max = Null \/ r.max = r.min THEN <<r.min, r.min>> ELSE <<r.min, r.max>>
    BY <1>2 DEF PortValue
  <2>3. PortValue(r) \in Nat \X Nat
    BY <1>1, <1>2, <2>2
  <2>4. PortValue(r) # Null
    BY <2>3, NullAssumption
  <2>5. QED
    BY <1>1, <1>2, <2>2, <2>4
<1>3. QED
  BY <1>2

\* A packet that matches a rule of a filter is permitted by the group rule it is made
\* from, or allowed to every port.
LEMMA RuleMeans ==
    ASSUME NEW req \in Requests, request = req, NEW p \in req.ports, HasFilter(p),
           NEW x \in Packets, NEW dir \in {"in", "out"},
           NEW b \in (IF dir = "in" THEN FilterOf(req, p).in ELSE FilterOf(req, p).out),
           Matches(Tree(req), RenderRule(dir, b), x)
    PROVE  /\ x.dir = dir
           /\ AlwaysAllowed(x) \/ \E r \in ExpressibleOf(p) : Permits(r, x)
<1>1. /\ x.dir \in {"in", "out"} /\ x.port \in Nat
      /\ dir = (IF x.dir = "out" THEN "out" ELSE "in")
  BY PacketsAssumption DEF Matches, RenderRule, Direction
<1>2. x.dir = dir
  BY <1>1
<1>3. /\ b.proto \in {Null, x.proto}
      /\ b.port = Null \/ (b.port[1] <= x.port /\ x.port <= b.port[2])
      /\ InRef(Tree(req), IF x.dir = "out" THEN x.own ELSE x.peer, b.from)
      /\ InRef(Tree(req), IF x.dir = "out" THEN x.peer ELSE x.own, b.to)
  BY DEF Matches, RenderRule
<1>4. CASE b \in Infra(IF dir = "in" THEN 68 ELSE 67)
  <2>1. CASE b.proto = "udp" /\ b.port = <<IF dir = "in" THEN 68 ELSE 67, IF dir = "in" THEN 68 ELSE 67>>
    <3>1. b.port # Null /\ "udp" # Null /\ "IPv4" # Null
      BY <2>1, NullAssumption
    <3>2. x.proto = "udp" /\ x.family = "IPv4"
      BY <1>3, <2>1, <3>1 DEF Matches, RenderRule
    <3>3. x.port = (IF dir = "in" THEN 68 ELSE 67)
      BY <1>1, <1>3, <2>1, <3>1
    <3>4. QED
      BY <1>1, <1>2, <3>2, <3>3 DEF AlwaysAllowed
  <2>2. CASE b.proto = "icmp6"
    BY <1>2, <1>3, <2>2, NullAssumption DEF Matches, RenderRule, AlwaysAllowed
  <2>3. QED
    BY <1>4, <2>1, <2>2 DEF Infra
<1>5. ASSUME NEW r \in RulesOf(req, p), Expressible(r),
             r.direction = (IF dir = "in" THEN "ingress" ELSE "egress"), b = Body(r)
      PROVE  Permits(r, x)
  <2>1. b.port = PortValue(r) /\ b.proto = (IF r.protocol = Null THEN Null ELSE Proto[r.protocol])
    BY <1>5 DEF Body
  <2>2. r.protocol = Null \/ Proto[r.protocol] = x.proto
    <3>1. r.protocol # Null => Proto[r.protocol] \in {"tcp", "udp", "icmp", "icmp6"}
      BY <1>5 DEF Expressible, Proto
    <3>2. QED
      BY <1>3, <2>1, <3>1, NullAssumption
  <2>3. r.min = Null \/ (r.min <= x.port /\ x.port <= (IF r.max = Null THEN r.min ELSE r.max))
    BY <1>1, <1>3, <2>1, PortMeans
  <2>4. InRef(Tree(req), x.peer, Remote(r))
    BY <1>2, <1>3, <1>5 DEF Body
  <2>5. x.dir = (IF r.direction = "ingress" THEN "in" ELSE "out")
    BY <1>2, <1>5
  <2>6. QED
    BY <1>5, <2>2, <2>3, <2>4, <2>5, InRefMeans DEF Permits
<1>6. CASE b \in Rendered(req, p, IF dir = "in" THEN "ingress" ELSE "egress")
  <2>1. PICK r \in RulesOf(req, p) :
          /\ Expressible(r) /\ r.direction = (IF dir = "in" THEN "ingress" ELSE "egress")
          /\ b = Body(r)
    BY <1>6 DEF Rendered
  <2>2. QED
    BY <1>2, <1>5, <2>1 DEF ExpressibleOf
<1>7. QED
  BY <1>2, <1>4, <1>6 DEF FilterOf

-----------------------------------------------------------------------------
(* The anchor.                                                              *)

\* A packet that the rules of the filter pass.
LEMMA FilterMeans ==
    ASSUME NEW req \in Requests, request = req, result = Tree(req),
           NEW p \in req.ports, HasFilter(p), NEW f, Tree(req).filter[f] = FilterOf(req, p),
           NEW x \in Packets, NEW r \in FilterRules(Tree(req), f), Matches(Tree(req), r, x)
    PROVE  AlwaysAllowed(x) \/ \E s \in ExpressibleOf(p) : Permits(s, x)
<1>1. CASE \E b \in FilterOf(req, p).in : r = RenderRule("in", b)
  BY <1>1, RuleMeans
<1>2. CASE \E b \in FilterOf(req, p).out : r = RenderRule("out", b)
  BY <1>2, RuleMeans
<1>3. QED
  BY <1>1, <1>2 DEF FilterRules

\* Every rule of the last part denies, and one of them whatever leaves the workload.
LEMMA DenyBlocks == \A r \in {Deny("out"), Deny("in")} : r.action # "pass"
  BY DEF Deny

\* What the parts of a lock let through, and what they stop.
LEMMA LockMeans ==
    ASSUME NEW tree, NEW m, m.bind # Null, NEW x \in Packets
    PROVE  /\ \A r \in Lock(m.name, m.bind)[1] : Matches(tree, r, x) => Discovers(x)
           /\ \A r \in Lock(m.name, m.bind)[2] : r.action # "pass"
           /\ (\A r \in Lock(m.name, m.bind)[2] : ~Matches(tree, r, x)) => SpeaksAsItself(m, x)
<1>1. x.dir \in {"in", "out"} /\ x.family \in {"IPv4", "IPv6"} /\ x.port \in Nat
  BY PacketsAssumption
<1>2. ASSUME NEW r \in Lock(m.name, m.bind)[1], Matches(tree, r, x)
      PROVE  Discovers(x)
  <2>1. r = [action |-> "pass", dir |-> "in", family |-> "IPv4", proto |-> "udp",
             from |-> [address |-> Any], to |-> [address |-> Broadcast], port |-> <<67, 67>>]
    BY <1>2 DEF Lock
  <2>2. x.dir = "out" /\ x.proto = "udp"
    BY <1>1, <1>2, <2>1, NullAssumption DEF Matches
  <2>3. x.port = 67
    BY <1>1, <1>2, <2>1, NullAssumption DEF Matches
  <2>4. InRef(tree, x.own, [address |-> Any]) /\ InRef(tree, x.peer, [address |-> Broadcast])
    BY <1>2, <2>1, <2>2 DEF Matches
  <2>5. x.own = Any /\ x.peer = Broadcast
    <3>1. [address |-> Any] # Null /\ [address |-> Broadcast] # Null
      BY NullAssumption
    <3>2. DOMAIN [address |-> Any] = {"address"} /\ DOMAIN [address |-> Broadcast] = {"address"}
      OBVIOUS
    <3>3. QED
      BY <2>4, <3>1, <3>2 DEF InRef
  <2>6. QED
    BY <2>2, <2>3, <2>5 DEF Discovers
<1> DEFINE lock == [action |-> "block", dir |-> "in", family |-> "IPv4", proto |-> Null,
                    from |-> [no |-> m.bind], to |-> Null, port |-> Null]
<1>3. Lock(m.name, m.bind)[2] = {lock}
  BY DEF Lock
<1>4. ASSUME ~Matches(tree, lock, x) PROVE SpeaksAsItself(m, x)
  <2>1. CASE x.dir = "out" /\ x.family = "IPv4"
    <3>1. ~InRef(tree, x.own, [no |-> m.bind])
      BY <1>4, <2>1 DEF Matches, InRef
    <3>2. QED
      BY <3>1 DEF InRef, SpeaksAsItself
  <2>2. QED
    BY <1>1, <2>1 DEF SpeaksAsItself
<1>5. QED
  BY <1>2, <1>3, <1>4

\* What gets through an anchor is permitted by a rule of the port's own groups or allowed
\* to every port, and nobody sends from another's address except to look for a dhcp
\* server, whatever ports, groups and rules the server answers with
\* (port_config.py: build, sg_rules_for_port; pf.py: render).
THEOREM OnlyPermitted == Spec => []NothingElsePasses
<1>1. FromRequest => NothingElsePasses
  <2> SUFFICES ASSUME FromRequest, Built, NEW m \in Members, m.filter # Null, NEW x \in Packets,
                      Passes(result, Anchor(result, m), x)
               PROVE  \/ Discovers(x)
                      \/ /\ SpeaksAsItself(m, x)
                         /\ AlwaysAllowed(x) \/ \E r \in ExpressibleOf(PortOf(m)) : Permits(r, x)
    BY DEF NothingElsePasses
  <2>1. PICK p \in request.ports :
          /\ HasFilter(p) /\ PortOf(m) = p
          /\ m.bind = FirstV4(p) /\ result.filter[m.filter] = FilterOf(request, p)
          /\ result = Tree(request)
    BY MemberOfPort
  <2>2. request \in Requests
    BY DEF FromRequest
  <2> DEFINE anchor == Anchor(result, m)
  <2>3. PICK k \in DOMAIN anchor :
          /\ \E r \in anchor[k] : r.action = "pass" /\ Matches(result, r, x)
          /\ \A j \in 1 .. k - 1 : \A r \in anchor[j] : ~Matches(result, r, x)
    BY DEF Passes
  <2>4. ASSUME NEW r \in FilterRules(result, m.filter), Matches(result, r, x)
        PROVE  AlwaysAllowed(x) \/ \E s \in ExpressibleOf(PortOf(m)) : Permits(s, x)
    BY <2>1, <2>2, <2>4, FilterMeans
  <2>5. CASE m.bind = Null
    <3>1. anchor = <<FilterRules(result, m.filter), {Deny("out"), Deny("in")}>>
      BY <2>5, AnchorParts
    <3>2. k = 1
      BY <2>3, <3>1, DenyBlocks
    <3>3. QED
      BY <2>3, <2>4, <2>5, <3>1, <3>2 DEF SpeaksAsItself
  <2>6. CASE m.bind # Null
    <3>1. anchor = <<Lock(m.name, m.bind)[1], Lock(m.name, m.bind)[2],
                     FilterRules(result, m.filter), {Deny("out"), Deny("in")}>>
      BY <2>6, AnchorParts
    <3>2. k \in 1 .. 4
      BY <3>1
    <3>3. CASE k = 1
      BY <2>3, <2>6, <3>1, <3>3, LockMeans
    <3>4. CASE k = 3
      <4>1. SpeaksAsItself(m, x)
        BY <2>3, <2>6, <3>1, <3>4, LockMeans
      <4>2. QED
        BY <2>3, <2>4, <3>1, <3>4, <4>1
    <3>5. k # 2 /\ k # 4
      BY <2>3, <2>6, <3>1, DenyBlocks, LockMeans
    <3>6. QED
      BY <3>2, <3>3, <3>4, <3>5
  <2>7. QED
    BY <2>5, <2>6
<1>2. QED
  BY <1>1, Builds, PTL
-----------------------------------------------------------------------------
(* What must get through.                                                   *)

\* A rule of a group that permits a packet is made into one that matches it.
LEMMA PermittedMatches ==
    ASSUME NEW req \in Requests, request = req, NEW p \in req.ports, HasFilter(p),
           NEW x \in Packets, NEW r \in ExpressibleOf(p), Permits(r, x),
           r.ethertype = x.family, x.family = "IPv4" \/ r.group = Null
    PROVE  Matches(Tree(req), RenderRule(x.dir, Body(r)), x)
<1> DEFINE rule == RenderRule(x.dir, Body(r))
<1>1. /\ x.dir \in {"in", "out"} /\ x.family \in {"IPv4", "IPv6"} /\ x.port \in Nat
      /\ x.family = "IPv4" => x.own \notin V6 /\ x.peer \notin V6 /\ x.proto # "icmp6"
  BY PacketsAssumption
<1>2. r \in RulesOf(req, p) /\ Expressible(r) /\ RuleTypeOK(req, r)
  BY RequestsAssumption DEF ExpressibleOf
<1>3. /\ rule.dir = (IF x.dir = "in" THEN "out" ELSE "in") /\ rule.proto = Body(r).proto
      /\ rule.family = (CASE Body(r).proto = Null -> Null
                          [] Body(r).proto = "icmp6" -> "IPv6"
                          [] OTHER -> "IPv4")
      /\ rule.from = Body(r).from /\ rule.to = Body(r).to /\ rule.port = Body(r).port
  BY DEF RenderRule, Direction
<1>4. r.protocol # Null => Proto[r.protocol] \in {"tcp", "udp", "icmp", "icmp6"}
  BY <1>2 DEF Expressible, Proto
<1>5. rule.proto \in {Null, x.proto}
  BY <1>3 DEF Permits, Body
<1>6. rule.family \in {Null, x.family}
  <2>1. CASE r.protocol = Null
    <3>1. Body(r).proto = Null
      BY <2>1 DEF Body
    <3> HIDE DEF rule
    <3>2. rule.family = Null
      BY <1>3, <3>1, NullAssumption
    <3>3. QED
      BY <3>2
  <2>2. CASE r.protocol # Null
    <3>1. Body(r).proto = Proto[r.protocol] /\ x.proto = Proto[r.protocol] /\ Body(r).proto # Null
      BY <1>4, <2>2, NullAssumption DEF Body, Permits
    <3>2. CASE x.family = "IPv4"
      BY <1>1, <1>3, <3>1, <3>2
    <3>3. CASE x.family = "IPv6"
      <4>1. Proto[r.protocol] = "icmp6"
        BY <1>2, <2>2, <3>3 DEF Expressible
      <4>2. QED
        BY <1>3, <3>1, <3>3, <4>1
    <3>4. QED
      BY <1>1, <3>2, <3>3
  <2>3. QED
    BY <2>1, <2>2
<1>7. rule.port = Null \/ (rule.port[1] <= x.port /\ x.port <= rule.port[2])
  <2>1. rule.port = PortValue(r)
    BY <1>3 DEF Body
  <2>2. CASE r.min = Null
    BY <2>1, <2>2 DEF PortValue
  <2>3. CASE r.min # Null
    <3>1. r.min <= x.port /\ x.port <= (IF r.max = Null THEN r.min ELSE r.max)
      BY <2>3 DEF Permits
    <3>2. PortValue(r) = IF r.max = Null \/ r.max = r.min THEN <<r.min, r.min>> ELSE <<r.min, r.max>>
      BY <2>3 DEF PortValue
    <3>3. QED
      BY <2>1, <3>1, <3>2
  <2>4. QED
    BY <2>2, <2>3
<1>8. InRef(Tree(req), x.peer, Remote(r))
  <2>1. CASE r.prefix # Null
    <3>1. Remote(r) = [prefix |-> r.prefix] /\ Remote(r) # Null
      BY <1>2, <2>1, NullAssumption DEF Remote, RuleTypeOK
    <3>2. QED
      BY <2>1, <3>1 DEF InRef, Permits
  <2>2. CASE r.prefix = Null /\ r.group # Null
    <3>1. Remote(r) = [table |-> r.group] /\ Remote(r) # Null
      BY <1>2, <2>2, NullAssumption DEF Remote, RuleTypeOK
    <3>2. r.group \in TablesUsed(req)
      BY <1>2, <2>2 DEF TablesUsed
    <3>3. Tree(req).table[r.group] = req.members[r.group] \ V6
      BY <3>2 DEF Tree
    <3>4. x.peer \in Tree(req).table[r.group]
      BY <1>1, <2>2, <3>3 DEF Permits
    <3>5. QED
      BY <3>1, <3>4 DEF InRef
  <2>3. CASE r.prefix = Null /\ r.group = Null
    BY <2>3 DEF Remote, InRef
  <2>4. QED
    BY <2>1, <2>2, <2>3
<1>9. InRef(Tree(req), x.own, Null)
  BY DEF InRef
<1>10. x.dir = (IF r.direction = "ingress" THEN "in" ELSE "out")
  BY DEF Permits
<1>11. QED
  <2>1. CASE x.dir = "in"
    <3>1. r.direction = "ingress"
      BY <1>10, <2>1
    <3>2. rule.from = Remote(r) /\ rule.to = Null
      BY <1>3, <3>1 DEF Body
    <3>3. QED
      BY <1>3, <1>5, <1>6, <1>7, <1>8, <1>9, <2>1, <3>2 DEF Matches
  <2>2. CASE x.dir = "out"
    <3>1. r.direction # "ingress"
      BY <1>10, <2>2
    <3>2. rule.from = Null /\ rule.to = Remote(r)
      BY <1>2, <1>3, <3>1 DEF Body, RuleTypeOK
    <3>3. QED
      BY <1>3, <1>5, <1>6, <1>7, <1>8, <1>9, <2>2, <3>2 DEF Matches
  <2>3. QED
    BY <1>1, <2>1, <2>2

\* So is what every port is allowed.
LEMMA AllowedMatches ==
    ASSUME NEW req \in Requests, NEW x \in Packets, AlwaysAllowed(x)
    PROVE  \E b \in Infra(IF x.dir = "in" THEN 68 ELSE 67) :
              Matches(Tree(req), RenderRule(x.dir, b), x)
<1>1. x.dir \in {"in", "out"} /\ x.port \in Nat
  BY PacketsAssumption
<1> DEFINE port == IF x.dir = "in" THEN 68 ELSE 67
           lease == [proto |-> "udp", port |-> <<port, port>>, from |-> Null, to |-> Null]
           icmp6 == [proto |-> "icmp6", port |-> Null, from |-> Null, to |-> Null]
<1>2. \A address : InRef(Tree(req), address, Null)
  BY DEF InRef
<1>3. CASE x.proto = "icmp6" /\ x.family = "IPv6"
  <2>1. RenderRule(x.dir, icmp6) =
          [action |-> "pass", dir |-> Direction(x.dir), family |-> "IPv6", proto |-> "icmp6",
           from |-> Null, to |-> Null, port |-> Null]
    BY NullAssumption DEF RenderRule
  <2>2. Matches(Tree(req), RenderRule(x.dir, icmp6), x)
    BY <1>1, <1>2, <1>3, <2>1 DEF Matches, Direction
  <2>3. QED
    BY <2>2 DEF Infra
<1>4. CASE x.proto = "udp" /\ x.family = "IPv4" /\ x.port = port
  <2>1. RenderRule(x.dir, lease) =
          [action |-> "pass", dir |-> Direction(x.dir), family |-> "IPv4", proto |-> "udp",
           from |-> Null, to |-> Null, port |-> <<port, port>>]
    BY NullAssumption DEF RenderRule
  <2>2. Matches(Tree(req), RenderRule(x.dir, lease), x)
    BY <1>1, <1>2, <1>4, <2>1 DEF Matches, Direction
  <2>3. QED
    BY <2>2 DEF Infra
<1>5. QED
  BY <1>1, <1>3, <1>4 DEF AlwaysAllowed

\* Every rule of a filter passes what it matches.
LEMMA FilterPasses == \A tree, f : \A r \in FilterRules(tree, f) : r.action = "pass"
  BY DEF FilterRules, RenderRule

\* A packet with a promise is matched by a rule of the filter.
LEMMA PromiseMatches ==
    ASSUME NEW req \in Requests, request = req, NEW p \in req.ports, HasFilter(p),
           NEW f, Tree(req).filter[f] = FilterOf(req, p), NEW x \in Packets,
           \/ AlwaysAllowed(x)
           \/ \E r \in ExpressibleOf(p) :
                 r.ethertype = x.family /\ (x.family = "IPv4" \/ r.group = Null) /\ Permits(r, x)
    PROVE  \E r \in FilterRules(Tree(req), f) : Matches(Tree(req), r, x)
<1>1. x.dir \in {"in", "out"}
  BY PacketsAssumption
<1>2. ASSUME NEW b \in (IF x.dir = "in" THEN FilterOf(req, p).in ELSE FilterOf(req, p).out)
      PROVE  RenderRule(x.dir, b) \in FilterRules(Tree(req), f)
  BY <1>1, <1>2 DEF FilterRules
<1>3. CASE AlwaysAllowed(x)
  <2>1. PICK b \in Infra(IF x.dir = "in" THEN 68 ELSE 67) :
          Matches(Tree(req), RenderRule(x.dir, b), x)
    BY <1>3, AllowedMatches
  <2>2. b \in (IF x.dir = "in" THEN FilterOf(req, p).in ELSE FilterOf(req, p).out)
    BY DEF FilterOf
  <2>3. QED
    BY <1>2, <2>1, <2>2
<1>4. ASSUME NEW r \in ExpressibleOf(p), Permits(r, x),
             r.ethertype = x.family, x.family = "IPv4" \/ r.group = Null
      PROVE  \E s \in FilterRules(Tree(req), f) : Matches(Tree(req), s, x)
  <2>1. Matches(Tree(req), RenderRule(x.dir, Body(r)), x)
    BY <1>4, PermittedMatches
  <2>2. /\ r \in RulesOf(req, p) /\ Expressible(r)
        /\ x.dir = (IF r.direction = "ingress" THEN "in" ELSE "out")
    BY <1>4 DEF ExpressibleOf, Permits
  <2>3. r.direction = (IF x.dir = "in" THEN "ingress" ELSE "egress")
    BY <2>2, RequestsAssumption DEF RuleTypeOK
  <2>4. Body(r) \in Rendered(req, p, IF x.dir = "in" THEN "ingress" ELSE "egress")
    BY <2>2, <2>3 DEF Rendered
  <2>5. QED
    BY <1>2, <2>1, <2>4 DEF FilterOf
<1>5. QED
  BY <1>3, <1>4

\* The lock lets pass who speaks as itself, and a client's search for a dhcp server.
LEMMA LockPasses ==
    ASSUME NEW req \in Requests, NEW p \in req.ports, NEW tree, NEW m,
           m.bind = FirstV4(p), m.bind # Null, NEW x \in Packets
    PROVE  /\ \A r \in Lock(m.name, m.bind)[1] : r.action = "pass"
           /\ Discovers(x) => \E r \in Lock(m.name, m.bind)[1] : Matches(tree, r, x)
           /\ SpeaksAsItself(m, x) =>
                 \A r \in Lock(m.name, m.bind)[2] : ~Matches(tree, r, x)
<1> DEFINE ask == [action |-> "pass", dir |-> "in", family |-> "IPv4", proto |-> "udp",
                   from |-> [address |-> Any], to |-> [address |-> Broadcast],
                   port |-> <<67, 67>>]
           own == [action |-> "block", dir |-> "in", family |-> "IPv4", proto |-> Null,
                   from |-> [no |-> m.bind], to |-> Null, port |-> Null]
<1>1. /\ x.dir \in {"in", "out"} /\ x.family \in {"IPv4", "IPv6"} /\ x.port \in Nat
      /\ x.own = Any => x.family = "IPv4"
  BY PacketsAssumption
<1>2. Lock(m.name, m.bind)[1] = {ask} /\ Lock(m.name, m.bind)[2] = {own}
  BY DEF Lock
<1>3. ASSUME Discovers(x) PROVE Matches(tree, ask, x)
  <2>1. x.dir = "out" /\ x.proto = "udp" /\ x.port = 67 /\ x.own = Any /\ x.peer = Broadcast
    BY <1>3 DEF Discovers
  <2>2. InRef(tree, x.own, [address |-> Any]) /\ InRef(tree, x.peer, [address |-> Broadcast])
    <3>1. [address |-> Any] # Null /\ [address |-> Broadcast] # Null
      BY NullAssumption
    <3>2. DOMAIN [address |-> Any] = {"address"} /\ DOMAIN [address |-> Broadcast] = {"address"}
      OBVIOUS
    <3>3. QED
      BY <2>1, <3>1, <3>2 DEF InRef
  <2>3. QED
    BY <1>1, <2>1, <2>2 DEF Matches
<1>4. ASSUME SpeaksAsItself(m, x) PROVE ~Matches(tree, own, x)
  <2>1. CASE x.dir = "in" \/ x.family = "IPv6"
    BY <1>1, <2>1, NullAssumption DEF Matches
  <2>2. CASE x.own = m.bind /\ x.dir = "out"
    <3>1. [no |-> m.bind] # Null
      BY LockAssumption
    <3>2. DOMAIN [no |-> m.bind] = {"no"} /\ [no |-> m.bind].no = m.bind
      OBVIOUS
    <3>3. ~InRef(tree, x.own, [no |-> m.bind])
      BY <2>2, <3>1, <3>2 DEF InRef
    <3>4. QED
      BY <2>2, <3>3 DEF Matches
  <2>3. QED
    BY <1>1, <1>4, <2>1, <2>2 DEF SpeaksAsItself
<1>5. QED
  BY <1>2, <1>3, <1>4

\* Whoever searches for a dhcp server without a lock has a promise.
LEMMA DiscoveryAllowed ==
    ASSUME NEW x \in Packets, Discovers(x)
    PROVE  AlwaysAllowed(x)
BY PacketsAssumption DEF Discovers, AlwaysAllowed

\* A packet that a rule of the port's groups permits, or that every port is allowed, gets
\* through if its sender speaks as itself, and so does a client's search for a dhcp
\* server, whatever else the groups say and in whatever order the rules stand
\* (port_config.py: build, sg_rules_for_port, infra_rules; pf.py: render).
THEOREM PromisesKept == Spec => []FilterKeepsPromises
<1>1. FromRequest => FilterKeepsPromises
  <2> SUFFICES ASSUME FromRequest, Built, NEW m \in Members, m.filter # Null, NEW x \in Packets,
                      \/ /\ SpeaksAsItself(m, x)
                         /\ \/ AlwaysAllowed(x)
                            \/ \E r \in ExpressibleOf(PortOf(m)) :
                                  /\ r.ethertype = x.family
                                  /\ x.family = "IPv4" \/ r.group = Null
                                  /\ Permits(r, x)
                      \/ Discovers(x)
               PROVE  Passes(result, Anchor(result, m), x)
    BY DEF FilterKeepsPromises
  <2>1. PICK p \in request.ports :
          /\ HasFilter(p) /\ PortOf(m) = p
          /\ m.bind = FirstV4(p) /\ result.filter[m.filter] = FilterOf(request, p)
          /\ result = Tree(request)
    BY MemberOfPort
  <2>2. request \in Requests
    BY DEF FromRequest
  <2> DEFINE anchor == Anchor(result, m)
             rules == FilterRules(result, m.filter)
             deny == {Deny("out"), Deny("in")}
  <2>3. \A r \in rules : r.action = "pass"
    BY FilterPasses
  <2>4. (SpeaksAsItself(m, x) /\ ~Discovers(x)) \/ m.bind = Null
          => \E r \in rules : Matches(result, r, x)
    BY <2>1, <2>2, PromiseMatches, DiscoveryAllowed
  <2>5. CASE m.bind = Null
    <3>1. anchor = <<rules, deny>>
      BY <2>5, AnchorParts
    <3>2. 1 \in DOMAIN anchor /\ anchor[1] = rules
      BY <3>1
    <3>3. QED
      BY <2>3, <2>4, <2>5, <3>2 DEF Passes
  <2>6. CASE m.bind # Null
    <3> DEFINE ask == Lock(m.name, m.bind)[1]
               own == Lock(m.name, m.bind)[2]
    <3>1. anchor = <<ask, own, rules, deny>>
      BY <2>6, AnchorParts
    <3>2. DOMAIN anchor = 1 .. 4 /\ anchor[1] = ask /\ anchor[2] = own /\ anchor[3] = rules
      BY <3>1
    <3>3. /\ \A r \in ask : r.action = "pass"
          /\ Discovers(x) => \E r \in ask : Matches(result, r, x)
          /\ SpeaksAsItself(m, x) => \A r \in own : ~Matches(result, r, x)
      BY <2>1, <2>2, <2>6, LockPasses
    <3> HIDE DEF anchor, rules, ask, own
    <3>4. CASE \E r \in ask : Matches(result, r, x)
      <4>1. \E k \in DOMAIN anchor :
              /\ \E r \in anchor[k] : r.action = "pass" /\ Matches(result, r, x)
              /\ \A j \in 1 .. k - 1 : \A r \in anchor[j] : ~Matches(result, r, x)
        <5>1. \E r \in anchor[1] : r.action = "pass" /\ Matches(result, r, x)
          BY <3>2, <3>3, <3>4
        <5>2. \A j \in 1 .. 1 - 1 : \A r \in anchor[j] : ~Matches(result, r, x)
          OBVIOUS
        <5>3. 1 \in DOMAIN anchor
          BY <3>2
        <5>4. QED
          BY <5>1, <5>2, <5>3
      <4>2. QED
        BY <4>1 DEF Passes, anchor
    <3>5. CASE ~\E r \in ask : Matches(result, r, x)
      <4>1. SpeaksAsItself(m, x) /\ ~Discovers(x)
        BY <3>3, <3>5
      <4>2. \E r \in anchor[3] : r.action = "pass" /\ Matches(result, r, x)
        BY <2>3, <2>4, <3>2, <4>1
      <4>3. \A j \in 1 .. 3 - 1 : \A r \in anchor[j] : ~Matches(result, r, x)
        BY <3>2, <3>3, <3>5, <4>1
      <4>4. 3 \in DOMAIN anchor
        BY <3>2
      <4>5. QED
        BY <4>2, <4>3, <4>4 DEF Passes, anchor
    <3>6. QED
      BY <3>4, <3>5
  <2>7. QED
    BY <2>5, <2>6
<1>2. QED
  BY <1>1, Builds, PTL

-----------------------------------------------------------------------------
(* Segments and bridges.                                                    *)

\* A port is on the bridge of its name and on no other.
LEMMA OneBridge ==
    ASSUME NEW req \in Requests, NEW p \in req.ports, NEW b \in DOMAIN Tree(req).bridge
    PROVE  (\E m \in Tree(req).bridge[b].member : m.port = p.id) <=> b = BridgeName(p)
<1>1. Tree(req).bridge[b].member = {Member(q) : q \in {o \in req.ports : BridgeName(o) = b}}
  BY DEF Tree
<1>2. \A q : Member(q).port = q.id
  BY DEF Member
<1>3. \A q \in req.ports : q.id = p.id => q = p
  BY RequestsAssumption
<1>4. QED
  BY <1>1, <1>2, <1>3

\* Names and segments are the same if their parts are.
LEMMA PartsTellApart ==
    /\ \A k, a, b : <<k, a>> = <<k, b>> <=> a = b
    /\ \A k, a, b, c, d : <<k, a, c>> = <<k, b, d>> <=> a = b /\ c = d
    /\ \A a, b, c, d :
          [physnet |-> a, vlan |-> c] = [physnet |-> b, vlan |-> d] <=> a = b /\ c = d
<1>1. ASSUME NEW k, NEW a, NEW b PROVE <<k, a>> = <<k, b>> <=> a = b
  <2>1. <<k, a>>[2] = a /\ <<k, b>>[2] = b
    OBVIOUS
  <2>2. QED
    BY <2>1
<1>2. ASSUME NEW k, NEW a, NEW b, NEW c, NEW d
      PROVE  <<k, a, c>> = <<k, b, d>> <=> a = b /\ c = d
  <2>1. <<k, a, c>>[2] = a /\ <<k, b, d>>[2] = b /\ <<k, a, c>>[3] = c /\ <<k, b, d>>[3] = d
    OBVIOUS
  <2>2. QED
    BY <2>1
<1>3. ASSUME NEW a, NEW b, NEW c, NEW d
      PROVE  [physnet |-> a, vlan |-> c] = [physnet |-> b, vlan |-> d] <=> a = b /\ c = d
  <2>1. /\ [physnet |-> a, vlan |-> c].physnet = a /\ [physnet |-> b, vlan |-> d].physnet = b
        /\ [physnet |-> a, vlan |-> c].vlan = c /\ [physnet |-> b, vlan |-> d].vlan = d
    OBVIOUS
  <2>2. QED
    BY <2>1
<1>4. QED
  BY <1>1, <1>2, <1>3

\* Bridges are named apart by type, and within a type by what tells segments apart.
LEMMA NamesTellSegments ==
    ASSUME NEW req \in Requests, NEW p \in req.ports, NEW q \in req.ports,
           p.network_type \in SupportedNetworkTypes, q.network_type \in SupportedNetworkTypes
    PROVE  BridgeName(p) = BridgeName(q) <=>
              /\ p.network_type = q.network_type
              /\ IF p.network_type = "local" THEN p.network_id = q.network_id
                 ELSE Segment(p) = Segment(q)
<1>1. SegmentTypeOK(p) /\ SegmentTypeOK(q)
  BY RequestsAssumption
<1>2. ASSUME NEW o, SegmentTypeOK(o)
      PROVE  /\ o.network_type = "vlan" =>
                   /\ BridgeName(o) = <<"vlan", o.physical_network, o.segmentation_id>>
                   /\ Segment(o) = [physnet |-> o.physical_network, vlan |-> o.segmentation_id]
             /\ o.network_type = "flat" =>
                   /\ BridgeName(o) = <<"flat", o.physical_network>>
                   /\ Segment(o) = [physnet |-> o.physical_network, vlan |-> Null]
             /\ o.network_type = "local" => BridgeName(o) = <<"local", o.network_id>>
  BY <1>2 DEF BridgeName, SegmentTypeOK, Segment
<1> DEFINE np == BridgeName(p)
           nq == BridgeName(q)
           sp == Segment(p)
           sq == Segment(q)
<1> HIDE DEF np, nq, sp, sq
<1>3. CASE p.network_type = "vlan" /\ q.network_type = "vlan"
  <2>1. /\ np = <<"vlan", p.physical_network, p.segmentation_id>>
        /\ nq = <<"vlan", q.physical_network, q.segmentation_id>>
        /\ sp = [physnet |-> p.physical_network, vlan |-> p.segmentation_id]
        /\ sq = [physnet |-> q.physical_network, vlan |-> q.segmentation_id]
    BY <1>1, <1>2, <1>3 DEF np, nq, sp, sq
  <2>2. np = nq <=> sp = sq
    BY <2>1, PartsTellApart
  <2>3. QED
    BY <1>3, <2>2 DEF np, nq, sp, sq
<1>4. CASE p.network_type = "flat" /\ q.network_type = "flat"
  <2>1. /\ np = <<"flat", p.physical_network>> /\ nq = <<"flat", q.physical_network>>
        /\ sp = [physnet |-> p.physical_network, vlan |-> Null]
        /\ sq = [physnet |-> q.physical_network, vlan |-> Null]
    BY <1>1, <1>2, <1>4 DEF np, nq, sp, sq
  <2>2. np = nq <=> sp = sq
    BY <2>1, PartsTellApart
  <2>3. QED
    BY <1>4, <2>2 DEF np, nq, sp, sq
<1>5. CASE p.network_type = "local" /\ q.network_type = "local"
  <2>1. np = <<"local", p.network_id>> /\ nq = <<"local", q.network_id>>
    BY <1>1, <1>2, <1>5 DEF np, nq
  <2>2. np = nq <=> p.network_id = q.network_id
    BY <2>1, PartsTellApart
  <2>3. QED
    BY <1>5, <2>2 DEF np, nq
<1>6. CASE p.network_type # q.network_type
  <2>1. ASSUME NEW o, SegmentTypeOK(o), o.network_type \in SupportedNetworkTypes
        PROVE  BridgeName(o)[1] = o.network_type
    BY <1>2, <2>1 DEF SupportedNetworkTypes
  <2>2. np[1] = p.network_type /\ nq[1] = q.network_type
    BY <1>1, <2>1 DEF np, nq
  <2>3. np # nq
    BY <1>6, <2>2
  <2>4. QED
    BY <1>6, <2>3 DEF np, nq
<1>7. QED
  BY <1>3, <1>4, <1>5, <1>6 DEF SupportedNetworkTypes

\* The bridge of a port the driver binds has the uplink of the port's segment.
LEMMA UplinkOfSegment ==
    ASSUME NEW req \in Requests, NEW p \in req.ports, Binds(req.mappings, p)
    PROVE  Tree(req).bridge[BridgeName(p)].segment =
              IF p.network_type = "local" THEN {} ELSE {Segment(p)}
<1> DEFINE on == {o \in req.ports : BridgeName(o) = BridgeName(p)}
<1>1. Tree(req).bridge[BridgeName(p)].segment = {Segment(q) : q \in {o \in on : Mapped(req, o)}}
  BY DEF Tree
<1>2. p.network_type \in SupportedNetworkTypes
  BY DEF Binds
<1>3. \A q \in on : Mapped(req, q) => q.network_type = p.network_type
  <2>1. ASSUME NEW q \in on, Mapped(req, q) PROVE q.network_type = p.network_type
    <3>1. q.network_type \in SupportedNetworkTypes
      BY <2>1 DEF Mapped, SupportedNetworkTypes
    <3>2. QED
      BY <1>2, <2>1, <3>1, NamesTellSegments
  <2>2. QED
    BY <2>1
<1>4. CASE p.network_type = "local"
  <2>1. \A q \in on : ~Mapped(req, q)
    BY <1>3, <1>4 DEF Mapped
  <2>2. QED
    BY <1>1, <1>4, <2>1
<1>5. CASE p.network_type # "local"
  <2>1. p \in on /\ Mapped(req, p)
    BY <1>2, <1>5 DEF Mapped, Binds, SupportedNetworkTypes
  <2>2. ASSUME NEW q \in on, Mapped(req, q) PROVE Segment(q) = Segment(p)
    <3>1. q.network_type \in SupportedNetworkTypes /\ q.network_type # "local"
      BY <2>2 DEF Mapped, SupportedNetworkTypes
    <3>2. QED
      BY <1>2, <2>2, <3>1, NamesTellSegments
  <2>3. QED
    BY <1>1, <1>5, <2>1, <2>2
<1>6. QED
  BY <1>4, <1>5

\* Every port is a member of one bridge; one on a segment the driver binds here is on a
\* bridge with that segment's uplink, or with none for a local network, and two such
\* ports share a bridge exactly if they share a segment, for any ports and mappings
\* (names.py: bridge_name; port_config.py: build; mech.py: check_segment_for_agent).
THEOREM SegmentsKept == Spec => []SegmentsRealised
<1>1. FromRequest => SegmentsRealised
  <2> SUFFICES ASSUME FromRequest, Built PROVE SegmentsRealised
    BY DEF SegmentsRealised
  <2>1. request \in Requests /\ result = Tree(request)
    BY DEF FromRequest, Built, Config
  <2>2. DOMAIN Tree(request).bridge = {BridgeName(p) : p \in request.ports}
    BY DEF Tree
  <2>3. ASSUME NEW p \in request.ports
        PROVE  Cardinality({b \in DOMAIN result.bridge :
                               \E m \in result.bridge[b].member : m.port = p.id}) = 1
    <3>1. {b \in DOMAIN result.bridge : \E m \in result.bridge[b].member : m.port = p.id}
            = {BridgeName(p)}
      BY <2>1, <2>2, OneBridge
    <3>2. QED
      BY <3>1, FS_Singleton
  <2>4. ASSUME NEW p \in request.ports, Binds(request.mappings, p)
        PROVE  result.bridge[BridgeName(p)].segment
                 = IF p.network_type = "local" THEN {} ELSE {Segment(p)}
    BY <2>1, <2>4, UplinkOfSegment
  <2>5. ASSUME NEW p \in request.ports, NEW q \in request.ports,
               Binds(request.mappings, p), Binds(request.mappings, q)
        PROVE  BridgeName(p) = BridgeName(q) <=>
                  /\ p.network_type = q.network_type
                  /\ IF p.network_type = "local" THEN p.network_id = q.network_id
                     ELSE Segment(p) = Segment(q)
    BY <2>1, <2>5, NamesTellSegments DEF Binds
  <2>6. QED
    BY <2>3, <2>4, <2>5 DEF SegmentsRealised
<1>2. QED
  BY <1>1, Builds, PTL

-----------------------------------------------------------------------------
(* What can be built.                                                       *)

NoIcmpNamed(req) == \A p \in req.ports : ~\E r \in RulesOf(req, p) : IcmpNamed(r)

\* A rule with a range of ports is one of tcp or udp, and the range is one of ports.
LEMMA RangesOfPorts ==
    ASSUME NEW req \in Requests, NoIcmpNamed(req), NEW p \in req.ports,
           NEW r \in RulesOf(req, p), Expressible(r)
    PROVE  /\ PortOK(Body(r).port)
           /\ Body(r).port # Null => Body(r).proto \in {"tcp", "udp"}
<1>1. RuleTypeOK(req, r) /\ ~IcmpNamed(r)
  BY RequestsAssumption DEF NoIcmpNamed
<1>2. Body(r).port = PortValue(r) /\ Body(r).proto = (IF r.protocol = Null THEN Null ELSE Proto[r.protocol])
  BY DEF Body
<1>3. CASE r.min = Null
  BY <1>2, <1>3 DEF PortValue, PortOK
<1>4. CASE r.min # Null
  <2>1. r.protocol \in {"tcp", "udp"} /\ r.protocol # Null
    BY <1>1, <1>4 DEF IcmpNamed, RuleTypeOK
  <2>2. Body(r).proto \in {"tcp", "udp"}
    BY <1>2, <2>1 DEF Proto
  <2>3. PICK last \in r.min .. 65535 : r.min >= 1 /\ r.max \in {Null, last}
    BY <1>1, <1>4, <2>1 DEF RuleTypeOK
  <2>4. r.min \in Nat
    BY <1>1, <1>4 DEF RuleTypeOK
  <2>5. PortValue(r) = IF r.max = Null \/ r.max = r.min THEN <<r.min, r.min>> ELSE <<r.min, r.max>>
    BY <1>4 DEF PortValue
  <2>6. PortOK(PortValue(r))
    BY <2>3, <2>4, <2>5 DEF PortOK
  <2>7. QED
    BY <1>2, <2>2, <2>6
<1>5. QED
  BY <1>3, <1>4

\* Whatever a rule refers to is in the configuration.
LEMMA RefsResolve ==
    ASSUME NEW req \in Requests, NEW p \in req.ports, HasFilter(p),
           NEW r \in RulesOf(req, p), Expressible(r)
    PROVE  RefOK(Tree(req), Body(r).from) /\ RefOK(Tree(req), Body(r).to)
<1>1. RefOK(Tree(req), Null)
  BY DEF RefOK
<1>2. RefOK(Tree(req), Remote(r))
  <2>1. CASE r.prefix = Null /\ r.group # Null
    <3>1. Remote(r) = [table |-> r.group]
      BY <2>1 DEF Remote
    <3>2. r.group \in DOMAIN Tree(req).table
      BY <2>1 DEF Tree, TablesUsed
    <3>3. QED
      BY <3>1, <3>2 DEF RefOK
  <2>2. CASE r.prefix # Null
    <3>1. Remote(r) = [prefix |-> r.prefix] /\ "table" \notin DOMAIN [prefix |-> r.prefix]
      BY <2>2 DEF Remote
    <3>2. QED
      BY <3>1 DEF RefOK
  <2>3. CASE r.prefix = Null /\ r.group = Null
    BY <1>1, <2>3 DEF Remote
  <2>4. QED
    BY <2>1, <2>2, <2>3
<1>3. Body(r).from \in {Null, Remote(r)} /\ Body(r).to \in {Null, Remote(r)}
  BY DEF Body
<1>4. QED
  BY <1>1, <1>2, <1>3

\* A filter passes the model's checks, and its ranges are of tcp or udp.
LEMMA FilterBuildable ==
    ASSUME NEW req \in Requests, NoIcmpNamed(req), NEW p \in req.ports, HasFilter(p)
    PROVE  /\ FilterOK(Tree(req), FilterOf(req, p))
           /\ \A b \in FilterOf(req, p).in \cup FilterOf(req, p).out :
                 b.port # Null => b.proto \in {"tcp", "udp"}
<1>1. ASSUME NEW b \in Infra(67) \cup Infra(68)
      PROVE  /\ PortOK(b.port) /\ RefOK(Tree(req), b.from) /\ RefOK(Tree(req), b.to)
             /\ b.port # Null => b.proto \in {"tcp", "udp"}
  BY <1>1 DEF Infra, PortOK, RefOK
<1>2. ASSUME NEW b \in Rendered(req, p, "ingress") \cup Rendered(req, p, "egress")
      PROVE  /\ PortOK(b.port) /\ RefOK(Tree(req), b.from) /\ RefOK(Tree(req), b.to)
             /\ b.port # Null => b.proto \in {"tcp", "udp"}
  <2>1. PICK r \in RulesOf(req, p) : Expressible(r) /\ b = Body(r)
    BY <1>2 DEF Rendered
  <2>2. QED
    BY <2>1, RangesOfPorts, RefsResolve
<1>3. QED
  BY <1>1, <1>2 DEF FilterOK, FilterOf

LEMMA SchemaHolds ==
    ASSUME NEW req \in Requests, NoIcmpNamed(req)
    PROVE  SchemaOK(Tree(req))
<1> DEFINE tree == Tree(req)
<1>1. ASSUME NEW f \in DOMAIN tree.filter PROVE FilterOK(tree, tree.filter[f])
  <2>1. PICK p \in req.ports : HasFilter(p) /\ f = p.id
    BY <1>1 DEF Tree
  <2>2. (CHOOSE q \in req.ports : q.id = f) = p
    BY <2>1, RequestsAssumption
  <2>3. tree.filter[f] = FilterOf(req, p)
    BY <1>1, <2>2 DEF Tree
  <2>4. QED
    BY <2>1, <2>3, FilterBuildable
<1>2. ASSUME NEW b \in DOMAIN tree.bridge, NEW s \in tree.bridge[b].segment
      PROVE  SegmentOK(s) /\ s.physnet \in DOMAIN tree.physnet
  <2>1. PICK p \in req.ports : Mapped(req, p) /\ s = Segment(p)
    BY <1>2 DEF Tree
  <2>2. s.physnet = p.physical_network /\ s.vlan = (IF p.network_type = "vlan" THEN p.segmentation_id ELSE Null)
    BY <2>1 DEF Segment
  <2>3. s.physnet \in DOMAIN tree.physnet
    BY <2>1, <2>2 DEF Tree
  <2>4. SegmentTypeOK(p) /\ Null \notin DOMAIN req.mappings
    BY RequestsAssumption
  <2>5. SegmentOK(s)
    BY <2>1, <2>2, <2>4 DEF SegmentOK, SegmentTypeOK, Mapped
  <2>6. QED
    BY <2>3, <2>5
<1>3. ASSUME NEW b \in DOMAIN tree.bridge, NEW m \in tree.bridge[b].member
      PROVE  m.filter \in {Null} \cup DOMAIN tree.filter
  <2>1. PICK p \in req.ports : m = Member(p)
    BY <1>3 DEF Tree
  <2>2. m.filter = IF HasFilter(p) THEN p.id ELSE Null
    BY <2>1 DEF Member
  <2>3. DOMAIN tree.filter = {q.id : q \in {o \in req.ports : HasFilter(o)}}
    BY DEF Tree
  <2>4. QED
    BY <2>2, <2>3
<1>4. QED
  BY <1>1, <1>2, <1>3 DEF SchemaOK

\* The anchor of a filter whose ranges are of tcp or udp is one pf takes.
LEMMA AnchorLoads ==
    ASSUME NEW tree, NEW m, m.filter # Null,
           \A b \in tree.filter[m.filter].in \cup tree.filter[m.filter].out :
              b.port # Null => b.proto \in {"tcp", "udp"}
    PROVE  Loads(Anchor(tree, m))
<1> DEFINE Takes(rules) == \A r \in rules : r.port # Null => r.proto \in {"tcp", "udp"}
           rules == FilterRules(tree, m.filter)
           deny == {Deny("out"), Deny("in")}
           anchor == Anchor(tree, m)
<1>1. Takes(rules)
  BY DEF FilterRules, RenderRule
<1>2. Takes(deny)
  BY DEF Deny
<1>3. CASE m.bind = Null
  <2>1. anchor = <<rules, deny>>
    BY <1>3, AnchorParts
  <2> HIDE DEF rules, deny, anchor
  <2>2. \A k \in DOMAIN anchor : anchor[k] \in {rules, deny}
    BY <2>1
  <2>3. \A k \in DOMAIN anchor : Takes(anchor[k])
    BY <1>1, <1>2, <2>2
  <2>4. QED
    BY <2>3 DEF Loads, anchor
<1>4. CASE m.bind # Null
  <2> DEFINE ask == Lock(m.name, m.bind)[1]
             own == Lock(m.name, m.bind)[2]
  <2>1. anchor = <<ask, own, rules, deny>>
    BY <1>4, AnchorParts
  <2>2. Takes(ask) /\ Takes(own)
    BY <1>4 DEF Lock
  <2> HIDE DEF rules, deny, anchor, ask, own
  <2>3. \A k \in DOMAIN anchor : anchor[k] \in {ask, own, rules, deny}
    BY <2>1
  <2>4. \A k \in DOMAIN anchor : Takes(anchor[k])
    BY <1>1, <1>2, <2>2, <2>3
  <2>5. QED
    BY <2>4 DEF Loads, anchor
<1>5. QED
  BY <1>3, <1>4

\* Whatever the groups of whatever ports say, short of naming an icmp type, the builder's
\* configuration passes the model's checks and pf takes its anchors, so one port's rules
\* never cost another its configuration (port_config.py: sg_rules_for_port; model.py:
\* from_tree; pf.py: render).
THEOREM GroupsBuild == Spec => []Buildable
<1>1. FromRequest => Buildable
  <2> SUFFICES ASSUME FromRequest, NoIcmpNamed(request)
               PROVE  result # SchemaError /\ (Built => AnchorsLoad)
    BY DEF Buildable, NoIcmpNamed
  <2>1. request \in Requests /\ result \in {Null, Config(request)}
    BY DEF FromRequest
  <2>2. Config(request) = Tree(request)
    BY <2>1, SchemaHolds DEF Config
  <2>3. result # SchemaError
    <3>1. "physnet" \in DOMAIN Tree(request)
      BY DEF Tree
    <3>2. "physnet" \notin DOMAIN SchemaError
      BY DEF SchemaError
    <3>3. Null # SchemaError
      BY NullAssumption DEF SchemaError
    <3>4. QED
      BY <2>1, <2>2, <3>1, <3>2, <3>3
  <2>4. ASSUME Built, NEW m \in Members, m.filter # Null PROVE Loads(Anchor(result, m))
    <3>1. PICK p \in request.ports :
            HasFilter(p) /\ result.filter[m.filter] = FilterOf(request, p)
      BY <2>4, MemberOfPort
    <3>2. QED
      BY <2>1, <2>4, <3>1, FilterBuildable, AnchorLoads
  <2>5. QED
    BY <2>3, <2>4 DEF AnchorsLoad
<1>2. QED
  BY <1>1, Builds, PTL
=============================================================================
