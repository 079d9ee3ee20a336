----------------------------- MODULE L3Reconcile -----------------------------
(***************************************************************************)
(* The l3 agent's reconcile pass (l3_agent/reconcile.py): per router a     *)
(* jail that forwards, an epair per port, the routes of the spec and the   *)
(* pf rules that translate floating ips and snat.  The pass ensures one    *)
(* router after the other and then collects what is not asked for.  When   *)
(* passes are run, and what is reported, is the subject of L3Agent.        *)
(*                                                                         *)
(* In the kernel a route leads through one epair: the one whose address    *)
(* covers the next hop when the route is added.  It goes when that epair   *)
(* goes, and may go when the epair's addresses change.  Neither netstat's  *)
(* text as the pass reads it nor the spec says which epair that is.        *)
(***************************************************************************)
EXTENDS Jail, Router

CONSTANTS
    Off,            \* a router that is not scheduled to this host
    Configs,        \* answers of sync_routers: the body of each router, or Off
    Destinations, NextHops,
    Covers,         \* the prefixes (and so the addresses) that reach each next hop
    NoFile,         \* no pf.conf, no rules loaded
    MaxDesires      \* bound on the changes of the desire

Routers == Jails
Specs(c) == [r \in Routers |-> IF c[r] = Off THEN Off ELSE FromRpc(c[r])]
Goals == {Specs(c) : c \in Configs}

Scheduled(c) == {r \in Routers : c[r] # Off}
WantedIfs(c) == UNION {{p.id : p \in Ports(c[r])} : r \in Scheduled(c)}

ASSUME PortsAssumption ==
    \A g \in Goals : \A r \in Scheduled(g) : \A p \in Ports(g[r]) :
        /\ p.id \in Ifs /\ InJail[p.id] = r
        /\ AddressOf(g[r], p) \in Addresses
        /\ \A q \in Ports(g[r]) : p.id = q.id => p = q

\* The kernel holds one route per destination.
ASSUME RoutesAssumption ==
    \A g \in Goals : \A r \in Scheduled(g) :
        /\ Routes(g[r]) \subseteq Destinations \X NextHops
        /\ \A x, y \in Routes(g[r]) : x[1] = y[1] => x = y

VARIABLES
    want,       \* the specs the next pass gets
    goal,       \* the specs of the running pass: desired
    left,       \* what the current loop of the pass has not come to yet
    rtr,        \* the router being ensured
    ports,      \* its ports that are still to be ensured
    port,       \* the port being ensured
    complete,
    orders,     \* the route commands the pass has yet to give
    route,      \* routes of each jail: destination, next hop and epair
    forwarding, \* jails that forward
    enabled,    \* jails whose pf is enabled
    pf,         \* the rules loaded in each jail
    file,       \* pf.conf of each router
    desires

passVars == <<at, unit, seen, failed, goal, left, rtr, ports, port, complete, orders>>
inner == <<route, forwarding, enabled, pf>>
rest == <<want, desires, others, touched>>
vars == <<plane, passVars, inner, file, rest, faults>>

Steps == {"idle", "routers", "jail", "forwarding", "ports", "epair", "create",
          "namehost", "move", "namejail", "named", "addrs", "routes", "orders",
          "write", "enable", "load", "destroy", "remove", "purge"}

Orders == [do : {"delete", "add"}, dest : Destinations, hop : NextHops]

PlaceTypeOK ==
    /\ at \in Steps
    /\ left \subseteq Routers /\ rtr \in Routers \cup {Null}
    /\ want \in Goals /\ goal \in Goals
    /\ rtr # Null => ports \subseteq Ports(goal[rtr]) /\ port \in Ports(goal[rtr]) \cup {Null}
    /\ complete \in BOOLEAN /\ orders \subseteq Orders

\* ... and from the time pf.conf is written until it is loaded it holds what the spec
\* asks for, also when the spec has changed since a pass that died.
TypeOK ==
    /\ JailTypeOK /\ PlaceTypeOK
    /\ at \in {"enable", "load"} => file[rtr] = PfText(goal[rtr])
    /\ route \in [Routers -> SUBSET (Destinations \X NextHops \X Units)]
    /\ forwarding \subseteq jail /\ enabled \subseteq jail
    /\ \A r \in Routers : r \notin jail => route[r] = {} /\ pf[r] = NoFile
    /\ \A r \in Routers : \A x \in route[r] : jailEnd[x[3]] \in {r} \X (JailIfs \cup {Raw})
    /\ desires \in Nat

Init ==
    /\ JailInit /\ at = "idle"
    /\ want \in Goals /\ goal = want
    /\ left = {} /\ rtr = Null /\ ports = {} /\ port = Null
    /\ complete = TRUE /\ orders = {}
    /\ route = [r \in Routers |-> {}] /\ forwarding = {} /\ enabled = {}
    /\ pf = [r \in Routers |-> NoFile] /\ file = [r \in Routers |-> NoFile]
    /\ desires = 0

-----------------------------------------------------------------------------
(* The kernel inside the jails.                                             *)

\* What is left of the routes when epairs come and go.
Follow ==
    route' = [r \in Routers |->
                 {x \in route[r] : jailEnd'[x[3]] \in {r} \X (JailIfs \cup {Raw})}]

\* A jail that goes takes all there is in it along.
JailTakesAll ==
    /\ forwarding' = forwarding \cap jail'
    /\ enabled' = enabled \cap jail'
    /\ pf' = [r \in Routers |-> IF r \in jail' THEN pf[r] ELSE NoFile]

KernelFollows == Follow /\ JailTakesAll

Reaches(u, hop) == addr[u] # NoAddress /\ \E x \in addr[u].inets : x[2] \in Covers[hop]

\* The epairs a route of r by way of hop could lead through.
Through(r, hop) ==
    {u \in Units : jailEnd[u] \in {r} \X (JailIfs \cup {Raw}) /\ Reaches(u, hop)}

Known(r) == {<<x[1], x[2]>> : x \in route[r]}

\* acts.do in a router's jail.
Exec(possible, effect) ==
    \/ rtr \in jail /\ possible /\ effect /\ UNCHANGED <<failed, faults>>
    \/ /\ IF rtr \in jail /\ possible THEN Fault ELSE UNCHANGED faults
       /\ failed' = TRUE
       /\ UNCHANGED inner

-----------------------------------------------------------------------------
(* Ways the pass could have been written wrong; none is used by Next.       *)

\* Routes that the spec does not have are left alone.
NoDeletes(have, wanted) ==
    {[do |-> "add", dest |-> x[1], hop |-> x[2]] : x \in wanted \ have}

\* Every route is made anew.
AllOrders(have, wanted) ==
    {[do |-> "delete", dest |-> x[1], hop |-> x[2]] : x \in have}
      \cup {[do |-> "add", dest |-> x[1], hop |-> x[2]] : x \in wanted}

\* A pf.conf that is there is not written again.
WriteOnce ==
    /\ at = "write" /\ at' = "enable"
    /\ file' = [file EXCEPT ![rtr] = IF @ = NoFile THEN PfText(goal[rtr]) ELSE @]
    /\ UNCHANGED <<plane, unit, seen, failed, goal, left, rtr, ports, port, complete,
                   orders, inner, rest, faults>>

\* Any rules will do.
AnyRules == pf[rtr] # NoFile

-----------------------------------------------------------------------------
(* One pass: every router in turn.                                          *)

StartPass ==
    /\ at = "idle" /\ at' = "routers"
    /\ seenJails' = jail
    /\ seenIfs' = {i \in Ifs : HaveHost(i)}
    /\ left' = Scheduled(goal)
    /\ failed' = FALSE /\ touched' = FALSE
    /\ UNCHANGED <<plane, unit, goal, rtr, ports, port, complete, orders, inner,
                   file, want, desires, others, faults>>

NextRouter(r) ==
    /\ at = "routers" /\ r \in left
    /\ left' = left \ {r} /\ rtr' = r
    /\ at' = "jail"
    /\ UNCHANGED <<plane, unit, seen, failed, goal, ports, port, complete, orders,
                   inner, file, rest, faults>>

\* A router whose jail cannot be had is left for the next pass.
EnsureJail ==
    /\ JailSeen(rtr, "forwarding") \/ CreateJail(rtr, "forwarding", "routers")
    /\ KernelFollows
    /\ UNCHANGED <<goal, left, rtr, ports, port, complete, orders, file, rest>>

EnableForwarding ==
    /\ at = "forwarding" /\ at' = "ports"
    /\ ports' = Ports(goal[rtr]) /\ complete' = TRUE
    /\ IF rtr \in forwarding
         THEN UNCHANGED <<inner, failed, faults>>
         ELSE Exec(TRUE, forwarding' = forwarding \cup {rtr}
                           /\ UNCHANGED <<route, enabled, pf>>)
    /\ UNCHANGED <<plane, unit, seen, goal, left, rtr, port, orders, file, rest>>

\* The gateway is ensured first.
NextPort(p) ==
    /\ at = "ports" /\ p \in ports
    /\ GatewayPort(goal[rtr]) \cap ports \subseteq {p}
    /\ ports' = ports \ {p} /\ port' = p
    /\ at' = "epair"
    /\ UNCHANGED <<plane, unit, seen, failed, goal, left, rtr, complete, orders,
                   inner, file, rest, faults>>

\* jail.py on the port.  A port whose epair cannot be had is left out.
Plumb ==
    /\ port # Null
    /\ \/ /\ EnsureEpair(port.id, "addrs", "ports")
          /\ complete' = (complete /\ at' # "ports")
          /\ Follow
       \/ /\ EnsureAddrs(port.id, AddressOf(goal[rtr], port), "ports")
          /\ UNCHANGED complete
          /\ \/ UNCHANGED route
             \/ /\ addr' # addr
                /\ route' = [route EXCEPT ![rtr] = {x \in @ : addr'[x[3]] = addr[x[3]]}]
    /\ UNCHANGED <<goal, left, rtr, ports, port, orders, forwarding, enabled, pf,
                   file, rest>>

\* Routes only once every port is there.
PortsDone ==
    /\ at = "ports" /\ ports = {}
    /\ at' = IF complete THEN "routes" ELSE "write"
    /\ port' = Null
    /\ UNCHANGED <<plane, unit, seen, failed, goal, left, rtr, ports, complete,
                   orders, inner, file, rest, faults>>

\* The routes there are and the wanted ones are compared once.
RouteOrders(have, wanted) ==
    {[do |-> "delete", dest |-> x[1], hop |-> x[2]] : x \in have \ wanted}
      \cup {[do |-> "add", dest |-> x[1], hop |-> x[2]] : x \in wanted \ have}

ReadRoutes ==
    /\ at = "routes" /\ at' = "orders"
    /\ orders' = RouteOrders(Known(rtr), Routes(goal[rtr]))
    /\ UNCHANGED <<plane, unit, seen, failed, goal, left, rtr, ports, port, complete,
                   inner, file, rest, faults>>

\* A route is deleted by its destination alone, and added if its destination has none
\* and its next hop can be reached.
DeleteRoute(o) ==
    LET named == {x \in route[rtr] : x[1] = o.dest} IN
    Exec(named # {}, route' = [route EXCEPT ![rtr] = @ \ named]
                       /\ UNCHANGED <<forwarding, enabled, pf>>)

AddRoute(o) ==
    IF Through(rtr, o.hop) = {} THEN Exec(FALSE, UNCHANGED inner)
    ELSE \E u \in Through(rtr, o.hop) :
           Exec(\A x \in route[rtr] : x[1] # o.dest,
                route' = [route EXCEPT ![rtr] = @ \cup {<<o.dest, o.hop, u>>}]
                  /\ UNCHANGED <<forwarding, enabled, pf>>)

\* Deletes come first.
GiveOrder(o) ==
    /\ at = "orders" /\ o \in orders
    /\ orders' = orders \ {o}
    /\ \/ o.do = "delete" /\ DeleteRoute(o)
       \/ /\ o.do = "add" /\ \A x \in orders : x.do = "add"
          /\ AddRoute(o)
    /\ UNCHANGED <<plane, at, unit, seen, goal, left, rtr, ports, port, complete,
                   file, rest>>

OrdersDone ==
    /\ at = "orders" /\ orders = {} /\ at' = "write"
    /\ UNCHANGED <<plane, unit, seen, failed, goal, left, rtr, ports, port, complete,
                   orders, inner, file, rest, faults>>

WritePf ==
    /\ at = "write" /\ at' = "enable"
    /\ file' = [file EXCEPT ![rtr] = PfText(goal[rtr])]
    /\ UNCHANGED <<plane, unit, seen, failed, goal, left, rtr, ports, port, complete,
                   orders, inner, rest, faults>>

EnablePf ==
    /\ at = "enable" /\ at' = "load"
    /\ IF rtr \in enabled
         THEN UNCHANGED <<inner, failed, faults>>
         ELSE Exec(TRUE, enabled' = enabled \cup {rtr}
                           /\ UNCHANGED <<route, forwarding, pf>>)
    /\ UNCHANGED <<plane, unit, seen, goal, left, rtr, ports, port, complete, orders,
                   file, rest>>

\* The hash among the rules that are loaded.
UpToDate == pf[rtr] = PfText(goal[rtr])

LoadPf ==
    /\ at = "load" /\ at' = "routers" /\ rtr' = Null
    /\ IF UpToDate
         THEN UNCHANGED <<inner, failed, faults>>
         ELSE Exec(TRUE, pf' = [pf EXCEPT ![rtr] = file[rtr]]
                           /\ UNCHANGED <<route, forwarding, enabled>>)
    /\ UNCHANGED <<plane, unit, seen, goal, left, ports, port, complete, orders,
                   file, rest>>

-----------------------------------------------------------------------------
(* The same pass: what is not asked for goes.                               *)

Undesired == seenJails \ Scheduled(goal)
UndesiredIfs == seenIfs \ WantedIfs(goal)

\* What runs in the jails that go is killed first; a pkill may fail.
StartCollect ==
    /\ at = "routers" /\ left = {}
    /\ at' = "destroy"
    /\ \/ UNCHANGED <<failed, faults>>
       \/ Undesired # {} /\ Fault /\ failed' = TRUE
    /\ UNCHANGED <<plane, unit, seen, goal, left, rtr, ports, port, complete, orders,
                   inner, file, rest>>

DestroyUndesired ==
    /\ \E i \in UndesiredIfs : DestroyEpair(i)
    /\ Follow
    /\ UNCHANGED <<goal, left, rtr, ports, port, complete, orders, forwarding,
                   enabled, pf, file, rest>>

StartRemove ==
    /\ at = "destroy" /\ UndesiredIfs = {}
    /\ at' = "remove" /\ left' = Undesired
    /\ UNCHANGED <<plane, unit, seen, failed, goal, rtr, ports, port, complete,
                   orders, inner, file, rest, faults>>

RemoveJail(j) ==
    /\ at = "remove" /\ j \in left
    /\ left' = left \ {j}
    /\ \/ /\ j \in jail /\ JailGoes(j) /\ KernelFollows
          /\ UNCHANGED <<failed, faults>>
       \/ /\ IF j \in jail THEN Fault ELSE UNCHANGED faults
          /\ failed' = TRUE
          /\ UNCHANGED <<plane, inner>>
    /\ UNCHANGED <<at, unit, seen, goal, rtr, ports, port, complete, orders, file, rest>>

RemoveState ==
    /\ at = "remove" /\ left = {} /\ at' = "purge"
    /\ file' = [r \in Routers |-> IF r \in Scheduled(goal) THEN file[r] ELSE NoFile]
    /\ UNCHANGED <<plane, unit, seen, failed, goal, left, rtr, ports, port, complete,
                   orders, inner, rest, faults>>

Done == at = "purge"

Forgotten ==
    /\ at' = "idle" /\ goal' = want /\ left' = {} /\ rtr' = Null /\ ports' = {}
    /\ port' = Null /\ complete' = TRUE /\ orders' = {} /\ unit' = Nowhere
    /\ seenJails' = {} /\ seenIfs' = {} /\ failed' = FALSE /\ touched' = FALSE

\* The pass returns; the next one starts with what the server asks for by then.
EndPass ==
    /\ Done /\ Forgotten
    /\ UNCHANGED <<plane, inner, file, want, desires, others, faults>>

-----------------------------------------------------------------------------
(* Accidents and the others.                                                *)

\* The agent dies and starts over.
Crash ==
    /\ at # "idle" /\ Fault /\ Forgotten
    /\ UNCHANGED <<plane, inner, file, want, desires, others>>

\* The host goes down: only the files stay.
Reboot ==
    /\ Fault /\ Forgotten
    /\ jail' = {} /\ Destroy(Units) /\ KernelFollows
    /\ UNCHANGED <<file, want, desires, others>>

Desire(g) ==
    /\ desires < MaxDesires /\ g # want
    /\ desires' = desires + 1
    /\ want' = g
    /\ goal' = IF at = "idle" THEN g ELSE goal
    /\ UNCHANGED <<plane, at, unit, seen, failed, left, rtr, ports, port, complete,
                   orders, inner, file, others, touched, faults>>

\* Someone stops what makes a jail a router.
OperatorMeddles(r) ==
    /\ Other /\ r \in jail
    /\ \/ forwarding' = forwarding \ {r} /\ UNCHANGED <<route, enabled, pf>>
       \/ enabled' = enabled \ {r} /\ UNCHANGED <<route, forwarding, pf>>
       \/ pf' = [pf EXCEPT ![r] = NoFile] /\ UNCHANGED <<route, forwarding, enabled>>
       \/ /\ \E x \in route[r] : route' = [route EXCEPT ![r] = @ \ {x}]
          /\ UNCHANGED <<forwarding, enabled, pf>>
    /\ UNCHANGED <<plane, passVars, file, want, desires, faults>>

OperatorRemovesJail(r) ==
    /\ Other /\ r \in jail
    /\ JailGoes(r) /\ KernelFollows
    /\ UNCHANGED <<passVars, file, want, desires, faults>>

OperatorTouchesEpair(i) ==
    /\ OperatorDestroysEpair(i) \/ OperatorMangles(i)
    /\ Follow
    /\ UNCHANGED <<goal, left, rtr, ports, port, complete, orders, forwarding,
                   enabled, pf, file, want, desires>>

-----------------------------------------------------------------------------

Pass ==
    \/ StartPass \/ (\E r \in Routers : NextRouter(r)) \/ EnsureJail
    \/ EnableForwarding \/ (\E p \in ports : NextPort(p)) \/ Plumb \/ PortsDone
    \/ ReadRoutes \/ (\E o \in orders : GiveOrder(o)) \/ OrdersDone
    \/ WritePf \/ EnablePf \/ LoadPf
    \/ StartCollect \/ DestroyUndesired \/ StartRemove
    \/ (\E r \in Routers : RemoveJail(r)) \/ RemoveState \/ EndPass

Others ==
    \/ \E g \in Goals : Desire(g)
    \/ \E r \in Routers : OperatorMeddles(r) \/ OperatorRemovesJail(r)
    \/ \E i \in Ifs : OperatorTouchesEpair(i)

Next == Pass \/ Crash \/ Reboot \/ Others

\* A pass goes on to its end and another one follows, at the latest when the
\* interval has elapsed (l3_agent/agent.py: run).
Spec == Init /\ [][Next]_vars /\ WF_vars(Pass)

-----------------------------------------------------------------------------
(* Properties.                                                              *)

Plumbed(r, s, p) ==
    /\ r \in jail
    /\ Spans(p.id) /\ HasAddress(p.id, AddressOf(s, p))
    /\ HostUnit(p.id) \cap mangled = {}

\* Everything about a router but its routes.
Assembled(r, s) ==
    /\ r \in jail /\ r \in forwarding /\ r \in enabled
    /\ \A p \in Ports(s) : Plumbed(r, s, p)
    /\ pf[r] = PfText(s) /\ file[r] = PfText(s)

\* Nothing is on the host that specs c do not ask for.
NothingElse(c) ==
    /\ jail = Scheduled(c)
    /\ \A i \in Ifs \ WantedIfs(c) : ~HaveHost(i)
    /\ \A r \in Routers \ Scheduled(c) : file[r] = NoFile
    /\ \A r \in Scheduled(c) : Known(r) \subseteq Routes(c[r])

AsDesired(c) ==
    /\ NothingElse(c)
    /\ \A r \in Scheduled(c) : Assembled(r, c[r]) /\ Known(r) = Routes(c[r])

\* A pass whose receipts are all ok, with nobody else at work on the host, has every
\* route in place when it begins to collect, and leaves every router assembled and
\* nothing that is not asked for, whatever half-finished passes and reboots came before,
\* where half an epair can be destroyed and no two ports share a name in a jail.
CleanPassReconciles ==
    ~failed /\ ~touched =>
        /\ at = "routers" /\ left = {} =>
              \A r \in Scheduled(goal) : Known(r) = Routes(goal[r])
        /\ Done => NothingElse(goal) /\ \A r \in Scheduled(goal) : Assembled(r, goal[r])

\* A route is taken away only by a spec without it or with its epair: of a router that
\* is as asked for, ports, forwarding, pf and the routes through the wanted ports stay
\* during every pass.
RouterKept ==
    [][others' = others /\ faults' = faults =>
          \A r \in Scheduled(goal) : \A s \in {goal[r]} :
              /\ r \in forwarding => r \in forwarding'
              /\ r \in enabled /\ pf[r] = PfText(s) => r \in enabled' /\ pf'[r] = PfText(s)
              /\ \A p \in Ports(s) : Plumbed(r, s, p) =>
                    /\ Plumbed(r, s, p)'
                    /\ \A x \in route[r] :
                          x[3] \in JailUnit(p.id) /\ <<x[1], x[2]>> \in Routes(s)
                            => x \in route'[r]]_vars

\* When the others leave the host alone it becomes and stays what is asked for, from
\* whatever state crashes, reboots and failed commands have left.
Converges == <>[]AsDesired(want)

-----------------------------------------------------------------------------
(* What the repository says and the code does not do (see README.md).       *)

\* l3_agent/reconcile.py:37, "Reconcile the l3 plane to a list of Router specs": after
\* a clean pass the routes are those of the specs.
RoutesAsSpecified ==
    Done /\ ~failed /\ ~touched =>
        \A r \in Scheduled(goal) : Known(r) = Routes(goal[r])
=============================================================================
