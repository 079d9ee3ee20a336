# A TLA+ model of neutron-bsdbridge

neutron-bsdbridge connects OpenStack's Neutron to FreeBSD hosts: bridges and
taps for the ports of instances, pf anchors for their security groups, VNET
jails for dhcp and routers. This directory models the agents that run on a
host, checks the models with TLC and proves some of their properties with TLAPS.

Paths below are relative to `src/neutron_bsdbridge/`, tests to `tests/`.

## 1. The system

| Component | State it keeps | Operations | Hard because of |
|---|---|---|---|
| **l2 agent** `l2_agent/agent.py` | `_candidates`, `_misses`, `_devices_up`, `_dirty`; `devices.json` | handlers `port_update`, `port_delete`, `binding_activate`, `binding_deactivate`, `network_update`, `security_groups_*`; `_devd_loop`; `_sync`, `sync_if_needed`, `_retry`; recovery at boot | handlers run wherever `_sync` waits; failing RPCs; crashes; lost notifications and devd events |
| **l2 reconcile pass** `l2_agent/{reconcile,plan,writer}.py` | none of its own; bridges, interfaces, memberships, MAC locks in the kernel | read, `diff` into a `Plan` of typed ops in four phases, `apply_plan` op by op without stopping | the kernel changes after it was read; an op fails or is several commands; a crash anywhere; ops planned apart must not undo each other |
| **pf anchors** `l2_agent/pf.py` | one anchor per port, its tables, its states | render, read back, load, replace, flush, kill states | rules and states are changed by different commands |
| **port configuration** `l2_agent/{port_config,model}.py` | none | RPC data to a validated `Config` | pure; truncated names, numbering |
| **interface reader** `ifconfig.py` | none | run and parse `ifconfig` | pure, but many commands make one read |
| **names** `names.py`, **mechanism driver** `mech.py` | none | naming; callbacks in the server | pure |
| **jails and epairs** `jail.py` | VNET jails, epairs in the kernel | `ensure_jail`, `ensure_epair`, `ensure_addrs`, `collect` | six commands make an epair; each may fail, each may be the last |
| **dhcp reconcile pass** `dhcp_agent/{reconcile,dnsmasq}.py` | files `hosts`, `opts`, `cmd`, `pid` per network; dnsmasq | files, jail, epair, addresses, process, collection | files, processes and jails are lost at different times; pid files go stale |
| **dhcp agent** `dhcp_agent/agent.py` | `_dirty`, `_ready` | handlers, own port at the server, `_sync` | one report per port; calls that take effect without an answer; a port that cannot be had or refitted |
| **l3 reconcile pass** `l3_agent/reconcile.py` | jails, epairs, routes, forwarding, pf and `pf.conf` of each router | jail, ports, routes, pf, collection | routes depend on interfaces the pass replaces; commands name a destination only |
| **router specification** `l3_agent/router.py` | none | RPC data to a `Router`, its addresses, routes, `pf.conf` | pure |
| **l3 agent** `l3_agent/agent.py` | `_dirty`, `_fip_statuses` | handlers, `_sync`, status report | a report that is made once, by difference |
| **configuration, constants, helpers** | none | `write_if_changed`, subprocess wrapper | |

How they interact. The agents never call each other. They meet in the kernel:
the dhcp and l3 agents make epairs, describe them with a port id and put them
into a group; the l2 agent finds them by that group, asks the server about the
port and makes the epair a member of the segment's bridge. Devd tells the l2
agent that an interface came or went. The server tells every agent by RPC that
something changed; the handlers only mark the state dirty (the l2 agent's also
keep a set of port ids), and the one loop of each agent fetches everything
again, reconciles and reports. All three loops are alike: `_dirty` is cleared
before the pass, a failed pass sets it again and backs off, and every
`sync_interval` a pass runs without being asked for.

What makes each part correct:

* *l2 agent* - no request for a pass is lost; no port is forgotten while the
  server still holds it for bound here; what is reported up is attached; the
  server's status, reset by every fetch, is restored by every pass; a restart
  finds everything again; unresolvable ports are dropped in the end.
* *l2 reconcile pass* - a pass with ok receipts leaves the host as asked; the
  plan is empty exactly when it is; nothing of others is destroyed; rules come
  before membership; a failing op does not hold up others.
* *jails, dhcp pass* - a pass with ok receipts leaves every network plumbed and
  served, whatever half-made things it found, unless it takes two epairs for one
  or one network's dnsmasq for another's; it takes no service away; dnsmasq has
  read its files.
* *l3 pass* - a pass with ok receipts leaves every router assembled and routed;
  it takes nothing from a router that is in order.
* *dhcp agent* - a port is reported ready only with its reservation in place,
  and in the end every port is; no pass takes a network's service away because
  its port could not be refitted.
* *l3 agent* - a floating ip is ACTIVE only while the host carries it; comparing
  with the last report is enough to keep the server's statuses right.
* *port configuration* - the anchor passes what the groups permit and nothing
  else; no rule of one port costs another its configuration; segments that the
  mechanism driver binds are realised, each on a bridge of its own.

## 2. Modules

`SyncLoop` - the promise the three agents' loops share, as an abstract
specification of two variables: work asked for and not started, a pass running.
`Begin` takes the request over, `End` may not drop a request made meanwhile.

`L2Agent` - the l2 agent between server and kernel. A pass is cut where the code
gives way to other green threads: at each RPC and each command. `StartSync`,
`Scan` (181-184), `ServerReply` and `HandleReply` (202-214), `Read` (215-227),
`ApplyOk`/`ApplyFail` (225-241), `Save` (243), `Report` (264-269), `Finish`
(270-279), `Fail` for an exception at any of these points. Handlers, the devd
reader and `Restart` are actions that may come between any two of them. The
server binds, unbinds and deletes ports and announces instance ports, the other
agents make and destroy epairs. The effect of a plan on the kernel is one step
here, with a success and a partial-failure case.

`L2Reconcile` - that step at full length. `Diff` translates `plan.diff` op kind
by op kind; `Before` is the order `Plan.ops` gives them; each op is an action
that applies it, `OpFails` any failure, `Crash` the end of the process. Ops of
several commands take several steps: a load or a flush is followed by
`KillStates`, a lock has three parts, a destroy is preceded by `Recheck`.
`Others` change the kernel between any two commands. A bridge, tap or interface
is a name that is absent, owned (it carries the `l2-neutron` group) or foreign.
Rules and table contents are abstract values that are equal when their hashes
are.

`Jail` - `jail.py` command by command, for modules that extend it. An epair is a
kernel unit with two ends; a pass finds the host end by name and the jail end by
its name in the jail. This is what makes mispaired and leaked epairs visible.

`DhcpReconcile` - one pass of `dhcp_agent/reconcile.py` on top of `Jail`, with
`at` as its program counter: networks in any order (the server's order is not
fixed), files, jail, epair, addresses, dnsmasq, then collection and purge.
Crashes lose the pass, a reboot loses jails, epairs and processes but no file.
`misled` is history: the networks for which the running pass took two epairs for
one (`Mispaired`, `jail.py:92-107`: both names are found, and that is all that is
looked at) or one network's dnsmasq for another's (`MixedUp`,
`reconcile.py:61-71`: any dnsmasq under the pid in the file will do). Nothing the
pass does depends on it. It names the two misjudgements of the code, so that the
properties can say that nothing else goes wrong.

`Router` - `router.py` as operators: `PortFromRpc`, `FromRpc`, the addresses,
routes and pf rules of a router. The fixed ips of a port are a sequence, since
their order picks the address of snat and the next hop; what the code sorts is a
set.

`L3Reconcile` - one pass of `l3_agent/reconcile.py` on top of `Jail` and
`Router`: jail, forwarding, the gateway's epair first and then the others,
routes only when all ports are there, `pf.conf`, enabling, loading by hash, then
collection and purge. `ReadRoutes` compares once, `GiveOrder` is one `route`
command; in the kernel a route leads through one epair and goes with it.

`DhcpAgent`, `L3Agent` - the two agents between server and host, cut at every
RPC like `L2Agent`; the pass on the host is the one step `Reconcile`, with a
success and a half-done failure, and its commands are the subject of
`DhcpReconcile` and `L3Reconcile` (that a failed pass may leave something neither
old nor new is only there; to the agent it is a pass that failed, after which it
is dirty). `DhcpAgent`: `Fetch` (256-261), then per
network of the answer `Release` (262-269), `CreatePort`, `KeepPort` or
`RefitPort` (167-209, 270-280), `Reconcile` (281-299), `Report` (301-305).
`L3Agent`: `GetRouters` (126-144), `Reconcile` (146-164), `ReportStatuses` router
by router (166-171), `ReportsDone` (172). A call that fails may have taken effect at the server, or
not. `Restart` loses what the agent remembers, and the host with it or not.

`PortConfig` - `port_config.build` with the checks of `model.py`, `pf.render`
and `mech.check_segment_for_agent`. It is calculation: a behavior picks a
request, `Build` makes the configuration, and the properties relate the two
through `Passes`, the meaning pf gives to an anchor.

`L2AgentProofs`, `L2ReconcileProofs`, `DhcpReconcileProofs`,
`L3ReconcileProofs`, `DhcpAgentProofs`, `L3AgentProofs`, `PortConfigProofs` -
theorems about the components. `JailProofs` - what `jail.py`'s commands do to the
epairs, as lemmas that the proofs about both host passes use.

`MC...` - instances for TLC. Operators under the heading "ways ... could have
been written wrong" (and those marked "written wrong" elsewhere) are mutations
that show each property can fail; the specifications do not use them.

How the modules compose. `Jail` is extended by both reconcile passes, as
`jail.py` is imported by both. `SyncLoop` is implemented by all three agents.
The agents' `Reconcile` abstracts the reconcile modules: its successful outcome
is what `CleanPassServes` and `CleanPassReconciles` show of a pass with ok
receipts, its failing outcomes are any mixture of old and new per network or
router. `CleanPassServes` excepts what the pass was misled about; the agent's
properties are about hosts on which it was not.

### Abstractions, and what they assume

* `L2Agent`: `failed_devices` and a missing `port_id` are both misses. Unbound
  and deleted ports are both "not resolved". The server's dedicated failure on a
  bound port is the flag `DeviceFaults`. A parked destroy counts as applied.
  Notifications are a set: two of the same kind for the same port that wait at
  once are one, which the handlers, being idempotent, cannot tell apart.
* `L2Reconcile`: one read of the kernel is atomic. A read fails only when its
  object is absent, but for `pfctl -vvss`, whose failure is a fault. Vxlan is
  left out, since `port_config.build` produces none. The NIC of a flat segment
  is an attached interface like a service epair. Ops the plan orders only by the
  names of their interfaces are applied in any order, which includes the code's.
* `Jail`, `DhcpReconcile`: signals take effect at once and do not fail on a live
  process; reads are reliable; naming the host end, describing it and putting it
  into the group is one command and one step. Of the pids that no pid file names
  a new process gets one, which is as good as another.
* `HalvesStay`: whether the destroy of half an epair may fail without being
  noticed. `PidsReused`: whether a new process may get a pid that a stale pid
  file names. Both are TRUE in `dhcp_reconcile`; `HalvesStay` is FALSE in
  `l3_reconcile`.
* `Router`: a flag of the answer is there with a value or missing (`Null`).
* `L3Reconcile`: an address change may or may not take the interface's routes
  along. A route is added through any epair whose address covers the next hop.
  The text of `pf.conf` and its hash are the rules it is made of.
* `DhcpAgent`: an admin-down network is one without v4 subnets, as in the code.
  Dhcp ports themselves are not among the ports reported. A request whose
  subnets have changed since the fetch is refused by the server.
* `L3Agent`: a router is scheduled here or not, supported or not, with a gateway
  or not. `ServerHears` is the server's side of `update_floatingip_statuses` as
  the comment at `agent.py:166` relies on it: the reported statuses are set, and
  a floating ip that was last on this router, is on none now and was left out
  goes DOWN. `namedBy`, `forgot`, `unanswered` and `overruled` are history for
  the properties.
* `PortConfig`: a name is the pair of its kind and what it is cut or hashed from,
  so truncations and collisions are left out. The rules of a filter are a set:
  all pass and all are quick, so their order cannot matter. The schema's checks
  of shapes `build` never makes are left out.

## 3. Runs

All use the bounds in their `.cfg` and no state constraint; `MaxOthers`,
`MaxFaults` and the like are guards on the environment, never on the agent.

| Run | Instance | Shows |
|---|---|---|
| `l2_agent_safety` | 2 instance ports, 1 service port, 3 server changes, 2 host changes, 2 faults; limits 1 and 3 | when the agent sleeps: `SettledIsUp` (ports it holds for up are ACTIVE, though each fetch resets them, and are members), `SettledTracksUp` (a bound tracked port is up or waits for the interval). At any moment: `ActiveIsDurable`, `ActiveIsTracked`. Across the pass: `LateAnnouncementKept` |
| `l2_agent_liveness` | 1 + 1 port, lossy devd, `failed_devices` | `TrackedComesUp`, `ServiceFollowsEpair` (up when the epair comes, down when it goes), `UnresolvableDropped`, `ImplementsSyncLoop` |
| `l2_reconcile_safety` | vlan bridge with tap, uplink and service epair, local bridge with tap; 3 configurations; the epair there at the start; 1 change of desire, 1 by others, 1 fault | `EmptyPlanMeansReconciled`, `CleanPassReconciles`, `RulesBeforeMember`, `ForeignSurvives` |
| `l2_reconcile_liveness` | the same, the epair comes later; no command on `t2` ever succeeds | `Converges` |
| `dhcp_reconcile` | 2 networks, one of which may get another port; 4 configurations; halves that may stay, pids that are used again; 1 change of desire, 1 by others, 1 fault, crash or reboot (1,151,449 states) | `CleanPassServes`, `UntroubledLoads`, `ServiceKept`, `Converges` |
| `l3_reconcile` | a router with gateway, v6 and v4 addresses, inside port, two floating ips and an extra route, which gets another gateway port on the same network, loses its gateway or goes; a second router; 1 change of desire, 1 by others, 1 fault, crash or reboot | `CleanPassReconciles` (ports, forwarding, pf; routes when collection begins), `RouterKept`, `Converges` |
| `dhcp_agent` | 2 networks, 3 subnets, 1 client port; 2 server changes, 2 faults or restarts | `SettledServes`, `ReadyIsReserved`, `ServiceKept`, `Converges`, `ImplementsSyncLoop` |
| `l3_agent` | a router that comes, changes and goes and one that stays; a floating ip that moves freely and one that stays on the second; 3 server changes, 1 fault or restart | `SettledStatuses`, `ActiveIsCarried`, `Converges`, `ImplementsSyncLoop` |
| `port_config` | one port with every pair of 72 rules; one rule with several address lists; pairs of ports on every pair of 7 networks and several owners; 170 packets | `FilterKeepsPromises`, `NothingElsePasses`, `Buildable`, `SegmentsRealised` |
| `l2_agent_announced`, `dhcp_reconcile_stale`, `port_config_icmp` | the smallest that suffices | a violation each, section 5 |

Why the bounds are enough. The miss limits are 1 and 3 instead of 10 and 60:
what matters is a miss within the fast retries, one beyond them, and the last.
Two instance ports let one be announced while the pass works for the other; they
are interchangeable, and the safety run uses that symmetry. In the reconcile
instances every op kind the model has is planned in some state, the
configurations differ from one another in table, rules, policy, ports and
networks, and one fault or change is placed between any two commands.
Hosts do not start from the fresh state only: a change of desire after any
prefix of any pass makes every partly applied configuration a starting point.
`CleanPassReconciles` and `CleanPassServes` speak of passes during which nobody
else touched the host; the changes still come before and between such passes.
Larger bounds were tried while the models were written (two changes by others in
`L2Reconcile`; two changes of desire and two faults, but none by others, in
`DhcpReconcile`, 2,564,076 states, for the invariants and `ServiceKept`) and found
nothing else.

In `L3Agent` the two floating ips differ in what they may do: one moves between
the routers, which is what reports by comparison are bad at, and the other keeps
its router's report from being empty. Three server changes are a move away, a
move back and one more. In `PortConfig` rules interact only through the union
of a filter, so pairs are enough; the packets lie on both sides of each boundary
a rule can draw.

Deadlock is checked in every run of an agent, which never stops. `port_config`
is a calculation that ends after one step, so its runs do not check it.

### Fairness

`L2Agent` has weak fairness on the agent's pass as a whole and on its handlers.
`run` (`agent.py:369-376`) is an endless loop that starts a pass at the latest
when the interval has elapsed, and calls end with a result, an error or a
timeout; `_retry` sleeps at most 30 seconds. Handlers are threads of the
messaging library. Nothing is assumed of server, host, devd or faults: a failing
call is a bounded fault, or else nothing could be expected to come up.
`L2Reconcile` and `DhcpReconcile` have weak fairness on the agent alone;
`Converges` says what holds once the others have stopped, and in `L2Reconcile`
once no foreign object is in the way (`~PlanError`). `L3Reconcile`, `DhcpAgent`
and `L3Agent` have weak fairness on `Pass`, for the reason given above: each
agent's `run` is the same endless loop. Handlers need none, as the pass that
every interval forces does not wait for a notification.

## 4. Theorems

For every set of ports, limit and bound:

* `TypeCorrect` - `[]TypeOK` of `L2Agent`. It holds the bound on the miss
  counters, so it is not just about types; it is inductive as it stands because
  it also says that `devices` is empty outside a pass and that `details` and
  `pending` are parts of it.
* `AnnouncementsSurvive` - `LateAnnouncementKept`. The strengthening `HeardInv`
  says that a port heard of during the pass is still a candidate or was asked
  for: only the last miss removes a candidate, and only one that was asked for.
* `ActiveSurvivesCrash`, `ActiveStaysTracked` - `[]ActiveIsDurable` and
  `[]ActiveIsTracked`. Neither is inductive: the fetch, the save and the report
  are three steps. `ActiveInv` follows the pass: a port that is ACTIVE is bound,
  in the file and a candidate; at the request it is one of `devices`; the fetch
  resets all of those, so from there to the report no port is ACTIVE and at the end the ACTIVE ones are among `details`, which is what the file
  was made of.
  Both theorems are conditional on `~DeviceFaults`, without which they are false.
* `SleepsOnlyWhenTracked` - `[]SettledTracksUp`. `TracksInv` follows a candidate
  through the pass: asked for at the request, resolved or kept waiting from the
  plan on, up or past its fast retries between passes; whenever that is not so
  `dirty` is set. Each failure path has to set the flag for this.
* `SleepsOnlyWhenUp` - `[]SettledIsUp`. `UpActiveInv`: from the report to the
  next pass what is up is ACTIVE, or a pass is asked for, or the notification of
  a new binding is on its way. `UpMembersInv`: without lost events a member is
  gone only with an event in the pipe or a pass asked for.
* `LoopSafety` - initial states and steps of `L2Agent` map to those of
  `SyncLoop`. The rest of `ImplementsSyncLoop`, that passes begin and end, is
  liveness and stays with TLC.

For every set of bridges and interfaces, any configurations, any number of
faults and of changes by others (`L2ReconcileProofs`):

* `TypeCorrect` - `[]TypeOK`. `PlanInv` says that every op left on the plan
  serves the configuration of the pass: it makes and joins only what is desired
  and takes away nothing that is.
* `PlanComplete` - `[]EmptyPlanMeansReconciled`, from the types: one lemma per
  group of ops shows that it is absent from `Diff` exactly if its part of the
  kernel is as asked for.
* `RulesComeFirst` - `RulesBeforeMember`. `RulesInv`: while a tap's `AddMember` is
  on the plan its rules are in the anchor, or their load is still on the plan, or
  it has failed.
* `CleanPassIsEnough` - `[]CleanPassReconciles`, if `~MovesMembers`. The
  invariant is that what is not yet as the pass wants it the pass has yet to do:
  `BridgesAhead`, `IfacesAhead`, `MembersAhead`, `AnchorsAhead`, `LocksAhead`, as
  long as no receipt is bad and nobody else has intervened. `SparesInv` is what
  makes it inductive: no op left undoes what another has done. When others may
  move a member between the agent's own bridges it is false (section 5).
* `NothingForeignDestroyed` - `ForeignSurvives`. The invariant `RecheckInv` ties
  the op under way to the kernel: an object being destroyed is still owned unless
  someone changed the kernel since the re-check.

For every set of networks, ports, pids and configurations, any number of
crashes, reboots, failed commands and changes by others (`DhcpReconcileProofs`):

* `TypeCorrect` - `[]TypeOK`. `TypeInv` adds to it how far the pass is
  (`StageInv`), what it has written (`FilesInv`), that every process still has
  files to read (`ProcsInv`), and `Tidy`: the ends of an epair come and go together,
  and one in a jail is in a jail that there is.
* `WorkingStays` - `ServiceKept`. `PairsInv`: while an epair is made no unit has
  both names of its port (`Apart`), which no failing command can bring about, so
  that the wiring commands leave an epair alone that has. `PidInv`: a pid file
  that names a dnsmasq of its own network names one with the stored command line,
  and none that runs when one is started; whose it is otherwise, `misled` says.
* `CleanPassIsEnough` - `[]CleanPassServes`. `CleanInv`, for a pass whose receipts
  are all ok so far: it knows of every jail and every named epair, the epair under
  way is made as far as the program counter says, every network behind it that it
  was not misled about is in order, and what is not asked for is gone or left to
  collect. A pass that makes an epair without a bad receipt has first seen or
  destroyed whatever had its names (`MakingInv`), which is why ends of two epairs
  can meet only where both were found.
* `WritesAreRead` - `[]UntroubledLoads`. `LoadInv`: while nothing has gone wrong the
  only process of a network is the one in its pid file, and it has read its files
  unless the running pass has yet to tell it.

None of the four has a hypothesis on ports, halves or pids: networks may get other
ports and old ones back, destroys may fail unnoticed, pids may be used again.

For every set of routers and ports, any specs, the same faults
(`L3ReconcileProofs`):

* `TypeCorrect` - `[]TypeOK`, with it that a router routes, forwards and filters
  only in a jail that there is and through epairs in it, and that `pf.conf` holds
  what the spec asks for from its writing to its load (`FilesInv`), also over a
  file that another spec's pass has left. `TypeInv` adds `StageInv` and
  `RoutesInv`: one route per destination, and what is to be deleted is not asked
  for.
* `WorkingStays` - `RouterKept`, if `~HalvesStay` and `OwnSlots`, from `TypeInv` and
  `PairsInv`, which here also has `HomeInv`: a named epair is in the jail of its
  port or on its way there, so that making one port's epair takes nothing from
  another router.
* `CleanPassIsEnough` - `[]CleanPassReconciles`, under the same hypotheses, from a
  `CleanInv` like that of dhcp: surveyed, made as far as the pass has come, every
  router behind it finished, the rest gone or left to collect. That routes
  are right only *when collection begins* is as much as there is (section 5).

The two hypotheses are constants of the model, and only the two theorems above
have them; those about the dhcp host hold without. `~HalvesStay`: destroying half
an epair succeeds; `jail.py:101` takes it for done whatever the command says.
`OwnSlots`: no two ports want the same name in the same jail; the l3 agent makes
the name from the port's id (`names.py:57-60`), so that it only leaves out
truncations that collide. TLC finds none of the strengthenings violated on the instances of the runs.

For every set of networks, subnets and ports, and any bounds (`DhcpAgentProofs`):

* `TypeCorrect` - `[]TypeOK`, with it that the agent remembers no port as
  reported that the server has not heard of.
* `ReadyReserved`, `ServiceStays` - `ReadyIsReserved` and `ServiceKept`. Both
  follow from `ServiceInv`: what a pass has made of the listing so far has a
  service for every network whose port was listed, reservations are ports of
  their network, and from the pass on the host to the report the host is as
  desired.
* `RestServes` - `[]SettledServes`. It says nothing of a running pass, so it is
  not inductive: `PassInv` says that the answer a pass works on is still true if
  the server has not changed since, but for the dhcp ports the pass has come to,
  and that those it was not refused are `Placed`; `StageInv` says how far the
  pass is; `SettledServes` itself is the rest.

For every set of routers and floating ips, and any bounds (`L3AgentProofs`):

* `TypeCorrect` - `[]TypeOK`, strengthened by `Known`: a pass reports only
  floating ips that have been on a router.
* `ActiveOnHost` - `ActiveIsCarried`, from `TypeOK` and the report step.
* `RestReports` - `[]SettledStatuses`. `MemoryInv`: until a report fails, each
  status the agent remembers is still the server's unless overruled, and in the
  middle of the reports this is so of those made and those not to be made.
  `LeaveInv`: a floating ip a router's report named last is DOWN or in the memory
  of that router, so that leaving it out is news. `PassInv`: each floating ip is
  on one router of the pass. `RestInv`: at rest host and memory are as fetched.
* `LoopSafety`, here and for the dhcp agent - as for the l2 agent.

For every set of requests and packets (`PortConfigProofs`):

* `OnlyPermitted` - `[]NothingElsePasses`. `MemberOfPort`: a filtered member
  stands for one port of the request and has the filter made of its groups.
  `RuleMeans`: a packet that matches a rendered rule, in pf's directions, is
  permitted by the group's rule it was made from. `LockMeans`: what the lock
  lets by speaks as itself or looks for a dhcp server. The tail denies the rest.
* `PromisesKept` - `[]FilterKeepsPromises`, the converse. `PermittedMatches`: the
  rule made from a permitting group rule matches the packet, in family, protocol,
  range and table; `LockPasses`: no part of the lock stops it first.
* `SegmentsKept` - `[]SegmentsRealised`. `NamesTellSegments`: two ports the driver
  binds have the same bridge name exactly if they are on the same segment;
  `UplinkOfSegment`: all mapped ports of a bridge ask for the same uplink.
* `GroupsBuild` - `[]Buildable`. `FilterBuildable`: without a named icmp type every
  range is one of tcp or udp and every table a rule refers to is in the
  configuration; `SchemaHolds`: then `from_tree` raises nothing; `AnchorLoads`:
  then pf takes the anchor. Why icmp types are excepted is in section 5.

Assumptions. All are `ASSUME`s of the modules, which TLC evaluates. Bounds are
naturals; port ids differ; names, values and the constants that stand beside
them (`Null`, `Off`, `Unlisted`, `Nowhere`, `NoIface`, `Raw`, `None`) are apart
(`NullAssumption`, `OffAssumption`, `UnlistedAssumption`, `NowhereAssumption`,
`NamesAssumption`, `EndsAssumption`, `NoneAssumption`, `LockAssumption`). A
router's ports are in its own jail and their ids differ (`PortsAssumption`), a
spec asks for one route per destination (`RoutesAssumption`).
`PacketsAssumption`: packets have the fields' types, the addresses of an IPv4
packet are no IPv6 addresses, and icmp6 is IPv6's. `RequestsAssumption`: what the
server lets into its database: rules with a range of ports have a protocol, a
range of tcp or udp is within 1 .. 65535 and in order, vlan ids are in 1 .. 4094,
local networks have no segmentation id.

Only model-checked: all liveness (`Converges`, `TrackedComesUp`,
`ServiceFollowsEpair`, `UnresolvableDropped`, and that passes begin and end in
`ImplementsSyncLoop`), which with ENABLED is out of the prover's reach. Every
invariant and every action property of a passing run is stated by a theorem,
under the hypotheses above where they are needed.

## 5. What the repository says and the code does not do

Three have a run that TLC must find violated:

* `l2_agent_announced` - `agent.py:272` keeps candidates announced mid-sync "or
  a port announced mid-sync is silently orphaned". A port that is having its
  last miss is dropped although it was announced meanwhile.
* `dhcp_reconcile_stale` - if the agent dies, or gives up on the network, after
  it wrote `hosts` or `opts`, dnsmasq is never told (`reconcile.py:25-34, 78`).
* `port_config_icmp` - `port_config.py:63` says "skip what pf cannot express". A
  rule that names an icmp type has it in the attributes of a port range; the
  build fails for all ports of the host, or pf refuses the anchor.

The following are properties at the end of their modules; a configuration gives
the counterexample (`tlc -config X.cfg M`):

* `MCL2Reconcile_moved` (`CleanPassReconciles` with `MovesMembers`) - a member
  found on another bridge of the agent is planned to be added to its own bridge
  and, independently, to be destroyed as evicted (`plan.py:332-334, 360`). The
  pass reports success; the next one makes the tap again.
* `MCL2Reconcile_halflocked` (`LockedInFull`) - a lock whose second or third
  command fails is never completed: only the static entry is looked at
  (`plan.py:306-308`).
* `MCL2Reconcile_states` (`NoOldStates`) - if the states cannot be listed, or the
  agent dies after the load, states made under the old rules stay
  (`pf.py:172-174`).
* `MCDhcpReconcile_mispaired` (`EndsOfOneEpair`) - a half epair that could not be
  destroyed is taken for gone; the host end of one epair and the jail end of
  another are then taken for one (`jail.py:98-111`).
* `MCDhcpReconcile_returns` (`EndsOfOneEpair` with two changes of desire and two
  faults, where halves can be destroyed and no pid is used again) - the ports of a
  network share one name in the jail. A pass that stops half-way makes half of
  p1's epair, the next makes that of p1b, which replaces p1; when p1 is wanted
  again both its ends are found, of two epairs (`jail.py:92-107`). The pass is
  clean and collects p1b's epair with the end that p1 uses; the network is not
  served until the next pass.
* `MCDhcpReconcile_pids` (`DeadIsRestarted`) - after a reboot a stale pid file may
  name another network's dnsmasq, and the network is not served
  (`reconcile.py:62-71`).

These three are the misjudgements that `misled` records, and the theorems about
the dhcp host say that a clean pass goes wrong in no other way. The first two heal
in a later pass if the destroy works; while a pid file names another network's
dnsmasq each pass is misled again, so `Converges` asks that this comes to an end.

* `MCL3Reconcile_route` (`RoutesAsSpecified`) - a gateway port replaced by another
  on the same network has the same default route, read from the table without
  its interface; it is found in order, and the collection then takes the old
  epair and the route with it. The pass is clean, the router has no default route
  until the next one (`l3_agent/reconcile.py:75-86`).
* `MCL3Agent_leftout` (`LeftOutGoesDown`) - "a router whose last fip went away
  reports an empty map once" (`l3_agent/agent.py:166-167`), but by comparison with a
  memory that is empty after a restart, and unchanged after a report that failed
  with its effect done: the floating ip then stays ACTIVE.

Seen while modelling or proving, without a configuration:

* l2 agent: a port deleted while a pass resolves it comes back into the sync set
  and is dropped again after 60 misses (`agent.py:275`); a bound port in
  `failed_devices` is left out of `devices.json` by the pass.
* l2 pass: a tap whose anchor failed to load joins its bridge all the same,
  against `plan.py:277` (`RulesBeforeMember` states what does hold); no op undoes
  a MAC lock when port security is switched off.
* jails: an epair created just before a crash keeps the kernel's name, which no
  pass looks for (`jail.py:112-131`).
* dhcp agent: an RPC that raises for one network holds up all the others
  (`agent.py:262-285`); a network whose port came back as None waits for the
  periodic pass, as nothing marks the agent dirty; a port is reported once per
  life of the agent, whatever becomes of its reservation later.
* l3 agent: a floating ip that moves to a second router and leaves it while the
  pass runs is set DOWN by the first router's report; the memory says ACTIVE for
  the second, and when it comes back there the comparison finds no news: it stays
  DOWN though no call fails. `SettledStatuses` and `Converges` except these as
  `overruled`; the proof of `RestReports` is where it came up. In the same way a
  floating ip that was on another router when its old one reported is not set
  DOWN by that report.
* l3 pass: of several routes to one destination each delete takes whichever the
  kernel finds; the hash that tells whether pf is up to date is a label on filter
  rules, so that a flush of the nat rules alone goes unnoticed.
* port configuration: a rule for any protocol is rendered without a family, so
  that an IPv4 rule passes IPv6 as well (`Permits` does not look at the ethertype
  for this reason) and tables hold IPv4 members only; only the first IPv4 address
  of a port is locked, its others cannot send.

## 6. Plan

Done: `SyncLoop`, `L2Agent`, `L2Reconcile`, `Jail`, `DhcpReconcile`, then
`Router`, `L3Reconcile`, `DhcpAgent`, `L3Agent`, `PortConfig`, and the proofs of
section 4. Left:

1. Proofs: that the successful outcome of the agents' `Reconcile` is what the host
   passes leave, as a lemma about both.
2. `names.py`'s truncations, as a function on a small alphabet, with the checks
   that refuse two interfaces of one name.

Not modelled and not planned: the text formats of ifconfig, netstat, pfctl and
dnsmasq (parsers of one command's output, better tested than checked), vxlan,
which no configuration of the builder asks for, configuration options, the state
reports of the agents, logging.
