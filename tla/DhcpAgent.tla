------------------------------ MODULE DhcpAgent ------------------------------
(***************************************************************************)
(* The dhcp agent (dhcp_agent/agent.py) between the neutron server, which  *)
(* schedules networks to it and holds a port back until its dhcp service   *)
(* is reported in place, and the host.                                     *)
(*                                                                         *)
(* The agent is one process of green threads: a pass gives way at every    *)
(* RPC and at every command, and is cut into one action per stretch in     *)
(* between.  It works on the answer of one fetch while the server goes on. *)
(* What the pass does to the host command by command is the subject of     *)
(* DhcpReconcile; here it is one step that succeeds, or fails half done.   *)
(*                                                                         *)
(* An RPC may fail before or after the server has done what it asks.  An   *)
(* admin-down network counts as one without v4 subnets, which the code     *)
(* treats alike.  The dhcp ports are not among the ports reported here.    *)
(***************************************************************************)
EXTENDS Naturals

CONSTANTS
    Networks, Subnets,
    SubnetsOf,          \* the v4 subnets a network may have
    Clients,            \* the ports of the networks that are not dhcp ports
    NetOf, SubnetOf,    \* where each of them has its fixed address
    Unlisted,           \* a network that is not scheduled to this host
    Off,                \* no service, no port
    MaxServer,          \* bound on the changes made at the server
    MaxFaults           \* bound on failing calls and on restarts

ASSUME SubnetsAssumption == SubnetsOf \in [Networks -> SUBSET Subnets]
ASSUME OffAssumption == Off \notin [on : SUBSET Subnets, hosts : SUBSET Clients]
ASSUME ClientsAssumption == NetOf \in [Clients -> Networks] /\ SubnetOf \in [Clients -> Subnets]

VARIABLES
    \* the agent's memory
    dirty,      \* _dirty
    reported,   \* _ready
    \* the locals of the running pass, empty between two passes
    pc,
    snapshot,   \* the answer of get_active_networks_info: networks
    todo,       \* the networks of it the loop has not come to
    desired,    \* the service of each network, or Off
    \* the host
    host,       \* the service in place for each network, or Off
    \* the server
    v4,         \* the v4 subnets of each network, or Unlisted
    own,        \* the subnets this host's dhcp port has addresses on, or Off
    clients,    \* the ports there are
    ready,      \* the ports reported dhcp-ready
    cast,       \* a notification is on its way to this agent
    \* history
    stale,      \* the server changed since the last fetch
    refused,    \* the last pass got no port, or no refitted port, for some network
    serverSteps, faults

memory == <<dirty, reported>>
pass   == <<pc, snapshot, todo, desired>>
server == <<v4, own, clients, ready, cast>>
history == <<stale, refused>>
budget == <<serverSteps, faults>>
vars   == <<memory, pass, host, server, history, budget>>

Service == [on : SUBSET Subnets, hosts : SUBSET Clients]
Services == [Networks -> {Off} \cup Service]
Listing ==
    [v4 : [Networks -> {Unlisted} \cup SUBSET Subnets],
     own : [Networks -> {Off} \cup SUBSET Subnets], clients : SUBSET Clients]
NoService == [n \in Networks |-> Off]

NothingListed ==
    [v4 |-> [n \in Networks |-> Unlisted], own |-> NoService, clients |-> {}]

Now == [v4 |-> v4, own |-> own, clients |-> clients]

Stages == {"idle", "fetch", "networks", "reconcile", "report"}

PassTypeOK ==
    /\ pc \in Stages /\ dirty \in BOOLEAN
    /\ snapshot \in Listing /\ todo \subseteq Networks /\ desired \in Services
    /\ host \in Services

ServerTypeOK == Now \in Listing /\ cast \in BOOLEAN

\* What the agent remembers as reported the server has heard.
ReportTypeOK == ready \subseteq Clients /\ reported \subseteq ready

CountTypeOK ==
    stale \in BOOLEAN /\ refused \in BOOLEAN /\ serverSteps \in Nat /\ faults \in Nat

TypeOK == PassTypeOK /\ ServerTypeOK /\ ReportTypeOK /\ CountTypeOK

-----------------------------------------------------------------------------
(* Ways the agent could have been written wrong; none is used by Next.      *)

\* A network whose port was not refitted is left out.
Dropped(old) == Off

\* A network that lost its subnets is only skipped; a pass that ends has nothing more
\* to do; a report counts once it is tried; every port of the fetch is ready.
NotReleased(n) == FALSE
Cleared(failed) == FALSE
Counted(answered, new) == new
EveryPort(services) == snapshot.clients

-----------------------------------------------------------------------------
(* What a network's service is made of.                                     *)

Listed(l) == {n \in Networks : l.v4[n] # Unlisted}
Wanted(l) == {n \in Listed(l) : l.v4[n] # {}}

OnNetwork(l, n) == {p \in l.clients : NetOf[p] = n /\ SubnetOf[p] \in l.v4[n]}

\* The dhcp port's addresses on the network's subnets, and the reservations.
SpecFor(l, n, port) == [on |-> port \cap l.v4[n], hosts |-> OnNetwork(l, n)]

\* The ports a pass finds ready once its services are in place.
ReadyPorts(services) == UNION {services[n].hosts : n \in {m \in Networks : services[m] # Off}}

Init ==
    /\ dirty = TRUE /\ reported = {}
    /\ v4 \in {f \in [Networks -> {Unlisted, {}} \cup {{s} : s \in Subnets}] :
                \A n \in Networks : f[n] = Unlisted \/ f[n] \subseteq SubnetsOf[n]}
    /\ own = NoService /\ clients = {} /\ ready = {} /\ cast = FALSE
    /\ pc = "idle" /\ snapshot = NothingListed /\ todo = {} /\ desired = NoService
    /\ host = NoService
    /\ stale = TRUE /\ refused = FALSE
    /\ serverSteps = 0 /\ faults = 0

Fault == faults < MaxFaults /\ faults' = faults + 1 /\ UNCHANGED serverSteps

-----------------------------------------------------------------------------
(* The pass.                                                                *)

Locals == <<snapshot, todo, desired>>
NoLocals == snapshot' = NothingListed /\ todo' = {} /\ desired' = NoService

\* _retry, or what a handler has asked for meanwhile.
DirtyAfterPass(failed) == dirty \/ failed

EndPass(failed) ==
    /\ pc' = "idle" /\ NoLocals
    /\ dirty' = DirtyAfterPass(failed)

\* Dirty, or forced when the interval has elapsed, which it may have at any time.
StartPass ==
    /\ pc = "idle" /\ pc' = "fetch"
    /\ dirty' = FALSE
    /\ UNCHANGED <<reported, Locals, host, server, history, budget>>

Fetch ==
    /\ pc = "fetch"
    /\ \/ /\ pc' = "networks"
          /\ snapshot' = Now /\ todo' = Listed(Now) /\ desired' = NoService
          /\ stale' = FALSE /\ refused' = FALSE
          /\ UNCHANGED <<dirty, budget>>
       \/ /\ EndPass(TRUE) /\ Fault
          /\ UNCHANGED <<history>>
    /\ UNCHANGED <<reported, host, server>>

\* The loop goes on with one network done, its service as given.
Served(n, service) ==
    /\ pc = "networks" /\ n \in todo
    /\ todo' = todo \ {n} /\ desired' = [desired EXCEPT ![n] = service]
    /\ UNCHANGED <<pc, snapshot>>

\* An RPC that raises ends the pass, for all the networks.
Raises == Fault /\ EndPass(TRUE) /\ UNCHANGED history

Releases(n) == snapshot.own[n] # Off

\* A network without a v4 subnet has no dhcp port.
Release(n) ==
    /\ pc = "networks" /\ n \in todo /\ snapshot.v4[n] = {}
    /\ IF Releases(n)
         THEN /\ own' \in {own, [own EXCEPT ![n] = Off]}
              /\ \/ Raises
                 \/ /\ own'[n] = Off
                    /\ Served(n, Off) /\ UNCHANGED <<dirty, history, budget>>
         ELSE Served(n, Off) /\ UNCHANGED <<own, dirty, history, budget>>
    /\ UNCHANGED <<reported, host, v4, clients, ready, cast>>

\* The server can give addresses on subnets that are still there.
Possible(n) == snapshot.v4[n] = v4[n]

\* create_dhcp_port answers with the port or with None.
CreatePort(n) ==
    /\ pc = "networks" /\ n \in todo
    /\ n \in Wanted(snapshot) /\ snapshot.own[n] = Off
    /\ \/ /\ Possible(n) /\ own' = [own EXCEPT ![n] = snapshot.v4[n]]
          /\ Served(n, SpecFor(snapshot, n, snapshot.v4[n]))
          /\ UNCHANGED <<dirty, history, budget>>
       \/ /\ IF Possible(n) THEN Fault ELSE UNCHANGED budget
          /\ Served(n, Off)
          /\ refused' = TRUE
          /\ UNCHANGED <<own, dirty, stale>>
       \/ /\ own' = own \/ (Possible(n) /\ own' = [own EXCEPT ![n] = snapshot.v4[n]])
          /\ Raises
    /\ UNCHANGED <<reported, host, v4, clients, ready, cast>>

Unfit(n) == snapshot.own[n] # snapshot.v4[n]

\* update_dhcp_port answered None: the port stays as it was.
NotRefitted(old) == old

\* The port is refitted if it has addresses on other subnets than the network's.
KeepPort(n) ==
    /\ pc = "networks" /\ n \in todo
    /\ n \in Wanted(snapshot) /\ snapshot.own[n] # Off /\ ~Unfit(n)
    /\ Served(n, SpecFor(snapshot, n, snapshot.own[n]))
    /\ UNCHANGED <<memory, host, server, history, budget>>

RefitPort(n) ==
    /\ pc = "networks" /\ n \in todo
    /\ n \in Wanted(snapshot) /\ snapshot.own[n] # Off /\ Unfit(n)
    /\ LET can == Possible(n) /\ own[n] # Off
           kept == NotRefitted(snapshot.own[n])
       IN
       \/ /\ can /\ own' = [own EXCEPT ![n] = snapshot.v4[n]]
          /\ Served(n, SpecFor(snapshot, n, snapshot.v4[n]))
          /\ UNCHANGED <<dirty, history, budget>>
       \/ /\ IF can THEN Fault ELSE UNCHANGED budget
          /\ Served(n, IF kept = Off THEN Off ELSE SpecFor(snapshot, n, kept))
          /\ refused' = TRUE
          /\ UNCHANGED <<own, dirty, stale>>
       \/ /\ own' = own \/ (can /\ own' = [own EXCEPT ![n] = snapshot.v4[n]])
          /\ Raises
    /\ UNCHANGED <<reported, host, v4, clients, ready, cast>>

NetworksDone ==
    /\ pc = "networks" /\ todo = {} /\ pc' = "reconcile"
    /\ UNCHANGED <<memory, Locals, host, server, history, budget>>

\* Failed receipts, or a death in the middle, leave each network as it was or as asked.
Halfway ==
    {[n \in Networks |-> IF n \in done THEN desired[n] ELSE host[n]] : done \in SUBSET Networks}

Reconcile ==
    /\ pc = "reconcile"
    /\ \/ /\ host' = desired /\ pc' = "report"
          /\ UNCHANGED <<dirty, Locals, budget>>
       \/ host' \in Halfway /\ Fault /\ EndPass(TRUE)
    /\ UNCHANGED <<reported, server, history>>

NewlyReady == ReadyPorts(desired) \ reported

\* Only an answered report is remembered.
Remembered(answered, new) == IF answered THEN new ELSE reported

Report ==
    /\ pc = "report"
    /\ LET new == ReadyPorts(desired) IN
       \/ /\ ready' = ready \cup NewlyReady
          /\ reported' = Remembered(TRUE, new)
          /\ EndPass(FALSE) /\ UNCHANGED budget
       \/ /\ NewlyReady # {} /\ Fault
          /\ ready' \in {ready, ready \cup NewlyReady}
          /\ reported' = Remembered(FALSE, new)
          /\ EndPass(TRUE)
    /\ UNCHANGED <<host, v4, own, clients, cast, history>>

-----------------------------------------------------------------------------
(* The handlers, the server and accidents.                                  *)

\* Every *_end method.
MarkDirty ==
    /\ cast /\ cast' = FALSE /\ dirty' = TRUE
    /\ UNCHANGED <<reported, pass, host, v4, own, clients, ready, history, budget>>

CastLost ==
    /\ cast /\ cast' = FALSE /\ Fault
    /\ UNCHANGED <<memory, pass, host, v4, own, clients, ready, history>>

\* The server changes and tells the agents.
Changes ==
    /\ serverSteps < MaxServer /\ serverSteps' = serverSteps + 1
    /\ cast' = TRUE /\ stale' = TRUE
    /\ UNCHANGED <<memory, pass, host, ready, refused, faults>>

SubnetsChange(n, s) ==
    Changes /\ s # v4[n] /\ v4' = [v4 EXCEPT ![n] = s] /\ UNCHANGED <<own, clients>>

OwnPortDeleted(n) ==
    Changes /\ own[n] # Off /\ own' = [own EXCEPT ![n] = Off] /\ UNCHANGED <<v4, clients>>

\* A port never has the id of an earlier one.
ClientCreated(p) ==
    /\ Changes /\ p \notin clients \cup ready \cup reported
    /\ clients' = clients \cup {p} /\ UNCHANGED <<v4, own>>

ClientDeleted(p) ==
    Changes /\ p \in clients /\ clients' = clients \ {p} /\ UNCHANGED <<v4, own>>

\* The agent dies, alone or with the host, and starts over.
Restart ==
    /\ Fault
    /\ host' \in {host, NoService}
    /\ dirty' = TRUE /\ reported' = {} /\ pc' = "idle" /\ NoLocals
    /\ UNCHANGED <<server, history>>

-----------------------------------------------------------------------------

PortStep(n) == Release(n) \/ CreatePort(n) \/ KeepPort(n) \/ RefitPort(n)

Pass ==
    \/ StartPass \/ Fetch \/ (\E n \in Networks : PortStep(n)) \/ NetworksDone
    \/ Reconcile \/ Report

Server ==
    \/ \E n \in Networks :
          OwnPortDeleted(n) \/ \E s \in {Unlisted} \cup SUBSET SubnetsOf[n] : SubnetsChange(n, s)
    \/ \E p \in Clients : ClientCreated(p) \/ ClientDeleted(p)

Next == Pass \/ MarkDirty \/ CastLost \/ Server \/ Restart

\* Calls return, the loop goes round, and every interval forces a pass (run).
Spec == Init /\ [][Next]_vars /\ WF_vars(Pass)

-----------------------------------------------------------------------------
(* Properties.                                                              *)

\* Nothing is left to do for the agent: it rests, its last pass saw the server as it is
\* and was refused no port.
Settled == pc = "idle" /\ ~dirty /\ ~stale /\ ~refused

AsListed ==
    /\ \A n \in Wanted(Now) : own[n] = v4[n] /\ host[n] = SpecFor(Now, n, own[n])
    /\ \A n \in Networks \ Wanted(Now) : host[n] = Off
    /\ \A n \in Listed(Now) \ Wanted(Now) : own[n] = Off

\* When the agent rests, every network has the port and the service the server asks
\* for and every port on it is reported, whatever calls failed, took effect without an
\* answer or were cut off by a restart before.
SettledServes == Settled => AsListed /\ \A n \in Wanted(Now) : OnNetwork(Now, n) \subseteq ready

\* A port is reported dhcp-ready only when its reservation is on the host.
ReadyIsReserved ==
    [][\A p \in ready' \ ready :
          host[NetOf[p]] # Off /\ p \in host[NetOf[p]].hosts]_vars

\* A pass takes the service from no network that is listed with subnets and a dhcp
\* port, whatever the answer to refitting that port is.
ServiceKept ==
    [][pc = "reconcile" /\ pc' # "idle" =>
          \A n \in Wanted(snapshot) :
             snapshot.own[n] # Off /\ host[n] # Off => host'[n] # Off]_vars

\* When the server has come to rest the host becomes and stays what it asks for, also
\* when the notifications are lost, and every port on a network with dhcp is reported in
\* the end: no failed or unanswered report and no restart loses it.
Converges ==
    /\ <>[]AsListed
    /\ \A p \in Clients :
          <>[](p \in clients /\ NetOf[p] \in Wanted(Now) /\ SubnetOf[p] \in v4[NetOf[p]])
              => <>(p \in ready)

\* The agent's loop keeps the promise of SyncLoop.
Loop == INSTANCE SyncLoop WITH work <- dirty, running <- (pc # "idle")
ImplementsSyncLoop == Loop!Spec
=============================================================================
