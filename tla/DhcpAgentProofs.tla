--------------------------- MODULE DhcpAgentProofs ---------------------------
(***************************************************************************)
(* Theorems of the dhcp agent, for any networks, subnets, ports and        *)
(* bounds.                                                                 *)
(***************************************************************************)
EXTENDS DhcpAgent, TLAPS

-----------------------------------------------------------------------------
(* What a service is made of.                                               *)

\* The reservations of a service are ports of its network.
LEMMA SpecForType ==
    ASSUME NEW l \in Listing, NEW n \in Networks, NEW port \in SUBSET Subnets
    PROVE  /\ SpecFor(l, n, port) \in Service
           /\ SpecFor(l, n, port) # Off
           /\ \A p \in SpecFor(l, n, port).hosts : p \in Clients /\ NetOf[p] = n
<1>1. OnNetwork(l, n) \subseteq {p \in Clients : NetOf[p] = n}
  BY DEF OnNetwork, Listing
<1>2. SpecFor(l, n, port) \in Service
  BY <1>1 DEF SpecFor, Service
<1>3. QED
  BY <1>1, <1>2, OffAssumption DEF SpecFor, Service

LEMMA ReadyPortsType ==
    ASSUME NEW services \in Services
    PROVE  ReadyPorts(services) \subseteq Clients
  BY DEF ReadyPorts, Services, Service

\* What a listing says of one network.
LEMMA ListingOwn ==
    ASSUME NEW l \in Listing, NEW n \in Networks
    PROVE  /\ l.own[n] # Off => l.own[n] \in SUBSET Subnets
           /\ n \in Wanted(l) => l.v4[n] \in SUBSET Subnets
           /\ l.v4[n] = {} => n \notin Wanted(l)
  BY DEF Listing, Wanted, Listed

-----------------------------------------------------------------------------
(* Type correctness.                                                        *)

LEMMA InitTypeOK == Init => TypeOK
<1> SUFFICES ASSUME Init PROVE TypeOK
  OBVIOUS
<1>1. NoService \in Services /\ NothingListed \in Listing
  BY DEF NoService, Services, NothingListed, Listing
<1>2. PassTypeOK
  BY <1>1 DEF Init, PassTypeOK, Stages
<1>3. v4 \in [Networks -> {Unlisted} \cup SUBSET Subnets]
  BY DEF Init
<1>4. ServerTypeOK
  BY <1>3 DEF Init, ServerTypeOK, Now, Listing, NoService
<1>5. QED
  BY <1>2, <1>4 DEF Init, TypeOK, ReportTypeOK, CountTypeOK

\* The end of a pass empties its locals.
LEMMA EndPassTypes ==
    ASSUME PassTypeOK, NEW failed \in BOOLEAN, EndPass(failed), host' \in Services
    PROVE  PassTypeOK'
  BY DEF PassTypeOK, EndPass, NoLocals, DirtyAfterPass, Stages, NoService, Services,
         NothingListed, Listing

\* A change of one network's dhcp port.
LEMMA OwnChanges ==
    ASSUME ServerTypeOK, NEW n \in Networks, NEW port \in {Off} \cup SUBSET Subnets,
           own' \in {own, [own EXCEPT ![n] = port]}, UNCHANGED <<v4, clients, cast>>
    PROVE  ServerTypeOK'
  BY DEF ServerTypeOK, Now, Listing

LEMMA ServedTypes ==
    ASSUME PassTypeOK, NEW n \in Networks, NEW service \in {Off} \cup Service,
           Served(n, service), UNCHANGED <<dirty, host>>
    PROVE  PassTypeOK'
  BY DEF PassTypeOK, Served, Services

LEMMA FaultTypes == CountTypeOK /\ Fault /\ UNCHANGED history => CountTypeOK'
  BY DEF CountTypeOK, Fault, history

\* The end of a pass on a call that raises.
LEMMA RaisesTypes ==
    ASSUME TypeOK, Raises, UNCHANGED host
    PROVE  PassTypeOK' /\ CountTypeOK'
  BY EndPassTypes, FaultTypes DEF Raises, TypeOK, PassTypeOK

LEMMA ReleaseTypes ==
    ASSUME TypeOK, NEW n \in Networks, Release(n)
    PROVE  TypeOK'
<1> USE DEF TypeOK
<1>1. ServerTypeOK'
  BY OwnChanges DEF Release, Served
<1>2. ReportTypeOK'
  BY DEF Release, ReportTypeOK
<1>3. CASE Raises
  BY <1>1, <1>2, <1>3, RaisesTypes DEF Release
<1>4. CASE Served(n, Off) /\ UNCHANGED <<dirty, history, budget>>
  <2>1. PassTypeOK'
    BY <1>4, ServedTypes DEF Release
  <2>2. QED
    BY <1>1, <1>2, <1>4, <2>1 DEF CountTypeOK, history, budget
<1>5. QED
  BY <1>3, <1>4 DEF Release

\* The ways to go on with a network that is wanted.
LEMMA WantedTypes ==
    ASSUME TypeOK, NEW n \in Networks, n \in Wanted(snapshot),
           own' \in {own, [own EXCEPT ![n] = snapshot.v4[n]]},
           \/ \E service \in {Off} \cup Service :
                 /\ Served(n, service) /\ UNCHANGED <<dirty, stale>>
                 /\ refused' \in {refused, TRUE}
                 /\ Fault \/ UNCHANGED budget
           \/ Raises,
           UNCHANGED <<reported, host, v4, clients, ready, cast>>
    PROVE  TypeOK'
<1> USE DEF TypeOK
<1>1. snapshot.v4[n] \in SUBSET Subnets
  BY ListingOwn DEF PassTypeOK
<1>2. ServerTypeOK'
  BY <1>1, OwnChanges
<1>3. ReportTypeOK'
  BY DEF ReportTypeOK
<1>4. CASE Raises
  BY <1>2, <1>3, <1>4, RaisesTypes
<1>5. ASSUME NEW service \in {Off} \cup Service, Served(n, service), UNCHANGED <<dirty, stale>>,
             refused' \in {refused, TRUE}, Fault \/ UNCHANGED budget
      PROVE  TypeOK'
  <2>1. PassTypeOK'
    BY <1>5, ServedTypes
  <2>2. stale' \in BOOLEAN /\ refused' \in BOOLEAN
    BY <1>5, Zenon DEF CountTypeOK
  <2>3. serverSteps' \in Nat /\ faults' \in Nat
    BY <1>5 DEF CountTypeOK, Fault, budget
  <2>4. QED
    BY <1>2, <1>3, <2>1, <2>2, <2>3 DEF CountTypeOK
<1>6. QED
  BY <1>4, <1>5

LEMMA PortStepTypes ==
    ASSUME TypeOK, NEW n \in Networks, PortStep(n)
    PROVE  TypeOK'
<1>1. snapshot \in Listing
  BY DEF TypeOK, PassTypeOK
<1>2. CASE Release(n)
  BY <1>2, ReleaseTypes
<1>3. CASE CreatePort(n)
  <2>1. SpecFor(snapshot, n, snapshot.v4[n]) \in Service
    BY <1>1, <1>3, ListingOwn, SpecForType DEF CreatePort
  <2>2. QED
    BY <1>3, <2>1, WantedTypes DEF CreatePort, history
<1>4. CASE KeepPort(n)
  <2>1. SpecFor(snapshot, n, snapshot.own[n]) \in Service
    BY <1>1, <1>4, ListingOwn, SpecForType DEF KeepPort
  <2>2. QED
    BY <1>4, <2>1, WantedTypes DEF KeepPort, memory, server, history
<1>5. CASE RefitPort(n)
  <2>1. /\ SpecFor(snapshot, n, snapshot.v4[n]) \in Service
        /\ SpecFor(snapshot, n, NotRefitted(snapshot.own[n])) \in Service
    BY <1>1, <1>5, ListingOwn, SpecForType DEF RefitPort, NotRefitted
  <2>2. QED
    BY <1>5, <2>1, WantedTypes DEF RefitPort, history
<1>6. QED
  BY <1>2, <1>3, <1>4, <1>5 DEF PortStep

LEMMA HostSteps ==
    ASSUME TypeOK, Reconcile \/ Report
    PROVE  TypeOK'
<1> USE DEF TypeOK
<1>1. Halfway \subseteq Services
  BY DEF Halfway, PassTypeOK, Services
<1>2. CASE Reconcile
  <2>1. host' \in Services
    BY <1>1, <1>2 DEF Reconcile, PassTypeOK
  <2>2. PassTypeOK'
    <3>1. CASE EndPass(TRUE)
      BY <2>1, <3>1, EndPassTypes
    <3>2. CASE pc' = "report" /\ UNCHANGED <<dirty, Locals>>
      BY <2>1, <3>2 DEF PassTypeOK, Stages, Locals
    <3>3. QED
      BY <1>2, <3>1, <3>2 DEF Reconcile
  <2>3. CountTypeOK'
    <3>1. UNCHANGED history /\ (Fault \/ UNCHANGED budget)
      BY <1>2 DEF Reconcile
    <3>2. QED
      BY <3>1, FaultTypes DEF CountTypeOK, budget, history
  <2>4. QED
    BY <1>2, <2>2, <2>3 DEF Reconcile, server, ServerTypeOK, Now, ReportTypeOK
<1>3. CASE Report
  <2>1. PassTypeOK'
    BY <1>3, EndPassTypes DEF Report, PassTypeOK
  <2>2. ReadyPorts(desired) \subseteq Clients
    BY ReadyPortsType DEF PassTypeOK
  <2>3. ReportTypeOK'
    BY <1>3, <2>2 DEF Report, NewlyReady, Remembered, ReportTypeOK
  <2>4. CountTypeOK'
    BY <1>3, FaultTypes DEF Report, CountTypeOK, budget, history
  <2>5. QED
    BY <1>3, <2>1, <2>3, <2>4 DEF Report, ServerTypeOK, Now
<1>4. QED
  BY <1>2, <1>3

LEMMA ServerSteps ==
    ASSUME TypeOK, Server
    PROVE  TypeOK'
<1> USE DEF TypeOK
<1>1. Changes
  BY DEF Server, OwnPortDeleted, SubnetsChange, ClientCreated, ClientDeleted
<1>2. PassTypeOK'
  BY <1>1 DEF Changes, memory, pass, PassTypeOK
<1>3. ReportTypeOK' /\ CountTypeOK'
  BY <1>1 DEF Changes, memory, ReportTypeOK, CountTypeOK
<1>4. Now \in Listing => Now' \in Listing
  <2>1. CASE \E n \in Networks : OwnPortDeleted(n)
    BY <2>1 DEF OwnPortDeleted, Now, Listing
  <2>2. CASE \E n \in Networks : \E s \in {Unlisted} \cup SUBSET SubnetsOf[n] : SubnetsChange(n, s)
    BY <2>2, SubnetsAssumption DEF SubnetsChange, Now, Listing
  <2>3. CASE \E p \in Clients : ClientCreated(p) \/ ClientDeleted(p)
    BY <2>3 DEF ClientCreated, ClientDeleted, Now, Listing
  <2>4. QED
    BY <2>1, <2>2, <2>3 DEF Server
<1>5. QED
  BY <1>1, <1>2, <1>3, <1>4 DEF Changes, ServerTypeOK

LEMMA NextTypeOK == TypeOK /\ [Next]_vars => TypeOK'
<1> SUFFICES ASSUME TypeOK, [Next]_vars PROVE TypeOK'
  OBVIOUS
<1> USE DEF TypeOK
<1>1. CASE StartPass
  BY <1>1 DEF StartPass, PassTypeOK, ServerTypeOK, ReportTypeOK, CountTypeOK, Now, Stages,
              Locals, server, history, budget
<1>2. CASE Fetch
  <2>1. PassTypeOK'
    <3>1. CASE EndPass(TRUE)
      BY <1>2, <3>1, EndPassTypes DEF Fetch, PassTypeOK
    <3>2. CASE ~EndPass(TRUE)
      BY <1>2, <3>2 DEF Fetch, PassTypeOK, ServerTypeOK, Stages, Listed, NoService, Services
    <3>3. QED
      BY <3>1, <3>2
  <2>2. CountTypeOK'
    <3>1. CASE Fault /\ UNCHANGED history
      BY <3>1, FaultTypes
    <3>2. CASE stale' = FALSE /\ refused' = FALSE /\ UNCHANGED budget
      BY <3>2 DEF CountTypeOK, budget
    <3>3. QED
      BY <1>2, <3>1, <3>2 DEF Fetch
  <2>3. QED
    BY <1>2, <2>1, <2>2 DEF Fetch, server, ServerTypeOK, Now, ReportTypeOK
<1>3. CASE \E n \in Networks : PortStep(n)
  BY <1>3, PortStepTypes
<1>4. CASE NetworksDone
  BY <1>4 DEF NetworksDone, PassTypeOK, ServerTypeOK, ReportTypeOK, CountTypeOK, Now, Stages,
              memory, Locals, server, history, budget
<1>5. CASE Reconcile \/ Report
  BY <1>5, HostSteps
<1>6. CASE MarkDirty \/ CastLost
  <2>1. PassTypeOK' /\ cast' = FALSE /\ UNCHANGED <<v4, own, clients, ready, reported>>
    BY <1>6 DEF MarkDirty, CastLost, PassTypeOK, memory, pass
  <2>2. ServerTypeOK' /\ ReportTypeOK'
    BY <2>1 DEF ServerTypeOK, ReportTypeOK, Now
  <2>3. UNCHANGED history /\ (Fault \/ UNCHANGED budget)
    BY <1>6 DEF MarkDirty, CastLost
  <2>4. CountTypeOK'
    BY <2>3, FaultTypes DEF CountTypeOK, budget, history
  <2>5. QED
    BY <2>1, <2>2, <2>4
<1>7. CASE Server
  BY <1>7, ServerSteps
<1>8. CASE Restart
  <2>1. host' \in Services
    BY <1>8 DEF Restart, PassTypeOK, NoService, Services
  <2>2. PassTypeOK'
    BY <1>8, <2>1 DEF Restart, PassTypeOK, Stages, NoLocals, NoService, Services,
                      NothingListed, Listing
  <2>3. QED
    BY <1>8, <2>2, FaultTypes DEF Restart, server, ServerTypeOK, Now, ReportTypeOK
<1>9. CASE UNCHANGED vars
  BY <1>9 DEF vars, PassTypeOK, ServerTypeOK, ReportTypeOK, CountTypeOK, Now, memory, pass,
              server, history, budget
<1>10. QED
  BY <1>1, <1>2, <1>3, <1>4, <1>5, <1>6, <1>7, <1>8, <1>9 DEF Next, Pass

\* Every variable keeps its type, and the agent remembers no port as reported that the
\* server has not heard of (agent.py: _sync, 301-305).
THEOREM TypeCorrect == Spec => []TypeOK
  BY InitTypeOK, NextTypeOK, PTL DEF Spec

-----------------------------------------------------------------------------
(* What a pass has made of the listing.                                     *)

\* Reservations are ports of their network, what is reported is on the host, and every
\* network whose port the listing has keeps a service.
ServiceInv ==
    /\ \A n \in Networks : desired[n] # Off =>
          \A p \in desired[n].hosts : p \in Clients /\ NetOf[p] = n
    /\ pc = "report" => host = desired
    /\ pc \in {"networks", "reconcile"} =>
          \A n \in Wanted(snapshot) \ todo : snapshot.own[n] # Off => desired[n] # Off
    /\ pc = "reconcile" => todo = {}

LEMMA InitService == Init => ServiceInv
  BY DEF Init, ServiceInv, NoService

\* A network done with a service, or without one as it is not wanted or has no port.
LEMMA ServedKeeps ==
    ASSUME TypeOK, ServiceInv, NEW n \in Networks, NEW service \in {Off} \cup Service,
           Served(n, service),
           service # Off => \A p \in service.hosts : p \in Clients /\ NetOf[p] = n,
           n \in Wanted(snapshot) /\ snapshot.own[n] # Off => service # Off
    PROVE  ServiceInv'
<1>1. /\ pc' = "networks" /\ snapshot' = snapshot /\ todo' = todo \ {n}
      /\ desired' = [desired EXCEPT ![n] = service]
  BY DEF Served
<1>2. desired \in Services
  BY DEF TypeOK, PassTypeOK
<1>3. \A m \in Networks : desired'[m] = IF m = n THEN service ELSE desired[m]
  BY <1>1, <1>2 DEF Services
<1>4. Wanted(snapshot') = Wanted(snapshot) /\ Wanted(snapshot) \subseteq Networks
  BY <1>1 DEF Wanted, Listed
<1>5. pc = "networks"
  BY DEF Served
<1>6. QED
  BY <1>1, <1>3, <1>4, <1>5 DEF ServiceInv

\* The end of a pass.
LEMMA EndPassKeeps ==
    ASSUME NEW failed \in BOOLEAN, EndPass(failed)
    PROVE  ServiceInv'
  BY DEF EndPass, NoLocals, NoService, ServiceInv

LEMMA PortStepKeeps ==
    ASSUME TypeOK, ServiceInv, NEW n \in Networks, PortStep(n)
    PROVE  ServiceInv'
<1>1. snapshot \in Listing
  BY DEF TypeOK, PassTypeOK
<1>2. CASE Raises
  BY <1>2, EndPassKeeps DEF Raises
<1>3. CASE Release(n) /\ Served(n, Off)
  BY <1>1, <1>3, ListingOwn, ServedKeeps DEF Release
<1>4. CASE CreatePort(n) /\ ~Raises
  <2>1. \E service \in {Off, SpecFor(snapshot, n, snapshot.v4[n])} : Served(n, service)
    BY <1>4 DEF CreatePort
  <2>2. snapshot.own[n] = Off
    BY <1>4 DEF CreatePort
  <2>3. snapshot.v4[n] \in SUBSET Subnets
    BY <1>1, <1>4, ListingOwn DEF CreatePort
  <2>4. QED
    BY <1>1, <2>1, <2>2, <2>3, SpecForType, ServedKeeps
<1>5. CASE KeepPort(n)
  BY <1>1, <1>5, ListingOwn, SpecForType, ServedKeeps DEF KeepPort
<1>6. CASE RefitPort(n) /\ ~Raises
  <2>1. \E port \in {snapshot.own[n], snapshot.v4[n]} : Served(n, SpecFor(snapshot, n, port))
    BY <1>6 DEF RefitPort, NotRefitted
  <2>2. {snapshot.own[n], snapshot.v4[n]} \subseteq SUBSET Subnets
    BY <1>1, <1>6, ListingOwn DEF RefitPort
  <2>3. QED
    BY <1>1, <2>1, <2>2, SpecForType, ServedKeeps
<1>7. QED
  BY <1>2, <1>3, <1>4, <1>5, <1>6 DEF PortStep, Release

LEMMA NextKeepsService == TypeOK /\ ServiceInv /\ [Next]_vars => ServiceInv'
<1> SUFFICES ASSUME TypeOK, ServiceInv, [Next]_vars PROVE ServiceInv'
  OBVIOUS
<1>1. CASE StartPass
  BY <1>1 DEF StartPass, Locals, ServiceInv
<1>2. CASE Fetch
  <2>1. CASE EndPass(TRUE)
    BY <2>1, EndPassKeeps
  <2>2. CASE /\ pc' = "networks" /\ snapshot' = Now
             /\ todo' = Listed(Now) /\ desired' = NoService
    BY <2>2 DEF ServiceInv, NoService, Wanted, Listed
  <2>3. QED
    BY <1>2, <2>1, <2>2 DEF Fetch
<1>3. CASE \E n \in Networks : PortStep(n)
  BY <1>3, PortStepKeeps
<1>4. CASE NetworksDone
  BY <1>4 DEF NetworksDone, Locals, ServiceInv, Wanted, Listed
<1>5. CASE Reconcile
  <2>1. CASE EndPass(TRUE)
    BY <2>1, EndPassKeeps
  <2>2. CASE host' = desired /\ pc' = "report" /\ UNCHANGED Locals
    BY <2>2 DEF Locals, ServiceInv
  <2>3. QED
    BY <1>5, <2>1, <2>2 DEF Reconcile
<1>6. CASE Report
  BY <1>6, EndPassKeeps DEF Report
<1>7. CASE MarkDirty \/ CastLost \/ Server \/ UNCHANGED vars
  <2>1. UNCHANGED <<pc, snapshot, todo, desired, host>>
    BY <1>7 DEF MarkDirty, CastLost, Server, SubnetsChange, OwnPortDeleted, ClientCreated,
                ClientDeleted, Changes, vars, pass
  <2>2. QED
    BY <2>1 DEF ServiceInv, Wanted, Listed
<1>8. CASE Restart
  BY <1>8 DEF Restart, NoLocals, NoService, ServiceInv
<1>9. QED
  BY <1>1, <1>2, <1>3, <1>4, <1>5, <1>6, <1>7, <1>8 DEF Next, Pass

LEMMA ServiceInvAlways == Spec => []ServiceInv
  BY InitService, NextKeepsService, TypeCorrect, PTL DEF Spec

\* A port is reported dhcp-ready only while its reservation is on the host, whichever
\* calls failed before (agent.py: _sync, 294-305).
THEOREM ReadyReserved == Spec => ReadyIsReserved
<1>1. ServiceInv /\ [Next]_vars =>
        [\A p \in ready' \ ready :
            host[NetOf[p]] # Off /\ p \in host[NetOf[p]].hosts]_vars
  <2> SUFFICES ASSUME ServiceInv, Next, NEW p \in ready' \ ready
               PROVE  host[NetOf[p]] # Off /\ p \in host[NetOf[p]].hosts
    OBVIOUS
  <2>1. CASE Report
    <3>1. host = desired
      BY <2>1 DEF ServiceInv, Report
    <3>2. PICK n \in Networks : desired[n] # Off /\ p \in desired[n].hosts
      <4>1. p \in NewlyReady
        BY <2>1 DEF Report
      <4>2. p \in ReadyPorts(desired)
        BY <4>1 DEF NewlyReady
      <4>3. QED
        BY <4>2 DEF ReadyPorts
    <3>3. NetOf[p] = n
      BY <3>2 DEF ServiceInv
    <3>4. QED
      BY <3>1, <3>2, <3>3
  <2>2. CASE ~Report
    <3>1. UNCHANGED ready
      BY <2>2 DEF Next, Pass, StartPass, Fetch, PortStep, Release, CreatePort, KeepPort,
                  RefitPort, NetworksDone, Reconcile, MarkDirty, CastLost, Server,
                  SubnetsChange, OwnPortDeleted, ClientCreated, ClientDeleted, Changes,
                  Restart, server
    <3>2. QED
      BY <3>1
  <2>3. QED
    BY <2>1, <2>2
<1>2. QED
  BY <1>1, ServiceInvAlways, PTL DEF Spec, ReadyIsReserved

\* No pass takes the service from a network that the server lists with subnets and with
\* this host's port, also when it answers no to refitting the port
\* (agent.py: _sync, 262-293).
THEOREM ServiceStays == Spec => ServiceKept
<1>1. ServiceInv /\ [Next]_vars =>
        [pc = "reconcile" /\ pc' # "idle" =>
            \A n \in Wanted(snapshot) :
               snapshot.own[n] # Off /\ host[n] # Off => host'[n] # Off]_vars
  <2> SUFFICES ASSUME ServiceInv, Next, pc = "reconcile", pc' # "idle",
                      NEW n \in Wanted(snapshot), snapshot.own[n] # Off, host[n] # Off
               PROVE  host'[n] # Off
    OBVIOUS
  <2>1. desired[n] # Off
    BY DEF ServiceInv
  <2>2. host' \in {host, desired}
    <3>1. CASE Reconcile
      BY <3>1 DEF Reconcile, EndPass
    <3>2. CASE MarkDirty \/ CastLost \/ Server
      BY <3>2 DEF MarkDirty, CastLost, Server, SubnetsChange, OwnPortDeleted,
                  ClientCreated, ClientDeleted, Changes
    <3>3. ~(\E m \in Networks : PortStep(m))
      BY DEF PortStep, Release, CreatePort, KeepPort, RefitPort
    <3>4. ~(StartPass \/ Fetch \/ NetworksDone \/ Report \/ Restart)
      BY DEF StartPass, Fetch, NetworksDone, Report, Restart
    <3>5. QED
      BY <3>1, <3>2, <3>3, <3>4 DEF Next, Pass
  <2>3. QED
    BY <2>1, <2>2
<1>2. QED
  BY <1>1, ServiceInvAlways, PTL DEF Spec, ServiceKept

-----------------------------------------------------------------------------
(* The agent at rest.                                                       *)

\* Network n is as the running pass, or the last one, means to leave it.
Placed(n) ==
    /\ n \in Wanted(Now) => own[n] = v4[n] /\ desired[n] = SpecFor(Now, n, own[n])
    /\ n \notin Wanted(Now) => desired[n] = Off
    /\ n \in Listed(Now) \ Wanted(Now) => own[n] = Off

\* While the server stands still the answer a pass works on stays true, but for the dhcp
\* ports that the pass itself has come to; what it was not refused it has placed.
PassInv ==
    pc \in {"networks", "reconcile", "report"} /\ ~stale =>
        /\ snapshot.v4 = v4 /\ snapshot.clients = clients
        /\ \A n \in todo : own[n] = snapshot.own[n] /\ desired[n] = Off
        /\ ~refused => \A n \in Networks \ todo : Placed(n)

StageInv ==
    /\ pc \in {"reconcile", "report"} => todo = {}
    /\ pc = "report" => host = desired
    /\ todo \subseteq Listed(snapshot)

RestInv == PassInv /\ StageInv /\ SettledServes

LEMMA InitRest == Init => RestInv
  BY DEF Init, RestInv, PassInv, StageInv, SettledServes, Settled, Listed, NothingListed

\* The end of a pass that asks for another one.
LEMMA RetryRests ==
    ASSUME EndPass(TRUE)
    PROVE  RestInv'
  BY DEF EndPass, DirtyAfterPass, NoLocals, RestInv, PassInv, StageInv, SettledServes,
         Settled, Listed, NothingListed

\* A network done, with what the server has now.
LEMMA ServedRests ==
    ASSUME TypeOK, RestInv, NEW n \in Networks, NEW service \in {Off} \cup Service,
           Served(n, service), UNCHANGED <<v4, clients, stale, host>>,
           own' \in [Networks -> {Off} \cup SUBSET Subnets],
           \A m \in Networks : m # n => own'[m] = own[m],
           \/ refused' = TRUE
           \/ /\ UNCHANGED refused
              /\ ~stale /\ v4 = snapshot.v4 /\ clients = snapshot.clients /\ own[n] = snapshot.own[n] =>
                   /\ n \in Wanted(snapshot) =>
                        own'[n] = v4[n] /\ service = SpecFor(snapshot, n, own'[n])
                   /\ n \notin Wanted(snapshot) => service = Off /\ own'[n] = Off
    PROVE  RestInv'
<1>1. /\ pc = "networks" /\ pc' = pc /\ snapshot' = snapshot /\ todo' = todo \ {n}
      /\ n \in todo /\ desired' = [desired EXCEPT ![n] = service]
  BY DEF Served
<1>2. desired \in Services /\ snapshot \in Listing
  BY DEF TypeOK, PassTypeOK
<1>3. StageInv' /\ SettledServes'
  BY <1>1 DEF RestInv, StageInv, SettledServes, Settled, Listed
<1>4. \A m \in Networks : desired'[m] = IF m = n THEN service ELSE desired[m]
  BY <1>1, <1>2 DEF Services
<1>5. ASSUME ~stale
      PROVE  /\ snapshot.v4 = v4 /\ snapshot.clients = clients
             /\ \A m \in todo : own[m] = snapshot.own[m] /\ desired[m] = Off
             /\ ~refused => \A m \in Networks \ todo : Placed(m)
  BY <1>1, <1>5 DEF RestInv, PassInv
<1>6. ASSUME ~stale
      PROVE  /\ Wanted(Now) = Wanted(snapshot) /\ Wanted(Now') = Wanted(Now)
             /\ Listed(Now) = Listed(snapshot) /\ Listed(Now') = Listed(Now)
             /\ \A m \in Networks, port \in SUBSET Subnets :
                   /\ SpecFor(Now, m, port) = SpecFor(snapshot, m, port)
                   /\ SpecFor(Now', m, port) = SpecFor(snapshot, m, port)
  BY <1>5, <1>6 DEF Now, Wanted, Listed, SpecFor, OnNetwork
<1>7. ASSUME ~stale', ~refused', NEW m \in Networks \ todo'
      PROVE  Placed(m)'
  <2>1. ~stale /\ ~refused /\ UNCHANGED <<v4, clients>>
    BY <1>7
  <2>2. CASE m = n
    <3>1. /\ n \in Wanted(Now) => own'[n] = v4[n] /\ service = SpecFor(snapshot, n, own'[n])
          /\ n \notin Wanted(Now) => service = Off /\ own'[n] = Off
      BY <1>1, <1>5, <1>6, <1>7, <2>1
    <3>2. n \in Wanted(Now) => v4[n] \in SUBSET Subnets
      BY <1>2, <1>5, <1>6, <2>1, ListingOwn
    <3>3. desired'[n] = service
      BY <1>4
    <3>4. n \in Wanted(Now) => service = SpecFor(Now', n, own'[n])
      BY <1>6, <2>1, <3>1, <3>2
    <3>5. QED
      BY <1>6, <2>1, <2>2, <3>1, <3>3, <3>4 DEF Placed
  <2>3. CASE m # n
    <3>1. Placed(m) /\ own'[m] = own[m] /\ desired'[m] = desired[m]
      BY <1>1, <1>4, <1>5, <1>7, <2>1, <2>3
    <3>2. m \in Wanted(Now) => v4[m] \in SUBSET Subnets
      BY <1>2, <1>5, <1>6, <2>1, ListingOwn
    <3>3. m \in Wanted(Now) => SpecFor(Now', m, own'[m]) = SpecFor(Now, m, own[m])
      BY <1>6, <2>1, <3>1, <3>2 DEF Placed
    <3>4. QED
      BY <1>6, <2>1, <3>1, <3>3 DEF Placed
  <2>4. QED
    BY <2>2, <2>3
<1>8. ASSUME ~stale'
      PROVE  \A m \in todo' : own'[m] = snapshot'.own[m] /\ desired'[m] = Off
  BY <1>1, <1>2, <1>4, <1>5, <1>8 DEF StageInv, RestInv, Listed
<1>9. PassInv'
  BY <1>1, <1>5, <1>7, <1>8 DEF PassInv
<1>10. QED
  BY <1>3, <1>9 DEF RestInv

LEMMA PortStepRests ==
    ASSUME TypeOK, RestInv, NEW n \in Networks, PortStep(n)
    PROVE  RestInv'
<1>1. /\ snapshot \in Listing /\ snapshot.own[n] \in {Off} \cup SUBSET Subnets
      /\ own \in [Networks -> {Off} \cup SUBSET Subnets]
  BY DEF TypeOK, PassTypeOK, ServerTypeOK, Now, Listing
<1>2. CASE EndPass(TRUE)
  BY <1>2, RetryRests
<1>3. CASE Release(n) /\ ~EndPass(TRUE)
  <2>1. /\ Served(n, Off) /\ own' \in {own, [own EXCEPT ![n] = Off]}
        /\ n \notin Wanted(snapshot) /\ UNCHANGED <<history, v4, clients, host>>
        /\ own[n] = snapshot.own[n] => own'[n] = Off
    BY <1>3 DEF Release, Releases, Raises, Wanted
  <2>2. QED
    BY <1>1, <2>1, ServedRests DEF history
<1>4. ASSUME n \in Wanted(snapshot), UNCHANGED <<v4, clients, host>>,
             ~EndPass(TRUE), NEW service \in {Off} \cup Service, Served(n, service),
             own' \in {own, [own EXCEPT ![n] = snapshot.v4[n]]}, UNCHANGED stale,
             \/ refused' = TRUE
             \/ /\ UNCHANGED refused /\ service = SpecFor(snapshot, n, snapshot.v4[n])
                /\ own[n] = snapshot.own[n] => own'[n] = snapshot.v4[n]
      PROVE  RestInv'
  <2>1. snapshot.v4[n] \in SUBSET Subnets
    BY <1>1, <1>4, ListingOwn
  <2>2. /\ own' \in [Networks -> {Off} \cup SUBSET Subnets]
        /\ \A m \in Networks : m # n => own'[m] = own[m]
    BY <1>1, <1>4, <2>1
  <2>3. QED
    BY <1>4, <2>1, <2>2, ServedRests
<1>5. n \in Wanted(snapshot) =>
          \A port \in {Off} \cup SUBSET Subnets :
              port # Off => SpecFor(snapshot, n, port) \in Service
  BY <1>1, SpecForType
<1>6. n \in Wanted(snapshot) =>
          snapshot.v4[n] \in SUBSET Subnets /\ SpecFor(snapshot, n, snapshot.v4[n]) \in Service
  BY <1>1, ListingOwn, SpecForType
<1>7. CASE CreatePort(n) /\ ~EndPass(TRUE)
  <2>1. /\ n \in Wanted(snapshot) /\ UNCHANGED <<v4, clients, host, stale>>
        /\ \/ /\ Served(n, SpecFor(snapshot, n, snapshot.v4[n])) /\ UNCHANGED refused
              /\ own' = [own EXCEPT ![n] = snapshot.v4[n]]
           \/ Served(n, Off) /\ refused' = TRUE /\ own' = own
    BY <1>7 DEF CreatePort, Raises, history
  <2>2. QED
    BY <1>1, <1>4, <1>6, <1>7, <2>1
<1>8. CASE KeepPort(n)
  <2>1. /\ n \in Wanted(snapshot) /\ UNCHANGED <<v4, clients, host, stale, refused, own>>
        /\ Served(n, SpecFor(snapshot, n, snapshot.v4[n])) /\ snapshot.own[n] = snapshot.v4[n]
    BY <1>8 DEF KeepPort, Unfit, server, history
  <2>2. ~EndPass(TRUE)
    BY <2>1 DEF Served, EndPass
  <2>3. QED
    BY <1>4, <1>6, <2>1, <2>2
<1>9. CASE RefitPort(n) /\ ~EndPass(TRUE)
  <2>1. /\ n \in Wanted(snapshot) /\ UNCHANGED <<v4, clients, host, stale>>
        /\ snapshot.own[n] # Off
        /\ \/ /\ Served(n, SpecFor(snapshot, n, snapshot.v4[n])) /\ UNCHANGED refused
              /\ own' = [own EXCEPT ![n] = snapshot.v4[n]]
           \/ Served(n, SpecFor(snapshot, n, snapshot.own[n])) /\ refused' = TRUE /\ own' = own
    BY <1>9 DEF RefitPort, NotRefitted, Raises, history
  <2>2. SpecFor(snapshot, n, snapshot.own[n]) \in Service
    BY <1>1, <1>5, <2>1
  <2>3. QED
    BY <1>1, <1>4, <1>6, <1>9, <2>1, <2>2
<1>10. QED
  BY <1>2, <1>3, <1>7, <1>8, <1>9 DEF PortStep

\* What the end of a pass without a retry leaves.
LEMMA ReportRests ==
    ASSUME TypeOK, RestInv, Report
    PROVE  RestInv'
<1>1. CASE EndPass(TRUE)
  BY <1>1, RetryRests
<1>2. CASE ready' = ready \cup NewlyReady /\ EndPass(FALSE)
  <2>1. /\ pc = "report" /\ todo = {} /\ host = desired
        /\ UNCHANGED <<host, v4, own, clients, stale, refused>>
    BY DEF Report, RestInv, StageInv, history
  <2>2. ASSUME ~stale, ~refused
        PROVE  AsListed' /\ \A n \in Wanted(Now') : OnNetwork(Now', n) \subseteq ready'
    <3>1. \A n \in Networks : Placed(n)
      BY <2>1, <2>2 DEF RestInv, PassInv
    <3>2. Now' = Now
      BY <2>1 DEF Now
    <3>3. Wanted(Now) \subseteq Networks /\ Listed(Now) \subseteq Networks
      BY DEF Wanted, Listed
    <3>4. AsListed'
      BY <2>1, <3>1, <3>2, <3>3 DEF AsListed, Placed
    <3>5. ASSUME NEW n \in Wanted(Now) PROVE OnNetwork(Now, n) \subseteq ready'
      <4>1. desired[n] = SpecFor(Now, n, own[n]) /\ own[n] = v4[n]
        BY <3>1, <3>3 DEF Placed
      <4>2. own[n] \in SUBSET Subnets /\ Now \in Listing
        <5>1. Now \in Listing
          BY DEF TypeOK, ServerTypeOK
        <5>2. Now.v4[n] \in SUBSET Subnets
          BY <3>3, <5>1, ListingOwn
        <5>3. QED
          BY <4>1, <5>1, <5>2 DEF Now
      <4>3. desired[n] # Off /\ desired[n].hosts = OnNetwork(Now, n)
        BY <3>3, <4>1, <4>2, SpecForType DEF SpecFor
      <4>4. desired[n].hosts \subseteq ReadyPorts(desired)
        BY <3>3, <4>3 DEF ReadyPorts
      <4>5. ReadyPorts(desired) \subseteq ready'
        <5>1. reported \subseteq ready
          BY DEF TypeOK, ReportTypeOK
        <5>2. QED
          BY <1>2, <5>1 DEF NewlyReady
      <4>6. QED
        BY <4>3, <4>4, <4>5
    <3>6. QED
      BY <3>2, <3>4, <3>5
  <2>3. SettledServes'
    BY <2>1, <2>2 DEF SettledServes, Settled
  <2>4. PassInv' /\ StageInv'
    BY <1>2 DEF EndPass, NoLocals, PassInv, StageInv, Listed, NothingListed
  <2>5. QED
    BY <2>3, <2>4 DEF RestInv
<1>3. QED
  BY <1>1, <1>2 DEF Report

LEMMA NextRests == TypeOK /\ RestInv /\ [Next]_vars => RestInv'
<1> SUFFICES ASSUME TypeOK, RestInv, [Next]_vars PROVE RestInv'
  OBVIOUS
<1> USE DEF RestInv
<1>1. CASE StartPass
  BY <1>1 DEF StartPass, Locals, PassInv, StageInv, SettledServes, Settled, Listed
<1>2. CASE Fetch
  <2>1. CASE EndPass(TRUE)
    BY <2>1, RetryRests
  <2>2. CASE ~EndPass(TRUE)
    <3>1. /\ pc' = "networks" /\ snapshot' = Now /\ todo' = Listed(Now)
          /\ desired' = NoService /\ UNCHANGED <<v4, own, clients>>
      BY <1>2, <2>2 DEF Fetch, server
    <3>2. \A n \in Networks \ todo' : Placed(n)'
      BY <3>1 DEF Placed, Wanted, Listed, NoService, Now
    <3>3. PassInv'
      BY <3>1, <3>2 DEF PassInv, NoService, Listed, Now
    <3>4. QED
      BY <3>1, <3>3 DEF StageInv, SettledServes, Settled, Listed
  <2>3. QED
    BY <2>1, <2>2
<1>3. CASE \E n \in Networks : PortStep(n)
  BY <1>3, PortStepRests
<1>4. CASE NetworksDone
  <2>1. /\ pc = "networks" /\ pc' = "reconcile" /\ todo = {}
        /\ UNCHANGED <<snapshot, todo, desired, v4, own, clients, stale, refused>>
    BY <1>4 DEF NetworksDone, Locals, server, history
  <2>2. PassInv'
    BY <2>1 DEF PassInv, Placed, Now, Wanted, Listed, SpecFor, OnNetwork
  <2>3. QED
    BY <2>1, <2>2 DEF StageInv, SettledServes, Settled, Listed
<1>5. CASE Reconcile
  <2>1. CASE EndPass(TRUE)
    BY <2>1, RetryRests
  <2>2. CASE ~EndPass(TRUE)
    <3>1. /\ pc = "reconcile" /\ pc' = "report" /\ host' = desired
          /\ UNCHANGED <<snapshot, todo, desired, v4, own, clients, stale, refused>>
      BY <1>5, <2>2 DEF Reconcile, Locals, server, history
    <3>2. PassInv'
      BY <3>1 DEF PassInv, Placed, Now, Wanted, Listed, SpecFor, OnNetwork
    <3>3. QED
      BY <3>1, <3>2 DEF StageInv, SettledServes, Settled, Listed
  <2>3. QED
    BY <2>1, <2>2
<1>6. CASE Report
  BY <1>6, ReportRests
<1>7. CASE CastLost \/ MarkDirty \/ UNCHANGED vars
  <2>1. UNCHANGED <<pc, snapshot, todo, desired, host, v4, own, clients, ready, stale, refused>>
    BY <1>7 DEF CastLost, MarkDirty, vars, memory, pass, server, history
  <2>2. PassInv' /\ StageInv'
    BY <2>1 DEF PassInv, StageInv, Placed, Now, Wanted, Listed, SpecFor, OnNetwork
  <2>3. SettledServes'
    BY <1>7, <2>1 DEF SettledServes, Settled, AsListed, Now, Wanted, Listed, SpecFor, OnNetwork,
                      CastLost, MarkDirty, vars, memory
  <2>4. QED
    BY <2>2, <2>3
<1>8. CASE Server
  <2>1. stale' = TRUE /\ UNCHANGED <<pc, snapshot, todo, desired, host>>
    BY <1>8 DEF Server, SubnetsChange, OwnPortDeleted, ClientCreated, ClientDeleted, Changes,
                pass
  <2>2. QED
    BY <2>1 DEF PassInv, StageInv, SettledServes, Settled, Listed
<1>9. CASE Restart
  BY <1>9 DEF Restart, NoLocals, PassInv, StageInv, SettledServes, Settled, Listed,
              NothingListed
<1>10. QED
  BY <1>1, <1>2, <1>3, <1>4, <1>5, <1>6, <1>7, <1>8, <1>9 DEF Next, Pass

\* When the agent rests every network has the port and the service the server asks for
\* and every port on it is reported, for any number of changes, failing or unanswered
\* calls and restarts before (agent.py: _sync).
THEOREM RestServes == Spec => []SettledServes
  BY InitRest, NextRests, TypeCorrect, PTL DEF Spec, RestInv

-----------------------------------------------------------------------------
(* The loop.                                                                *)

\* Every step of the agent is a step of SyncLoop or leaves the loop alone: a request
\* made while a pass runs outlives it, and a pass that fails makes one
\* (agent.py: sync_if_needed, _sync).  That passes end and begin is checked by TLC.
THEOREM LoopSafety == Spec => Loop!Init /\ [][Loop!Next]_(Loop!vars)
<1>1. Init => Loop!Init
  BY DEF Init, Loop!Init
<1>2. TypeOK /\ [Next]_vars => [Loop!Next]_(Loop!vars)
  <2> SUFFICES ASSUME TypeOK, [Next]_vars PROVE [Loop!Next]_(Loop!vars)
    OBVIOUS
  <2> USE DEF Loop!Next, Loop!vars
  <2>1. CASE StartPass
    BY <2>1 DEF StartPass, Loop!Begin
  <2>2. CASE pc # "idle" /\ EndPass(TRUE)
    BY <2>2 DEF EndPass, DirtyAfterPass, Loop!End
  <2>3. CASE Fetch /\ ~EndPass(TRUE)
    BY <2>3 DEF Fetch
  <2>4. CASE (\E n \in Networks : PortStep(n)) /\ ~EndPass(TRUE)
    BY <2>4 DEF PortStep, Release, CreatePort, KeepPort, RefitPort, Served, Raises, memory
  <2>5. CASE NetworksDone
    BY <2>5 DEF NetworksDone, memory
  <2>6. CASE Reconcile /\ ~EndPass(TRUE)
    BY <2>6 DEF Reconcile
  <2>7. CASE Report
    BY <2>7 DEF Report, EndPass, DirtyAfterPass, Loop!End
  <2>8. CASE MarkDirty
    BY <2>8 DEF MarkDirty, pass, Loop!Ask
  <2>9. CASE CastLost \/ Server
    BY <2>9 DEF CastLost, Server, SubnetsChange, OwnPortDeleted, ClientCreated,
                ClientDeleted, Changes, memory, pass
  <2>10. CASE Restart
    BY <2>10 DEF Restart, Loop!Restart
  <2>11. CASE UNCHANGED vars
    BY <2>11 DEF vars, memory, pass
  <2>12. Fetch \/ (\E n \in Networks : PortStep(n)) \/ Reconcile => pc # "idle"
    BY DEF Fetch, Reconcile, PortStep, Release, CreatePort, KeepPort, RefitPort
  <2>13. QED
    BY <2>1, <2>2, <2>3, <2>4, <2>5, <2>6, <2>7, <2>8, <2>9, <2>10, <2>11, <2>12
       DEF Next, Pass
<1>3. QED
  BY <1>1, <1>2, TypeCorrect, PTL DEF Spec
=============================================================================
