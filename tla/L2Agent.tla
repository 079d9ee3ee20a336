------------------------------- MODULE L2Agent -------------------------------
(***************************************************************************)
(* The l2 agent (l2_agent/agent.py) with the two worlds it stands between: *)
(* the neutron server, which binds ports and keeps their status, and the   *)
(* host's kernel, whose taps and epairs it makes members of bridges.       *)
(*                                                                         *)
(* The agent is one process of green threads.  A pass (_sync) gives way at *)
(* every RPC and at every command it runs; there the RPC handlers and the  *)
(* devd reader may change the agent's memory.  The pass is cut into one    *)
(* action per stretch between two such points.  What a pass does to the    *)
(* kernel op by op is the subject of module L2Reconcile; here it is one    *)
(* step with a success and a failure case.                                 *)
(***************************************************************************)
EXTENDS Naturals, FiniteSets

CONSTANTS
    VmPorts,            \* ports of instances: their tap is made by this agent
    ServicePorts,       \* dhcp and router ports: their epair is made by another agent
    FastRetryMisses,    \* FAST_RETRY_MISSES
    BindingMissLimit,   \* BINDING_MISS_LIMIT
    DeviceFaults,       \* may the server list a bound port in failed_devices?
    DevdMayDrop,        \* may a devd event be lost (pipe down)?
    MaxServer,          \* bound on the changes made at the server
    MaxHost,            \* bound on the epairs made and destroyed
    MaxFaults           \* bound on failing calls and on restarts

ASSUME PortsAssumption == VmPorts \cap ServicePorts = {}
ASSUME LimitsAssumption ==
    /\ FastRetryMisses \in Nat
    /\ BindingMissLimit \in Nat \ {0}
ASSUME FlagsAssumption == DeviceFaults \in BOOLEAN /\ DevdMayDrop \in BOOLEAN
ASSUME BoundsAssumption == MaxServer \in Nat /\ MaxHost \in Nat /\ MaxFaults \in Nat

Ports == VmPorts \cup ServicePorts

VARIABLES
    \* the agent's memory
    dirty,              \* _dirty
    candidates,         \* _candidates
    misses,             \* _misses, 0 for a port without an entry
    devicesUp,          \* _devices_up
    \* the locals of the running pass, empty between two passes
    pc,
    devices,            \* the ports asked for
    details,            \* the ports the server resolved: our_devices
    pending,            \* the ports that missed and stay candidates
    seenEpairs,         \* the kernel the pass read: the epairs it saw ...
    seenMembers,        \* ... and the members of its bridges
    \* the host
    file,               \* devices.json
    taps,               \* the owned taps
    epairs,             \* the epairs with a service group and a description
    members,            \* the ports whose interface is a bridge member
    devd,               \* an attach or detach event waits in the devd pipe
    \* the server
    bound,              \* the ports bound to this host
    gone,               \* the ports deleted
    status,             \* the status of each port
    msgs,               \* the notifications on their way to this agent
    \* history: ports announced since the running pass listed its devices
    heard,
    \* what is left of the bounds
    serverSteps, hostSteps, faults

memory == <<dirty, candidates, misses, devicesUp>>
pass   == <<pc, devices, details, pending, seenEpairs, seenMembers>>
host   == <<file, taps, epairs, members, devd>>
server == <<bound, gone, status, msgs>>
budget == <<serverSteps, hostSteps, faults>>
vars   == <<memory, pass, host, server, heard, budget>>

Stages == {"idle", "scan", "request", "reply", "build", "apply", "save",
           "report", "finish"}
Statuses == {"DOWN", "BUILD", "ACTIVE"}
Message == [kind: {"update", "activate", "delete", "deactivate"}, port: Ports]

MemoryTypeOK ==
    /\ dirty \in BOOLEAN
    /\ candidates \subseteq Ports
    /\ misses \in [Ports -> 0 .. BindingMissLimit - 1]
    /\ devicesUp \subseteq Ports

PassTypeOK ==
    /\ pc \in Stages
    /\ devices \subseteq Ports
    /\ pc \in {"idle", "scan"} => devices = {}
    /\ details \subseteq devices
    /\ pending \subseteq devices
    /\ seenEpairs \subseteq ServicePorts
    /\ seenMembers \subseteq Ports
    /\ heard \subseteq Ports

HostTypeOK ==
    /\ file \subseteq Ports
    /\ taps \subseteq VmPorts
    /\ epairs \subseteq ServicePorts
    /\ members \subseteq Ports
    /\ devd \in BOOLEAN

ServerTypeOK ==
    /\ bound \subseteq Ports
    /\ gone \subseteq Ports
    /\ status \in [Ports -> Statuses]
    /\ msgs \subseteq Message

BudgetTypeOK == serverSteps \in Nat /\ hostSteps \in Nat /\ faults \in Nat

TypeOK ==
    MemoryTypeOK /\ PassTypeOK /\ HostTypeOK /\ ServerTypeOK /\ BudgetTypeOK

-----------------------------------------------------------------------------
(* Ways the agent could have been written wrong; none is used by Next.      *)

\* The service groups are not scanned.
ScanFindsNothing == {}

\* A candidate past its fast retries is not asked for any more, or not counted.
AskedForFresh(known) == {p \in known : misses[p] <= FastRetryMisses}
CountFast(p) == IF misses[p] > FastRetryMisses THEN misses[p] ELSE misses[p] + 1

\* The last miss is counted one pass late.
GivesUpLate(p) == misses[p] + 1 > BindingMissLimit

\* Only ports that were not up before are reported.
ReportedUpOnlyNew(nowUp) == nowUp \ devicesUp

\* The device file is written from the set of the pass before.
SavedOldSet == devicesUp

\* The sync set forgets what was announced while the pass ran, or what it resolved.
RebuiltWithoutUnseen == details \cup pending
RebuiltWithoutResolved == pending \cup (candidates \ devices)

\* The flag is cleared when the pass ends instead of when it starts.
DirtyAfterPassCleared(again) == again

-----------------------------------------------------------------------------
(* What a pass computes.                                                    *)

\* The service ports found through the epairs of the other agents.
ScanFinds == epairs

\* The sorted snapshot of the candidates that one pass works on.
AskedFor(known) == known

\* Every miss but the last leaves the port a candidate.
Count(p) == misses[p] + 1
GivesUp(p) == Count(p) >= BindingMissLimit

Missed == devices \ details

\* A service port whose interface was not there when the kernel was read is
\* noted as awaiting-attach; a tap is made by the pass itself.
NowUp == details \cap (VmPorts \cup seenEpairs)

\* The members the plan adds and the members it removes.
Adds == (details \cap (VmPorts \cup seenEpairs)) \ seenMembers
Removes == seenMembers \ details

\* Adding an epair that has gone, or removing a member that has left with its
\* interface, is an ifconfig error.
CanApply == Adds \cap ServicePorts \subseteq epairs /\ Removes \subseteq members

\* The ports reported up and those reported down.
ReportedUp(nowUp) == nowUp
ReportedDown(nowUp) == devicesUp \ nowUp

SavedSet == details

Rebuilt == details \cup (candidates \cap NowUp) \cup pending
                   \cup (candidates \ devices)

FastRetry == \E p \in pending : misses[p] <= FastRetryMisses

\* Nothing clears the flag while a pass runs.
DirtyAfterPass(again) == dirty \/ again

EndPass ==
    /\ pc' = "idle"
    /\ devices' = {} /\ details' = {} /\ pending' = {}
    /\ seenEpairs' = {} /\ seenMembers' = {}
    /\ heard' = {}

Fault == faults < MaxFaults /\ faults' = faults + 1

-----------------------------------------------------------------------------
(* The agent boots with an empty memory on a fresh host.                    *)

Init ==
    /\ dirty = TRUE /\ candidates = {} /\ misses = [p \in Ports |-> 0]
    /\ devicesUp = {}
    /\ pc = "idle" /\ devices = {} /\ details = {} /\ pending = {}
    /\ seenEpairs = {} /\ seenMembers = {}
    /\ file = {} /\ taps = {} /\ epairs = {} /\ members = {} /\ devd = FALSE
    /\ bound = {} /\ gone = {} /\ status = [p \in Ports |-> "DOWN"]
    /\ msgs = {} /\ heard = {}
    /\ serverSteps = 0 /\ hostSteps = 0 /\ faults = 0

-----------------------------------------------------------------------------
(* The pass, from sync_if_needed to the return of _sync.                    *)

\* The loop takes over the request, or the interval has elapsed (force).
StartSync(force) ==
    /\ pc = "idle" /\ (dirty \/ force)
    /\ dirty' = FALSE
    /\ pc' = "scan"
    /\ UNCHANGED <<candidates, misses, devicesUp, devices, details, pending,
                   seenEpairs, seenMembers, host, server, heard, budget>>

\* The epairs of the service groups are read and the ports to ask for listed.
Scan ==
    /\ pc = "scan"
    /\ candidates' = candidates \cup ScanFinds
    /\ devices' = AskedFor(candidates')
    /\ pc' = IF devices' = {} THEN "build" ELSE "request"
    /\ UNCHANGED <<dirty, misses, devicesUp, details, pending, seenEpairs,
                   seenMembers, host, server, heard, budget>>

\* The server answers.  A port bound to this host is resolved, and put back to
\* BUILD, unless the server fails on it.
ServerReply(failed) ==
    /\ pc = "request"
    /\ failed \subseteq devices \cap bound
    /\ IF failed = {} THEN UNCHANGED faults ELSE DeviceFaults /\ Fault
    /\ details' = (devices \cap bound) \ failed
    /\ status' = [p \in Ports |-> IF p \in details' THEN "BUILD" ELSE status[p]]
    /\ pc' = "reply"
    /\ UNCHANGED <<memory, devices, pending, seenEpairs, seenMembers, host,
                   bound, gone, msgs, heard, serverSteps, hostSteps>>

\* The agent counts the misses and forgets those of the resolved ports.
HandleReply ==
    /\ pc = "reply"
    /\ LET dropped == {p \in Missed : GivesUp(p)} IN
       /\ pending' = Missed \ dropped
       /\ candidates' = candidates \ dropped
       /\ misses' = [p \in Ports |->
                       IF p \in details \cup dropped THEN 0
                       ELSE IF p \in Missed THEN Count(p)
                       ELSE misses[p]]
    /\ pc' = "build"
    /\ UNCHANGED <<dirty, devicesUp, devices, details, seenEpairs, seenMembers,
                   host, server, heard, budget>>

\* The security groups are fetched, the configuration built, the kernel read.
Read ==
    /\ pc = "build"
    /\ seenEpairs' = epairs
    /\ seenMembers' = members
    /\ pc' = "apply"
    /\ UNCHANGED <<memory, devices, details, pending, host, server, heard, budget>>

\* Every op of the plan is ok or parked: a tap that is held open outlives its
\* destroy.  Making or destroying a tap is a devd event too.
ApplyOk ==
    /\ pc = "apply" /\ CanApply
    /\ \E parked \in SUBSET (taps \ details) :
          taps' = (details \cap VmPorts) \cup parked
    /\ members' = (members \cup Adds) \ Removes
    /\ devd' = (devd \/ taps' # taps)
    /\ pc' = "save"
    /\ UNCHANGED <<memory, devices, details, pending, seenEpairs, seenMembers,
                   file, epairs, server, heard, budget>>

\* Some op fails; the others are applied all the same, and the pass raises.
ApplyFail ==
    /\ pc = "apply"
    /\ IF CanApply THEN Fault ELSE UNCHANGED faults
    /\ \E made \in SUBSET ((details \cap VmPorts) \ taps),
         destroyed \in SUBSET (taps \ details),
         removed \in SUBSET (Removes \cap members) :
       /\ taps' = (taps \cup made) \ destroyed
       /\ \E added \in SUBSET (Adds \cap (taps' \cup epairs)) :
             members' = (members \cup added) \ (removed \cup destroyed)
    /\ devd' = (devd \/ taps' # taps)
    /\ dirty' = TRUE
    /\ EndPass
    /\ UNCHANGED <<candidates, misses, devicesUp, file, epairs, server,
                   serverSteps, hostSteps>>

\* devices.json is replaced by rename; nothing is reported when nothing is up
\* and nothing was.
Save ==
    /\ pc = "save"
    /\ file' = SavedSet
    /\ pc' = IF NowUp \cup devicesUp = {} THEN "finish" ELSE "report"
    /\ UNCHANGED <<memory, devices, details, pending, seenEpairs, seenMembers,
                   taps, epairs, members, devd, server, heard, budget>>

\* The server takes the report over for the ports still bound to this host.
Report ==
    /\ pc = "report"
    /\ status' = [p \in Ports |->
                    IF p \notin bound THEN status[p]
                    ELSE IF p \in ReportedUp(NowUp) THEN "ACTIVE"
                    ELSE IF p \in ReportedDown(NowUp) THEN "DOWN"
                    ELSE status[p]]
    /\ pc' = "finish"
    /\ UNCHANGED <<memory, devices, details, pending, seenEpairs, seenMembers,
                   host, bound, gone, msgs, heard, budget>>

\* The pass records what is up and which ports the next one asks for.
Finish ==
    /\ pc = "finish"
    /\ devicesUp' = NowUp
    /\ candidates' = Rebuilt
    /\ dirty' = DirtyAfterPass(FastRetry)
    /\ EndPass
    /\ UNCHANGED <<misses, host, server, budget>>

\* A call of the pass fails, before or after its effect, or the kernel holds
\* something the plan refuses; nothing is undone, and _retry asks for a pass.
Fail ==
    /\ pc \in {"request", "reply", "build", "save", "report", "finish"}
    /\ pc = "finish" => NowUp \cup devicesUp # {}
    /\ Fault
    /\ dirty' = TRUE
    /\ EndPass
    /\ UNCHANGED <<candidates, misses, devicesUp, host, server,
                   serverSteps, hostSteps>>

-----------------------------------------------------------------------------
(* The handlers: green threads that run wherever the pass gives way.        *)

\* What port_update and binding_activate do with a port.
Track(m) ==
    /\ m \in msgs /\ msgs' = msgs \ {m}
    /\ candidates' = candidates \cup {m.port}
    /\ dirty' = TRUE
    /\ heard' = IF pc \in {"idle", "scan"} THEN heard ELSE heard \cup {m.port}
    /\ UNCHANGED <<misses, devicesUp, pass, host, bound, gone, status, budget>>

PortUpdate(m) == m.kind = "update" /\ Track(m)

BindingActivate(m) == m.kind = "activate" /\ Track(m)

PortDelete(m) ==
    /\ m.kind = "delete" /\ m \in msgs
    /\ msgs' = msgs \ {m}
    /\ candidates' = candidates \ {m.port}
    /\ misses' = [misses EXCEPT ![m.port] = 0]
    /\ dirty' = TRUE
    /\ heard' = heard \ {m.port}
    /\ UNCHANGED <<devicesUp, pass, host, bound, gone, status, budget>>

\* binding_deactivate, network_update and the security group handlers look at
\* nothing and mark the state dirty.
MarkDirty(m) ==
    /\ m.kind = "deactivate" /\ m \in msgs
    /\ msgs' = msgs \ {m}
    /\ dirty' = TRUE
    /\ UNCHANGED <<candidates, misses, devicesUp, pass, host, bound, gone,
                   status, heard, budget>>

DevdEvent ==
    /\ devd /\ devd' = FALSE
    /\ dirty' = TRUE
    /\ UNCHANGED <<candidates, misses, devicesUp, pass, file, taps, epairs,
                   members, server, heard, budget>>

\* The agent dies at any point and comes back: it knows the device file, the
\* epairs and, unless that read fails, the taps.  Notifications sent while it
\* was away are lost.
Restart ==
    /\ Fault
    /\ dirty' = TRUE
    /\ \E kernel \in {taps, {}} : candidates' = file \cup kernel \cup epairs
    /\ misses' = [p \in Ports |-> 0]
    /\ devicesUp' = {}
    /\ EndPass
    /\ devd' = FALSE
    /\ msgs' \in SUBSET msgs
    /\ UNCHANGED <<file, taps, epairs, members, bound, gone, status,
                   serverSteps, hostSteps>>

-----------------------------------------------------------------------------
(* The server and the host.                                                 *)

ServerStep == serverSteps < MaxServer /\ serverSteps' = serverSteps + 1

\* An update of a port of an instance reaches every agent, bound here or not.
Announce(p, kind) ==
    /\ ServerStep
    /\ p \in VmPorts \ gone
    /\ msgs' = msgs \cup {[kind |-> kind, port |-> p]}
    /\ UNCHANGED <<memory, pass, host, bound, gone, status, heard, hostSteps, faults>>

\* The binding is committed.  Only a port of an instance is announced, and only
\* such a port comes back to a host it has left.
Bind(p) ==
    /\ ServerStep
    /\ p \in Ports \ (bound \cup gone)
    /\ bound' = bound \cup {p}
    /\ msgs' = IF p \in VmPorts
                 THEN msgs \cup {[kind |-> "update", port |-> p]} ELSE msgs
    /\ UNCHANGED <<memory, pass, host, gone, status, heard, hostSteps, faults>>

Unbind(p) ==
    /\ ServerStep
    /\ p \in VmPorts \cap bound
    /\ bound' = bound \ {p}
    /\ status' = [status EXCEPT ![p] = "DOWN"]
    /\ msgs' = msgs \cup {[kind |-> "deactivate", port |-> p]}
    /\ UNCHANGED <<memory, pass, host, gone, heard, hostSteps, faults>>

DeletePort(p) ==
    /\ ServerStep
    /\ p \in Ports \ gone
    /\ gone' = gone \cup {p}
    /\ bound' = bound \ {p}
    /\ status' = [status EXCEPT ![p] = "DOWN"]
    /\ msgs' = msgs \cup {[kind |-> "delete", port |-> p]}
    /\ UNCHANGED <<memory, pass, host, heard, hostSteps, faults>>

HostStep == hostSteps < MaxHost /\ hostSteps' = hostSteps + 1

\* The dhcp or l3 agent makes an epair.  It is described, and so seen by a scan,
\* after the attach event, which may have been read by then.
EpairAppears(p) ==
    /\ HostStep
    /\ p \in ServicePorts \ epairs
    /\ epairs' = epairs \cup {p}
    /\ \E unread \in BOOLEAN : devd' = (devd \/ unread)
    /\ UNCHANGED <<memory, pass, file, taps, members, server, heard,
                   serverSteps, faults>>

\* A destroyed epair leaves its bridge with a detach event.
EpairVanishes(p) ==
    /\ HostStep
    /\ p \in epairs
    /\ epairs' = epairs \ {p}
    /\ members' = members \ {p}
    /\ devd' = TRUE
    /\ UNCHANGED <<memory, pass, file, taps, server, heard, serverSteps, faults>>

\* The pipe is down: the reader reconnects, the event is not sent again.
DevdLost ==
    /\ DevdMayDrop /\ devd /\ devd' = FALSE
    /\ UNCHANGED <<memory, pass, file, taps, epairs, members, server, heard, budget>>

-----------------------------------------------------------------------------

\* What the agent's main loop does by itself.
Pass ==
    \/ \E force \in BOOLEAN : StartSync(force)
    \/ Scan
    \/ \E failed \in SUBSET Ports : ServerReply(failed)
    \/ HandleReply \/ Read \/ ApplyOk \/ ApplyFail \/ Save \/ Report
    \/ Finish \/ Fail

Handle ==
    \/ \E m \in msgs : PortUpdate(m) \/ BindingActivate(m) \/ PortDelete(m)
                        \/ MarkDirty(m)
    \/ DevdEvent

Outside ==
    \/ \E p \in Ports : \E kind \in {"update", "activate"} : Announce(p, kind)
    \/ \E p \in Ports : Bind(p) \/ Unbind(p) \/ DeletePort(p)
                         \/ EpairAppears(p) \/ EpairVanishes(p)
    \/ DevdLost

Next == Pass \/ Handle \/ Outside \/ Restart

\* The loop never stops: a pass moves on, and the next one starts at the latest
\* when the interval has elapsed.  Handlers are run; the outside owes nothing.
Fairness == WF_vars(Pass) /\ WF_vars(Handle)

Spec == Init /\ [][Next]_vars /\ Fairness

-----------------------------------------------------------------------------
(* Properties.                                                              *)

\* Nothing is under way and nothing waits: the agent sleeps till the interval.
Settled == pc = "idle" /\ ~dirty /\ msgs = {} /\ ~devd

ActivePorts == {p \in Ports : status[p] = "ACTIVE"}

\* A port announced while the pass runs, and not asked for by it, is asked for by
\* the next one: the sync set that ends the pass keeps it, whatever the pass
\* drops (agent.py:272-277).
LateAnnouncementKept == [][Finish => heard \ devices \subseteq candidates']_vars

\* When the agent sleeps, every port it holds for up is ACTIVE at the server,
\* although each pass puts it back to BUILD: a pass that fails between the fetch
\* and the report must leave the agent dirty (agent.py:264-270, 299-301).  And
\* if no event was lost it is a bridge member, whatever epairs came and went
\* while the pass ran.
SettledIsUp ==
    Settled => /\ devicesUp \cap bound \subseteq ActivePorts
               /\ ~DevdMayDrop => devicesUp \subseteq members

\* When the agent sleeps, a bound port it tracks is up or has used up its fast
\* retries: no wake-up is missing (agent.py:246-279).
SettledTracksUp ==
    Settled => \A p \in candidates \cap bound \cap VmPorts :
                 p \in devicesUp \/ misses[p] > FastRetryMisses

\* A port the server holds for ACTIVE is in devices.json and in the sync set, so
\* that an agent that dies at any moment and cannot read the kernel still asks
\* for it when it is back (agent.py:84-103, 243).
ActiveIsDurable == ~DeviceFaults => ActivePorts \subseteq file

ActiveIsTracked == ~DeviceFaults => ActivePorts \subseteq candidates

\* A bound port of an instance that the agent tracks is reported up, unless it is
\* unbound or dropped first; failing calls and lost events only delay it.
TrackedComesUp ==
    \A p \in VmPorts :
        p \in candidates \cap bound ~> p \in devicesUp \/ p \notin candidates \cap bound

\* A service port whose epair stays is reported up although nothing announces it,
\* its devd event may be lost and it may have been given up before: the scan of
\* each periodic pass finds it again (agent.py:121-130, 181).  One that lost its
\* epair does not stay up in the agent's report, lost event or not (agent.py:245-262).
ServiceFollowsEpair ==
    \A p \in ServicePorts :
        /\ p \in bound \cap epairs ~> p \in devicesUp \/ p \notin bound \cap epairs
        /\ p \in devicesUp \ epairs ~> p \notin devicesUp \ epairs

\* A candidate the server does not resolve is dropped in the end (agent.py:38,
\* 193-196).
UnresolvableDropped ==
    \A p \in VmPorts :
        p \in candidates \ bound ~> p \notin candidates \ bound

\* The agent's loop keeps the promise of SyncLoop: no request for a pass is lost
\* (agent.py:281-303), and every pass ends.
Loop == INSTANCE SyncLoop WITH work <- dirty, running <- (pc # "idle")
ImplementsSyncLoop == Loop!Spec

-----------------------------------------------------------------------------
(* What the repository says and the code does not do (see README.md).       *)

\* agent.py:272: "keep candidates that arrived while the RPC calls above yielded,
\* or a port announced mid-sync is silently orphaned".
AnnouncementKept == [][Finish => heard \subseteq candidates']_vars
=============================================================================
