----------------------------- MODULE L2Reconcile -----------------------------
(***************************************************************************)
(* One host's bridges, taps, uplinks and pf anchors, and the l2 agent's    *)
(* reconcile pass that works on them: read the kernel, diff it against the *)
(* desired configuration into a plan (plan.py), apply the plan op by op    *)
(* without stopping early (writer.py, pf.py).                              *)
(*                                                                         *)
(* Between the read and any command the operator, the other agents and the *)
(* virtual machines go on; a command may fail; the agent may die and start *)
(* a new pass.  When passes are run is the subject of module L2Agent.      *)
(***************************************************************************)
EXTENDS Naturals, FiniteSets

CONSTANTS
    Bridges,        \* one per segment
    Taps,           \* taps of the ports of instances, made by the agent
    Vlans,          \* vlan uplinks, made by the agent
    Attached,       \* interfaces made by others: service epairs, the NIC of a flat segment
    Early,          \* which of those may be there before the agent, a set of sets
    Home,           \* the bridge of the segment each interface belongs to
    Uplink,         \* the uplink of each bridge, or NoIface
    NoIface, NoBridge,
    NoPolicy,       \* port security disabled
    Rules, Tables,  \* the rules rendered for a port, the members of its tables
    Configs,        \* the configurations the server may ask for
    Broken,         \* interfaces no command on which succeeds
    MaxDesires, MaxOthers, MaxFaults, \* bounds on changes of the desire, of the kernel by others, on faults
    MovesMembers    \* may the operator move a member to another bridge of the agent?

Ifaces == Taps \cup Vlans \cup Attached
Policy == [rules : Rules, table : Tables]

ASSUME NamesAssumption ==
    /\ Taps \cap Vlans = {} /\ Taps \cap Attached = {} /\ Vlans \cap Attached = {}
    /\ NoIface \notin Ifaces /\ NoBridge \notin Bridges /\ NoPolicy \notin Policy
ASSUME EarlyAssumption == Early \subseteq SUBSET Attached
ASSUME HomeAssumption == Home \in [Ifaces -> Bridges]
ASSUME UplinkAssumption ==
    \A b \in Bridges : Uplink[b] # NoIface => /\ Uplink[b] \in Vlans \cup Attached
                                             /\ Home[Uplink[b]] = b
ASSUME ConfigsAssumption ==
    Configs \subseteq [ports  : SUBSET (Taps \cup Attached),
                       policy : [Taps -> Policy \cup {NoPolicy}]]

VARIABLES
    want,       \* the configuration the next pass gets from the server
    \* the pass
    goal,       \* the configuration of the running pass
    todo,       \* the ops of the plan not yet applied
    cur, step,  \* an op of several commands under way, and the commands done
    pc,
    notOk,      \* some receipt of the pass is not ok, or the pass raised
    \* the kernel
    bridge,     \* "absent", "owned" or "foreign"
    tuned,      \* the bridges with the desired maxaddr
    iface,      \* "absent", "owned" or "foreign"
    on,         \* the bridge an interface is a member of
    lock,       \* the parts of its MAC lock that took effect
    anchor,     \* the pf anchor of a tap
    oldStates,  \* taps with states that were established under other rules
    held,       \* taps a virtual machine holds open
    \* history of the pass
    touched,    \* someone else changed the kernel while the pass ran
    raced,      \* ... while the op under way was
    notLoaded,  \* taps whose anchor the pass failed to load
    desires, others, faults

opVars   == <<cur, step, raced>>
passVars == <<goal, todo, opVars, pc, notOk, touched, notLoaded>>
ifaceState == <<iface, on, lock>>
bridgeState == <<bridge, tuned>>
pfState  == <<anchor, oldStates>>
kernel   == <<bridgeState, ifaceState, pfState, held>>
budget   == <<desires, others, faults>>
vars     == <<want, passVars, kernel, budget>>

LockParts == {"static", "ifmaxaddr", "sticky"}
Ownership == {"absent", "owned", "foreign"}
Kinds == {"CreateBridge", "SetMaxaddr", "CreateVlan",
          "RemoveMember",
          "CreateTap", "LoadAnchor", "AddMember", "ReplaceTable", "LockMemberMac",
          "FlushAnchor", "DestroyIface", "DestroyBridge"}
\* An op, the interface it is about and the bridge it is about.
Op == [kind : Kinds, i : Ifaces \cup {NoIface}, b : Bridges \cup {NoBridge}]
NoOp == [kind |-> "none", i |-> NoIface, b |-> NoBridge]

TypeOK ==
    /\ want \in Configs /\ goal \in Configs
    /\ todo \subseteq Op
    /\ cur \in Op \cup {NoOp} /\ step \in 0 .. 2
    /\ pc \in {"idle", "apply"}
    /\ pc = "idle" => todo = {} /\ cur = NoOp
    /\ notOk \in BOOLEAN /\ touched \in BOOLEAN /\ raced \in BOOLEAN
    /\ notLoaded \subseteq Taps
    /\ bridge \in [Bridges -> Ownership]
    /\ tuned \subseteq Bridges
    /\ iface \in [Ifaces -> Ownership]
    /\ on \in [Ifaces -> Bridges \cup {NoBridge}]
    /\ \A i \in Ifaces : on[i] # NoBridge => iface[i] # "absent" /\ bridge[on[i]] # "absent"
    /\ lock \in [Taps -> SUBSET LockParts]
    /\ \A t \in Taps : on[t] = NoBridge => lock[t] = {}
    /\ anchor \in [Taps -> Policy \cup {NoPolicy}]
    /\ oldStates \subseteq Taps /\ held \subseteq Taps
    /\ desires \in Nat /\ others \in Nat /\ faults \in Nat

-----------------------------------------------------------------------------
(* Ways the pass could have been written wrong; none is used by Next.       *)

\* A member joins its bridge before its rules are loaded.
RankMemberFirst(o) ==
    CASE o.kind = "CreateTap" -> 1
      [] o.kind = "AddMember" -> 2
      [] o.kind = "LoadAnchor" -> 3
      [] o.kind = "ReplaceTable" -> 4
      [] o.kind = "LockMemberMac" -> 5
      [] o.kind = "FlushAnchor" -> 6
      [] o.kind = "DestroyIface" -> 7
      [] OTHER -> 0

\* A flush is ok whatever is found afterwards.
FlushTrusted(o) == TRUE

\* The plan is trusted: what exists is destroyed.
StillThere(o) == \/ o.kind = "DestroyIface" /\ iface[o.i] # "absent"
                 \/ o.kind = "DestroyBridge" /\ bridge[o.b] # "absent"

\* The pass ends at the first op that fails.
AllAppliedOrFailed == pc = "apply" /\ cur = NoOp /\ (todo = {} \/ notOk)

-----------------------------------------------------------------------------
(* The desired configuration.                                               *)

WantedBridges(c) == {Home[i] : i \in c.ports}
WantedUplinks(c) == {Uplink[b] : b \in WantedBridges(c)} \ {NoIface}
Desired(c) == c.ports \cup WantedUplinks(c)
Policied(c) == {t \in c.ports \cap Taps : c.policy[t] # NoPolicy}

Exists(i) == iface[i] # "absent"
Owned(i) == iface[i] = "owned"
Present(b) == bridge[b] # "absent"

\* A bridge or a tap of someone else under a desired name.
PlanError(c) ==
    \/ \E b \in WantedBridges(c) : bridge[b] = "foreign"
    \/ \E t \in c.ports \cap Taps : iface[t] = "foreign"

-----------------------------------------------------------------------------
(* The plan: diff.                                                          *)

BridgeOp(kind, b) == [kind |-> kind, i |-> NoIface, b |-> b]
IfaceOp(kind, i) == [kind |-> kind, i |-> i, b |-> Home[i]]

\* Uplinks are made only for a vlan segment; that of a flat one is attached.
UplinkCreates(c) == {IfaceOp("CreateVlan", v) : v \in {x \in WantedUplinks(c) \cap Vlans : ~Exists(x)}}

Creates(c) ==
    {BridgeOp("CreateBridge", b) : b \in {x \in WantedBridges(c) : ~Present(x)}}
    \cup {BridgeOp("SetMaxaddr", b) : b \in {x \in WantedBridges(c) : Present(x) /\ x \notin tuned}}
    \cup UplinkCreates(c)

NeedsLoad(c, t) ==
    /\ t \in Policied(c)
    /\ anchor[t] = NoPolicy \/ anchor[t].rules # c.policy[t].rules

NeedsTable(c, t) ==
    t \in Policied(c) /\ ~NeedsLoad(c, t) /\ anchor[t].table # c.policy[t].table

\* Written wrong, not used: hardware not attached yet is planned for again and again.
NeedsMemberEager(c, i) == i \in Desired(c) /\ on[i] # Home[i]

\* Attached hardware that is not there yet is only noted.
NeedsMember(c, i) ==
    /\ i \in Desired(c)
    /\ on[i] # Home[i]
    /\ i \in Attached => Exists(i)

\* Only the static entry is looked at.
NeedsLock(c, t) == t \in Policied(c) /\ ~(on[t] = Home[t] /\ "static" \in lock[t])

Adds(c) ==
    {IfaceOp("CreateTap", t) : t \in {x \in c.ports \cap Taps : ~Exists(x)}}
    \cup {IfaceOp("LoadAnchor", t) : t \in {x \in Taps : NeedsLoad(c, x)}}
    \cup {IfaceOp("AddMember", i) : i \in {x \in Ifaces : NeedsMember(c, x)}}
    \cup {IfaceOp("ReplaceTable", t) : t \in {x \in Taps : NeedsTable(c, x)}}
    \cup {IfaceOp("LockMemberMac", t) : t \in {x \in Taps : NeedsLock(c, x)}}

\* members the configuration does not put there, and members of unwanted bridges
Strays(c) ==
    {i \in Ifaces :
        /\ on[i] # NoBridge
        /\ bridge[on[i]] = "owned"
        /\ ~(i \in Desired(c) /\ Home[i] = on[i])}

Removes(c) == {[kind |-> "RemoveMember", i |-> i, b |-> on[i]] : i \in Strays(c)}

Orphans(c) == {i \in Ifaces : Owned(i) /\ i \notin Desired(c)}

Evicted(c) == {i \in Strays(c) : Owned(i)}
Doomed(c) == Evicted(c) \cup Orphans(c)

\* Any anchor no member calls for is flushed with the removes, as an op without a
\* bridge, unless its tap is evicted; that of a doomed tap with the destroys.
Collected(c) == {t \in Taps : anchor[t] # NoPolicy /\ t \notin Policied(c) \cup Evicted(c)}
Flushes(c) ==
    {[kind |-> "FlushAnchor", i |-> t, b |-> NoBridge] : t \in Collected(c)}
    \cup {IfaceOp("FlushAnchor", t) : t \in {x \in Taps \cap Doomed(c) : anchor[x] # NoPolicy}}

Destroys(c) ==
    Flushes(c)
    \cup {IfaceOp("DestroyIface", i) : i \in Doomed(c)}
    \cup {BridgeOp("DestroyBridge", b) : b \in {x \in Bridges : bridge[x] = "owned" /\ x \notin WantedBridges(c)}}

Diff(c) == Creates(c) \cup Removes(c) \cup Adds(c) \cup Destroys(c)

-----------------------------------------------------------------------------
(* The order of a plan: creates, removes, adds, destroys, and within the    *)
(* adds and the destroys of one interface the order of Rank.  Ops the plan  *)
(* orders only by the names of their interfaces are applied in any order.   *)

Phase(o) ==
    CASE o.kind \in {"CreateBridge", "SetMaxaddr", "CreateVlan"} -> 1
      [] o.kind = "RemoveMember" -> 2
      [] o.kind = "FlushAnchor" -> IF o.b = NoBridge THEN 2 ELSE 4
      [] o.kind \in {"CreateTap", "LoadAnchor", "AddMember", "ReplaceTable", "LockMemberMac"} -> 3
      [] o.kind \in {"DestroyIface", "DestroyBridge"} -> 4

\* Position among the ops of one interface.
Rank(o) ==
    CASE o.kind = "CreateTap" -> 1
      [] o.kind = "LoadAnchor" -> 2
      [] o.kind = "AddMember" -> 3
      [] o.kind = "ReplaceTable" -> 4
      [] o.kind = "LockMemberMac" -> 5
      [] o.kind = "FlushAnchor" -> 6
      [] o.kind = "DestroyIface" -> 7
      [] OTHER -> 0

Before(o, p) ==
    \/ Phase(o) < Phase(p)
    \/ Phase(o) = Phase(p) /\ o.i = p.i /\ o.i # NoIface /\ Rank(o) < Rank(p)

Ready == {o \in todo : \A p \in todo : ~Before(p, o)}

-----------------------------------------------------------------------------
Init ==
    /\ want \in Configs /\ goal = want
    /\ todo = {} /\ cur = NoOp /\ step = 0 /\ raced = FALSE /\ pc = "idle"
    /\ notOk = FALSE /\ touched = FALSE /\ notLoaded = {}
    /\ bridge = [b \in Bridges |-> "absent"] /\ tuned = {}
    /\ \E S \in Early : iface = [i \in Ifaces |-> IF i \in S THEN "foreign" ELSE "absent"]
    /\ on = [i \in Ifaces |-> NoBridge]
    /\ lock = [t \in Taps |-> {}]
    /\ anchor = [t \in Taps |-> NoPolicy] /\ oldStates = {} /\ held = {}
    /\ desires = 0 /\ others = 0 /\ faults = 0

-----------------------------------------------------------------------------
(* The pass.                                                                *)

\* The kernel is read and the plan made from what was read.
Plan ==
    /\ pc = "idle" /\ ~PlanError(want)
    /\ todo' = Diff(want) /\ pc' = "apply"
    /\ notOk' = FALSE /\ touched' = FALSE /\ notLoaded' = {}
    /\ UNCHANGED <<want, goal, opVars, kernel, budget>>

\* The planner refuses: nothing of the plan is applied, for no bridge.
PlanRaises ==
    /\ pc = "idle" /\ PlanError(want)
    /\ notOk' = TRUE
    /\ UNCHANGED <<want, goal, todo, opVars, pc, touched, notLoaded, kernel, budget>>

AllApplied == pc = "apply" /\ todo = {} /\ cur = NoOp

EndPass ==
    /\ AllApplied
    /\ pc' = "idle" /\ goal' = want
    /\ touched' = FALSE /\ notLoaded' = {}
    /\ UNCHANGED <<want, todo, opVars, notOk, kernel, budget>>

\* The next op of the plan is taken; it is over with its receipt.
Take(o) == pc = "apply" /\ cur = NoOp /\ o \in Ready /\ todo' = todo \ {o}
Over == cur' = NoOp /\ step' = 0 /\ raced' = FALSE
PassRest == UNCHANGED <<want, goal, pc, touched, budget>>
Ok == UNCHANGED <<notOk, notLoaded>> /\ PassRest

\* What the kernel accepts.
Possible(o) ==
    /\ o.i \notin Broken
    /\ CASE o.kind = "CreateBridge" -> ~Present(o.b)
         [] o.kind = "SetMaxaddr" -> Present(o.b)
         [] o.kind \in {"CreateTap", "CreateVlan"} -> ~Exists(o.i)
         [] o.kind = "AddMember" -> Present(o.b) /\ Exists(o.i) /\ on[o.i] = NoBridge
         [] o.kind \in {"RemoveMember", "LockMemberMac"} -> on[o.i] = o.b
         [] o.kind = "ReplaceTable" -> anchor[o.i] # NoPolicy
         [] o.kind = "DestroyIface" -> Exists(o.i) /\ o.i \notin held
         [] o.kind = "DestroyBridge" -> Present(o.b)
         [] OTHER -> TRUE

CreateBridge(o) ==
    /\ o.kind = "CreateBridge" /\ Take(o) /\ Possible(o)
    /\ bridge' = [bridge EXCEPT ![o.b] = "owned"]
    /\ tuned' = tuned \cup {o.b}
    /\ Over /\ Ok /\ UNCHANGED <<ifaceState, pfState, held>>

SetMaxaddr(o) ==
    /\ o.kind = "SetMaxaddr" /\ Take(o) /\ Possible(o)
    /\ tuned' = tuned \cup {o.b}
    /\ Over /\ Ok /\ UNCHANGED <<bridge, ifaceState, pfState, held>>

\* Made with the ownership group in one command.
CreateIface(o) ==
    /\ o.kind \in {"CreateTap", "CreateVlan"} /\ Take(o) /\ Possible(o)
    /\ iface' = [iface EXCEPT ![o.i] = "owned"]
    /\ Over /\ Ok /\ UNCHANGED <<bridgeState, on, lock, pfState, held>>

AddMember(o) ==
    /\ o.kind = "AddMember" /\ Take(o) /\ Possible(o)
    /\ on' = [on EXCEPT ![o.i] = o.b]
    /\ Over /\ Ok /\ UNCHANGED <<bridgeState, iface, lock, pfState, held>>

\* The interfaces of S leave their bridges, and what the bridge knew of them goes.
Leave(S) ==
    /\ on' = [i \in Ifaces |-> IF i \in S THEN NoBridge ELSE on[i]]
    /\ lock' = [t \in Taps |-> IF t \in S THEN {} ELSE lock[t]]

RemoveMember(o) ==
    /\ o.kind = "RemoveMember" /\ Take(o) /\ Possible(o)
    /\ Leave({o.i})
    /\ Over /\ Ok /\ UNCHANGED <<bridgeState, iface, pfState, held>>

ReplaceTable(o) ==
    /\ o.kind = "ReplaceTable" /\ Take(o) /\ Possible(o)
    /\ anchor' = [anchor EXCEPT ![o.i].table = goal.policy[o.i].table]
    /\ Over /\ Ok /\ UNCHANGED <<bridgeState, ifaceState, oldStates, held>>

\* Rules changed under a member: it may have states from before.
Outdate(t) == oldStates' \in IF on[t] = NoBridge THEN {oldStates}
                             ELSE {oldStates, oldStates \cup {t}}

\* First command of two: the rules and tables are replaced.
LoadAnchor(o) ==
    /\ o.kind = "LoadAnchor" /\ Take(o) /\ Possible(o)
    /\ anchor' = [anchor EXCEPT ![o.i] = goal.policy[o.i]]
    /\ Outdate(o.i)
    /\ cur' = o /\ step' = 1 /\ UNCHANGED raced
    /\ Ok /\ UNCHANGED <<bridgeState, ifaceState, held>>

Fault == faults < MaxFaults /\ faults' = faults + 1

Flushed(o) == anchor[o.i] = NoPolicy

\* First command of a flush: its result is not looked at.
FlushAnchor(o) ==
    /\ o.kind = "FlushAnchor" /\ Take(o)
    /\ \/ /\ Possible(o)
          /\ anchor' = [anchor EXCEPT ![o.i] = NoPolicy]
          /\ IF Flushed(o) THEN UNCHANGED oldStates ELSE Outdate(o.i)
          /\ UNCHANGED faults
       \/ /\ IF Possible(o) THEN Fault ELSE UNCHANGED faults
          /\ UNCHANGED <<anchor, oldStates>>
    /\ cur' = o /\ step' = 1
    /\ UNCHANGED <<want, goal, pc, raced, notOk, touched, notLoaded, bridgeState, ifaceState, held,
                   desires, others>>

\* Second command of a load and a flush: the port's states are killed.  If they
\* cannot be listed none is, and the op is ok all the same; a flush is ok if the
\* anchor is found empty afterwards.
KillStates ==
    /\ cur.kind \in {"LoadAnchor", "FlushAnchor"}
    /\ \/ oldStates' = oldStates \ {cur.i} /\ UNCHANGED faults
       \/ Fault /\ UNCHANGED oldStates
    /\ notOk' = (notOk \/ (cur.kind = "FlushAnchor" /\ ~Flushed(cur)))
    /\ Over
    /\ UNCHANGED <<want, goal, todo, pc, touched, notLoaded, bridgeState, ifaceState,
                   anchor, held, desires, others>>

\* The three commands of a lock; the op is over after the last.
LockPart(o, k) == CASE k = 0 -> "static" [] k = 1 -> "ifmaxaddr" [] k = 2 -> "sticky"

LockMemberMac(o) ==
    /\ o.kind = "LockMemberMac" /\ Possible(o)
    /\ \/ Take(o)
       \/ cur = o /\ UNCHANGED todo
    /\ lock' = [lock EXCEPT ![o.i] = @ \cup {LockPart(o, step)}]
    /\ IF step = 2 THEN Over ELSE cur' = o /\ step' = step + 1 /\ UNCHANGED raced
    /\ Ok /\ UNCHANGED <<bridgeState, iface, on, pfState, held>>

\* First command of a destroy: the group is read again.  What has gone already is
\* fine, what is not the agent's by now is refused.
Destroying(o) == o.kind \in {"DestroyIface", "DestroyBridge"}

Gone(o) == \/ o.kind = "DestroyIface" /\ ~Exists(o.i)
           \/ o.kind = "DestroyBridge" /\ ~Present(o.b)

StillOwned(o) == \/ o.kind = "DestroyIface" /\ Owned(o.i)
                 \/ o.kind = "DestroyBridge" /\ bridge[o.b] = "owned"

Recheck(o) ==
    /\ StillOwned(o) /\ Take(o)
    /\ cur' = o /\ step' = 1 /\ UNCHANGED raced
    /\ Ok /\ UNCHANGED kernel

AlreadyAbsent(o) ==
    /\ Gone(o) /\ Take(o) /\ Over /\ Ok /\ UNCHANGED kernel

\* Second command of a destroy.
DestroyIface(o) ==
    /\ o.kind = "DestroyIface" /\ cur = o /\ Possible(o)
    /\ iface' = [iface EXCEPT ![o.i] = "absent"]
    /\ Leave({o.i})
    /\ oldStates' = oldStates \ {o.i}
    /\ Over /\ Ok /\ UNCHANGED <<todo, bridgeState, anchor, held>>

DestroyBridge(o) ==
    /\ o.kind = "DestroyBridge" /\ cur = o /\ Possible(o)
    /\ bridge' = [bridge EXCEPT ![o.b] = "absent"]
    /\ tuned' = tuned \ {o.b}
    /\ Leave({i \in Ifaces : on[i] = o.b})
    /\ Over /\ Ok /\ UNCHANGED <<todo, iface, pfState, held>>

Failed(o) ==
    /\ notOk' = TRUE
    /\ notLoaded' = IF o.kind = "LoadAnchor" THEN notLoaded \cup {o.i} ELSE notLoaded
    /\ Over
    /\ UNCHANGED <<want, goal, pc, touched, kernel, desires, others>>

\* The group is gone: no command is run.
Refuse(o) ==
    /\ Destroying(o) /\ ~Gone(o) /\ ~StillOwned(o)
    /\ Take(o) /\ Failed(o) /\ UNCHANGED faults

\* A command is not accepted, times out on a held tap, or fails for no reason of its
\* own: the op ends there and the pass goes on with the next.
OpFails(o) ==
    /\ o.kind # "FlushAnchor"
    /\ \/ Take(o) /\ ~Destroying(o)
       \/ cur = o /\ (Destroying(o) \/ o.kind = "LockMemberMac") /\ UNCHANGED todo
    /\ IF Possible(o) THEN Fault ELSE UNCHANGED faults
    /\ Failed(o)

\* The agent dies; the plan goes with it.
Crash ==
    /\ pc = "apply" /\ Fault
    /\ pc' = "idle" /\ goal' = want /\ todo' = {} /\ Over
    /\ notOk' = TRUE /\ touched' = FALSE /\ notLoaded' = {}
    /\ UNCHANGED <<want, kernel, desires, others>>

-----------------------------------------------------------------------------
(* The others.                                                              *)

\* The server asks for something else.
Desire(c) ==
    /\ c # want /\ desires < MaxDesires /\ desires' = desires + 1
    /\ want' = c
    /\ goal' = IF pc = "idle" THEN c ELSE goal
    /\ UNCHANGED <<todo, opVars, pc, notOk, touched, notLoaded, kernel, others, faults>>

Other ==
    /\ others < MaxOthers /\ others' = others + 1
    /\ touched' = (touched \/ pc = "apply")
    /\ raced' = (raced \/ cur # NoOp)
    /\ UNCHANGED <<want, goal, todo, cur, step, pc, notOk, notLoaded, pfState, desires, faults>>

\* The dhcp or l3 agent makes an epair or takes it away, a NIC is plugged.
Attach(i) ==
    /\ Other /\ i \in Attached /\ ~Exists(i)
    /\ iface' = [iface EXCEPT ![i] = "foreign"]
    /\ UNCHANGED <<bridgeState, on, lock, held>>

Detach(i) ==
    /\ Other /\ i \in Attached /\ Exists(i)
    /\ iface' = [iface EXCEPT ![i] = "absent"]
    /\ Leave({i})
    /\ UNCHANGED <<bridgeState, held>>

\* The operator's own bridges.
OperatorBridge(b) ==
    /\ Other /\ ~Present(b)
    /\ bridge' = [bridge EXCEPT ![b] = "foreign"]
    /\ UNCHANGED <<tuned, ifaceState, held>>

OperatorUnbridge(b) ==
    /\ Other /\ Present(b)
    /\ bridge' = [bridge EXCEPT ![b] = "absent"]
    /\ tuned' = tuned \ {b}
    /\ Leave({i \in Ifaces : on[i] = b})
    /\ UNCHANGED <<iface, held>>

OperatorTunes(b) ==
    /\ Other /\ b \in tuned
    /\ tuned' = tuned \ {b}
    /\ UNCHANGED <<bridge, ifaceState, held>>

\* An interface is taken out of the ownership group, or destroyed.
OperatorTakes(i) ==
    /\ Other /\ Owned(i)
    /\ iface' = [iface EXCEPT ![i] = "foreign"]
    /\ UNCHANGED <<bridgeState, on, lock, held>>

OperatorDestroys(i) ==
    /\ Other /\ i \notin Attached /\ Exists(i) /\ i \notin held
    /\ iface' = [iface EXCEPT ![i] = "absent"]
    /\ Leave({i})
    /\ UNCHANGED <<bridgeState, held>>

OperatorJoins(i, b) ==
    /\ Other /\ Exists(i) /\ on[i] = NoBridge /\ bridge[b] = "owned"
    /\ (Owned(i) /\ b # Home[i]) => MovesMembers
    /\ on' = [on EXCEPT ![i] = b]
    /\ UNCHANGED <<bridgeState, iface, lock, held>>

OperatorLeaves(i) ==
    /\ Other /\ on[i] # NoBridge
    /\ Leave({i})
    /\ UNCHANGED <<bridgeState, iface, held>>

\* A virtual machine opens its tap, and closes it.
Open(t) ==
    /\ Other /\ t \in Taps \ held /\ Exists(t)
    /\ held' = held \cup {t}
    /\ UNCHANGED <<bridgeState, ifaceState>>

Close(t) ==
    /\ t \in held
    /\ held' = held \ {t}
    /\ UNCHANGED <<want, passVars, bridgeState, ifaceState, pfState, budget>>

-----------------------------------------------------------------------------

Apply(o) ==
    \/ CreateBridge(o) \/ SetMaxaddr(o) \/ CreateIface(o) \/ AddMember(o)
    \/ RemoveMember(o) \/ ReplaceTable(o) \/ LoadAnchor(o) \/ FlushAnchor(o)
    \/ LockMemberMac(o) \/ Recheck(o) \/ DestroyIface(o) \/ DestroyBridge(o) \/ AlreadyAbsent(o)
    \/ Refuse(o) \/ OpFails(o)

Agent ==
    \/ Plan \/ PlanRaises \/ EndPass \/ KillStates
    \/ \E o \in todo \cup {cur} : Apply(o)

Others ==
    \/ \E c \in Configs : Desire(c)
    \/ \E i \in Ifaces : Attach(i) \/ Detach(i) \/ OperatorTakes(i)
                          \/ OperatorDestroys(i) \/ OperatorLeaves(i)
                          \/ \E b \in Bridges : OperatorJoins(i, b)
    \/ \E b \in Bridges : OperatorBridge(b) \/ OperatorUnbridge(b) \/ OperatorTunes(b)
    \/ \E t \in Taps : Open(t) \/ Close(t)

Next == Agent \/ Crash \/ Others

\* The agent comes back to the host again and again (see L2Agent) and a pass goes on
\* to its end.
Spec == Init /\ [][Next]_vars /\ WF_vars(Agent)

-----------------------------------------------------------------------------
(* Properties.                                                              *)

\* The kernel is what configuration c asks for; ports in stuck are left out, and taps
\* in parked may outlive their destroy.
AsDesired(c, stuck, parked) ==
    /\ \A b \in Bridges :
          IF b \in WantedBridges(c) THEN bridge[b] = "owned" /\ b \in tuned
          ELSE bridge[b] # "owned"
    /\ \A i \in Ifaces \ stuck :
          IF i \in Desired(c)
          THEN IF Exists(i) THEN on[i] = Home[i] ELSE i \in Attached
          ELSE /\ Owned(i) => i \in parked
               /\ on[i] # NoBridge => bridge[on[i]] = "foreign"
    /\ \A t \in Taps \ stuck :
          /\ anchor[t] = IF t \in Policied(c) THEN c.policy[t] ELSE NoPolicy
          /\ t \in Policied(c) => "static" \in lock[t]

Reconciled(c) == AsDesired(c, {}, {})

\* The plan is empty exactly when the kernel is what is asked for: nothing is left
\* out of the plan and nothing is planned again and again (tests/test_plan.py:66).
EmptyPlanMeansReconciled ==
    ~PlanError(want) => (Diff(want) = {} <=> Reconciled(want))

\* A pass whose receipts are all ok, undisturbed by others, leaves the kernel as its
\* configuration asks: no op undoes what another has done (plan.py:152-155).
CleanPassReconciles == AllApplied /\ ~notOk /\ ~touched => Reconciled(goal)

\* Whatever is swapped between the read of the kernel and the op, the agent destroys no
\* interface and no bridge of someone else; only what changes hands between the two
\* commands of the destroy itself is not seen (writer.py:169-185).
ForeignSurvives ==
    [][others' = others /\ ~raced =>
          /\ \A i \in Ifaces : iface[i] = "foreign" => iface'[i] = "foreign"
          /\ \A b \in Bridges : bridge[b] = "foreign" => bridge'[b] = "foreign"]_vars

\* A tap with a policy becomes a member only with its rules in place, unless their
\* load has failed in the same pass (plan.py:276-290).
RulesBeforeMember ==
    [][others' = others =>
          \A t \in Policied(goal) :
              on[t] = NoBridge /\ on'[t] # NoBridge =>
                  \/ t \in notLoaded
                  \/ anchor[t] # NoPolicy /\ anchor[t].rules = goal.policy[t].rules]_vars

\* When the others leave the host alone it becomes and stays what the last
\* configuration asks for, but for taps that are held open; an interface on which
\* every command fails keeps no other from it (writer.py:204-206).
Converges ==
    <>[]~PlanError(want) => <>[]AsDesired(want, Broken, held)

-----------------------------------------------------------------------------
(* What the repository says and the code does not do (see README.md).       *)

\* plan.py:96, "Lock a member to one MAC on the bridge": the lock of a reconciled
\* member has all its parts.
LockedInFull ==
    AllApplied /\ ~notOk /\ ~touched =>
        \A t \in Policied(goal) : lock[t] = LockParts

\* pf.py:170, "Kill every state bound to a port's interface": no state outlives the
\* rules it was made under once a pass is ok.
NoOldStates == pc = "idle" /\ ~notOk => oldStates = {}
=============================================================================
