-------------------------- MODULE L2ReconcileProofs --------------------------
(***************************************************************************)
(* Theorems of the reconcile pass, for any bridges, interfaces and         *)
(* configurations and any number of faults and changes by others.          *)
(***************************************************************************)
EXTENDS L2Reconcile, TLAPS

-----------------------------------------------------------------------------
(* What a destroy under way relies on: the object was the agent's when the  *)
(* group was read again, and is still unless somebody has intervened.       *)

Marks == iface \in [Ifaces -> Ownership] /\ bridge \in [Bridges -> Ownership]

Rechecked == Destroying(cur) /\ ~raced => StillOwned(cur)

RecheckInv == Marks /\ Rechecked /\ others \in Nat

\* What a step may not do to the interfaces and bridges of someone else.
SparesForeign ==
    others' = others /\ ~raced =>
        /\ \A i \in Ifaces : iface[i] = "foreign" => iface'[i] = "foreign"
        /\ \A b \in Bridges : bridge[b] = "foreign" => bridge'[b] = "foreign"

LEMMA InitRecheckInv == Init => RecheckInv
  BY DEF Init, RecheckInv, Marks, Rechecked, Ownership, Destroying, NoOp

\* Once an op is over nothing is relied on.
LEMMA OverRechecked == Over => Rechecked'
  BY DEF Over, Rechecked, Destroying, NoOp

\* A step that leaves the marks of everything and the op under way alone.
LEMMA NothingMarked ==
    ASSUME RecheckInv, UNCHANGED <<iface, bridge>>
    PROVE  Marks' /\ SparesForeign
  BY DEF RecheckInv, Marks, SparesForeign

LEMMA NothingRelied ==
    ASSUME RecheckInv, UNCHANGED <<iface, bridge, cur, raced>>
    PROVE  Marks' /\ Rechecked' /\ SparesForeign
  BY DEF RecheckInv, Marks, SparesForeign, Rechecked, Destroying, StillOwned, Owned

-----------------------------------------------------------------------------
LEMMA ApplyRechecks ==
    ASSUME RecheckInv, NEW o \in todo \cup {cur}, Apply(o)
    PROVE  Marks' /\ Rechecked' /\ SparesForeign
<1> USE DEF bridgeState, ifaceState, pfState, kernel
<1>1. CASE CreateBridge(o)
  <2>1. Over /\ bridge' = [bridge EXCEPT ![o.b] = "owned"] /\ iface' = iface
    BY <1>1 DEF CreateBridge
  <2>2. bridge[o.b] = "absent"
    BY <1>1 DEF CreateBridge, Possible, Present
  <2>3. Marks' /\ SparesForeign
    BY <2>1, <2>2 DEF RecheckInv, Marks, SparesForeign, Ownership
  <2>4. QED
    BY <2>1, <2>3, OverRechecked
<1>2. CASE CreateIface(o)
  <2>1. Over /\ iface' = [iface EXCEPT ![o.i] = "owned"] /\ bridge' = bridge
    BY <1>2 DEF CreateIface
  <2>2. iface[o.i] = "absent"
    BY <1>2 DEF CreateIface, Possible, Exists
  <2>3. Marks' /\ SparesForeign
    BY <2>1, <2>2 DEF RecheckInv, Marks, SparesForeign, Ownership
  <2>4. QED
    BY <2>1, <2>3, OverRechecked
<1>3. CASE SetMaxaddr(o)
  BY <1>3, OverRechecked, NothingMarked DEF SetMaxaddr
<1>4. CASE AddMember(o)
  BY <1>4, OverRechecked, NothingMarked DEF AddMember
<1>5. CASE RemoveMember(o)
  BY <1>5, OverRechecked, NothingMarked DEF RemoveMember
<1>6. CASE ReplaceTable(o)
  BY <1>6, OverRechecked, NothingMarked DEF ReplaceTable
<1>7. CASE LoadAnchor(o)
  <2>1. cur' = o /\ o.kind = "LoadAnchor" /\ UNCHANGED <<iface, bridge>>
    BY <1>7 DEF LoadAnchor
  <2>2. QED
    BY <2>1, NothingMarked DEF RecheckInv, Rechecked, Destroying
<1>8. CASE FlushAnchor(o)
  <2>1. cur' = o /\ o.kind = "FlushAnchor" /\ UNCHANGED <<iface, bridge>>
    BY <1>8 DEF FlushAnchor
  <2>2. QED
    BY <2>1, NothingMarked DEF RecheckInv, Rechecked, Destroying
<1>9. CASE LockMemberMac(o)
  <2>1. UNCHANGED <<iface, bridge>> /\ o.kind = "LockMemberMac" /\ (Over \/ cur' = o)
    BY <1>9 DEF LockMemberMac
  <2>2. CASE Over
    BY <2>1, <2>2, OverRechecked, NothingMarked DEF RecheckInv
  <2>3. CASE cur' = o
    BY <2>1, <2>3, NothingMarked DEF RecheckInv, Rechecked, Destroying
  <2>4. QED
    BY <2>1, <2>2, <2>3
<1>10. CASE Recheck(o)
  <2>1. StillOwned(o) /\ cur' = o /\ UNCHANGED <<iface, bridge>>
    BY <1>10 DEF Recheck
  <2>2. Rechecked'
    BY <2>1 DEF Rechecked, StillOwned, Owned
  <2>3. QED
    BY <2>1, <2>2, NothingMarked DEF RecheckInv
<1>11. CASE DestroyIface(o)
  <2>1. /\ Over /\ bridge' = bridge /\ cur = o /\ o.kind = "DestroyIface"
        /\ iface' = [iface EXCEPT ![o.i] = "absent"]
    BY <1>11 DEF DestroyIface
  <2>2. ~raced => iface[o.i] = "owned"
    BY <2>1 DEF RecheckInv, Rechecked, Destroying, StillOwned, Owned
  <2>3. Marks' /\ SparesForeign
    BY <2>1, <2>2 DEF RecheckInv, Marks, SparesForeign, Ownership
  <2>4. QED
    BY <2>1, <2>3, OverRechecked
<1>12. CASE DestroyBridge(o)
  <2>1. /\ Over /\ iface' = iface /\ cur = o /\ o.kind = "DestroyBridge"
        /\ bridge' = [bridge EXCEPT ![o.b] = "absent"]
    BY <1>12 DEF DestroyBridge
  <2>2. ~raced => bridge[o.b] = "owned"
    BY <2>1 DEF RecheckInv, Rechecked, Destroying, StillOwned
  <2>3. Marks' /\ SparesForeign
    BY <2>1, <2>2 DEF RecheckInv, Marks, SparesForeign, Ownership
  <2>4. QED
    BY <2>1, <2>3, OverRechecked
<1>13. CASE AlreadyAbsent(o)
  BY <1>13, OverRechecked, NothingMarked DEF AlreadyAbsent
<1>14. CASE Refuse(o)
  BY <1>14, OverRechecked, NothingMarked DEF Refuse, Failed
<1>15. CASE OpFails(o)
  BY <1>15, OverRechecked, NothingMarked DEF OpFails, Failed
<1>16. QED
  BY <1>1, <1>2, <1>3, <1>4, <1>5, <1>6, <1>7, <1>8, <1>9, <1>10, <1>11, <1>12,
     <1>13, <1>14, <1>15 DEF Apply

\* No op counts as a step of the others.
LEMMA ApplyIsNoOther ==
    ASSUME NEW o \in todo \cup {cur}, Apply(o)
    PROVE  others' = others
<1> USE DEF Ok, PassRest, Failed, budget
<1>1. CASE CreateBridge(o) \/ SetMaxaddr(o) \/ CreateIface(o) \/ AddMember(o) \/ RemoveMember(o)
  BY <1>1 DEF CreateBridge, SetMaxaddr, CreateIface, AddMember, RemoveMember
<1>2. CASE ReplaceTable(o) \/ LoadAnchor(o) \/ FlushAnchor(o) \/ LockMemberMac(o)
  BY <1>2 DEF ReplaceTable, LoadAnchor, FlushAnchor, LockMemberMac
<1>3. CASE Recheck(o) \/ DestroyIface(o) \/ DestroyBridge(o) \/ AlreadyAbsent(o)
  BY <1>3 DEF Recheck, DestroyIface, DestroyBridge, AlreadyAbsent
<1>4. CASE Refuse(o) \/ OpFails(o)
  BY <1>4 DEF Refuse, OpFails
<1>5. QED
  BY <1>1, <1>2, <1>3, <1>4 DEF Apply

LEMMA AgentRechecks ==
    ASSUME RecheckInv, Agent \/ Crash
    PROVE  RecheckInv' /\ SparesForeign
<1> USE DEF bridgeState, ifaceState, pfState, kernel, opVars, budget
<1>1. CASE Plan \/ PlanRaises \/ EndPass
  <2>1. UNCHANGED <<iface, bridge, cur, raced, others>>
    BY <1>1 DEF Plan, PlanRaises, EndPass
  <2>2. QED
    BY <2>1, NothingRelied DEF RecheckInv
<1>2. CASE KillStates \/ Crash
  <2>1. Over /\ UNCHANGED <<iface, bridge, others>>
    BY <1>2 DEF KillStates, Crash
  <2>2. QED
    BY <2>1, OverRechecked, NothingMarked DEF RecheckInv
<1>3. CASE \E o \in todo \cup {cur} : Apply(o)
  BY <1>3, ApplyRechecks, ApplyIsNoOther DEF RecheckInv
<1>4. QED
  BY <1>1, <1>2, <1>3 DEF Agent

\* Whoever else changes the kernel makes the op under way a raced one.
LEMMA OthersRecheck ==
    ASSUME RecheckInv, Others
    PROVE  RecheckInv' /\ SparesForeign
<1> USE DEF bridgeState, ifaceState, pfState, kernel, passVars, opVars, budget
<1>1. ASSUME Other PROVE Rechecked' /\ others' \in Nat /\ SparesForeign
  <2>1. others' = others + 1 /\ cur' = cur /\ raced' = (raced \/ cur # NoOp)
    BY <1>1 DEF Other
  <2>2. others' # others /\ others' \in Nat
    BY <2>1 DEF RecheckInv
  <2>3. Destroying(cur) => cur # NoOp
    BY DEF Destroying, NoOp
  <2>4. QED
    BY <2>1, <2>2, <2>3 DEF Rechecked, SparesForeign, Destroying
<1>2. CASE \E c \in Configs : Desire(c)
  BY <1>2, NothingRelied DEF Desire, RecheckInv
<1>3. ASSUME NEW i \in Ifaces,
             Attach(i) \/ Detach(i) \/ OperatorTakes(i) \/ OperatorDestroys(i)
      PROVE  Other /\ Marks'
  BY <1>3 DEF Attach, Detach, OperatorTakes, OperatorDestroys, RecheckInv, Marks, Ownership
<1>4. ASSUME NEW i \in Ifaces, OperatorLeaves(i) \/ \E b \in Bridges : OperatorJoins(i, b)
      PROVE  Other /\ Marks'
  BY <1>4 DEF OperatorLeaves, OperatorJoins, RecheckInv, Marks
<1>5. ASSUME NEW b \in Bridges, OperatorBridge(b) \/ OperatorUnbridge(b) \/ OperatorTunes(b)
      PROVE  Other /\ Marks'
  BY <1>5 DEF OperatorBridge, OperatorUnbridge, OperatorTunes, RecheckInv, Marks, Ownership
<1>6. ASSUME NEW t \in Taps, Open(t)
      PROVE  Other /\ Marks'
  BY <1>6 DEF Open, RecheckInv, Marks
<1>7. CASE \E t \in Taps : Close(t)
  BY <1>7, NothingRelied DEF Close, RecheckInv
<1>8. QED
  BY <1>1, <1>2, <1>3, <1>4, <1>5, <1>6, <1>7 DEF Others, RecheckInv

-----------------------------------------------------------------------------
LEMMA NextRechecks == RecheckInv /\ [Next]_vars => RecheckInv' /\ SparesForeign
<1> SUFFICES ASSUME RecheckInv, [Next]_vars PROVE RecheckInv' /\ SparesForeign
  OBVIOUS
<1>1. CASE Agent \/ Crash
  BY <1>1, AgentRechecks
<1>2. CASE Others
  BY <1>2, OthersRecheck
<1>3. CASE UNCHANGED vars
  BY <1>3, NothingRelied DEF vars, kernel, bridgeState, ifaceState, passVars, opVars, budget, RecheckInv
<1>4. QED
  BY <1>1, <1>2, <1>3 DEF Next

\* Whatever changes hands between the read of the kernel and the op, no command of the
\* agent destroys or takes over an interface or a bridge of someone else; excepted is
\* what changes hands between the two commands of the destroy itself
\* (writer.py:169-185).
THEOREM NothingForeignDestroyed == Spec => ForeignSurvives
<1>1. [Next]_vars /\ RecheckInv => [others' = others /\ ~raced =>
          /\ \A i \in Ifaces : iface[i] = "foreign" => iface'[i] = "foreign"
          /\ \A b \in Bridges : bridge[b] = "foreign" => bridge'[b] = "foreign"]_vars
  BY NextRechecks DEF SparesForeign
<1>2. QED
  BY InitRecheckInv, NextRechecks, <1>1, PTL DEF Spec, ForeignSurvives

-----------------------------------------------------------------------------
(* What a configuration asks for, and what a plan for it is made of.        *)

LEMMA ConfigFacts ==
    ASSUME NEW c \in Configs
    PROVE  /\ WantedBridges(c) \subseteq Bridges
           /\ Desired(c) \subseteq Ifaces
           /\ \A i \in Desired(c) : Home[i] \in WantedBridges(c)
           /\ Policied(c) \subseteq Taps \cap Desired(c)
           /\ \A t \in Taps : c.policy[t] \in Policy \cup {NoPolicy}
           /\ \A t \in Policied(c) : c.policy[t] \in Policy
<1>1. /\ c.ports \subseteq Taps \cup Attached
      /\ c.policy \in [Taps -> Policy \cup {NoPolicy}]
  BY ConfigsAssumption
<1>2. WantedBridges(c) \subseteq Bridges
  BY <1>1, HomeAssumption DEF WantedBridges, Ifaces
<1>3. \A u \in WantedUplinks(c) : u \in Vlans \cup Attached /\ Home[u] \in WantedBridges(c)
  BY <1>2, UplinkAssumption DEF WantedUplinks
<1>4. Desired(c) \subseteq Ifaces /\ \A i \in Desired(c) : Home[i] \in WantedBridges(c)
  BY <1>1, <1>3 DEF Desired, WantedBridges, Ifaces
<1>5. Policied(c) \subseteq Taps \cap Desired(c)
  BY DEF Policied, Desired
<1>6. \A t \in Taps : c.policy[t] \in Policy \cup {NoPolicy}
  BY <1>1
<1>7. \A t \in Policied(c) : c.policy[t] \in Policy
  BY <1>6 DEF Policied
<1>8. QED
  BY <1>2, <1>4, <1>5, <1>6, <1>7

\* An op serves a configuration: it makes and joins only what is desired, and takes
\* away no bridge that is wanted and no member from where it belongs.
Serves(o, c) ==
    /\ o \in Op
    /\ o.kind \in {"CreateBridge", "SetMaxaddr"} => o.b \in WantedBridges(c)
    /\ o.kind = "DestroyBridge" => o.b \in Bridges \ WantedBridges(c)
    /\ o.kind \in {"CreateTap", "CreateVlan"} => o.i \in Desired(c) \ Attached
    /\ o.kind = "AddMember" => o.i \in Desired(c) /\ o.b = Home[o.i]
    /\ o.kind \in {"LoadAnchor", "ReplaceTable", "LockMemberMac"} =>
         o.i \in Policied(c) /\ o.b = Home[o.i]
    /\ o.kind = "RemoveMember" =>
         o.i \in Ifaces /\ o.b \in Bridges /\ (o.i \in Desired(c) => o.b # Home[o.i])
    /\ o.kind = "FlushAnchor" => o.i \in Taps /\ (o.b = NoBridge => o.i \notin Policied(c))
    /\ o.kind = "DestroyIface" => o.i \in Ifaces /\ o.b = Home[o.i]

LEMMA DiffServes ==
    ASSUME TypeOK, NEW c \in Configs, NEW o \in Diff(c)
    PROVE  Serves(o, c)
<1> USE ConfigFacts, HomeAssumption DEF Serves, Op, Kinds
<1>1. \A i \in Ifaces : Home[i] \in Bridges
  OBVIOUS
<1>2. CASE o \in Creates(c)
  <2>1. CASE \E b \in WantedBridges(c) : o = BridgeOp("CreateBridge", b) \/ o = BridgeOp("SetMaxaddr", b)
    BY <2>1 DEF BridgeOp
  <2>2. CASE \E v \in WantedUplinks(c) \cap Vlans : o = IfaceOp("CreateVlan", v)
    BY <2>2, <1>1, NamesAssumption DEF IfaceOp, Desired
  <2>3. QED
    BY <1>2, <2>1, <2>2 DEF Creates, UplinkCreates
<1>3. CASE o \in Removes(c)
  <2>1. PICK i \in Strays(c) : o = [kind |-> "RemoveMember", i |-> i, b |-> on[i]]
    BY <1>3 DEF Removes
  <2>2. i \in Ifaces /\ on[i] \in Bridges /\ (i \in Desired(c) => on[i] # Home[i])
    BY <2>1 DEF Strays, TypeOK
  <2>3. QED
    BY <2>1, <2>2
<1>4. CASE o \in Adds(c)
  <2>1. CASE \E t \in c.ports \cap Taps : o = IfaceOp("CreateTap", t)
    BY <2>1, <1>1, NamesAssumption DEF IfaceOp, Desired, Ifaces
  <2>2. CASE \E t \in Taps : NeedsLoad(c, t) /\ o = IfaceOp("LoadAnchor", t)
    BY <2>2, <1>1 DEF IfaceOp, NeedsLoad, Ifaces
  <2>3. CASE \E i \in Ifaces : NeedsMember(c, i) /\ o = IfaceOp("AddMember", i)
    BY <2>3, <1>1 DEF IfaceOp, NeedsMember
  <2>4. CASE \E t \in Taps : NeedsTable(c, t) /\ o = IfaceOp("ReplaceTable", t)
    BY <2>4, <1>1 DEF IfaceOp, NeedsTable, Ifaces
  <2>5. CASE \E t \in Taps : NeedsLock(c, t) /\ o = IfaceOp("LockMemberMac", t)
    BY <2>5, <1>1 DEF IfaceOp, NeedsLock, Ifaces
  <2>6. QED
    BY <1>4, <2>1, <2>2, <2>3, <2>4, <2>5 DEF Adds
<1>5. CASE o \in Destroys(c)
  <2>1. CASE \E t \in Collected(c) : o = [kind |-> "FlushAnchor", i |-> t, b |-> NoBridge]
    BY <2>1 DEF Collected, Ifaces
  <2>2. CASE \E t \in Taps : o = IfaceOp("FlushAnchor", t)
    BY <2>2, <1>1, NamesAssumption DEF IfaceOp, Ifaces
  <2>3. CASE \E i \in Doomed(c) : o = IfaceOp("DestroyIface", i)
    BY <2>3, <1>1 DEF IfaceOp, Doomed, Evicted, Strays, Orphans
  <2>4. CASE \E b \in Bridges \ WantedBridges(c) : o = BridgeOp("DestroyBridge", b)
    BY <2>4 DEF BridgeOp
  <2>5. QED
    BY <1>5, <2>1, <2>2, <2>3, <2>4 DEF Destroys, Flushes
<1>6. QED
  BY <1>2, <1>3, <1>4, <1>5 DEF Diff

-----------------------------------------------------------------------------
(* The pass: it works off the plan made for its configuration.              *)

Left == todo \cup ({cur} \ {NoOp})

PlanInv ==
    /\ want \in Configs /\ goal \in Configs
    /\ pc \in {"idle", "apply"}
    /\ pc = "idle" => goal = want /\ todo = {} /\ cur = NoOp
    /\ \A o \in Left : Serves(o, goal)
    /\ step \in 0 .. 2
    /\ notOk \in BOOLEAN /\ touched \in BOOLEAN /\ raced \in BOOLEAN
    /\ notLoaded \subseteq Taps

\* The kernel keeps its shape.
KernelTypeOK ==
    /\ bridge \in [Bridges -> Ownership]
    /\ tuned \subseteq Bridges
    /\ iface \in [Ifaces -> Ownership]
    /\ on \in [Ifaces -> Bridges \cup {NoBridge}]
    /\ \A i \in Ifaces : on[i] # NoBridge => iface[i] # "absent" /\ bridge[on[i]] # "absent"
    /\ lock \in [Taps -> SUBSET LockParts]
    /\ \A t \in Taps : on[t] = NoBridge => lock[t] = {}
    /\ anchor \in [Taps -> Policy \cup {NoPolicy}]
    /\ oldStates \subseteq Taps /\ held \subseteq Taps

BudgetTypeOK == desires \in Nat /\ others \in Nat /\ faults \in Nat

LEMMA TypesAreTypeOK == PlanInv /\ KernelTypeOK /\ BudgetTypeOK => TypeOK
<1>1. NoOp.kind \notin Kinds
  BY DEF NoOp, Kinds
<1>2. PlanInv => todo \subseteq Op /\ cur \in Op \cup {NoOp}
  BY DEF PlanInv, Left, Serves
<1>3. QED
  BY <1>2 DEF PlanInv, KernelTypeOK, BudgetTypeOK, TypeOK

\* Applying an op ends it or has it under way, and leaves the rest of the plan and its
\* configuration alone.
LEMMA ApplyPass ==
    ASSUME PlanInv, NEW o \in todo \cup {cur}, Apply(o)
    PROVE  /\ o \in Left
           /\ pc = "apply" /\ UNCHANGED <<want, goal, pc, touched>>
           /\ Left \ {o} \subseteq Left' /\ Left' \subseteq Left
           /\ todo' \subseteq todo /\ cur' \in {o, NoOp}
<1>1. pc \in {"idle", "apply"} /\ (pc = "idle" => cur = NoOp)
  BY DEF PlanInv
<1>2. Over => cur' = NoOp
  BY DEF Over
<1>3. ASSUME Take(o), cur' \in {o, NoOp}, UNCHANGED <<want, goal, pc, touched>>
      PROVE  /\ o \in Left
             /\ pc = "apply" /\ UNCHANGED <<want, goal, pc, touched>>
             /\ Left \ {o} \subseteq Left' /\ Left' \subseteq Left
             /\ todo' \subseteq todo
  <2>1. o \in todo /\ cur = NoOp /\ pc = "apply" /\ todo' = todo \ {o}
    BY <1>3 DEF Take, Ready
  <2>2. \A q \in todo : q # NoOp
    BY DEF PlanInv, Left, Serves, NoOp, Op, Kinds
  <2>3. QED
    BY <1>3, <2>1, <2>2 DEF Left
<1>4. ASSUME cur = o, o.kind # "none", todo' = todo, cur' \in {o, NoOp},
             UNCHANGED <<want, goal, pc, touched>>
      PROVE  /\ o \in Left
             /\ pc = "apply" /\ UNCHANGED <<want, goal, pc, touched>>
             /\ Left \ {o} \subseteq Left' /\ Left' \subseteq Left
             /\ todo' \subseteq todo
  <2>1. o # NoOp
    BY <1>4 DEF NoOp
  <2>2. QED
    BY <1>1, <1>4, <2>1 DEF Left
<1>5. CASE \/ CreateBridge(o) \/ SetMaxaddr(o) \/ CreateIface(o) \/ AddMember(o)
           \/ RemoveMember(o) \/ ReplaceTable(o) \/ AlreadyAbsent(o)
  <2>1. Take(o) /\ Over /\ Ok
    BY <1>5 DEF CreateBridge, SetMaxaddr, CreateIface, AddMember, RemoveMember,
                ReplaceTable, AlreadyAbsent
  <2>2. QED
    BY <1>2, <1>3, <2>1 DEF Ok, PassRest
<1>6. CASE LoadAnchor(o) \/ Recheck(o)
  <2>1. Take(o) /\ cur' = o /\ Ok
    BY <1>6 DEF LoadAnchor, Recheck
  <2>2. QED
    BY <1>3, <2>1 DEF Ok, PassRest
<1>7. CASE FlushAnchor(o)
  <2>1. Take(o) /\ cur' = o /\ UNCHANGED <<want, goal, pc, touched>>
    BY <1>7 DEF FlushAnchor
  <2>2. QED
    BY <1>3, <2>1
<1>8. CASE LockMemberMac(o)
  <2>1. /\ o.kind = "LockMemberMac" /\ (Take(o) \/ (cur = o /\ todo' = todo)) /\ Ok
        /\ Over \/ cur' = o
    BY <1>8 DEF LockMemberMac
  <2>2. QED
    BY <1>2, <1>3, <1>4, <2>1 DEF Ok, PassRest
<1>9. CASE DestroyIface(o) \/ DestroyBridge(o)
  <2>1. o.kind # "none" /\ cur = o /\ todo' = todo /\ Over /\ Ok
    BY <1>9 DEF DestroyIface, DestroyBridge
  <2>2. QED
    BY <1>2, <1>4, <2>1 DEF Ok, PassRest
<1>10. CASE Refuse(o) \/ OpFails(o)
  <2>1. /\ Failed(o)
        /\ Take(o) \/ (cur = o /\ todo' = todo /\ o.kind # "none")
    BY <1>10 DEF Refuse, OpFails, Destroying
  <2>2. cur' = NoOp /\ UNCHANGED <<want, goal, pc, touched>>
    BY <1>2, <2>1 DEF Failed
  <2>3. QED
    BY <1>3, <1>4, <2>1, <2>2
<1>11. QED
  BY <1>5, <1>6, <1>7, <1>8, <1>9, <1>10 DEF Apply

\* What a pass remembers keeps its types, and a receipt that is not ok is not forgotten.
Remembers ==
    /\ step' \in 0 .. 2 /\ raced' \in BOOLEAN
    /\ notOk' \in BOOLEAN /\ (notOk => notOk')
    /\ notLoaded' \subseteq Taps /\ notLoaded \subseteq notLoaded'

LEMMA ApplyRemembers ==
    ASSUME PlanInv, NEW o \in todo \cup {cur}, Apply(o)
    PROVE  Remembers
<1>1. step \in 0 .. 2 /\ raced \in BOOLEAN /\ notOk \in BOOLEAN /\ notLoaded \subseteq Taps
  BY DEF PlanInv
<1>2. Over => step' \in 0 .. 2 /\ raced' \in BOOLEAN
  <2>1. Over => step' \in 0 .. 2
    BY DEF Over
  <2>2. Over => raced' \in BOOLEAN
    BY DEF Over
  <2>3. QED
    BY <2>1, <2>2
<1>3. Ok => /\ notOk' \in BOOLEAN /\ (notOk => notOk')
            /\ notLoaded' \subseteq Taps /\ notLoaded \subseteq notLoaded'
  BY <1>1 DEF Ok
<1>4. CASE \/ CreateBridge(o) \/ SetMaxaddr(o) \/ CreateIface(o) \/ AddMember(o)
           \/ RemoveMember(o) \/ ReplaceTable(o) \/ AlreadyAbsent(o)
           \/ DestroyIface(o) \/ DestroyBridge(o)
  <2>1. Over /\ Ok
    BY <1>4 DEF CreateBridge, SetMaxaddr, CreateIface, AddMember, RemoveMember,
                ReplaceTable, AlreadyAbsent, DestroyIface, DestroyBridge
  <2>2. QED
    BY <1>2, <1>3, <2>1 DEF Remembers
<1>5. CASE LoadAnchor(o) \/ Recheck(o)
  <2>1. step' = 1 /\ raced' = raced /\ Ok
    BY <1>5 DEF LoadAnchor, Recheck
  <2>2. step' \in 0 .. 2
    BY <2>1
  <2>3. QED
    BY <1>1, <1>3, <2>1, <2>2 DEF Remembers
<1>6. CASE FlushAnchor(o)
  <2>1. step' = 1 /\ UNCHANGED <<raced, notOk, notLoaded>>
    BY <1>6 DEF FlushAnchor
  <2>2. step' \in 0 .. 2
    BY <2>1
  <2>3. QED
    BY <1>1, <2>1, <2>2 DEF Remembers
<1>7. CASE LockMemberMac(o)
  <2>1. Ok /\ IF step = 2 THEN Over ELSE cur' = o /\ step' = step + 1 /\ raced' = raced
    BY <1>7 DEF LockMemberMac
  <2>2. CASE step = 2
    BY <1>2, <1>3, <2>1, <2>2 DEF Remembers
  <2>3. CASE step # 2
    <3>1. step' \in 0 .. 2
      BY <1>1, <2>1, <2>3
    <3>2. QED
      BY <1>1, <1>3, <2>1, <2>3, <3>1 DEF Remembers
  <2>4. QED
    BY <2>2, <2>3
<1>8. CASE Refuse(o) \/ OpFails(o)
  <2>1. Failed(o)
    BY <1>8 DEF Refuse, OpFails
  <2>2. o.kind = "LoadAnchor" => o.i \in Taps
    BY ApplyPass, ConfigFacts DEF PlanInv, Serves
  <2>3. notLoaded' \subseteq Taps /\ notLoaded \subseteq notLoaded'
    BY <1>1, <2>1, <2>2 DEF Failed
  <2>4. Over /\ notOk' \in BOOLEAN /\ (notOk => notOk')
    BY <2>1 DEF Failed
  <2>5. QED
    BY <1>2, <2>3, <2>4 DEF Remembers
<1>9. QED
  BY <1>4, <1>5, <1>6, <1>7, <1>8 DEF Apply

-----------------------------------------------------------------------------
(* Type correctness.                                                        *)

\* Interfaces that leave their bridges take what the bridges knew of them along.
LEMMA LeaveTypes ==
    ASSUME KernelTypeOK, NEW S, Leave(S)
    PROVE  /\ on' \in [Ifaces -> Bridges \cup {NoBridge}]
           /\ lock' \in [Taps -> SUBSET LockParts]
           /\ \A i \in Ifaces : on'[i] = IF i \in S THEN NoBridge ELSE on[i]
           /\ \A t \in Taps : on'[t] = NoBridge => lock'[t] = {}
  BY DEF KernelTypeOK, Leave, Ifaces

\* The bridge of a member stays when no other bridge goes than those its members leave.
LEMMA KernelShape ==
    ASSUME KernelTypeOK,
           bridge' \in [Bridges -> Ownership], tuned' \subseteq Bridges,
           iface' \in [Ifaces -> Ownership],
           on' \in [Ifaces -> Bridges \cup {NoBridge}],
           lock' \in [Taps -> SUBSET LockParts],
           \A t \in Taps : on'[t] = NoBridge => lock'[t] = {},
           \A i \in Ifaces : on'[i] # NoBridge =>
               on'[i] = on[i] /\ (iface'[i] = "absent" => iface[i] = "absent")
                              /\ (bridge'[on[i]] = "absent" => bridge[on[i]] = "absent"),
           UNCHANGED anchor, oldStates' \subseteq oldStates, held' \subseteq Taps
    PROVE  KernelTypeOK'
  BY DEF KernelTypeOK

LEMMA PfShape ==
    ASSUME KernelTypeOK, UNCHANGED <<bridgeState, ifaceState, held>>,
           anchor' \in [Taps -> Policy \cup {NoPolicy}], oldStates' \subseteq Taps
    PROVE  KernelTypeOK'
  BY DEF KernelTypeOK, bridgeState, ifaceState

LEMMA KernelUnchanged == KernelTypeOK /\ UNCHANGED kernel => KernelTypeOK'
  BY DEF KernelTypeOK, kernel, bridgeState, ifaceState, pfState

LEMMA OutdateTypes ==
    ASSUME KernelTypeOK, NEW t \in Taps, Outdate(t)
    PROVE  oldStates' \subseteq Taps
<1>1. oldStates' \in {oldStates, oldStates \cup {t}}
  BY DEF Outdate
<1>2. QED
  BY <1>1 DEF KernelTypeOK

LEMMA ApplyKernelTypes ==
    ASSUME PlanInv, KernelTypeOK, NEW o \in todo \cup {cur}, Apply(o)
    PROVE  KernelTypeOK'
<1>1. Serves(o, goal) /\ o.kind \in Kinds
  BY ApplyPass DEF PlanInv, Serves, Op
<1>2. goal \in Configs
  BY DEF PlanInv
<1>3. o.i \in Policied(goal) => o.i \in Taps /\ goal.policy[o.i] \in Policy
  BY <1>2, ConfigFacts
<1>4. WantedBridges(goal) \subseteq Bridges
  BY <1>2, ConfigFacts
<1> USE DEF bridgeState, ifaceState, pfState, kernel
<1>5. CASE CreateBridge(o)
  <2>1. /\ o.b \in Bridges /\ bridge[o.b] = "absent"
        /\ bridge' = [bridge EXCEPT ![o.b] = "owned"] /\ tuned' = tuned \cup {o.b}
        /\ UNCHANGED <<iface, on, lock, anchor, oldStates, held>>
    BY <1>1, <1>4, <1>5 DEF CreateBridge, Serves, Possible, Present
  <2>2. QED
    BY <2>1 DEF KernelTypeOK, Ownership
<1>6. CASE SetMaxaddr(o)
  <2>1. o.b \in Bridges /\ tuned' = tuned \cup {o.b}
        /\ UNCHANGED <<bridge, iface, on, lock, anchor, oldStates, held>>
    BY <1>1, <1>4, <1>6 DEF SetMaxaddr, Serves
  <2>2. QED
    BY <2>1 DEF KernelTypeOK
<1>7. CASE CreateIface(o)
  <2>1. /\ iface' = [iface EXCEPT ![o.i] = "owned"]
        /\ UNCHANGED <<bridge, tuned, on, lock, anchor, oldStates, held>>
    BY <1>7 DEF CreateIface
  <2>2. iface' \in [Ifaces -> Ownership] /\ \A i \in Ifaces : iface'[i] = "absent" => iface[i] = "absent"
    BY <2>1 DEF KernelTypeOK, Ownership
  <2>3. QED
    BY <2>1, <2>2 DEF KernelTypeOK
<1>8. CASE AddMember(o)
  <2>1. /\ on' = [on EXCEPT ![o.i] = o.b] /\ o.i \in Ifaces /\ o.b \in Bridges
        /\ iface[o.i] # "absent" /\ bridge[o.b] # "absent" /\ on[o.i] = NoBridge
        /\ UNCHANGED <<bridge, tuned, iface, lock, anchor, oldStates, held>>
    BY <1>1, <1>2, <1>8, ConfigFacts DEF AddMember, Possible, Present, Exists, Serves
  <2>2. QED
    BY <2>1, NamesAssumption DEF KernelTypeOK
<1>9. CASE RemoveMember(o)
  <2>1. Leave({o.i}) /\ UNCHANGED <<bridge, tuned, iface, anchor, oldStates, held>>
    BY <1>9 DEF RemoveMember
  <2>2. QED
    BY <2>1, LeaveTypes, KernelShape DEF KernelTypeOK
<1>10. CASE ReplaceTable(o)
  <2>1. /\ o.i \in Taps /\ goal.policy[o.i] \in Policy /\ anchor[o.i] # NoPolicy
        /\ anchor' = [anchor EXCEPT ![o.i].table = goal.policy[o.i].table]
        /\ UNCHANGED <<bridge, tuned, iface, on, lock, oldStates, held>>
    BY <1>1, <1>3, <1>10 DEF ReplaceTable, Possible, Serves
  <2>2. anchor[o.i] \in Policy
    BY <2>1 DEF KernelTypeOK
  <2>3. anchor' = [anchor EXCEPT ![o.i] = [anchor[o.i] EXCEPT !.table = goal.policy[o.i].table]]
    BY <2>1
  <2>4. [anchor[o.i] EXCEPT !.table = goal.policy[o.i].table] \in Policy
    BY <2>1, <2>2 DEF Policy
  <2>5. anchor' \in [Taps -> Policy \cup {NoPolicy}]
    BY <2>3, <2>4 DEF KernelTypeOK
  <2>6. QED
    BY <2>1, <2>5, PfShape DEF KernelTypeOK
<1>11. CASE LoadAnchor(o)
  <2>1. /\ o.i \in Taps /\ goal.policy[o.i] \in Policy
        /\ anchor' = [anchor EXCEPT ![o.i] = goal.policy[o.i]] /\ Outdate(o.i)
        /\ UNCHANGED <<bridge, tuned, iface, on, lock, held>>
    BY <1>1, <1>3, <1>11 DEF LoadAnchor, Serves
  <2>2. anchor' \in [Taps -> Policy \cup {NoPolicy}]
    BY <2>1 DEF KernelTypeOK
  <2>3. QED
    BY <2>1, <2>2, OutdateTypes, PfShape
<1>12. CASE FlushAnchor(o)
  <2>1. /\ o.i \in Taps
        /\ UNCHANGED <<bridge, tuned, iface, on, lock, held>>
        /\ \/ anchor' = [anchor EXCEPT ![o.i] = NoPolicy] /\ (Outdate(o.i) \/ oldStates' = oldStates)
           \/ UNCHANGED <<anchor, oldStates>>
    BY <1>1, <1>12 DEF FlushAnchor, Serves
  <2>2. anchor' \in [Taps -> Policy \cup {NoPolicy}]
    BY <2>1 DEF KernelTypeOK
  <2>3. oldStates' \subseteq Taps
    BY <2>1, OutdateTypes DEF KernelTypeOK
  <2>4. QED
    BY <2>1, <2>2, <2>3, PfShape
<1>13. CASE LockMemberMac(o)
  <2>1. /\ o.i \in Taps /\ o.b = Home[o.i] /\ on[o.i] = o.b
        /\ lock' = [lock EXCEPT ![o.i] = lock[o.i] \cup {LockPart(o, step)}]
        /\ UNCHANGED <<bridge, tuned, iface, on, anchor, oldStates, held>>
    BY <1>1, <1>3, <1>13 DEF LockMemberMac, Possible, Serves
  <2>2. on[o.i] # NoBridge
    BY <2>1, HomeAssumption, NamesAssumption DEF Ifaces
  <2>3. LockPart(o, step) \in LockParts
    <3>1. step = 0 \/ step = 1 \/ step = 2
      BY DEF PlanInv
    <3>2. QED
      BY <3>1 DEF LockPart, LockParts
  <2>4. lock' \in [Taps -> SUBSET LockParts]
    BY <2>1, <2>3 DEF KernelTypeOK
  <2>5. \A t \in Taps : on[t] = NoBridge => lock'[t] = {}
    BY <2>1, <2>2 DEF KernelTypeOK
  <2>6. QED
    BY <2>1, <2>4, <2>5 DEF KernelTypeOK
<1>14. CASE Recheck(o) \/ AlreadyAbsent(o) \/ Refuse(o) \/ OpFails(o)
  BY <1>14, KernelUnchanged DEF Recheck, AlreadyAbsent, Refuse, OpFails, Failed
<1>15. CASE DestroyIface(o)
  <2>1. /\ iface' = [iface EXCEPT ![o.i] = "absent"] /\ Leave({o.i})
        /\ oldStates' = oldStates \ {o.i}
        /\ UNCHANGED <<bridge, tuned, anchor, held>>
    BY <1>15 DEF DestroyIface
  <2>2. iface' \in [Ifaces -> Ownership] /\ \A i \in Ifaces : i # o.i => iface'[i] = iface[i]
    BY <2>1 DEF KernelTypeOK, Ownership
  <2>3. QED
    BY <2>1, <2>2, LeaveTypes, KernelShape DEF KernelTypeOK
<1>16. CASE DestroyBridge(o)
  <2>1. /\ bridge' = [bridge EXCEPT ![o.b] = "absent"] /\ tuned' = tuned \ {o.b}
        /\ Leave({i \in Ifaces : on[i] = o.b})
        /\ UNCHANGED <<iface, anchor, oldStates, held>>
    BY <1>16 DEF DestroyBridge
  <2>2. bridge' \in [Bridges -> Ownership] /\ \A b \in Bridges : b # o.b => bridge'[b] = bridge[b]
    BY <2>1 DEF KernelTypeOK, Ownership
  <2>3. \A i \in Ifaces : on'[i] # NoBridge => on'[i] = on[i] /\ on[i] # o.b /\ on[i] \in Bridges
    BY <2>1, LeaveTypes DEF KernelTypeOK
  <2>4. QED
    BY <2>1, <2>2, <2>3, LeaveTypes, KernelShape DEF KernelTypeOK
<1>17. QED
  BY <1>5, <1>6, <1>7, <1>8, <1>9, <1>10, <1>11, <1>12, <1>13, <1>14, <1>15, <1>16 DEF Apply

\* The epairs, the operator and the virtual machines.
LEMMA OthersKernelTypes ==
    ASSUME KernelTypeOK, Others
    PROVE  KernelTypeOK'
<1> USE DEF bridgeState, ifaceState, pfState, kernel
<1>1. Other => UNCHANGED <<anchor, oldStates>>
  BY DEF Other
<1>2. CASE (\E c \in Configs : Desire(c))
  BY <1>2, KernelUnchanged DEF Desire
<1>3. CASE \E i \in Ifaces : Attach(i) \/ OperatorTakes(i)
  <2>1. /\ iface' \in [Ifaces -> Ownership]
        /\ \A i \in Ifaces : iface'[i] = "absent" => iface[i] = "absent"
    BY <1>3 DEF Attach, OperatorTakes, KernelTypeOK, Ownership
  <2>2. UNCHANGED <<bridge, tuned, on, lock, anchor, oldStates, held>>
    BY <1>1, <1>3 DEF Attach, OperatorTakes
  <2>3. QED
    BY <2>1, <2>2 DEF KernelTypeOK
<1>4. CASE \E i \in Ifaces : Detach(i) \/ OperatorDestroys(i)
  <2>1. PICK i \in Ifaces : Detach(i) \/ OperatorDestroys(i)
    BY <1>4
  <2>2. /\ iface' = [iface EXCEPT ![i] = "absent"] /\ Leave({i})
        /\ UNCHANGED <<bridge, tuned, anchor, oldStates, held>>
    BY <1>1, <2>1 DEF Detach, OperatorDestroys
  <2>3. iface' \in [Ifaces -> Ownership] /\ \A j \in Ifaces : j # i => iface'[j] = iface[j]
    BY <2>2 DEF KernelTypeOK, Ownership
  <2>4. QED
    BY <2>2, <2>3, LeaveTypes, KernelShape DEF KernelTypeOK
<1>5. CASE \E i \in Ifaces : OperatorLeaves(i)
  <2>1. PICK i \in Ifaces : OperatorLeaves(i)
    BY <1>5
  <2>2. Leave({i}) /\ UNCHANGED <<bridge, tuned, iface, anchor, oldStates, held>>
    BY <1>1, <2>1 DEF OperatorLeaves
  <2>3. QED
    BY <2>2, LeaveTypes, KernelShape DEF KernelTypeOK
<1>6. CASE \E i \in Ifaces, b \in Bridges : OperatorJoins(i, b)
  <2>1. PICK i \in Ifaces, b \in Bridges : OperatorJoins(i, b)
    BY <1>6
  <2>2. /\ on' = [on EXCEPT ![i] = b] /\ iface[i] # "absent" /\ bridge[b] # "absent"
        /\ on[i] = NoBridge
        /\ UNCHANGED <<bridge, tuned, iface, lock, anchor, oldStates, held>>
    BY <1>1, <2>1 DEF OperatorJoins, Exists
  <2>3. QED
    BY <2>2, NamesAssumption DEF KernelTypeOK
<1>7. CASE \E b \in Bridges : OperatorBridge(b)
  <2>1. /\ bridge' \in [Bridges -> Ownership]
        /\ \A b \in Bridges : bridge'[b] = "absent" => bridge[b] = "absent"
    BY <1>7 DEF OperatorBridge, KernelTypeOK, Ownership
  <2>2. UNCHANGED <<tuned, iface, on, lock, anchor, oldStates, held>>
    BY <1>1, <1>7 DEF OperatorBridge
  <2>3. QED
    BY <2>1, <2>2 DEF KernelTypeOK
<1>8. CASE \E b \in Bridges : OperatorUnbridge(b)
  <2>1. PICK b \in Bridges : OperatorUnbridge(b)
    BY <1>8
  <2>2. /\ bridge' = [bridge EXCEPT ![b] = "absent"] /\ tuned' = tuned \ {b}
        /\ Leave({i \in Ifaces : on[i] = b})
        /\ UNCHANGED <<iface, anchor, oldStates, held>>
    BY <1>1, <2>1 DEF OperatorUnbridge
  <2>3. bridge' \in [Bridges -> Ownership] /\ \A d \in Bridges : d # b => bridge'[d] = bridge[d]
    BY <2>2 DEF KernelTypeOK, Ownership
  <2>4. \A i \in Ifaces : on'[i] # NoBridge => on'[i] = on[i] /\ on[i] # b /\ on[i] \in Bridges
    BY <2>2, LeaveTypes DEF KernelTypeOK
  <2>5. QED
    BY <2>2, <2>3, <2>4, LeaveTypes, KernelShape DEF KernelTypeOK
<1>9. CASE \E b \in Bridges : OperatorTunes(b)
  BY <1>1, <1>9 DEF OperatorTunes, KernelTypeOK
<1>10. CASE \E t \in Taps : Open(t) \/ Close(t)
  BY <1>1, <1>10 DEF Open, Close, KernelTypeOK
<1>11. QED
  BY <1>2, <1>3, <1>4, <1>5, <1>6, <1>7, <1>8, <1>9, <1>10 DEF Others

\* Steps of others neither begin nor end a pass, nor do they change its plan.
LEMMA OthersPass ==
    ASSUME PlanInv, Others
    PROVE  /\ UNCHANGED <<todo, cur, step, pc, notOk, notLoaded>>
           /\ pc = "apply" => goal' = goal
           /\ pc = "idle" => goal' = want'
           /\ want' \in Configs
           /\ touched' \in BOOLEAN /\ raced' \in BOOLEAN
<1>1. PlanInv => /\ want \in Configs /\ touched \in BOOLEAN /\ raced \in BOOLEAN
                 /\ pc \in {"idle", "apply"} /\ (pc = "idle" => goal = want)
  BY DEF PlanInv
<1>2. CASE \E c \in Configs : Desire(c)
  BY <1>1, <1>2 DEF Desire, opVars
<1>3. ASSUME Other
      PROVE  /\ UNCHANGED <<todo, cur, step, pc, notOk, notLoaded, goal, want>>
             /\ touched' \in BOOLEAN /\ raced' \in BOOLEAN
  <2>1. UNCHANGED <<todo, cur, step, pc, notOk, notLoaded, goal, want>>
    BY <1>3 DEF Other
  <2>2. touched' = (touched \/ pc = "apply") /\ raced' = (raced \/ cur # NoOp)
    BY <1>3 DEF Other
  <2>3. QED
    BY <2>1, <2>2
<1>4. CASE \E t \in Taps : Close(t)
  BY <1>1, <1>4 DEF Close, passVars, opVars
<1>5. CASE Other
  BY <1>1, <1>3, <1>5
<1>6. QED
  BY <1>2, <1>4, <1>5 DEF Others, Attach, Detach, OperatorTakes, OperatorDestroys,
     OperatorLeaves, OperatorJoins, OperatorBridge, OperatorUnbridge, OperatorTunes, Open

\* Nothing but the plan of a pass changes what is left of it to do.
LEMMA PlanInvInductive ==
    ASSUME TypeOK, PlanInv, [Next]_vars
    PROVE  PlanInv'
<1>1. CASE Plan
  <2>1. /\ UNCHANGED <<want, goal, cur, step, raced>> /\ goal = want /\ want \in Configs
        /\ todo' = Diff(want) /\ pc' = "apply" /\ cur = NoOp
        /\ notOk' \in BOOLEAN /\ touched' \in BOOLEAN /\ notLoaded' = {}
    BY <1>1 DEF Plan, opVars, PlanInv
  <2>2. \A o \in Left' : Serves(o, goal')
    BY <2>1, DiffServes DEF Left
  <2>3. step' \in 0 .. 2 /\ raced' \in BOOLEAN
    BY <2>1 DEF PlanInv
  <2>4. QED
    BY <2>1, <2>2, <2>3 DEF PlanInv
<1>2. CASE PlanRaises
  BY <1>2 DEF PlanRaises, opVars, PlanInv, Left
<1>3. CASE EndPass
  BY <1>3 DEF EndPass, AllApplied, opVars, PlanInv, Left
<1>4. CASE KillStates \/ Crash
  <2>1. cur' = NoOp /\ todo' \subseteq todo /\ (pc' = "idle" => goal' = want' /\ todo' = {})
    BY <1>4 DEF KillStates, Crash, Over, PlanInv, NoOp
  <2>2. goal' \in Configs /\ want' \in Configs /\ pc' \in {"idle", "apply"} /\ notLoaded' \subseteq Taps
    BY <1>4 DEF KillStates, Crash, PlanInv
  <2>3. notOk' \in BOOLEAN /\ touched' \in BOOLEAN
    BY <1>4 DEF KillStates, Crash, PlanInv
  <2>4. step' = 0 /\ raced' \in BOOLEAN
    BY <1>4 DEF KillStates, Crash, Over
  <2>5. goal' = goal \/ todo' = {}
    BY <1>4 DEF KillStates, Crash
  <2>6. \A o \in Left' : Serves(o, goal')
    BY <2>1, <2>5 DEF Left, PlanInv
  <2>7. step' \in 0 .. 2
    BY <2>4
  <2>8. QED
    BY <2>1, <2>2, <2>3, <2>4, <2>6, <2>7 DEF PlanInv
<1>5. CASE \E o \in todo \cup {cur} : Apply(o)
  <2>1. /\ UNCHANGED <<want, goal, touched>> /\ pc = "apply" /\ pc' = "apply"
        /\ Left' \subseteq Left /\ Remembers
    BY <1>5, ApplyPass, ApplyRemembers
  <2>2. QED
    BY <2>1 DEF PlanInv, Remembers
<1>6. CASE Others
  <2>1. Left' = Left
    BY <1>6, OthersPass DEF Left
  <2>2. goal' \in Configs /\ \A o \in Left' : Serves(o, goal')
    BY <1>6, <2>1, OthersPass DEF PlanInv, Left
  <2>3. QED
    BY <1>6, <2>2, OthersPass DEF PlanInv
<1>7. CASE UNCHANGED vars
  BY <1>7 DEF vars, passVars, opVars, PlanInv, Left
<1>8. QED
  BY <1>1, <1>2, <1>3, <1>4, <1>5, <1>6, <1>7 DEF Next, Agent

LEMMA KernelTypesInductive ==
    ASSUME PlanInv, KernelTypeOK, [Next]_vars
    PROVE  KernelTypeOK'
<1>1. CASE Plan \/ PlanRaises \/ EndPass \/ Crash
  BY <1>1, KernelUnchanged DEF Plan, PlanRaises, EndPass, Crash
<1>2. CASE KillStates
  BY <1>2 DEF KillStates, KernelTypeOK, bridgeState, ifaceState
<1>3. CASE \E o \in todo \cup {cur} : Apply(o)
  BY <1>3, ApplyKernelTypes
<1>4. CASE Others
  BY <1>4, OthersKernelTypes
<1>5. CASE UNCHANGED vars
  BY <1>5, KernelUnchanged DEF vars
<1>6. QED
  BY <1>1, <1>2, <1>3, <1>4, <1>5 DEF Next, Agent

LEMMA BudgetTypesInductive ==
    ASSUME BudgetTypeOK, [Next]_vars
    PROVE  BudgetTypeOK'
<1> USE DEF BudgetTypeOK, budget, Fault
<1>1. CASE Plan \/ PlanRaises \/ EndPass \/ KillStates \/ Crash
  BY <1>1 DEF Plan, PlanRaises, EndPass, KillStates, Crash
<1>2. ASSUME NEW o, Apply(o) PROVE BudgetTypeOK'
  <2> USE DEF Ok, PassRest
  <2>1. CASE \/ CreateBridge(o) \/ SetMaxaddr(o) \/ CreateIface(o) \/ AddMember(o) \/ RemoveMember(o)
             \/ ReplaceTable(o) \/ LoadAnchor(o) \/ LockMemberMac(o) \/ Recheck(o)
             \/ DestroyIface(o) \/ DestroyBridge(o) \/ AlreadyAbsent(o)
    BY <2>1 DEF CreateBridge, SetMaxaddr, CreateIface, AddMember, RemoveMember, ReplaceTable,
                LoadAnchor, LockMemberMac, Recheck, DestroyIface, DestroyBridge, AlreadyAbsent
  <2>2. CASE FlushAnchor(o) \/ Refuse(o) \/ OpFails(o)
    BY <2>2 DEF FlushAnchor, Refuse, OpFails, Failed
  <2>3. QED
    BY <1>2, <2>1, <2>2 DEF Apply
<1>3. CASE Others
  <2>1. CASE Other
    BY <2>1 DEF Other
  <2>2. CASE (\E c \in Configs : Desire(c)) \/ (\E t \in Taps : Close(t))
    BY <2>2 DEF Desire, Close
  <2>3. QED
    BY <1>3, <2>1, <2>2 DEF Others, Attach, Detach, OperatorTakes, OperatorDestroys,
       OperatorLeaves, OperatorJoins, OperatorBridge, OperatorUnbridge, OperatorTunes, Open
<1>4. CASE UNCHANGED vars
  BY <1>4 DEF vars
<1>5. QED
  BY <1>1, <1>2, <1>3, <1>4 DEF Next, Agent

\* What every later proof relies on.
ReconcileInv == PlanInv /\ KernelTypeOK /\ BudgetTypeOK

LEMMA ReconcileInvInductive == ReconcileInv /\ [Next]_vars => ReconcileInv'
  BY TypesAreTypeOK, PlanInvInductive, KernelTypesInductive, BudgetTypesInductive DEF ReconcileInv

LEMMA InitReconcileInv == Init => ReconcileInv
<1> SUFFICES ASSUME Init PROVE ReconcileInv
  OBVIOUS
<1>1. PlanInv
  <2>1. Left = {} /\ step \in 0 .. 2
    BY DEF Init, Left
  <2>2. QED
    BY <2>1 DEF Init, PlanInv
<1>2. KernelTypeOK
  BY NamesAssumption DEF Init, KernelTypeOK, Ownership
<1>3. BudgetTypeOK
  BY DEF Init, BudgetTypeOK
<1>4. QED
  BY <1>1, <1>2, <1>3 DEF ReconcileInv

LEMMA ReconcileInvAlways == Spec => []ReconcileInv
  BY InitReconcileInv, ReconcileInvInductive, PTL DEF Spec

\* Every variable keeps its type; a member's interface and bridge exist, an interface on
\* no bridge is locked on none, and nothing of a plan outlives its pass (plan.py:152-306,
\* writer.py:96-212).
THEOREM TypeCorrect == Spec => []TypeOK
<1>1. ReconcileInv => TypeOK
  BY TypesAreTypeOK DEF ReconcileInv
<1>2. QED
  BY <1>1, ReconcileInvAlways, PTL

-----------------------------------------------------------------------------
(* The plan is complete.                                                    *)

LEMMA EmptyMeansReconciled ==
    ASSUME ReconcileInv, ~PlanError(want), Diff(want) = {}
    PROVE  Reconciled(want)
<1> DEFINE c == want
<1> USE DEF ReconcileInv
<1>1. c \in Configs /\ c.ports \subseteq Taps \cup Attached
  BY ConfigsAssumption DEF PlanInv
<1>2. Creates(c) = {} /\ Removes(c) = {} /\ Adds(c) = {} /\ Destroys(c) = {}
  BY DEF Diff
<1>3. ASSUME NEW b \in Bridges
      PROVE  IF b \in WantedBridges(c) THEN bridge[b] = "owned" /\ b \in tuned
             ELSE bridge[b] # "owned"
  <2>1. CASE b \in WantedBridges(c)
    <3>1. Present(b) /\ b \in tuned
      BY <1>2, <2>1 DEF Creates
    <3>2. bridge[b] # "foreign" /\ bridge[b] \in Ownership
      BY <2>1 DEF PlanError, KernelTypeOK
    <3>3. QED
      BY <2>1, <3>1, <3>2 DEF Present, Ownership
  <2>2. CASE b \notin WantedBridges(c)
    BY <1>2, <2>2 DEF Destroys
  <2>3. QED
    BY <2>1, <2>2
<1>4. Strays(c) = {} /\ Orphans(c) = {}
  <2>1. Doomed(c) = {}
    BY <1>2 DEF Destroys
  <2>2. QED
    BY <1>2, <2>1 DEF Removes, Doomed
<1>5. ASSUME NEW i \in Ifaces
      PROVE  IF i \in Desired(c)
             THEN IF Exists(i) THEN on[i] = Home[i] ELSE i \in Attached
             ELSE /\ Owned(i) => i \in {}
                  /\ on[i] # NoBridge => bridge[on[i]] = "foreign"
  <2>1. CASE i \in Desired(c) /\ Exists(i)
    <3>1. ~NeedsMember(c, i)
      BY <1>2 DEF Adds
    <3>2. QED
      BY <2>1, <3>1 DEF NeedsMember
  <2>2. CASE i \in Desired(c) /\ ~Exists(i)
    <3>1. i \notin Taps \/ i \notin c.ports
      BY <1>2, <2>2 DEF Adds
    <3>2. i \notin WantedUplinks(c) \cap Vlans
      BY <1>2, <2>2 DEF Creates, UplinkCreates
    <3>3. i \in WantedUplinks(c) => i \in Vlans \cup Attached
      BY <1>1, ConfigFacts, UplinkAssumption DEF WantedUplinks
    <3>4. QED
      BY <1>1, <2>2, <3>1, <3>2, <3>3 DEF Desired
  <2>3. CASE i \notin Desired(c)
    <3>1. ~Owned(i)
      BY <1>4, <2>3 DEF Orphans
    <3>2. on[i] # NoBridge => bridge[on[i]] # "owned" /\ bridge[on[i]] # "absent"
                              /\ bridge[on[i]] \in Ownership
      BY <1>4, <2>3 DEF Strays, KernelTypeOK
    <3>3. QED
      BY <2>3, <3>1, <3>2 DEF Ownership
  <2>4. QED
    BY <2>1, <2>2, <2>3
<1>6. ASSUME NEW t \in Taps
      PROVE  /\ anchor[t] = IF t \in Policied(c) THEN c.policy[t] ELSE NoPolicy
             /\ t \in Policied(c) => "static" \in lock[t]
  <2>1. CASE t \in Policied(c)
    <3>1. ~NeedsLoad(c, t) /\ ~NeedsTable(c, t) /\ ~NeedsLock(c, t)
      BY <1>2 DEF Adds
    <3>2. anchor[t] # NoPolicy /\ anchor[t].rules = c.policy[t].rules /\ anchor[t].table = c.policy[t].table
      BY <2>1, <3>1 DEF NeedsLoad, NeedsTable
    <3>3. anchor[t] \in Policy /\ c.policy[t] \in Policy
      BY <1>1, <2>1, <3>2, ConfigFacts DEF KernelTypeOK
    <3>4. anchor[t] = c.policy[t]
      BY <3>2, <3>3 DEF Policy
    <3>5. QED
      BY <2>1, <3>1, <3>4 DEF NeedsLock
  <2>2. CASE t \notin Policied(c)
    <3>1. t \notin Collected(c) /\ Evicted(c) = {}
      BY <1>2, <1>4 DEF Destroys, Flushes, Evicted
    <3>2. QED
      BY <2>2, <3>1 DEF Collected
  <2>3. QED
    BY <2>1, <2>2
<1>7. QED
  BY <1>3, <1>5, <1>6 DEF Reconciled, AsDesired

LEMMA ReconciledMeansEmpty ==
    ASSUME ReconcileInv, Reconciled(want)
    PROVE  Diff(want) = {}
<1> DEFINE c == want
<1> USE DEF ReconcileInv
<1>1. c \in Configs /\ c.ports \subseteq Taps \cup Attached
  BY ConfigsAssumption DEF PlanInv
<1>2. AsDesired(c, {}, {})
  BY DEF Reconciled
<1>3. \A b \in Bridges : IF b \in WantedBridges(c) THEN bridge[b] = "owned" /\ b \in tuned
                         ELSE bridge[b] # "owned"
  BY <1>2 DEF AsDesired
<1>4. \A i \in Desired(c) : IF Exists(i) THEN on[i] = Home[i] ELSE i \in Attached
  BY <1>1, <1>2, ConfigFacts DEF AsDesired
<1>5. \A i \in Ifaces \ Desired(c) : ~Owned(i) /\ (on[i] # NoBridge => bridge[on[i]] = "foreign")
  BY <1>2 DEF AsDesired
<1>6. \A t \in Taps : /\ anchor[t] = IF t \in Policied(c) THEN c.policy[t] ELSE NoPolicy
                      /\ t \in Policied(c) => "static" \in lock[t]
  BY <1>2 DEF AsDesired
<1>7. Creates(c) = {}
  <2>1. \A b \in WantedBridges(c) : Present(b) /\ b \in tuned
    BY <1>1, <1>3, ConfigFacts DEF Present
  <2>2. \A v \in WantedUplinks(c) \cap Vlans : Exists(v)
    BY <1>4, NamesAssumption DEF Desired
  <2>3. QED
    BY <2>1, <2>2 DEF Creates, UplinkCreates
<1>8. Strays(c) = {} /\ Orphans(c) = {}
  <2>1. Orphans(c) = {}
    BY <1>5 DEF Orphans
  <2>2. ASSUME NEW i \in Ifaces, on[i] # NoBridge, bridge[on[i]] = "owned"
        PROVE  i \in Desired(c) /\ Home[i] = on[i]
    <3>1. i \in Desired(c)
      BY <1>5, <2>2
    <3>2. Exists(i)
      BY <2>2 DEF KernelTypeOK, Exists
    <3>3. QED
      BY <1>4, <3>1, <3>2
  <2>3. QED
    BY <2>1, <2>2 DEF Strays
<1>9. Adds(c) = {}
  <2>1. \A t \in c.ports \cap Taps : Exists(t)
    BY <1>4, NamesAssumption DEF Desired
  <2>2. \A i \in Ifaces : ~NeedsMember(c, i)
    BY <1>4 DEF NeedsMember
  <2>3. ASSUME NEW t \in Taps PROVE ~NeedsLoad(c, t) /\ ~NeedsTable(c, t)
    BY <1>1, <1>6, ConfigFacts, NamesAssumption DEF NeedsLoad, NeedsTable
  <2>4. ASSUME NEW t \in Policied(c) PROVE on[t] = Home[t] /\ "static" \in lock[t]
    <3>1. t \in Taps /\ t \in Desired(c) /\ "static" \in lock[t]
      BY <1>1, <1>6, ConfigFacts
    <3>2. Exists(t)
      BY <1>4, <3>1, NamesAssumption
    <3>3. QED
      BY <1>4, <3>1, <3>2
  <2>5. \A t \in Taps : ~NeedsLock(c, t)
    BY <2>4 DEF NeedsLock
  <2>6. QED
    BY <2>1, <2>2, <2>3, <2>5 DEF Adds
<1>10. Removes(c) = {} /\ Doomed(c) = {}
  BY <1>8 DEF Removes, Doomed, Evicted
<1>11. Destroys(c) = {}
  <2>1. Collected(c) = {}
    BY <1>6 DEF Collected
  <2>2. QED
    BY <1>3, <1>10, <2>1 DEF Destroys, Flushes
<1>12. QED
  BY <1>7, <1>9, <1>10, <1>11 DEF Diff

\* The plan is empty exactly when the kernel is what is asked for: nothing is left out
\* of it and nothing is planned again and again (plan.py:152-306).
THEOREM PlanComplete == Spec => []EmptyPlanMeansReconciled
<1>1. ReconcileInv => EmptyPlanMeansReconciled
  BY EmptyMeansReconciled, ReconciledMeansEmpty DEF EmptyPlanMeansReconciled
<1>2. QED
  BY <1>1, ReconcileInvAlways, PTL

-----------------------------------------------------------------------------
(* Rules before membership.                                                 *)

\* The anchors an op changes, and how.
LEMMA ApplyAnchors ==
    ASSUME PlanInv, KernelTypeOK, NEW o \in todo \cup {cur}, Apply(o), NEW t \in Taps
    PROVE  \/ anchor'[t] = anchor[t]
           \/ o.kind = "LoadAnchor" /\ o.i = t /\ anchor'[t] = goal.policy[t]
           \/ /\ o.kind = "ReplaceTable" /\ o.i = t /\ anchor[t] # NoPolicy
              /\ anchor'[t] = [anchor[t] EXCEPT !.table = goal.policy[t].table]
           \/ o.kind = "FlushAnchor" /\ o.i = t /\ o \in Ready /\ anchor'[t] = NoPolicy
<1> USE DEF bridgeState, ifaceState, pfState, kernel, KernelTypeOK
<1>1. CASE \/ CreateBridge(o) \/ SetMaxaddr(o) \/ CreateIface(o) \/ AddMember(o)
           \/ RemoveMember(o) \/ LockMemberMac(o) \/ Recheck(o) \/ DestroyIface(o)
           \/ DestroyBridge(o) \/ AlreadyAbsent(o) \/ Refuse(o) \/ OpFails(o)
  BY <1>1 DEF CreateBridge, SetMaxaddr, CreateIface, AddMember, RemoveMember, LockMemberMac,
              Recheck, DestroyIface, DestroyBridge, AlreadyAbsent, Refuse, OpFails, Failed
<1>2. CASE ReplaceTable(o)
  BY <1>2 DEF ReplaceTable, Possible
<1>3. CASE LoadAnchor(o)
  BY <1>3 DEF LoadAnchor
<1>4. CASE FlushAnchor(o)
  BY <1>4 DEF FlushAnchor, Take
<1>5. QED
  BY <1>1, <1>2, <1>3, <1>4 DEF Apply

\* A load that leaves the plan has happened, or its failure is remembered.
LEMMA LoadLeaves ==
    ASSUME PlanInv, KernelTypeOK, NEW o \in todo \cup {cur}, Apply(o), NEW t \in Policied(goal),
           IfaceOp("LoadAnchor", t) \in todo \ todo'
    PROVE  anchor'[t] = goal.policy[t] \/ t \in notLoaded'
<1>1. t \in Taps
  BY ConfigFacts DEF PlanInv
<1>2. o = IfaceOp("LoadAnchor", t) /\ o.kind = "LoadAnchor" /\ o.i = t
  <2>1. Left \ {o} \subseteq Left' /\ cur' \in {o, NoOp}
    BY ApplyPass
  <2>2. o = IfaceOp("LoadAnchor", t)
    BY <2>1 DEF Left, IfaceOp, NoOp
  <2>3. QED
    BY <2>2 DEF IfaceOp
<1>3. LoadAnchor(o) \/ OpFails(o)
  BY <1>2 DEF Apply, CreateBridge, SetMaxaddr, CreateIface, AddMember, RemoveMember,
     ReplaceTable, FlushAnchor, LockMemberMac, Recheck, StillOwned, DestroyIface, DestroyBridge,
     AlreadyAbsent, Gone, Refuse, Destroying
<1>4. QED
  BY <1>1, <1>2, <1>3 DEF LoadAnchor, OpFails, Failed, KernelTypeOK

RulesRight(t) == anchor[t] # NoPolicy /\ anchor[t].rules = goal.policy[t].rules

\* A tap that the pass has yet to make a member has its rules, or will have them loaded
\* first, or could not have them.
RulesInv ==
    \A t \in Policied(goal) :
        IfaceOp("AddMember", t) \in todo =>
            RulesRight(t) \/ IfaceOp("LoadAnchor", t) \in todo \/ t \in notLoaded

LEMMA ApplyKeepsRules ==
    ASSUME PlanInv, KernelTypeOK, RulesInv, NEW o \in todo \cup {cur}, Apply(o)
    PROVE  RulesInv'
<1> SUFFICES ASSUME NEW t \in Policied(goal), IfaceOp("AddMember", t) \in todo',
                    IfaceOp("LoadAnchor", t) \notin todo', t \notin notLoaded'
             PROVE  RulesRight(t)'
  BY ApplyPass DEF RulesInv
<1>1. t \in Taps /\ goal.policy[t] \in Policy
  BY ConfigFacts DEF PlanInv
<1>2. goal' = goal /\ todo' \subseteq todo /\ Remembers /\ goal.policy[t] # NoPolicy
  BY <1>1, ApplyPass, ApplyRemembers, NamesAssumption
<1>3. CASE IfaceOp("LoadAnchor", t) \in todo
  BY <1>1, <1>2, <1>3, LoadLeaves DEF RulesRight
<1>4. CASE RulesRight(t)
  <2>1. CASE anchor'[t] = anchor[t] \/ anchor'[t] = goal.policy[t]
    BY <1>2, <1>4, <2>1 DEF RulesRight
  <2>2. CASE /\ anchor[t] # NoPolicy
             /\ anchor'[t] = [anchor[t] EXCEPT !.table = goal.policy[t].table]
    <3>1. anchor[t] \in Policy
      BY <1>1, <2>2 DEF KernelTypeOK
    <3>2. anchor'[t] \in Policy /\ anchor'[t].rules = anchor[t].rules
      BY <1>1, <2>2, <3>1 DEF Policy
    <3>3. QED
      BY <1>2, <1>4, <3>2, NamesAssumption DEF RulesRight
  <2>3. CASE o.kind = "FlushAnchor" /\ o.i = t /\ o \in Ready
    <3>1. o.b # NoBridge
      BY <2>3, ApplyPass DEF PlanInv, Serves
    <3>2. Before(IfaceOp("AddMember", t), o)
      BY <2>3, <3>1 DEF Before, Phase, IfaceOp
    <3>3. QED
      BY <1>2, <2>3, <3>2 DEF Ready
  <2>4. QED
    BY <1>1, <2>1, <2>2, <2>3, ApplyAnchors
<1>5. QED
  BY <1>2, <1>3, <1>4 DEF RulesInv, Remembers

LEMMA RulesInvInductive == ReconcileInv /\ RulesInv /\ [Next]_vars => RulesInv'
<1> SUFFICES ASSUME ReconcileInv, RulesInv, [Next]_vars PROVE RulesInv'
  OBVIOUS
<1> USE DEF ReconcileInv
<1>1. CASE Plan
  <2> SUFFICES ASSUME NEW t \in Policied(goal'), ~RulesRight(t)'
               PROVE  IfaceOp("LoadAnchor", t) \in todo'
    BY DEF RulesInv
  <2>1. goal' = want /\ todo' = Diff(want) /\ anchor' = anchor /\ want \in Configs
    BY <1>1 DEF Plan, PlanInv, kernel, pfState
  <2>2. t \in Taps /\ NeedsLoad(want, t)
    BY <2>1, ConfigFacts DEF RulesRight, NeedsLoad
  <2>3. QED
    BY <2>1, <2>2 DEF Diff, Adds
<1>2. CASE PlanRaises \/ EndPass \/ Crash
  BY <1>2 DEF PlanRaises, EndPass, AllApplied, Crash, RulesInv, PlanInv
<1>3. CASE KillStates
  BY <1>3 DEF KillStates, RulesInv, RulesRight
<1>4. CASE \E o \in todo \cup {cur} : Apply(o)
  BY <1>4, ApplyKeepsRules
<1>5. CASE Others
  <2>1. UNCHANGED <<todo, notLoaded, anchor>>
    BY <1>5, OthersPass DEF Others, Desire, Other, Attach, Detach, OperatorTakes, OperatorDestroys,
       OperatorLeaves, OperatorJoins, OperatorBridge, OperatorUnbridge, OperatorTunes, Open, Close,
       kernel, pfState
  <2>2. goal' = goal \/ todo = {}
    BY <1>5, OthersPass DEF PlanInv
  <2>3. QED
    BY <2>1, <2>2 DEF RulesInv, RulesRight
<1>6. CASE UNCHANGED vars
  BY <1>6 DEF vars, passVars, kernel, pfState, RulesInv, RulesRight
<1>7. QED
  BY <1>1, <1>2, <1>3, <1>4, <1>5, <1>6 DEF Next, Agent

\* The only op after which an interface is a member that was none.
LEMMA JoinsByAddMember ==
    ASSUME ReconcileInv, [Next]_vars, others' = others,
           NEW i \in Ifaces, on[i] = NoBridge, on'[i] # NoBridge
    PROVE  \E o \in Ready : o = IfaceOp("AddMember", i)
<1> USE DEF bridgeState, ifaceState, pfState, kernel, ReconcileInv
<1>1. ~\E S : Leave(S)
  BY LeaveTypes
<1>2. on' # on
  OBVIOUS
<1>3. others + 1 # others
  BY DEF BudgetTypeOK
<1>4. ~Other
  BY <1>3 DEF Other
<1>5. ~Others
  BY <1>2, <1>4 DEF Others, Desire, Attach, Detach, OperatorTakes, OperatorDestroys,
     OperatorLeaves, OperatorJoins, OperatorBridge, OperatorUnbridge, OperatorTunes, Open, Close
<1>6. ~(Plan \/ PlanRaises \/ EndPass \/ KillStates \/ Crash \/ UNCHANGED vars)
  BY <1>2 DEF Plan, PlanRaises, EndPass, KillStates, Crash, vars
<1>7. PICK o \in todo \cup {cur} : Apply(o)
  BY <1>5, <1>6 DEF Next, Agent
<1>8. AddMember(o)
  <2>1. ~(\/ CreateBridge(o) \/ SetMaxaddr(o) \/ CreateIface(o) \/ ReplaceTable(o) \/ LoadAnchor(o)
          \/ FlushAnchor(o) \/ LockMemberMac(o) \/ Recheck(o) \/ AlreadyAbsent(o)
          \/ Refuse(o) \/ OpFails(o))
    BY <1>2 DEF CreateBridge, SetMaxaddr, CreateIface, ReplaceTable, LoadAnchor, FlushAnchor,
                LockMemberMac, Recheck, AlreadyAbsent, Refuse, OpFails, Failed
  <2>2. ~(RemoveMember(o) \/ DestroyIface(o) \/ DestroyBridge(o))
    BY <1>1 DEF RemoveMember, DestroyIface, DestroyBridge
  <2>3. QED
    BY <1>7, <2>1, <2>2 DEF Apply
<1>9. o \in Ready /\ o.kind = "AddMember" /\ on' = [on EXCEPT ![o.i] = o.b]
  BY <1>8 DEF AddMember, Take
<1>10. o.i = i
  BY <1>9 DEF KernelTypeOK
<1>11. o.b = Home[o.i] /\ o \in Op
  BY <1>7, <1>9, ApplyPass DEF PlanInv, Serves
<1>12. o = IfaceOp("AddMember", i)
  BY <1>9, <1>10, <1>11 DEF IfaceOp, Op
<1>13. QED
  BY <1>9, <1>12

\* A tap with a policy becomes a member only with its rules in place, unless their load
\* has failed in the same pass; taps are destroyed, rules flushed and loaded again around
\* it in every order the plan leaves open (plan.py:276-290).
THEOREM RulesComeFirst == Spec => RulesBeforeMember
<1>1. Init => RulesInv
  BY DEF Init, RulesInv
<1>2. ReconcileInv /\ RulesInv /\ [Next]_vars =>
        [others' = others =>
          \A t \in Policied(goal) :
              on[t] = NoBridge /\ on'[t] # NoBridge =>
                  \/ t \in notLoaded
                  \/ anchor[t] # NoPolicy /\ anchor[t].rules = goal.policy[t].rules]_vars
  <2> SUFFICES ASSUME ReconcileInv, RulesInv, [Next]_vars, others' = others,
                      NEW t \in Policied(goal), on[t] = NoBridge, on'[t] # NoBridge
               PROVE  t \in notLoaded \/ RulesRight(t)
    BY DEF RulesRight
  <2>1. t \in Taps /\ t \in Ifaces
    BY ConfigFacts DEF ReconcileInv, PlanInv, Ifaces
  <2>2. IfaceOp("AddMember", t) \in Ready
    BY <2>1, JoinsByAddMember
  <2>3. Before(IfaceOp("LoadAnchor", t), IfaceOp("AddMember", t))
    BY <2>1, NamesAssumption DEF Before, Phase, Rank, IfaceOp
  <2>4. IfaceOp("LoadAnchor", t) \notin todo /\ IfaceOp("AddMember", t) \in todo
    BY <2>2, <2>3 DEF Ready
  <2>5. QED
    BY <2>4 DEF RulesInv
<1>3. QED
  BY <1>1, <1>2, ReconcileInvAlways, RulesInvInductive, PTL DEF Spec, RulesBeforeMember

-----------------------------------------------------------------------------
(* A clean pass.  The operator does not move the agent's own members between *)
(* its bridges (MovesMembers): a pass then destroys what it has just moved  *)
(* back, see README.md.                                                     *)

\* What belongs to the agent is on no bridge but its own.
MemberInv == \A i \in Ifaces : Owned(i) /\ on[i] # NoBridge => on[i] = Home[i]

\* Nothing the pass is for is on the plan to be destroyed or flushed.
SparesInv ==
    \A o \in Left :
        /\ o.kind = "DestroyIface" => o.i \notin Desired(goal)
        /\ o.kind = "FlushAnchor" => o.i \notin Policied(goal)

StepInv == cur = NoOp => step = 0

\* What an op does to the bridges.
LEMMA ApplyBridges ==
    ASSUME PlanInv, KernelTypeOK, NEW o \in todo \cup {cur}, Apply(o), NEW b \in Bridges
    PROVE  \/ bridge'[b] = bridge[b] /\ (b \in tuned => b \in tuned')
           \/ /\ o.kind = "CreateBridge" /\ o.b = b
              /\ bridge[b] = "absent" /\ bridge'[b] = "owned" /\ b \in tuned'
           \/ o.kind = "DestroyBridge" /\ o.b = b /\ bridge'[b] = "absent"
<1> USE DEF bridgeState, ifaceState, pfState, kernel, KernelTypeOK
<1>1. CASE \/ SetMaxaddr(o) \/ CreateIface(o) \/ AddMember(o) \/ ReplaceTable(o) \/ LoadAnchor(o)
           \/ FlushAnchor(o) \/ RemoveMember(o) \/ LockMemberMac(o) \/ Recheck(o) \/ DestroyIface(o)
           \/ AlreadyAbsent(o) \/ Refuse(o) \/ OpFails(o)
  BY <1>1 DEF SetMaxaddr, CreateIface, AddMember, RemoveMember, LockMemberMac, ReplaceTable,
              LoadAnchor, FlushAnchor, Recheck, DestroyIface, AlreadyAbsent, Refuse, OpFails, Failed
<1>2. CASE CreateBridge(o)
  BY <1>2 DEF CreateBridge, Possible, Present
<1>3. CASE DestroyBridge(o)
  BY <1>3 DEF DestroyBridge
<1>4. QED
  BY <1>1, <1>2, <1>3 DEF Apply

\* What an op does to the interfaces.
LEMMA ApplyIfaces ==
    ASSUME PlanInv, KernelTypeOK, NEW o \in todo \cup {cur}, Apply(o), NEW i \in Ifaces
    PROVE  \/ iface'[i] = iface[i]
           \/ o.kind \in {"CreateTap", "CreateVlan"} /\ o.i = i
              /\ iface[i] = "absent" /\ iface'[i] = "owned"
           \/ o.kind = "DestroyIface" /\ o.i = i /\ iface'[i] = "absent"
<1> USE DEF bridgeState, ifaceState, pfState, kernel, KernelTypeOK
<1>1. CASE \/ CreateBridge(o) \/ SetMaxaddr(o) \/ AddMember(o) \/ ReplaceTable(o) \/ LoadAnchor(o)
           \/ FlushAnchor(o) \/ RemoveMember(o) \/ LockMemberMac(o) \/ Recheck(o) \/ DestroyBridge(o)
           \/ AlreadyAbsent(o) \/ Refuse(o) \/ OpFails(o)
  BY <1>1 DEF CreateBridge, SetMaxaddr, AddMember, RemoveMember, LockMemberMac, ReplaceTable,
              LoadAnchor, FlushAnchor, Recheck, DestroyBridge, AlreadyAbsent, Refuse, OpFails, Failed
<1>2. CASE CreateIface(o)
  BY <1>2 DEF CreateIface, Possible, Exists
<1>3. CASE DestroyIface(o)
  BY <1>3 DEF DestroyIface
<1>4. QED
  BY <1>1, <1>2, <1>3 DEF Apply

\* What an op does to the members of the bridges and to their locks.
LEMMA ApplyMembers ==
    ASSUME PlanInv, KernelTypeOK, NEW o \in todo \cup {cur}, Apply(o), NEW i \in Ifaces
    PROVE  \/ on'[i] = on[i] /\ (i \in Taps => lock[i] \subseteq lock'[i])
           \/ o.kind = "AddMember" /\ o.i = i /\ on[i] = NoBridge /\ on'[i] = o.b
           \/ o.kind = "RemoveMember" /\ o.i = i /\ on[i] = o.b /\ on'[i] = NoBridge
           \/ o.kind = "DestroyIface" /\ o.i = i /\ on'[i] = NoBridge
           \/ o.kind = "DestroyBridge" /\ o.b = on[i] /\ on'[i] = NoBridge
<1> USE DEF bridgeState, ifaceState, pfState, kernel, KernelTypeOK
<1>1. CASE \/ CreateBridge(o) \/ SetMaxaddr(o) \/ CreateIface(o) \/ ReplaceTable(o) \/ LoadAnchor(o)
           \/ FlushAnchor(o) \/ LockMemberMac(o) \/ Recheck(o)
           \/ AlreadyAbsent(o) \/ Refuse(o) \/ OpFails(o)
  BY <1>1 DEF CreateBridge, SetMaxaddr, CreateIface, LockMemberMac, ReplaceTable,
              LoadAnchor, FlushAnchor, Recheck, AlreadyAbsent, Refuse, OpFails, Failed
<1>2. CASE AddMember(o)
  BY <1>2 DEF AddMember, Possible
<1>3. CASE RemoveMember(o)
  BY <1>3 DEF RemoveMember, Possible, Leave
<1>4. CASE DestroyIface(o)
  BY <1>4 DEF DestroyIface, Leave
<1>5. CASE DestroyBridge(o)
  BY <1>5 DEF DestroyBridge, Leave
<1>6. QED
  BY <1>1, <1>2, <1>3, <1>4, <1>5 DEF Apply

\* An op that is over and ok has had its effect.
HasEffect(o) ==
    /\ o.kind = "CreateBridge" => bridge'[o.b] = "owned" /\ o.b \in tuned'
    /\ o.kind = "SetMaxaddr" => o.b \in tuned'
    /\ o.kind = "DestroyBridge" => bridge'[o.b] # "owned"
    /\ o.kind \in {"CreateTap", "CreateVlan"} => iface'[o.i] = "owned"
    /\ o.kind = "AddMember" => on'[o.i] = o.b
    /\ o.kind = "RemoveMember" => on'[o.i] = NoBridge
    /\ o.kind = "DestroyIface" => iface'[o.i] # "owned"
    /\ o.kind # "FlushAnchor"

LEMMA OverHasEffect ==
    ASSUME PlanInv, KernelTypeOK, NEW o \in todo \cup {cur}, Apply(o), ~notOk', o \notin Left'
    PROVE  HasEffect(o)
<1>1. Serves(o, goal) /\ goal \in Configs /\ cur' # o
  <2>1. Serves(o, goal) /\ goal \in Configs
    BY ApplyPass DEF PlanInv
  <2>2. o # NoOp
    BY <2>1 DEF Serves, Op, Kinds, NoOp
  <2>3. QED
    BY <2>1, <2>2 DEF Left
<1> USE DEF bridgeState, ifaceState, pfState, kernel, KernelTypeOK, HasEffect
<1>2. /\ o.kind \in {"CreateBridge", "SetMaxaddr", "DestroyBridge"} => o.b \in Bridges
      /\ o.kind \in {"CreateTap", "CreateVlan", "AddMember", "RemoveMember", "DestroyIface"} =>
           o.i \in Ifaces
  BY <1>1, ConfigFacts DEF Serves
<1>3. CASE CreateBridge(o) \/ SetMaxaddr(o) \/ DestroyBridge(o)
  BY <1>2, <1>3 DEF CreateBridge, SetMaxaddr, DestroyBridge
<1>4. CASE CreateIface(o) \/ AddMember(o) \/ RemoveMember(o) \/ DestroyIface(o)
  BY <1>2, <1>4 DEF CreateIface, AddMember, RemoveMember, DestroyIface, Leave
<1>5. CASE ReplaceTable(o) \/ LockMemberMac(o)
  BY <1>5 DEF ReplaceTable, LockMemberMac
<1>6. CASE LoadAnchor(o) \/ FlushAnchor(o) \/ Recheck(o)
  BY <1>1, <1>6 DEF LoadAnchor, FlushAnchor, Recheck
<1>7. CASE AlreadyAbsent(o)
  BY <1>7 DEF AlreadyAbsent, Gone, Exists, Present
<1>8. CASE Refuse(o) \/ OpFails(o)
  BY <1>8 DEF Refuse, OpFails, Failed
<1>9. QED
  BY <1>3, <1>4, <1>5, <1>6, <1>7, <1>8 DEF Apply

\* So for an op about a bridge or an interface: it stays on the plan until it has.
LEMMA LeftOrDone ==
    ASSUME PlanInv, KernelTypeOK, NEW o \in todo \cup {cur}, Apply(o), ~notOk', NEW q \in Left
    PROVE  q \in Left' \/ (q = o /\ HasEffect(q))
  BY ApplyPass, OverHasEffect

-----------------------------------------------------------------------------
(* What is not yet as the running pass wants it, the pass has yet to do.    *)

BridgesAhead ==
    \A b \in Bridges :
        IF b \in WantedBridges(goal)
        THEN /\ bridge[b] # "foreign"
             /\ bridge[b] = "absent" => BridgeOp("CreateBridge", b) \in Left
             /\ bridge[b] = "owned" /\ b \notin tuned => BridgeOp("SetMaxaddr", b) \in Left
        ELSE bridge[b] = "owned" => BridgeOp("DestroyBridge", b) \in Left

IfacesAhead ==
    \A i \in Ifaces :
        IF i \in Desired(goal)
        THEN ~Exists(i) /\ i \notin Attached =>
               IfaceOp("CreateTap", i) \in Left \/ IfaceOp("CreateVlan", i) \in Left
        ELSE Owned(i) => IfaceOp("DestroyIface", i) \in Left

MembersAhead ==
    \A i \in Ifaces :
        IF i \in Desired(goal)
        THEN \/ on[i] = Home[i]
             \/ IfaceOp("AddMember", i) \in Left
             \/ i \in Attached /\ ~Exists(i)
        ELSE \/ on[i] = NoBridge
             \/ bridge[on[i]] = "foreign"
             \/ [kind |-> "RemoveMember", i |-> i, b |-> on[i]] \in Left

AnchorsAhead ==
    \A t \in Taps :
        IF t \in Policied(goal)
        THEN \/ anchor[t] = goal.policy[t]
             \/ IfaceOp("LoadAnchor", t) \in todo
             \/ RulesRight(t) /\ IfaceOp("ReplaceTable", t) \in todo
        ELSE \/ anchor[t] = NoPolicy
             \/ \E o \in Left : o.kind = "FlushAnchor" /\ o.i = t

LocksAhead ==
    \A t \in Policied(goal) :
        \/ on[t] = Home[t] /\ "static" \in lock[t]
        \/ IfaceOp("LockMemberMac", t) \in todo

Undisturbed == pc = "apply" /\ ~notOk /\ ~touched

CleanInv ==
    Undisturbed => /\ BridgesAhead /\ IfacesAhead /\ MembersAhead
                   /\ AnchorsAhead /\ LocksAhead

LEMMA ApplyKeepsBridges ==
    ASSUME PlanInv, KernelTypeOK, BridgesAhead, NEW o \in todo \cup {cur}, Apply(o), ~notOk'
    PROVE  BridgesAhead'
<1> SUFFICES ASSUME NEW b \in Bridges
             PROVE  IF b \in WantedBridges(goal)
                    THEN /\ bridge'[b] # "foreign"
                         /\ bridge'[b] = "absent" => BridgeOp("CreateBridge", b) \in Left'
                         /\ bridge'[b] = "owned" /\ b \notin tuned' =>
                              BridgeOp("SetMaxaddr", b) \in Left'
                    ELSE bridge'[b] = "owned" => BridgeOp("DestroyBridge", b) \in Left'
  BY ApplyPass DEF BridgesAhead
<1>1. Serves(o, goal)
  BY ApplyPass DEF PlanInv
<1>2. /\ bridge[b] \in Ownership
      /\ \/ bridge'[b] = bridge[b] /\ (b \in tuned => b \in tuned')
         \/ /\ o.kind = "CreateBridge" /\ o.b = b /\ bridge[b] = "absent"
            /\ bridge'[b] = "owned" /\ b \in tuned'
         \/ o.kind = "DestroyBridge" /\ o.b = b /\ bridge'[b] = "absent"
  BY ApplyBridges DEF KernelTypeOK
<1>3. CASE b \in WantedBridges(goal)
  <2>1. /\ bridge[b] # "foreign"
        /\ bridge[b] = "absent" => BridgeOp("CreateBridge", b) \in Left
        /\ bridge[b] = "owned" /\ b \notin tuned => BridgeOp("SetMaxaddr", b) \in Left
    BY <1>3 DEF BridgesAhead
  <2>2. \/ bridge'[b] = bridge[b] /\ (b \in tuned => b \in tuned')
        \/ bridge'[b] = "owned" /\ b \in tuned'
    BY <1>1, <1>2, <1>3 DEF Serves
  <2>3. ASSUME bridge'[b] = "absent" PROVE BridgeOp("CreateBridge", b) \in Left'
    BY <2>1, <2>2, <2>3, LeftOrDone DEF HasEffect, BridgeOp
  <2>4. ASSUME bridge'[b] = "owned", b \notin tuned' PROVE BridgeOp("SetMaxaddr", b) \in Left'
    BY <2>1, <2>2, <2>4, LeftOrDone DEF HasEffect, BridgeOp
  <2>5. QED
    BY <1>3, <2>1, <2>2, <2>3, <2>4
<1>4. CASE b \notin WantedBridges(goal)
  <2>1. ASSUME bridge'[b] = "owned" PROVE BridgeOp("DestroyBridge", b) \in Left'
    <3>1. bridge[b] = "owned"
      BY <1>1, <1>2, <1>4, <2>1 DEF Serves
    <3>2. BridgeOp("DestroyBridge", b) \in Left
      BY <1>4, <3>1 DEF BridgesAhead
    <3>3. QED
      BY <2>1, <3>2, LeftOrDone DEF HasEffect, BridgeOp
  <2>2. QED
    BY <1>4, <2>1
<1>5. QED
  BY <1>3, <1>4

LEMMA ApplyKeepsIfaces ==
    ASSUME PlanInv, KernelTypeOK, SparesInv, IfacesAhead,
           NEW o \in todo \cup {cur}, Apply(o), ~notOk'
    PROVE  IfacesAhead'
<1> SUFFICES ASSUME NEW i \in Ifaces
             PROVE  IF i \in Desired(goal)
                    THEN iface'[i] = "absent" /\ i \notin Attached =>
                           IfaceOp("CreateTap", i) \in Left' \/ IfaceOp("CreateVlan", i) \in Left'
                    ELSE iface'[i] = "owned" => IfaceOp("DestroyIface", i) \in Left'
  BY ApplyPass DEF IfacesAhead, Exists, Owned
<1>1. Serves(o, goal) /\ (o.kind = "DestroyIface" => o.i \notin Desired(goal))
  BY ApplyPass DEF PlanInv, SparesInv
<1>2. \/ iface'[i] = iface[i]
      \/ /\ o.kind \in {"CreateTap", "CreateVlan"} /\ o.i = i
         /\ iface[i] = "absent" /\ iface'[i] = "owned"
      \/ o.kind = "DestroyIface" /\ o.i = i /\ iface'[i] = "absent"
  BY ApplyIfaces
<1>3. ASSUME i \in Desired(goal), iface'[i] = "absent", i \notin Attached
      PROVE  IfaceOp("CreateTap", i) \in Left' \/ IfaceOp("CreateVlan", i) \in Left'
  <2>1. iface[i] = "absent"
    BY <1>1, <1>2, <1>3
  <2>2. IfaceOp("CreateTap", i) \in Left \/ IfaceOp("CreateVlan", i) \in Left
    BY <1>3, <2>1 DEF IfacesAhead, Exists
  <2>3. QED
    BY <1>3, <2>2, LeftOrDone DEF HasEffect, IfaceOp
<1>4. ASSUME i \notin Desired(goal), iface'[i] = "owned"
      PROVE  IfaceOp("DestroyIface", i) \in Left'
  <2>1. iface[i] = "owned"
    BY <1>1, <1>2, <1>4 DEF Serves
  <2>2. IfaceOp("DestroyIface", i) \in Left
    BY <1>4, <2>1 DEF IfacesAhead, Owned
  <2>3. QED
    BY <1>4, <2>2, LeftOrDone DEF HasEffect, IfaceOp
<1>5. QED
  BY <1>3, <1>4

\* A desired member stays where it belongs.
LEMMA HomeIsKept ==
    ASSUME PlanInv, KernelTypeOK, SparesInv, NEW o \in todo \cup {cur}, Apply(o),
           NEW i \in Desired(goal), on[i] = Home[i]
    PROVE  on'[i] = on[i] /\ (i \in Taps => lock[i] \subseteq lock'[i])
<1>1. /\ Serves(o, goal) /\ (o.kind = "DestroyIface" => o.i \notin Desired(goal))
      /\ goal \in Configs
  BY ApplyPass DEF PlanInv, SparesInv
<1>2. i \in Ifaces /\ Home[i] \in WantedBridges(goal) /\ Home[i] \in Bridges
  BY <1>1, ConfigFacts
<1>3. on[i] # NoBridge
  BY <1>2, NamesAssumption
<1>4. QED
  BY <1>1, <1>2, <1>3, ApplyMembers DEF Serves

LEMMA ApplyKeepsMembers ==
    ASSUME PlanInv, KernelTypeOK, KernelTypeOK', SparesInv, MembersAhead,
           NEW o \in todo \cup {cur}, Apply(o), ~notOk'
    PROVE  MembersAhead'
<1> SUFFICES ASSUME NEW i \in Ifaces
             PROVE  IF i \in Desired(goal)
                    THEN \/ on'[i] = Home[i]
                         \/ IfaceOp("AddMember", i) \in Left'
                         \/ i \in Attached /\ iface'[i] = "absent"
                    ELSE \/ on'[i] = NoBridge
                         \/ bridge'[on'[i]] = "foreign"
                         \/ [kind |-> "RemoveMember", i |-> i, b |-> on'[i]] \in Left'
  BY ApplyPass DEF MembersAhead, Exists
<1>1. Serves(o, goal) /\ (o.kind = "DestroyIface" => o.i \notin Desired(goal))
  BY ApplyPass DEF PlanInv, SparesInv
<1>2. CASE i \in Desired(goal)
  <2>1. CASE on[i] = Home[i]
    BY <1>2, <2>1, HomeIsKept
  <2>2. CASE IfaceOp("AddMember", i) \in Left
    BY <1>2, <2>2, LeftOrDone DEF HasEffect, IfaceOp
  <2>3. CASE i \in Attached /\ ~Exists(i)
    <3>1. iface'[i] = "absent"
      BY <1>1, <1>2, <2>3, ApplyIfaces DEF Serves, Exists
    <3>2. QED
      BY <1>2, <2>3, <3>1
  <2>4. QED
    BY <1>2, <2>1, <2>2, <2>3 DEF MembersAhead
<1>3. CASE i \notin Desired(goal) /\ on'[i] # NoBridge
  <2>1. on'[i] = on[i] /\ on[i] \in Bridges
    BY <1>1, <1>3, ApplyMembers DEF Serves, KernelTypeOK
  <2>2. CASE bridge[on[i]] = "foreign"
    <3>1. bridge'[on[i]] # "absent"
      BY <1>3, <2>1 DEF KernelTypeOK
    <3>2. bridge'[on[i]] = "foreign"
      BY <2>1, <2>2, <3>1, ApplyBridges
    <3>3. QED
      BY <1>3, <2>1, <3>2
  <2>3. CASE [kind |-> "RemoveMember", i |-> i, b |-> on[i]] \in Left
    BY <1>3, <2>1, <2>3, LeftOrDone DEF HasEffect
  <2>4. QED
    BY <1>3, <2>1, <2>2, <2>3 DEF MembersAhead
<1>4. CASE i \notin Desired(goal) /\ on'[i] = NoBridge
  BY <1>4
<1>5. QED
  BY <1>2, <1>3, <1>4

\* A load, a table or a lock that leaves the plan and is ok has had its first effect.
LEMMA TakenOrAhead ==
    ASSUME PlanInv, KernelTypeOK, StepInv, NEW o \in todo \cup {cur}, Apply(o), ~notOk',
           NEW q \in todo, q \notin todo',
           q.kind \in {"LoadAnchor", "ReplaceTable", "LockMemberMac"}
    PROVE  /\ q = o /\ q.i \in Taps
           /\ q.kind = "LoadAnchor" => anchor'[q.i] = goal.policy[q.i]
           /\ q.kind = "ReplaceTable" =>
                /\ anchor[q.i] # NoPolicy
                /\ anchor'[q.i] = [anchor[q.i] EXCEPT !.table = goal.policy[q.i].table]
           /\ q.kind = "LockMemberMac" => on'[q.i] = q.b /\ "static" \in lock'[q.i]
<1>1. q = o
  <2>1. Left \ {o} \subseteq Left' /\ cur' \in {o, NoOp} /\ q \in Left
    BY ApplyPass DEF Left
  <2>2. q # NoOp
    BY DEF NoOp
  <2>3. QED
    BY <2>1, <2>2 DEF Left
<1>2. q.i \in Taps
  <2>1. Serves(q, goal) /\ goal \in Configs
    BY DEF PlanInv, Left
  <2>2. QED
    BY <2>1, ConfigFacts DEF Serves
<1>3. \/ q.kind = "LoadAnchor" /\ LoadAnchor(q)
      \/ q.kind = "ReplaceTable" /\ ReplaceTable(q)
      \/ q.kind = "LockMemberMac" /\ LockMemberMac(q)
  <2>1. ~(Refuse(q) \/ OpFails(q))
    BY DEF Refuse, OpFails, Failed
  <2>2. ~(Recheck(q) \/ AlreadyAbsent(q))
    BY DEF Recheck, StillOwned, AlreadyAbsent, Gone
  <2>3. QED
    BY <1>1, <2>1, <2>2 DEF Apply, CreateBridge, SetMaxaddr, CreateIface, AddMember, RemoveMember,
       ReplaceTable, LoadAnchor, FlushAnchor, LockMemberMac, DestroyIface, DestroyBridge
<1>4. CASE q.kind = "LoadAnchor" /\ LoadAnchor(q)
  BY <1>1, <1>2, <1>4 DEF LoadAnchor, KernelTypeOK
<1>5. CASE q.kind = "ReplaceTable" /\ ReplaceTable(q)
  BY <1>1, <1>2, <1>5 DEF ReplaceTable, Possible, KernelTypeOK
<1>6. CASE q.kind = "LockMemberMac" /\ LockMemberMac(q)
  <2>1. Take(q)
    <3>1. todo' # todo
      OBVIOUS
    <3>2. QED
      BY <1>6, <3>1 DEF LockMemberMac
  <2>2. step = 0
    BY <2>1 DEF Take, StepInv
  <2>3. lock' = [lock EXCEPT ![q.i] = lock[q.i] \cup {"static"}] /\ on' = on /\ on[q.i] = q.b
    BY <1>6, <2>2 DEF LockMemberMac, LockPart, Possible
  <2>4. QED
    BY <1>1, <1>2, <1>6, <2>3 DEF KernelTypeOK
<1>7. QED
  BY <1>3, <1>4, <1>5, <1>6

\* The policy of a tap is its rules and its table.
LEMMA PolicyParts ==
    ASSUME NEW x \in Policy, NEW y \in Policy
    PROVE  /\ [x EXCEPT !.table = y.table].rules = x.rules
           /\ x.rules = y.rules => [x EXCEPT !.table = y.table] = y
  BY DEF Policy

LEMMA ApplyKeepsAnchors ==
    ASSUME PlanInv, KernelTypeOK, SparesInv, StepInv, AnchorsAhead,
           NEW o \in todo \cup {cur}, Apply(o), ~notOk'
    PROVE  AnchorsAhead'
<1> SUFFICES ASSUME NEW t \in Taps
             PROVE  IF t \in Policied(goal)
                    THEN \/ anchor'[t] = goal.policy[t]
                         \/ IfaceOp("LoadAnchor", t) \in todo'
                         \/ RulesRight(t)' /\ IfaceOp("ReplaceTable", t) \in todo'
                    ELSE \/ anchor'[t] = NoPolicy
                         \/ \E q \in Left' : q.kind = "FlushAnchor" /\ q.i = t
  BY ApplyPass DEF AnchorsAhead
<1>1. /\ Serves(o, goal) /\ (o.kind = "FlushAnchor" => o.i \notin Policied(goal))
      /\ goal \in Configs /\ goal' = goal
  BY ApplyPass DEF PlanInv, SparesInv
<1>2. CASE t \in Policied(goal)
  <2>1. goal.policy[t] \in Policy /\ goal.policy[t] # NoPolicy
    BY <1>1, <1>2, ConfigFacts, NamesAssumption
  <2>2. \/ anchor'[t] = anchor[t]
        \/ anchor'[t] = goal.policy[t]
        \/ /\ anchor[t] # NoPolicy
           /\ anchor'[t] = [anchor[t] EXCEPT !.table = goal.policy[t].table]
    BY <1>1, <1>2, ApplyAnchors
  <2>3. CASE anchor[t] = goal.policy[t]
    BY <1>2, <2>1, <2>2, <2>3, PolicyParts
  <2>4. CASE IfaceOp("LoadAnchor", t) \in todo
    BY <1>2, <2>4, TakenOrAhead DEF IfaceOp
  <2>5. CASE RulesRight(t) /\ IfaceOp("ReplaceTable", t) \in todo
    <3>1. anchor[t] \in Policy /\ anchor[t].rules = goal.policy[t].rules
      BY <2>5 DEF RulesRight, KernelTypeOK
    <3>2. CASE IfaceOp("ReplaceTable", t) \notin todo'
      <4>1. anchor'[t] = [anchor[t] EXCEPT !.table = goal.policy[t].table]
        BY <2>5, <3>2, TakenOrAhead DEF IfaceOp
      <4>2. QED
        BY <1>2, <2>1, <3>1, <4>1, PolicyParts
    <3>3. CASE IfaceOp("ReplaceTable", t) \in todo'
      <4>1. anchor'[t] = anchor[t] \/ anchor'[t] = goal.policy[t]
        BY <2>1, <2>2, <3>1, PolicyParts
      <4>2. QED
        BY <1>1, <1>2, <2>1, <2>5, <3>3, <4>1 DEF RulesRight
    <3>4. QED
      BY <3>2, <3>3
  <2>6. QED
    BY <1>2, <2>3, <2>4, <2>5 DEF AnchorsAhead
<1>3. CASE t \notin Policied(goal)
  <2>1. anchor'[t] = anchor[t] \/ anchor'[t] = NoPolicy
    BY <1>1, <1>3, ApplyAnchors DEF Serves
  <2>2. CASE anchor[t] = NoPolicy
    BY <1>3, <2>1, <2>2
  <2>3. CASE \E q \in Left : q.kind = "FlushAnchor" /\ q.i = t
    BY <1>3, <2>3, LeftOrDone DEF HasEffect
  <2>4. QED
    BY <1>3, <2>2, <2>3 DEF AnchorsAhead
<1>4. QED
  BY <1>2, <1>3

LEMMA ApplyKeepsLocks ==
    ASSUME PlanInv, KernelTypeOK, SparesInv, StepInv, LocksAhead,
           NEW o \in todo \cup {cur}, Apply(o), ~notOk'
    PROVE  LocksAhead'
<1> SUFFICES ASSUME NEW t \in Policied(goal)
             PROVE  \/ on'[t] = Home[t] /\ "static" \in lock'[t]
                    \/ IfaceOp("LockMemberMac", t) \in todo'
  BY ApplyPass DEF LocksAhead
<1>1. t \in Taps /\ t \in Desired(goal)
  BY ConfigFacts DEF PlanInv
<1>2. CASE on[t] = Home[t] /\ "static" \in lock[t]
  BY <1>1, <1>2, HomeIsKept
<1>3. CASE IfaceOp("LockMemberMac", t) \in todo
  BY <1>3, TakenOrAhead DEF IfaceOp
<1>4. QED
  BY <1>2, <1>3 DEF LocksAhead

\* The states of a tap are killed: a flush that did not take is not ok.
LEMMA KillKeepsClean ==
    ASSUME PlanInv, CleanInv, KillStates
    PROVE  CleanInv'
<1> SUFFICES ASSUME Undisturbed' PROVE CleanInv'
  BY DEF CleanInv
<1>1. /\ UNCHANGED <<goal, todo, pc, touched, bridge, tuned, iface, on, lock, anchor>>
      /\ cur.kind \in {"LoadAnchor", "FlushAnchor"} /\ cur' = NoOp
      /\ notOk' = (notOk \/ (cur.kind = "FlushAnchor" /\ ~Flushed(cur)))
  BY DEF KillStates, Over, bridgeState, ifaceState
<1>2. Undisturbed /\ (cur.kind = "FlushAnchor" => anchor[cur.i] = NoPolicy)
  BY <1>1 DEF Undisturbed, Flushed
<1>3. ASSUME NEW q \in Left, q.kind \notin {"LoadAnchor", "FlushAnchor"} PROVE q \in Left'
  BY <1>1, <1>3 DEF Left
<1>4. BridgesAhead'
  <2>1. ASSUME NEW k \in {"CreateBridge", "SetMaxaddr", "DestroyBridge"}, NEW b, BridgeOp(k, b) \in Left
        PROVE  BridgeOp(k, b) \in Left'
    BY <1>3, <2>1 DEF BridgeOp
  <2>2. QED
    BY <1>1, <1>2, <2>1 DEF CleanInv, BridgesAhead
<1>5. IfacesAhead'
  <2>1. ASSUME NEW k \in {"CreateTap", "CreateVlan", "DestroyIface"}, NEW i, IfaceOp(k, i) \in Left
        PROVE  IfaceOp(k, i) \in Left'
    BY <1>3, <2>1 DEF IfaceOp
  <2>2. QED
    BY <1>1, <1>2, <2>1 DEF CleanInv, IfacesAhead, Exists, Owned
<1>6. MembersAhead'
  <2>1. ASSUME NEW i, IfaceOp("AddMember", i) \in Left PROVE IfaceOp("AddMember", i) \in Left'
    BY <1>3, <2>1 DEF IfaceOp
  <2>2. ASSUME NEW i, NEW b, [kind |-> "RemoveMember", i |-> i, b |-> b] \in Left
        PROVE  [kind |-> "RemoveMember", i |-> i, b |-> b] \in Left'
    BY <1>3, <2>2
  <2>3. QED
    BY <1>1, <1>2, <2>1, <2>2 DEF CleanInv, MembersAhead, Exists
<1>7. AnchorsAhead'
  <2>1. ASSUME NEW t, anchor[t] # NoPolicy, NEW q \in Left, q.kind = "FlushAnchor", q.i = t
        PROVE  q \in Left'
    BY <1>1, <1>2, <2>1 DEF Left
  <2>2. \A t : RulesRight(t)' <=> RulesRight(t)
    BY <1>1 DEF RulesRight
  <2>3. QED
    BY <1>1, <1>2, <2>1, <2>2 DEF CleanInv, AnchorsAhead
<1>8. LocksAhead'
  BY <1>1, <1>2 DEF CleanInv, LocksAhead
<1>9. QED
  BY <1>4, <1>5, <1>6, <1>7, <1>8 DEF CleanInv

\* A new plan has everything that is not as wanted, and nothing wanted to destroy.
LEMMA PlanIsClean ==
    ASSUME ReconcileInv, MemberInv, Plan
    PROVE  SparesInv' /\ CleanInv'
<1> USE DEF ReconcileInv
<1>1. /\ goal = want /\ goal' = want /\ want \in Configs /\ ~PlanError(want) /\ cur' = NoOp
      /\ todo' = Diff(want) /\ Left' = Diff(want)
      /\ UNCHANGED <<bridge, tuned, iface, on, lock, anchor>>
  <2>1. /\ goal = want /\ goal' = want /\ want \in Configs /\ ~PlanError(want) /\ cur' = NoOp
        /\ todo' = Diff(want) /\ UNCHANGED <<bridge, tuned, iface, on, lock, anchor>>
    BY DEF Plan, PlanInv, opVars, kernel, bridgeState, ifaceState, pfState
  <2>2. QED
    BY <2>1 DEF Left
<1>2. Evicted(want) \subseteq Orphans(want)
  BY DEF Evicted, Strays, Orphans, MemberInv
<1>3. SparesInv'
  <2> SUFFICES ASSUME NEW o \in Diff(want)
               PROVE  /\ o.kind = "DestroyIface" => o.i \notin Desired(want)
                      /\ o.kind = "FlushAnchor" => o.i \notin Policied(want)
    BY <1>1 DEF SparesInv
  <2>1. Doomed(want) \cap Desired(want) = {} /\ Policied(want) \subseteq Desired(want)
    BY <1>1, <1>2, ConfigFacts DEF Doomed, Orphans
  <2>2. CASE o \in Destroys(want)
    BY <2>1, <2>2 DEF Destroys, Flushes, Collected, IfaceOp, BridgeOp
  <2>3. CASE o \in Creates(want) \cup Removes(want) \cup Adds(want)
    BY <2>3 DEF Creates, UplinkCreates, Removes, Adds, IfaceOp, BridgeOp
  <2>4. QED
    BY <2>2, <2>3 DEF Diff
<1>4. BridgesAhead'
  <2>1. \A b \in WantedBridges(want) : bridge[b] # "foreign"
    BY <1>1 DEF PlanError
  <2>2. \A b \in WantedBridges(want) :
          /\ bridge[b] = "absent" => BridgeOp("CreateBridge", b) \in Diff(want)
          /\ bridge[b] = "owned" /\ b \notin tuned => BridgeOp("SetMaxaddr", b) \in Diff(want)
    BY DEF Diff, Creates, Present
  <2>3. \A b \in Bridges \ WantedBridges(want) :
          bridge[b] = "owned" => BridgeOp("DestroyBridge", b) \in Diff(want)
    BY DEF Diff, Destroys
  <2>4. QED
    BY <1>1, <2>1, <2>2, <2>3 DEF BridgesAhead
<1>5. IfacesAhead'
  <2>1. ASSUME NEW i \in Desired(want), ~Exists(i), i \notin Attached
        PROVE  IfaceOp("CreateTap", i) \in Diff(want) \/ IfaceOp("CreateVlan", i) \in Diff(want)
    <3>1. i \in want.ports => i \in want.ports \cap Taps
      BY <1>1, <2>1, ConfigsAssumption
    <3>2. i \in WantedUplinks(want) => i \in WantedUplinks(want) \cap Vlans
      BY <1>1, <2>1, ConfigFacts, UplinkAssumption DEF WantedUplinks
    <3>3. QED
      BY <2>1, <3>1, <3>2 DEF Desired, Diff, Creates, UplinkCreates, Adds
  <2>2. \A i \in Ifaces \ Desired(want) : Owned(i) => IfaceOp("DestroyIface", i) \in Diff(want)
    BY DEF Diff, Destroys, Doomed, Orphans
  <2>3. QED
    BY <1>1, <2>1, <2>2 DEF IfacesAhead, Exists, Owned
<1>6. MembersAhead'
  <2>1. \A i \in Ifaces : NeedsMember(want, i) => IfaceOp("AddMember", i) \in Diff(want)
    BY DEF Diff, Adds
  <2>2. ASSUME NEW i \in Ifaces, i \notin Desired(want), on[i] # NoBridge, bridge[on[i]] # "foreign"
        PROVE  [kind |-> "RemoveMember", i |-> i, b |-> on[i]] \in Diff(want)
    <3>1. on[i] \in Bridges /\ bridge[on[i]] # "absent"
      BY <2>2 DEF KernelTypeOK
    <3>2. i \in Strays(want)
      BY <2>2, <3>1 DEF Strays, KernelTypeOK, Ownership
    <3>3. QED
      BY <3>2 DEF Diff, Removes
  <2>3. QED
    BY <1>1, <2>1, <2>2 DEF MembersAhead, NeedsMember, Exists
<1>7. AnchorsAhead'
  <2>1. ASSUME NEW t \in Policied(want)
        PROVE  \/ anchor[t] = want.policy[t]
               \/ IfaceOp("LoadAnchor", t) \in Diff(want)
               \/ RulesRight(t) /\ IfaceOp("ReplaceTable", t) \in Diff(want)
    <3>1. t \in Taps /\ want.policy[t] \in Policy
      BY <1>1, ConfigFacts
    <3>2. CASE NeedsLoad(want, t)
      BY <3>1, <3>2 DEF Diff, Adds
    <3>3. CASE NeedsTable(want, t)
      BY <1>1, <3>1, <3>3 DEF Diff, Adds, NeedsTable, NeedsLoad, RulesRight
    <3>4. CASE ~NeedsLoad(want, t) /\ ~NeedsTable(want, t)
      <4>1. /\ anchor[t] \in Policy
            /\ anchor[t].rules = want.policy[t].rules /\ anchor[t].table = want.policy[t].table
        BY <3>1, <3>4 DEF NeedsLoad, NeedsTable, KernelTypeOK
      <4>2. QED
        BY <3>1, <4>1 DEF Policy
    <3>5. QED
      BY <3>2, <3>3, <3>4
  <2>2. ASSUME NEW t \in Taps, t \notin Policied(want), anchor[t] # NoPolicy
        PROVE  \E o \in Diff(want) : o.kind = "FlushAnchor" /\ o.i = t
    <3>1. CASE t \in Evicted(want)
      <4>1. IfaceOp("FlushAnchor", t) \in Diff(want)
        BY <2>2, <3>1 DEF Diff, Destroys, Flushes, Doomed
      <4>2. QED
        BY <4>1 DEF IfaceOp
    <3>2. CASE t \notin Evicted(want)
      <4>1. [kind |-> "FlushAnchor", i |-> t, b |-> NoBridge] \in Diff(want)
        BY <2>2, <3>2 DEF Diff, Destroys, Flushes, Collected
      <4>2. QED
        BY <4>1
    <3>3. QED
      BY <3>1, <3>2
  <2>3. \A t : RulesRight(t)' <=> RulesRight(t)
    BY <1>1 DEF RulesRight
  <2>4. QED
    BY <1>1, <2>1, <2>2, <2>3 DEF AnchorsAhead
<1>8. LocksAhead'
  <2>1. \A t \in Policied(want) : t \in Taps
    BY <1>1, ConfigFacts
  <2>2. \A t \in Policied(want) : NeedsLock(want, t) => IfaceOp("LockMemberMac", t) \in Diff(want)
    BY <2>1 DEF Diff, Adds
  <2>3. QED
    BY <1>1, <2>2 DEF LocksAhead, NeedsLock
<1>9. QED
  BY <1>3, <1>4, <1>5, <1>6, <1>7, <1>8 DEF CleanInv

LEMMA StepInvInductive ==
    ASSUME PlanInv, StepInv, [Next]_vars
    PROVE  StepInv'
<1> USE DEF StepInv
<1>1. CASE Plan \/ PlanRaises \/ EndPass
  BY <1>1 DEF Plan, PlanRaises, EndPass, opVars
<1>2. CASE KillStates \/ Crash
  BY <1>2 DEF KillStates, Crash, Over
<1>3. ASSUME NEW o \in todo \cup {cur}, Apply(o) PROVE StepInv'
  <2>1. o # NoOp
    BY <1>3, ApplyPass DEF PlanInv, Serves, Op, Kinds, NoOp
  <2>2. Over \/ cur' = o
    BY <1>3 DEF Apply, CreateBridge, SetMaxaddr, CreateIface, AddMember, RemoveMember, ReplaceTable,
       LoadAnchor, FlushAnchor, LockMemberMac, Recheck, DestroyIface, DestroyBridge, AlreadyAbsent,
       Refuse, OpFails, Failed
  <2>3. QED
    BY <2>1, <2>2 DEF Over
<1>4. CASE Others
  BY <1>4, OthersPass
<1>5. CASE UNCHANGED vars
  BY <1>5 DEF vars, passVars, opVars
<1>6. QED
  BY <1>1, <1>2, <1>3, <1>4, <1>5 DEF Next, Agent

LEMMA MemberInvInductive ==
    ASSUME ~MovesMembers, ReconcileInv, ReconcileInv', MemberInv, [Next]_vars
    PROVE  MemberInv'
<1> USE DEF ReconcileInv
<1>1. CASE Plan \/ PlanRaises \/ EndPass \/ KillStates \/ Crash \/ UNCHANGED vars
  BY <1>1 DEF Plan, PlanRaises, EndPass, KillStates, Crash, vars, kernel, ifaceState, MemberInv, Owned
<1>2. ASSUME NEW o \in todo \cup {cur}, Apply(o) PROVE MemberInv'
  <2> SUFFICES ASSUME NEW i \in Ifaces, iface'[i] = "owned", on'[i] # NoBridge
               PROVE  on'[i] = Home[i]
    BY DEF MemberInv, Owned
  <2>1. Serves(o, goal)
    BY <1>2, ApplyPass DEF PlanInv
  <2>2. CASE on'[i] = on[i]
    <3>1. iface[i] # "absent"
      BY <2>2 DEF KernelTypeOK
    <3>2. iface[i] = "owned"
      BY <1>2, <3>1, ApplyIfaces
    <3>3. QED
      BY <2>2, <3>2 DEF MemberInv, Owned
  <2>3. CASE o.kind = "AddMember" /\ o.i = i /\ on'[i] = o.b
    BY <2>1, <2>3 DEF Serves
  <2>4. QED
    BY <1>2, <2>2, <2>3, ApplyMembers
<1>3. CASE Others
  <2> USE DEF MemberInv, Owned
  <2>1. CASE \/ \E c \in Configs : Desire(c)
             \/ \E b \in Bridges : OperatorBridge(b) \/ OperatorTunes(b)
             \/ \E t \in Taps : Open(t) \/ Close(t)
    BY <2>1 DEF Desire, OperatorBridge, OperatorTunes, Open, Close, kernel, ifaceState
  <2>2. CASE \E i \in Ifaces : Attach(i) \/ OperatorTakes(i)
    BY <2>2 DEF Attach, OperatorTakes, KernelTypeOK
  <2>3. CASE \/ \E i \in Ifaces : Detach(i) \/ OperatorDestroys(i) \/ OperatorLeaves(i)
             \/ \E b \in Bridges : OperatorUnbridge(b)
    <3>1. \A i \in Ifaces : on'[i] = on[i] \/ on'[i] = NoBridge
      BY <2>3, LeaveTypes DEF Detach, OperatorDestroys, OperatorLeaves, OperatorUnbridge
    <3>2. \A i \in Ifaces : iface'[i] = iface[i] \/ iface'[i] = "absent"
      BY <2>3 DEF Detach, OperatorDestroys, OperatorLeaves, OperatorUnbridge, KernelTypeOK
    <3>3. QED
      BY <3>1, <3>2
  <2>4. CASE \E i \in Ifaces, b \in Bridges : OperatorJoins(i, b)
    BY <2>4 DEF OperatorJoins, KernelTypeOK
  <2>5. QED
    BY <1>3, <2>1, <2>2, <2>3, <2>4 DEF Others
<1>4. QED
  BY <1>1, <1>2, <1>3 DEF Next, Agent

LEMMA SparesInvKept ==
    ASSUME ReconcileInv, MemberInv, SparesInv, [Next]_vars
    PROVE  SparesInv'
<1> USE DEF ReconcileInv
<1>1. CASE Plan
  BY <1>1, PlanIsClean
<1>2. CASE \E o \in todo \cup {cur} : Apply(o)
  BY <1>2, ApplyPass DEF SparesInv
<1>3. CASE PlanRaises \/ EndPass \/ UNCHANGED vars
  BY <1>3 DEF PlanRaises, EndPass, AllApplied, opVars, vars, passVars, SparesInv, Left
<1>4. CASE KillStates \/ Crash
  BY <1>4 DEF KillStates, Crash, Over, SparesInv, Left
<1>5. CASE Others
  <2>1. Left' = Left /\ (goal' = goal \/ Left = {})
    BY <1>5, OthersPass DEF Left, PlanInv
  <2>2. QED
    BY <2>1 DEF SparesInv
<1>6. QED
  BY <1>1, <1>2, <1>3, <1>4, <1>5 DEF Next, Agent

LEMMA CleanInvKept ==
    ASSUME ReconcileInv, ReconcileInv', MemberInv, SparesInv, StepInv, CleanInv, [Next]_vars
    PROVE  CleanInv'
<1> USE DEF ReconcileInv
<1>1. CASE Plan
  BY <1>1, PlanIsClean
<1>2. CASE PlanRaises \/ EndPass \/ Crash
  BY <1>2 DEF PlanRaises, EndPass, Crash, CleanInv, Undisturbed
<1>3. CASE KillStates
  BY <1>3, KillKeepsClean
<1>4. ASSUME NEW o \in todo \cup {cur}, Apply(o) PROVE CleanInv'
  <2> SUFFICES ASSUME Undisturbed' PROVE CleanInv'
    BY DEF CleanInv
  <2>1. Undisturbed /\ ~notOk'
    BY <1>4, ApplyPass, ApplyRemembers DEF Undisturbed, Remembers
  <2>2. QED
    BY <1>4, <2>1, ApplyKeepsBridges, ApplyKeepsIfaces, ApplyKeepsMembers, ApplyKeepsAnchors,
       ApplyKeepsLocks DEF CleanInv
<1>5. CASE Others
  <2> SUFFICES ASSUME Undisturbed' PROVE CleanInv'
    BY DEF CleanInv
  <2>1. ~Other
    BY OthersPass, <1>5 DEF Other, Undisturbed
  <2>2. CASE \E c \in Configs : Desire(c)
    BY <2>2 DEF Desire, kernel, bridgeState, ifaceState, pfState, opVars, CleanInv, Undisturbed, Left,
       BridgesAhead, IfacesAhead, MembersAhead, AnchorsAhead, LocksAhead, Exists, Owned, RulesRight
  <2>3. CASE \E t \in Taps : Close(t)
    BY <2>3 DEF Close, passVars, bridgeState, ifaceState, pfState, opVars, CleanInv, Undisturbed, Left,
       BridgesAhead, IfacesAhead, MembersAhead, AnchorsAhead, LocksAhead, Exists, Owned, RulesRight
  <2>4. QED
    BY <1>5, <2>1, <2>2, <2>3 DEF Others, Attach, Detach, OperatorTakes, OperatorDestroys,
       OperatorLeaves, OperatorJoins, OperatorBridge, OperatorUnbridge, OperatorTunes, Open
<1>6. CASE UNCHANGED vars
  BY <1>6 DEF vars, passVars, kernel, bridgeState, ifaceState, pfState, opVars, CleanInv, Undisturbed,
     Left, BridgesAhead, IfacesAhead, MembersAhead, AnchorsAhead, LocksAhead, Exists, Owned, RulesRight
<1>7. QED
  BY <1>1, <1>2, <1>3, <1>4, <1>5, <1>6 DEF Next, Agent

\* With nothing left to do, nothing is other than wanted.
LEMMA NothingAhead ==
    ASSUME ReconcileInv, CleanInv, AllApplied, ~notOk, ~touched
    PROVE  Reconciled(goal)
<1> USE DEF ReconcileInv
<1>1. /\ Left = {} /\ todo = {} /\ goal \in Configs
      /\ BridgesAhead /\ IfacesAhead /\ MembersAhead /\ AnchorsAhead /\ LocksAhead
  BY DEF CleanInv, Undisturbed, AllApplied, Left, PlanInv
<1>2. ASSUME NEW b \in Bridges
      PROVE  IF b \in WantedBridges(goal) THEN bridge[b] = "owned" /\ b \in tuned
             ELSE bridge[b] # "owned"
  BY <1>1 DEF BridgesAhead, KernelTypeOK, Ownership
<1>3. ASSUME NEW i \in Ifaces
      PROVE  IF i \in Desired(goal)
             THEN IF Exists(i) THEN on[i] = Home[i] ELSE i \in Attached
             ELSE /\ Owned(i) => i \in {}
                  /\ on[i] # NoBridge => bridge[on[i]] = "foreign"
  BY <1>1 DEF IfacesAhead, MembersAhead
<1>4. ASSUME NEW t \in Taps
      PROVE  /\ anchor[t] = IF t \in Policied(goal) THEN goal.policy[t] ELSE NoPolicy
             /\ t \in Policied(goal) => "static" \in lock[t]
  BY <1>1 DEF AnchorsAhead, LocksAhead
<1>5. QED
  BY <1>2, <1>3, <1>4 DEF Reconciled, AsDesired

\* A pass whose receipts are all ok, undisturbed by others, leaves the kernel as its
\* configuration asks, in whatever order the plan lets its ops be applied: no op undoes
\* what another has done, and none is left out (plan.py:152-155, writer.py:96-212).
THEOREM CleanPassIsEnough == ~MovesMembers => (Spec => []CleanPassReconciles)
<1> SUFFICES ASSUME ~MovesMembers PROVE Spec => []CleanPassReconciles
  OBVIOUS
<1> DEFINE Inv == MemberInv /\ SparesInv /\ StepInv /\ CleanInv
<1>1. Init => Inv
  BY NamesAssumption DEF Init, MemberInv, SparesInv, StepInv, CleanInv, Undisturbed, Left
<1>2. ReconcileInv /\ ReconcileInv' /\ Inv /\ [Next]_vars => Inv'
  BY MemberInvInductive, SparesInvKept, StepInvInductive, CleanInvKept DEF ReconcileInv
<1>3. ReconcileInv /\ Inv => CleanPassReconciles
  BY NothingAhead DEF CleanPassReconciles
<1>4. QED
  BY <1>1, <1>2, <1>3, ReconcileInvAlways, PTL DEF Spec

=============================================================================
