---------------------------- MODULE L2AgentProofs ----------------------------
(***************************************************************************)
(* Theorems of the l2 agent, for any ports, limits and bounds.             *)
(***************************************************************************)
EXTENDS L2Agent, TLAPS

-----------------------------------------------------------------------------
(* Type correctness.                                                        *)

LEMMA InitTypeOK == Init => TypeOK
<1> SUFFICES ASSUME Init PROVE TypeOK
  OBVIOUS
<1>1. MemoryTypeOK
  BY LimitsAssumption DEF Init, MemoryTypeOK
<1>2. PassTypeOK
  BY DEF Init, PassTypeOK, Stages
<1>3. HostTypeOK
  BY DEF Init, HostTypeOK
<1>4. ServerTypeOK
  BY DEF Init, ServerTypeOK, Statuses
<1>5. BudgetTypeOK
  BY DEF Init, BudgetTypeOK
<1>6. QED
  BY <1>1, <1>2, <1>3, <1>4, <1>5 DEF TypeOK

\* A group of variables that a step leaves alone keeps its types.
LEMMA UnchangedTypes ==
    /\ MemoryTypeOK /\ UNCHANGED memory => MemoryTypeOK'
    /\ PassTypeOK /\ UNCHANGED <<pass, heard>> => PassTypeOK'
    /\ HostTypeOK /\ UNCHANGED host => HostTypeOK'
    /\ ServerTypeOK /\ UNCHANGED server => ServerTypeOK'
    /\ BudgetTypeOK /\ UNCHANGED budget => BudgetTypeOK'
<1>1. MemoryTypeOK /\ UNCHANGED memory => MemoryTypeOK'
  BY DEF MemoryTypeOK, memory
<1>2. PassTypeOK /\ UNCHANGED <<pass, heard>> => PassTypeOK'
  BY DEF PassTypeOK, pass
<1>3. HostTypeOK /\ UNCHANGED host => HostTypeOK'
  BY DEF HostTypeOK, host
<1>4. ServerTypeOK /\ UNCHANGED server => ServerTypeOK'
  BY DEF ServerTypeOK, server
<1>5. BudgetTypeOK /\ UNCHANGED budget => BudgetTypeOK'
  BY DEF BudgetTypeOK, budget
<1>6. QED
  BY <1>1, <1>2, <1>3, <1>4, <1>5

\* The end of a pass empties its locals.
LEMMA EndPassTypes == EndPass => PassTypeOK'
  BY DEF EndPass, PassTypeOK, Stages

\* Handling the server's answer leaves every count below the limit.
LEMMA HandleReplyTypes ==
    ASSUME TypeOK, HandleReply
    PROVE  MemoryTypeOK' /\ PassTypeOK'
<1> DEFINE dropped == {p \in Missed : GivesUp(p)}
<1>1. pending' = Missed \ dropped /\ candidates' = candidates \ dropped
  BY DEF HandleReply
<1>2. misses' = [p \in Ports |-> IF p \in details \cup dropped THEN 0
                                 ELSE IF p \in Missed THEN Count(p)
                                 ELSE misses[p]]
  BY DEF HandleReply
<1>3. \A p \in Ports : p \in Missed \ dropped => Count(p) \in 0 .. BindingMissLimit - 1
  BY LimitsAssumption DEF GivesUp, Count, TypeOK, MemoryTypeOK
<1>4. misses' \in [Ports -> 0 .. BindingMissLimit - 1]
  BY <1>2, <1>3, LimitsAssumption DEF TypeOK, MemoryTypeOK
<1>5. MemoryTypeOK'
  BY <1>1, <1>4 DEF HandleReply, TypeOK, MemoryTypeOK
<1>6. PassTypeOK'
  BY <1>1 DEF HandleReply, TypeOK, PassTypeOK, Stages, Missed
<1>7. QED
  BY <1>5, <1>6

LEMMA PassKeepsTypes ==
    ASSUME TypeOK, Pass
    PROVE  TypeOK'
<1> USE DEF TypeOK
<1>1. CASE \E force \in BOOLEAN : StartSync(force)
  <2>1. MemoryTypeOK'
    BY <1>1 DEF StartSync, MemoryTypeOK
  <2>2. PassTypeOK'
    BY <1>1 DEF StartSync, PassTypeOK, Stages
  <2>3. QED
    BY <1>1, <2>1, <2>2, UnchangedTypes DEF StartSync
<1>2. CASE Scan
  <2>1. candidates' \subseteq Ports /\ candidates \subseteq candidates' /\ devices' = candidates'
    BY <1>2 DEF Scan, ScanFinds, AskedFor, MemoryTypeOK, HostTypeOK, Ports
  <2>2. MemoryTypeOK'
    BY <1>2, <2>1 DEF Scan, MemoryTypeOK
  <2>3. pc' \in Stages
    BY <1>2 DEF Scan, Stages
  <2>4. details = {} /\ pending = {} /\ pc' # "idle" /\ pc' # "scan"
    BY <1>2 DEF Scan, PassTypeOK
  <2>5. PassTypeOK'
    BY <1>2, <2>1, <2>3, <2>4 DEF Scan, PassTypeOK
  <2>6. QED
    BY <1>2, <2>2, <2>5, UnchangedTypes DEF Scan
<1>3. CASE \E failed \in SUBSET Ports : ServerReply(failed)
  <2>1. PassTypeOK'
    BY <1>3 DEF ServerReply, PassTypeOK, Stages
  <2>2. ServerTypeOK'
    BY <1>3 DEF ServerReply, ServerTypeOK, Statuses
  <2>3. BudgetTypeOK'
    BY <1>3 DEF ServerReply, BudgetTypeOK, Fault
  <2>4. QED
    BY <1>3, <2>1, <2>2, <2>3, UnchangedTypes DEF ServerReply
<1>4. CASE HandleReply
  BY <1>4, HandleReplyTypes, UnchangedTypes DEF HandleReply
<1>5. CASE Read
  <2>1. PassTypeOK'
    BY <1>5 DEF Read, PassTypeOK, HostTypeOK, Stages
  <2>2. QED
    BY <1>5, <2>1, UnchangedTypes DEF Read
<1>6. CASE ApplyOk
  <2>1. PassTypeOK'
    BY <1>6 DEF ApplyOk, PassTypeOK, Stages
  <2>2. HostTypeOK'
    BY <1>6 DEF ApplyOk, PassTypeOK, HostTypeOK, Adds, Removes, Ports
  <2>3. QED
    BY <1>6, <2>1, <2>2, UnchangedTypes DEF ApplyOk
<1>7. CASE ApplyFail
  <2>1. MemoryTypeOK'
    BY <1>7 DEF ApplyFail, MemoryTypeOK
  <2>2. HostTypeOK'
    BY <1>7 DEF ApplyFail, PassTypeOK, HostTypeOK, Adds, Removes, Ports
  <2>3. BudgetTypeOK'
    BY <1>7 DEF ApplyFail, BudgetTypeOK, Fault
  <2>4. QED
    BY <1>7, <2>1, <2>2, <2>3, EndPassTypes, UnchangedTypes DEF ApplyFail
<1>8. CASE Save
  <2>1. PassTypeOK' /\ HostTypeOK'
    BY <1>8 DEF Save, SavedSet, PassTypeOK, HostTypeOK, Stages
  <2>2. QED
    BY <1>8, <2>1, UnchangedTypes DEF Save
<1>9. CASE Report
  <2>1. PassTypeOK'
    BY <1>9 DEF Report, PassTypeOK, Stages
  <2>2. ServerTypeOK'
    BY <1>9 DEF Report, ServerTypeOK, Statuses
  <2>3. QED
    BY <1>9, <2>1, <2>2, UnchangedTypes DEF Report
<1>10. CASE Finish
  <2>1. MemoryTypeOK'
    BY <1>10 DEF Finish, MemoryTypeOK, PassTypeOK, NowUp, Rebuilt, DirtyAfterPass,
                 FastRetry
  <2>2. QED
    BY <1>10, <2>1, EndPassTypes, UnchangedTypes DEF Finish
<1>11. CASE Fail
  <2>1. MemoryTypeOK'
    BY <1>11 DEF Fail, MemoryTypeOK
  <2>2. BudgetTypeOK'
    BY <1>11 DEF Fail, BudgetTypeOK, Fault
  <2>3. QED
    BY <1>11, <2>1, <2>2, EndPassTypes, UnchangedTypes DEF Fail
<1>12. QED
  BY <1>1, <1>2, <1>3, <1>4, <1>5, <1>6, <1>7, <1>8, <1>9, <1>10, <1>11 DEF Pass

\* The handlers, the restart and the outside touch no local of a running pass.
LEMMA OthersKeepTypes ==
    ASSUME TypeOK, Handle \/ Outside \/ Restart
    PROVE  TypeOK'
<1> USE DEF TypeOK
<1>1. CASE \E m \in msgs : PortUpdate(m) \/ BindingActivate(m)
  <2>1. PICK m \in msgs : Track(m)
    BY <1>1 DEF PortUpdate, BindingActivate
  <2>2. m.port \in Ports
    BY DEF ServerTypeOK, Message
  <2>3. MemoryTypeOK'
    BY <2>1, <2>2 DEF Track, MemoryTypeOK
  <2>4. PassTypeOK'
    BY <2>1, <2>2 DEF Track, PassTypeOK, pass
  <2>5. ServerTypeOK'
    BY <2>1 DEF Track, ServerTypeOK
  <2>6. QED
    BY <2>1, <2>3, <2>4, <2>5, UnchangedTypes DEF Track
<1>2. CASE \E m \in msgs : PortDelete(m)
  <2>1. PICK m \in msgs : PortDelete(m)
    BY <1>2
  <2>2. MemoryTypeOK'
    <3>1. 0 \in 0 .. BindingMissLimit - 1
      BY LimitsAssumption
    <3>2. misses' \in [Ports -> 0 .. BindingMissLimit - 1]
      BY <2>1, <3>1 DEF PortDelete, MemoryTypeOK
    <3>3. QED
      BY <2>1, <3>2 DEF PortDelete, MemoryTypeOK
  <2>3. PassTypeOK'
    BY <2>1 DEF PortDelete, PassTypeOK, pass
  <2>4. ServerTypeOK'
    BY <2>1 DEF PortDelete, ServerTypeOK
  <2>5. QED
    BY <2>1, <2>2, <2>3, <2>4, UnchangedTypes DEF PortDelete
<1>3. CASE \E m \in msgs : MarkDirty(m)
  <2>1. PICK m \in msgs : MarkDirty(m)
    BY <1>3
  <2>2. MemoryTypeOK' /\ ServerTypeOK'
    BY <2>1 DEF MarkDirty, MemoryTypeOK, ServerTypeOK
  <2>3. QED
    BY <2>1, <2>2, UnchangedTypes DEF MarkDirty
<1>4. CASE DevdEvent
  <2>1. MemoryTypeOK' /\ HostTypeOK'
    BY <1>4 DEF DevdEvent, MemoryTypeOK, HostTypeOK
  <2>2. QED
    BY <1>4, <2>1, UnchangedTypes DEF DevdEvent
<1>5. CASE Restart
  <2>1. candidates' \subseteq Ports
    BY <1>5 DEF Restart, HostTypeOK, Ports
  <2>2. MemoryTypeOK'
    BY <1>5, <2>1, LimitsAssumption DEF Restart, MemoryTypeOK
  <2>3. HostTypeOK'
    BY <1>5 DEF Restart, HostTypeOK
  <2>4. ServerTypeOK'
    BY <1>5 DEF Restart, ServerTypeOK
  <2>5. BudgetTypeOK'
    BY <1>5 DEF Restart, Fault, BudgetTypeOK
  <2>6. QED
    BY <1>5, <2>2, <2>3, <2>4, <2>5, EndPassTypes DEF Restart
<1>6. CASE \E p \in Ports : \/ \E kind \in {"update", "activate"} : Announce(p, kind)
                             \/ Bind(p) \/ Unbind(p) \/ DeletePort(p)
  <2>1. PICK p \in Ports : \/ \E kind \in {"update", "activate"} : Announce(p, kind)
                           \/ Bind(p) \/ Unbind(p) \/ DeletePort(p)
    BY <1>6
  <2>2. ServerTypeOK'
    <3>1. status' \in [Ports -> Statuses]
      BY <2>1 DEF Announce, Bind, Unbind, DeletePort, ServerTypeOK, Statuses
    <3>2. bound' \subseteq Ports /\ gone' \subseteq Ports
      BY <2>1 DEF Announce, Bind, Unbind, DeletePort, ServerTypeOK
    <3>3. msgs' \subseteq Message
      BY <2>1 DEF Announce, Bind, Unbind, DeletePort, ServerTypeOK, Message
    <3>4. QED
      BY <3>1, <3>2, <3>3 DEF ServerTypeOK
  <2>3. BudgetTypeOK'
    BY <2>1 DEF Announce, Bind, Unbind, DeletePort, ServerStep, BudgetTypeOK
  <2>4. QED
    BY <2>1, <2>2, <2>3, UnchangedTypes DEF Announce, Bind, Unbind, DeletePort
<1>7. CASE \E p \in Ports : EpairAppears(p) \/ EpairVanishes(p)
  <2>1. PICK p \in Ports : EpairAppears(p) \/ EpairVanishes(p)
    BY <1>7
  <2>2. HostTypeOK'
    BY <2>1 DEF EpairAppears, EpairVanishes, HostTypeOK
  <2>3. BudgetTypeOK'
    BY <2>1 DEF EpairAppears, EpairVanishes, HostStep, BudgetTypeOK
  <2>4. QED
    BY <2>1, <2>2, <2>3, UnchangedTypes DEF EpairAppears, EpairVanishes
<1>8. CASE DevdLost
  <2>1. HostTypeOK'
    BY <1>8 DEF DevdLost, HostTypeOK
  <2>2. QED
    BY <1>8, <2>1, UnchangedTypes DEF DevdLost
<1>9. QED
  BY <1>1, <1>2, <1>3, <1>4, <1>5, <1>6, <1>7, <1>8 DEF Handle, Outside

\* Every variable keeps its type, and no port's misses ever reach the limit
\* (agent.py:186-199).
THEOREM TypeCorrect == Spec => []TypeOK
<1>1. TypeOK /\ [Next]_vars => TypeOK'
  BY PassKeepsTypes, OthersKeepTypes, UnchangedTypes DEF Next, vars, TypeOK
<1>2. QED
  BY <1>1, InitTypeOK, PTL DEF Spec

-----------------------------------------------------------------------------
(* Announcements.                                                           *)

\* What was announced since the devices were listed, and is not one of them, is a
\* candidate all the time, not only when the pass ends.
HeardInv ==
    /\ pc \in {"idle", "scan"} => heard = {}
    /\ heard \ devices \subseteq candidates

LEMMA HeardInvInductive == TypeOK /\ HeardInv /\ [Next]_vars => HeardInv'
<1> SUFFICES ASSUME TypeOK, HeardInv, [Next]_vars PROVE HeardInv'
  OBVIOUS
<1> USE DEF HeardInv
<1>1. CASE Pass
  <2>1. CASE HandleReply
    BY <2>1 DEF HandleReply, Missed
  <2>2. CASE Finish
    BY <2>2 DEF Finish, EndPass
  <2>3. CASE \/ \E force \in BOOLEAN : StartSync(force)
             \/ Scan
             \/ \E failed \in SUBSET Ports : ServerReply(failed)
             \/ Read \/ ApplyOk \/ Save \/ Report
    BY <2>3 DEF StartSync, Scan, ServerReply, Read, ApplyOk, Save, Report, memory
  <2>4. CASE ApplyFail \/ Fail
    BY <2>4 DEF ApplyFail, Fail, EndPass
  <2>5. QED
    BY <1>1, <2>1, <2>2, <2>3, <2>4 DEF Pass
<1>2. CASE Handle
  BY <1>2 DEF Handle, PortUpdate, BindingActivate, Track, PortDelete, MarkDirty, DevdEvent,
              pass
<1>3. CASE Outside
  BY <1>3 DEF Outside, Announce, Bind, Unbind, DeletePort, EpairAppears, EpairVanishes,
              DevdLost, memory, pass
<1>4. CASE Restart
  BY <1>4 DEF Restart, EndPass
<1>5. CASE UNCHANGED vars
  BY <1>5 DEF vars, memory, pass
<1>6. QED
  BY <1>1, <1>2, <1>3, <1>4, <1>5 DEF Next

\* The sync set that ends a pass keeps every port announced while the pass ran and
\* not asked for by it (agent.py:272-277).
THEOREM AnnouncementsSurvive == Spec => LateAnnouncementKept
<1>1. Init => HeardInv
  BY DEF Init, HeardInv
<1>2. HeardInv => [Finish => heard \ devices \subseteq candidates']_vars
  BY DEF HeardInv, Finish, Rebuilt
<1>3. QED
  BY <1>1, <1>2, TypeCorrect, HeardInvInductive, PTL DEF Spec, LateAnnouncementKept

-----------------------------------------------------------------------------
(* What the server holds for active is never lost.                          *)

\* Each pass puts what it resolves back to BUILD before it writes the device file, so
\* that nothing is ACTIVE while the file changes; what is reported is in the file.
ActiveInv ==
    /\ ActivePorts \subseteq bound /\ bound \cap gone = {}
    /\ \A m \in msgs : m.kind = "delete" => m.port \in gone
    /\ ActivePorts \subseteq file
    /\ ActivePorts \subseteq candidates
    /\ pc = "request" => ActivePorts \subseteq devices /\ devices \ gone \subseteq candidates
    /\ details \ gone \subseteq candidates
    /\ pc \in {"reply", "build", "apply", "save", "report"} => ActivePorts = {}
    /\ pc \in {"report", "finish"} => file = details
    /\ pc = "finish" => ActivePorts \subseteq details

LEMMA PassKeepsActiveInv ==
    ASSUME ~DeviceFaults, TypeOK, ActiveInv, Pass
    PROVE  ActiveInv'
<1> USE DEF ActiveInv
<1>1. CASE \E force \in BOOLEAN : StartSync(force)
  BY <1>1 DEF StartSync, host, server, ActivePorts
<1>2. CASE Scan
  <2>1. ActivePorts' = ActivePorts
    BY <1>2 DEF Scan, server, ActivePorts
  <2>2. candidates \subseteq candidates' /\ devices' = candidates'
    BY <1>2 DEF Scan, AskedFor
  <2>3. pc' = IF devices' = {} THEN "build" ELSE "request"
    BY <1>2 DEF Scan
  <2>4. details = {}
    BY <1>2 DEF Scan, TypeOK, PassTypeOK
  <2>5. QED
    BY <1>2, <2>1, <2>2, <2>3, <2>4 DEF Scan, host, server
<1>3. CASE \E failed \in SUBSET Ports : ServerReply(failed)
  <2>1. details' = devices \cap bound
    BY <1>3 DEF ServerReply
  <2>2. status' = [p \in Ports |-> IF p \in details' THEN "BUILD" ELSE status[p]]
    BY <1>3 DEF ServerReply
  <2>3. ActivePorts' = {}
    BY <1>3, <2>1, <2>2 DEF ServerReply, ActivePorts
  <2>4. QED
    BY <1>3, <2>3 DEF ServerReply, memory, host
<1>4. CASE HandleReply
  <2>1. candidates' = candidates \ {p \in Missed : GivesUp(p)}
    BY <1>4 DEF HandleReply
  <2>2. details \ gone \subseteq candidates'
    BY <2>1 DEF Missed
  <2>3. ActivePorts' = {} /\ ActivePorts = {}
    BY <1>4 DEF HandleReply, server, ActivePorts
  <2>4. QED
    BY <1>4, <2>2, <2>3 DEF HandleReply, host, server
<1>5. CASE Read
  BY <1>5 DEF Read, memory, host, server, ActivePorts
<1>6. CASE ApplyOk
  BY <1>6 DEF ApplyOk, memory, server, ActivePorts
<1>7. CASE ApplyFail
  BY <1>7 DEF ApplyFail, EndPass, server, ActivePorts
<1>8. CASE Save
  BY <1>8 DEF Save, SavedSet, memory, server, ActivePorts
<1>9. CASE Report
  <2>1. ActivePorts' \subseteq bound /\ ActivePorts' \subseteq details
    BY <1>9 DEF Report, ReportedUp, NowUp, ActivePorts
  <2>2. ActivePorts' \subseteq candidates
    BY <1>9, <2>1 DEF Report
  <2>3. QED
    BY <1>9, <2>1, <2>2 DEF Report, memory, host
<1>10. CASE Finish
  <2>1. details \subseteq candidates'
    BY <1>10 DEF Finish, Rebuilt
  <2>2. QED
    BY <1>10, <2>1 DEF Finish, EndPass, host, server, ActivePorts
<1>11. CASE Fail
  BY <1>11 DEF Fail, EndPass, host, server, ActivePorts
<1>12. QED
  BY <1>1, <1>2, <1>3, <1>4, <1>5, <1>6, <1>7, <1>8, <1>9, <1>10, <1>11 DEF Pass

LEMMA OthersKeepActiveInv ==
    ASSUME TypeOK, ActiveInv, Handle \/ Outside \/ Restart
    PROVE  ActiveInv'
<1> USE DEF ActiveInv
<1>1. CASE \E m \in msgs : PortUpdate(m) \/ BindingActivate(m)
  <2>1. PICK m \in msgs : Track(m)
    BY <1>1 DEF PortUpdate, BindingActivate
  <2>2. QED
    BY <2>1 DEF Track, pass, host, ActivePorts
<1>2. CASE \E m \in msgs : PortDelete(m)
  <2>1. PICK m \in msgs : PortDelete(m)
    BY <1>2
  <2>2. m.port \in gone /\ m.port \notin ActivePorts
    BY <2>1 DEF PortDelete
  <2>3. ActivePorts' = ActivePorts
    BY <2>1 DEF PortDelete, ActivePorts
  <2>4. QED
    BY <2>1, <2>2, <2>3 DEF PortDelete, pass, host
<1>3. CASE \E m \in msgs : MarkDirty(m)
  <2>1. PICK m \in msgs : MarkDirty(m)
    BY <1>3
  <2>2. QED
    BY <2>1 DEF MarkDirty, pass, host, ActivePorts
<1>4. CASE DevdEvent \/ DevdLost
  BY <1>4 DEF DevdEvent, DevdLost, memory, pass, server, ActivePorts
<1>5. CASE Restart
  <2>1. file \subseteq candidates' /\ msgs' \subseteq msgs /\ ActivePorts' = ActivePorts
    BY <1>5 DEF Restart, ActivePorts
  <2>2. QED
    BY <1>5, <2>1 DEF Restart, EndPass
<1>6. CASE \E p \in Ports : \/ \E kind \in {"update", "activate"} : Announce(p, kind)
                             \/ Bind(p)
  <2>1. PICK p \in Ports : \/ \E kind \in {"update", "activate"} : Announce(p, kind)
                           \/ Bind(p)
    BY <1>6
  <2>2. ActivePorts' = ActivePorts
    BY <2>1 DEF Announce, Bind, ActivePorts
  <2>3. \A m \in msgs' : m.kind = "delete" => m \in msgs
    BY <2>1 DEF Announce, Bind
  <2>4. bound \subseteq bound' /\ bound' \cap gone' = {} /\ gone' = gone
    BY <2>1 DEF Announce, Bind
  <2>5. QED
    BY <2>1, <2>2, <2>3, <2>4 DEF Announce, Bind, memory, pass, host
<1>7. CASE \E p \in Ports : Unbind(p) \/ DeletePort(p)
  <2>1. PICK p \in Ports : Unbind(p) \/ DeletePort(p)
    BY <1>7
  <2>2. ActivePorts' = ActivePorts \ {p}
    BY <2>1 DEF Unbind, DeletePort, ActivePorts, TypeOK, ServerTypeOK
  <2>3. bound' = bound \ {p} /\ bound' \cap gone' = {} /\ gone \subseteq gone'
    BY <2>1 DEF Unbind, DeletePort
  <2>4. \A m \in msgs' : m.kind = "delete" => m.port \in gone'
    BY <2>1 DEF Unbind, DeletePort
  <2>5. QED
    BY <2>1, <2>2, <2>3, <2>4 DEF Unbind, DeletePort, memory, pass, host
<1>8. CASE \E p \in Ports : EpairAppears(p) \/ EpairVanishes(p)
  BY <1>8 DEF EpairAppears, EpairVanishes, memory, pass, server, ActivePorts
<1>9. QED
  BY <1>1, <1>2, <1>3, <1>4, <1>5, <1>6, <1>7, <1>8 DEF Handle, Outside

LEMMA ActiveInvAlways == ~DeviceFaults => (Spec => []ActiveInv)
<1> SUFFICES ASSUME ~DeviceFaults PROVE Spec => []ActiveInv
  OBVIOUS
<1>1. Init => ActiveInv
  BY DEF Init, ActiveInv, ActivePorts
<1>2. TypeOK /\ ActiveInv /\ [Next]_vars => ActiveInv'
  <2>1. ActiveInv /\ UNCHANGED vars => ActiveInv'
    BY DEF ActiveInv, ActivePorts, vars, memory, pass, host, server
  <2>2. QED
    BY <2>1, PassKeepsActiveInv, OthersKeepActiveInv DEF Next
<1>3. QED
  BY <1>1, <1>2, TypeCorrect, PTL DEF Spec

\* An agent that dies at any moment finds every port the server holds for ACTIVE in
\* its device file (agent.py:84-103, 243), as long as the server answers for the
\* ports it has.
THEOREM ActiveSurvivesCrash == Spec => []ActiveIsDurable
<1>1. CASE DeviceFaults
  <2>1. ActiveIsDurable
    BY <1>1 DEF ActiveIsDurable
  <2>2. QED
    BY <2>1, PTL
<1>2. CASE ~DeviceFaults
  <2>1. ActiveInv => ActiveIsDurable
    BY DEF ActiveInv, ActiveIsDurable
  <2>2. Spec => []ActiveInv
    BY <1>2, ActiveInvAlways
  <2>3. QED
    BY <2>1, <2>2, PTL
<1>3. QED
  BY <1>1, <1>2

\* A port the server holds for ACTIVE is never dropped from the sync set
\* (agent.py:193-195, 274-277).
THEOREM ActiveStaysTracked == Spec => []ActiveIsTracked
<1>1. CASE DeviceFaults
  <2>1. ActiveIsTracked
    BY <1>1 DEF ActiveIsTracked
  <2>2. QED
    BY <2>1, PTL
<1>2. CASE ~DeviceFaults
  <2>1. ActiveInv => ActiveIsTracked
    BY DEF ActiveInv, ActiveIsTracked
  <2>2. Spec => []ActiveInv
    BY <1>2, ActiveInvAlways
  <2>3. QED
    BY <2>1, <2>2, PTL
<1>3. QED
  BY <1>1, <1>2

-----------------------------------------------------------------------------
(* What the agent holds for up when it sleeps.                              *)

\* A candidate of an instance that the running pass does not ask for, or has neither
\* resolved nor kept waiting, has left the flag set for the next pass; between two
\* passes such a port is up or past its fast retries, or a pass is asked for.
TracksInv ==
    \A p \in candidates \cap VmPorts :
        \/ dirty
        \/ /\ pc = "idle" => p \in devicesUp \/ misses[p] > FastRetryMisses
           /\ pc \in {"request", "reply"} => p \in devices
           /\ pc \in {"build", "apply", "save", "report", "finish"} =>
                p \in details \cup pending

\* The notification of a binding of p is on its way.
Awaited(p) == [kind |-> "update", port |-> p] \in msgs

\* From the report to the next pass, what is up is ACTIVE unless a pass is asked for or
\* about to be: a port that leaves the host and comes back is announced, and a service
\* port does not come back.
UpActiveInv ==
    /\ bound \cap gone = {}
    /\ (details \cup devicesUp) \cap ServicePorts \subseteq bound \cup gone
    /\ \A p \in bound :
          \/ dirty
          \/ Awaited(p)
          \/ /\ pc = "idle" /\ p \in devicesUp => status[p] = "ACTIVE"
             /\ pc = "finish" /\ p \in NowUp => status[p] = "ACTIVE"

\* While no event is lost, a bridge loses a member behind the agent's back only with an
\* event in the pipe or a pass asked for.
UpMembersInv ==
    \/ dirty
    \/ devd
    \/ /\ pc = "idle" => devicesUp \subseteq members
       /\ pc = "apply" => seenMembers \subseteq members
       /\ pc \in {"save", "report", "finish"} => NowUp \subseteq members

LEMMA TracksInvInductive == TypeOK /\ TracksInv /\ [Next]_vars => TracksInv'
<1> SUFFICES ASSUME TypeOK, TracksInv, [Next]_vars PROVE TracksInv'
  OBVIOUS
<1> USE DEF TracksInv
<1>1. CASE Pass
  <2>1. CASE \E force \in BOOLEAN : StartSync(force)
    BY <2>1 DEF StartSync
  <2>2. CASE Scan
    BY <2>2 DEF Scan, AskedFor
  <2>3. CASE \E failed \in SUBSET Ports : ServerReply(failed)
    BY <2>3 DEF ServerReply, memory
  <2>4. CASE HandleReply
    <3> SUFFICES ASSUME NEW p \in candidates' \cap VmPorts, ~dirty'
                 PROVE  p \in details' \cup pending'
      BY <2>4 DEF HandleReply
    <3>1. p \in devices
      BY <2>4 DEF HandleReply
    <3>2. QED
      BY <2>4, <3>1 DEF HandleReply, Missed
  <2>5. CASE Read \/ ApplyOk \/ Save \/ Report
    BY <2>5 DEF Read, ApplyOk, Save, Report, memory
  <2>6. CASE ApplyFail \/ Fail
    BY <2>6 DEF ApplyFail, Fail
  <2>7. CASE Finish
    <3> SUFFICES ASSUME NEW p \in candidates' \cap VmPorts, ~dirty'
                 PROVE  p \in devicesUp' \/ misses'[p] > FastRetryMisses
      BY <2>7 DEF Finish, EndPass
    <3>1. ~dirty /\ ~FastRetry
      BY <2>7 DEF Finish, DirtyAfterPass
    <3>2. p \in details \cup pending
      <4>1. p \in details \/ p \in candidates \/ p \in pending
        BY <2>7 DEF Finish, Rebuilt
      <4>2. QED
        BY <2>7, <3>1, <4>1 DEF Finish
    <3>3. CASE p \in details
      BY <2>7, <3>3 DEF Finish, NowUp
    <3>4. CASE p \in pending
      <4>1. misses[p] \in Nat
        BY DEF TypeOK, MemoryTypeOK, Ports
      <4>2. misses[p] > FastRetryMisses
        BY <3>1, <3>4, <4>1, LimitsAssumption DEF FastRetry
      <4>3. QED
        BY <2>7, <4>2 DEF Finish
    <3>5. QED
      BY <3>2, <3>3, <3>4
  <2>8. QED
    BY <1>1, <2>1, <2>2, <2>3, <2>4, <2>5, <2>6, <2>7 DEF Pass
<1>2. CASE Handle
  BY <1>2 DEF Handle, PortUpdate, BindingActivate, Track, PortDelete, MarkDirty, DevdEvent
<1>3. CASE Outside \/ UNCHANGED vars
  BY <1>3 DEF Outside, Announce, Bind, Unbind, DeletePort, EpairAppears, EpairVanishes,
              DevdLost, vars, memory, pass
<1>4. CASE Restart
  BY <1>4 DEF Restart
<1>5. QED
  BY <1>1, <1>2, <1>3, <1>4 DEF Next

\* No wake-up of the agent is missing: when it sleeps, a bound port that it tracks is up
\* or has used up its fast retries (agent.py:246-279).
THEOREM SleepsOnlyWhenTracked == Spec => []SettledTracksUp
<1>1. Init => TracksInv
  BY DEF Init, TracksInv
<1>2. TracksInv => SettledTracksUp
  BY DEF TracksInv, SettledTracksUp, Settled
<1>3. QED
  BY <1>1, <1>2, TypeCorrect, TracksInvInductive, PTL DEF Spec

LEMMA PassKeepsUpActive ==
    ASSUME TypeOK, UpActiveInv, Pass
    PROVE  UpActiveInv'
<1> USE DEF UpActiveInv
<1>1. CASE \E force \in BOOLEAN : StartSync(force)
  BY <1>1 DEF StartSync, server
<1>2. CASE Scan
  <2>1. details' = {}
    BY <1>2 DEF Scan, TypeOK, PassTypeOK
  <2>2. QED
    BY <1>2, <2>1 DEF Scan, server
<1>3. CASE \E failed \in SUBSET Ports : ServerReply(failed)
  <2>1. details' \subseteq bound /\ devicesUp' = devicesUp /\ UNCHANGED <<bound, gone>>
    BY <1>3 DEF ServerReply, memory
  <2>2. pc' = "reply"
    BY <1>3 DEF ServerReply
  <2>3. QED
    BY <2>1, <2>2
<1>4. CASE HandleReply \/ Read \/ ApplyOk
  BY <1>4 DEF HandleReply, Read, ApplyOk, memory, server
<1>5. CASE Save
  <2>1. pc' = "finish" => NowUp' = {}
    BY <1>5 DEF Save, NowUp
  <2>2. UNCHANGED <<memory, details, bound, gone, status, msgs>> /\ pc' # "idle"
    BY <1>5 DEF Save, server
  <2>3. QED
    BY <2>1, <2>2 DEF memory
<1>6. CASE Report
  <2>1. ASSUME NEW p \in bound', p \in NowUp' PROVE status'[p] = "ACTIVE"
    <3>1. p \in bound /\ p \in NowUp /\ p \in Ports
      BY <1>6, <2>1 DEF Report, NowUp, TypeOK, ServerTypeOK
    <3>2. QED
      BY <1>6, <3>1 DEF Report, ReportedUp
  <2>2. UNCHANGED <<memory, details, bound, gone, msgs>> /\ pc' # "idle"
    BY <1>6 DEF Report
  <2>3. QED
    BY <2>1, <2>2 DEF memory
<1>7. CASE ApplyFail \/ Fail
  BY <1>7 DEF ApplyFail, Fail, EndPass, server
<1>8. CASE Finish
  <2>1. devicesUp' = NowUp /\ details' = {} /\ NowUp \subseteq details
    BY <1>8 DEF Finish, EndPass, NowUp
  <2>2. UNCHANGED <<bound, gone, status, msgs>> /\ pc = "finish" /\ pc' = "idle"
    BY <1>8 DEF Finish, EndPass, server
  <2>3. dirty => dirty'
    BY <1>8 DEF Finish, DirtyAfterPass
  <2>4. \A p : Awaited(p)' <=> Awaited(p)
    BY <2>2 DEF Awaited
  <2>5. QED
    BY <2>1, <2>2, <2>3, <2>4
<1>9. QED
  BY <1>1, <1>2, <1>3, <1>4, <1>5, <1>6, <1>7, <1>8 DEF Pass

LEMMA OthersKeepUpActive ==
    ASSUME TypeOK, UpActiveInv, Handle \/ Outside \/ Restart
    PROVE  UpActiveInv'
<1> USE DEF UpActiveInv
<1>1. CASE Handle
  <2>1. dirty' /\ UNCHANGED <<devicesUp, details, bound, gone>>
    BY <1>1 DEF Handle, PortUpdate, BindingActivate, Track, PortDelete, MarkDirty,
                DevdEvent, pass, server
  <2>2. QED
    BY <2>1
<1>2. CASE \E p \in Ports : \E kind \in {"update", "activate"} : Announce(p, kind)
  BY <1>2 DEF Announce, Awaited, memory, pass, NowUp
<1>3. CASE \E p \in Ports : Bind(p)
  <2>1. PICK p \in Ports : Bind(p)
    BY <1>3
  <2>2. bound' = bound \cup {p} /\ p \notin bound /\ p \notin gone /\ gone' = gone
    BY <2>1 DEF Bind
  <2>3. UNCHANGED <<memory, pass, status>> /\ msgs \subseteq msgs'
    BY <2>1 DEF Bind
  <2>4. p \in VmPorts => Awaited(p)'
    BY <2>1 DEF Bind, Awaited
  <2>5. p \in ServicePorts => p \notin details /\ p \notin devicesUp
    BY <2>2
  <2>6. p \in VmPorts \/ p \in ServicePorts
    BY DEF Ports
  <2>7. NowUp' = NowUp /\ NowUp \subseteq details
    BY <2>3 DEF NowUp, pass
  <2>8. \A q : Awaited(q) => Awaited(q)'
    BY <2>3 DEF Awaited
  <2>9. QED
    BY <2>2, <2>3, <2>4, <2>5, <2>6, <2>7, <2>8 DEF memory, pass
<1>4. CASE \E p \in Ports : Unbind(p) \/ DeletePort(p)
  <2>1. PICK p \in Ports : Unbind(p) \/ DeletePort(p)
    BY <1>4
  <2>2. bound' = bound \ {p} /\ gone \subseteq gone' /\ gone' \subseteq gone \cup {p}
    BY <2>1 DEF Unbind, DeletePort
  <2>3. p \in ServicePorts => p \in gone'
    BY <2>1, PortsAssumption DEF Unbind, DeletePort
  <2>4. \A q \in bound' : status'[q] = status[q]
    BY <2>1, <2>2 DEF Unbind, DeletePort, TypeOK, ServerTypeOK
  <2>5. UNCHANGED <<memory, pass>> /\ msgs \subseteq msgs'
    BY <2>1 DEF Unbind, DeletePort
  <2>6. NowUp' = NowUp
    BY <2>5 DEF NowUp, pass
  <2>7. \A q : Awaited(q) => Awaited(q)'
    BY <2>5 DEF Awaited
  <2>8. (details \cup devicesUp)' \cap ServicePorts \subseteq bound' \cup gone'
    BY <2>2, <2>3, <2>5 DEF memory, pass
  <2>9. bound' \cap gone' = {}
    BY <2>2
  <2>10. QED
    BY <2>2, <2>4, <2>5, <2>6, <2>7, <2>8, <2>9 DEF memory, pass
<1>5. CASE \/ \E p \in Ports : EpairAppears(p) \/ EpairVanishes(p)
           \/ DevdLost
  BY <1>5 DEF EpairAppears, EpairVanishes, DevdLost, memory, pass, server, NowUp, Awaited
<1>6. CASE Restart
  BY <1>6 DEF Restart, EndPass
<1>7. QED
  BY <1>1, <1>2, <1>3, <1>4, <1>5, <1>6 DEF Outside

LEMMA UpMembersInvInductive ==
    ~DevdMayDrop /\ TypeOK /\ UpMembersInv /\ [Next]_vars => UpMembersInv'
<1> SUFFICES ASSUME ~DevdMayDrop, TypeOK, UpMembersInv, [Next]_vars PROVE UpMembersInv'
  OBVIOUS
<1> USE DEF UpMembersInv
<1>1. CASE Pass
  <2>1. CASE \E force \in BOOLEAN : StartSync(force)
    BY <2>1 DEF StartSync, host
  <2>2. CASE \/ Scan \/ HandleReply \/ Read
             \/ \E failed \in SUBSET Ports : ServerReply(failed)
    BY <2>2 DEF Scan, ServerReply, HandleReply, Read, memory, host
  <2>3. CASE ApplyOk
    <3>1. CASE dirty \/ devd
      BY <2>3, <3>1 DEF ApplyOk, memory
    <3>2. CASE ~dirty /\ ~devd
      <4>1. seenMembers \subseteq members
        BY <2>3, <3>2 DEF ApplyOk
      <4>2. NowUp \subseteq members'
        BY <2>3, <4>1 DEF ApplyOk, Adds, Removes, NowUp
      <4>3. NowUp' = NowUp
        BY <2>3 DEF ApplyOk, NowUp
      <4>4. QED
        BY <2>3, <4>2, <4>3 DEF ApplyOk
    <3>3. QED
      BY <3>1, <3>2
  <2>4. CASE Save \/ Report
    BY <2>4 DEF Save, Report, memory, host, NowUp
  <2>5. CASE ApplyFail \/ Fail
    BY <2>5 DEF ApplyFail, Fail
  <2>6. CASE Finish
    BY <2>6 DEF Finish, EndPass, DirtyAfterPass, host
  <2>7. QED
    BY <1>1, <2>1, <2>2, <2>3, <2>4, <2>5, <2>6 DEF Pass
<1>2. CASE Handle
  BY <1>2 DEF Handle, PortUpdate, BindingActivate, Track, PortDelete, MarkDirty, DevdEvent
<1>3. CASE \E p \in Ports : \/ \E kind \in {"update", "activate"} : Announce(p, kind)
                             \/ Bind(p) \/ Unbind(p) \/ DeletePort(p)
  BY <1>3 DEF Announce, Bind, Unbind, DeletePort, memory, pass, host, NowUp
<1>4. CASE \E p \in Ports : EpairAppears(p) \/ EpairVanishes(p)
  <2>1. CASE \E p \in Ports : EpairVanishes(p)
    BY <2>1 DEF EpairVanishes
  <2>2. CASE \E p \in Ports : EpairAppears(p)
    <3>1. devd => devd'
      BY <2>2 DEF EpairAppears
    <3>2. UNCHANGED <<memory, pass, members>>
      BY <2>2 DEF EpairAppears
    <3>3. NowUp' = NowUp
      BY <3>2 DEF NowUp, pass
    <3>4. QED
      BY <3>1, <3>2, <3>3 DEF memory, pass
  <2>3. QED
    BY <1>4, <2>1, <2>2
<1>5. CASE DevdLost \/ Restart
  BY <1>5 DEF DevdLost, Restart
<1>6. CASE UNCHANGED vars
  BY <1>6 DEF vars, memory, pass, host, NowUp
<1>7. QED
  BY <1>1, <1>2, <1>3, <1>4, <1>5, <1>6 DEF Next, Outside

\* When the agent sleeps, every bound port that it holds for up is ACTIVE at the server,
\* and a bridge member if no event was lost: whatever failed, left or came back while
\* its passes ran has left a pass to do (agent.py:264-270, 299-301).
THEOREM SleepsOnlyWhenUp == Spec => []SettledIsUp
<1>1. Spec => []UpActiveInv
  <2>1. Init => UpActiveInv
    BY DEF Init, UpActiveInv
  <2>2. TypeOK /\ UpActiveInv /\ [Next]_vars => UpActiveInv'
    <3>1. UpActiveInv /\ UNCHANGED vars => UpActiveInv'
      BY DEF UpActiveInv, Awaited, NowUp, vars, memory, pass, server
    <3>2. QED
      BY <3>1, PassKeepsUpActive, OthersKeepUpActive DEF Next
  <2>3. QED
    BY <2>1, <2>2, TypeCorrect, PTL DEF Spec
<1>2. TypeOK /\ UpActiveInv => (Settled => devicesUp \cap bound \subseteq ActivePorts)
  BY DEF UpActiveInv, Awaited, Settled, ActivePorts, TypeOK, MemoryTypeOK
<1>3. CASE DevdMayDrop
  <2>1. TypeOK /\ UpActiveInv => SettledIsUp
    BY <1>2, <1>3 DEF SettledIsUp
  <2>2. QED
    BY <1>1, <2>1, TypeCorrect, PTL
<1>4. CASE ~DevdMayDrop
  <2>1. Init => UpMembersInv
    BY DEF Init, UpMembersInv
  <2>2. UpMembersInv => (Settled => devicesUp \subseteq members)
    BY DEF UpMembersInv, Settled
  <2>3. TypeOK /\ UpActiveInv /\ UpMembersInv => SettledIsUp
    BY <1>2, <2>2 DEF SettledIsUp
  <2>4. TypeOK /\ UpMembersInv /\ [Next]_vars => UpMembersInv'
    BY <1>4, UpMembersInvInductive
  <2>5. QED
    BY <1>1, <2>1, <2>3, <2>4, TypeCorrect, PTL DEF Spec
<1>5. QED
  BY <1>3, <1>4

-----------------------------------------------------------------------------
(* The loop.                                                                *)

\* Every step of the agent is a step of SyncLoop or leaves the loop alone: a request
\* made while a pass runs outlives it, and a pass that fails makes one
\* (agent.py:281-303).  That passes end and begin is checked by TLC.
THEOREM LoopSafety == Spec => Loop!Init /\ [][Loop!Next]_(Loop!vars)
<1>1. Init => Loop!Init
  BY DEF Init, Loop!Init
<1>2. TypeOK /\ [Next]_vars => [Loop!Next]_(Loop!vars)
  <2> SUFFICES ASSUME TypeOK, [Next]_vars PROVE [Loop!Next]_(Loop!vars)
    OBVIOUS
  <2> USE DEF Loop!Next, Loop!vars
  <2>1. CASE \E force \in BOOLEAN : StartSync(force)
    BY <2>1 DEF StartSync, Loop!Begin
  <2>2. CASE \/ Scan \/ HandleReply \/ Read \/ ApplyOk \/ Save \/ Report
             \/ \E failed \in SUBSET Ports : ServerReply(failed)
    BY <2>2 DEF Scan, HandleReply, Read, ApplyOk, Save, Report, ServerReply, memory
  <2>3. CASE ApplyFail \/ Fail
    BY <2>3 DEF ApplyFail, Fail, EndPass, Loop!End
  <2>4. CASE Finish
    BY <2>4 DEF Finish, DirtyAfterPass, EndPass, Loop!End
  <2>5. CASE Handle
    BY <2>5 DEF Handle, PortUpdate, BindingActivate, Track, PortDelete, MarkDirty,
                DevdEvent, pass, Loop!Ask
  <2>6. CASE Outside
    BY <2>6 DEF Outside, Announce, Bind, Unbind, DeletePort, EpairAppears,
                EpairVanishes, DevdLost, memory, pass
  <2>7. CASE Restart
    BY <2>7 DEF Restart, EndPass, Loop!Restart
  <2>8. CASE UNCHANGED vars
    BY <2>8 DEF vars, memory, pass
  <2>9. QED
    BY <2>1, <2>2, <2>3, <2>4, <2>5, <2>6, <2>7, <2>8 DEF Next, Pass
<1>3. QED
  BY <1>1, <1>2, TypeCorrect, PTL DEF Spec
=============================================================================
