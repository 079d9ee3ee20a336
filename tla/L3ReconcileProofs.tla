--------------------------- MODULE L3ReconcileProofs ---------------------------
(***************************************************************************)
(* Theorems of the l3 agent's reconcile pass, for any routers, ports and   *)
(* answers of the server and any number of faults and changes by others.   *)
(***************************************************************************)
EXTENDS L3Reconcile, JailProofs

PortSteps == Making \cup {"epair", "addrs"}
RouterSteps == {"jail", "forwarding", "ports", "routes", "orders", "write", "enable", "load"}
                 \cup PortSteps
Collecting == {"destroy", "remove", "purge"}

\* Where the pass is, and that it has seen every jail there is.
StageInv ==
    /\ at \in RouterSteps => rtr \in Scheduled(goal)
    /\ at \in RouterSteps \cup {"routers"} => left \subseteq Scheduled(goal)
    /\ at = "remove" => left \cap Scheduled(goal) = {}
    /\ at \in PortSteps => port \in Ports(goal[rtr])
    /\ at \in PortSteps \cup {"ports"} => ports \subseteq Ports(goal[rtr])
    /\ at \notin PortSteps \cup {"ports"} => ports = {} /\ port = Null
    /\ at = "idle" => rtr = Null
    /\ at # "idle" => jail \subseteq seenJails

\* The part of TypeOK about pf.conf: it is written before it is loaded.
FilesInv == at \in {"enable", "load"} => file[rtr] = PfText(goal[rtr])

\* The kernel holds one route per destination, and what is to be deleted is not asked for.
RoutesInv ==
    /\ \A r \in Routers : \A x, y \in route[r] : x[1] = y[1] => x = y
    /\ at = "orders" => \A o \in orders : o.do = "delete" =>
          /\ <<o.dest, o.hop>> \notin Routes(goal[rtr])
          /\ \A x \in route[rtr] : x[1] = o.dest => x[2] = o.hop

\* TypeOK in parts.
PlaceTypes == PlaceTypeOK /\ desires \in Nat
InnerTypes ==
    /\ route \in [Routers -> SUBSET (Destinations \X NextHops \X Units)]
    /\ forwarding \subseteq jail /\ enabled \subseteq jail
    /\ \A r \in Routers : r \notin jail => route[r] = {} /\ pf[r] = NoFile
    /\ \A r \in Routers : \A x \in route[r] : jailEnd[x[3]] \in Within(r)
TextTypes == pf = [r \in Routers |-> pf[r]] /\ file = [r \in Routers |-> file[r]]

TypeInv == TypeOK /\ TextTypes /\ Tidy /\ StageInv /\ RoutesInv

\* A named epair is in the jail of its port or on the way there.
HomeInv ==
    \A u \in Units, i \in Ifs, j \in Jails :
        hostEnd[u] = i /\ jailEnd[u] \in Within(j) => j = InJail[i]
MakingHome(i) ==
    at \in {"namehost", "move", "namejail"} => \A u \in Units : u = unit =>
        /\ \A k \in Ifs : hostEnd[u] = k => k = i
        /\ \A j \in Jails : jailEnd[u] \in Within(j) => j = InJail[i]

PairsInv ==
    /\ EndsInv /\ HomeInv
    /\ at \in PortSteps => MakingInv(port.id) /\ MakingHome(port.id)

-----------------------------------------------------------------------------
(* A pass whose receipts are all ok.                                        *)

\* Router r has been brought to s, but for its routes.
Finished(r) == at \in RouterSteps \cup {"routers"} => r \notin left /\ (at = "routers" \/ r # rtr)

\* The jails there are, every epair that has a name, and what has still to be collected.
Surveyed ==
    /\ KnownIfs
    /\ at \notin {"remove", "purge"} => seenJails = jail
    /\ at = "remove" => jail \subseteq left \cup Scheduled(goal)
    /\ at = "purge" => jail \subseteq Scheduled(goal)
    /\ at \in {"remove", "purge"} => seenIfs \subseteq WantedIfs(goal)

\* How far the router is that the pass is at.
Made ==
    /\ at \in RouterSteps \ {"jail"} => rtr \in jail
    /\ at \in RouterSteps \ {"jail", "forwarding"} =>
          /\ rtr \in forwarding
          /\ complete
          /\ \A p \in Ports(goal[rtr]) \ ports :
                (at \in PortSteps => p # port) => Plumbed(rtr, goal[rtr], p)
    /\ at \in PortSteps => MadeSoFar(port.id)
    /\ at = "addrs" => Spans(port.id)
    /\ at = "orders" => orders = RouteOrders(Known(rtr), Routes(goal[rtr]))
    /\ at \in {"write", "enable", "load"} => Known(rtr) = Routes(goal[rtr])
    /\ at = "load" => rtr \in enabled

AllFinished ==
    \A r \in Scheduled(goal) : Finished(r) =>
        /\ Assembled(r, goal[r])
        /\ Known(r) \subseteq Routes(goal[r])
        /\ at \notin Collecting => Known(r) = Routes(goal[r])

Gone == at = "purge" => \A r \in Routers \ Scheduled(goal) : file[r] = NoFile

CleanInv ==
    ~failed /\ ~touched /\ at # "idle" => Surveyed /\ Made /\ AllFinished /\ Gone

KeptInv == TypeInv /\ PairsInv

-----------------------------------------------------------------------------
\* What the specs of a pass ask of a router.
LEMMA GoalFacts ==
    ASSUME goal \in Goals, NEW r \in Scheduled(goal)
    PROVE  /\ r \in Routers
           /\ \A p \in Ports(goal[r]) :
                 /\ p.id \in Ifs /\ InJail[p.id] = r /\ p.id \in WantedIfs(goal)
                 /\ AddressOf(goal[r], p) \in Addresses
           /\ \A p, q \in Ports(goal[r]) : p.id = q.id => p = q
           /\ Routes(goal[r]) \subseteq Destinations \X NextHops
           /\ \A x, y \in Routes(goal[r]) : x[1] = y[1] => x = y
  <1>1. r \in Routers
    BY DEF Scheduled
  <1>2. \A p \in Ports(goal[r]) :
            /\ p.id \in Ifs /\ InJail[p.id] = r
            /\ AddressOf(goal[r], p) \in Addresses
            /\ \A q \in Ports(goal[r]) : p.id = q.id => p = q
    BY PortsAssumption
  <1>3. \A p \in Ports(goal[r]) : p.id \in WantedIfs(goal)
    BY DEF WantedIfs
  <1>4. /\ Routes(goal[r]) \subseteq Destinations \X NextHops
        /\ \A x, y \in Routes(goal[r]) : x[1] = y[1] => x = y
    BY RoutesAssumption
  <1> QED BY <1>1, <1>2, <1>3, <1>4

LEMMA Unfold ==
    /\ UNCHANGED plane <=> UNCHANGED <<jail, hostEnd, jailEnd, addr, mangled>>
    /\ UNCHANGED seen <=> UNCHANGED <<seenJails, seenIfs>>
    /\ UNCHANGED inner <=> UNCHANGED <<route, forwarding, enabled, pf>>
    /\ UNCHANGED rest <=> UNCHANGED <<want, desires, others, touched>>
    /\ UNCHANGED passVars <=> UNCHANGED <<at, unit, seenJails, seenIfs, failed, goal, left, rtr,
                                          ports, port, complete, orders>>
  BY DEF plane, epairs, seen, inner, rest, passVars

LEMMA FollowMeans ==
    Follow <=> route' = [r \in Routers |-> {x \in route[r] : jailEnd'[x[3]] \in Within(r)}]
  BY DEF Follow, Within

\* Where no jail end moves every route stays.
LEMMA FollowStays ==
    ASSUME InnerTypes, Follow, jailEnd' = jailEnd
    PROVE  route' = route
  <1>1. \A r \in Routers : {x \in route[r] : jailEnd'[x[3]] \in Within(r)} = route[r]
    BY DEF InnerTypes
  <1>2. route = [r \in Routers |-> route[r]]
    BY DEF InnerTypes
  <1> QED BY <1>1, <1>2, FollowMeans

LEMMA TypesInParts ==
    /\ TypeOK <=> JailTypeOK /\ PlaceTypes /\ FilesInv /\ InnerTypes
    /\ TypeOK' <=> JailTypeOK' /\ PlaceTypes' /\ FilesInv' /\ InnerTypes'
  BY DEF TypeOK, PlaceTypes, FilesInv, InnerTypes, Within

\* One command of ensure_epair or ensure_addrs.
LEMMA PlumbSteps ==
    ASSUME TypeOK, StageInv, Plumb
    PROVE  /\ rtr \in Scheduled(goal) /\ port \in Ports(goal[rtr]) /\ at \in PortSteps
           /\ \/ /\ EpairStep(port.id, "ports") /\ Follow
                 /\ complete' = (complete /\ at' # "ports")
              \/ /\ AddrStep(port.id, AddressOf(goal[rtr], port), "ports")
                 /\ UNCHANGED complete
                 /\ \/ UNCHANGED route
                    \/ /\ addr' # addr
                       /\ route' = [route EXCEPT ![rtr] = {x \in @ : addr'[x[3]] = addr[x[3]]}]
           /\ UNCHANGED <<goal, left, rtr, ports, port, orders, forwarding, enabled, pf, file>>
           /\ UNCHANGED <<want, desires, others, touched>>
  <1>1. at \in PortSteps
    BY DEF Plumb, EnsureEpair, EpairThere, DestroyBrokenEpair, DestroyBrokenJailIf, NoEpair,
           CreateEpair, NameHostIf, MoveJailIf, NameJailIf, LookAgain, EnsureAddrs, PortSteps,
           Making
  <1>2. rtr \in Scheduled(goal) /\ port \in Ports(goal[rtr])
    BY <1>1 DEF StageInv, RouterSteps
  <1>3. port.id \in Ifs /\ JailTypeOK
    BY <1>2, GoalFacts DEF TypeOK, PlaceTypeOK
  <1>4. UNCHANGED <<want, desires, others, touched>>
    BY Unfold DEF Plumb
  <1> QED BY <1>1, <1>2, <1>3, <1>4, EpairSteps, AddrSteps DEF Plumb

\* ... or of ensure_jail.
LEMMA EnsureJailSteps ==
    ASSUME TypeOK, StageInv, EnsureJail
    PROVE  /\ rtr \in Scheduled(goal) /\ rtr \in Routers /\ at = "jail"
           /\ JailStep(rtr, "forwarding", "routers") /\ KernelFollows
           /\ UNCHANGED <<goal, left, rtr, ports, port, complete, orders, file>>
           /\ UNCHANGED <<want, desires, others, touched>>
  <1>1. at = "jail"
    BY DEF EnsureJail, JailSeen, CreateJail
  <1>2. rtr \in Scheduled(goal) /\ rtr \in Jails /\ JailTypeOK
    BY <1>1 DEF StageInv, RouterSteps, TypeOK, Scheduled, Routers
  <1>3. UNCHANGED <<want, desires, others, touched>>
    BY Unfold DEF EnsureJail
  <1> QED BY <1>1, <1>2, <1>3, JailSteps DEF EnsureJail, Routers

LEMMA JailNext ==
    ASSUME TypeInv, Next
    PROVE  JailTypeOK' /\ Tidy'
  <1>t. JailTypeOK /\ Tidy /\ TypeOK /\ StageInv /\ goal \in Goals
    BY DEF TypeInv, TypeOK, PlaceTypeOK
  <1>f. Fault => faults' \in Nat
    BY <1>t, FaultsCount
  <1>0. ASSUME UNCHANGED <<jail, hostEnd, jailEnd, addr, mangled>>,
               unit' \in {unit, Nowhere}, seenJails' \subseteq Jails, seenIfs' \subseteq Ifs,
               failed' \in {failed, TRUE, FALSE}, touched' \in {touched, FALSE},
               others' = others, faults' = faults \/ Fault
        PROVE  JailTypeOK' /\ Tidy'
    <2>1. failed' \in BOOLEAN /\ touched' \in BOOLEAN
      BY <1>0, <1>t DEF JailTypeOK
    <2>2. faults' \in Nat
      BY <1>0, <1>t, <1>f DEF JailTypeOK
    <2>3. JailTypeOK'
      BY <1>0, <1>t, <2>1, <2>2 DEF JailTypeOK
    <2>4. Tidy'
      BY <1>0, <1>t DEF Tidy
    <2> QED BY <2>3, <2>4
  <1>1. ASSUME StartPass PROVE JailTypeOK' /\ Tidy'
    BY <1>0, <1>1, <1>t, Unfold DEF StartPass, JailTypeOK
  <1>2. ASSUME \/ (\E r \in Routers : NextRouter(r)) \/ (\E p \in ports : NextPort(p))
               \/ PortsDone \/ ReadRoutes \/ OrdersDone \/ WritePf \/ StartCollect
               \/ StartRemove \/ RemoveState
        PROVE  JailTypeOK' /\ Tidy'
    <2>1. UNCHANGED <<jail, hostEnd, jailEnd, addr, mangled, unit, seenJails, seenIfs, touched,
                      others>>
      BY <1>2, Unfold DEF NextRouter, NextPort, PortsDone, ReadRoutes, OrdersDone, WritePf,
             StartCollect, StartRemove, RemoveState
    <2>2. failed' \in {failed, TRUE} /\ (faults' = faults \/ Fault)
      BY <1>2 DEF NextRouter, NextPort, PortsDone, ReadRoutes, OrdersDone, WritePf,
             StartCollect, StartRemove, RemoveState
    <2> QED BY <2>1, <2>2, <1>0, <1>t DEF JailTypeOK
  <1>3. ASSUME EnableForwarding \/ (\E o \in orders : GiveOrder(o)) \/ EnablePf \/ LoadPf
        PROVE  JailTypeOK' /\ Tidy'
    <2>1. UNCHANGED <<jail, hostEnd, jailEnd, addr, mangled, unit, seenJails, seenIfs, touched,
                      others>>
      BY <1>3, Unfold DEF EnableForwarding, GiveOrder, EnablePf, LoadPf
    <2>2. failed' \in {failed, TRUE} /\ (faults' = faults \/ Fault)
      BY <1>3 DEF EnableForwarding, GiveOrder, EnablePf, LoadPf, Exec, DeleteRoute, AddRoute
    <2> QED BY <2>1, <2>2, <1>0, <1>t DEF JailTypeOK
  <1>4. ASSUME EnsureJail PROVE JailTypeOK' /\ Tidy'
    <2>1. rtr \in Jails /\ JailStep(rtr, "forwarding", "routers") /\ UNCHANGED <<others, touched>>
      BY <1>4, <1>t, EnsureJailSteps DEF Routers
    <2>2. JailTypeOK'
      BY <2>1, <1>t, JailStepTypes
    <2>3. Tidy'
      BY <2>1, <1>t DEF JailStep, Tidy
    <2> QED BY <2>2, <2>3
  <1>5. ASSUME Plumb PROVE JailTypeOK' /\ Tidy'
    <2>0. UNCHANGED <<others, touched>>
      BY <1>5, <1>t, PlumbSteps
    <2>i. PICK i, a : /\ i \in Ifs /\ i = port.id
                      /\ a \in Addresses /\ a = AddressOf(goal[rtr], port)
      BY <1>5, <1>t, PlumbSteps, GoalFacts
    <2>1. CASE EpairStep(i, "ports")
      BY <2>0, <2>1, <2>i, <1>t, EpairTypes, EpairTidy
    <2>2. CASE AddrStep(i, a, "ports")
      <3>1. JailTypeOK'
        BY <2>0, <2>2, <2>i, <1>t, AddrTypes
      <3>2. Tidy'
        BY <2>2, <1>t DEF AddrStep, Tidy
      <3> QED BY <3>1, <3>2
    <2> QED BY <2>1, <2>2, <2>i, <1>5, <1>t, PlumbSteps
  <1>6. ASSUME DestroyUndesired PROVE JailTypeOK' /\ Tidy'
    <2>1. PICK i \in Ifs : DestroyEpair(i)
      BY <1>6, <1>t DEF DestroyUndesired, UndesiredIfs, JailTypeOK
    <2>2. EpairGoes(i) /\ UNCHANGED <<others, touched>>
      BY <2>1, <1>6, <1>t, EpairGoesSteps, Unfold DEF DestroyUndesired
    <2> QED BY <2>2, <1>t, EpairGoesKeeps
  <1>7. ASSUME NEW j \in Routers, RemoveJail(j) PROVE JailTypeOK' /\ Tidy'
    <2>0. UNCHANGED <<others, touched, unit, seenJails, seenIfs>> /\ j \in Jails
      BY <1>7, Unfold DEF RemoveJail, Routers
    <2>1. CASE JailGoes(j) /\ UNCHANGED <<failed, faults>>
      <3>1. KernelTypes' /\ Tidy'
        BY <2>0, <2>1, <1>t, GoneTypes, JailGoesKeeps
      <3> QED BY <3>1, <2>0, <2>1, <1>t DEF KernelTypes, JailTypeOK
    <2>2. CASE /\ failed' = TRUE /\ UNCHANGED plane
               /\ IF j \in jail THEN Fault ELSE UNCHANGED faults
      BY <1>0, <2>0, <2>2, <1>t, Unfold DEF JailTypeOK
    <2> QED BY <1>7, <2>1, <2>2 DEF RemoveJail
  <1>8. ASSUME EndPass \/ Crash PROVE JailTypeOK' /\ Tidy'
    BY <1>0, <1>8, <1>t, Unfold DEF EndPass, Crash, Forgotten, JailTypeOK
  <1>9. ASSUME Reboot PROVE JailTypeOK' /\ Tidy'
    <2>1. KernelTypes' /\ Tidy'
      BY <1>9, <1>t, RebootKeeps DEF Reboot
    <2>2. /\ unit' = Nowhere /\ seenJails' = {} /\ seenIfs' = {} /\ failed' = FALSE
          /\ touched' = FALSE /\ others' = others
      BY <1>9 DEF Reboot, Forgotten
    <2>3. faults' \in Nat
      BY <1>9, <1>f DEF Reboot
    <2> QED BY <2>1, <2>2, <2>3, <1>t DEF KernelTypes, JailTypeOK
  <1>10. ASSUME NEW g \in Goals, Desire(g) PROVE JailTypeOK' /\ Tidy'
    BY <1>0, <1>10, <1>t, Unfold DEF Desire, JailTypeOK
  <1>11. ASSUME NEW r \in Routers, OperatorMeddles(r) PROVE JailTypeOK' /\ Tidy'
    <2>1. /\ UNCHANGED <<jail, hostEnd, jailEnd, addr, mangled>> /\ Other
          /\ UNCHANGED <<unit, seenJails, seenIfs, failed, faults>>
      BY <1>11, Unfold DEF OperatorMeddles
    <2> QED BY <2>1, <1>t, OtherFacts DEF JailTypeOK, Tidy
  <1>12. ASSUME NEW j \in Routers, OperatorRemovesJail(j) PROVE JailTypeOK' /\ Tidy'
    <2>1. /\ JailGoes(j) /\ Other /\ j \in Jails
          /\ UNCHANGED <<unit, seenJails, seenIfs, failed, faults>>
      BY <1>12, Unfold DEF OperatorRemovesJail, Routers
    <2>2. KernelTypes' /\ Tidy'
      BY <2>1, <1>t, GoneTypes, JailGoesKeeps
    <2> QED BY <2>1, <2>2, <1>t, OtherFacts DEF KernelTypes, JailTypeOK
  <1>13. ASSUME NEW i \in Ifs, OperatorTouchesEpair(i) PROVE JailTypeOK' /\ Tidy'
    BY <1>13, <1>t, OperatorKeeps DEF OperatorTouchesEpair
  <1> QED BY <1>1, <1>2, <1>3, <1>4, <1>5, <1>6, <1>7, <1>8, <1>9, <1>10, <1>11, <1>12,
             <1>13 DEF Next, Pass, Others

-----------------------------------------------------------------------------
(* Where the pass is.                                                       *)

LEMMA KnownMeans ==
    ASSUME InnerTypes, NEW r \in Routers
    PROVE  /\ Known(r) \subseteq Destinations \X NextHops
           /\ \A d, h : <<d, h>> \in Known(r) <=>
                \E u \in Units : <<d, h, u>> \in route[r]
  <1>1. route[r] \subseteq Destinations \X NextHops \X Units
    BY DEF InnerTypes
  <1>2. \A x \in route[r] : /\ x[1] \in Destinations /\ x[2] \in NextHops /\ x[3] \in Units
                            /\ x = <<x[1], x[2], x[3]>>
    BY <1>1
  <1>3. Known(r) \subseteq Destinations \X NextHops
    BY <1>2 DEF Known
  <1>4. ASSUME NEW d, NEW h, <<d, h>> \in Known(r)
        PROVE  \E u \in Units : <<d, h, u>> \in route[r]
    <2>1. PICK x \in route[r] : <<d, h>> = <<x[1], x[2]>>
      BY <1>4 DEF Known
    <2> QED BY <2>1, <1>2
  <1>5. ASSUME NEW d, NEW h, NEW u \in Units, <<d, h, u>> \in route[r]
        PROVE  <<d, h>> \in Known(r)
    BY <1>5 DEF Known
  <1> QED BY <1>3, <1>4, <1>5

LEMMA OrdersTyped ==
    ASSUME TypeOK, NEW r \in Scheduled(goal)
    PROVE  RouteOrders(Known(r), Routes(goal[r])) \subseteq Orders
  <1>1. /\ Known(r) \subseteq Destinations \X NextHops
        /\ Routes(goal[r]) \subseteq Destinations \X NextHops
    BY GoalFacts, KnownMeans, TypesInParts DEF PlaceTypes, PlaceTypeOK
  <1>2. \A x \in Known(r) \cup Routes(goal[r]) : x[1] \in Destinations /\ x[2] \in NextHops
    BY <1>1
  <1> QED BY <1>2 DEF RouteOrders, Orders

LEMMA PlaceNext ==
    ASSUME TypeInv, Next
    PROVE  PlaceTypes' /\ StageInv'
  <1>t. /\ TypeOK /\ PlaceTypes /\ StageInv /\ goal \in Goals /\ want \in Goals
        /\ seenJails \subseteq Jails
    BY TypesInParts DEF TypeInv, TypeOK, JailTypeOK, PlaceTypeOK
  <1> USE DEF PlaceTypes, PlaceTypeOK, StageInv, Steps, RouterSteps, PortSteps, Making
  <1>1. ASSUME StartPass PROVE PlaceTypes' /\ StageInv'
    BY <1>1, <1>t, Unfold DEF StartPass, Scheduled
  <1>2. ASSUME NEW r \in Routers, NextRouter(r) PROVE PlaceTypes' /\ StageInv'
    BY <1>2, <1>t, Unfold DEF NextRouter
  <1>3. ASSUME EnsureJail PROVE PlaceTypes' /\ StageInv'
    BY <1>3, <1>t, EnsureJailSteps DEF JailStep
  <1>4. ASSUME EnableForwarding PROVE PlaceTypes' /\ StageInv'
    BY <1>4, <1>t, Unfold DEF EnableForwarding
  <1>5. ASSUME NEW p \in ports, NextPort(p) PROVE PlaceTypes' /\ StageInv'
    BY <1>5, <1>t, Unfold DEF NextPort
  <1>6. ASSUME Plumb PROVE PlaceTypes' /\ StageInv'
    <2>0. /\ rtr \in Scheduled(goal) /\ port \in Ports(goal[rtr]) /\ at \in PortSteps
          /\ UNCHANGED <<goal, left, rtr, ports, port, orders, want, desires>>
      BY <1>6, <1>t, PlumbSteps
    <2>1. complete' \in BOOLEAN
      BY <1>6, <1>t, PlumbSteps, Zenon
    <2>2. /\ at' \in {"addrs", "create", "namehost", "move", "namejail", "named", "ports"}
          /\ jail' = jail /\ seenJails' = seenJails
      <3>1. CASE EpairStep(port.id, "ports")
        BY <3>1 DEF EpairStep, Looked, Cleared, Created, HostNamed, Moved, JailNamed, Found
      <3>2. CASE AddrStep(port.id, AddressOf(goal[rtr], port), "ports")
        BY <3>2 DEF AddrStep
      <3> QED BY <3>1, <3>2, <1>6, <1>t, PlumbSteps
    <2> QED BY <2>0, <2>1, <2>2, <1>t
  <1>7. ASSUME PortsDone \/ OrdersDone \/ WritePf PROVE PlaceTypes' /\ StageInv'
    BY <1>7, <1>t, Unfold DEF PortsDone, OrdersDone, WritePf
  <1>8. ASSUME ReadRoutes PROVE PlaceTypes' /\ StageInv'
    <2>1. orders' \subseteq Orders
      BY <1>8, <1>t, OrdersTyped DEF ReadRoutes
    <2> QED BY <2>1, <1>8, <1>t, Unfold DEF ReadRoutes
  <1>9. ASSUME NEW o \in orders, GiveOrder(o) PROVE PlaceTypes' /\ StageInv'
    BY <1>9, <1>t, Unfold DEF GiveOrder
  <1>10. ASSUME EnablePf \/ LoadPf PROVE PlaceTypes' /\ StageInv'
    <2>1. /\ at \in {"enable", "load"} /\ at' \in {"load", "routers"} /\ rtr' \in {rtr, Null}
          /\ at' = "load" => rtr' = rtr
          /\ UNCHANGED <<jail, seenJails, goal, left, ports, port, complete, orders, want, desires>>
      BY <1>10, Unfold DEF EnablePf, LoadPf
    <2> QED BY <2>1, <1>t
  <1>11. ASSUME StartCollect \/ StartRemove \/ RemoveState PROVE PlaceTypes' /\ StageInv'
    BY <1>11, <1>t, Unfold DEF StartCollect, StartRemove, RemoveState, Undesired, Routers
  <1>12. ASSUME DestroyUndesired PROVE PlaceTypes' /\ StageInv'
    <2>1. /\ at = "destroy" /\ UNCHANGED <<at, jail, seenJails, goal, left, rtr, ports, port,
                                           complete, orders, want, desires>>
      BY <1>12, Unfold DEF DestroyUndesired, DestroyEpair, Do, Destroy
    <2> QED BY <2>1, <1>t
  <1>13. ASSUME NEW j \in Routers, RemoveJail(j) PROVE PlaceTypes' /\ StageInv'
    <2>1. jail' \subseteq jail
      BY <1>13, Unfold DEF RemoveJail, JailGoes
    <2> QED BY <2>1, <1>13, <1>t, Unfold DEF RemoveJail
  <1>14. ASSUME EndPass \/ Crash \/ Reboot PROVE PlaceTypes' /\ StageInv'
    BY <1>14, <1>t DEF EndPass, Crash, Reboot, Forgotten
  <1>15. ASSUME NEW g \in Goals, Desire(g) PROVE PlaceTypes' /\ StageInv'
    BY <1>15, <1>t, Unfold DEF Desire
  <1>16. ASSUME NEW r \in Routers, OperatorMeddles(r) PROVE PlaceTypes' /\ StageInv'
    BY <1>16, <1>t, Unfold DEF OperatorMeddles
  <1>17. ASSUME NEW j \in Routers, OperatorRemovesJail(j) PROVE PlaceTypes' /\ StageInv'
    <2>1. jail' \subseteq jail
      BY <1>17 DEF OperatorRemovesJail, JailGoes
    <2> QED BY <2>1, <1>17, <1>t, Unfold DEF OperatorRemovesJail
  <1>18. ASSUME NEW i \in Ifs, OperatorTouchesEpair(i) PROVE PlaceTypes' /\ StageInv'
    <2>1. UNCHANGED <<jail, at, unit, seenJails>>
      BY <1>18, Unfold DEF OperatorTouchesEpair, OperatorDestroysEpair, OperatorMangles
    <2> QED BY <2>1, <1>18, <1>t, Unfold DEF OperatorTouchesEpair
  <1> QED BY <1>1, <1>2, <1>3, <1>4, <1>5, <1>6, <1>7, <1>8, <1>9, <1>10, <1>11, <1>12,
             <1>13, <1>14, <1>15, <1>16, <1>17, <1>18 DEF Next, Pass, Others

-----------------------------------------------------------------------------
(* Inside the jails.                                                        *)

OneRoute == \A r \in Routers : \A x, y \in route[r] : x[1] = y[1] => x = y
Deletable(o) ==
    /\ <<o.dest, o.hop>> \notin Routes(goal[rtr])
    /\ \A x \in route[rtr] : x[1] = o.dest => x[2] = o.hop
DeletesInv == at = "orders" => \A o \in orders : o.do = "delete" => Deletable(o)

LEMMA RoutesInParts ==
    /\ RoutesInv <=> OneRoute /\ DeletesInv
    /\ RoutesInv' <=> OneRoute' /\ DeletesInv'
  BY DEF RoutesInv, OneRoute, DeletesInv, Deletable

\* What jails have in them may go at any time, and goes with its jail.
Wanes ==
    /\ \A r \in Routers : route'[r] \subseteq route[r]
    /\ \A r \in Routers : \A x \in route'[r] : jailEnd'[x[3]] \in Within(r)
    /\ route' = [r \in Routers |-> route'[r]]
    /\ forwarding' \subseteq forwarding \cap jail' /\ enabled' \subseteq enabled \cap jail'
    /\ \A r \in Routers : pf'[r] \in {pf[r], NoFile}
    /\ \A r \in Routers \ jail' : r \notin jail \/ (route'[r] = {} /\ pf'[r] = NoFile)
    /\ pf' = [r \in Routers |-> pf'[r]]

LEMMA WanesKeeps ==
    ASSUME InnerTypes, OneRoute, Wanes
    PROVE  InnerTypes' /\ OneRoute'
  <1>1. \A r \in Routers : r \notin jail' => route'[r] = {} /\ pf'[r] = NoFile
    BY DEF InnerTypes, Wanes
  <1>2. route' \in [Routers -> SUBSET (Destinations \X NextHops \X Units)]
    BY DEF InnerTypes, Wanes
  <1>3. InnerTypes'
    BY <1>1, <1>2 DEF InnerTypes, Wanes, Within
  <1>4. OneRoute'
    BY DEF OneRoute, Wanes
  <1> QED BY <1>3, <1>4

LEMMA FollowWanes ==
    ASSUME InnerTypes, pf = [r \in Routers |-> pf[r]], Follow, jail' = jail,
           UNCHANGED <<forwarding, enabled, pf>>
    PROVE  Wanes
  <1>1. route' = [r \in Routers |-> {x \in route[r] : jailEnd'[x[3]] \in Within(r)}]
    BY FollowMeans
  <1>2. \A r \in Routers : route'[r] = {x \in route[r] : jailEnd'[x[3]] \in Within(r)}
    BY <1>1
  <1>3. route' = [r \in Routers |-> route'[r]]
    BY <1>1
  <1> QED BY <1>2, <1>3 DEF InnerTypes, Wanes

LEMMA KernelWanes ==
    ASSUME InnerTypes, pf = [r \in Routers |-> pf[r]], KernelFollows,
           \A r \in Routers \ jail' : r \notin jail \/ \A u \in Units : jailEnd'[u] \notin Within(r)
    PROVE  Wanes
  <1>1. route' = [r \in Routers |-> {x \in route[r] : jailEnd'[x[3]] \in Within(r)}]
    BY FollowMeans DEF KernelFollows
  <1>2. \A r \in Routers : route'[r] = {x \in route[r] : jailEnd'[x[3]] \in Within(r)}
    BY <1>1
  <1>3. route' = [r \in Routers |-> route'[r]]
    BY <1>1
  <1>4. /\ forwarding' = forwarding \cap jail' /\ enabled' = enabled \cap jail'
        /\ pf' = [r \in Routers |-> IF r \in jail' THEN pf[r] ELSE NoFile]
    BY DEF KernelFollows, JailTakesAll
  <1>5. \A r \in Routers : pf'[r] = (IF r \in jail' THEN pf[r] ELSE NoFile)
    BY <1>4
  <1>6. pf' = [r \in Routers |-> pf'[r]]
    BY <1>4
  <1>7. \A r \in Routers \ jail' : r \notin jail \/ route'[r] = {}
    <2>1. \A r \in Routers : route[r] \subseteq Destinations \X NextHops \X Units
      BY DEF InnerTypes
    <2> QED BY <1>2, <2>1
  <1> QED BY <1>2, <1>3, <1>4, <1>5, <1>6, <1>7 DEF Wanes

\* When a jail goes, or all of them, nothing is left in it.
LEMMA GoneWanes ==
    ASSUME InnerTypes, pf = [r \in Routers |-> pf[r]], KernelFollows,
           \/ \E j \in Routers : JailGoes(j)
           \/ jail' = {} /\ Destroy(Units)
    PROVE  Wanes
  <1>p. \A j \in Routers : Host \notin Within(j) /\ Nowhere \notin Within(j)
    BY EndsAssumption DEF Within, Routers
  <1>1. ASSUME NEW j \in Routers, JailGoes(j)
        PROVE  \A r \in Routers \ jail' :
                  r \notin jail \/ \A u \in Units : jailEnd'[u] \notin Within(r)
    <2>1. /\ jail' = jail \ {j}
          /\ \A u \in Units : jailEnd'[u] = (IF jailEnd[u] \in Within(j) THEN Host ELSE jailEnd[u])
      BY <1>1 DEF JailGoes, Within
    <2> QED BY <2>1, <1>p
  <1>2. ASSUME jail' = {}, Destroy(Units)
        PROVE  \A r \in Routers \ jail' :
                  r \notin jail \/ \A u \in Units : jailEnd'[u] \notin Within(r)
    BY <1>2, <1>p DEF Destroy
  <1> QED BY <1>1, <1>2, KernelWanes

\* A route as a triple.
LEMMA OneMore ==
    ASSUME NEW d \in Destinations, NEW h \in NextHops, NEW u \in Units
    PROVE  \E e \in Destinations \X NextHops \X Units :
              e = <<d, h, u>> /\ e[1] = d /\ e[3] = u
  <1>1. <<d, h, u>> \in Destinations \X NextHops \X Units
    OBVIOUS
  <1>2. <<d, h, u>>[1] = d /\ <<d, h, u>>[3] = u
    OBVIOUS
  <1> QED BY <1>1, <1>2

\* Texts change only where they are written and loaded, and routes are added only when
\* there is nothing left to delete.
LEMMA InnerNext ==
    ASSUME TypeInv, Next
    PROVE  InnerTypes' /\ TextTypes' /\ FilesInv' /\ RoutesInv'
  <1>t. /\ TypeOK /\ InnerTypes /\ TextTypes /\ FilesInv /\ OneRoute /\ DeletesInv /\ StageInv
        /\ JailTypeOK /\ goal \in Goals /\ pf = [r \in Routers |-> pf[r]]
        /\ file = [r \in Routers |-> file[r]]
    BY TypesInParts, RoutesInParts DEF TypeInv, TypeOK, PlaceTypeOK, TextTypes
  <1>r. at \in RouterSteps => rtr \in Routers
    BY <1>t, GoalFacts DEF StageInv
  <1> DEFINE Goal == InnerTypes' /\ TextTypes' /\ FilesInv' /\ RoutesInv'
  \* Nothing is added.
  <1>0. ASSUME Wanes, file' = file,
               at' \notin {"enable", "load", "orders"} \/
                 (UNCHANGED <<at, rtr, goal>> /\ orders' \subseteq orders)
        PROVE  Goal
    <2>1. InnerTypes' /\ OneRoute'
      BY <1>0, <1>t, WanesKeeps
    <2>2. TextTypes'
      BY <1>0, <1>t DEF Wanes, TextTypes
    <2>3. FilesInv'
      BY <1>0, <1>t DEF FilesInv
    <2>4. DeletesInv'
      BY <1>0, <1>t, <1>r DEF DeletesInv, Deletable, Wanes, RouterSteps
    <2> QED BY <2>1, <2>2, <2>3, <2>4, RoutesInParts
  <1>q. ASSUME UNCHANGED <<route, forwarding, enabled, pf, jail, jailEnd>> PROVE Wanes
    <2>1. route' = [r \in Routers |-> route'[r]]
      BY <1>q, <1>t DEF InnerTypes
    <2> QED BY <2>1, <1>q, <1>t DEF InnerTypes, Wanes
  <1>1. ASSUME \/ StartPass \/ (\E r \in Routers : NextRouter(r))
               \/ (\E p \in ports : NextPort(p)) \/ PortsDone
               \/ StartCollect \/ StartRemove \/ EndPass \/ Crash
               \/ \E g \in Goals : Desire(g)
        PROVE  Goal
    <2>1. UNCHANGED <<route, forwarding, enabled, pf, jail, jailEnd>>
      BY <1>1, Unfold DEF StartPass, NextRouter, NextPort, PortsDone, StartCollect,
             StartRemove, EndPass, Crash, Desire
    <2>2. file' = file
      BY <1>1 DEF StartPass, NextRouter, NextPort, PortsDone, StartCollect,
             StartRemove, EndPass, Crash, Desire
    <2>3. at' \notin {"enable", "load", "orders"} \/ UNCHANGED <<at, rtr, goal, orders>>
      BY <1>1 DEF StartPass, NextRouter, NextPort, PortsDone, StartCollect,
             StartRemove, EndPass, Crash, Desire, Forgotten
    <2> QED BY <2>1, <2>2, <2>3, <1>q, <1>0
  <1>2. ASSUME OrdersDone PROVE Goal
    <2>1. UNCHANGED <<route, forwarding, enabled, pf, jail, jailEnd>> /\ file' = file
          /\ at' = "write"
      BY <1>2, Unfold DEF OrdersDone
    <2> QED BY <2>1, <1>q, <1>0
  <1>3. ASSUME EnsureJail PROVE Goal
    <2>1. /\ at' \in {"forwarding", "routers"} /\ file' = file /\ KernelFollows
          /\ jail \subseteq jail'
      BY <1>3, <1>t, EnsureJailSteps DEF JailStep
    <2>2. Wanes
      BY <2>1, <1>t, KernelWanes
    <2> QED BY <2>1, <2>2, <1>0
  <1>4. ASSUME Plumb PROVE Goal
    <2>0. /\ rtr \in Routers
          /\ UNCHANGED <<forwarding, enabled, pf, file>>
      BY <1>4, <1>t, PlumbSteps, GoalFacts
    <2>1. CASE EpairStep(port.id, "ports") /\ Follow
      <3>1. jail' = jail /\ at' \notin {"enable", "load", "orders"}
        BY <2>1 DEF EpairStep, Looked, Cleared, Created, HostNamed, Moved, JailNamed, Found
      <3>2. Wanes
        BY <3>1, <2>0, <2>1, <1>t, FollowWanes
      <3> QED BY <3>1, <3>2, <2>0, <1>0
    <2>2. CASE /\ AddrStep(port.id, AddressOf(goal[rtr], port), "ports")
               /\ \/ UNCHANGED route
                  \/ route' = [route EXCEPT ![rtr] = {x \in @ : addr'[x[3]] = addr[x[3]]}]
      <3>1. UNCHANGED <<jail, jailEnd>> /\ at' = "ports"
        BY <2>2 DEF AddrStep
      <3>2. CASE UNCHANGED route
        BY <3>1, <3>2, <2>0, <1>q, <1>0
      <3>3. CASE route' = [route EXCEPT ![rtr] = {x \in @ : addr'[x[3]] = addr[x[3]]}]
        <4>1. /\ \A r \in Routers : route'[r] \subseteq route[r]
              /\ route' = [r \in Routers |-> route'[r]]
          BY <3>3, <2>0, <1>t DEF InnerTypes
        <4>2. Wanes
          BY <4>1, <3>1, <2>0, <1>t DEF InnerTypes, Wanes
        <4> QED BY <4>2, <3>1, <2>0, <1>0
      <3> QED BY <3>2, <3>3, <2>2
    <2> QED BY <2>1, <2>2, <1>4, <1>t, PlumbSteps
  <1>5. ASSUME DestroyUndesired PROVE Goal
    <2>1. PICK i \in Ifs : DestroyEpair(i)
      BY <1>5, <1>t DEF DestroyUndesired, UndesiredIfs, JailTypeOK
    <2>2. /\ at' = "destroy" /\ Follow /\ jail' = jail
          /\ UNCHANGED <<forwarding, enabled, pf, file>>
      BY <2>1, <1>5, Unfold DEF DestroyUndesired, DestroyEpair, Do
    <2> QED BY <2>2, <1>0, <1>t, FollowWanes
  <1>6. ASSUME NEW j \in Routers, RemoveJail(j) PROVE Goal
    <2>1. at' = "remove" /\ file' = file
      BY <1>6 DEF RemoveJail
    <2>2. \/ JailGoes(j) /\ KernelFollows
          \/ UNCHANGED <<route, forwarding, enabled, pf, jail, jailEnd>>
      BY <1>6, Unfold DEF RemoveJail
    <2> QED BY <2>1, <2>2, <1>0, <1>q, <1>t, GoneWanes
  <1>7. ASSUME Reboot PROVE Goal
    BY <1>7, <1>0, <1>t, GoneWanes DEF Reboot, Forgotten
  <1>8. ASSUME NEW j \in Routers, OperatorRemovesJail(j) PROVE Goal
    <2>1. UNCHANGED <<at, rtr, goal, orders, file>>
      BY <1>8, Unfold DEF OperatorRemovesJail
    <2> QED BY <2>1, <1>8, <1>0, <1>t, GoneWanes DEF OperatorRemovesJail
  <1>9. ASSUME NEW i \in Ifs, OperatorTouchesEpair(i) PROVE Goal
    <2>1. UNCHANGED <<at, rtr, goal, orders, file, forwarding, enabled, pf, jail>>
      BY <1>9, Unfold DEF OperatorTouchesEpair, OperatorDestroysEpair, OperatorMangles
    <2> QED BY <2>1, <1>9, <1>0, <1>t, FollowWanes DEF OperatorTouchesEpair
  <1>10. ASSUME NEW r \in Routers, OperatorMeddles(r) PROVE Goal
    <2>1. UNCHANGED <<at, rtr, goal, orders, file, jail, jailEnd>>
      BY <1>10, Unfold DEF OperatorMeddles
    <2>2. Wanes
      <3>1. CASE \/ forwarding' = forwarding \ {r} /\ UNCHANGED <<route, enabled, pf>>
                 \/ enabled' = enabled \ {r} /\ UNCHANGED <<route, forwarding, pf>>
        <4>1. route' = [m \in Routers |-> route'[m]]
          BY <3>1, <1>t DEF InnerTypes
        <4> QED BY <4>1, <3>1, <2>1, <1>t DEF InnerTypes, Wanes
      <3>2. CASE pf' = [pf EXCEPT ![r] = NoFile] /\ UNCHANGED <<route, forwarding, enabled>>
        <4>1. route' = [m \in Routers |-> route'[m]]
          BY <3>2, <1>t DEF InnerTypes
        <4>2. \A m \in Routers : pf'[m] = (IF m = r THEN NoFile ELSE pf[m])
          BY <3>2, <1>t
        <4>3. pf' = [m \in Routers |-> pf'[m]]
          BY <3>2, <1>t
        <4> QED BY <4>1, <4>2, <4>3, <3>2, <2>1, <1>t DEF InnerTypes, Wanes
      <3>3. CASE /\ \E x \in route[r] : route' = [route EXCEPT ![r] = @ \ {x}]
                 /\ UNCHANGED <<forwarding, enabled, pf>>
        <4>1. /\ route' = [m \in Routers |-> route'[m]]
              /\ \A m \in Routers : route'[m] \subseteq route[m]
          BY <3>3, <1>t DEF InnerTypes
        <4> QED BY <4>1, <3>3, <2>1, <1>t DEF InnerTypes, Wanes
      <3> QED BY <3>1, <3>2, <3>3, <1>10 DEF OperatorMeddles
    <2> QED BY <2>1, <2>2, <1>0
  <1>11. ASSUME RemoveState PROVE Goal
    <2>1. /\ UNCHANGED <<route, forwarding, enabled, pf, jail, jailEnd>> /\ at' = "purge"
          /\ file' = [r \in Routers |-> IF r \in Scheduled(goal) THEN file[r] ELSE NoFile]
      BY <1>11, Unfold DEF RemoveState
    <2>2. InnerTypes' /\ OneRoute'
      BY <2>1, <1>q, <1>t, WanesKeeps
    <2>3. TextTypes' /\ FilesInv' /\ DeletesInv'
      BY <2>1, <1>t DEF TextTypes, FilesInv, DeletesInv
    <2> QED BY <2>2, <2>3, RoutesInParts
  <1>12. ASSUME WritePf PROVE Goal
    <2>1. /\ UNCHANGED <<route, forwarding, enabled, pf, jail, jailEnd, rtr, goal>>
          /\ at = "write" /\ at' = "enable" /\ rtr \in Routers
          /\ file' = [file EXCEPT ![rtr] = PfText(goal[rtr])]
      BY <1>12, <1>r, Unfold DEF WritePf, RouterSteps
    <2>2. InnerTypes' /\ OneRoute'
      BY <2>1, <1>q, <1>t, WanesKeeps
    <2>3. TextTypes' /\ file'[rtr] = PfText(goal[rtr])
      BY <2>1, <1>t DEF TextTypes
    <2>4. FilesInv' /\ DeletesInv'
      BY <2>1, <2>3 DEF FilesInv, DeletesInv
    <2> QED BY <2>2, <2>3, <2>4, RoutesInParts
  <1>13. ASSUME EnableForwarding PROVE Goal
    <2>1. /\ UNCHANGED <<route, enabled, pf, jail, jailEnd, file>> /\ at' = "ports"
          /\ forwarding' = forwarding \/ (rtr \in jail /\ forwarding' = forwarding \cup {rtr})
      BY <1>13, Unfold DEF EnableForwarding, Exec
    <2>2. InnerTypes' /\ OneRoute'
      BY <2>1, <1>t DEF InnerTypes, OneRoute, Within
    <2>3. TextTypes' /\ FilesInv' /\ DeletesInv'
      BY <2>1, <1>t DEF TextTypes, FilesInv, DeletesInv
    <2> QED BY <2>2, <2>3, RoutesInParts
  <1>14. ASSUME EnablePf PROVE Goal
    <2>1. /\ UNCHANGED <<route, forwarding, pf, jail, jailEnd, file, rtr, goal>>
          /\ at = "enable" /\ at' = "load"
          /\ enabled' = enabled \/ (rtr \in jail /\ enabled' = enabled \cup {rtr})
      BY <1>14, Unfold DEF EnablePf, Exec
    <2>2. InnerTypes' /\ OneRoute'
      BY <2>1, <1>t DEF InnerTypes, OneRoute, Within
    <2>3. TextTypes' /\ FilesInv' /\ DeletesInv'
      BY <2>1, <1>t DEF TextTypes, FilesInv, DeletesInv
    <2> QED BY <2>2, <2>3, RoutesInParts
  <1>15. ASSUME LoadPf PROVE Goal
    <2>1. /\ UNCHANGED <<route, forwarding, enabled, jail, jailEnd, file>> /\ at' = "routers"
          /\ at = "load"
          /\ pf' = pf \/ (rtr \in jail /\ pf' = [pf EXCEPT ![rtr] = file[rtr]])
      BY <1>15, Unfold DEF LoadPf, Exec
    <2>2. InnerTypes' /\ OneRoute'
      <3>1. \A r \in Routers : r \notin jail => pf'[r] = pf[r]
        BY <2>1, <1>t
      <3> QED BY <3>1, <2>1, <1>t DEF InnerTypes, OneRoute, Within
    <2>3. TextTypes' /\ FilesInv' /\ DeletesInv'
      BY <2>1, <1>t DEF TextTypes, FilesInv, DeletesInv
    <2> QED BY <2>2, <2>3, RoutesInParts
  <1>16. ASSUME ReadRoutes PROVE Goal
    <2>1. /\ UNCHANGED <<route, forwarding, enabled, pf, jail, jailEnd, file, rtr, goal>>
          /\ at' = "orders" /\ rtr \in Routers
          /\ orders' = RouteOrders(Known(rtr), Routes(goal[rtr]))
      BY <1>16, <1>r, Unfold DEF ReadRoutes, RouterSteps
    <2>2. InnerTypes' /\ OneRoute'
      BY <2>1, <1>q, <1>t, WanesKeeps
    <2>3. TextTypes' /\ FilesInv'
      BY <2>1, <1>t DEF TextTypes, FilesInv
    <2>4. ASSUME NEW o \in orders', o.do = "delete" PROVE Deletable(o)
      <3>1. PICK y \in Known(rtr) \ Routes(goal[rtr]) : o = [do |-> "delete", dest |-> y[1], hop |-> y[2]]
        BY <2>1, <2>4 DEF RouteOrders
      <3>2. PICK z \in route[rtr] : y = <<z[1], z[2]>>
        BY <3>1 DEF Known
      <3>3. o.dest = z[1] /\ o.hop = z[2]
        BY <3>1, <3>2
      <3>4. \A x \in route[rtr] : x[1] = z[1] => x = z
        BY <2>1, <3>2, <1>t DEF OneRoute
      <3> QED BY <3>1, <3>2, <3>3, <3>4 DEF Deletable
    <2>5. DeletesInv'
      BY <2>1, <2>4 DEF DeletesInv, Deletable
    <2> QED BY <2>2, <2>3, <2>5, RoutesInParts
  <1>17. ASSUME NEW o \in orders, GiveOrder(o) PROVE Goal
    <2>0. /\ UNCHANGED <<at, rtr, goal, file, jail, jailEnd>> /\ orders' = orders \ {o}
          /\ at = "orders" /\ rtr \in Routers
      BY <1>17, <1>r, Unfold DEF GiveOrder, RouterSteps
    <2>1. CASE UNCHANGED inner
      BY <2>0, <2>1, <1>q, <1>0, Unfold
    <2>2. CASE DeleteRoute(o) /\ ~UNCHANGED inner
      <3>1. /\ route' = [route EXCEPT ![rtr] = @ \ {x \in route[rtr] : x[1] = o.dest}]
            /\ UNCHANGED <<forwarding, enabled, pf>>
        BY <2>2 DEF DeleteRoute, Exec
      <3>2. /\ route' = [m \in Routers |-> route'[m]]
            /\ \A m \in Routers : route'[m] \subseteq route[m]
        BY <3>1, <2>0, <1>t DEF InnerTypes
      <3>3. Wanes
        BY <3>1, <3>2, <2>0, <1>t DEF InnerTypes, Wanes
      <3> QED BY <3>3, <2>0, <1>0
    <2>3. CASE AddRoute(o) /\ ~UNCHANGED inner /\ o.do = "add" /\ \A x \in orders : x.do = "add"
      <3>1. PICK u \in Through(rtr, o.hop) :
               /\ rtr \in jail /\ \A x \in route[rtr] : x[1] # o.dest
               /\ route' = [route EXCEPT ![rtr] = @ \cup {<<o.dest, o.hop, u>>}]
               /\ UNCHANGED <<forwarding, enabled, pf>>
        BY <2>3 DEF AddRoute, Exec
      <3>2. u \in Units /\ jailEnd[u] \in Within(rtr)
        BY <3>1 DEF Through, Within
      <3>3. o.dest \in Destinations /\ o.hop \in NextHops
        BY <1>t DEF TypeOK, PlaceTypeOK, Orders
      <3>4. PICK e \in Destinations \X NextHops \X Units :
               e = <<o.dest, o.hop, u>> /\ e[1] = o.dest /\ e[3] = u
        BY <3>2, <3>3, OneMore
      <3>5. /\ route' \in [Routers -> SUBSET (Destinations \X NextHops \X Units)]
            /\ route'[rtr] = route[rtr] \cup {e}
            /\ \A r \in Routers : r # rtr => route'[r] = route[r]
        BY <3>1, <3>4, <2>0, <1>t DEF InnerTypes
      <3>6. InnerTypes'
        BY <3>1, <3>2, <3>4, <3>5, <2>0, <1>t DEF InnerTypes, Within
      <3>7. OneRoute'
        BY <3>1, <3>4, <3>5, <1>t DEF OneRoute
      <3>8. TextTypes' /\ FilesInv' /\ DeletesInv'
        BY <3>1, <2>0, <2>3, <1>t DEF TextTypes, FilesInv, DeletesInv
      <3> QED BY <3>6, <3>7, <3>8, RoutesInParts
    <2> QED BY <2>1, <2>2, <2>3, <1>17 DEF GiveOrder
  <1> QED BY <1>1, <1>2, <1>3, <1>4, <1>5, <1>6, <1>7, <1>8, <1>9, <1>10, <1>11, <1>12,
             <1>13, <1>14, <1>15, <1>16, <1>17 DEF Next, Pass, Others

LEMMA TypeInvInit == Init => TypeInv
  <1> SUFFICES ASSUME Init PROVE TypeInv
    OBVIOUS
  <1>1. JailTypeOK /\ PlaceTypes
    BY DEF Init, JailInit, JailTypeOK, PlaceTypes, PlaceTypeOK, Steps
  <1>2. InnerTypes
    BY DEF Init, JailInit, InnerTypes
  <1>3. TextTypes /\ FilesInv /\ RoutesInv
    BY DEF Init, JailInit, TextTypes, FilesInv, RoutesInv
  <1>4. Tidy
    BY EndsAssumption DEF Init, JailInit, Tidy, Within
  <1>5. StageInv
    BY DEF Init, JailInit, StageInv, RouterSteps, PortSteps, Making
  <1> QED BY <1>1, <1>2, <1>3, <1>4, <1>5, TypesInParts DEF TypeInv

LEMMA TypeInvNext == TypeInv /\ [Next]_vars => TypeInv'
  <1> SUFFICES ASSUME TypeInv, [Next]_vars PROVE TypeInv'
    OBVIOUS
  <1>1. CASE Next
    BY <1>1, JailNext, PlaceNext, InnerNext, TypesInParts DEF TypeInv
  <1>2. CASE UNCHANGED vars
    <2>1. UNCHANGED <<jail, hostEnd, jailEnd, addr, mangled, at, unit, seenJails, seenIfs,
                      failed, touched, others, faults, want, goal, left, rtr, ports, port,
                      complete, orders, route, forwarding, enabled, pf, file, desires>>
      BY <1>2, Unfold DEF vars
    <2>2. JailTypeOK' /\ PlaceTypes' /\ InnerTypes'
      BY <2>1, TypesInParts DEF TypeInv, JailTypeOK, PlaceTypes, PlaceTypeOK, InnerTypes, Within
    <2>3. FilesInv' /\ TextTypes' /\ Tidy' /\ StageInv' /\ RoutesInv'
      BY <2>1, TypesInParts DEF TypeInv, TextTypes, Tidy, StageInv, FilesInv, RoutesInv
    <2> QED BY <2>2, <2>3, TypesInParts DEF TypeInv
  <1> QED BY <1>1, <1>2

\* Types, and with them that a router forwards, filters and routes only in a jail that
\* there is, and that each route leads through an epair of that jail (jail.py:144-156,
\* l3_agent/reconcile.py:35-119).
THEOREM TypeCorrect == Spec => []TypeOK
  <1>1. TypeInv => TypeOK
    BY DEF TypeInv
  <1> QED BY <1>1, TypeInvInit, TypeInvNext, PTL DEF Spec

-----------------------------------------------------------------------------
(* The epairs, where half of one can be destroyed.                          *)

LEMMA ShrinkHome ==
    ASSUME Shrinks
    PROVE  /\ HomeInv => HomeInv'
           /\ \A i \in Ifs : MakingHome(i) /\ UNCHANGED <<at, unit>> => MakingHome(i)'
  <1>p. /\ \A k \in Ifs : k # Nowhere
        /\ \A j \in Jails : Host \notin Within(j) /\ Nowhere \notin Within(j)
    BY EndsAssumption DEF Within
  <1>1. HomeInv => HomeInv'
    BY <1>p DEF Shrinks, HomeInv, Within
  <1>2. ASSUME NEW i \in Ifs, MakingHome(i), UNCHANGED <<at, unit>>
        PROVE  MakingHome(i)'
    BY <1>2, <1>p DEF Shrinks, MakingHome, Within
  <1> QED BY <1>1, <1>2

\* An end is named, and moved, only as an end of the epair that is being made.
LEMMA EpairHome ==
    ASSUME JailTypeOK, HomeInv, NEW i \in Ifs, MakingHome(i), NEW bad \in Bad, EpairStep(i, bad)
    PROVE  HomeInv' /\ MakingHome(i)'
  <1>p. /\ i # Raw /\ i # Nowhere /\ \A k \in Ifs : k # Raw /\ k # Nowhere
        /\ \A j \in Jails : Host \notin Within(j) /\ Nowhere \notin Within(j)
        /\ \A j \in Jails : Slot(i) \in Within(j) \/ <<InJail[i], Raw>> \in Within(j)
                              => j = InJail[i]
    BY Places
  <1>0. ASSUME UNCHANGED <<hostEnd, jailEnd, unit>>,
               at' \notin {"namehost", "move", "namejail"}
                 \/ at \in {"namehost", "move", "namejail"}
        PROVE  HomeInv' /\ MakingHome(i)'
    BY <1>0 DEF HomeInv, MakingHome, Within
  <1>1. ASSUME Looked(i) PROVE HomeInv' /\ MakingHome(i)'
    BY <1>1, <1>0 DEF Looked
  <1>2. ASSUME Cleared(i) PROVE HomeInv' /\ MakingHome(i)'
    <2>1. Shrinks
      BY <1>2 DEF Cleared, Destroy, Shrinks, epairs
    <2> QED BY <1>2, <2>1, ShrinkHome DEF Cleared, MakingHome
  <1>3. ASSUME Created(bad) PROVE HomeInv' /\ MakingHome(i)'
    <2>1. CASE UNCHANGED <<hostEnd, jailEnd, unit>> /\ at' = bad
      BY <2>1, <1>0 DEF Bad
    <2>2. CASE /\ FirstFree \in Free /\ unit' = FirstFree
               /\ hostEnd' = [hostEnd EXCEPT ![FirstFree] = Raw]
               /\ jailEnd' = [jailEnd EXCEPT ![FirstFree] = Host]
      <3>1. \A u \in Units : hostEnd'[u] = (IF u = FirstFree THEN Raw ELSE hostEnd[u])
                             /\ jailEnd'[u] = (IF u = FirstFree THEN Host ELSE jailEnd[u])
        BY <2>2 DEF JailTypeOK
      <3>2. HomeInv'
        BY <3>1, <1>p DEF HomeInv, Within
      <3>3. MakingHome(i)'
        BY <3>1, <2>2, <1>p DEF MakingHome, Within
      <3> QED BY <3>2, <3>3
    <2> QED BY <1>3, <2>1, <2>2 DEF Created
  <1>4. ASSUME HostNamed(i) PROVE HomeInv' /\ MakingHome(i)'
    <2>1. CASE hostEnd' = hostEnd
      BY <1>4, <2>1, <1>0 DEF HostNamed
    <2>2. CASE hostEnd' = [hostEnd EXCEPT ![unit] = i]
      <3>1. \A u \in Units : hostEnd'[u] = (IF u = unit THEN i ELSE hostEnd[u])
        BY <2>2 DEF JailTypeOK
      <3>2. HomeInv'
        BY <3>1, <1>4 DEF HostNamed, HomeInv, MakingHome, Within
      <3>3. MakingHome(i)'
        BY <3>1, <1>4 DEF HostNamed, MakingHome, Within
      <3> QED BY <3>2, <3>3
    <2> QED BY <1>4, <2>1, <2>2 DEF HostNamed
  <1>5. ASSUME NEW x \in {Slot(i), <<InJail[i], Raw>>}, jailEnd' = [jailEnd EXCEPT ![unit] = x],
               at \in {"move", "namejail"}, UNCHANGED <<hostEnd, unit>>
        PROVE  HomeInv' /\ MakingHome(i)'
    <2>1. \A u \in Units : jailEnd'[u] = (IF u = unit THEN x ELSE jailEnd[u])
      BY <1>5 DEF JailTypeOK
    <2>2. \A j \in Jails : x \in Within(j) => j = InJail[i]
      BY <1>p
    <2>3. HomeInv'
      BY <2>1, <2>2, <1>5 DEF HomeInv, MakingHome, Within
    <2>4. MakingHome(i)'
      BY <2>1, <2>2, <1>5 DEF MakingHome, Within
    <2> QED BY <2>3, <2>4
  <1>6. ASSUME Moved(i) \/ JailNamed(i) PROVE HomeInv' /\ MakingHome(i)'
    BY <1>6, <1>0, <1>5 DEF Moved, JailNamed
  <1>7. ASSUME Found(i, bad) PROVE HomeInv' /\ MakingHome(i)'
    <2>1. at' \notin {"namehost", "move", "namejail"} /\ UNCHANGED <<hostEnd, jailEnd>>
      BY <1>7 DEF Found, Bad
    <2> QED BY <2>1 DEF HomeInv, MakingHome, Within
  <1> QED BY <1>1, <1>2, <1>3, <1>4, <1>6, <1>7 DEF EpairStep

\* Away from ensure_epair no end is named or moved.
LEMMA Elsewhere ==
    ASSUME TypeInv, Next, ~Plumb
    PROVE  Shrinks /\ (at' \notin Making \/ UNCHANGED <<at, unit, port>>)
  <1>t. JailTypeOK /\ Tidy /\ TypeOK /\ StageInv /\ at \in Steps
    BY DEF TypeInv, TypeOK, PlaceTypeOK
  <1> DEFINE Goal == Shrinks /\ (at' \notin Making \/ UNCHANGED <<at, unit, port>>)
  <1>s. UNCHANGED <<hostEnd, jailEnd>> => Shrinks
    BY DEF Shrinks
  <1>1. ASSUME \/ StartPass \/ (\E r \in Routers : NextRouter(r)) \/ EnableForwarding
               \/ (\E p \in ports : NextPort(p)) \/ PortsDone \/ ReadRoutes
               \/ (\E o \in orders : GiveOrder(o)) \/ OrdersDone \/ WritePf \/ EnablePf
               \/ LoadPf \/ StartCollect \/ StartRemove \/ RemoveState \/ EndPass \/ Crash
        PROVE  Goal
    <2>1. UNCHANGED <<hostEnd, jailEnd>>
      BY <1>1, Unfold DEF StartPass, NextRouter, EnableForwarding, NextPort, PortsDone,
             ReadRoutes, GiveOrder, OrdersDone, WritePf, EnablePf, LoadPf, StartCollect,
             StartRemove, RemoveState, EndPass, Crash
    <2>2. at' \notin Making
      BY <1>1 DEF StartPass, NextRouter, EnableForwarding, NextPort, PortsDone,
             ReadRoutes, GiveOrder, OrdersDone, WritePf, EnablePf, LoadPf, StartCollect,
             StartRemove, RemoveState, EndPass, Crash, Forgotten, Making
    <2> QED BY <2>1, <2>2, <1>s
  <1>2. ASSUME EnsureJail PROVE Goal
    <2>1. UNCHANGED <<hostEnd, jailEnd>> /\ at' \notin Making
      BY <1>2, <1>t, EnsureJailSteps DEF JailStep, Making
    <2> QED BY <2>1, <1>s
  <1>3. ASSUME DestroyUndesired PROVE Goal
    <2>1. PICK i \in Ifs : DestroyEpair(i)
      BY <1>3, <1>t DEF DestroyUndesired, UndesiredIfs, JailTypeOK
    <2>2. EpairGoes(i)
      BY <2>1, <1>t, EpairGoesSteps
    <2>3. at' \notin Making
      BY <2>2 DEF EpairGoes, Making
    <2> QED BY <2>2, <2>3, <1>t, EpairGoesKeeps
  <1>4. ASSUME NEW j \in Routers, RemoveJail(j) PROVE Goal
    <2>1. at' \notin Making /\ (JailGoes(j) \/ UNCHANGED plane) /\ j \in Jails
      BY <1>4, Unfold DEF RemoveJail, Making, Routers
    <2> QED BY <2>1, <1>s, <1>t, JailGoesKeeps, Unfold
  <1>5. ASSUME Reboot PROVE Goal
    <2>1. at' \notin Making /\ jail' = {} /\ Destroy(Units)
      BY <1>5 DEF Reboot, Forgotten, Making
    <2> QED BY <2>1, <1>t, RebootKeeps
  <1>6. ASSUME NEW g \in Goals, Desire(g) PROVE Goal
    BY <1>6, <1>s, Unfold DEF Desire
  <1>7. ASSUME NEW r \in Routers, OperatorMeddles(r) PROVE Goal
    BY <1>7, <1>s, Unfold DEF OperatorMeddles
  <1>8. ASSUME NEW j \in Routers, OperatorRemovesJail(j) PROVE Goal
    BY <1>8, <1>t, JailGoesKeeps, Unfold DEF OperatorRemovesJail, Routers
  <1>9. ASSUME NEW i \in Ifs, OperatorTouchesEpair(i) PROVE Goal
    BY <1>9, <1>t, OperatorKeeps DEF OperatorTouchesEpair
  <1> QED BY <1>1, <1>2, <1>3, <1>4, <1>5, <1>6, <1>7, <1>8, <1>9 DEF Next, Pass, Others

LEMMA PairsNext ==
    ASSUME TypeInv, PairsInv, ~HalvesStay, Next
    PROVE  PairsInv'
  <1>t. JailTypeOK /\ Tidy /\ TypeOK /\ StageInv /\ goal \in Goals
    BY DEF TypeInv, TypeOK, PlaceTypeOK
  <1>T. Tidy'
    BY JailNext
  <1>h. HomeInv /\ EndsInv
    BY DEF PairsInv
  <1>m. at' \in PortSteps /\ at' \notin Making =>
            \A i : MakingInv(i)' /\ MakingHome(i)'
    BY DEF MakingInv, MakingHome, PortSteps, Making
  <1>1. CASE ~Plumb
    <2>1. Shrinks /\ (at' \notin Making \/ UNCHANGED <<at, unit, port>>)
      BY <1>1, Elsewhere
    <2>2. EndsInv' /\ HomeInv'
      BY <2>1, <1>T, <1>h, ShrinkKeeps, ShrinkHome DEF EndsInv
    <2>3. CASE at' \in Making
      <3>1. UNCHANGED <<at, unit, port>> /\ at \in PortSteps
        BY <2>1, <2>3 DEF PortSteps
      <3>2. PICK i \in Ifs : i = port.id
        BY <3>1, <1>t, GoalFacts DEF StageInv, RouterSteps
      <3>3. MakingInv(i) /\ MakingHome(i)
        BY <3>1, <3>2 DEF PairsInv
      <3>4. MakingInv(i)' /\ MakingHome(i)'
        BY <3>1, <3>3, <2>1, ShrinkKeeps, ShrinkHome
      <3> QED BY <3>1, <3>2, <3>4, <2>2 DEF PairsInv, MakingInv, MakingHome, Slot
    <2> QED BY <2>2, <2>3, <1>m DEF PairsInv, MakingInv, MakingHome, Slot
  <1>2. CASE Plumb
    <2>0. /\ rtr \in Scheduled(goal) /\ at \in PortSteps /\ port' = port
          /\ port \in Ports(goal[rtr])
      BY <1>2, <1>t, PlumbSteps
    <2>i. PICK i \in Ifs : i = port.id
      BY <2>0, <1>t, GoalFacts
    <2>1. CASE EpairStep(i, "ports")
      <3>1. MakingInv(i) /\ MakingHome(i)
        BY <2>0, <2>i DEF PairsInv
      <3>2. EndsInv' /\ MakingInv(i)' /\ HomeInv' /\ MakingHome(i)'
        BY <2>1, <3>1, <1>h, <1>t, EpairEnds, EpairHome DEF Bad
      <3> QED BY <3>2, <2>i, <2>0 DEF PairsInv, MakingInv, MakingHome, Slot
    <2>2. CASE \E a : AddrStep(i, a, "ports")
      <3>1. UNCHANGED <<hostEnd, jailEnd>> /\ at' = "ports"
        BY <2>2 DEF AddrStep
      <3>2. EndsInv' /\ HomeInv'
        BY <3>1, <1>T, <1>h DEF EndsInv, Paired, OwnSlots, Slot, HomeInv, Within
      <3> QED BY <3>1, <3>2 DEF PairsInv, PortSteps, Making
    <2> QED BY <2>1, <2>2, <2>i, <1>2, <1>t, PlumbSteps
  <1> QED BY <1>1, <1>2

-----------------------------------------------------------------------------
(* What is as asked for is left alone.                                      *)

LEMMA PlumbedMeans ==
    ASSUME NEW r, NEW s, NEW p, NEW k, NEW a, k = p.id, a = AddressOf(s, p)
    PROVE  /\ Plumbed(r, s, p) <=> r \in jail /\ Led(k, a)
           /\ Plumbed(r, s, p)' <=> r \in jail' /\ Led(k, a)'
  BY DEF Plumbed, Led, Spans, HasAddress, HostUnit, JailUnit, Slot

\* What is neither a fault nor somebody else's is a step of the pass, or the server's.
Ordinary == Pass \/ \E g \in Goals : Desire(g)

LEMMA OrdinarySteps ==
    ASSUME TypeInv, Next, UNCHANGED <<others, faults>>
    PROVE  Ordinary
  <1>t. JailTypeOK
    BY DEF TypeInv, TypeOK
  <1>1. ~Fault /\ ~Other
    BY <1>t, FaultsCount, OtherFacts
  <1>2. ~Crash /\ ~Reboot
    BY <1>1 DEF Crash, Reboot
  <1>3. Others => \E g \in Goals : Desire(g)
    BY <1>1 DEF Others, OperatorMeddles, OperatorRemovesJail, OperatorTouchesEpair,
           OperatorDestroysEpair, OperatorMangles
  <1> QED BY <1>2, <1>3 DEF Next, Ordinary

\* Steps that leave the kernel's jails and epairs alone.
Inside ==
    \/ StartPass \/ (\E r \in Routers : NextRouter(r)) \/ EnableForwarding
    \/ (\E p \in ports : NextPort(p)) \/ PortsDone \/ ReadRoutes
    \/ (\E o \in orders : GiveOrder(o)) \/ OrdersDone \/ WritePf \/ EnablePf
    \/ LoadPf \/ StartCollect \/ StartRemove \/ RemoveState \/ EndPass
    \/ \E g \in Goals : Desire(g)

LEMMA InsideSteps ==
    /\ Inside => UNCHANGED <<jail, hostEnd, jailEnd, addr, mangled>>
    /\ Ordinary <=> \/ Inside \/ EnsureJail \/ Plumb \/ DestroyUndesired
                    \/ \E r \in Routers : RemoveJail(r)
  <1>1. Inside => UNCHANGED plane
    BY DEF Inside, StartPass, NextRouter, EnableForwarding, NextPort, PortsDone, ReadRoutes,
           GiveOrder, OrdersDone, WritePf, EnablePf, LoadPf, StartCollect, StartRemove,
           RemoveState, EndPass, Desire
  <1>2. Ordinary <=> \/ Inside \/ EnsureJail \/ Plumb \/ DestroyUndesired
                     \/ \E r \in Routers : RemoveJail(r)
    BY DEF Ordinary, Pass, Inside
  <1> QED BY <1>1, <1>2, Unfold

\* Every epair that leads where it should is left alone.
LEMMA PassSpares ==
    ASSUME TypeInv, PairsInv, ~HalvesStay, OwnSlots, Ordinary,
           NEW r \in Scheduled(goal), NEW p \in Ports(goal[r]),
           NEW k, NEW a, k = p.id, a = AddressOf(goal[r], p), r \in jail, Led(k, a)
    PROVE  r \in jail' /\ Led(k, a)' /\ Holds(k)
  <1>t. /\ TypeOK /\ JailTypeOK /\ Tidy /\ StageInv /\ goal \in Goals
    BY DEF TypeInv, TypeOK, PlaceTypeOK
  <1>k. k \in Ifs /\ InJail[k] = r /\ k \in WantedIfs(goal)
    BY <1>t, GoalFacts
  <1> DEFINE Kept == r \in jail' /\ Led(k, a)' /\ Holds(k)
  <1>1. CASE UNCHANGED <<jail, hostEnd, jailEnd, addr, mangled>>
    BY <1>1, StillLed DEF epairs, Holds
  <1>2. CASE EnsureJail
    <2>1. UNCHANGED <<hostEnd, jailEnd, addr, mangled>> /\ jail \subseteq jail'
      BY <1>2, <1>t, EnsureJailSteps DEF JailStep
    <2> QED BY <2>1, StillLed DEF epairs, Holds
  <1>3. CASE Plumb
    <2>1. rtr \in Scheduled(goal) /\ port \in Ports(goal[rtr]) /\ at \in PortSteps
      BY <1>3, <1>t, PlumbSteps
    <2>2. PICK i, b : i = port.id /\ b = AddressOf(goal[rtr], port)
      OBVIOUS
    <2>3. i \in Ifs /\ InJail[i] = rtr
      BY <2>1, <2>2, <1>t, GoalFacts
    <2>4. (k = i /\ a = b) \/ Slot(k) # Slot(i)
      <3>1. CASE k # i
        BY <3>1, <2>3, <1>k DEF OwnSlots
      <3>2. CASE k = i
        <4>1. r = rtr
          BY <3>2, <2>3, <1>k
        <4>2. p = port
          BY <4>1, <3>2, <2>1, <2>2, <1>t, GoalFacts
        <4> QED BY <4>1, <4>2, <3>2, <2>2
      <3> QED BY <3>1, <3>2
    <2>5. CASE EpairStep(i, "ports")
      <3>1. NotBoth(i)
        BY <2>1, <2>2 DEF PairsInv, MakingInv, NotBoth
      <3>2. jail' = jail
        BY <2>5 DEF EpairStep
      <3>3. Led(k, a)' /\ Holds(k)
        BY <3>1, <2>3, <2>4, <2>5, <1>k, <1>t, EpairSpares
      <3> QED BY <3>2, <3>3
    <2>6. CASE AddrStep(i, b, "ports")
      <3>1. jail' = jail /\ UNCHANGED <<hostEnd, jailEnd>>
        BY <2>6 DEF AddrStep
      <3>2. Led(k, a)'
        BY <2>3, <2>4, <2>6, <1>k, AddrSpares
      <3> QED BY <3>1, <3>2 DEF Holds
    <2> QED BY <2>2, <2>5, <2>6, <1>3, <1>t, PlumbSteps
  <1>4. CASE DestroyUndesired
    <2>1. PICK i \in UndesiredIfs : DestroyEpair(i)
      BY <1>4 DEF DestroyUndesired
    <2>2. i \in Ifs /\ k # i
      BY <2>1, <1>k, <1>t DEF UndesiredIfs, JailTypeOK
    <2>3. EpairGoes(i)
      BY <2>1, <2>2, <1>t, EpairGoesSteps
    <2>4. Led(k, a)' /\ jail' = jail
      BY <2>2, <2>3, <1>k, <1>t, EpairGoesKeeps DEF EpairGoes
    <2>5. PICK U \in {HostUnit(i), {}} : Destroy(U)
      BY <2>3 DEF EpairGoes
    <2>6. Holds(k)
      BY <2>2, <2>5 DEF Holds, Destroy, HostUnit
    <2> QED BY <2>4, <2>6
  <1>5. CASE \E j \in Routers : RemoveJail(j)
    <2>1. PICK j \in Routers : RemoveJail(j)
      BY <1>5
    <2>2. r # j /\ j \in Jails
      BY <2>1, <1>t DEF RemoveJail, StageInv, Routers
    <2>3. CASE JailGoes(j)
      <3>1. Led(k, a)' /\ jail' = jail \ {j}
        BY <2>2, <2>3, <1>k, JailGoesSpares DEF JailGoes
      <3>2. Slot(k) \notin Within(j)
        BY <2>2, <1>k, Places
      <3>3. Holds(k)
        BY <3>2, <2>3 DEF Holds, JailGoes, Within
      <3> QED BY <3>1, <3>3, <2>2
    <2> QED BY <2>1, <2>3, <1>1, Unfold DEF RemoveJail
  <1> QED BY <1>1, <1>2, <1>3, <1>4, <1>5, InsideSteps

\* Every wanted route stays whose epair stays in the jail with its addresses.
LEMMA PassKeepsRoutes ==
    ASSUME TypeInv, Ordinary, NEW r \in Scheduled(goal), NEW x \in route[r],
           <<x[1], x[2]>> \in Routes(goal[r]), jailEnd'[x[3]] \in Within(r),
           r = rtr => addr'[x[3]] = addr[x[3]]
    PROVE  x \in route'[r]
  <1>t. /\ TypeOK /\ StageInv /\ InnerTypes /\ DeletesInv /\ r \in Routers
    BY TypesInParts, RoutesInParts DEF TypeInv, Scheduled
  <1>1. CASE Follow
    BY <1>1, <1>t, FollowMeans
  <1>2. CASE route' = route
    BY <1>2
  <1>3. ASSUME NEW o \in orders, GiveOrder(o) PROVE x \in route'[r]
    <2>1. CASE UNCHANGED inner
      BY <2>1, <1>2, Unfold
    <2>2. CASE DeleteRoute(o) /\ o.do = "delete" /\ ~UNCHANGED inner
      <3>1. /\ at = "orders"
            /\ route' = [route EXCEPT ![rtr] = @ \ {y \in route[rtr] : y[1] = o.dest}]
        BY <1>3, <2>2 DEF GiveOrder, DeleteRoute, Exec
      <3>2. CASE r = rtr
        <4>1. Deletable(o)
          BY <1>3, <2>2, <3>1, <1>t DEF DeletesInv
        <4>2. x[1] # o.dest
          BY <4>1, <3>2 DEF Deletable
        <4> QED BY <4>2, <3>1, <3>2, <1>t DEF InnerTypes
      <3>3. CASE r # rtr
        BY <3>1, <3>3, <1>t DEF InnerTypes
      <3> QED BY <3>2, <3>3
    <2>3. CASE AddRoute(o) /\ ~UNCHANGED inner
      <3>1. PICK u : route' = [route EXCEPT ![rtr] = @ \cup {<<o.dest, o.hop, u>>}]
        BY <2>3 DEF AddRoute, Exec
      <3> QED BY <3>1, <1>t DEF InnerTypes
    <2> QED BY <2>1, <2>2, <2>3, <1>3 DEF GiveOrder
  <1>4. ASSUME Plumb PROVE x \in route'[r]
    <2>1. CASE route' = [route EXCEPT ![rtr] = {y \in @ : addr'[y[3]] = addr[y[3]]}]
      BY <2>1, <1>t DEF InnerTypes
    <2> QED BY <2>1, <1>1, <1>2, <1>4, <1>t, PlumbSteps
  <1>5. ASSUME Inside PROVE Follow \/ route' = route \/ \E o \in orders : GiveOrder(o)
    <2>1. ASSUME EnableForwarding \/ EnablePf \/ LoadPf PROVE route' = route
      BY <2>1, Unfold DEF EnableForwarding, EnablePf, LoadPf, Exec
    <2> QED BY <1>5, <2>1, Unfold
            DEF Inside, StartPass, NextRouter, NextPort, PortsDone, ReadRoutes, OrdersDone,
                WritePf, StartCollect, StartRemove, RemoveState, EndPass, Desire
  <1>6. ASSUME EnsureJail \/ DestroyUndesired \/ \E j \in Routers : RemoveJail(j)
        PROVE  Follow \/ route' = route
    BY <1>6, Unfold DEF EnsureJail, DestroyUndesired, RemoveJail, KernelFollows
  <1> QED BY <1>1, <1>2, <1>3, <1>4, <1>5, <1>6, InsideSteps

\* A router goes on forwarding, and filtering by rules that are up to date.
LEMMA PassKeepsRouter ==
    ASSUME TypeInv, Ordinary, NEW r \in Scheduled(goal), NEW s, s = goal[r]
    PROVE  /\ r \in forwarding => r \in forwarding'
           /\ r \in enabled /\ pf[r] = PfText(s) => r \in enabled' /\ pf'[r] = PfText(s)
  <1>t. /\ TypeOK /\ StageInv /\ InnerTypes /\ TextTypes /\ r \in Routers
    BY TypesInParts DEF TypeInv, Scheduled
  <1>1. CASE UNCHANGED <<forwarding, enabled, pf>>
    BY <1>1
  <1>2. ASSUME JailTakesAll, r \in jail => r \in jail'
        PROVE  /\ r \in forwarding => r \in forwarding'
               /\ r \in enabled /\ pf[r] = PfText(s) => r \in enabled' /\ pf'[r] = PfText(s)
    <2>1. forwarding' = forwarding \cap jail' /\ enabled' = enabled \cap jail'
          /\ (r \in jail' => pf'[r] = pf[r])
      BY <1>2, <1>t DEF JailTakesAll
    <2> QED BY <2>1, <1>2, <1>t DEF InnerTypes
  <1>3. CASE EnsureJail
    <2>1. JailTakesAll /\ jail \subseteq jail'
      BY <1>3, <1>t, EnsureJailSteps DEF KernelFollows, JailStep
    <2> QED BY <2>1, <1>2
  <1>4. ASSUME NEW j \in Routers, RemoveJail(j), ~UNCHANGED <<forwarding, enabled, pf>>
        PROVE  JailTakesAll /\ (r \in jail => r \in jail')
    <2>1. JailTakesAll /\ JailGoes(j) /\ j \in left /\ at = "remove"
      BY <1>4, Unfold DEF RemoveJail, KernelFollows
    <2> QED BY <2>1, <1>t DEF StageInv, JailGoes
  <1>5. CASE EnableForwarding
    BY <1>5, Unfold DEF EnableForwarding, Exec
  <1>6. CASE EnablePf
    BY <1>6, Unfold DEF EnablePf, Exec
  <1>7. CASE LoadPf
    <2>1. CASE UNCHANGED inner
      BY <2>1, <1>1, Unfold
    <2>2. CASE /\ pf[rtr] # PfText(goal[rtr]) /\ pf' = [pf EXCEPT ![rtr] = file[rtr]]
               /\ UNCHANGED <<route, forwarding, enabled>>
      BY <2>2, <1>t DEF TextTypes
    <2> QED BY <1>7, <2>1, <2>2 DEF LoadPf, UpToDate, Exec
  <1>8. ASSUME Inside PROVE \/ EnableForwarding \/ EnablePf \/ LoadPf
                            \/ UNCHANGED <<forwarding, enabled, pf>>
    <2>1. ASSUME NEW o \in orders, GiveOrder(o) PROVE UNCHANGED <<forwarding, enabled, pf>>
      BY <2>1, Unfold DEF GiveOrder, DeleteRoute, AddRoute, Exec
    <2> QED BY <1>8, <2>1, Unfold
            DEF Inside, StartPass, NextRouter, NextPort, PortsDone, ReadRoutes, OrdersDone,
                WritePf, StartCollect, StartRemove, RemoveState, EndPass, Desire
  <1>9. CASE Plumb
    BY <1>1, <1>9, <1>t, PlumbSteps
  <1>10. CASE DestroyUndesired
    BY <1>1, <1>10 DEF DestroyUndesired
  <1> QED BY <1>1, <1>2, <1>3, <1>4, <1>5, <1>6, <1>7, <1>8, <1>9, <1>10, InsideSteps

LEMMA KeptInvInit == Init => KeptInv
  <1> SUFFICES ASSUME Init PROVE KeptInv
    OBVIOUS
  <1>1. TypeInv
    BY TypeInvInit
  <1>2. /\ at = "idle"
        /\ \A u \in Units : hostEnd[u] = Nowhere /\ jailEnd[u] = Nowhere
    BY DEF Init, JailInit
  <1>3. \A k \in Ifs : k # Nowhere
    BY EndsAssumption
  <1>4. PairsInv
    BY <1>1, <1>2, <1>3 DEF TypeInv, PairsInv, EndsInv, Paired, HomeInv, PortSteps, Making
  <1> QED BY <1>1, <1>4 DEF KeptInv

LEMMA KeptInvNext ==
    ASSUME ~HalvesStay
    PROVE  KeptInv /\ [Next]_vars => KeptInv'
  <1> SUFFICES ASSUME KeptInv, [Next]_vars PROVE KeptInv'
    OBVIOUS
  <1>1. CASE Next
    BY <1>1, TypeInvNext, PairsNext DEF KeptInv
  <1>2. CASE UNCHANGED vars
    <2>1. UNCHANGED <<jail, hostEnd, jailEnd, mangled, at, unit, port>>
      BY <1>2, Unfold DEF vars
    <2>2. TypeInv'
      BY TypeInvNext DEF KeptInv
    <2>3. PairsInv'
      BY <2>1 DEF KeptInv, PairsInv, EndsInv, Tidy, Paired, OwnSlots, MakingInv, Slot, HomeInv,
                  MakingHome, Within
    <2> QED BY <2>2, <2>3 DEF KeptInv
  <1> QED BY <1>1, <1>2

\* A pass does not disturb what is as asked for: forwarding, the rules, the epairs of the
\* wanted ports and the wanted routes through them (l3_agent/reconcile.py:50-119,
\* jail.py:72-156).  Half an epair must be destroyed when the pass says so, and no two
\* ports may share a name in a jail.
THEOREM WorkingStays ==
    ASSUME ~HalvesStay, OwnSlots
    PROVE  Spec => RouterKept
  <1> DEFINE NoneIsDisturbed ==
        others' = others /\ faults' = faults =>
          \A r \in Scheduled(goal) : \A s \in {goal[r]} :
              /\ r \in forwarding => r \in forwarding'
              /\ r \in enabled /\ pf[r] = PfText(s) => r \in enabled' /\ pf'[r] = PfText(s)
              /\ \A p \in Ports(s) : Plumbed(r, s, p) =>
                    /\ Plumbed(r, s, p)'
                    /\ \A x \in route[r] :
                          x[3] \in JailUnit(p.id) /\ <<x[1], x[2]>> \in Routes(s)
                            => x \in route'[r]
  <1>1. ASSUME KeptInv, Next PROVE NoneIsDisturbed
    <2> SUFFICES ASSUME UNCHANGED <<others, faults>>, NEW r \in Scheduled(goal),
                        NEW s \in {goal[r]}
                 PROVE  /\ r \in forwarding => r \in forwarding'
                        /\ r \in enabled /\ pf[r] = PfText(s) =>
                              r \in enabled' /\ pf'[r] = PfText(s)
                        /\ \A p \in Ports(s) : Plumbed(r, s, p) =>
                              /\ Plumbed(r, s, p)'
                              /\ \A x \in route[r] :
                                    x[3] \in JailUnit(p.id) /\ <<x[1], x[2]>> \in Routes(s)
                                      => x \in route'[r]
      OBVIOUS
    <2>t. TypeInv /\ PairsInv /\ Ordinary /\ goal \in Goals /\ InnerTypes /\ s = goal[r]
      BY <1>1, OrdinarySteps, TypesInParts DEF KeptInv, TypeInv, PlaceTypes, PlaceTypeOK
    <2>1. /\ r \in forwarding => r \in forwarding'
          /\ r \in enabled /\ pf[r] = PfText(s) => r \in enabled' /\ pf'[r] = PfText(s)
      BY <2>t, PassKeepsRouter
    <2>2. ASSUME NEW p \in Ports(s), Plumbed(r, s, p)
          PROVE  /\ Plumbed(r, s, p)'
                 /\ \A x \in route[r] :
                       x[3] \in JailUnit(p.id) /\ <<x[1], x[2]>> \in Routes(s)
                         => x \in route'[r]
      <3>1. PICK k, a : k = p.id /\ a = AddressOf(s, p)
        OBVIOUS
      <3>2. k \in Ifs /\ InJail[k] = r
        BY <2>2, <3>1, <2>t, GoalFacts
      <3>3. r \in jail /\ Led(k, a)
        BY <2>2, <3>1, PlumbedMeans
      <3>4. r \in jail' /\ Led(k, a)' /\ Holds(k)
        BY <2>2, <3>1, <3>3, <2>t, PassSpares
      <3>5. Plumbed(r, s, p)'
        BY <3>1, <3>4, PlumbedMeans
      <3>6. ASSUME NEW x \in route[r], x[3] \in JailUnit(p.id), <<x[1], x[2]>> \in Routes(s)
            PROVE  x \in route'[r]
        <4>1. PICK u \in Units : u = x[3] /\ jailEnd[u] = Slot(k)
          BY <3>1, <3>6 DEF JailUnit
        <4>2. hostEnd[u] = k
          BY <3>2, <3>3, <4>1, <2>t, LedMeans DEF PairsInv, EndsInv, Paired
        <4>3. jailEnd'[u] = Slot(k)
          BY <3>4, <4>1, <4>2 DEF Holds
        <4>4. addr[u] = a /\ addr'[u] = a
          BY <3>3, <3>4, <4>1, <4>3, LedMeans, LedMeansNext
        <4>5. jailEnd'[u] \in Within(r)
          BY <3>2, <4>3, Places
        <4> QED BY <3>6, <4>1, <4>4, <4>5, <2>t, PassKeepsRoutes
      <3> QED BY <3>5, <3>6
    <2> QED BY <2>1, <2>2
  <1>2. KeptInv /\ [Next]_vars => [NoneIsDisturbed]_vars
    BY <1>1
  <1> QED BY <1>2, KeptInvInit, KeptInvNext, PTL DEF Spec, RouterKept

-----------------------------------------------------------------------------
(* A pass that goes well: how it goes on.                                   *)

NothingHappens ==
    UNCHANGED <<jail, hostEnd, jailEnd, addr, mangled, at, unit, seenJails, seenIfs, left, rtr,
                ports, port, complete, orders, route, forwarding, enabled, pf, file>>

LEMMA CleanSteps ==
    ASSUME TypeInv, CleanInv, Next, ~failed', ~touched', at' # "idle", ~StartPass
    PROVE  /\ at # "idle" /\ ~failed /\ goal' = goal
           /\ Surveyed /\ Made /\ AllFinished /\ Gone
           /\ (Pass /\ ~EndPass) \/ NothingHappens
  <1>t. /\ TypeOK /\ JailTypeOK /\ StageInv
        /\ failed \in BOOLEAN /\ touched \in BOOLEAN
    BY DEF TypeInv, TypeOK, JailTypeOK
  <1>1. ~Crash /\ ~Reboot /\ ~EndPass
    BY DEF Crash, Reboot, Forgotten, EndPass
  <1> DEFINE Goes == at # "idle" /\ goal' = goal /\ touched' = touched
                     /\ (failed' = failed \/ failed' = TRUE)
  <1>2. ASSUME \/ (\E r \in Routers : NextRouter(r)) \/ EnableForwarding
               \/ (\E p \in ports : NextPort(p)) \/ PortsDone \/ ReadRoutes
               \/ (\E o \in orders : GiveOrder(o)) \/ OrdersDone \/ WritePf \/ EnablePf
               \/ LoadPf \/ StartCollect \/ StartRemove
               \/ (\E r \in Routers : RemoveJail(r)) \/ RemoveState
        PROVE  Goes
    <2>1. goal' = goal /\ touched' = touched
      BY <1>2, Unfold DEF NextRouter, EnableForwarding, NextPort, PortsDone, ReadRoutes,
             GiveOrder, OrdersDone, WritePf, EnablePf, LoadPf, StartCollect, StartRemove,
             RemoveJail, RemoveState
    <2>2. at # "idle"
      BY <1>2 DEF NextRouter, EnableForwarding, NextPort, PortsDone, ReadRoutes,
             GiveOrder, OrdersDone, WritePf, EnablePf, LoadPf, StartCollect, StartRemove,
             RemoveJail, RemoveState
    <2>3. failed' = failed \/ failed' = TRUE
      BY <1>2 DEF NextRouter, EnableForwarding, NextPort, PortsDone, ReadRoutes,
             GiveOrder, OrdersDone, WritePf, EnablePf, LoadPf, StartCollect, StartRemove,
             RemoveJail, RemoveState, Exec, DeleteRoute, AddRoute
    <2> QED BY <2>1, <2>2, <2>3
  <1>3. ASSUME Plumb PROVE Goes
    <2>1. goal' = goal /\ touched' = touched /\ at \in PortSteps
      BY <1>3, <1>t, PlumbSteps
    <2>2. failed' = failed \/ failed' = TRUE
      BY <1>3, <1>t, PlumbSteps
         DEF EpairStep, AddrStep, Looked, Cleared, Created, HostNamed, Moved, JailNamed,
             Found, Failed
    <2> QED BY <2>1, <2>2 DEF PortSteps, Making
  <1>4. ASSUME EnsureJail PROVE Goes
    BY <1>4, <1>t, EnsureJailSteps DEF JailStep, Failed
  <1>5. ASSUME DestroyUndesired PROVE Goes
    BY <1>5, Unfold DEF DestroyUndesired, DestroyEpair, Do
  <1>6. ASSUME Pass PROVE Goes
    BY <1>1, <1>2, <1>3, <1>4, <1>5, <1>6 DEF Pass
  <1>7. ASSUME NEW g \in Goals, Desire(g) PROVE at # "idle" => Goes /\ NothingHappens
    BY <1>7, Unfold DEF Desire, NothingHappens
  <1>8. ASSUME Others PROVE \E g \in Goals : Desire(g)
    <2>1. Other => (at = "idle" \/ touched')
      BY <1>t, OtherFacts
    <2>2. \A r \in Routers : ~OperatorMeddles(r) /\ ~OperatorRemovesJail(r)
      BY <2>1, Unfold DEF OperatorMeddles, OperatorRemovesJail
    <2>3. \A i \in Ifs : ~OperatorTouchesEpair(i)
      BY <2>1 DEF OperatorTouchesEpair, OperatorDestroysEpair, OperatorMangles
    <2> QED BY <1>8, <2>2, <2>3 DEF Others
  <1>9. ASSUME NEW g \in Goals, Desire(g) PROVE at # "idle"
    BY <1>9 DEF Desire
  <1>10. Goes /\ ((Pass /\ ~EndPass) \/ NothingHappens)
    BY <1>1, <1>6, <1>7, <1>8, <1>9 DEF Next
  <1>11. ~failed /\ ~touched
    BY <1>10, <1>t
  <1> QED BY <1>10, <1>11 DEF CleanInv

\* The route commands that are left, one after the other.
LEMMA OrdersShrink ==
    ASSUME NEW K \in SUBSET (Destinations \X NextHops), NEW W \in SUBSET (Destinations \X NextHops)
    PROVE  /\ \A y \in K \ W : RouteOrders(K \ {y}, W)
                  = RouteOrders(K, W) \ {[do |-> "delete", dest |-> y[1], hop |-> y[2]]}
           /\ \A y \in W \ K : RouteOrders(K \cup {y}, W)
                  = RouteOrders(K, W) \ {[do |-> "add", dest |-> y[1], hop |-> y[2]]}
           /\ RouteOrders(K, W) = {} => K = W
  <1> DEFINE D(x) == [do |-> "delete", dest |-> x[1], hop |-> x[2]]
             A(x) == [do |-> "add", dest |-> x[1], hop |-> x[2]]
  <1>1. \A k, w : RouteOrders(k, w) = {D(x) : x \in k \ w} \cup {A(x) : x \in w \ k}
    BY DEF RouteOrders
  <1>2. \A x, y \in Destinations \X NextHops : x[1] = y[1] /\ x[2] = y[2] => x = y
    OBVIOUS
  <1>3. /\ \A x, y \in Destinations \X NextHops : (D(x) = D(y) => x = y) /\ (A(x) = A(y) => x = y)
        /\ \A x, y : D(x) # A(y)
    <2>1. \A x : D(x).do = "delete" /\ D(x).dest = x[1] /\ D(x).hop = x[2]
      OBVIOUS
    <2>2. \A x : A(x).do = "add" /\ A(x).dest = x[1] /\ A(x).hop = x[2]
      OBVIOUS
    <2> HIDE DEF D, A
    <2>3. ASSUME NEW x \in Destinations \X NextHops, NEW y \in Destinations \X NextHops,
                 D(x) = D(y) \/ A(x) = A(y)
          PROVE  x = y
      <3>1. x[1] = y[1] /\ x[2] = y[2]
        BY <2>1, <2>2, <2>3
      <3> QED BY <3>1, <1>2
    <2>4. \A x, y : D(x) # A(y)
      <3>1. "delete" # "add"
        OBVIOUS
      <3> QED BY <2>1, <2>2, <3>1, Zenon
    <2> QED BY <2>3, <2>4
  <1> HIDE DEF D, A
  <1>4. ASSUME NEW y \in K \ W PROVE RouteOrders(K \ {y}, W) = RouteOrders(K, W) \ {D(y)}
    BY <1>1, <1>3
  <1>5. ASSUME NEW y \in W \ K PROVE RouteOrders(K \cup {y}, W) = RouteOrders(K, W) \ {A(y)}
    BY <1>1, <1>3
  <1>6. RouteOrders(K, W) = {} => K = W
    BY <1>1
  <1> QED BY <1>4, <1>5, <1>6 DEF D, A

\* The ports of a router that goes well.
LEMMA PlumbWell ==
    ASSUME TypeInv, PairsInv, ~HalvesStay, OwnSlots, Plumb, Surveyed, Made, ~failed'
    PROVE  Surveyed' /\ Made' /\ at' \in Making \cup {"addrs", "ports"}
  <1>t. JailTypeOK /\ Tidy /\ TypeOK /\ StageInv /\ goal \in Goals
    BY DEF TypeInv, TypeOK, PlaceTypeOK
  <1>0. /\ rtr \in Scheduled(goal) /\ port \in Ports(goal[rtr]) /\ at \in PortSteps
        /\ UNCHANGED <<goal, left, rtr, ports, port, orders, forwarding>>
    BY <1>t, PlumbSteps
  <1>i. PICK r, s, i, a : /\ r = rtr /\ s = goal[rtr] /\ i = port.id
                          /\ a = AddressOf(goal[rtr], port)
    OBVIOUS
  <1>k. i \in Ifs /\ InJail[i] = r
    BY <1>0, <1>i, <1>t, GoalFacts
  <1>m. /\ r \in jail /\ r \in forwarding /\ complete /\ MadeSoFar(i) /\ MakingInv(i)
        /\ at = "addrs" => Spans(i)
    BY <1>0, <1>i DEF Made, RouterSteps, PortSteps, Making, PairsInv
  <1>g. rtr' = r /\ goal'[rtr'] = s /\ ports' = ports /\ port' = port /\ forwarding' = forwarding
    BY <1>0, <1>i
  \* The ports that are there already stay.
  <1>s. ASSUME NEW p \in Ports(s) \ ports, p # port PROVE Plumbed(r, s, p)'
    <2>1. PICK k, b : k = p.id /\ b = AddressOf(s, p)
      OBVIOUS
    <2>2. Plumbed(r, s, p)
      BY <1>s, <1>0, <1>i DEF Made, RouterSteps, PortSteps, Making
    <2>3. r \in jail /\ Led(k, b)
      BY <2>1, <2>2, PlumbedMeans
    <2>4. Ordinary
      BY DEF Ordinary, Pass
    <2>5. r \in jail' /\ Led(k, b)'
      BY <2>1, <2>3, <2>4, <1>0, <1>i, <1>s, PassSpares
    <2> QED BY <2>1, <2>5, PlumbedMeans
  <1>1. CASE EpairStep(i, "ports") /\ complete' = (complete /\ at' # "ports")
    <2>1. UNCHANGED <<jail, seenJails>>
      BY <1>1 DEF EpairStep
    <2>2. /\ MadeSoFar(i)' /\ KnownIfs' /\ at' \in Making \cup {"addrs"}
          /\ at' = "addrs" /\ (at = "epair" => Spans(i)) => Spans(i)'
      BY <1>1, <1>k, <1>m, <1>t, EpairProgress DEF PairsInv, Surveyed, Bad
    <2>p. at' = "addrs" => Spans(i)'
      <3>1. CASE at # "epair"
        BY <2>2, <3>1
      <3>2. CASE at = "epair" /\ at' = "addrs"
        <4>1. HaveHost(i) /\ HaveJail(i)
          BY <1>1, <3>2 DEF EpairStep, Looked, Cleared, Created, HostNamed, Moved, JailNamed,
                            Found
        <4>2. Spans(i)
          BY <4>1, <1>k DEF PairsInv, EndsInv, Paired, OwnSlots, Slot, HaveHost, HaveJail,
                            Spans, HostUnit, JailUnit
        <4> QED BY <4>2, <2>2
      <3> QED BY <3>1, <3>2
    <2>3. Surveyed'
      BY <2>1, <2>2, <1>0 DEF Surveyed, PortSteps, Making
    <2>4. complete' /\ r \in jail' /\ at' \in PortSteps
      BY <2>1, <2>2, <1>1, <1>m DEF PortSteps, Making
    <2>5. MadeSoFar(port.id)'
      BY <2>2, <1>g, <1>i DEF MadeSoFar, Slot
    <2>q. at' = "addrs" => Spans(port.id)'
      BY <2>p, <1>g, <1>i DEF Spans, HostUnit, JailUnit, Slot
    <2>6. \A p \in Ports(s) \ ports : p # port => Plumbed(r, s, p)'
      BY <1>s
    <2>7. \A p \in Ports(goal'[rtr']) \ ports' : p # port' => Plumbed(rtr, goal[rtr], p)'
      BY <2>6, <1>g DEF Plumbed, Spans, HasAddress, HostUnit, JailUnit, Slot
    <2>8. at' \notin {"orders", "write", "enable", "load"}
      BY <2>2 DEF Making
    <2>9. Made'
      BY <2>4, <2>5, <2>7, <2>8, <2>q, <1>g, <1>m DEF Made
    <2> QED BY <2>2, <2>3, <2>9
  <1>2. CASE AddrStep(i, a, "ports") /\ UNCHANGED complete
    <2>1. at = "addrs" /\ at' = "ports" /\ UNCHANGED <<jail, seenJails>>
      BY <1>2 DEF AddrStep
    <2>2. KnownIfs' /\ Led(i, a)'
      BY <1>2, <2>1, <1>k, <1>m, <1>t, AddrWorks DEF Surveyed
    <2>3. Surveyed'
      BY <2>1, <2>2 DEF Surveyed
    <2>4. Plumbed(r, s, port)'
      <3>1. PICK q : q = port
        OBVIOUS
      <3>2. Plumbed(r, s, q)'
        BY <2>1, <2>2, <3>1, <1>i, <1>m, PlumbedMeans
      <3> QED BY <3>1, <3>2, <1>g DEF Plumbed, Spans, HasAddress, HostUnit, JailUnit, Slot
    <2>5. \A p \in Ports(s) \ ports : Plumbed(r, s, p)'
      BY <1>s, <2>4, <1>g DEF Plumbed, Spans, HasAddress, HostUnit, JailUnit, Slot
    <2>6. \A p \in Ports(goal'[rtr']) \ ports' : Plumbed(rtr, goal[rtr], p)'
      BY <2>5, <1>g DEF Plumbed, Spans, HasAddress, HostUnit, JailUnit, Slot
    <2>7. Made'
      BY <2>1, <2>6, <1>2, <1>g, <1>m DEF Made, PortSteps, Making
    <2> QED BY <2>1, <2>3, <2>7
  <1> QED BY <1>i, <1>1, <1>2, <1>t, PlumbSteps

LEMMA SurveyedNext ==
    ASSUME TypeInv, PairsInv, ~HalvesStay, OwnSlots, Pass, ~StartPass, ~EndPass, goal' = goal,
           ~failed', Surveyed, Made
    PROVE  Surveyed'
  <1>t. JailTypeOK /\ Tidy /\ TypeOK /\ StageInv
    BY DEF TypeInv, TypeOK
  <1>1. CASE \/ (\E r \in Routers : NextRouter(r)) \/ EnableForwarding
             \/ (\E p \in ports : NextPort(p)) \/ PortsDone \/ ReadRoutes
             \/ (\E o \in orders : GiveOrder(o)) \/ OrdersDone \/ WritePf \/ EnablePf
             \/ LoadPf \/ StartCollect
    <2>1. UNCHANGED <<jail, seenJails, hostEnd, seenIfs>>
      BY <1>1, Unfold DEF NextRouter, EnableForwarding, NextPort, PortsDone, ReadRoutes,
             GiveOrder, OrdersDone, WritePf, EnablePf, LoadPf, StartCollect
    <2>2. at \notin {"remove", "purge"} /\ at' \notin {"remove", "purge"}
      BY <1>1 DEF NextRouter, EnableForwarding, NextPort, PortsDone, ReadRoutes,
             GiveOrder, OrdersDone, WritePf, EnablePf, LoadPf, StartCollect
    <2> QED BY <2>1, <2>2 DEF Surveyed, KnownIfs
  <1>2. CASE EnsureJail
    <2>1. /\ at = "jail" /\ at' = "forwarding" /\ UNCHANGED <<hostEnd, seenIfs>>
          /\ \/ UNCHANGED <<jail, seenJails>>
             \/ jail' = jail \cup {rtr} /\ seenJails' = seenJails \cup {rtr}
      BY <1>2, <1>t, EnsureJailSteps DEF JailStep
    <2> QED BY <2>1 DEF Surveyed, KnownIfs
  <1>3. CASE Plumb
    BY <1>3, PlumbWell
  <1>4. CASE DestroyUndesired
    <2>1. PICK i \in Ifs : DestroyEpair(i)
      BY <1>4, <1>t DEF DestroyUndesired, UndesiredIfs, JailTypeOK
    <2>2. EpairGoes(i) /\ KnownIfs'
      BY <2>1, <1>t, EpairGoesSteps, EpairGoesKeeps DEF Surveyed
    <2> QED BY <2>2 DEF Surveyed, EpairGoes
  <1>5. CASE StartRemove
    BY <1>5, Unfold DEF StartRemove, Undesired, UndesiredIfs, Surveyed, KnownIfs
  <1>6. ASSUME NEW j \in Routers, RemoveJail(j) PROVE Surveyed'
    <2>1. /\ at = "remove" /\ UNCHANGED <<at, seenIfs, hostEnd>>
          /\ jail' = jail \ {j} /\ left' = left \ {j}
      BY <1>6, Unfold DEF RemoveJail, JailGoes
    <2> QED BY <2>1 DEF Surveyed, KnownIfs
  <1>7. CASE RemoveState
    BY <1>7, Unfold DEF RemoveState, Surveyed, KnownIfs
  <1> QED BY <1>1, <1>2, <1>3, <1>4, <1>5, <1>6, <1>7 DEF Pass

\* After each command the routes there are and those that are wanted differ by what is
\* left of the orders.
LEMMA OrdersGoWell ==
    ASSUME TypeInv, NEW o \in orders, GiveOrder(o), goal' = goal, ~failed', Made
    PROVE  orders' = RouteOrders(Known(rtr)', Routes(goal[rtr]))
  <1>t. /\ TypeOK /\ InnerTypes /\ OneRoute /\ StageInv /\ goal \in Goals
    BY TypesInParts, RoutesInParts DEF TypeInv, PlaceTypes, PlaceTypeOK
  <1>0. /\ at = "orders" /\ orders' = orders \ {o} /\ UNCHANGED rtr
        /\ rtr \in Scheduled(goal) /\ rtr \in Routers
      BY <1>t, GoalFacts DEF GiveOrder, StageInv, RouterSteps
  <1>k. PICK K, W : K = Known(rtr) /\ W = Routes(goal[rtr])
    OBVIOUS
  <1>s. K \in SUBSET (Destinations \X NextHops) /\ W \in SUBSET (Destinations \X NextHops)
    BY <1>0, <1>k, <1>t, KnownMeans, GoalFacts
  <1>o. orders = RouteOrders(K, W)
    BY <1>0, <1>k DEF Made
  <1>1. CASE o.do = "delete" /\ DeleteRoute(o)
    <2>1. PICK y \in K \ W : o = [do |-> "delete", dest |-> y[1], hop |-> y[2]]
      BY <1>o, <1>1 DEF RouteOrders
    <2>2. route' = [route EXCEPT ![rtr] = @ \ {x \in route[rtr] : x[1] = o.dest}]
      BY <1>1 DEF DeleteRoute, Exec
    <2>3. o.dest = y[1]
      BY <2>1
    <2>4. route'[rtr] = {x \in route[rtr] : x[1] # y[1]}
      BY <2>2, <2>3, <1>0, <1>t DEF InnerTypes
    <2>5. PICK z \in route[rtr] : y = <<z[1], z[2]>>
      BY <1>k, <2>1 DEF Known
    <2>6. y[1] = z[1]
      BY <2>5
    <2>7. \A x \in route[rtr] : x[1] = y[1] => <<x[1], x[2]>> = y
      BY <2>5, <2>6, <1>0, <1>t DEF OneRoute
    <2>8. \A x \in route[rtr] : x[1] # y[1] => <<x[1], x[2]>> # y
      <3>1. \A c, d : <<c, d>>[1] = c
        OBVIOUS
      <3> QED BY <3>1
    <2>9. Known(rtr)' = K \ {y}
      <3>1. {<<x[1], x[2]>> : x \in route'[rtr]} = {<<x[1], x[2]>> : x \in route[rtr]} \ {y}
        BY <2>4, <2>7, <2>8
      <3> QED BY <3>1, <1>0, <1>k DEF Known
    <2>10. RouteOrders(K \ {y}, W) = RouteOrders(K, W) \ {o}
      BY <2>1, <1>s, OrdersShrink
    <2> QED BY <2>9, <2>10, <1>0, <1>k, <1>o
  <1>2. CASE o.do = "add" /\ AddRoute(o)
    <2>1. PICK y \in W \ K : o = [do |-> "add", dest |-> y[1], hop |-> y[2]]
      BY <1>o, <1>2 DEF RouteOrders
    <2>2. PICK u : route' = [route EXCEPT ![rtr] = @ \cup {<<o.dest, o.hop, u>>}]
      BY <1>2 DEF AddRoute, Exec
    <2>3. o.dest = y[1] /\ o.hop = y[2] /\ y = <<y[1], y[2]>>
      BY <2>1, <1>s
    <2>4. route'[rtr] = route[rtr] \cup {<<y[1], y[2], u>>}
      BY <2>2, <2>3, <1>0, <1>t DEF InnerTypes
    <2>5. <<y[1], y[2], u>>[1] = y[1] /\ <<y[1], y[2], u>>[2] = y[2]
      OBVIOUS
    <2>6. Known(rtr)' = K \cup {y}
      <3>1. {<<x[1], x[2]>> : x \in route'[rtr]}
              = {<<x[1], x[2]>> : x \in route[rtr]} \cup {<<y[1], y[2]>>}
        BY <2>4, <2>5
      <3> QED BY <3>1, <2>3, <1>0, <1>k DEF Known
    <2>7. RouteOrders(K \cup {y}, W) = RouteOrders(K, W) \ {o}
      BY <2>1, <1>s, OrdersShrink
    <2> QED BY <2>6, <2>7, <1>0, <1>k, <1>o
  <1> QED BY <1>1, <1>2 DEF GiveOrder

LEMMA MadeNext ==
    ASSUME TypeInv, PairsInv, ~HalvesStay, OwnSlots, Pass, ~StartPass, ~EndPass, goal' = goal,
           ~failed', Surveyed, Made
    PROVE  Made'
  <1>t. /\ JailTypeOK /\ TypeOK /\ StageInv /\ InnerTypes /\ goal \in Goals
    BY TypesInParts DEF TypeInv, PlaceTypes, PlaceTypeOK
  <1>r. PICK r, s : r = rtr /\ s = goal[rtr]
    OBVIOUS
  <1> DEFINE There == {"ports", "routes", "orders", "write", "enable", "load"}
  <1>k. ASSUME NEW p, UNCHANGED <<jail, hostEnd, jailEnd, addr, mangled>>, Plumbed(r, s, p)
        PROVE  Plumbed(r, s, p)'
    BY <1>k DEF Plumbed, Spans, HasAddress, HostUnit, JailUnit, Slot
  <1>b. ASSUME UNCHANGED <<jail, hostEnd, jailEnd, addr, mangled, rtr, ports, complete, forwarding>>,
               at \in There, at' \in There,
               at' = "orders" => orders' = RouteOrders(Known(rtr)', Routes(goal[rtr])),
               at' \in {"write", "enable", "load"} => Known(rtr)' = Routes(goal[rtr]),
               at' = "load" => rtr \in enabled'
        PROVE  Made'
    <2>1. at' \notin PortSteps /\ at \notin PortSteps /\ rtr \in jail /\ rtr \in forwarding
          /\ complete /\ \A p \in Ports(s) \ ports : Plumbed(r, s, p)
      BY <1>b, <1>r DEF Made, RouterSteps, PortSteps, Making
    <2>2. \A p \in Ports(s) \ ports : Plumbed(r, s, p)'
      BY <2>1, <1>b, <1>k
    <2>3. \A p \in Ports(goal'[rtr']) \ ports' : Plumbed(rtr, goal[rtr], p)'
      BY <2>2, <1>b, <1>r DEF Plumbed, Spans, HasAddress, HostUnit, JailUnit, Slot
    <2>4. at' = "orders" => orders' = RouteOrders(Known(rtr), Routes(goal[rtr]))'
      BY <1>b DEF Known, RouteOrders
    <2>5. at' \in {"write", "enable", "load"} => (Known(rtr) = Routes(goal[rtr]))'
      BY <1>b DEF Known
    <2> QED BY <2>1, <2>3, <2>4, <2>5, <1>b DEF Made
  <1>v. ASSUME at' \notin RouterSteps \ {"jail"} PROVE Made'
    BY <1>v DEF Made, RouterSteps, PortSteps, Making
  <1>1. CASE \/ (\E m \in Routers : NextRouter(m)) \/ LoadPf \/ StartCollect
             \/ DestroyUndesired \/ StartRemove \/ (\E j \in Routers : RemoveJail(j))
             \/ RemoveState
    <2>1. at' \in {"jail", "routers", "destroy", "remove", "purge"}
      BY <1>1 DEF NextRouter, LoadPf, StartCollect, DestroyUndesired, DestroyEpair, StartRemove,
             RemoveJail, RemoveState
    <2> QED BY <2>1, <1>v DEF RouterSteps, PortSteps, Making
  <1>2. CASE EnsureJail
    <2>1. /\ at' = "forwarding" /\ UNCHANGED rtr /\ seenJails = jail
          /\ rtr \in jail'
      BY <1>2, <1>t, EnsureJailSteps DEF JailStep, Surveyed
    <2> QED BY <2>1 DEF Made, RouterSteps, PortSteps, Making
  <1>3. CASE EnableForwarding
    <2>1. /\ at' = "ports" /\ UNCHANGED <<rtr, jail>> /\ complete' /\ ports' = Ports(goal[rtr])
          /\ rtr \in forwarding' /\ at = "forwarding"
      BY <1>3, Unfold DEF EnableForwarding, Exec
    <2>2. rtr \in jail'
      BY <2>1 DEF Made, RouterSteps, PortSteps, Making
    <2>3. Ports(goal'[rtr']) \ ports' = {}
      BY <2>1
    <2> QED BY <2>1, <2>2, <2>3 DEF Made, RouterSteps, PortSteps, Making
  <1>4. ASSUME NEW p \in ports, NextPort(p) PROVE Made'
    <2>0. /\ at = "ports" /\ at' = "epair" /\ port' = p /\ ports' = ports \ {p}
          /\ UNCHANGED <<rtr, complete, jail, hostEnd, jailEnd, addr, mangled, forwarding>>
      BY <1>4, Unfold DEF NextPort
    <2>1. /\ rtr \in jail /\ rtr \in forwarding /\ complete
          /\ \A q \in Ports(s) \ ports : Plumbed(r, s, q)
      BY <2>0, <1>r DEF Made, RouterSteps, PortSteps, Making
    <2>2. \A q \in Ports(s) \ ports' : q # p => Plumbed(r, s, q)'
      BY <2>0, <2>1, <1>k
    <2>3. \A q \in Ports(goal'[rtr']) \ ports' : q # port' => Plumbed(rtr, goal[rtr], q)'
      BY <2>0, <2>2, <1>r DEF Plumbed, Spans, HasAddress, HostUnit, JailUnit, Slot
    <2>4. InJail[p.id] = rtr
      <3>1. p \in Ports(goal[rtr]) /\ rtr \in Scheduled(goal)
        BY <2>0, <1>t, <1>4 DEF StageInv, RouterSteps
      <3> QED BY <3>1, <1>t, GoalFacts
    <2>5. MadeSoFar(port.id)'
      BY <2>0, <2>1, <2>4 DEF MadeSoFar, Making
    <2> QED BY <2>0, <2>1, <2>3, <2>5 DEF Made, RouterSteps, PortSteps, Making
  <1>5. CASE Plumb
    BY <1>5, PlumbWell
  <1>6. CASE PortsDone
    <2>1. /\ at = "ports" /\ at' = IF complete THEN "routes" ELSE "write"
          /\ UNCHANGED <<jail, hostEnd, jailEnd, addr, mangled, rtr, ports, complete, forwarding>>
      BY <1>6, Unfold DEF PortsDone
    <2>2. complete
      BY <2>1 DEF Made, RouterSteps, PortSteps, Making
    <2> QED BY <2>1, <2>2, <1>b
  <1>7. CASE ReadRoutes
    <2>1. /\ at = "routes" /\ at' = "orders"
          /\ orders' = RouteOrders(Known(rtr), Routes(goal[rtr]))
          /\ UNCHANGED <<jail, hostEnd, jailEnd, addr, mangled, rtr, ports, complete, forwarding>>
          /\ UNCHANGED route
      BY <1>7, Unfold DEF ReadRoutes
    <2>2. Known(rtr)' = Known(rtr)
      BY <2>1 DEF Known
    <2> QED BY <2>1, <2>2, <1>b
  <1>8. ASSUME NEW o \in orders, GiveOrder(o) PROVE Made'
    <2>1. /\ at = "orders" /\ at' = "orders"
          /\ UNCHANGED <<jail, hostEnd, jailEnd, addr, mangled, rtr, ports, complete, forwarding>>
      BY <1>8, Unfold DEF GiveOrder, DeleteRoute, AddRoute, Exec
    <2>2. orders' = RouteOrders(Known(rtr)', Routes(goal[rtr]))
      BY <1>8, OrdersGoWell
    <2> QED BY <2>1, <2>2, <1>b
  <1>9. CASE OrdersDone
    <2>1. /\ at = "orders" /\ at' = "write" /\ orders = {}
          /\ UNCHANGED <<jail, hostEnd, jailEnd, addr, mangled, rtr, ports, complete, forwarding>>
          /\ UNCHANGED route
      BY <1>9, Unfold DEF OrdersDone
    <2>2. rtr \in Scheduled(goal)
      BY <2>1, <1>t DEF StageInv, RouterSteps
    <2>3. /\ Known(rtr) \in SUBSET (Destinations \X NextHops)
          /\ Routes(goal[rtr]) \in SUBSET (Destinations \X NextHops)
      BY <2>2, <1>t, GoalFacts, KnownMeans
    <2>4. Known(rtr) = Routes(goal[rtr])
      BY <2>1, <2>3, OrdersShrink DEF Made
    <2>5. Known(rtr)' = Known(rtr)
      BY <2>1 DEF Known
    <2> QED BY <2>1, <2>4, <2>5, <1>b
  <1>10. CASE WritePf \/ EnablePf
    <2>1. /\ at \in {"write", "enable"} /\ at' \in {"enable", "load"}
          /\ UNCHANGED <<jail, hostEnd, jailEnd, addr, mangled, rtr, ports, complete, forwarding>>
          /\ UNCHANGED route
      BY <1>10, Unfold DEF WritePf, EnablePf, Exec
    <2>2. at' = "load" => rtr \in enabled'
      BY <1>10, Unfold DEF WritePf, EnablePf, Exec
    <2>3. Known(rtr) = Routes(goal[rtr]) /\ Known(rtr)' = Known(rtr)
      BY <2>1 DEF Made, Known
    <2> QED BY <2>1, <2>2, <2>3, <1>b
  <1> QED BY <1>1, <1>2, <1>3, <1>4, <1>5, <1>6, <1>7, <1>8, <1>9, <1>10 DEF Pass

\* What is done for an epair leaves the ends in other jails where they are.
LEMMA EpairOtherJails ==
    ASSUME JailTypeOK, Tidy, HomeInv, NEW i \in Ifs, NEW bad, EpairStep(i, bad),
           NEW j \in Jails, j # InJail[i], NEW u \in Units, jailEnd[u] \in Within(j)
    PROVE  jailEnd'[u] \in Within(j)
  <1>p. /\ Nowhere \notin Within(j) /\ Host \notin Within(j)
        /\ Slot(i) \notin Within(j) /\ <<InJail[i], Raw>> \notin Within(j)
    BY Places
  <1>0. ASSUME jailEnd' = jailEnd PROVE jailEnd'[u] \in Within(j)
    BY <1>0
  <1>1. CASE Cleared(i)
    <2>1. hostEnd[u] # i /\ jailEnd[u] # Slot(i)
      BY <1>p DEF HomeInv
    <2>2. Destroy(HostUnit(i) \cup JailUnit(i)) \/ jailEnd' = jailEnd
      BY <1>1 DEF Cleared, epairs
    <2> QED BY <2>1, <2>2, <1>0 DEF Destroy, HostUnit, JailUnit
  <1>2. CASE Created(bad)
    <2>1. CASE FirstFree \in Free /\ jailEnd' = [jailEnd EXCEPT ![FirstFree] = Host]
      <3>1. u # FirstFree
        BY <2>1, <1>p DEF Free, Tidy
      <3> QED BY <3>1, <2>1 DEF JailTypeOK
    <2> QED BY <2>1, <1>2, <1>0 DEF Created
  <1>3. CASE Moved(i) \/ JailNamed(i)
    <2>1. CASE /\ jailEnd[unit] \in {Host, <<InJail[i], Raw>>}
               /\ \E x : jailEnd' = [jailEnd EXCEPT ![unit] = x]
      <3>1. u # unit
        BY <2>1, <1>p
      <3> QED BY <3>1, <2>1 DEF JailTypeOK
    <2> QED BY <2>1, <1>3, <1>0 DEF Moved, JailNamed
  <1>4. CASE Looked(i) \/ HostNamed(i) \/ Found(i, bad)
    BY <1>4, <1>0 DEF Looked, HostNamed, Found
  <1> QED BY <1>1, <1>2, <1>3, <1>4 DEF EpairStep

\* Routes are added only to the router that the pass is at.
LEMMA RoutesShrink ==
    ASSUME TypeInv, Pass, NEW r \in Routers, at = "orders" => r # rtr
    PROVE  route'[r] \subseteq route[r]
  <1>t. /\ TypeOK /\ StageInv /\ InnerTypes
    BY TypesInParts DEF TypeInv
  <1>1. CASE Follow
    BY <1>1, <1>t, FollowMeans
  <1>2. CASE route' = route
    BY <1>2
  <1>3. ASSUME NEW o \in orders, GiveOrder(o) PROVE route'[r] \subseteq route[r]
    <2>1. r # rtr
      BY <1>3 DEF GiveOrder
    <2>2. route' = route \/ \E y : route' = [route EXCEPT ![rtr] = y]
      BY <1>3, Unfold DEF GiveOrder, DeleteRoute, AddRoute, Exec
    <2> QED BY <2>1, <2>2, <1>t DEF InnerTypes
  <1>4. ASSUME Plumb PROVE route'[r] \subseteq route[r]
    <2>1. CASE route' = [route EXCEPT ![rtr] = {y \in @ : addr'[y[3]] = addr[y[3]]}]
      BY <2>1, <1>t DEF InnerTypes
    <2> QED BY <2>1, <1>1, <1>2, <1>4, <1>t, PlumbSteps
  <1>5. ASSUME EnableForwarding \/ EnablePf \/ LoadPf PROVE route' = route
    BY <1>5, Unfold DEF EnableForwarding, EnablePf, LoadPf, Exec
  <1>6. ASSUME \/ StartPass \/ (\E m \in Routers : NextRouter(m)) \/ (\E p \in ports : NextPort(p))
               \/ PortsDone \/ ReadRoutes \/ OrdersDone \/ WritePf \/ StartCollect
               \/ StartRemove \/ RemoveState \/ EndPass
        PROVE  route' = route
    BY <1>6, Unfold DEF StartPass, NextRouter, NextPort, PortsDone, ReadRoutes, OrdersDone,
           WritePf, StartCollect, StartRemove, RemoveState, EndPass
  <1>7. ASSUME EnsureJail \/ DestroyUndesired \/ \E j \in Routers : RemoveJail(j)
        PROVE  Follow \/ route' = route
    BY <1>7, Unfold DEF EnsureJail, DestroyUndesired, RemoveJail, KernelFollows
  <1> QED BY <1>1, <1>2, <1>3, <1>4, <1>5, <1>6, <1>7 DEF Pass

\* While the pass is at another router, or before it collects, routes stay.
LEMMA RoutesOfOthers ==
    ASSUME TypeInv, PairsInv, Pass, NEW r \in Scheduled(goal), Finished(r),
           at \in RouterSteps \cup {"routers"}, Known(r) = Routes(goal[r])
    PROVE  Known(r)' = Routes(goal[r])
  <1>t. /\ TypeOK /\ JailTypeOK /\ Tidy /\ StageInv /\ InnerTypes /\ goal \in Goals
        /\ r \in Routers /\ r \in Jails
    BY TypesInParts DEF TypeInv, PlaceTypes, PlaceTypeOK, Scheduled, Routers
  <1>o. Ordinary
    BY DEF Ordinary, Pass
  <1>r. at \in RouterSteps => r # rtr
    BY DEF Finished, RouterSteps, PortSteps, Making
  <1>1. route'[r] \subseteq route[r]
    BY <1>r, <1>t, RoutesShrink DEF RouterSteps
  <1>2. \A x \in route[r] : <<x[1], x[2]>> \in Routes(goal[r])
    BY DEF Known
  <1>3. \A x \in route[r] : x[3] \in Units /\ jailEnd[x[3]] \in Within(r)
    BY <1>t DEF InnerTypes
  <1>4. \A u \in Units : jailEnd[u] \in Within(r) => jailEnd'[u] \in Within(r)
    <2>1. CASE jailEnd' = jailEnd
      BY <2>1
    <2>2. CASE Plumb
      <3>0. rtr \in Scheduled(goal) /\ port \in Ports(goal[rtr]) /\ at \in PortSteps
        BY <2>2, <1>t, PlumbSteps
      <3>1. PICK i \in Ifs : i = port.id /\ InJail[i] = rtr
        BY <3>0, <1>t, GoalFacts
      <3>2. r # InJail[i]
        BY <3>0, <3>1, <1>r DEF RouterSteps
      <3>3. CASE EpairStep(i, "ports")
        BY <3>2, <3>3, <1>t, EpairOtherJails DEF PairsInv
      <3>4. CASE \E a : AddrStep(i, a, "ports")
        BY <3>4 DEF AddrStep
      <3> QED BY <3>1, <3>3, <3>4, <2>2, <1>t, PlumbSteps
    <2>3. CASE EnsureJail
      BY <2>3, <1>t, EnsureJailSteps DEF JailStep
    <2>4. ~DestroyUndesired /\ ~\E j \in Routers : RemoveJail(j)
      BY DEF DestroyUndesired, DestroyEpair, RemoveJail, RouterSteps, PortSteps, Making
    <2> QED BY <2>1, <2>2, <2>3, <2>4, <1>o, InsideSteps
  <1>5. r = rtr => addr' = addr
    <2>1. ASSUME r = rtr PROVE at = "routers"
      BY <2>1, <1>r
    <2>2. ASSUME r = rtr PROVE Inside
      <3>1. at = "routers"
        BY <2>1, <2>2
      <3>2. ~Plumb
        BY <3>1, <1>t, PlumbSteps DEF PortSteps, Making
      <3>3. ~EnsureJail /\ ~DestroyUndesired /\ ~\E j \in Routers : RemoveJail(j)
        BY <3>1 DEF EnsureJail, JailSeen, CreateJail, DestroyUndesired, DestroyEpair, RemoveJail
      <3> QED BY <3>2, <3>3, <1>o, InsideSteps
    <2> QED BY <2>2, InsideSteps
  <1>6. ASSUME NEW x \in route[r] PROVE x \in route'[r]
    BY <1>2, <1>3, <1>4, <1>5, <1>6, <1>o, PassKeepsRoutes
  <1>7. route'[r] = route[r]
    BY <1>1, <1>6
  <1> QED BY <1>7 DEF Known

\* What a router is but for its routes goes on.
LEMMA AssembledKept ==
    ASSUME TypeInv, PairsInv, ~HalvesStay, OwnSlots, Pass, NEW r \in Scheduled(goal),
           NEW s, s = goal[r], Assembled(r, s), Finished(r)
    PROVE  Assembled(r, s)'
  <1>t. /\ TypeOK /\ TextTypes /\ StageInv /\ goal \in Goals /\ r \in Routers
        /\ Ordinary
    BY DEF TypeInv, TypeOK, PlaceTypeOK, Scheduled, Ordinary
  <1>1. r \in forwarding' /\ r \in enabled' /\ pf'[r] = PfText(s)
    BY <1>t, PassKeepsRouter DEF Assembled
  <1>2. r \in jail'
    <2>1. forwarding' \subseteq jail'
      BY InnerNext DEF InnerTypes, Next
    <2> QED BY <2>1, <1>1
  <1>3. ASSUME NEW p \in Ports(s) PROVE Plumbed(r, s, p)'
    <2>1. PICK k, a : k = p.id /\ a = AddressOf(s, p)
      OBVIOUS
    <2>2. r \in jail /\ Led(k, a)
      BY <2>1, <1>3, PlumbedMeans DEF Assembled
    <2>3. r \in jail' /\ Led(k, a)'
      BY <2>1, <2>2, <1>t, PassSpares
    <2> QED BY <2>1, <2>3, PlumbedMeans
  <1>4. file'[r] = file[r]
    <2>1. CASE WritePf
      <3>1. r # rtr
        BY <2>1 DEF WritePf, Finished, RouterSteps
      <3> QED BY <2>1, <3>1, <1>t DEF WritePf, TextTypes
    <2>2. CASE RemoveState
      BY <2>2, <1>t DEF RemoveState
    <2>3. CASE ~WritePf /\ ~RemoveState
      <3>1. file' = file
        BY <2>3, Unfold DEF Pass, StartPass, NextRouter, EnsureJail, EnableForwarding, NextPort,
               Plumb, PortsDone, ReadRoutes, GiveOrder, OrdersDone, EnablePf, LoadPf,
               StartCollect, DestroyUndesired, StartRemove, RemoveJail, EndPass
      <3> QED BY <3>1
    <2> QED BY <2>1, <2>2, <2>3
  <1> QED BY <1>1, <1>2, <1>3, <1>4 DEF Assembled

\* The router that the pass has just been through is as asked for.
LEMMA JustFinished ==
    ASSUME TypeInv, LoadPf, ~failed', Made, NEW r, NEW s, r = rtr, s = goal[r]
    PROVE  Assembled(r, s)' /\ Known(r)' = Routes(s)
  <1>t. /\ TypeOK /\ TextTypes /\ FilesInv /\ StageInv /\ goal \in Goals
    BY TypesInParts DEF TypeInv, TypeOK, PlaceTypeOK
  <1>0. /\ at = "load" /\ UNCHANGED <<jail, hostEnd, jailEnd, addr, mangled, route, forwarding,
                                      enabled, file>>
        /\ (pf' = pf /\ UpToDate) \/ pf' = [pf EXCEPT ![rtr] = file[rtr]]
    BY Unfold DEF LoadPf, Exec
  <1>1. /\ r \in Routers /\ file[r] = PfText(s) /\ ports = {}
    BY <1>0, <1>t, GoalFacts DEF FilesInv, StageInv, RouterSteps, PortSteps, Making
  <1>2. /\ r \in jail /\ r \in forwarding /\ r \in enabled /\ Known(r) = Routes(s)
        /\ \A p \in Ports(s) : Plumbed(r, s, p)
    BY <1>0, <1>1 DEF Made, RouterSteps, PortSteps, Making
  <1>3. pf'[r] = PfText(s)
    BY <1>0, <1>1, <1>t DEF UpToDate, TextTypes
  <1>4. \A p \in Ports(s) : Plumbed(r, s, p)'
    BY <1>0, <1>2 DEF Plumbed, Spans, HasAddress, HostUnit, JailUnit, Slot
  <1>5. Known(r)' = Routes(s)
    BY <1>0, <1>2 DEF Known
  <1> QED BY <1>0, <1>1, <1>2, <1>3, <1>4, <1>5 DEF Assembled

LEMMA AllFinishedNext ==
    ASSUME TypeInv, PairsInv, ~HalvesStay, OwnSlots, Pass, ~StartPass, ~EndPass, goal' = goal,
           ~failed', at # "idle", Surveyed, Made, AllFinished
    PROVE  AllFinished'
  <1>t. TypeOK /\ StageInv /\ goal \in Goals /\ at \in Steps
    BY DEF TypeInv, TypeOK, PlaceTypeOK
  \* A router becomes finished only when its rules are loaded.
  <1>1. ASSUME NEW r \in Scheduled(goal), Finished(r)', ~(LoadPf /\ r = rtr)
        PROVE  Finished(r)
    <2> USE DEF Finished, RouterSteps, PortSteps, Making
    <2>1. CASE \E m \in Routers : NextRouter(m)
      BY <1>1, <2>1 DEF NextRouter
    <2>2. CASE EnsureJail
      <3>1. at' = "forwarding" /\ UNCHANGED <<left, rtr>>
        BY <2>2, <1>t, EnsureJailSteps DEF JailStep
      <3> QED BY <3>1, <1>1
    <2>3. CASE Plumb
      <3>1. at' \in Making \cup {"addrs", "ports"} /\ UNCHANGED <<left, rtr>>
        BY <2>3, <1>t, PlumbWell, PlumbSteps
      <3> QED BY <3>1, <1>1
    <2>4. CASE \/ EnableForwarding \/ (\E p \in ports : NextPort(p)) \/ PortsDone \/ ReadRoutes
               \/ (\E o \in orders : GiveOrder(o)) \/ OrdersDone \/ WritePf \/ EnablePf
      <3>1. at' \in RouterSteps /\ UNCHANGED <<left, rtr>>
        BY <2>4 DEF EnableForwarding, NextPort, PortsDone, ReadRoutes, GiveOrder, OrdersDone,
               WritePf, EnablePf
      <3> QED BY <3>1, <1>1
    <2>5. CASE LoadPf
      <3>1. at' = "routers" /\ UNCHANGED left
        BY <2>5 DEF LoadPf
      <3> QED BY <3>1, <2>5, <1>1
    <2>6. CASE StartCollect
      BY <2>6 DEF StartCollect
    <2>7. CASE \/ DestroyUndesired \/ StartRemove \/ (\E j \in Routers : RemoveJail(j))
               \/ RemoveState
      <3>1. at \in {"destroy", "remove"}
        BY <2>7 DEF DestroyUndesired, DestroyEpair, StartRemove, RemoveJail, RemoveState
      <3> QED BY <3>1
    <2> QED BY <2>1, <2>2, <2>3, <2>4, <2>5, <2>6, <2>7 DEF Pass
  <1>2. at \in Collecting => at' \in Collecting
    BY DEF Pass, NextRouter, EnsureJail, JailSeen, CreateJail, EnableForwarding, NextPort, Plumb,
           EnsureEpair, EpairThere, DestroyBrokenEpair, DestroyBrokenJailIf, NoEpair,
           CreateEpair, NameHostIf, MoveJailIf, NameJailIf, LookAgain, EnsureAddrs, PortsDone,
           ReadRoutes, GiveOrder, OrdersDone, WritePf, EnablePf, LoadPf, StartCollect,
           DestroyUndesired, DestroyEpair, StartRemove, RemoveJail, RemoveState, Collecting
  <1>3. at \notin Collecting => at \in RouterSteps \cup {"routers"}
    BY <1>t DEF Steps, Collecting, RouterSteps, PortSteps, Making
  <1>4. ASSUME NEW r \in Scheduled(goal), NEW s, s = goal[r], Finished(r)'
        PROVE  /\ Assembled(r, s)'
               /\ Known(r)' \subseteq Routes(s)
               /\ at' \notin Collecting => Known(r)' = Routes(s)
    <2>1. CASE LoadPf /\ r = rtr
      BY <2>1, <1>4, JustFinished
    <2>2. CASE ~(LoadPf /\ r = rtr)
      <3>1. /\ Finished(r) /\ Assembled(r, s) /\ Known(r) \subseteq Routes(s)
            /\ at \notin Collecting => Known(r) = Routes(s)
        BY <2>2, <1>1, <1>4 DEF AllFinished
      <3>2. Assembled(r, s)'
        BY <3>1, <1>4, AssembledKept
      <3>3. CASE at \notin Collecting
        BY <3>1, <3>2, <3>3, <1>3, <1>4, RoutesOfOthers
      <3>4. CASE at \in Collecting
        <4>1. r \in Routers /\ at # "orders"
          BY <3>4 DEF Scheduled, Collecting
        <4>2. route'[r] \subseteq route[r]
          BY <4>1, RoutesShrink
        <4>3. Known(r)' \subseteq Known(r)
          BY <4>2 DEF Known
        <4> QED BY <4>3, <3>1, <3>2, <3>4, <1>2
      <3> QED BY <3>3, <3>4
    <2> QED BY <2>1, <2>2
  <1>5. ASSUME NEW r \in Scheduled(goal), Finished(r)'
        PROVE  (/\ Assembled(r, goal[r])
                /\ Known(r) \subseteq Routes(goal[r])
                /\ at \notin Collecting => Known(r) = Routes(goal[r]))'
    <2>1. PICK s : s = goal[r] /\ s = goal'[r]
      OBVIOUS
    <2>2. /\ Assembled(r, s)' /\ Known(r)' \subseteq Routes(s)
          /\ at' \notin Collecting => Known(r)' = Routes(s)
      BY <2>1, <1>4, <1>5
    <2>3. Assembled(r, goal[r])'
      BY <2>1, <2>2 DEF Assembled, Plumbed, Spans, HasAddress, HostUnit, JailUnit, Slot
    <2> QED BY <2>1, <2>2, <2>3 DEF Known
  <1>6. Scheduled(goal)' = Scheduled(goal)
    BY DEF Scheduled
  <1> QED BY <1>5, <1>6 DEF AllFinished

LEMMA GoneNext ==
    ASSUME Pass, goal' = goal
    PROVE  Gone'
  <1>1. CASE RemoveState
    BY <1>1 DEF RemoveState, Gone, Scheduled
  <1>2. CASE ~RemoveState
    <2>1. at' # "purge"
      BY <1>2 DEF Pass, StartPass, NextRouter, EnsureJail, JailSeen, CreateJail,
           EnableForwarding, NextPort, Plumb, EnsureEpair, EpairThere, DestroyBrokenEpair,
           DestroyBrokenJailIf, NoEpair, CreateEpair, NameHostIf, MoveJailIf, NameJailIf,
           LookAgain, EnsureAddrs, PortsDone, ReadRoutes, GiveOrder, OrdersDone, WritePf,
           EnablePf, LoadPf, StartCollect, DestroyUndesired, DestroyEpair, StartRemove,
           RemoveJail, EndPass, Forgotten
    <2> QED BY <2>1 DEF Gone
  <1> QED BY <1>1, <1>2

\* The four parts do not change when nothing happens.
LEMMA CleanStays ==
    ASSUME NothingHappens, goal' = goal
    PROVE  /\ Surveyed => Surveyed'
           /\ Made => Made'
           /\ AllFinished => AllFinished'
           /\ Gone => Gone'
  <1> USE DEF NothingHappens
  <1>1. Surveyed => Surveyed'
    BY DEF Surveyed, KnownIfs, WantedIfs, Scheduled
  <1>2. Made => Made'
    BY DEF Made, MadeSoFar, Slot, Plumbed, Spans, HasAddress, HostUnit, JailUnit,
           Known
  <1>3. AllFinished => AllFinished'
    BY DEF AllFinished, Finished, Assembled, Plumbed, Spans, HasAddress, HostUnit, JailUnit,
           Slot, Known, Scheduled
  <1>4. Gone => Gone'
    BY DEF Gone, Scheduled
  <1> QED BY <1>1, <1>2, <1>3, <1>4

LEMMA CleanNext ==
    ASSUME KeptInv, CleanInv, ~HalvesStay, OwnSlots, Next
    PROVE  CleanInv'
  <1>k. TypeInv /\ PairsInv
    BY DEF KeptInv
  <1> SUFFICES ASSUME ~failed', ~touched', at' # "idle"
               PROVE  Surveyed' /\ Made' /\ AllFinished' /\ Gone'
    BY DEF CleanInv
  <1>1. CASE StartPass
    <2>1. /\ at' = "routers" /\ seenJails' = jail /\ jail' = jail /\ hostEnd' = hostEnd
          /\ seenIfs' = {i \in Ifs : HaveHost(i)} /\ left' = Scheduled(goal) /\ goal' = goal
      BY <1>1, Unfold DEF StartPass
    <2>2. Surveyed'
      BY <2>1 DEF Surveyed, KnownIfs, HaveHost, HostUnit
    <2>3. Made' /\ Gone'
      BY <2>1 DEF Made, Gone, RouterSteps, PortSteps, Making
    <2>4. AllFinished'
      BY <2>1 DEF AllFinished, Finished, Scheduled
    <2> QED BY <2>2, <2>3, <2>4
  <1>2. CASE ~StartPass
    <2>1. /\ at # "idle" /\ ~failed /\ goal' = goal
          /\ Surveyed /\ Made /\ AllFinished /\ Gone
          /\ (Pass /\ ~EndPass) \/ NothingHappens
      BY <1>k, <1>2, CleanSteps
    <2>2. CASE Pass /\ ~EndPass
      BY <2>1, <2>2, <1>k, <1>2, SurveyedNext, MadeNext, AllFinishedNext, GoneNext
    <2>3. CASE NothingHappens
      BY <2>1, <2>3, CleanStays
    <2> QED BY <2>1, <2>2, <2>3
  <1> QED BY <1>1, <1>2

LEMMA CleanUnchanged ==
    ASSUME CleanInv, UNCHANGED vars
    PROVE  CleanInv'
  <1>1. UNCHANGED <<failed, touched, goal, at>> /\ NothingHappens
    BY Unfold DEF vars, NothingHappens
  <1> QED BY <1>1, CleanStays DEF CleanInv

\* A pass whose receipts are all ok, with nobody else at work on the host, has every
\* route in place when it begins to collect, and leaves every router assembled and nothing
\* that is not asked for (l3_agent/reconcile.py:35-119), from whatever crashes, reboots,
\* failed commands and changes by others have left.  Half an epair must be destroyed when
\* the pass says so, and no two ports may share a name in a jail.
THEOREM CleanPassIsEnough ==
    ASSUME ~HalvesStay, OwnSlots
    PROVE  Spec => []CleanPassReconciles
  <1>1. Init => CleanInv
    BY DEF Init, CleanInv
  <1>2. KeptInv /\ CleanInv /\ [Next]_vars => CleanInv'
    BY CleanNext, CleanUnchanged
  <1>3. ASSUME KeptInv, CleanInv PROVE CleanPassReconciles
    <2>0. CASE failed \/ touched
      BY <2>0 DEF CleanPassReconciles
    <2>1. CASE ~failed /\ ~touched
      <3>1. ASSUME at = "routers", left = {}
            PROVE  \A r \in Scheduled(goal) : Known(r) = Routes(goal[r])
        <4>1. AllFinished /\ at \notin Collecting
          BY <2>1, <3>1, <1>3 DEF CleanInv, Collecting
        <4>2. \A r \in Scheduled(goal) : Finished(r)
          BY <3>1 DEF Finished
        <4> QED BY <4>1, <4>2 DEF AllFinished
      <3>2. ASSUME Done
            PROVE  NothingElse(goal) /\ \A r \in Scheduled(goal) : Assembled(r, goal[r])
        <4>1. at = "purge" /\ Surveyed /\ AllFinished /\ Gone
          BY <2>1, <3>2, <1>3 DEF CleanInv, Done
        <4>2. \A r \in Scheduled(goal) : Finished(r)
          BY <4>1 DEF Finished, RouterSteps, PortSteps, Making
        <4>3. \A r \in Scheduled(goal) : Assembled(r, goal[r]) /\ Known(r) \subseteq Routes(goal[r])
          BY <4>1, <4>2 DEF AllFinished
        <4>4. jail = Scheduled(goal)
          BY <4>1, <4>3 DEF Surveyed, Assembled
        <4>5. \A i \in Ifs \ WantedIfs(goal) : ~HaveHost(i)
          BY <4>1 DEF Surveyed, KnownIfs, HaveHost, HostUnit
        <4>6. \A r \in Routers \ Scheduled(goal) : file[r] = NoFile
          BY <4>1 DEF Gone
        <4> QED BY <4>3, <4>4, <4>5, <4>6 DEF NothingElse
      <3> QED BY <3>1, <3>2 DEF CleanPassReconciles
    <2> QED BY <2>0, <2>1
  <1> QED BY <1>1, <1>2, <1>3, KeptInvInit, KeptInvNext, PTL DEF Spec
=============================================================================
