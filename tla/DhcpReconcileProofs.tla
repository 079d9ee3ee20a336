-------------------------- MODULE DhcpReconcileProofs --------------------------
(***************************************************************************)
(* Theorems of the dhcp agent's reconcile pass, for any networks, ports    *)
(* and configurations and any number of faults and changes by others.      *)
(***************************************************************************)
EXTENDS DhcpReconcile, JailProofs

Wiring == Making \cup {"epair", "addrs"}
Ensuring == {"hosts", "opts", "jail", "dnsmasq", "store", "start"} \cup Wiring
Collecting == {"kill", "destroy", "remove", "purge"}

\* Where the pass is, and that it has seen every jail there is.
StageInv ==
    /\ at \in Ensuring => net \in Served(goal)
    /\ at \in Ensuring \cup {"nets"} => left \subseteq Served(goal)
    /\ at \in {"kill", "remove"} => left \cap Served(goal) = {}
    /\ at # "idle" => jail \subseteq seenJails

\* The files of the network are written before anything else is done for it.
FilesInv ==
    /\ at \in Ensuring \ {"hosts"} => file[net]["hosts"] = goal[net].files["hosts"]
    /\ at \in Ensuring \ {"hosts", "opts"} => file[net]["opts"] = goal[net].files["opts"]

\* Each dnsmasq has files to read when it gets a HUP: those of a network go only when
\* its dnsmasq has been killed.
ProcsInv ==
    /\ \A p \in Pids : proc[p] # None => file[proc[p].net] \in [Files -> Contents]
    /\ at \in Collecting => \A p \in Pids : proc[p] # None =>
          proc[p].net \in Served(goal) \/ (at = "kill" /\ proc[p].net \in left)

\* TypeOK in parts.
PlaceTypes ==
    /\ at \in Steps
    /\ want \in Configs /\ goal \in Configs
    /\ left \subseteq Nets /\ net \in Nets \cup {None}
    /\ desires \in Nat /\ misled \subseteq Nets
DiskTypes ==
    /\ file \in [Nets -> [Files -> Contents \cup {None}]]
    /\ cmd \in [Nets -> Args \cup {None}]
    /\ pidfile \in [Nets -> Pids \cup {None}]
    /\ at = "start" => cmd[net] = goal[net].args
ProcTypes ==
    /\ proc \in [Pids -> Process \cup {None}]
    /\ \A p \in Pids : proc[p] # None => proc[p].net \in jail

LEMMA TypesInParts ==
    TypeOK <=> JailTypeOK /\ PlaceTypes /\ rewritten \in BOOLEAN /\ DiskTypes /\ ProcTypes
  BY DEF TypeOK, PlaceTypes, DiskTypes, ProcTypes

LEMMA TypesInPartsNext ==
    TypeOK' <=> /\ JailTypeOK' /\ PlaceTypes' /\ rewritten' \in BOOLEAN /\ DiskTypes'
                /\ ProcTypes'
  BY DEF TypeOK, PlaceTypes, DiskTypes, ProcTypes

TypeInv == TypeOK /\ Tidy /\ StageInv /\ FilesInv /\ ProcsInv

-----------------------------------------------------------------------------
\* What the configuration of a pass asks for a network.
LEMMA GoalFacts ==
    ASSUME goal \in Configs, NEW n \in Served(goal)
    PROVE  /\ n \in Nets /\ goal[n] # Off /\ goal[n].port \in Ifs
           /\ goal[n].files \in [Files -> Contents]
           /\ goal[n].args \in Args /\ goal[n].addr \in Addresses
           /\ InJail[goal[n].port] = n
           /\ goal[n].files["hosts"] \in Contents /\ goal[n].files["opts"] \in Contents
  <1>1. n \in Nets /\ goal[n] # Off
    BY DEF Served
  <1>2. goal[n] \in Service /\ InJail[goal[n].port] = n
    BY <1>1, ConfigsAssumption
  <1> QED BY <1>1, <1>2 DEF Service, Files

\* Networks have ports and places of their own.
LEMMA PortsDiffer ==
    ASSUME goal \in Configs, NEW n \in Served(goal), NEW m \in Served(goal), n # m
    PROVE  goal[n].port # goal[m].port /\ Slot(goal[n].port) # Slot(goal[m].port)
  BY GoalFacts DEF Slot

\* One command of ensure_jail, ensure_epair or ensure_addrs.
LEMMA PlumbSteps ==
    ASSUME TypeOK, StageInv, Plumb
    PROVE  /\ \/ JailStep(net, "epair", "nets")
              \/ EpairStep(goal[net].port, "nets")
              \/ AddrStep(goal[net].port, goal[net].addr, "dnsmasq")
           /\ net \in Served(goal) /\ at \in Wiring \cup {"jail"}
           /\ UNCHANGED <<goal, left, net, rewritten, disk, proc, want, desires, others,
                          touched>>
           /\ misled' = misled \cup
                {n \in {net} : at = "epair" /\ Mispaired(goal[net].port)}
  <1>1. at \in Wiring \cup {"jail"}
    BY DEF Plumb, JailSeen, CreateJail, EnsureEpair, EpairThere, DestroyBrokenEpair,
           DestroyBrokenJailIf, NoEpair, CreateEpair, NameHostIf, MoveJailIf, NameJailIf,
           LookAgain, EnsureAddrs, Wiring, Making
  <1>2. net \in Served(goal)
    BY <1>1 DEF StageInv, Ensuring
  <1>3. net \in Jails /\ goal[net].port \in Ifs /\ JailTypeOK
    BY <1>2, GoalFacts DEF TypeOK, Nets
  <1> QED BY <1>1, <1>2, <1>3, JailSteps, EpairSteps, AddrSteps DEF Plumb

LEMMA Unfold ==
    /\ UNCHANGED plane <=> UNCHANGED <<jail, hostEnd, jailEnd, addr, mangled>>
    /\ UNCHANGED seen <=> UNCHANGED <<seenJails, seenIfs>>
    /\ UNCHANGED disk <=> UNCHANGED <<file, cmd, pidfile>>
    /\ UNCHANGED rest <=> UNCHANGED <<want, desires, others, touched, misled>>
  BY DEF plane, epairs, seen, disk, rest

\* The jails and epairs keep their types and are in order.
LEMMA JailNext ==
    ASSUME TypeInv, Next
    PROVE  JailTypeOK' /\ Tidy'
  <1>t. JailTypeOK /\ Tidy /\ TypeOK
    BY DEF TypeInv, TypeOK
  <1>f. Fault => faults' \in Nat
    BY <1>t, FaultsCount
  <1>0. ASSUME UNCHANGED <<jail, hostEnd, jailEnd, addr, mangled>>,
               unit' \in {unit, Nowhere}, seenJails' \subseteq Jails, seenIfs' \subseteq Ifs,
               failed' \in {failed, TRUE, FALSE}, touched' \in {touched, FALSE},
               others' = others, faults' = faults \/ Fault
        PROVE  JailTypeOK' /\ Tidy'
    <2>1. failed' \in BOOLEAN /\ touched' \in BOOLEAN
      BY <1>0, <1>t DEF JailTypeOK
    <2>2. faults' \in Nat
      BY <1>0, <1>t, <1>f DEF JailTypeOK
    <2>3. JailTypeOK'
      BY <1>0, <1>t, <2>1, <2>2 DEF JailTypeOK
    <2>4. Tidy'
      BY <1>0, <1>t DEF Tidy
    <2> QED BY <2>3, <2>4
  <1>1. ASSUME StartPass PROVE JailTypeOK' /\ Tidy'
    BY <1>0, <1>1, <1>t, Unfold DEF StartPass, JailTypeOK
  <1>2. ASSUME NEW n \in Nets, NextNet(n) PROVE JailTypeOK' /\ Tidy'
    BY <1>0, <1>2, <1>t, Unfold DEF NextNet, JailTypeOK
  <1>3. ASSUME NEW f, NEW next, WriteFile(f, next) PROVE JailTypeOK' /\ Tidy'
    BY <1>0, <1>3, <1>t, Unfold DEF WriteFile, JailTypeOK
  <1>4. ASSUME Plumb PROVE JailTypeOK' /\ Tidy'
    <2>0. StageInv
      BY DEF TypeInv
    <2>1. net \in Served(goal) /\ UNCHANGED <<others, touched>>
      BY <1>4, <1>t, <2>0, PlumbSteps, Unfold
    <2>2. net \in Jails /\ goal[net].port \in Ifs /\ goal[net].addr \in Addresses
      BY <2>1, <1>t, GoalFacts DEF TypeOK, Nets
    <2>3. CASE JailStep(net, "epair", "nets")
      <3>1. JailTypeOK'
        BY <2>1, <2>2, <2>3, <1>t, JailStepTypes
      <3>2. Tidy'
        BY <2>3, <1>t DEF JailStep, Tidy
      <3> QED BY <3>1, <3>2
    <2>4. CASE EpairStep(goal[net].port, "nets")
      BY <2>1, <2>2, <2>4, <1>t, EpairTypes, EpairTidy
    <2>5. CASE AddrStep(goal[net].port, goal[net].addr, "dnsmasq")
      <3>1. JailTypeOK'
        BY <2>1, <2>2, <2>5, <1>t, AddrTypes
      <3>2. Tidy'
        BY <2>5, <1>t DEF AddrStep, Tidy
      <3> QED BY <3>1, <3>2
    <2> QED BY <2>3, <2>4, <2>5, <1>4, <1>t, <2>0, PlumbSteps
  <1>5. ASSUME Dnsmasq \/ StoreCmd \/ StartCollect \/ StartRemove \/ RemoveState
        PROVE  JailTypeOK' /\ Tidy'
    BY <1>0, <1>5, <1>t, Unfold DEF Dnsmasq, StoreCmd, StartCollect, StartRemove,
                                    RemoveState, JailTypeOK
  <1>6. ASSUME StartDnsmasq PROVE JailTypeOK' /\ Tidy'
    BY <1>0, <1>6, <1>t, Unfold DEF StartDnsmasq, JailTypeOK
  <1>7. ASSUME NEW j \in Jails, KillJailProcs(j) PROVE JailTypeOK' /\ Tidy'
    BY <1>0, <1>7, <1>t, Unfold DEF KillJailProcs, JailTypeOK
  <1>8. ASSUME DestroyUndesired PROVE JailTypeOK' /\ Tidy'
    <2>0. UNCHANGED <<others, touched>>
      BY <1>8, Unfold DEF DestroyUndesired
    <2>1. CASE \E i \in seenIfs \ WantedIfs(goal) : DestroyEpair(i)
      <3>1. PICK i \in Ifs : DestroyEpair(i)
        BY <2>1, <1>t DEF JailTypeOK
      <3>2. EpairGoes(i)
        BY <3>1, <1>t, EpairGoesSteps
      <3> QED BY <3>2, <2>0, <1>t, EpairGoesKeeps
    <2>2. CASE UNCHANGED <<plane, unit, seen, failed, faults>>
      BY <1>0, <2>0, <2>2, <1>t, Unfold DEF JailTypeOK
    <2> QED BY <1>8, <2>1, <2>2 DEF DestroyUndesired
  <1>9. ASSUME NEW j \in Jails, RemoveJail(j) PROVE JailTypeOK' /\ Tidy'
    <2>0. UNCHANGED <<others, touched, unit, seenJails, seenIfs>>
      BY <1>9, Unfold DEF RemoveJail
    <2>1. CASE JailGoes(j) /\ UNCHANGED <<failed, faults>>
      <3>1. KernelTypes' /\ Tidy'
        BY <2>1, <1>t, GoneTypes, JailGoesKeeps
      <3> QED BY <3>1, <2>0, <2>1, <1>t DEF KernelTypes, JailTypeOK
    <2>2. CASE /\ failed' = TRUE /\ UNCHANGED plane
               /\ IF j \in jail THEN Fault ELSE UNCHANGED faults
      BY <1>0, <2>0, <2>2, <1>t, Unfold DEF JailTypeOK
    <2> QED BY <1>9, <2>1, <2>2 DEF RemoveJail
  <1>10. ASSUME EndPass PROVE JailTypeOK' /\ Tidy'
    BY <1>0, <1>10, <1>t, Unfold DEF EndPass, Forgotten, JailTypeOK
  <1>11. ASSUME Crash PROVE JailTypeOK' /\ Tidy'
    BY <1>0, <1>11, <1>t, Unfold DEF Crash, Forget, Forgotten, JailTypeOK
  <1>12. ASSUME Reboot PROVE JailTypeOK' /\ Tidy'
    <2>1. KernelTypes' /\ Tidy'
      BY <1>12, <1>t, RebootKeeps DEF Reboot
    <2>2. /\ unit' = Nowhere /\ seenJails' = {} /\ seenIfs' = {} /\ failed' = FALSE
          /\ touched' = FALSE /\ others' = others
      BY <1>12 DEF Reboot, Forget, Forgotten
    <2>3. faults' \in Nat
      BY <1>12, <1>f DEF Reboot
    <2> QED BY <2>1, <2>2, <2>3, <1>t DEF KernelTypes, JailTypeOK
  <1>13. ASSUME NEW c \in Configs, Desire(c) PROVE JailTypeOK' /\ Tidy'
    BY <1>0, <1>13, <1>t, Unfold DEF Desire, JailTypeOK
  <1>14. ASSUME NEW p \in Pids, DnsmasqDies(p) PROVE JailTypeOK' /\ Tidy'
    <2>1. /\ UNCHANGED <<jail, hostEnd, jailEnd, addr, mangled>> /\ Other
          /\ UNCHANGED <<unit, seenJails, seenIfs, failed, faults>>
      BY <1>14, Unfold DEF DnsmasqDies, passVars
    <2> QED BY <2>1, <1>t, OtherFacts DEF JailTypeOK, Tidy
  <1>15. ASSUME NEW j \in Jails, OperatorRemovesJail(j) PROVE JailTypeOK' /\ Tidy'
    <2>1. /\ JailGoes(j) /\ Other
          /\ UNCHANGED <<unit, seenJails, seenIfs, failed, faults>>
      BY <1>15, Unfold DEF OperatorRemovesJail, passVars
    <2>2. KernelTypes' /\ Tidy'
      BY <2>1, <1>t, GoneTypes, JailGoesKeeps
    <2> QED BY <2>1, <2>2, <1>t, OtherFacts DEF KernelTypes, JailTypeOK
  <1>16. ASSUME NEW i \in Ifs, OperatorTouchesEpair(i) PROVE JailTypeOK' /\ Tidy'
    BY <1>16, <1>t, OperatorKeeps DEF OperatorTouchesEpair
  <1> QED BY <1>1, <1>2, <1>3, <1>4, <1>5, <1>6, <1>7, <1>8, <1>9, <1>10, <1>11, <1>12,
             <1>13, <1>14, <1>15, <1>16 DEF Next, Pass, Others

-----------------------------------------------------------------------------
(* Where the pass is.                                                       *)

\* The steps of Next that are in the middle of a network.
LEMMA PlaceNext ==
    ASSUME TypeInv, Next
    PROVE  PlaceTypes' /\ StageInv'
  <1>t. TypeOK /\ PlaceTypes /\ StageInv /\ goal \in Configs /\ seenJails \subseteq Jails
    BY TypesInParts DEF TypeInv, TypeOK, JailTypeOK
  <1> USE DEF PlaceTypes, StageInv, Steps, Ensuring, Wiring, Making
  <1>1. ASSUME StartPass PROVE PlaceTypes' /\ StageInv'
    BY <1>1, <1>t, Unfold DEF StartPass, Served
  <1>2. ASSUME NEW n \in Nets, NextNet(n) PROVE PlaceTypes' /\ StageInv'
    BY <1>2, <1>t, Unfold DEF NextNet
  <1>3. ASSUME WriteFile("hosts", "opts") \/ WriteFile("opts", "jail")
        PROVE  PlaceTypes' /\ StageInv'
    BY <1>3, <1>t, Unfold DEF WriteFile
  <1>4. ASSUME Plumb PROVE PlaceTypes' /\ StageInv'
    <2>0. net \in Served(goal) /\ UNCHANGED <<goal, left, net, want, desires>>
          /\ misled' \subseteq misled \cup {net} /\ net \in Nets
      BY <1>4, <1>t, PlumbSteps, Unfold DEF Served
    <2>1. CASE JailStep(net, "epair", "nets")
      BY <2>0, <2>1, <1>t DEF JailStep
    <2>2. CASE EpairStep(goal[net].port, "nets")
      <3>1. /\ at' \in {"addrs", "create", "namehost", "move", "namejail", "named", "nets"}
            /\ at # "idle" /\ jail' = jail /\ seenJails' = seenJails
        BY <2>2 DEF EpairStep, Looked, Cleared, Created, HostNamed, Moved, JailNamed, Found
      <3> QED BY <3>1, <2>0, <1>4, <1>t, PlumbSteps
    <2>3. CASE AddrStep(goal[net].port, goal[net].addr, "dnsmasq")
      BY <2>0, <2>3, <1>t DEF AddrStep
    <2> QED BY <2>1, <2>2, <2>3, <1>4, <1>t, PlumbSteps
  <1>5. ASSUME Dnsmasq PROVE PlaceTypes' /\ StageInv'
    <2>1. at = "dnsmasq" /\ at' \in {"store", "nets"}
      BY <1>5 DEF Dnsmasq
    <2>2. misled' \subseteq Nets
      BY <1>5, <1>t DEF Dnsmasq, MixedUp
    <2> QED BY <2>1, <2>2, <1>5, <1>t, Unfold DEF Dnsmasq
  <1>6. ASSUME StoreCmd \/ StartDnsmasq \/ StartRemove \/ RemoveState
        PROVE  PlaceTypes' /\ StageInv'
    BY <1>6, <1>t, Unfold DEF StoreCmd, StartDnsmasq, StartRemove, RemoveState, Undesired, Nets
  <1>7. ASSUME StartCollect PROVE PlaceTypes' /\ StageInv'
    BY <1>7, <1>t, Unfold DEF StartCollect, Undesired, Nets
  <1>8. ASSUME NEW j \in Jails, KillJailProcs(j) PROVE PlaceTypes' /\ StageInv'
    BY <1>8, <1>t, Unfold DEF KillJailProcs
  <1>9. ASSUME DestroyUndesired PROVE PlaceTypes' /\ StageInv'
    <2>1. CASE \E i \in seenIfs \ WantedIfs(goal) : DestroyEpair(i)
      <3>1. at = "destroy" /\ UNCHANGED <<at, jail, seenJails>>
        BY <2>1, Unfold DEF DestroyEpair, Do, Destroy
      <3> QED BY <3>1, <1>9, <1>t, Unfold DEF DestroyUndesired
    <2>2. CASE at = "kill" /\ at' = "destroy" /\ UNCHANGED <<plane, unit, seen>>
      BY <2>2, <1>9, <1>t, Unfold DEF DestroyUndesired
    <2> QED BY <2>1, <2>2, <1>9 DEF DestroyUndesired
  <1>10. ASSUME NEW j \in Jails, RemoveJail(j) PROVE PlaceTypes' /\ StageInv'
    <2>1. jail' \subseteq jail
      BY <1>10, Unfold DEF RemoveJail, JailGoes
    <2> QED BY <2>1, <1>10, <1>t, Unfold DEF RemoveJail
  <1>11. ASSUME EndPass PROVE PlaceTypes' /\ StageInv'
    BY <1>11, <1>t, Unfold DEF EndPass, Forgotten, Done
  <1>12. ASSUME Crash \/ Reboot PROVE PlaceTypes' /\ StageInv'
    BY <1>12, <1>t DEF Crash, Reboot, Forget, Forgotten
  <1>13. ASSUME NEW c \in Configs, Desire(c) PROVE PlaceTypes' /\ StageInv'
    BY <1>13, <1>t, Unfold DEF Desire
  <1>14. ASSUME NEW p \in Pids, DnsmasqDies(p) PROVE PlaceTypes' /\ StageInv'
    BY <1>14, <1>t, Unfold DEF DnsmasqDies, passVars
  <1>15. ASSUME NEW j \in Jails, OperatorRemovesJail(j) PROVE PlaceTypes' /\ StageInv'
    <2>1. jail' \subseteq jail
      BY <1>15 DEF OperatorRemovesJail, JailGoes
    <2> QED BY <2>1, <1>15, <1>t, Unfold DEF OperatorRemovesJail, passVars
  <1>16. ASSUME NEW i \in Ifs, OperatorTouchesEpair(i) PROVE PlaceTypes' /\ StageInv'
    <2>1. UNCHANGED <<jail, at, unit, seenJails>>
      BY <1>16, Unfold DEF OperatorTouchesEpair, OperatorDestroysEpair, OperatorMangles
    <2> QED BY <2>1, <1>16, <1>t, Unfold DEF OperatorTouchesEpair
  <1> QED BY <1>1, <1>2, <1>3, <1>4, <1>5, <1>6, <1>7, <1>8, <1>9, <1>10, <1>11, <1>12,
             <1>13, <1>14, <1>15, <1>16 DEF Next, Pass, Others

-----------------------------------------------------------------------------
(* The files.                                                               *)

LEMMA DiskNext ==
    ASSUME TypeInv, Next
    PROVE  DiskTypes' /\ FilesInv' /\ rewritten' \in BOOLEAN
  <1>t. /\ TypeOK /\ DiskTypes /\ StageInv /\ FilesInv /\ goal \in Configs
        /\ rewritten \in BOOLEAN
    BY TypesInParts DEF TypeInv, TypeOK
  <1>n. at \in Ensuring => /\ net \in Nets /\ goal[net].files["hosts"] \in Contents
                           /\ goal[net].files["opts"] \in Contents /\ goal[net].args \in Args
    BY <1>t, GoalFacts DEF StageInv
  <1>0. ASSUME UNCHANGED disk, rewritten' \in {rewritten, FALSE},
               \/ at' \in {"idle", "nets", "hosts"} \cup Collecting
               \/ UNCHANGED <<at, net, goal>>
               \/ /\ UNCHANGED <<net, goal>> /\ at \in Wiring \cup {"jail", "dnsmasq"}
                  /\ at' \in Wiring \cup {"dnsmasq", "store"}
        PROVE  DiskTypes' /\ FilesInv' /\ rewritten' \in BOOLEAN
    <2>1. DiskTypes'
      BY <1>0, <1>t, Unfold DEF DiskTypes, Wiring, Making, Collecting
    <2>2. FilesInv'
      BY <1>0, <1>t, Unfold DEF FilesInv, Ensuring, Wiring, Making, Collecting
    <2> QED BY <2>1, <2>2, <1>0, <1>t
  <1>1. ASSUME NEW f \in Files, NEW next, WriteFile(f, next),
               (f = "hosts" /\ next = "opts") \/ (f = "opts" /\ next = "jail")
        PROVE  DiskTypes' /\ FilesInv' /\ rewritten' \in BOOLEAN
    <2>1. /\ at = f /\ at' = next /\ file' = [file EXCEPT ![net][f] = goal[net].files[f]]
          /\ UNCHANGED <<cmd, pidfile, net, goal>>
      BY <1>1 DEF WriteFile
    <2>2. net \in Nets /\ goal[net].files[f] \in Contents
      BY <2>1, <1>1, <1>n DEF Ensuring
    <2>3. DiskTypes'
      BY <2>1, <2>2, <1>1, <1>t DEF DiskTypes
    <2>4. FilesInv'
      BY <2>1, <2>2, <1>1, <1>t DEF FilesInv, DiskTypes, Ensuring, Wiring, Making, Files
    <2>5. rewritten' = (rewritten \/ Changed(f))
      BY <1>1 DEF WriteFile, Dirty
    <2>6. rewritten' \in BOOLEAN
      BY <2>5, <1>t
    <2> QED BY <2>3, <2>4, <2>6
  <1>2. ASSUME StoreCmd PROVE DiskTypes' /\ FilesInv' /\ rewritten' \in BOOLEAN
    <2>1. /\ at = "store" /\ at' = "start" /\ cmd' = [cmd EXCEPT ![net] = goal[net].args]
          /\ UNCHANGED <<file, pidfile, net, goal, rewritten>>
      BY <1>2 DEF StoreCmd
    <2>2. net \in Nets /\ goal[net].args \in Args
      BY <2>1, <1>n DEF Ensuring
    <2>3. DiskTypes'
      BY <2>1, <2>2, <1>t DEF DiskTypes
    <2>4. FilesInv'
      BY <2>1, <1>t DEF FilesInv, Ensuring, Wiring, Making
    <2> QED BY <2>1, <2>3, <2>4, <1>t
  <1>3. ASSUME StartDnsmasq PROVE DiskTypes' /\ FilesInv' /\ rewritten' \in BOOLEAN
    <2>1. /\ at = "start" /\ at' = "nets" /\ UNCHANGED <<file, cmd, net, goal, rewritten>>
          /\ pidfile' = pidfile \/ \E p \in NewPids : pidfile' = [pidfile EXCEPT ![net] = p]
      BY <1>3 DEF StartDnsmasq
    <2>2. pidfile' \in [Nets -> Pids \cup {None}]
      BY <2>1, <1>t DEF DiskTypes, NewPids, FreePids, StalePids
    <2> QED BY <2>1, <2>2, <1>t DEF DiskTypes, FilesInv, Ensuring, Wiring, Making
  <1>4. ASSUME RemoveState PROVE DiskTypes' /\ FilesInv' /\ rewritten' \in BOOLEAN
    BY <1>4, <1>t DEF RemoveState, Purged, NoFiles, DiskTypes, FilesInv, Ensuring, Wiring, Making
  <1>5. ASSUME Plumb PROVE DiskTypes' /\ FilesInv' /\ rewritten' \in BOOLEAN
    <2>0. UNCHANGED <<disk, goal, net, rewritten>> /\ at \in Wiring \cup {"jail"}
      BY <1>5, <1>t, PlumbSteps
    <2>1. at' \in Wiring \cup {"dnsmasq", "nets"}
      <3>1. CASE JailStep(net, "epair", "nets")
        BY <3>1 DEF JailStep, Wiring
      <3>2. CASE EpairStep(goal[net].port, "nets")
        BY <3>2 DEF EpairStep, Looked, Cleared, Created, HostNamed, Moved, JailNamed, Found,
                    Wiring, Making
      <3>3. CASE AddrStep(goal[net].port, goal[net].addr, "dnsmasq")
        BY <3>3 DEF AddrStep
      <3> QED BY <3>1, <3>2, <3>3, <1>5, <1>t, PlumbSteps
    <2> QED BY <2>0, <2>1, <1>0
  <1>6. ASSUME StartPass \/ (\E n \in Nets : NextNet(n)) \/ StartCollect \/ StartRemove
                 \/ EndPass \/ Crash \/ Reboot
        PROVE  DiskTypes' /\ FilesInv' /\ rewritten' \in BOOLEAN
    BY <1>6, <1>0, <1>t DEF StartPass, NextNet, StartCollect, StartRemove, EndPass, Crash,
                            Reboot, Forget, Forgotten, Collecting
  <1>7. ASSUME Dnsmasq PROVE DiskTypes' /\ FilesInv' /\ rewritten' \in BOOLEAN
    <2>1. at = "dnsmasq" /\ at' \in {"store", "nets"} /\ UNCHANGED <<disk, net, goal, rewritten>>
      BY <1>7 DEF Dnsmasq
    <2> QED BY <2>1, <1>0
  <1>8. ASSUME NEW j \in Jails, KillJailProcs(j) \/ RemoveJail(j)
        PROVE  DiskTypes' /\ FilesInv' /\ rewritten' \in BOOLEAN
    BY <1>8, <1>0 DEF KillJailProcs, RemoveJail
  <1>9. ASSUME DestroyUndesired PROVE DiskTypes' /\ FilesInv' /\ rewritten' \in BOOLEAN
    <2>1. UNCHANGED <<disk, net, goal, rewritten>> /\ (at' = at \/ at' = "destroy")
      BY <1>9 DEF DestroyUndesired, DestroyEpair
    <2> QED BY <2>1, <1>0 DEF Collecting
  <1>10. ASSUME NEW c \in Configs, Desire(c)
         PROVE  DiskTypes' /\ FilesInv' /\ rewritten' \in BOOLEAN
    <2>1. UNCHANGED <<at, net, disk, rewritten>> /\ (at = "idle" \/ goal' = goal)
      BY <1>10 DEF Desire
    <2> QED BY <2>1, <1>0
  <1>11. ASSUME \/ \E p \in Pids : DnsmasqDies(p)
                \/ \E j \in Jails : OperatorRemovesJail(j)
                \/ \E i \in Ifs : OperatorTouchesEpair(i)
         PROVE  DiskTypes' /\ FilesInv' /\ rewritten' \in BOOLEAN
    <2>1. UNCHANGED <<at, net, goal, disk, rewritten>>
      BY <1>11 DEF DnsmasqDies, OperatorRemovesJail, OperatorTouchesEpair, passVars,
                   OperatorDestroysEpair, OperatorMangles
    <2> QED BY <2>1, <1>0
  <1> QED BY <1>1, <1>2, <1>3, <1>4, <1>5, <1>6, <1>7, <1>8, <1>9, <1>10, <1>11
          DEF Next, Pass, Others, Files

-----------------------------------------------------------------------------
(* The processes.                                                           *)

\* A process is in a jail and has its files.
Sound(p) == proc[p] # None => proc[p].net \in jail /\ file[proc[p].net] \in [Files -> Contents]

LEMMA ProcNext ==
    ASSUME TypeInv, Next
    PROVE  ProcTypes' /\ ProcsInv'
  <1>t. /\ TypeOK /\ ProcTypes /\ DiskTypes /\ StageInv /\ FilesInv /\ ProcsInv /\ Tidy
        /\ goal \in Configs
    BY TypesInParts DEF TypeInv, TypeOK
  <1>r. \A p \in Pids : proc[p] # None =>
            /\ proc[p] \in Process /\ proc[p].net \in Nets
            /\ proc[p].net \in jail /\ file[proc[p].net] \in [Files -> Contents]
    BY <1>t DEF ProcTypes, ProcsInv, Process
  <1>d. DiskTypes' /\ goal' \in Configs
    BY DiskNext, PlaceNext DEF PlaceTypes
  \* Processes go, jails without processes go, files are untouched.
  <1>0. ASSUME \A p \in Pids : proc'[p] \in {proc[p], None}, proc' \in [Pids -> Process \cup {None}],
               \A p \in Pids : proc'[p] # None /\ proc[p].net \in jail => proc[p].net \in jail',
               file' = file,
               \/ at' \notin Collecting
               \/ /\ goal' = goal /\ at \in Collecting
                  /\ \A p \in Pids : proc'[p] # None /\ at = "kill" /\ proc[p].net \in left
                       => at' = "kill" /\ proc[p].net \in left'
        PROVE  ProcTypes' /\ ProcsInv'
    BY <1>0, <1>r, <1>t DEF ProcTypes, ProcsInv
  <1>w. ASSUME NEW S, proc' = Without(S)
        PROVE  /\ \A p \in Pids : proc'[p] \in {proc[p], None}
               /\ proc' \in [Pids -> Process \cup {None}]
               /\ \A p \in Pids : proc'[p] # None => proc[p].net \notin S
    BY <1>w, <1>t DEF Without, ProcTypes
  <1>1. ASSUME NEW f \in Files, NEW next, WriteFile(f, next),
               (f = "hosts" /\ next = "opts") \/ (f = "opts" /\ next = "jail")
        PROVE  ProcTypes' /\ ProcsInv'
    <2>1. /\ at = f /\ at' = next /\ file' = [file EXCEPT ![net][f] = goal[net].files[f]]
          /\ UNCHANGED <<proc, jail>>
      BY <1>1, Unfold DEF WriteFile
    <2>2. net \in Nets /\ goal[net].files[f] \in Contents
      BY <2>1, <1>1, <1>t, GoalFacts DEF StageInv, Ensuring
    <2>3. \A n \in Nets : file[n] \in [Files -> Contents] => file'[n] \in [Files -> Contents]
      BY <2>1, <2>2, <1>t DEF DiskTypes
    <2> QED BY <2>1, <2>3, <1>r, <1>t, <1>1 DEF ProcTypes, ProcsInv, Collecting
  <1>2. ASSUME RemoveState PROVE ProcTypes' /\ ProcsInv'
    <2>1. \A p \in Pids : proc[p] # None => proc[p].net \in Served(goal)
      BY <1>2, <1>t DEF RemoveState, ProcsInv, Collecting
    <2>2. /\ \A n \in Nets : n \in Served(goal) => file'[n] = file[n]
          /\ UNCHANGED <<proc, jail, goal>> /\ at' = "purge"
      BY <1>2, Unfold DEF RemoveState, Purged
    <2> QED BY <2>1, <2>2, <1>r, <1>t DEF ProcTypes, ProcsInv
  <1>3. ASSUME Dnsmasq PROVE ProcTypes' /\ ProcsInv'
    <2>1. /\ UNCHANGED <<jail, file>> /\ at' \notin Collecting
          /\ \/ proc' = proc
             \/ proc' = [proc EXCEPT ![pidfile[net]] = None]
             \/ /\ proc[pidfile[net]] # None /\ pidfile[net] # None
                /\ proc' = [proc EXCEPT ![pidfile[net]].loaded = file[proc[pidfile[net]].net]]
      BY <1>3, Unfold DEF Dnsmasq, Alive, Collecting
    <2>2. net \in Nets /\ pidfile[net] \in Pids \cup {None}
      BY <1>3, <1>t, GoalFacts DEF Dnsmasq, StageInv, Ensuring, DiskTypes
    <2>3. CASE proc' = proc \/ proc' = [proc EXCEPT ![pidfile[net]] = None]
      BY <2>1, <2>3, <1>0, <1>t DEF ProcTypes
    <2>4. CASE /\ proc[pidfile[net]] # None /\ pidfile[net] # None
               /\ proc' = [proc EXCEPT ![pidfile[net]].loaded = file[proc[pidfile[net]].net]]
      <3>1. pidfile[net] \in Pids
        BY <2>2, <2>4
      <3>2. /\ proc[pidfile[net]] \in Process
            /\ file[proc[pidfile[net]].net] \in [Files -> Contents]
        BY <3>1, <2>4, <1>r
      <3>3. [proc[pidfile[net]] EXCEPT !.loaded = file[proc[pidfile[net]].net]] \in Process
        BY <3>2 DEF Process
      <3>4. proc' \in [Pids -> Process \cup {None}]
        BY <3>3, <2>4, <1>t DEF ProcTypes
      <3>5. \A p \in Pids : proc'[p] # None => proc[p] # None /\ proc'[p].net = proc[p].net
        BY <3>1, <3>2, <2>4, <1>t DEF ProcTypes, Process
      <3> QED BY <3>4, <3>5, <2>1, <1>r DEF ProcTypes, ProcsInv
    <2> QED BY <2>1, <2>3, <2>4
  <1>4. ASSUME StartDnsmasq PROVE ProcTypes' /\ ProcsInv'
    <2>1. /\ UNCHANGED <<jail, file>> /\ at' \notin Collecting /\ at = "start"
          /\ \/ proc' = proc
             \/ /\ HaveJail(goal[net].port)
                /\ \E p \in NewPids : proc' = [proc EXCEPT ![p] =
                      [net |-> net, args |-> goal[net].args, loaded |-> file[net]]]
      BY <1>4, Unfold DEF StartDnsmasq, Collecting, CanServe
    <2>2. net \in Served(goal)
      BY <2>1, <1>t DEF StageInv, Ensuring
    <2>3. /\ net \in Nets /\ goal[net].args \in Args /\ goal[net].port \in Ifs
          /\ InJail[goal[net].port] = net
          /\ goal[net].files["hosts"] \in Contents /\ goal[net].files["opts"] \in Contents
      BY <2>2, <1>t, GoalFacts
    <2>4. file[net] \in [Files -> Contents]
      BY <2>1, <2>3, <1>t DEF FilesInv, Ensuring, Wiring, Making, Files, DiskTypes
    <2>5. CASE proc' = proc
      BY <2>1, <2>5, <1>0, <1>t DEF ProcTypes
    <2>6. CASE /\ HaveJail(goal[net].port)
               /\ \E p \in NewPids : proc' = [proc EXCEPT ![p] =
                     [net |-> net, args |-> goal[net].args, loaded |-> file[net]]]
      <3>1. net \in jail
        <4>1. PICK u \in Units : jailEnd[u] = Slot(goal[net].port)
          BY <2>6 DEF HaveJail, JailUnit
        <4>2. Slot(goal[net].port) \in Within(net) /\ net \in Jails
          BY <2>3, Places
        <4> QED BY <4>1, <4>2, <1>t DEF Tidy
      <3>2. PICK p \in Pids : proc' = [proc EXCEPT ![p] =
                     [net |-> net, args |-> goal[net].args, loaded |-> file[net]]]
        BY <2>6 DEF NewPids, FreePids, StalePids
      <3>3. [net |-> net, args |-> goal[net].args, loaded |-> file[net]] \in Process
        BY <2>3, <2>4 DEF Process
      <3> QED BY <2>1, <2>3, <2>4, <3>1, <3>2, <3>3, <1>r, <1>t DEF ProcTypes, ProcsInv
    <2> QED BY <2>1, <2>5, <2>6
  <1>5. ASSUME NEW j \in Jails, KillJailProcs(j) PROVE ProcTypes' /\ ProcsInv'
    BY <1>5, <1>0, <1>w, Unfold DEF KillJailProcs
  <1>6. ASSUME NEW j \in Jails, RemoveJail(j) PROVE ProcTypes' /\ ProcsInv'
    <2>1. /\ at = "remove" /\ UNCHANGED <<at, file, goal>>
          /\ \/ jail' = jail \ {j} /\ proc' = Without({j})
             \/ UNCHANGED <<jail, proc>>
      BY <1>6, Unfold DEF RemoveJail, JailGoes
    <2> QED BY <2>1, <1>0, <1>w, <1>t DEF ProcTypes, Collecting
  <1>7. ASSUME NEW j \in Jails, OperatorRemovesJail(j) PROVE ProcTypes' /\ ProcsInv'
    <2>1. /\ UNCHANGED <<at, file, goal, left>> /\ jail' = jail \ {j} /\ proc' = Without({j})
      BY <1>7, Unfold DEF OperatorRemovesJail, JailGoes, passVars
    <2> QED BY <2>1, <1>0, <1>w
  <1>8. ASSUME NEW p \in Pids, DnsmasqDies(p) PROVE ProcTypes' /\ ProcsInv'
    <2>1. UNCHANGED <<at, file, goal, left, jail>> /\ proc' = [proc EXCEPT ![p] = None]
      BY <1>8, Unfold DEF DnsmasqDies, passVars
    <2> QED BY <2>1, <1>0, <1>t DEF ProcTypes
  <1>9. ASSUME Reboot PROVE ProcTypes' /\ ProcsInv'
    BY <1>9 DEF Reboot, ProcTypes, ProcsInv
  <1>10. ASSUME StartCollect PROVE ProcTypes' /\ ProcsInv'
    <2>1. /\ UNCHANGED <<proc, file, goal, jail>> /\ at' = "kill" /\ at = "nets"
          /\ left' = seenJails \ Served(goal) /\ jail \subseteq seenJails
      BY <1>10, <1>t, Unfold DEF StartCollect, Undesired, StageInv
    <2> QED BY <2>1, <1>r, <1>t DEF ProcTypes, ProcsInv
  <1>11. ASSUME DestroyUndesired \/ StartRemove PROVE ProcTypes' /\ ProcsInv'
    <2>1. /\ UNCHANGED <<proc, file, goal, jail>> /\ at \in Collecting
          /\ at = "kill" => left = {}
      BY <1>11, Unfold DEF DestroyUndesired, StartRemove, DestroyEpair, Do, Collecting
    <2> QED BY <2>1, <1>0, <1>t DEF ProcTypes
  <1>12. ASSUME Plumb PROVE ProcTypes' /\ ProcsInv'
    <2>1. UNCHANGED <<proc, file>> /\ jail \subseteq jail' /\ at' \notin Collecting
      BY <1>12, <1>t, PlumbSteps, Unfold
         DEF JailStep, EpairStep, AddrStep, Looked, Cleared, Created, HostNamed, Moved,
             JailNamed, Found, Collecting
    <2> QED BY <2>1, <1>0, <1>t DEF ProcTypes
  <1>13. ASSUME StartPass \/ (\E n \in Nets : NextNet(n)) \/ StoreCmd \/ EndPass \/ Crash
                  \/ \E c \in Configs : Desire(c)
         PROVE  ProcTypes' /\ ProcsInv'
    <2>1. UNCHANGED <<proc, file, jail>> /\ (at' \notin Collecting \/ UNCHANGED <<goal, at, left>>)
      BY <1>13, Unfold DEF StartPass, NextNet, StoreCmd, EndPass, Crash, Desire, Forget,
                           Forgotten, Collecting
    <2> QED BY <2>1, <1>0, <1>t DEF ProcTypes
  <1>14. ASSUME NEW i \in Ifs, OperatorTouchesEpair(i) PROVE ProcTypes' /\ ProcsInv'
    <2>1. UNCHANGED <<proc, file, jail, goal, at, left>>
      BY <1>14, Unfold DEF OperatorTouchesEpair, OperatorDestroysEpair, OperatorMangles
    <2> QED BY <2>1, <1>0, <1>t DEF ProcTypes
  <1> QED BY <1>1, <1>2, <1>3, <1>4, <1>5, <1>6, <1>7, <1>8, <1>9, <1>10, <1>11, <1>12,
             <1>13, <1>14 DEF Next, Pass, Others, Files

LEMMA TypeInvInit == Init => TypeInv
  <1> SUFFICES ASSUME Init PROVE TypeInv
    OBVIOUS
  <1>1. TypeOK
    BY DEF Init, JailInit, TypeOK, JailTypeOK, Steps, NoFiles
  <1>2. Tidy
    BY EndsAssumption DEF Init, JailInit, Tidy, Within
  <1>3. StageInv /\ FilesInv /\ ProcsInv
    BY DEF Init, JailInit, StageInv, FilesInv, ProcsInv, Ensuring, Wiring, Making, Collecting
  <1> QED BY <1>1, <1>2, <1>3 DEF TypeInv

LEMMA TypeInvNext == TypeInv /\ [Next]_vars => TypeInv'
  <1> SUFFICES ASSUME TypeInv, [Next]_vars PROVE TypeInv'
    OBVIOUS
  <1>1. CASE Next
    BY <1>1, JailNext, PlaceNext, DiskNext, ProcNext, TypesInPartsNext DEF TypeInv
  <1>2. CASE UNCHANGED vars
    <2>1. UNCHANGED <<jail, hostEnd, jailEnd, addr, mangled, at, unit, seenJails, seenIfs,
                      failed, touched, others, faults, want, goal, left, net, rewritten,
                      file, cmd, pidfile, proc, desires, misled>>
      BY <1>2 DEF vars, plane, epairs, passVars, seen, disk, rest
    <2>2. TypeOK'
      BY <2>1 DEF TypeInv, TypeOK, JailTypeOK
    <2>3. Tidy' /\ StageInv' /\ FilesInv' /\ ProcsInv'
      BY <2>1 DEF TypeInv, Tidy, StageInv, FilesInv, ProcsInv
    <2> QED BY <2>2, <2>3 DEF TypeInv
  <1> QED BY <1>1, <1>2

\* Types, and with them that a dnsmasq runs in a jail that there is, that the next one is
\* started with the command line that is stored (dnsmasq.py, reconcile.py:73-77), and that
\* none ever reads files that are not there.
THEOREM TypeCorrect == Spec => []TypeOK
  <1>1. TypeInv => TypeOK
    BY DEF TypeInv
  <1> QED BY <1>1, TypeInvInit, TypeInvNext, PTL DEF Spec

-----------------------------------------------------------------------------
(* The epairs.  What is wired is wired for the port of the network, and as  *)
(* long as all receipts are ok no other epair has its names.                *)

PairsInv ==
    at \in Making => /\ Apart(goal[net].port)
                     /\ ~failed => MakingInv(goal[net].port)

\* Away from ensure_epair no end is named or moved.
LEMMA Elsewhere ==
    ASSUME TypeInv, Next, ~Plumb
    PROVE  Shrinks /\ (at' \notin Making \/ UNCHANGED <<at, unit, goal, net, failed>>)
  <1>t. JailTypeOK /\ Tidy /\ TypeOK /\ at \in Steps
    BY DEF TypeInv, TypeOK
  <1> DEFINE Goal == Shrinks /\ (at' \notin Making \/ UNCHANGED <<at, unit, goal, net, failed>>)
  <1>s. UNCHANGED <<hostEnd, jailEnd>> => Shrinks
    BY DEF Shrinks
  <1>1. ASSUME \/ StartPass \/ (\E n \in Nets : NextNet(n))
               \/ WriteFile("hosts", "opts") \/ WriteFile("opts", "jail")
               \/ StoreCmd \/ StartDnsmasq \/ StartCollect \/ StartRemove \/ RemoveState
               \/ EndPass \/ Crash
        PROVE  Goal
    <2>1. UNCHANGED <<hostEnd, jailEnd>>
      BY <1>1, Unfold DEF StartPass, NextNet, WriteFile, StoreCmd, StartDnsmasq,
             StartCollect, StartRemove, RemoveState, EndPass, Crash
    <2>2. at' \notin Making
      BY <1>1 DEF StartPass, NextNet, WriteFile, StoreCmd, StartDnsmasq, StartCollect,
             StartRemove, RemoveState, EndPass, Crash, Forget, Making
    <2> QED BY <2>1, <2>2, <1>s
  <1>2. ASSUME Dnsmasq PROVE Goal
    <2>1. UNCHANGED <<hostEnd, jailEnd>> /\ at' \in {"store", "nets"}
      BY <1>2, Unfold DEF Dnsmasq
    <2> QED BY <2>1, <1>s DEF Making
  <1>3. ASSUME NEW j \in Jails, KillJailProcs(j) PROVE Goal
    BY <1>3, <1>s, Unfold DEF KillJailProcs, Making
  <1>4. ASSUME DestroyUndesired PROVE Goal
    <2>1. ASSUME NEW i \in Ifs, DestroyEpair(i) PROVE Goal
      <3>1. EpairGoes(i)
        BY <2>1, <1>t, EpairGoesSteps
      <3>2. at' \notin Making
        BY <3>1 DEF EpairGoes, Making
      <3> QED BY <3>1, <3>2, <1>t, EpairGoesKeeps
    <2>2. CASE at' = "destroy" /\ UNCHANGED plane
      BY <2>2, <1>s, Unfold DEF Making
    <2> QED BY <1>4, <2>1, <2>2, <1>t DEF DestroyUndesired, JailTypeOK
  <1>5. ASSUME NEW j \in Jails, RemoveJail(j) PROVE Goal
    <2>1. at' \notin Making /\ (JailGoes(j) \/ UNCHANGED plane)
      BY <1>5, Unfold DEF RemoveJail, Making
    <2> QED BY <2>1, <1>s, <1>t, JailGoesKeeps, Unfold
  <1>6. ASSUME Reboot PROVE Goal
    <2>1. at' \notin Making /\ jail' = {} /\ Destroy(Units)
      BY <1>6 DEF Reboot, Forget, Making
    <2> QED BY <2>1, <1>t, RebootKeeps
  <1>7. ASSUME NEW c \in Configs, Desire(c) PROVE Goal
    <2>1. /\ UNCHANGED <<hostEnd, jailEnd, at, unit, net, failed>>
          /\ at \in Making => goal' = goal
      BY <1>7, Unfold DEF Desire, Making
    <2> QED BY <2>1, <1>s
  <1>8. ASSUME NEW p \in Pids, DnsmasqDies(p) PROVE Goal
    BY <1>8, <1>s, Unfold DEF DnsmasqDies, passVars
  <1>9. ASSUME NEW j \in Jails, OperatorRemovesJail(j) PROVE Goal
    BY <1>9, <1>t, JailGoesKeeps, Unfold DEF OperatorRemovesJail, passVars
  <1>10. ASSUME NEW i \in Ifs, OperatorTouchesEpair(i) PROVE Goal
    BY <1>10, <1>t, OperatorKeeps DEF OperatorTouchesEpair
  <1> QED BY <1>1, <1>2, <1>3, <1>4, <1>5, <1>6, <1>7, <1>8, <1>9, <1>10
          DEF Next, Pass, Others

LEMMA PairsNext ==
    ASSUME TypeInv, PairsInv, Next
    PROVE  PairsInv'
  <1>t. JailTypeOK /\ TypeOK /\ StageInv /\ goal \in Configs
    BY DEF TypeInv, TypeOK
  <1> SUFFICES ASSUME at' \in Making PROVE PairsInv'
    BY DEF PairsInv
  <1>1. CASE ~Plumb
    <2>1. Shrinks /\ UNCHANGED <<at, unit, goal, net, failed>>
      BY <1>1, Elsewhere
    <2>2. at \in Ensuring
      BY <2>1 DEF Ensuring, Wiring
    <2>3. PICK i \in Ifs : i = goal[net].port
      BY <2>2, <1>t, GoalFacts DEF StageInv
    <2>4. Apart(i)' /\ (~failed => MakingInv(i)')
      BY <2>1, <2>3, ShrinkKeeps DEF PairsInv
    <2> QED BY <2>1, <2>3, <2>4 DEF PairsInv, Apart, NotBoth, MakingInv, Slot
  <1>2. CASE Plumb
    <2>0. UNCHANGED <<goal, net>>
      BY <1>2, <1>t, PlumbSteps
    <2>1. PICK i \in Ifs : i = goal[net].port
      BY <1>2, <1>t, PlumbSteps, GoalFacts
    <2>2. EpairStep(i, "nets")
      BY <2>1, <1>2, <1>t, PlumbSteps DEF JailStep, AddrStep, Making
    <2>3. Apart(i) /\ (~failed => MakingInv(i))
      BY <2>1 DEF PairsInv, Apart, NotBoth, MakingInv, Making
    <2>4. Apart(i)'
      BY <2>2, <2>3, <1>t, EpairApart DEF Bad
    <2>5. ASSUME ~failed' PROVE MakingInv(i)'
      <3>1. ~failed
        BY <2>2, <2>5
           DEF EpairStep, Looked, Cleared, Created, HostNamed, Moved, JailNamed, Found, Failed
      <3> QED BY <3>1, <2>2, <2>3, <2>5, <1>t, EpairMaking DEF Bad
    <2> QED BY <2>0, <2>1, <2>4, <2>5 DEF PairsInv, Apart, NotBoth, MakingInv, Slot
  <1> QED BY <1>1, <1>2

-----------------------------------------------------------------------------
(* The pid files.  One may come to name another network's dnsmasq, but its  *)
(* own runs with the command line that is stored.                           *)

PidInv ==
    /\ \A n \in Nets : Alive(n) /\ proc[pidfile[n]].net = n =>
          proc[pidfile[n]].args = cmd[n]
    /\ at \in {"store", "start"} => ~Alive(net)

LEMMA PidNext ==
    ASSUME TypeInv, PidInv, Next
    PROVE  PidInv'
  <1>t. /\ TypeOK /\ DiskTypes /\ ProcTypes /\ StageInv /\ goal \in Configs
        /\ JailTypeOK /\ at \in Steps
    BY TypesInParts DEF TypeInv, TypeOK
  <1>n. at \in Ensuring => net \in Nets
    BY <1>t, GoalFacts DEF StageInv
  <1>N. None \notin Pids
    BY NoneAssumption
  <1>0. ASSUME \A p \in Pids : proc'[p] \in {proc[p], None}, UNCHANGED <<cmd, pidfile>>,
               at' \notin {"store", "start"} \/ UNCHANGED <<at, net>>
        PROVE  PidInv'
    <2>1. \A n \in Nets : Alive(n)' => Alive(n) /\ proc'[pidfile'[n]] = proc[pidfile[n]]
      BY <1>0, <1>t, <1>N DEF Alive, DiskTypes
    <2>2. at' \in {"store", "start"} => net \in Nets /\ net' = net
      BY <1>0, <1>n DEF Ensuring
    <2> QED BY <2>1, <2>2, <1>0 DEF PidInv, Alive
  <1>w. ASSUME NEW S, proc' = Without(S) PROVE \A p \in Pids : proc'[p] \in {proc[p], None}
    BY <1>w DEF Without
  <1>1. ASSUME \/ StartPass \/ (\E n \in Nets : NextNet(n))
               \/ WriteFile("hosts", "opts") \/ WriteFile("opts", "jail")
               \/ StartCollect \/ StartRemove \/ EndPass \/ Crash
        PROVE  PidInv'
    <2>1. UNCHANGED <<proc, cmd, pidfile>>
      BY <1>1, Unfold DEF StartPass, NextNet, WriteFile, StartCollect, StartRemove, EndPass,
             Crash
    <2>2. at' \notin {"store", "start"}
      BY <1>1 DEF StartPass, NextNet, WriteFile, StartCollect, StartRemove, EndPass, Crash,
             Forget
    <2> QED BY <2>1, <2>2, <1>0
  <1>2. ASSUME Plumb PROVE PidInv'
    <2>1. UNCHANGED <<proc, cmd, pidfile>>
      BY <1>2, <1>t, PlumbSteps, Unfold
    <2>2. at' \notin {"store", "start"}
      BY <1>2, <1>t, PlumbSteps
         DEF JailStep, EpairStep, AddrStep, Looked, Cleared, Created, HostNamed, Moved,
             JailNamed, Found
    <2> QED BY <2>1, <2>2, <1>0
  <1>3. ASSUME Dnsmasq PROVE PidInv'
    <2>0. net \in Nets /\ UNCHANGED <<cmd, pidfile, net>>
      BY <1>3, <1>n, Unfold DEF Dnsmasq, Ensuring
    <2>1. CASE ~Alive(net)
      <3>1. UNCHANGED proc
        BY <1>3, <2>1 DEF Dnsmasq
      <3> QED BY <2>0, <2>1, <3>1 DEF PidInv, Alive
    <2>2. CASE Alive(net) /\ cmd[net] # goal[net].args
      <3>1. proc' = [proc EXCEPT ![pidfile[net]] = None]
        BY <1>3, <2>2 DEF Dnsmasq
      <3>2. pidfile[net] \in Pids
        BY <2>0, <2>2, <1>t DEF Alive, DiskTypes
      <3>3. \A n \in Nets : Alive(n)' =>
              Alive(n) /\ n # net /\ proc'[pidfile'[n]] = proc[pidfile[n]]
        BY <3>1, <3>2, <2>0, <1>t DEF Alive, DiskTypes, ProcTypes
      <3> QED BY <3>3, <2>0 DEF PidInv
    <2>3. CASE Alive(net) /\ cmd[net] = goal[net].args
      <3>0. at' = "nets"
        BY <1>3, <2>3 DEF Dnsmasq
      <3>1. CASE UNCHANGED proc
        BY <3>0, <3>1, <2>0, <1>0
      <3>2. CASE proc' = [proc EXCEPT ![pidfile[net]].loaded = file[proc[pidfile[net]].net]]
        <4>1. pidfile[net] \in Pids /\ proc[pidfile[net]] \in Process
          BY <2>0, <2>3, <1>t DEF Alive, DiskTypes, ProcTypes
        <4>2. \A p \in Pids : proc'[p] # None => /\ proc[p] # None
                                                 /\ proc'[p].net = proc[p].net
                                                 /\ proc'[p].args = proc[p].args
          BY <3>2, <4>1, <2>3, <1>t DEF ProcTypes, Process, Alive
        <4>3. \A n \in Nets : Alive(n)' => Alive(n) /\ pidfile[n] \in Pids
          BY <4>2, <2>0, <1>t DEF Alive, DiskTypes
        <4> QED BY <4>2, <4>3, <3>0, <2>0 DEF PidInv, Alive
      <3> QED BY <3>1, <3>2, <1>3, <2>3 DEF Dnsmasq
    <2> QED BY <2>1, <2>2, <2>3
  <1>4. ASSUME StoreCmd PROVE PidInv'
    <2>1. /\ at = "store" /\ cmd' = [cmd EXCEPT ![net] = goal[net].args]
          /\ UNCHANGED <<pidfile, proc, net>>
      BY <1>4 DEF StoreCmd
    <2>2. net \in Nets /\ ~Alive(net)
      BY <2>1, <1>n DEF Ensuring, PidInv
    <2> QED BY <2>1, <2>2, <1>t DEF PidInv, Alive, DiskTypes
  <1>5. ASSUME StartDnsmasq PROVE PidInv'
    <2>0. /\ at = "start" /\ at' = "nets" /\ UNCHANGED cmd
          /\ net \in Nets /\ cmd[net] = goal[net].args
      BY <1>5, <1>n, <1>t DEF StartDnsmasq, Ensuring, DiskTypes
    <2>1. CASE UNCHANGED <<proc, pidfile>>
      BY <2>0, <2>1, <1>0
    <2>2. ASSUME NEW p \in NewPids,
                 proc' = [proc EXCEPT ![p] = [net |-> net, args |-> goal[net].args,
                                              loaded |-> file[net]]],
                 pidfile' = [pidfile EXCEPT ![net] = p]
          PROVE  PidInv'
      <3>1. p \in Pids
        BY DEF NewPids, FreePids, StalePids
      <3>e. proc'[p] = [net |-> net, args |-> goal[net].args, loaded |-> file[net]]
        BY <3>1, <2>2, <1>t DEF ProcTypes
      <3>2. ASSUME NEW n \in Nets, Alive(n)', proc'[pidfile'[n]].net = n
            PROVE  proc'[pidfile'[n]].args = cmd'[n]
        <4>1. CASE n = net
          <5>1. pidfile'[n] = p
            BY <4>1, <2>2, <1>t DEF DiskTypes
          <5> QED BY <5>1, <3>e, <4>1, <2>0
        <4>2. CASE n # net
          <5>1. pidfile'[n] = pidfile[n] /\ pidfile[n] # p
            BY <4>2, <3>e, <3>2, <2>2, <1>t DEF DiskTypes
          <5>2. pidfile[n] \in Pids
            BY <5>1, <3>2, <1>t DEF Alive, DiskTypes
          <5>3. proc'[pidfile[n]] = proc[pidfile[n]]
            BY <5>1, <5>2, <2>2, <1>t DEF ProcTypes
          <5> QED BY <5>1, <5>2, <5>3, <3>2, <2>0 DEF PidInv, Alive
        <4> QED BY <4>1, <4>2
      <3> QED BY <3>2, <2>0 DEF PidInv
    <2> QED BY <2>1, <2>2, <1>5 DEF StartDnsmasq
  <1>6. ASSUME RemoveState PROVE PidInv'
    <2>1. /\ at' = "purge" /\ UNCHANGED proc
          /\ \A n \in Nets : \/ pidfile'[n] = None
                             \/ pidfile'[n] = pidfile[n] /\ cmd'[n] = cmd[n]
      BY <1>6 DEF RemoveState, Purged
    <2> QED BY <2>1 DEF PidInv, Alive
  <1>7. ASSUME NEW j \in Jails, KillJailProcs(j) PROVE PidInv'
    BY <1>7, <1>0, <1>w, Unfold DEF KillJailProcs
  <1>8. ASSUME DestroyUndesired PROVE PidInv'
    <2>1. UNCHANGED <<proc, cmd, pidfile>> /\ at' \notin {"store", "start"}
      BY <1>8, Unfold DEF DestroyUndesired, DestroyEpair
    <2> QED BY <2>1, <1>0
  <1>9. ASSUME NEW j \in Jails, RemoveJail(j) PROVE PidInv'
    <2>1. /\ UNCHANGED <<cmd, pidfile>> /\ at' \notin {"store", "start"}
          /\ proc' = Without({j}) \/ proc' = proc
      BY <1>9, Unfold DEF RemoveJail
    <2> QED BY <2>1, <1>0, <1>w
  <1>10. ASSUME Reboot PROVE PidInv'
    <2>1. /\ UNCHANGED <<cmd, pidfile>> /\ at' = "idle" /\ \A p \in Pids : proc'[p] = None
      BY <1>10, Unfold DEF Reboot, Forget
    <2> QED BY <2>1, <1>0
  <1>11. ASSUME NEW p \in Pids, DnsmasqDies(p) PROVE PidInv'
    <2>1. \A q \in Pids : proc'[q] \in {proc[q], None}
      BY <1>11, <1>t DEF DnsmasqDies, ProcTypes
    <2> QED BY <2>1, <1>11, <1>0, Unfold DEF DnsmasqDies, passVars
  <1>12. ASSUME NEW j \in Jails, OperatorRemovesJail(j) PROVE PidInv'
    BY <1>12, <1>0, <1>w, Unfold DEF OperatorRemovesJail, passVars
  <1>13. ASSUME NEW i \in Ifs, OperatorTouchesEpair(i) PROVE PidInv'
    <2>1. UNCHANGED <<proc, cmd, pidfile, at, net>>
      BY <1>13, Unfold DEF OperatorTouchesEpair, OperatorDestroysEpair, OperatorMangles
    <2> QED BY <2>1, <1>0
  <1>14. ASSUME NEW c \in Configs, Desire(c) PROVE PidInv'
    BY <1>14, <1>0, Unfold DEF Desire
  <1> QED BY <1>1, <1>2, <1>3, <1>4, <1>5, <1>6, <1>7, <1>8, <1>9, <1>10, <1>11, <1>12,
             <1>13, <1>14 DEF Next, Pass, Others

-----------------------------------------------------------------------------
(* What works is left to work.                                              *)

LEMMA PlumbedMeans ==
    ASSUME NEW n, NEW s
    PROVE  /\ Plumbed(n, s) <=> n \in jail /\ Led(s.port, s.addr)
           /\ Plumbed(n, s)' <=> n \in jail' /\ Led(s.port, s.addr)'
  BY DEF Plumbed, Led, Spans, HasAddress, HostUnit, JailUnit, Slot

\* What is neither a fault nor somebody else's is a step of the pass, or the server's.
Ordinary == Pass \/ \E c \in Configs : Desire(c)

LEMMA OrdinarySteps ==
    ASSUME TypeInv, Next, UNCHANGED <<others, faults>>
    PROVE  Ordinary
  <1>t. JailTypeOK
    BY DEF TypeInv, TypeOK
  <1>1. ~Fault /\ ~Other
    BY <1>t, FaultsCount, OtherFacts
  <1>2. ~Crash /\ ~Reboot
    BY <1>1 DEF Crash, Reboot
  <1>3. Others => \E c \in Configs : Desire(c)
    BY <1>1 DEF Others, DnsmasqDies, OperatorRemovesJail, OperatorTouchesEpair,
           OperatorDestroysEpair, OperatorMangles
  <1> QED BY <1>2, <1>3 DEF Next, Ordinary

\* Such a step leaves every epair alone that leads where it should.
LEMMA PassSpares ==
    ASSUME TypeInv, PairsInv, Ordinary, NEW n \in Served(goal), NEW k, NEW a, k = goal[n].port, a = goal[n].addr,
           n \in jail, Led(k, a)
    PROVE  n \in jail' /\ Led(k, a)'
  <1>t. /\ TypeOK /\ JailTypeOK /\ Tidy /\ StageInv /\ goal \in Configs
    BY DEF TypeInv, TypeOK
  <1>n. n \in Nets /\ k \in Ifs /\ InJail[k] = n
    BY <1>t, GoalFacts
  <1>0. ASSUME UNCHANGED plane PROVE n \in jail' /\ Led(k, a)'
    BY <1>0, StillLed DEF plane
  <1>1. ASSUME \/ StartPass \/ (\E m \in Nets : NextNet(m))
               \/ WriteFile("hosts", "opts") \/ WriteFile("opts", "jail")
               \/ Dnsmasq \/ StoreCmd \/ StartDnsmasq \/ StartCollect
               \/ (\E j \in Jails : KillJailProcs(j)) \/ StartRemove \/ RemoveState
               \/ EndPass \/ \E c \in Configs : Desire(c)
        PROVE  n \in jail' /\ Led(k, a)'
    BY <1>0, <1>1 DEF StartPass, NextNet, WriteFile, Dnsmasq, StoreCmd, StartDnsmasq,
           StartCollect, KillJailProcs, StartRemove, RemoveState, EndPass, Desire
  <1>2. ASSUME Plumb PROVE n \in jail' /\ Led(k, a)'
    <2>1. net \in Served(goal) /\ goal[net].port \in Ifs
      BY <1>2, <1>t, PlumbSteps, GoalFacts
    <2>2. n = net \/ Slot(k) # Slot(goal[net].port)
      BY <2>1, <1>t, PortsDiffer
    <2>i. PICK i, b : i \in Ifs /\ i = goal[net].port /\ b = goal[net].addr
      BY <2>1
    <2>3. CASE JailStep(net, "epair", "nets")
      <3>1. UNCHANGED epairs /\ jail \subseteq jail'
        BY <2>3 DEF JailStep, epairs
      <3> QED BY <3>1, StillLed
    <2>4. CASE EpairStep(i, "nets")
      <3>1. NotBoth(i)
        BY <2>i DEF PairsInv, Apart, NotBoth, Making
      <3>2. jail' = jail
        BY <2>4 DEF EpairStep
      <3>3. Led(k, a)'
        BY <3>1, <2>2, <2>4, <2>i, <1>n, <1>t, EpairSpares
      <3> QED BY <3>2, <3>3
    <2>5. CASE AddrStep(i, b, "dnsmasq")
      <3>1. jail' = jail
        BY <2>5 DEF AddrStep
      <3>2. (k = i /\ a = b) \/ Slot(k) # Slot(i)
        BY <2>2, <2>i
      <3>3. Led(k, a)'
        BY <2>5, <2>i, <3>2, <1>n, AddrSpares
      <3> QED BY <3>1, <3>3
    <2> QED BY <2>3, <2>4, <2>5, <2>i, <1>2, <1>t, PlumbSteps
  <1>3. ASSUME DestroyUndesired PROVE n \in jail' /\ Led(k, a)'
    <2>1. ASSUME NEW i \in seenIfs \ WantedIfs(goal), DestroyEpair(i)
          PROVE  n \in jail' /\ Led(k, a)'
      <3>1. i \in Ifs /\ k # i
        BY <2>1, <1>t DEF WantedIfs, JailTypeOK
      <3>2. EpairGoes(i)
        BY <3>1, <2>1, <1>t, EpairGoesSteps
      <3>3. jail' = jail
        BY <3>2 DEF EpairGoes
      <3> QED BY <3>1, <3>2, <3>3, <1>n, <1>t, EpairGoesKeeps
    <2> QED BY <2>1, <1>3, <1>0 DEF DestroyUndesired
  <1>4. ASSUME NEW j \in Jails, RemoveJail(j) PROVE n \in jail' /\ Led(k, a)'
    <2>1. n # j
      BY <1>4, <1>t DEF RemoveJail, StageInv
    <2>2. JailGoes(j) => jail' = jail \ {j}
      BY DEF JailGoes
    <2>3. JailGoes(j) => Led(k, a)'
      BY <2>1, <1>n, JailGoesSpares
    <2> QED BY <2>1, <2>2, <2>3, <1>0, <1>4 DEF RemoveJail
  <1> QED BY <1>1, <1>2, <1>3, <1>4 DEF Ordinary, Pass

\* ... and every dnsmasq whose command line is still asked for, unless another network's
\* pid file names it.
LEMMA PassServes ==
    ASSUME TypeInv, PidInv, Ordinary,
           NEW n \in Served(goal), NEW p \in Pids, ServedBy(n, goal[n], p),
           cmd[n] = goal[n].args
    PROVE  proc'[p] # None \/ n \in misled'
  <1>t. /\ TypeOK /\ JailTypeOK /\ StageInv /\ goal \in Configs /\ ProcTypes
    BY TypesInParts DEF TypeInv, TypeOK
  <1>p. proc[p] # None /\ proc[p] \in Process /\ proc[p].net = n /\ proc[p].args = goal[n].args
    BY <1>t DEF ServedBy, ProcTypes
  <1>1. ASSUME \/ StartPass \/ (\E m \in Nets : NextNet(m))
               \/ WriteFile("hosts", "opts") \/ WriteFile("opts", "jail")
               \/ Plumb \/ StoreCmd \/ StartCollect \/ StartRemove \/ RemoveState
               \/ DestroyUndesired \/ EndPass \/ \E c \in Configs : Desire(c)
        PROVE  proc'[p] # None
    <2>1. proc' = proc
      BY <1>1 DEF StartPass, NextNet, WriteFile, Plumb, StoreCmd, StartCollect,
             StartRemove, RemoveState, DestroyUndesired, EndPass, Desire
    <2> QED BY <2>1, <1>p
  <1>2. ASSUME Dnsmasq PROVE proc'[p] # None \/ n \in misled'
    <2>1. net \in Nets /\ n \in Nets
      BY <1>2, <1>t, GoalFacts DEF Dnsmasq, StageInv, Ensuring
    <2>2. CASE proc' = proc
      BY <2>2, <1>p
    <2>3. CASE Alive(net) /\ cmd[net] # goal[net].args /\ proc' = [proc EXCEPT ![pidfile[net]] = None]
      <3>1. CASE p = pidfile[net]
        <4>1. net # n
          BY <2>3
        <4>2. n \in MixedUp(net)
          BY <4>1, <3>1, <2>1, <2>3, <1>p DEF MixedUp
        <4> QED BY <4>2, <1>2 DEF Dnsmasq
      <3>2. CASE p # pidfile[net]
        BY <3>2, <2>3, <1>p, <1>t DEF ProcTypes
      <3> QED BY <3>1, <3>2
    <2>4. CASE proc' = [proc EXCEPT ![pidfile[net]].loaded = file[proc[pidfile[net]].net]]
      <3>1. CASE p = pidfile[net]
        <4>1. file[proc[pidfile[net]].net] \in [Files -> Contents]
          BY <3>1, <1>p DEF TypeInv, ProcsInv
        <4>2. proc'[p] = [proc[p] EXCEPT !.loaded = file[proc[pidfile[net]].net]]
          BY <3>1, <2>4, <1>t DEF ProcTypes
        <4>3. proc'[p] \in Process
          BY <4>1, <4>2, <1>p DEF Process
        <4> QED BY <4>3, NoneAssumption
      <3>2. CASE p # pidfile[net]
        BY <3>2, <2>4, <1>p, <1>t DEF ProcTypes
      <3> QED BY <3>1, <3>2
    <2> QED BY <2>2, <2>3, <2>4, <1>2 DEF Dnsmasq
  <1>3. ASSUME StartDnsmasq PROVE proc'[p] # None
    <2>1. CASE proc' = proc
      BY <2>1, <1>p
    <2>2. ASSUME NEW q \in NewPids, proc' = [proc EXCEPT ![q] =
                     [net |-> net, args |-> goal[net].args, loaded |-> file[net]]]
          PROVE  proc'[p] # None
      <3>1. q # p
        BY <1>p DEF NewPids, FreePids, StalePids
      <3> QED BY <3>1, <2>2, <1>p, <1>t DEF ProcTypes
    <2> QED BY <2>1, <2>2, <1>3 DEF StartDnsmasq
  <1>4. ASSUME NEW j \in Jails, KillJailProcs(j) \/ RemoveJail(j) PROVE proc'[p] # None
    <2>1. j # n /\ (proc' = proc \/ proc' = Without({j}))
      BY <1>4, <1>t DEF KillJailProcs, RemoveJail, StageInv
    <2> QED BY <2>1, <1>p DEF Without
  <1> QED BY <1>1, <1>2, <1>3, <1>4 DEF Ordinary, Pass

KeptInv == TypeInv /\ PairsInv /\ PidInv

LEMMA KeptInvInit == Init => KeptInv
  <1> SUFFICES ASSUME Init PROVE KeptInv
    OBVIOUS
  <1>1. TypeInv
    BY TypeInvInit
  <1>2. PairsInv
    BY DEF Init, PairsInv, Making
  <1>3. PidInv
    BY DEF Init, PidInv, Alive
  <1> QED BY <1>1, <1>2, <1>3 DEF KeptInv

LEMMA KeptInvNext == KeptInv /\ [Next]_vars => KeptInv'
  <1> SUFFICES ASSUME KeptInv, [Next]_vars PROVE KeptInv'
    OBVIOUS
  <1>1. CASE Next
    BY <1>1, TypeInvNext, PairsNext, PidNext DEF KeptInv
  <1>2. CASE UNCHANGED vars
    <2>1. UNCHANGED <<hostEnd, jailEnd, at, unit, failed, goal, net, cmd, pidfile, proc>>
      BY <1>2 DEF vars, plane, epairs, passVars, disk
    <2>2. TypeInv'
      BY TypeInvNext DEF KeptInv
    <2>3. PairsInv' /\ PidInv'
      BY <2>1 DEF KeptInv, PairsInv, Apart, NotBoth, MakingInv, Slot, PidInv, Alive
    <2> QED BY <2>2, <2>3 DEF KeptInv
  <1> QED BY <1>1, <1>2

\* A pass does not disturb a network that is as asked for: its epair is neither destroyed
\* nor taken out of its jail nor addressed anew (jail.py:72-156), and its dnsmasq is
\* killed only for another command line or by way of another network's pid file
\* (reconcile.py:61-79), whatever commands fail and pids come back.
THEOREM WorkingStays == Spec => ServiceKept
  <1> DEFINE NoneIsDisturbed == others' = others /\ faults' = faults =>
          \A n \in Served(goal) : \A s \in {goal[n]} :
              /\ Plumbed(n, s) => Plumbed(n, s)'
              /\ \A p \in Pids : ServedBy(n, s, p) /\ cmd[n] = s.args =>
                    proc'[p] # None \/ n \in misled'
  <1>1. ASSUME KeptInv, Next PROVE NoneIsDisturbed
    <2> SUFFICES ASSUME UNCHANGED <<others, faults>>, NEW n \in Served(goal), NEW s \in {goal[n]}
                 PROVE  /\ Plumbed(n, s) => Plumbed(n, s)'
                        /\ \A p \in Pids : ServedBy(n, s, p) /\ cmd[n] = s.args =>
                              proc'[p] # None \/ n \in misled'
      OBVIOUS
    <2>k. PICK k, a : k = s.port /\ a = s.addr
      OBVIOUS
    <2>1. Plumbed(n, s) => n \in jail /\ Led(k, a)
      BY <2>k, PlumbedMeans
    <2>2. n \in jail /\ Led(k, a) => n \in jail' /\ Led(k, a)'
      BY <1>1, <2>k, OrdinarySteps, PassSpares DEF KeptInv
    <2>3. n \in jail' /\ Led(k, a)' => Plumbed(n, s)'
      BY <2>k, PlumbedMeans
    <2> QED BY <1>1, <2>1, <2>2, <2>3, OrdinarySteps, PassServes DEF KeptInv
  <1>2. KeptInv /\ [Next]_vars => [NoneIsDisturbed]_vars
    BY <1>1
  <1> QED BY <1>2, KeptInvInit, KeptInvNext, PTL DEF Spec, ServiceKept

-----------------------------------------------------------------------------
(* A pass whose receipts are all ok.                                        *)

\* The pass has been through network n.
Ensured(n) == at \in Ensuring \cup {"nets"} => n \notin left /\ (at = "nets" \/ n # net)

\* What the pass knows is right: the jails there are, every epair that has a name, and
\* what it has still to collect.
Known ==
    /\ KnownIfs
    /\ at \notin {"remove", "purge"} => seenJails = jail
    /\ at = "remove" => jail \subseteq left \cup Served(goal)
    /\ at = "purge" => jail \subseteq Served(goal)
    /\ at \in {"remove", "purge"} => seenIfs \subseteq WantedIfs(goal)

\* The epair of the network is made as far as the pass has come.
Made ==
    /\ at \in Wiring => MadeSoFar(goal[net].port)
    /\ at = "addrs" /\ net \notin misled => Spans(goal[net].port)
    /\ at \in {"dnsmasq", "store", "start"} =>
          /\ net \in jail /\ HaveJail(goal[net].port)
          /\ net \notin misled => Plumbed(net, goal[net])

AllWorking ==
    \A n \in Served(goal) : Ensured(n) =>
        n \in jail /\ (n \notin misled => InOrder(n, goal[n]))

Gone == at = "purge" => \A n \in Nets \ Served(goal) : file[n] = NoFiles

CleanInv == ~failed /\ ~touched /\ at # "idle" => Known /\ Made /\ AllWorking /\ Gone

\* What works when the pass has been through it goes on working, as long as no other
\* network's pid file names its dnsmasq.
LEMMA WorkingKept ==
    ASSUME TypeInv, PairsInv, PidInv, Pass,
           NEW n \in Served(goal), NEW s, s = goal[n], InOrder(n, s), Ensured(n),
           n \notin misled'
    PROVE  InOrder(n, s)'
  <1>t. /\ TypeOK /\ DiskTypes /\ ProcTypes /\ StageInv /\ goal \in Configs /\ at \in Steps
    BY TypesInParts DEF TypeInv, TypeOK
  <1>n. n \in Nets
    BY <1>t, GoalFacts
  <1>k. PICK k, a : k = s.port /\ a = s.addr
    OBVIOUS
  <1>l. Plumbed(n, s)'
    <2>1. n \in jail' /\ Led(k, a)'
      BY <1>k, PlumbedMeans, PassSpares DEF Ordinary, InOrder
    <2> QED BY <2>1, <1>k, PlumbedMeans
  <1>p. pidfile[n] \in Pids /\ ServedBy(n, s, pidfile[n]) /\ file[n] = s.files
    BY <1>n, <1>t DEF InOrder, DiskTypes
  <1>a. Alive(n)
    BY <1>p DEF Alive, InOrder, ServedBy
  <1> DEFINE Served4 == /\ file'[n] = file[n] /\ pidfile'[n] = pidfile[n]
                        /\ ServedBy(n, s, pidfile[n])'
  <1>m. at \in Ensuring => n # net /\ net \in Nets
    BY <1>t, GoalFacts DEF Ensured, StageInv, Ensuring, Wiring, Making
  <1>1. ASSUME \/ StartPass \/ (\E m \in Nets : NextNet(m)) \/ Plumb \/ StoreCmd
               \/ StartCollect \/ DestroyUndesired \/ StartRemove \/ EndPass
        PROVE  Served4
    <2>1. UNCHANGED <<file, pidfile, proc>>
      BY <1>1, Unfold DEF StartPass, NextNet, Plumb, StoreCmd, StartCollect,
             DestroyUndesired, StartRemove, EndPass
    <2> QED BY <2>1, <1>p DEF ServedBy
  <1>2. ASSUME WriteFile("hosts", "opts") \/ WriteFile("opts", "jail") PROVE Served4
    <2>1. UNCHANGED <<pidfile, proc>> /\ n # net
          /\ \E f \in Files : file' = [file EXCEPT ![net][f] = goal[net].files[f]]
      BY <1>2, <1>m DEF WriteFile, Ensuring, Files
    <2> QED BY <2>1, <1>n, <1>p, <1>t DEF ServedBy, DiskTypes
  <1>3. ASSUME Dnsmasq PROVE Served4
    <2>1. n # net /\ net \in Nets /\ UNCHANGED <<file, pidfile>>
      BY <1>3, <1>m, Unfold DEF Dnsmasq, Ensuring
    <2>2. CASE proc' = proc
      BY <2>1, <2>2, <1>p DEF ServedBy
    <2>3. CASE /\ Alive(net)
               /\ \E x : proc' = [proc EXCEPT ![pidfile[net]] = x]
      <3>1. pidfile[net] # pidfile[n]
        <4>1. proc[pidfile[n]].net = n
          BY <1>p DEF ServedBy
        <4>2. n \notin MixedUp(net)
          BY <1>3 DEF Dnsmasq
        <4> QED BY <4>1, <4>2, <2>1, <2>3, <1>n DEF MixedUp
      <3>2. proc'[pidfile[n]] = proc[pidfile[n]]
        BY <3>1, <2>3, <1>p, <1>t DEF ProcTypes
      <3> QED BY <3>2, <2>1, <1>p DEF ServedBy
    <2>4. \/ proc' = proc
          \/ /\ Alive(net)
             /\ \E x : proc' = [proc EXCEPT ![pidfile[net]] = x]
      BY <1>3 DEF Dnsmasq
    <2> QED BY <2>2, <2>3, <2>4
  <1>4. ASSUME StartDnsmasq PROVE Served4
    <2>1. n # net /\ net \in Nets /\ UNCHANGED file
      BY <1>4, <1>m DEF StartDnsmasq, Ensuring
    <2>2. CASE UNCHANGED <<proc, pidfile>>
      BY <2>1, <2>2, <1>p DEF ServedBy
    <2>3. CASE \E q \in NewPids :
                 /\ proc' = [proc EXCEPT ![q] = [net |-> net, args |-> goal[net].args,
                                                 loaded |-> file[net]]]
                 /\ pidfile' = [pidfile EXCEPT ![net] = q]
      <3>1. PICK q \in NewPids :
                 /\ proc' = [proc EXCEPT ![q] = [net |-> net, args |-> goal[net].args,
                                                 loaded |-> file[net]]]
                 /\ pidfile' = [pidfile EXCEPT ![net] = q]
        BY <2>3
      <3>2. q # pidfile[n]
        BY <1>a DEF Alive, NewPids, FreePids, StalePids
      <3>3. proc'[pidfile[n]] = proc[pidfile[n]] /\ pidfile'[n] = pidfile[n]
        BY <3>1, <3>2, <2>1, <1>n, <1>p, <1>t DEF ProcTypes, DiskTypes
      <3> QED BY <3>3, <2>1, <1>p DEF ServedBy
    <2> QED BY <2>2, <2>3, <1>4 DEF StartDnsmasq
  <1>5. ASSUME NEW j \in Jails, KillJailProcs(j) \/ RemoveJail(j) PROVE Served4
    <2>1. /\ j # n /\ UNCHANGED <<file, pidfile>>
          /\ proc' = proc \/ proc' = Without({j})
      BY <1>5, <1>t, Unfold DEF KillJailProcs, RemoveJail, StageInv
    <2>2. proc'[pidfile[n]] = proc[pidfile[n]]
      BY <2>1, <1>p DEF Without, ServedBy
    <2> QED BY <2>1, <2>2, <1>p DEF ServedBy
  <1>6. ASSUME RemoveState PROVE Served4
    <2>1. file'[n] = file[n] /\ pidfile'[n] = pidfile[n] /\ proc' = proc
      BY <1>6, <1>n DEF RemoveState, Purged
    <2> QED BY <2>1, <1>p DEF ServedBy
  <1>7. Served4
    BY <1>1, <1>2, <1>3, <1>4, <1>5, <1>6 DEF Pass
  <1>8. pidfile'[n] # None /\ file'[n] = s.files
    BY <1>7, <1>p, NoneAssumption
  <1> QED BY <1>7, <1>8, <1>l DEF InOrder

\* It keeps the jails that are asked for, and does not forget what it has mixed up.
LEMMA JailKept ==
    ASSUME TypeInv, Pass, NEW n \in Served(goal), n \in jail
    PROVE  n \in jail'
  <1>t. TypeOK /\ JailTypeOK /\ StageInv
    BY DEF TypeInv, TypeOK
  <1>1. ASSUME \/ StartPass \/ (\E m \in Nets : NextNet(m))
               \/ WriteFile("hosts", "opts") \/ WriteFile("opts", "jail")
               \/ Dnsmasq \/ StoreCmd \/ StartDnsmasq \/ StartCollect
               \/ (\E j \in Jails : KillJailProcs(j)) \/ StartRemove \/ RemoveState
               \/ EndPass
        PROVE  jail' = jail
    BY <1>1, Unfold DEF StartPass, NextNet, WriteFile, Dnsmasq, StoreCmd, StartDnsmasq,
           StartCollect, KillJailProcs, StartRemove, RemoveState, EndPass
  <1>2. ASSUME Plumb PROVE jail \subseteq jail'
    BY <1>2, <1>t, PlumbSteps DEF JailStep, EpairStep, AddrStep
  <1>3. ASSUME DestroyUndesired PROVE jail' = jail
    BY <1>3, Unfold DEF DestroyUndesired, DestroyEpair, Do
  <1>4. ASSUME NEW j \in Jails, RemoveJail(j) PROVE jail \ {j} \subseteq jail' /\ j # n
    BY <1>4, <1>t, Unfold DEF RemoveJail, JailGoes, StageInv
  <1> QED BY <1>1, <1>2, <1>3, <1>4 DEF Pass

LEMMA MisledGrows ==
    ASSUME Pass, ~StartPass, ~EndPass
    PROVE  misled \subseteq misled'
  BY Unfold DEF Pass, NextNet, WriteFile, Plumb, Dnsmasq, StoreCmd, StartDnsmasq,
       StartCollect, KillJailProcs, DestroyUndesired, StartRemove, RemoveJail, RemoveState

\* How a pass that has gone well so far goes on well.
LEMMA CleanSteps ==
    ASSUME TypeInv, CleanInv, Next, ~failed', ~touched', at' # "idle", ~StartPass
    PROVE  /\ at # "idle" /\ ~failed /\ goal' = goal
           /\ Known /\ Made /\ AllWorking /\ Gone
           /\ \/ Pass
              \/ UNCHANGED <<jail, hostEnd, jailEnd, addr, mangled, at, unit, seenJails,
                             seenIfs, left, net, file, pidfile, proc, misled>>
  <1>t. /\ TypeOK /\ JailTypeOK /\ StageInv
        /\ failed \in BOOLEAN /\ touched \in BOOLEAN
    BY DEF TypeInv, TypeOK, JailTypeOK
  <1>1. ~Crash /\ ~Reboot /\ ~EndPass
    BY DEF Crash, Reboot, Forget, EndPass
  <1> DEFINE Goes == at # "idle" /\ goal' = goal /\ touched' = touched
                     /\ (failed' = failed \/ failed' = TRUE)
  <1>2. ASSUME \/ (\E n \in Nets : NextNet(n))
               \/ WriteFile("hosts", "opts") \/ WriteFile("opts", "jail")
               \/ Dnsmasq \/ StoreCmd \/ StartDnsmasq
               \/ StartCollect \/ (\E j \in Jails : KillJailProcs(j))
               \/ StartRemove \/ (\E j \in Jails : RemoveJail(j)) \/ RemoveState
        PROVE  Goes
    <2>1. goal' = goal /\ touched' = touched
      BY <1>2, Unfold DEF NextNet, WriteFile, Dnsmasq, StoreCmd, StartDnsmasq, StartCollect,
             KillJailProcs, StartRemove, RemoveJail, RemoveState
    <2>2. at # "idle"
      BY <1>2 DEF NextNet, WriteFile, Dnsmasq, StoreCmd, StartDnsmasq, StartCollect,
             KillJailProcs, StartRemove, RemoveJail, RemoveState
    <2>3. failed' = failed \/ failed' = TRUE
      BY <1>2 DEF NextNet, WriteFile, Dnsmasq, StoreCmd, StartDnsmasq, StartCollect,
             KillJailProcs, StartRemove, RemoveJail, RemoveState
    <2> QED BY <2>1, <2>2, <2>3
  <1>3. ASSUME Plumb PROVE Goes
    <2>1. goal' = goal /\ touched' = touched /\ at \in Wiring \cup {"jail"}
      BY <1>3, <1>t, PlumbSteps, Unfold
    <2>2. failed' = failed \/ failed' = TRUE
      BY <1>3, <1>t, PlumbSteps
         DEF JailStep, EpairStep, AddrStep, Looked, Cleared, Created, HostNamed, Moved,
             JailNamed, Found, Failed
    <2> QED BY <2>1, <2>2 DEF Wiring, Making
  <1>4. ASSUME DestroyUndesired PROVE Goes
    BY <1>4, Unfold DEF DestroyUndesired, DestroyEpair, Do
  <1>5. ASSUME Pass PROVE Goes
    BY <1>1, <1>2, <1>3, <1>4, <1>5 DEF Pass
  <1>6. ASSUME NEW c \in Configs, Desire(c)
        PROVE  Goes /\ UNCHANGED <<jail, hostEnd, jailEnd, addr, mangled, at, unit, seenJails,
                                   seenIfs, left, net, file, pidfile, proc, misled>>
    BY <1>6, Unfold DEF Desire
  <1>7. ASSUME Others PROVE \E c \in Configs : Desire(c)
    <2>1. Other => (at = "idle" \/ touched')
      BY <1>t, OtherFacts
    <2>2. \A p \in Pids : ~DnsmasqDies(p)
      BY <2>1 DEF DnsmasqDies, passVars
    <2>3. \A j \in Jails : ~OperatorRemovesJail(j)
      BY <2>1 DEF OperatorRemovesJail, passVars
    <2>4. \A i \in Ifs : ~OperatorTouchesEpair(i)
      BY <2>1 DEF OperatorTouchesEpair, OperatorDestroysEpair, OperatorMangles
    <2> QED BY <1>7, <2>2, <2>3, <2>4 DEF Others
  <1>8. Goes /\ \/ Pass
                \/ UNCHANGED <<jail, hostEnd, jailEnd, addr, mangled, at, unit, seenJails,
                               seenIfs, left, net, file, pidfile, proc, misled>>
    BY <1>1, <1>5, <1>6, <1>7 DEF Next
  <1>9. ~failed /\ ~touched
    BY <1>8, <1>t
  <1> QED BY <1>8, <1>9 DEF CleanInv

\* The plumbing of a network that goes well.
LEMMA PlumbWell ==
    ASSUME TypeInv, PairsInv, Plumb, Known, Made, ~failed'
    PROVE  Known' /\ Made' /\ at' \in Wiring \cup {"dnsmasq"}
  <1>t. JailTypeOK /\ Tidy /\ TypeOK /\ StageInv /\ goal \in Configs
    BY DEF TypeInv, TypeOK
  <1>0. /\ net \in Served(goal) /\ UNCHANGED <<goal, net>> /\ at \in Wiring \cup {"jail"}
        /\ \/ JailStep(net, "epair", "nets")
           \/ EpairStep(goal[net].port, "nets")
           \/ AddrStep(goal[net].port, goal[net].addr, "dnsmasq")
    BY <1>t, PlumbSteps
  <1>i. PICK i, a : /\ i \in Ifs /\ i = goal[net].port /\ a = goal[net].addr
                    /\ InJail[i] = net
    BY <1>0, <1>t, GoalFacts
  <1>g. goal'[net'].port = i /\ goal'[net'].addr = a
    BY <1>0, <1>i
  <1>1. CASE JailStep(net, "epair", "nets")
    <2>1. /\ at' = "epair" /\ seenJails' = jail' /\ net \in jail'
          /\ UNCHANGED <<hostEnd, seenIfs>>
      BY <1>1, <1>0 DEF JailStep, Known, Wiring, Making
    <2>2. Known'
      BY <2>1 DEF Known, KnownIfs
    <2>3. MadeSoFar(i)'
      BY <2>1, <1>i DEF MadeSoFar, Making
    <2> QED BY <2>1, <2>2, <2>3, <1>g DEF Made, MadeSoFar, Slot, Wiring
  <1>m. misled' = misled \cup {n \in {net} : at = "epair" /\ Mispaired(i)}
    BY <1>t, <1>i, PlumbSteps
  <1>2. CASE EpairStep(i, "nets")
    <2>1. at \in Wiring /\ UNCHANGED <<jail, seenJails>>
      BY <1>2 DEF EpairStep, Looked, Cleared, Created, HostNamed, Moved, JailNamed, Found,
                  Wiring, Making
    <2>f. ~failed
      BY <1>2 DEF EpairStep, Looked, Cleared, Created, HostNamed, Moved, JailNamed, Found,
                  Failed
    <2>2. MadeSoFar(i) /\ MakingInv(i)
      BY <2>1, <2>f, <1>i DEF Made, PairsInv, MakingInv, Making
    <2>3. /\ MadeSoFar(i)' /\ KnownIfs' /\ at' \in Making \cup {"addrs"}
          /\ at' = "addrs" /\ (at = "epair" => Spans(i)) => Spans(i)'
      BY <1>2, <2>2, <1>t, <1>i, EpairProgress DEF Known, Bad
    <2>4. Known'
      BY <2>1, <2>3 DEF Known, Wiring, Making
    <2>5. ASSUME at' = "addrs", net \notin misled', at = "epair" PROVE Spans(i)
      <3>1. HaveHost(i) /\ HaveJail(i)
        BY <1>2, <2>5 DEF EpairStep, Looked, Cleared, Created, HostNamed, Moved, JailNamed,
                          Found
      <3> QED BY <3>1, <2>5, <1>m DEF Mispaired
    <2>6. at' = "addrs" /\ net' \notin misled' => Spans(i)'
      BY <2>3, <2>5, <1>0
    <2>7. at' = "addrs" /\ net' \notin misled' => Spans(goal[net].port)'
      BY <2>6, <1>g DEF Spans, HostUnit, JailUnit, Slot
    <2>8. (at \in Wiring => MadeSoFar(goal[net].port))'
      BY <2>3, <1>g DEF MadeSoFar, Slot
    <2> QED BY <2>3, <2>4, <2>7, <2>8 DEF Made, Wiring, Making
  <1>3. CASE AddrStep(i, a, "dnsmasq")
    <2>1. at = "addrs" /\ at' = "dnsmasq" /\ UNCHANGED <<jail, seenJails>>
      BY <1>3 DEF AddrStep
    <2>2. MadeSoFar(i)
      BY <2>1, <1>i DEF Made, Wiring
    <2>3. KnownIfs' /\ net \in jail' /\ HaveJail(i)' /\ (Spans(i) => Led(i, a)')
      BY <1>3, <2>2, <1>t, <1>i, AddrWorks DEF Known
    <2>4. net \notin misled' => Spans(i)
      BY <2>1, <1>i, <1>m DEF Made
    <2>5. net \notin misled' => Plumbed(net, goal[net])'
      BY <2>3, <2>4, <1>g, <1>0, <1>i, <2>1 DEF Plumbed, Led, Spans, HasAddress, HostUnit,
                                         JailUnit, Slot
    <2>6. HaveJail(goal[net].port)'
      BY <2>3, <1>g DEF HaveJail, JailUnit, Slot
    <2> QED BY <2>1, <2>3, <2>5, <2>6, <1>0 DEF Known, Made, Wiring, Making
  <1> QED BY <1>0, <1>1, <1>2, <1>3, <1>i

LEMMA KnownNext ==
    ASSUME TypeInv, PairsInv, Pass, ~StartPass, at' # "idle",
           ~failed', Known, Made
    PROVE  Known'
  <1>t. JailTypeOK /\ Tidy /\ StageInv /\ seenIfs \subseteq Ifs
    BY DEF TypeInv, TypeOK, JailTypeOK
  <1>0. ASSUME UNCHANGED <<jail, seenJails, hostEnd, seenIfs, goal>>,
               at \notin {"remove", "purge"}, at' \notin {"remove", "purge"}
        PROVE  Known'
    BY <1>0 DEF Known, KnownIfs
  <1>1. ASSUME \/ (\E n \in Nets : NextNet(n))
               \/ WriteFile("hosts", "opts") \/ WriteFile("opts", "jail")
               \/ Dnsmasq \/ StoreCmd \/ StartDnsmasq
               \/ StartCollect \/ (\E j \in Jails : KillJailProcs(j))
        PROVE  Known'
    <2>1. UNCHANGED <<jail, seenJails, hostEnd, seenIfs, goal>>
      BY <1>1, Unfold DEF NextNet, WriteFile, Dnsmasq, StoreCmd, StartDnsmasq, StartCollect,
             KillJailProcs
    <2>2. at \notin {"remove", "purge"} /\ at' \notin {"remove", "purge"}
      BY <1>1 DEF NextNet, WriteFile, Dnsmasq, StoreCmd, StartDnsmasq, StartCollect,
             KillJailProcs
    <2> QED BY <2>1, <2>2, <1>0
  <1>2. CASE Plumb
    BY <1>2, PlumbWell
  <1>3. CASE DestroyUndesired
    <2>1. ASSUME NEW i \in seenIfs \ WantedIfs(goal), DestroyEpair(i) PROVE Known'
      <3>1. EpairGoes(i) /\ KnownIfs'
        BY <2>1, <1>t, EpairGoesSteps, EpairGoesKeeps DEF Known
      <3> QED BY <3>1 DEF Known, EpairGoes
    <2>2. ASSUME at = "kill", at' = "destroy", UNCHANGED <<plane, unit, seen>> PROVE Known'
      BY <2>2, <1>0, <1>3, Unfold DEF DestroyUndesired
    <2> QED BY <1>3, <2>1, <2>2 DEF DestroyUndesired
  <1>4. CASE StartRemove
    BY <1>4, Unfold DEF StartRemove, Undesired, Known, KnownIfs
  <1>5. ASSUME NEW j \in Jails, RemoveJail(j) PROVE Known'
    <2>1. /\ at = "remove" /\ UNCHANGED <<at, seenIfs, hostEnd, goal>>
          /\ jail' = jail \ {j} /\ left' = left \ {j}
      BY <1>5, Unfold DEF RemoveJail, JailGoes
    <2> QED BY <2>1 DEF Known, KnownIfs
  <1>6. CASE RemoveState
    BY <1>6, Unfold DEF RemoveState, Known, KnownIfs
  <1>7. ~EndPass
    BY DEF EndPass
  <1> QED BY <1>1, <1>2, <1>3, <1>4, <1>5, <1>6, <1>7 DEF Pass

LEMMA MadeNext ==
    ASSUME TypeInv, PairsInv, Pass, ~failed', Known, Made
    PROVE  Made'
  <1>1. CASE Plumb
    BY <1>1, PlumbWell
  <1>2. CASE Dnsmasq \/ StoreCmd
    <2>1. /\ at \in {"dnsmasq", "store"} /\ UNCHANGED <<plane, goal, net>>
          /\ at' \in {"store", "start", "nets"}
      BY <1>2 DEF Dnsmasq, StoreCmd
    <2>2. /\ net \in jail /\ HaveJail(goal[net].port)
          /\ net \notin misled => Plumbed(net, goal[net])
      BY <2>1 DEF Made
    <2>m. misled \subseteq misled'
      BY <1>2, Unfold DEF Dnsmasq, StoreCmd
    <2>3. net \notin misled' => Plumbed(net, goal[net])'
      BY <2>1, <2>2, <2>m, Unfold DEF Plumbed, Spans, HasAddress, HostUnit, JailUnit, Slot
    <2>4. net' \in jail' /\ HaveJail(goal[net].port)'
      BY <2>1, <2>2, Unfold DEF HaveJail, JailUnit, Slot
    <2> QED BY <2>1, <2>3, <2>4 DEF Made, Wiring, Making
  <1>3. CASE DestroyUndesired
    <2>1. at' \in {"kill", "destroy"}
      BY <1>3 DEF DestroyUndesired, DestroyEpair
    <2> QED BY <2>1 DEF Made, Wiring, Making
  <1>4. CASE \/ StartPass \/ (\E n \in Nets : NextNet(n))
             \/ WriteFile("hosts", "opts") \/ WriteFile("opts", "jail") \/ StartDnsmasq
             \/ StartCollect \/ (\E j \in Jails : KillJailProcs(j))
             \/ StartRemove \/ (\E j \in Jails : RemoveJail(j)) \/ RemoveState \/ EndPass
    <2>1. at' \in {"nets", "hosts", "opts", "jail", "kill", "remove", "purge", "idle"}
      BY <1>4 DEF StartPass, NextNet, WriteFile, StartDnsmasq, StartCollect, KillJailProcs,
             StartRemove, RemoveJail, RemoveState, EndPass
    <2> QED BY <2>1 DEF Made, Wiring, Making
  <1> QED BY <1>1, <1>2, <1>3, <1>4 DEF Pass

\* The network that the pass has just been through works, if it was not mixed up.
LEMMA JustEnsured ==
    ASSUME TypeInv, PidInv, Dnsmasq \/ StartDnsmasq, at' = "nets", ~failed', Made,
           net \notin misled', NEW s, s = goal[net]
    PROVE  InOrder(net, s)'
  <1>t. /\ TypeOK /\ DiskTypes /\ ProcTypes /\ StageInv /\ FilesInv /\ goal \in Configs
    BY TypesInParts DEF TypeInv, TypeOK
  <1>0. /\ at \in {"dnsmasq", "start"} /\ net \in Served(goal) /\ UNCHANGED <<plane, file, net, cmd>>
    BY <1>t, Unfold DEF Dnsmasq, StartDnsmasq, StageInv, Ensuring
  <1>1. /\ net \in Nets /\ goal[net].files \in [Files -> Contents]
    BY <1>0, <1>t, GoalFacts
  <1>2. Plumbed(net, s)'
    <2>0. net \notin misled
      BY Unfold DEF Dnsmasq, StartDnsmasq
    <2>1. Plumbed(net, s)
      BY <2>0, <1>0 DEF Made
    <2> QED BY <2>1, <1>0, Unfold DEF Plumbed, Spans, HasAddress, HostUnit, JailUnit, Slot
  <1>3. file'[net] = s.files
    <2>1. file[net] \in [Files -> Contents \cup {None}]
      BY <1>1, <1>t DEF DiskTypes
    <2>2. \A f \in Files : file[net][f] = goal[net].files[f]
      BY <1>0, <1>t DEF FilesInv, Ensuring, Files
    <2> QED BY <2>1, <2>2, <1>0, <1>1
  <1>4. CASE Dnsmasq
    <2>1. /\ Alive(net) /\ cmd[net] = s.args /\ pidfile' = pidfile
          /\ \/ proc' = proc
             \/ proc' = [proc EXCEPT ![pidfile[net]].loaded = file[proc[pidfile[net]].net]]
      BY <1>4, Unfold DEF Dnsmasq
    <2>2. pidfile[net] \in Pids /\ proc[pidfile[net]] \in Process
      BY <2>1, <1>1, <1>t DEF Alive, DiskTypes, ProcTypes
    <2>3. proc[pidfile[net]].net = net /\ proc[pidfile[net]].args = s.args
      <3>1. net \notin MixedUp(net)
        BY <1>4 DEF Dnsmasq
      <3>2. proc[pidfile[net]].net = net
        BY <3>1, <2>1, <1>1 DEF MixedUp
      <3> QED BY <3>2, <2>1, <1>1 DEF PidInv
    <2>4. /\ proc'[pidfile[net]] # None
          /\ proc'[pidfile[net]].net = net /\ proc'[pidfile[net]].args = s.args
      <3>1. CASE proc' = proc
        BY <3>1, <2>1, <2>3 DEF Alive
      <3>2. CASE proc' = [proc EXCEPT ![pidfile[net]].loaded = file[proc[pidfile[net]].net]]
        <4>1. file[proc[pidfile[net]].net] \in [Files -> Contents]
          BY <2>1, <2>2 DEF TypeInv, ProcsInv, Alive
        <4>2. proc'[pidfile[net]] = [proc[pidfile[net]] EXCEPT
                                       !.loaded = file[proc[pidfile[net]].net]]
          BY <3>2, <2>2, <1>t DEF ProcTypes
        <4>3. proc'[pidfile[net]] \in Process
          BY <4>1, <4>2, <2>2 DEF Process
        <4>4. proc'[pidfile[net]].net = net /\ proc'[pidfile[net]].args = s.args
          BY <4>2, <2>2, <2>3 DEF Process
        <4> QED BY <4>3, <4>4, NoneAssumption
      <3> QED BY <3>1, <3>2, <2>1
    <2>5. ServedBy(net, s, pidfile[net])'
      BY <2>1, <2>4, <1>0 DEF ServedBy
    <2> QED BY <2>1, <2>2, <2>5, <1>0, <1>2, <1>3, NoneAssumption DEF InOrder
  <1>5. CASE StartDnsmasq
    <2>1. PICK q \in Pids :
              /\ proc' = [proc EXCEPT ![q] = [net |-> net, args |-> s.args,
                                              loaded |-> file[net]]]
              /\ pidfile' = [pidfile EXCEPT ![net] = q]
      BY <1>5 DEF StartDnsmasq, NewPids, FreePids, StalePids
    <2>2. pidfile'[net] = q /\ proc'[q] = [net |-> net, args |-> s.args, loaded |-> file[net]]
      BY <2>1, <1>1, <1>t DEF DiskTypes, ProcTypes
    <2>3. [net |-> net, args |-> s.args, loaded |-> file[net]] \in Process
      <3>1. s.args \in Args
        BY <1>0, <1>t, GoalFacts
      <3>2. file[net] \in [Files -> Contents]
        BY <1>0, <1>1, <1>3
      <3> QED BY <3>1, <3>2, <1>1 DEF Process
    <2>4. ServedBy(net, s, pidfile[net])' /\ pidfile'[net] # None
      BY <2>2, <2>3, <1>0, NoneAssumption DEF ServedBy
    <2> QED BY <2>4, <1>0, <1>2, <1>3 DEF InOrder
  <1> QED BY <1>4, <1>5

LEMMA AllWorkingNext ==
    ASSUME TypeInv, PairsInv, PidInv, Pass, ~StartPass, at' # "idle",
           ~failed', Known, Made, AllWorking
    PROVE  AllWorking'
  <1>t. TypeOK /\ StageInv /\ goal \in Configs
    BY DEF TypeInv, TypeOK
  <1>g. goal' = goal
    BY DEF Pass, EndPass, NextNet, WriteFile, Plumb, Dnsmasq, StoreCmd, StartDnsmasq,
           StartCollect, KillJailProcs, DestroyUndesired, StartRemove, RemoveJail, RemoveState
  <1>1. ASSUME NEW n \in Served(goal), Ensured(n)',
               ~(n = net /\ at' = "nets" /\ (Dnsmasq \/ StartDnsmasq))
        PROVE  Ensured(n)
    <2> USE DEF Ensured, Ensuring, Wiring, Making
    <2>1. ASSUME NEW m \in Nets, NextNet(m) PROVE Ensured(n)
      BY <1>1, <2>1 DEF NextNet
    <2>2. CASE WriteFile("hosts", "opts") \/ WriteFile("opts", "jail") \/ StoreCmd
      BY <1>1, <2>2 DEF WriteFile, StoreCmd
    <2>3. CASE Plumb
      <3>1. at' \in Wiring \cup {"dnsmasq"} /\ UNCHANGED <<left, net>>
        BY <2>3, <1>t, PlumbWell, PlumbSteps
      <3> QED BY <3>1, <1>1
    <2>4. CASE Dnsmasq
      <3>1. at' \in {"store", "nets"} /\ UNCHANGED <<left, net>>
        BY <2>4 DEF Dnsmasq
      <3> QED BY <3>1, <2>4, <1>1
    <2>5. CASE StartDnsmasq
      <3>1. at' = "nets" /\ UNCHANGED <<left, net>>
        BY <2>5 DEF StartDnsmasq
      <3> QED BY <3>1, <2>5, <1>1
    <2>6. CASE StartCollect
      BY <2>6 DEF StartCollect
    <2>7. CASE \/ (\E j \in Jails : KillJailProcs(j)) \/ DestroyUndesired \/ StartRemove
               \/ (\E j \in Jails : RemoveJail(j)) \/ RemoveState \/ EndPass
      <3>1. at \in {"kill", "destroy", "remove", "purge"}
        BY <2>7 DEF KillJailProcs, DestroyUndesired, DestroyEpair, StartRemove, RemoveJail,
               RemoveState, EndPass, Done
      <3> QED BY <3>1
    <2> QED BY <2>1, <2>2, <2>3, <2>4, <2>5, <2>6, <2>7 DEF Pass
  <1>m. misled \subseteq misled'
    BY MisledGrows DEF EndPass
  <1>2. ASSUME NEW n \in Served(goal), Ensured(n)', n \notin misled', NEW s, s = goal[n]
        PROVE  InOrder(n, s)'
    <2>1. CASE Ensured(n)
      <3>1. InOrder(n, s)
        BY <1>2, <1>m, <2>1 DEF AllWorking
      <3> QED BY <1>2, <2>1, <3>1, WorkingKept
    <2>2. CASE n = net /\ at' = "nets" /\ (Dnsmasq \/ StartDnsmasq)
      <3>1. InOrder(net, s)'
        BY <1>2, <2>2, JustEnsured
      <3>2. net' = net
        BY <2>2 DEF Dnsmasq, StartDnsmasq
      <3> QED BY <3>1, <3>2, <2>2
    <2> QED BY <1>1, <1>2, <2>1, <2>2
  <1>3. ASSUME NEW n \in Served(goal), Ensured(n)', n \notin misled'
        PROVE  InOrder(n, goal[n])'
    <2>1. PICK s : s = goal[n]
      OBVIOUS
    <2>2. InOrder(n, s)'
      BY <1>2, <1>3, <2>1
    <2> QED BY <2>1, <2>2, <1>g
  <1>4. ASSUME NEW n \in Served(goal), Ensured(n)' PROVE n \in jail'
    <2>1. CASE Ensured(n)
      BY <2>1, JailKept DEF AllWorking
    <2>2. CASE n = net /\ (Dnsmasq \/ StartDnsmasq)
      <3>1. n \in jail
        BY <2>2 DEF Made, Dnsmasq, StartDnsmasq
      <3> QED BY <3>1, JailKept
    <2> QED BY <1>1, <1>4, <2>1, <2>2
  <1> QED BY <1>3, <1>4, <1>g DEF AllWorking, Served

LEMMA GoneNext ==
    ASSUME Pass, goal' = goal
    PROVE  Gone'
  <1>1. CASE RemoveState
    BY <1>1 DEF RemoveState, Purged, Gone, Served
  <1>2. CASE Plumb
    <2>1. at' # "purge"
      BY <1>2 DEF Plumb, JailSeen, CreateJail, EnsureEpair, EpairThere, DestroyBrokenEpair,
             DestroyBrokenJailIf, NoEpair, CreateEpair, NameHostIf, MoveJailIf, NameJailIf,
             LookAgain, EnsureAddrs
    <2> QED BY <2>1 DEF Gone
  <1>3. CASE DestroyUndesired \/ Dnsmasq
    <2>1. at' # "purge"
      BY <1>3 DEF DestroyUndesired, DestroyEpair, Dnsmasq
    <2> QED BY <2>1 DEF Gone
  <1>4. CASE \/ StartPass \/ (\E n \in Nets : NextNet(n))
             \/ WriteFile("hosts", "opts") \/ WriteFile("opts", "jail") \/ StoreCmd
             \/ StartDnsmasq \/ StartCollect \/ (\E j \in Jails : KillJailProcs(j))
             \/ StartRemove \/ (\E j \in Jails : RemoveJail(j)) \/ EndPass
    <2>1. at' # "purge"
      BY <1>4 DEF StartPass, NextNet, WriteFile, StoreCmd, StartDnsmasq, StartCollect,
             KillJailProcs, StartRemove, RemoveJail, EndPass
    <2> QED BY <2>1 DEF Gone
  <1> QED BY <1>1, <1>2, <1>3, <1>4 DEF Pass

LEMMA CleanNext ==
    ASSUME KeptInv, CleanInv, Next
    PROVE  CleanInv'
  <1>k. TypeInv /\ PairsInv /\ PidInv
    BY DEF KeptInv
  <1> SUFFICES ASSUME ~failed', ~touched', at' # "idle"
               PROVE  Known' /\ Made' /\ AllWorking' /\ Gone'
    BY DEF CleanInv
  <1>1. CASE StartPass
    <2>1. /\ at' = "nets" /\ seenJails' = jail /\ jail' = jail /\ hostEnd' = hostEnd
          /\ seenIfs' = {i \in Ifs : HaveHost(i)} /\ left' = Served(goal) /\ goal' = goal
      BY <1>1, Unfold DEF StartPass
    <2>2. Known'
      BY <2>1 DEF Known, KnownIfs, HaveHost, HostUnit
    <2>3. Made' /\ Gone'
      BY <2>1 DEF Made, Gone, Wiring, Making
    <2>4. AllWorking'
      BY <2>1 DEF AllWorking, Ensured, Served
    <2> QED BY <2>2, <2>3, <2>4
  <1>2. CASE ~StartPass
    <2>1. /\ at # "idle" /\ ~failed /\ goal' = goal
          /\ Known /\ Made /\ AllWorking /\ Gone
          /\ \/ Pass
             \/ UNCHANGED <<jail, hostEnd, jailEnd, addr, mangled, at, unit, seenJails,
                            seenIfs, left, net, file, pidfile, proc, misled>>
      BY <1>k, <1>2, CleanSteps
    <2>2. CASE Pass
      BY <2>1, <2>2, <1>k, <1>2, KnownNext, MadeNext, AllWorkingNext, GoneNext
    <2>3. CASE UNCHANGED <<jail, hostEnd, jailEnd, addr, mangled, at, unit, seenJails,
                           seenIfs, left, net, file, pidfile, proc, misled>>
      <3>1. Known'
        BY <2>1, <2>3 DEF Known, KnownIfs, WantedIfs, Served
      <3>2. Made'
        BY <2>1, <2>3 DEF Made, MadeSoFar, Slot, Plumbed, Spans, HasAddress,
                          HostUnit, JailUnit, HaveJail
      <3>s. \A n, s : InOrder(n, s)' <=> InOrder(n, s)
        BY <2>3 DEF InOrder, ServedBy, Plumbed, Spans, HasAddress, HostUnit, JailUnit, Slot
      <3>3. AllWorking'
        BY <2>1, <2>3, <3>s DEF AllWorking, Ensured, Served
      <3>4. Gone'
        BY <2>1, <2>3 DEF Gone, Served
      <3> QED BY <3>1, <3>2, <3>3, <3>4
    <2> QED BY <2>1, <2>2, <2>3
  <1> QED BY <1>1, <1>2

LEMMA CleanUnchanged ==
    ASSUME CleanInv, UNCHANGED vars
    PROVE  CleanInv'
  <1>1. UNCHANGED <<jail, hostEnd, jailEnd, addr, mangled, at, unit, seenJails, seenIfs,
                    failed, touched, goal, left, net, file, pidfile, proc, misled>>
    BY DEF vars, plane, epairs, passVars, seen, disk, rest
  <1>2. Known' <=> Known
    BY <1>1 DEF Known, KnownIfs, WantedIfs, Served
  <1>3. Made' <=> Made
    BY <1>1 DEF Made, MadeSoFar, Slot, Plumbed, Spans, HasAddress, HostUnit,
                JailUnit, HaveJail
  <1>4. AllWorking' <=> AllWorking
    BY <1>1 DEF AllWorking, Ensured, InOrder, Served, ServedBy, Plumbed, Spans, HasAddress,
                HostUnit, JailUnit, Slot
  <1>5. Gone' <=> Gone
    BY <1>1 DEF Gone, Served
  <1> QED BY <1>1, <1>2, <1>3, <1>4, <1>5 DEF CleanInv

\* A pass whose receipts are all ok, with nobody else at work on the host, leaves nothing
\* that its configuration does not ask for and puts in order every network that it has not
\* taken for another one (reconcile.py:21-99), from whatever crashes, reboots, failed
\* commands and changes by others have left.
THEOREM CleanPassIsEnough == Spec => []CleanPassServes
  <1>1. Init => CleanInv
    BY DEF Init, CleanInv
  <1>2. KeptInv /\ CleanInv /\ [Next]_vars => CleanInv'
    BY CleanNext, CleanUnchanged
  <1>3. ASSUME KeptInv, CleanInv PROVE CleanPassServes
    <2> SUFFICES ASSUME Done, ~failed, ~touched
                 PROVE  NothingElse(goal) /\ \A n \in Served(goal) \ misled : InOrder(n, goal[n])
      BY DEF CleanPassServes
    <2>1. at = "purge" /\ Known /\ AllWorking /\ Gone
      BY <1>3 DEF Done, CleanInv
    <2>2. \A n \in Served(goal) : n \in jail /\ (n \notin misled => InOrder(n, goal[n]))
      BY <2>1 DEF AllWorking, Ensured, Ensuring, Wiring, Making
    <2>3. jail = Served(goal)
      BY <2>1, <2>2 DEF Known
    <2>4. \A i \in Ifs \ WantedIfs(goal) : ~HaveHost(i)
      BY <2>1 DEF Known, KnownIfs, HaveHost, HostUnit
    <2>5. \A n \in Nets \ Served(goal) : file[n] = NoFiles
      BY <2>1 DEF Gone
    <2> QED BY <2>2, <2>3, <2>4, <2>5 DEF NothingElse
  <1> QED BY <1>1, <1>2, <1>3, KeptInvInit, KeptInvNext, PTL DEF Spec

-----------------------------------------------------------------------------
(* As long as nothing has gone wrong.                                       *)

Untroubled == faults = 0 /\ others = 0

\* The files of the network being ensured have changed under dnsmasq p.
Dirtied(p) == rewritten /\ proc[p].net = net /\ at \in {"opts", "jail", "dnsmasq"} \cup Wiring

GoesWell == at \in Ensuring \cup {"nets"} => ~failed /\ Known /\ Made

\* There is no dnsmasq but that in the pid file, and it has read its files.
Loads == \A p \in Pids : proc[p] # None =>
            /\ pidfile[proc[p].net] = p
            /\ proc[p].loaded = file[proc[p].net] \/ Dirtied(p)

LoadInv ==
    Untroubled => /\ ~touched /\ GoesWell /\ Loads
                  /\ at \in {"store", "start"} => ~Alive(net)

\* Troubles are counted.
LEMMA StillUntroubled ==
    ASSUME TypeInv, Next, Untroubled'
    PROVE  Untroubled /\ UNCHANGED <<faults, others>> /\ Ordinary
  <1>t. TypeOK /\ JailTypeOK /\ StageInv /\ goal \in Configs /\ faults \in Nat
    BY DEF TypeInv, TypeOK, JailTypeOK
  <1>1. ~Fault /\ ~Other
    BY <1>t, FaultsCount, OtherFacts DEF Untroubled, Fault
  <1>2. ASSUME Plumb PROVE UNCHANGED <<faults, others>>
    BY <1>1, <1>2, <1>t, PlumbSteps, Unfold DEF JailStep, EpairStep, AddrStep
  <1>3. ASSUME Pass PROVE UNCHANGED <<faults, others>>
    BY <1>1, <1>2, <1>3, Unfold
       DEF Pass, StartPass, EndPass, NextNet, WriteFile, Dnsmasq, StoreCmd, StartDnsmasq,
           StartCollect, KillJailProcs, DestroyUndesired, DestroyEpair, Do, StartRemove,
           RemoveJail, RemoveState
  <1>4. ~Crash /\ ~Reboot
    BY <1>1 DEF Crash, Reboot
  <1>5. Others => \E c \in Configs : Desire(c)
    BY <1>1 DEF Others, DnsmasqDies, OperatorRemovesJail, OperatorTouchesEpair,
           OperatorDestroysEpair, OperatorMangles
  <1>6. (\E c \in Configs : Desire(c)) => UNCHANGED <<faults, others>>
    BY Unfold DEF Desire
  <1> QED BY <1>3, <1>4, <1>5, <1>6 DEF Next, Ordinary, Untroubled

\* Every command on a network works if none is made to fail ...
LEMMA PlumbWorks ==
    ASSUME TypeInv, PairsInv, GoesWell, Plumb, UNCHANGED faults
    PROVE  ~failed'
  <1>t. JailTypeOK /\ Tidy /\ TypeOK /\ StageInv /\ goal \in Configs
    BY DEF TypeInv, TypeOK
  <1>0. /\ net \in Served(goal) /\ at \in Wiring \cup {"jail"}
        /\ \/ JailStep(net, "epair", "nets")
           \/ EpairStep(goal[net].port, "nets")
           \/ AddrStep(goal[net].port, goal[net].addr, "dnsmasq")
    BY <1>t, PlumbSteps
  <1>i. PICK i, a : i \in Ifs /\ i = goal[net].port /\ a = goal[net].addr
    BY <1>0, <1>t, GoalFacts
  <1>w. ~failed /\ Known /\ Made
    BY <1>0 DEF GoesWell, Ensuring
  <1>1. CASE JailStep(net, "epair", "nets")
    <2>1. net \in seenJails \/ net \notin jail
      BY <1>w, <1>1 DEF JailStep, Known
    <2>2. failed' = failed
      BY <1>1, <2>1 DEF JailStep, Failed
    <2> QED BY <2>2, <1>w
  <1>2. CASE EpairStep(i, "nets")
    <2>1. at \in Wiring
      BY <1>2 DEF EpairStep, Looked, Cleared, Created, HostNamed, Moved, JailNamed, Found,
                  Wiring, Making
    <2>2. MadeSoFar(i) /\ MakingInv(i)
      BY <2>1, <1>i, <1>w DEF Made, PairsInv, MakingInv, Making
    <2> QED BY <1>2, <2>2, <1>t, <1>i, <1>w, EpairWorks DEF Bad
  <1>3. CASE AddrStep(i, a, "dnsmasq")
    <2>1. MadeSoFar(i)
      BY <1>3, <1>i, <1>w DEF AddrStep, Made, Wiring
    <2> QED BY <1>3, <2>1, <1>t, <1>i, <1>w, AddrWorks
  <1> QED BY <1>0, <1>1, <1>2, <1>3, <1>i

\* ... and the next dnsmasq finds its interface and no other in its way.
LEMMA StartWorks ==
    ASSUME TypeInv, GoesWell, Loads, at \in {"store", "start"} => ~Alive(net),
           StartDnsmasq, UNCHANGED faults
    PROVE  /\ ~failed'
           /\ \A p \in Pids : proc[p] # None => proc[p].net # net
           /\ \E q \in Pids :
                /\ proc[q] = None
                /\ proc' = [proc EXCEPT ![q] = [net |-> net, args |-> goal[net].args,
                                                loaded |-> file[net]]]
                /\ pidfile' = [pidfile EXCEPT ![net] = q]
  <1>t. JailTypeOK /\ TypeOK
    BY DEF TypeInv, TypeOK
  <1>1. at = "start" /\ ~failed /\ Made /\ ~Alive(net)
    BY DEF StartDnsmasq, GoesWell, Ensuring
  <1>2. HaveJail(goal[net].port)
    BY <1>1 DEF Made
  <1>3. ASSUME NEW p \in Pids, proc[p] # None PROVE proc[p].net # net
    BY <1>1, <1>3, NoneAssumption DEF Loads, Alive
  <1>4. CanServe(net) /\ ~Fault
    BY <1>2, <1>3, <1>t, FaultsCount DEF CanServe
  <1> QED BY <1>1, <1>3, <1>4 DEF StartDnsmasq, NewPids, FreePids, StalePids

LEMMA GoesWellNext ==
    ASSUME TypeInv, PairsInv, LoadInv, Ordinary, Untroubled, UNCHANGED faults
    PROVE  GoesWell'
  <1>w. GoesWell /\ Loads /\ (at \in {"store", "start"} => ~Alive(net))
    BY DEF LoadInv
  <1>t. TypeOK /\ StageInv
    BY DEF TypeInv
  <1> SUFFICES ASSUME at' \in Ensuring \cup {"nets"} PROVE ~failed' /\ Known' /\ Made'
    BY DEF GoesWell
  <1>1. CASE StartPass
    <2>1. /\ at' = "nets" /\ seenJails' = jail /\ jail' = jail /\ hostEnd' = hostEnd
          /\ seenIfs' = {i \in Ifs : HaveHost(i)} /\ failed' = FALSE
      BY <1>1, Unfold DEF StartPass
    <2>2. Known'
      BY <2>1 DEF Known, KnownIfs, HaveHost, HostUnit
    <2>3. Made'
      BY <2>1 DEF Made, Wiring, Making
    <2> QED BY <2>1, <2>2, <2>3
  <1>2. ASSUME \E c \in Configs : Desire(c) PROVE ~failed' /\ Known' /\ Made'
    <2>1. UNCHANGED <<jail, hostEnd, jailEnd, addr, mangled, at, unit, seenJails, seenIfs,
                      failed, net, left, misled>> /\ goal' = goal
      BY <1>2, Unfold DEF Desire, Ensuring, Wiring, Making
    <2>2. Known' <=> Known
      BY <2>1 DEF Known, KnownIfs, WantedIfs, Served
    <2>3. Made' <=> Made
      BY <2>1 DEF Made, MadeSoFar, Slot, Plumbed, Spans, HasAddress, HostUnit,
                  JailUnit, HaveJail
    <2> QED BY <2>1, <2>2, <2>3, <1>w DEF GoesWell
  <1>3. CASE Pass /\ ~StartPass
    <2>1. at' # "idle"
      BY DEF Ensuring, Wiring, Making
    <2>2. at \in Ensuring \cup {"nets"} /\ ~failed'
      <3>1. CASE Plumb
        BY <3>1, <1>w, <1>t, PlumbWorks, PlumbSteps DEF Ensuring
      <3>2. CASE StartDnsmasq
        BY <3>2, <1>w, StartWorks DEF StartDnsmasq, Ensuring
      <3>3. CASE \/ (\E n \in Nets : NextNet(n))
                 \/ WriteFile("hosts", "opts") \/ WriteFile("opts", "jail")
                 \/ Dnsmasq \/ StoreCmd
        <4>1. at \in {"nets", "hosts", "opts", "dnsmasq", "store"} /\ failed' = failed
          BY <3>3 DEF NextNet, WriteFile, Dnsmasq, StoreCmd
        <4> QED BY <4>1, <1>w DEF GoesWell, Ensuring
      <3>4. CASE \/ StartCollect \/ (\E j \in Jails : KillJailProcs(j)) \/ DestroyUndesired
                 \/ StartRemove \/ (\E j \in Jails : RemoveJail(j)) \/ RemoveState \/ EndPass
        <4>1. at' \in {"kill", "destroy", "remove", "purge", "idle"}
          BY <3>4 DEF StartCollect, KillJailProcs, DestroyUndesired, DestroyEpair,
                 StartRemove, RemoveJail, RemoveState, EndPass
        <4> QED BY <4>1 DEF Ensuring, Wiring, Making
      <3> QED BY <1>3, <3>1, <3>2, <3>3, <3>4 DEF Pass
    <2>3. Known /\ Made
      BY <2>2, <1>w DEF GoesWell
    <2> QED BY <1>3, <2>1, <2>2, <2>3, KnownNext, MadeNext
  <1> QED BY <1>1, <1>2, <1>3 DEF Ordinary

LEMMA LoadsNext ==
    ASSUME TypeInv, PairsInv, LoadInv, Ordinary, Untroubled, UNCHANGED faults,
           GoesWell'
    PROVE  Loads' /\ (at \in {"store", "start"} => ~Alive(net))'
  <1>w. GoesWell /\ Loads /\ (at \in {"store", "start"} => ~Alive(net))
    BY DEF LoadInv
  <1>t. /\ TypeOK /\ DiskTypes /\ ProcTypes /\ StageInv /\ FilesInv /\ ProcsInv
        /\ goal \in Configs /\ at \in Steps
    BY TypesInParts DEF TypeInv, TypeOK
  <1>r. \A p \in Pids : proc[p] # None =>
            /\ proc[p] \in Process /\ proc[p].net \in Nets /\ pidfile[proc[p].net] = p
            /\ proc[p].loaded = file[proc[p].net] \/ Dirtied(p)
    BY <1>t, <1>w DEF ProcTypes, Process, Loads
  <1>n. at \in Ensuring => net \in Nets
    BY <1>t, GoalFacts DEF StageInv
  <1>N. None \notin Pids
    BY NoneAssumption
  <1>d. at \notin {"opts", "jail", "dnsmasq"} \cup Wiring => \A p \in Pids : ~Dirtied(p)
    BY DEF Dirtied
  <1> DEFINE Started == (at \in {"store", "start"} => ~Alive(net))'
  \* Processes go.
  <1>0. ASSUME \A p \in Pids : proc'[p] \in {proc[p], None}, UNCHANGED <<file, pidfile>>,
               at' \notin {"store", "start"},
               \A p \in Pids : proc'[p] # None /\ Dirtied(p) => Dirtied(p)'
        PROVE  Loads' /\ Started
    BY <1>0, <1>r DEF Loads
  <1>w2. ASSUME NEW S, proc' = Without(S) PROVE \A p \in Pids : proc'[p] \in {proc[p], None}
    BY <1>w2 DEF Without
  <1>1. ASSUME \/ StartPass \/ (\E n \in Nets : NextNet(n)) \/ StartCollect \/ StartRemove
               \/ (\E j \in Jails : KillJailProcs(j)) \/ DestroyUndesired
               \/ (\E j \in Jails : RemoveJail(j)) \/ EndPass
        PROVE  Loads' /\ Started
    <2>1. /\ at \in {"idle", "nets", "kill", "destroy", "remove", "purge"}
          /\ at' \in {"nets", "hosts", "kill", "destroy", "remove", "idle"}
      BY <1>1 DEF StartPass, NextNet, StartCollect, StartRemove, KillJailProcs,
             DestroyUndesired, DestroyEpair, RemoveJail, EndPass, Done
    <2>2. UNCHANGED <<file, pidfile>> /\ (proc' = proc \/ \E S : proc' = Without(S))
      BY <1>1, Unfold DEF StartPass, NextNet, StartCollect, StartRemove, KillJailProcs,
             DestroyUndesired, DestroyEpair, RemoveJail, EndPass
    <2>3. \A p \in Pids : proc'[p] \in {proc[p], None}
      BY <2>2, <1>w2
    <2>4. at \notin {"opts", "jail", "dnsmasq"} \cup Wiring
      BY <2>1 DEF Wiring, Making
    <2> QED BY <2>1, <2>2, <2>3, <2>4, <1>0, <1>d
  <1>2. ASSUME NEW f \in Files, NEW next, WriteFile(f, next),
               (f = "hosts" /\ next = "opts") \/ (f = "opts" /\ next = "jail")
        PROVE  Loads' /\ Started
    <2>1. /\ at = f /\ at' = next /\ file' = [file EXCEPT ![net][f] = goal[net].files[f]]
          /\ UNCHANGED <<pidfile, proc, net>>
          /\ Dirty(f) => rewritten'
          /\ net \in Nets
      BY <1>2, <1>n DEF WriteFile, Ensuring
    <2>2. \A n \in Nets : file'[n] = file[n] \/ (n = net /\ Changed(f))
      BY <2>1, <1>2, <1>t DEF Changed, DiskTypes
    <2>3. ASSUME NEW p \in Pids, proc[p] # None
          PROVE  proc[p].loaded = file'[proc[p].net] \/ Dirtied(p)'
      <3>1. CASE Dirtied(p)
        BY <3>1, <2>1, <1>2 DEF Dirtied, Dirty
      <3>2. CASE Changed(f) /\ proc[p].net = net
        BY <3>2, <2>1, <1>2 DEF Dirtied, Dirty
      <3> QED BY <3>1, <3>2, <2>2, <2>3, <1>r
    <2> QED BY <2>1, <2>3, <1>2, <1>r DEF Loads
  <1>3. CASE Plumb
    <2>1. /\ UNCHANGED <<file, pidfile, proc, net, rewritten>>
          /\ at \in Wiring \cup {"jail"} /\ at \in Ensuring /\ UNCHANGED faults
      BY <1>3, <1>t, PlumbSteps, Unfold DEF Ensuring
    <2>2. ~failed' /\ Known /\ Made
      BY <2>1, <1>3, <1>w, PlumbWorks DEF GoesWell
    <2>3. at' \in Wiring \cup {"dnsmasq"}
      BY <2>2, <1>3, PlumbWell
    <2>4. at' \notin {"store", "start"}
      BY <2>3 DEF Wiring, Making
    <2>5. \A p \in Pids : Dirtied(p) => Dirtied(p)'
      BY <2>1, <2>3 DEF Dirtied
    <2> QED BY <2>1, <2>4, <2>5, <1>0
  <1>4. CASE Dnsmasq
    <2>1. at = "dnsmasq" /\ net \in Nets /\ UNCHANGED <<file, pidfile, net>>
      BY <1>4, <1>n, Unfold DEF Dnsmasq, Ensuring
    <2>2. \A p \in Pids : proc[p] # None /\ proc[p].net = net => Alive(net) /\ pidfile[net] = p
      BY <1>r, <1>N DEF Alive
    <2>3. CASE ~Alive(net)
      <3>1. proc' = proc /\ at' = "store"
        BY <1>4, <2>3 DEF Dnsmasq
      <3>2. \A p \in Pids : proc[p] # None => proc[p].loaded = file[proc[p].net]
        BY <2>2, <2>3, <1>r DEF Dirtied
      <3> QED BY <3>1, <3>2, <2>1, <2>3, <1>r DEF Loads, Alive
    <2>4. CASE Alive(net) /\ cmd[net] # goal[net].args
      <3>1. proc' = [proc EXCEPT ![pidfile[net]] = None] /\ at' = "store"
        BY <1>4, <2>4 DEF Dnsmasq
      <3>2. pidfile[net] \in Pids
        BY <2>1, <2>4, <1>t DEF Alive, DiskTypes
      <3>3. \A p \in Pids : proc'[p] # None =>
              proc'[p] = proc[p] /\ p # pidfile[net] /\ proc[p].loaded = file[proc[p].net]
        BY <3>1, <3>2, <2>2, <1>r, <1>t DEF Dirtied, ProcTypes
      <3>4. ~Alive(net)'
        BY <3>1, <3>2, <2>1, <1>t DEF Alive, ProcTypes
      <3> QED BY <3>3, <3>4, <2>1, <1>r DEF Loads
    <2>5. CASE Alive(net) /\ cmd[net] = goal[net].args /\ ~rewritten
      <3>1. proc' = proc /\ at' = "nets"
        BY <1>4, <2>5 DEF Dnsmasq
      <3> QED BY <3>1, <2>1, <2>5, <1>0 DEF Dirtied
    <2>6. CASE Alive(net) /\ cmd[net] = goal[net].args /\ rewritten
      <3>1. /\ proc' = [proc EXCEPT ![pidfile[net]].loaded = file[proc[pidfile[net]].net]]
            /\ at' = "nets"
        BY <1>4, <2>6 DEF Dnsmasq
      <3>2. pidfile[net] \in Pids /\ proc[pidfile[net]] \in Process
        BY <2>1, <2>6, <1>t DEF Alive, DiskTypes, ProcTypes
      <3>3. ASSUME NEW p \in Pids, proc'[p] # None
            PROVE  pidfile[proc'[p].net] = p /\ proc'[p].loaded = file[proc'[p].net]
        <4>1. CASE p = pidfile[net]
          <5>1. proc'[p] = [proc[p] EXCEPT !.loaded = file[proc[p].net]]
            BY <4>1, <3>1, <3>2, <1>t DEF ProcTypes
          <5>2. proc[p] # None /\ proc[p] \in Process
            BY <4>1, <3>2, <2>6 DEF Alive
          <5>3. proc'[p].net = proc[p].net /\ proc'[p].loaded = file[proc[p].net]
            BY <5>1, <5>2 DEF Process
          <5> QED BY <5>2, <5>3, <1>r
        <4>2. CASE p # pidfile[net]
          <5>1. proc'[p] = proc[p]
            BY <4>2, <3>1, <1>t DEF ProcTypes
          <5>2. ~Dirtied(p)
            BY <5>1, <4>2, <3>3, <2>2 DEF Dirtied
          <5> QED BY <5>1, <5>2, <3>3, <1>r
        <4> QED BY <4>1, <4>2
      <3> QED BY <3>1, <3>3, <2>1 DEF Loads
    <2>7. rewritten \in BOOLEAN
      BY DEF TypeInv, TypeOK
    <2> QED BY <2>3, <2>4, <2>5, <2>6, <2>7
  <1>5. CASE StoreCmd
    <2>1. /\ at = "store" /\ at' = "start" /\ UNCHANGED <<file, pidfile, proc, net>>
      BY <1>5, Unfold DEF StoreCmd
    <2>2. \A p \in Pids : ~Dirtied(p)
      BY <2>1 DEF Dirtied, Wiring, Making
    <2> QED BY <2>1, <2>2, <1>r, <1>w DEF Loads, Alive
  <1>6. CASE StartDnsmasq
    <2>1. at = "start" /\ at' = "nets" /\ net \in Nets /\ UNCHANGED file
      BY <1>6, <1>n DEF StartDnsmasq, Ensuring
    <2>2. PICK q \in Pids :
                /\ proc[q] = None
                /\ proc' = [proc EXCEPT ![q] = [net |-> net, args |-> goal[net].args,
                                                loaded |-> file[net]]]
                /\ pidfile' = [pidfile EXCEPT ![net] = q]
      BY <1>6, <1>w, StartWorks
    <2>3. \A p \in Pids : proc[p] # None => proc[p].net # net
      BY <1>6, <1>w, StartWorks
    <2>4. \A p \in Pids : ~Dirtied(p)
      BY <2>1 DEF Dirtied, Wiring, Making
    <2>5. proc'[q] = [net |-> net, args |-> goal[net].args, loaded |-> file[net]]
          /\ pidfile'[net] = q
      BY <2>1, <2>2, <1>t DEF ProcTypes, DiskTypes
    <2>6. \A p \in Pids \ {q} : proc'[p] # None =>
             /\ proc'[p] = proc[p] /\ pidfile'[proc[p].net] = p
             /\ proc[p].loaded = file[proc[p].net]
      BY <2>1, <2>2, <2>3, <2>4, <1>r, <1>t DEF ProcTypes, DiskTypes
    <2> QED BY <2>1, <2>5, <2>6 DEF Loads
  <1>7. CASE RemoveState
    <2>1. /\ at = "remove" /\ at' = "purge" /\ proc' = proc
          /\ \A n \in Served(goal) : file'[n] = file[n] /\ pidfile'[n] = pidfile[n]
      BY <1>7 DEF RemoveState, Purged, Served
    <2>2. \A p \in Pids : proc[p] # None => proc[p].net \in Served(goal) /\ ~Dirtied(p)
      BY <2>1, <1>t DEF ProcsInv, Collecting, Dirtied, Wiring, Making
    <2> QED BY <2>1, <2>2, <1>r DEF Loads
  <1>8. ASSUME NEW c \in Configs, Desire(c) PROVE Loads' /\ Started
    <2>1. UNCHANGED <<file, pidfile, proc, net, rewritten, at>>
      BY <1>8, Unfold DEF Desire
    <2> QED BY <2>1, <1>w DEF Loads, Alive, Dirtied
  <1> QED BY <1>1, <1>2, <1>3, <1>4, <1>5, <1>6, <1>7, <1>8 DEF Ordinary, Pass, Files

LEMMA LoadInvNext == TypeInv /\ PairsInv /\ LoadInv /\ [Next]_vars => PairsInv' /\ LoadInv'
  <1> SUFFICES ASSUME TypeInv, PairsInv, LoadInv, [Next]_vars PROVE PairsInv' /\ LoadInv'
    OBVIOUS
  <1>1. CASE Next
    <2>1. ASSUME Untroubled'
          PROVE  /\ ~touched' /\ GoesWell' /\ Loads'
                 /\ (at \in {"store", "start"} => ~Alive(net))'
      <3>1. Untroubled /\ UNCHANGED <<faults, others>> /\ Ordinary
        BY <1>1, <2>1, StillUntroubled
      <3>2. GoesWell'
        BY <3>1, GoesWellNext
      <3>3. Plumb => UNCHANGED touched
        BY Unfold DEF Plumb
      <3>4. touched' = touched \/ touched' = FALSE
        BY <3>1, <3>3, Unfold
           DEF Ordinary, Pass, StartPass, EndPass, Forgotten, NextNet, WriteFile, Dnsmasq,
               StoreCmd, StartDnsmasq, StartCollect, KillJailProcs, DestroyUndesired,
               StartRemove, RemoveJail, RemoveState, Desire
      <3>5. ~touched'
        BY <3>1, <3>4 DEF LoadInv
      <3> QED BY <3>1, <3>2, <3>5, LoadsNext
    <2>2. LoadInv'
      BY <2>1 DEF LoadInv
    <2> QED BY <2>2, <1>1, PairsNext
  <1>2. CASE UNCHANGED vars
    <2>1. UNCHANGED <<jail, hostEnd, jailEnd, addr, mangled, at, unit, seenJails, seenIfs,
                      failed, touched, goal, left, net, rewritten, file, pidfile, proc,
                      faults, others, misled>>
      BY <1>2 DEF vars, plane, epairs, passVars, seen, disk, rest
    <2>2. PairsInv'
      BY <2>1 DEF PairsInv, Apart, NotBoth, MakingInv, Slot
    <2>3. Known' <=> Known
      BY <2>1 DEF Known, KnownIfs, WantedIfs, Served
    <2>4. Made' <=> Made
      BY <2>1 DEF Made, MadeSoFar, Slot, Plumbed, Spans, HasAddress, HostUnit,
                  JailUnit, HaveJail
    <2>5. GoesWell' <=> GoesWell
      BY <2>1, <2>3, <2>4 DEF GoesWell
    <2>6. Loads' <=> Loads
      BY <2>1 DEF Loads, Dirtied
    <2>7. (at \in {"store", "start"} => ~Alive(net))' <=> (at \in {"store", "start"} => ~Alive(net))
      BY <2>1 DEF Alive
    <2> QED BY <2>1, <2>2, <2>5, <2>6, <2>7 DEF LoadInv, Untroubled
  <1> QED BY <1>1, <1>2

\* As long as no command has failed and no agent, host or operator has come between, each
\* dnsmasq has read the files that are written for it: whatever the passes have rewritten
\* and however often the desire has changed, a HUP or a restart has followed
\* (reconcile.py:24-79).
THEOREM WritesAreRead == Spec => []UntroubledLoads
  <1>1. Init => TypeInv /\ PairsInv
    BY KeptInvInit DEF KeptInv
  <1>2. Init => LoadInv
    BY DEF Init, JailInit, LoadInv, GoesWell, Loads, Alive, Ensuring, Wiring, Making
  <1>3. TypeInv /\ LoadInv => UntroubledLoads
    BY DEF UntroubledLoads, FilesLoaded, LoadInv, Untroubled, Loads, Dirtied, Done, ServedBy,
           Wiring, Making
  <1> QED BY <1>1, <1>2, <1>3, TypeInvNext, LoadInvNext, PTL DEF Spec
=============================================================================
