--------------------------------- MODULE Jail ---------------------------------
(***************************************************************************)
(* The plumbing of jail.py that the dhcp and the l3 reconcilers share:     *)
(* VNET jails and the epairs that lead from the host into them.  Modules   *)
(* that EXTEND this one say which jails and epairs are wanted and in which *)
(* order they are ensured; the step a pass is at is the variable at.       *)
(*                                                                         *)
(* Every command may fail, and is then recorded as a receipt that is not   *)
(* ok while the pass goes on; the agent may die between any two commands.  *)
(* An epair is a unit of the kernel with two ends.  Only what has a name   *)
(* is found again by a later pass: the host end by the name made from the  *)
(* port's id, the jail end by its name in the jail.                        *)
(***************************************************************************)
EXTENDS Naturals, FiniteSets

CONSTANTS
    Jails,
    Ifs,                    \* host-side names, one per port
    JailIfs,                \* jail-side names
    InJail, NameIn,         \* where the jail end of each port's epair belongs
    Units,                  \* the epairs the kernel can number
    Addresses,              \* mac and inet addresses of a jail end, as a whole
    NoAddress,              \* addresses nobody asked for, or only a part
    Raw,                    \* an end under the name the kernel gave it
    Host, Nowhere,          \* a jail end still on the host; an end that is not there
    HalvesStay,             \* may the destroy of half an epair fail?
    MaxOthers, MaxFaults    \* bounds on changes by others, on faults

ASSUME UnitsAssumption == Units \subseteq Nat /\ IsFiniteSet(Units)
ASSUME SlotAssumption == InJail \in [Ifs -> Jails] /\ NameIn \in [Ifs -> JailIfs]
ASSUME EndsAssumption ==
    /\ Raw \notin Ifs \cup JailIfs /\ Nowhere \notin Ifs \cup {Raw, Host} \cup Units
    /\ {Host, Nowhere} \cap (Jails \X (JailIfs \cup {Raw})) = {}

VARIABLES
    \* the kernel
    jail,       \* the jails there are
    hostEnd,    \* the name of each unit's host end
    jailEnd,    \* the place of each unit's jail end: a jail and a name there
    addr,       \* the addresses of the jail end
    mangled,    \* the units whose description is not the port's
    \* the pass
    at,         \* the step it is at
    unit,       \* the unit that is being made, or Nowhere
    seenJails,  \* jails: read at the start, then kept in step
    seenIfs,    \* host_ifs: the same
    failed,     \* some receipt is not ok
    \* history
    touched,    \* someone else changed the host while the pass ran
    others, faults

epairs == <<hostEnd, jailEnd, addr, mangled>>
plane  == <<jail, epairs>>
seen   == <<seenJails, seenIfs>>

JailTypeOK ==
    /\ jail \subseteq Jails
    /\ hostEnd \in [Units -> Ifs \cup {Raw, Nowhere}]
    /\ jailEnd \in [Units -> (Jails \X (JailIfs \cup {Raw})) \cup {Host, Nowhere}]
    /\ addr \in [Units -> Addresses \cup {NoAddress}]
    /\ mangled \subseteq Units
    /\ unit \in Units \cup {Nowhere}
    /\ seenJails \subseteq Jails /\ seenIfs \subseteq Ifs
    /\ failed \in BOOLEAN /\ touched \in BOOLEAN
    /\ others \in Nat /\ faults \in Nat

JailInit ==
    /\ jail = {}
    /\ hostEnd = [u \in Units |-> Nowhere] /\ jailEnd = [u \in Units |-> Nowhere]
    /\ addr = [u \in Units |-> NoAddress] /\ mangled = {}
    /\ unit = Nowhere /\ seenJails = {} /\ seenIfs = {} /\ failed = FALSE
    /\ touched = FALSE /\ others = 0 /\ faults = 0

-----------------------------------------------------------------------------
Slot(i) == <<InJail[i], NameIn[i]>>

\* The unit found under the host-side name, and the one found in the jail.
HostUnit(i) == {u \in Units : hostEnd[u] = i}
JailUnit(i) == {u \in Units : jailEnd[u] = Slot(i)}

HaveHost(i) == HostUnit(i) # {}
HaveJail(i) == JailUnit(i) # {}

\* Both ends are there and are ends of the same epair.
Spans(i) == HostUnit(i) \cap JailUnit(i) # {}

Free == {u \in Units : hostEnd[u] = Nowhere}
FirstFree == CHOOSE u \in Free : \A v \in Free : u <= v

\* Destroying either end kills the pair.
Destroy(U) ==
    /\ hostEnd' = [u \in Units |-> IF u \in U THEN Nowhere ELSE hostEnd[u]]
    /\ jailEnd' = [u \in Units |-> IF u \in U THEN Nowhere ELSE jailEnd[u]]
    /\ addr' = [u \in Units |-> IF u \in U THEN NoAddress ELSE addr[u]]
    /\ mangled' = mangled \ U

\* A jail that goes gives its interfaces back to the host.
JailGoes(j) ==
    /\ jail' = jail \ {j}
    /\ jailEnd' = [u \in Units |-> IF jailEnd[u] \in {j} \X (JailIfs \cup {Raw})
                                     THEN Host ELSE jailEnd[u]]
    /\ UNCHANGED <<hostEnd, addr, mangled>>

Fault == faults < MaxFaults /\ faults' = faults + 1

\* acts.do: the command has its effect, or it fails, as it must when it is not
\* possible, changes nothing, and leaves a receipt that is not ok.
Do(possible, effect) ==
    \/ possible /\ effect /\ UNCHANGED <<failed, faults>>
    \/ /\ IF possible THEN Fault ELSE UNCHANGED faults
       /\ failed' = TRUE
       /\ UNCHANGED plane

-----------------------------------------------------------------------------
(* ensure_jail, to step good or to step bad.                                *)

JailSeen(j, good) ==
    /\ at = "jail" /\ j \in seenJails
    /\ at' = good
    /\ UNCHANGED <<plane, unit, seen, failed, faults>>

\* The loopback is raised by a second command whose failure only leaves a receipt.
CreateJail(j, good, bad) ==
    /\ at = "jail" /\ j \notin seenJails
    /\ \/ /\ j \notin jail /\ jail' = jail \cup {j}
          /\ seenJails' = seenJails \cup {j}
          /\ at' = good
          /\ \/ UNCHANGED <<failed, faults>>
             \/ failed' = TRUE /\ Fault
       \/ /\ IF j \notin jail THEN Fault ELSE UNCHANGED faults
          /\ failed' = TRUE
          /\ at' = bad
          /\ UNCHANGED <<jail, seenJails>>
    /\ UNCHANGED <<epairs, unit, seenIfs>>

-----------------------------------------------------------------------------
(* ensure_epair, to step good or to step bad: one action per command.       *)

Keeps == UNCHANGED <<unit, seenJails>>

\* Both ends are found: only the description is looked at.
EpairThere(i, good) ==
    /\ at = "epair" /\ HaveHost(i) /\ HaveJail(i)
    /\ IF HostUnit(i) \cap mangled = {}
         THEN UNCHANGED <<plane, failed, faults>>
         ELSE Do(TRUE, mangled' = mangled \ HostUnit(i)
                         /\ UNCHANGED <<jail, hostEnd, jailEnd, addr>>)
    /\ at' = good
    /\ Keeps /\ UNCHANGED seenIfs

\* Half of an epair is found: the surviving half is destroyed, and taken for gone
\* whatever the command says.
DestroyHalf(U) ==
    IF HalvesStay THEN Do(TRUE, Destroy(U) /\ UNCHANGED jail)
    ELSE Destroy(U) /\ UNCHANGED <<jail, failed, faults>>

DestroyBrokenEpair(i) ==
    /\ at = "epair" /\ HaveHost(i) /\ ~HaveJail(i)
    /\ DestroyHalf(HostUnit(i))
    /\ seenIfs' = seenIfs \ {i}
    /\ at' = "create"
    /\ Keeps

DestroyBrokenJailIf(i) ==
    /\ at = "epair" /\ HaveJail(i) /\ ~HaveHost(i)
    /\ DestroyHalf(JailUnit(i))
    /\ at' = "create"
    /\ Keeps /\ UNCHANGED seenIfs

NoEpair(i) ==
    /\ at = "epair" /\ ~HaveHost(i) /\ ~HaveJail(i)
    /\ at' = "create"
    /\ Keeps /\ UNCHANGED <<plane, seenIfs, failed, faults>>

CreateEpair(bad) ==
    /\ at = "create"
    /\ \/ /\ Free # {}
          /\ unit' = FirstFree
          /\ hostEnd' = [hostEnd EXCEPT ![FirstFree] = Raw]
          /\ jailEnd' = [jailEnd EXCEPT ![FirstFree] = Host]
          /\ at' = "namehost"
          /\ UNCHANGED <<addr, mangled, failed, faults>>
       \/ /\ Fault /\ failed' = TRUE
          /\ at' = bad
          /\ UNCHANGED <<epairs, unit>>
    /\ UNCHANGED <<jail, seen>>

\* Name, description and group in one command.  Its result is not looked at.
NameHostIf(i) ==
    /\ at = "namehost"
    /\ Do(hostEnd[unit] = Raw /\ ~HaveHost(i),
          hostEnd' = [hostEnd EXCEPT ![unit] = i] /\ UNCHANGED <<jail, jailEnd, addr, mangled>>)
    /\ seenIfs' = seenIfs \cup {i}
    /\ at' = "move"
    /\ Keeps

MoveJailIf(i) ==
    /\ at = "move"
    /\ Do(jailEnd[unit] = Host /\ InJail[i] \in jail,
          jailEnd' = [jailEnd EXCEPT ![unit] = <<InJail[i], Raw>>]
            /\ UNCHANGED <<jail, hostEnd, addr, mangled>>)
    /\ at' = "namejail"
    /\ Keeps /\ UNCHANGED seenIfs

NameJailIf(i) ==
    /\ at = "namejail"
    /\ Do(jailEnd[unit] = <<InJail[i], Raw>> /\ ~HaveJail(i),
          jailEnd' = [jailEnd EXCEPT ![unit] = Slot(i)]
            /\ UNCHANGED <<jail, hostEnd, addr, mangled>>)
    /\ at' = "named"
    /\ Keeps /\ UNCHANGED seenIfs

\* The jail end is looked up again, whichever epair it belongs to.
LookAgain(i, good, bad) ==
    /\ at = "named"
    /\ unit' = Nowhere
    /\ at' = IF HaveJail(i) THEN good ELSE bad
    /\ UNCHANGED <<plane, seen, failed, faults>>

EnsureEpair(i, good, bad) ==
    \/ EpairThere(i, good) \/ DestroyBrokenEpair(i) \/ DestroyBrokenJailIf(i)
    \/ NoEpair(i) \/ CreateEpair(bad) \/ NameHostIf(i) \/ MoveJailIf(i)
    \/ NameJailIf(i) \/ LookAgain(i, good, bad)

-----------------------------------------------------------------------------
(* ensure_addrs: the mac and the inet addresses that differ are set; of     *)
(* several commands some may fail.                                          *)

HasAddress(i, a) == \A u \in JailUnit(i) : addr[u] = a

EnsureAddrs(i, a, next) ==
    /\ at = "addrs"
    /\ \/ HasAddress(i, a) /\ UNCHANGED <<plane, failed, faults>>
       \/ /\ HaveJail(i) => ~HasAddress(i, a)
          /\ \/ Do(HaveJail(i),
                    addr' = [u \in Units |-> IF u \in JailUnit(i) THEN a ELSE addr[u]]
                      /\ UNCHANGED <<jail, hostEnd, jailEnd, mangled>>)
             \/ /\ HaveJail(i) /\ Fault /\ failed' = TRUE
                /\ addr' = [u \in Units |-> IF u \in JailUnit(i) THEN NoAddress ELSE addr[u]]
                /\ UNCHANGED <<jail, hostEnd, jailEnd, mangled>>
    /\ at' = next
    /\ UNCHANGED <<unit, seen>>

-----------------------------------------------------------------------------
(* collect: the epairs nobody asks for, then the jails.  The processes are  *)
(* killed first; they are the extending module's.                           *)

DestroyEpair(i) ==
    /\ at = "destroy" /\ i \in seenIfs
    /\ seenIfs' = seenIfs \ {i}
    /\ Do(HaveHost(i), Destroy(HostUnit(i)) /\ UNCHANGED jail)
    /\ UNCHANGED <<at, unit, seenJails>>

-----------------------------------------------------------------------------
(* The others.                                                              *)

Other == others < MaxOthers /\ others' = others + 1 /\ touched' = (touched \/ at # "idle")

OperatorDestroysEpair(i) ==
    /\ Other /\ HaveHost(i)
    /\ Destroy(HostUnit(i))
    /\ UNCHANGED <<jail, at, unit, seen, failed, faults>>

OperatorMangles(i) ==
    /\ Other /\ HaveHost(i)
    /\ mangled' = mangled \cup HostUnit(i)
    /\ UNCHANGED <<jail, hostEnd, jailEnd, addr, at, unit, seen, failed, faults>>
=============================================================================
