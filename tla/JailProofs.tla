------------------------------ MODULE JailProofs ------------------------------
(***************************************************************************)
(* Lemmas about the plumbing that the dhcp and the l3 reconciler share:    *)
(* what every command on an epair keeps, whatever failed, and what a pass  *)
(* whose receipts are all ok knows of the epair it is making.              *)
(***************************************************************************)
EXTENDS Jail, WellFoundedInduction, TLAPS

Making == {"create", "namehost", "move", "namejail", "named"}
Bad == {"nets", "ports", "routers"}

\* The places in a jail.
Within(j) == {j} \X (JailIfs \cup {Raw})

\* No two ports want the same name in the same jail: the l3 agent makes the name from the
\* port's id (names.py:57-60).
OwnSlots == \A i, k \in Ifs : Slot(i) = Slot(k) => i = k

\* The ends that a port's names lead to are the ends of one epair.
Paired ==
    \A k \in Ifs : \A u, v \in Units : hostEnd[u] = k /\ jailEnd[v] = Slot(k) => u = v

\* The two ends come and go together, a jail end is in a jail that there is, and only
\* an epair can have a wrong description.
Tidy ==
    /\ \A u \in Units : hostEnd[u] = Nowhere <=> jailEnd[u] = Nowhere
    /\ \A u \in Units, j \in Jails : jailEnd[u] \in Within(j) => j \in jail
    /\ \A u \in mangled : hostEnd[u] # Nowhere

\* Where halves can be destroyed, and names are not shared, pairs stay pairs.
EndsInv == Tidy /\ (OwnSlots => Paired)

\* While the epair of i is made, nothing but the unit that is made has its names.
MakingInv(i) ==
    /\ at \in {"create", "namehost"} => \A u \in Units : hostEnd[u] # i
    /\ at \in {"create", "namehost", "move", "namejail"} =>
          \A u \in Units : jailEnd[u] # Slot(i)
    /\ at \in {"move", "namejail", "named"} => \A u \in Units : hostEnd[u] = i => u = unit
    /\ at = "named" => \A u \in Units : jailEnd[u] = Slot(i) => u = unit

\* No epair has both places of i until the one that is made has.
NotBoth(i) ==
    at \in {"create", "namehost", "move", "namejail"} =>
        \A u \in Units : hostEnd[u] = i => jailEnd[u] # Slot(i)

\* This is kept whatever fails.
Apart(i) ==
    /\ NotBoth(i)
    /\ at = "namehost" => \A u \in Units : u = unit => jailEnd[u] \in {Host, Nowhere}

\* The epair of k leads to its place, has the addresses a and its description.
Led(k, a) == Spans(k) /\ HasAddress(k, a) /\ HostUnit(k) \cap mangled = {}

-----------------------------------------------------------------------------

LEMMA LeastUnit ==
    ASSUME Free # {}
    PROVE  FirstFree \in Free
  <1>1. Free \subseteq Nat
    BY UnitsAssumption DEF Free
  <1>2. \E u \in Free : \A v \in Free : ~(<<v, u>> \in OpToRel(<, Nat))
    BY <1>1, NatLessThanWellFounded, WFMin, Zenon
  <1>3. \A u, v \in Nat : v < u => <<v, u>> \in OpToRel(<, Nat)
    BY Zenon DEF OpToRel
  <1>4. \A u, v \in Nat : ~(v < u) => u <= v
    OBVIOUS
  <1>5. \E u \in Free : \A v \in Free : u <= v
    BY <1>1, <1>2, <1>3, <1>4, Zenon
  <1> QED BY <1>5, Zenon DEF FirstFree

\* The names and places of the ends are all different.
LEMMA Places ==
    ASSUME NEW i \in Ifs
    PROVE  /\ InJail[i] \in Jails
           /\ Slot(i) \in Within(InJail[i]) /\ <<InJail[i], Raw>> \in Within(InJail[i])
           /\ Slot(i) # Host /\ Slot(i) # Nowhere
           /\ \A k \in Ifs : Slot(i) # <<InJail[k], Raw>>
           /\ \A k \in Ifs : Slot(i) = Slot(k) => InJail[i] = InJail[k]
           /\ \A j \in Jails : Slot(i) \in Within(j) \/ <<InJail[i], Raw>> \in Within(j)
                                 => j = InJail[i]
           /\ \A j \in Jails : Host \notin Within(j) /\ Nowhere \notin Within(j)
           /\ i # Raw /\ i # Nowhere /\ Raw # Nowhere /\ Host # Nowhere
  <1>1. InJail[i] \in Jails /\ NameIn[i] \in JailIfs
        /\ \A k \in Ifs : InJail[k] \in Jails /\ NameIn[k] \in JailIfs
    BY SlotAssumption
  <1> QED BY <1>1, EndsAssumption DEF Slot, Within

-----------------------------------------------------------------------------
(* ensure_epair command by command: what may come of each.                  *)

\* A command fails for a reason: it was not possible, or it is a fault.
Failed(possible) == failed' = TRUE /\ (possible => faults' # faults)

Looked(i) ==
    /\ at = "epair" /\ HaveHost(i) /\ HaveJail(i) /\ at' = "addrs"
    /\ UNCHANGED <<hostEnd, jailEnd, addr, unit, seenIfs>>
    /\ \/ mangled' = mangled \ HostUnit(i) /\ failed' = failed
       \/ mangled' = mangled /\ Failed(TRUE)

Cleared(i) ==
    /\ at = "epair" /\ ~(HaveHost(i) /\ HaveJail(i)) /\ at' = "create"
    /\ UNCHANGED unit
    /\ seenIfs' = IF HaveHost(i) THEN seenIfs \ {i} ELSE seenIfs
    /\ \/ Destroy(HostUnit(i) \cup JailUnit(i)) /\ failed' = failed
       \/ HalvesStay /\ Failed(TRUE) /\ UNCHANGED epairs

Created(bad) ==
    /\ at = "create" /\ UNCHANGED <<addr, mangled, seenIfs>>
    /\ \/ /\ at' = "namehost" /\ FirstFree \in Free /\ unit' = FirstFree
          /\ hostEnd' = [hostEnd EXCEPT ![FirstFree] = Raw]
          /\ jailEnd' = [jailEnd EXCEPT ![FirstFree] = Host]
          /\ failed' = failed
       \/ /\ at' = bad /\ UNCHANGED <<unit, hostEnd, jailEnd>>
          /\ Failed(TRUE)

HostNamed(i) ==
    /\ at = "namehost" /\ at' = "move"
    /\ UNCHANGED <<unit, jailEnd, addr, mangled>>
    /\ seenIfs' = seenIfs \cup {i}
    /\ \/ /\ hostEnd[unit] = Raw /\ ~HaveHost(i)
          /\ hostEnd' = [hostEnd EXCEPT ![unit] = i] /\ failed' = failed
       \/ hostEnd' = hostEnd /\ Failed(hostEnd[unit] = Raw /\ ~HaveHost(i))

Moved(i) ==
    /\ at = "move" /\ at' = "namejail"
    /\ UNCHANGED <<unit, hostEnd, addr, mangled, seenIfs>>
    /\ \/ /\ jailEnd[unit] = Host /\ InJail[i] \in jail
          /\ jailEnd' = [jailEnd EXCEPT ![unit] = <<InJail[i], Raw>>] /\ failed' = failed
       \/ jailEnd' = jailEnd /\ Failed(jailEnd[unit] = Host /\ InJail[i] \in jail)

JailNamed(i) ==
    /\ at = "namejail" /\ at' = "named"
    /\ UNCHANGED <<unit, hostEnd, addr, mangled, seenIfs>>
    /\ \/ /\ jailEnd[unit] = <<InJail[i], Raw>> /\ ~HaveJail(i)
          /\ jailEnd' = [jailEnd EXCEPT ![unit] = Slot(i)] /\ failed' = failed
       \/ /\ jailEnd' = jailEnd
          /\ Failed(jailEnd[unit] = <<InJail[i], Raw>> /\ ~HaveJail(i))

Found(i, bad) ==
    /\ at = "named" /\ at' = (IF HaveJail(i) THEN "addrs" ELSE bad)
    /\ unit' = Nowhere
    /\ UNCHANGED <<hostEnd, jailEnd, addr, mangled, seenIfs, failed>>

EpairStep(i, bad) ==
    /\ UNCHANGED <<jail, seenJails>>
    /\ faults' = faults \/ Fault
    /\ \/ Looked(i) \/ Cleared(i) \/ Created(bad) \/ HostNamed(i) \/ Moved(i)
       \/ JailNamed(i) \/ Found(i, bad)

LEMMA FaultsCount ==
    ASSUME JailTypeOK, Fault
    PROVE  faults' # faults /\ faults' \in Nat /\ faults < faults'
  BY DEF JailTypeOK, Fault

\* To destroy nothing is to change nothing.
LEMMA NothingDestroyed ==
    ASSUME JailTypeOK, UNCHANGED epairs
    PROVE  Destroy({})
  <1>1. /\ hostEnd' = [u \in Units |-> hostEnd[u]] /\ jailEnd' = [u \in Units |-> jailEnd[u]]
        /\ addr' = [u \in Units |-> addr[u]]
    BY DEF JailTypeOK, epairs
  <1> QED BY <1>1 DEF Destroy, epairs

LEMMA EpairSteps ==
    ASSUME JailTypeOK, NEW i \in Ifs, NEW bad, EnsureEpair(i, "addrs", bad)
    PROVE  EpairStep(i, bad)
  <1>f. Fault => faults' # faults
    BY FaultsCount
  <1>1. CASE EpairThere(i, "addrs")
    <2>1. Looked(i) /\ UNCHANGED <<jail, seenJails>>
      BY <1>1, <1>f DEF EpairThere, Looked, Failed, Do, Keeps, plane, epairs
    <2>2. faults' = faults \/ Fault
      BY <1>1 DEF EpairThere, Do
    <2> QED BY <2>1, <2>2 DEF EpairStep
  <1>2. CASE DestroyBrokenEpair(i)
    <2>0. HostUnit(i) \cup JailUnit(i) = HostUnit(i)
      BY <1>2 DEF DestroyBrokenEpair, HaveJail
    <2>1. Cleared(i) /\ UNCHANGED <<jail, seenJails>>
      BY <1>2, <1>f, <2>0 DEF DestroyBrokenEpair, DestroyHalf, Cleared, Failed, Do, Keeps, plane
    <2>2. faults' = faults \/ Fault
      BY <1>2 DEF DestroyBrokenEpair, DestroyHalf, Do
    <2> QED BY <2>1, <2>2 DEF EpairStep
  <1>3. CASE DestroyBrokenJailIf(i)
    <2>0. HostUnit(i) \cup JailUnit(i) = JailUnit(i)
      BY <1>3 DEF DestroyBrokenJailIf, HaveHost
    <2>1. Cleared(i) /\ UNCHANGED <<jail, seenJails>>
      BY <1>3, <1>f, <2>0 DEF DestroyBrokenJailIf, DestroyHalf, Cleared, Failed, Do, Keeps, plane
    <2>2. faults' = faults \/ Fault
      BY <1>3 DEF DestroyBrokenJailIf, DestroyHalf, Do
    <2> QED BY <2>1, <2>2 DEF EpairStep
  <1>4. CASE NoEpair(i)
    <2>0. HostUnit(i) \cup JailUnit(i) = {} /\ UNCHANGED epairs
      BY <1>4 DEF NoEpair, HaveHost, HaveJail, plane
    <2>1. Destroy(HostUnit(i) \cup JailUnit(i))
      BY <2>0, NothingDestroyed
    <2>2. Cleared(i) /\ UNCHANGED <<jail, seenJails>>
      BY <1>4, <2>1 DEF NoEpair, Cleared, Keeps, plane
    <2> QED BY <1>4, <2>2 DEF EpairStep, NoEpair
  <1>5. CASE CreateEpair(bad)
    <2>1. Created(bad) /\ UNCHANGED <<jail, seenJails>>
      BY <1>5, <1>f, LeastUnit DEF CreateEpair, Created, Failed, epairs, seen
    <2>2. faults' = faults \/ Fault
      BY <1>5 DEF CreateEpair
    <2> QED BY <2>1, <2>2 DEF EpairStep
  <1>6. CASE NameHostIf(i)
    <2>1. HostNamed(i) /\ UNCHANGED <<jail, seenJails>>
      BY <1>6, <1>f DEF NameHostIf, HostNamed, Failed, Do, Keeps, plane, epairs
    <2>2. faults' = faults \/ Fault
      BY <1>6 DEF NameHostIf, Do
    <2> QED BY <2>1, <2>2 DEF EpairStep
  <1>7. CASE MoveJailIf(i)
    <2>1. Moved(i) /\ UNCHANGED <<jail, seenJails>>
      BY <1>7, <1>f DEF MoveJailIf, Moved, Failed, Do, Keeps, plane, epairs
    <2>2. faults' = faults \/ Fault
      BY <1>7 DEF MoveJailIf, Do
    <2> QED BY <2>1, <2>2 DEF EpairStep
  <1>8. CASE NameJailIf(i)
    <2>1. JailNamed(i) /\ UNCHANGED <<jail, seenJails>>
      BY <1>8, <1>f DEF NameJailIf, JailNamed, Failed, Do, Keeps, plane, epairs
    <2>2. faults' = faults \/ Fault
      BY <1>8 DEF NameJailIf, Do
    <2> QED BY <2>1, <2>2 DEF EpairStep
  <1>9. CASE LookAgain(i, "addrs", bad)
    BY <1>9 DEF LookAgain, Found, EpairStep, plane, epairs, seen
  <1> QED BY <1>1, <1>2, <1>3, <1>4, <1>5, <1>6, <1>7, <1>8, <1>9 DEF EnsureEpair

LEMMA EpairTypes ==
    ASSUME JailTypeOK, NEW i \in Ifs, NEW bad, EpairStep(i, bad), UNCHANGED <<others, touched>>
    PROVE  JailTypeOK'
  <1> DEFINE Types ==
        /\ hostEnd' \in [Units -> Ifs \cup {Raw, Nowhere}]
        /\ jailEnd' \in [Units -> (Jails \X (JailIfs \cup {Raw})) \cup {Host, Nowhere}]
        /\ addr' \in [Units -> Addresses \cup {NoAddress}]
        /\ mangled' \subseteq Units /\ unit' \in Units \cup {Nowhere}
        /\ seenIfs' \subseteq Ifs
  <1>p. /\ Slot(i) \in Jails \X (JailIfs \cup {Raw})
        /\ <<InJail[i], Raw>> \in Jails \X (JailIfs \cup {Raw})
    BY SlotAssumption DEF Slot
  <1>1. Looked(i) => Types
    BY DEF JailTypeOK, Looked
  <1>2. Cleared(i) => Types
    BY DEF JailTypeOK, Cleared, Destroy, epairs
  <1>3. Created(bad) => Types
    BY DEF JailTypeOK, Created, Free
  <1>4. HostNamed(i) => Types
    BY DEF JailTypeOK, HostNamed
  <1>5. Moved(i) => Types
    BY <1>p DEF JailTypeOK, Moved
  <1>6. JailNamed(i) => Types
    BY <1>p DEF JailTypeOK, JailNamed
  <1>7. Found(i, bad) => Types
    BY DEF JailTypeOK, Found
  <1>8. failed' = failed \/ failed' = TRUE
    BY DEF EpairStep, Looked, Cleared, Created, HostNamed, Moved, JailNamed, Found, Failed
  <1>9. failed' \in BOOLEAN
    BY <1>8 DEF JailTypeOK
  <1>10. faults' \in Nat
    BY FaultsCount DEF EpairStep, JailTypeOK
  <1> QED BY <1>1, <1>2, <1>3, <1>4, <1>5, <1>6, <1>7, <1>9, <1>10 DEF EpairStep, JailTypeOK

\* The ends stay in order while the epair of i is made ...
LEMMA EpairTidy ==
    ASSUME JailTypeOK, Tidy, NEW i \in Ifs, NEW bad, EpairStep(i, bad)
    PROVE  Tidy'
  <1>p. /\ i # Raw /\ i # Nowhere /\ Raw # Nowhere /\ Host # Nowhere
        /\ \A j \in Jails : Host \notin Within(j) /\ Nowhere \notin Within(j)
        /\ \A j \in Jails : Slot(i) \in Within(j) \/ <<InJail[i], Raw>> \in Within(j)
                              => j = InJail[i]
        /\ Slot(i) \in Within(InJail[i]) /\ <<InJail[i], Raw>> \in Within(InJail[i])
        /\ InJail[i] \in Jails
    BY Places
  <1>j. jail' = jail
    BY DEF EpairStep
  <1>0. CASE UNCHANGED <<hostEnd, jailEnd>> /\ mangled' \subseteq mangled
    BY <1>0, <1>j DEF Tidy
  <1>1. ASSUME NEW U, Destroy(U) PROVE Tidy'
    <2>1. /\ hostEnd' = [u \in Units |-> IF u \in U THEN Nowhere ELSE hostEnd[u]]
          /\ jailEnd' = [u \in Units |-> IF u \in U THEN Nowhere ELSE jailEnd[u]]
          /\ mangled' = mangled \ U /\ mangled \subseteq Units
      BY <1>1 DEF Destroy, JailTypeOK
    <2> QED BY <2>1, <1>p, <1>j DEF Tidy
  <1>2. ASSUME FirstFree \in Free, UNCHANGED mangled,
               hostEnd' = [hostEnd EXCEPT ![FirstFree] = Raw],
               jailEnd' = [jailEnd EXCEPT ![FirstFree] = Host]
        PROVE  Tidy'
    <2>1. \A u \in Units : hostEnd'[u] = (IF u = FirstFree THEN Raw ELSE hostEnd[u])
                           /\ jailEnd'[u] = (IF u = FirstFree THEN Host ELSE jailEnd[u])
      BY <1>2 DEF JailTypeOK
    <2>2. mangled' \subseteq Units
      BY <1>2 DEF JailTypeOK
    <2> QED BY <1>2, <2>1, <2>2, <1>p, <1>j DEF Tidy
  <1>3. ASSUME hostEnd[unit] = Raw, hostEnd' = [hostEnd EXCEPT ![unit] = i],
               UNCHANGED <<jailEnd, mangled>>
        PROVE  Tidy'
    <2>1. \A u \in Units : hostEnd'[u] = (IF u = unit THEN i ELSE hostEnd[u])
      BY <1>3 DEF JailTypeOK
    <2>2. mangled' \subseteq Units
      BY <1>3 DEF JailTypeOK
    <2> QED BY <1>3, <2>1, <2>2, <1>p, <1>j DEF Tidy
  <1>4. ASSUME jailEnd[unit] # Nowhere, UNCHANGED <<hostEnd, mangled>>,
               \/ /\ jailEnd' = [jailEnd EXCEPT ![unit] = <<InJail[i], Raw>>]
                  /\ InJail[i] \in jail
               \/ /\ jailEnd' = [jailEnd EXCEPT ![unit] = Slot(i)]
                  /\ jailEnd[unit] \in Within(InJail[i])
        PROVE  Tidy'
    <2>1. PICK x \in Within(InJail[i]) :
             \A u \in Units : jailEnd'[u] = (IF u = unit THEN x ELSE jailEnd[u])
      BY <1>4, <1>p DEF JailTypeOK
    <2>2. x # Nowhere /\ \A j \in Jails : x \in Within(j) => j = InJail[i]
      BY <1>p DEF Within
    <2>3. unit \in Units => InJail[i] \in jail
      BY <1>4, <1>p DEF Tidy
    <2> QED BY <1>4, <2>1, <2>2, <2>3, <1>p, <1>j DEF Tidy
  <1>5. Looked(i) => Tidy'
    BY <1>0 DEF Looked
  <1>6. Cleared(i) => Tidy'
    BY <1>0, <1>1 DEF Cleared, epairs
  <1>7. Created(bad) => Tidy'
    BY <1>0, <1>2 DEF Created
  <1>8. HostNamed(i) => Tidy'
    BY <1>0, <1>3 DEF HostNamed
  <1>9. Moved(i) => Tidy'
    BY <1>0, <1>4, <1>p DEF Moved
  <1>10. JailNamed(i) => Tidy'
    BY <1>0, <1>4, <1>p DEF JailNamed
  <1>11. Found(i, bad) => Tidy'
    BY <1>0 DEF Found
  <1> QED BY <1>5, <1>6, <1>7, <1>8, <1>9, <1>10, <1>11 DEF EpairStep

\* ... none gets both its places before it has been made ...
LEMMA EpairApart ==
    ASSUME JailTypeOK, NEW i \in Ifs, Apart(i), NEW bad \in Bad, EpairStep(i, bad)
    PROVE  Apart(i)'
  <1>p. /\ i # Raw /\ i # Nowhere /\ Slot(i) # Host /\ Slot(i) # Nowhere
        /\ Slot(i) # <<InJail[i], Raw>>
    BY Places
  <1>s. Slot(i)' = Slot(i)
    BY DEF Slot
  <1>1. CASE Looked(i) \/ JailNamed(i) \/ Found(i, bad)
    <2>1. at' \in {"addrs", "named"} \cup Bad
      BY <1>1 DEF Looked, JailNamed, Found
    <2> QED BY <2>1 DEF Apart, NotBoth, Bad
  <1>2. CASE Cleared(i)
    <2>1. \A u \in Units : hostEnd[u] = i => jailEnd[u] # Slot(i)
      BY <1>2 DEF Cleared, HaveHost, HaveJail, HostUnit, JailUnit
    <2>2. \A u \in Units : /\ hostEnd'[u] = hostEnd[u] \/ hostEnd'[u] = Nowhere
                           /\ jailEnd'[u] = jailEnd[u] \/ jailEnd'[u] = Nowhere
      BY <1>2 DEF Cleared, Destroy, epairs
    <2>3. at' = "create"
      BY <1>2 DEF Cleared
    <2> QED BY <2>1, <2>2, <2>3, <1>p, <1>s DEF Apart, NotBoth
  <1>3. CASE Created(bad)
    <2>1. CASE at' = bad
      BY <2>1 DEF Apart, NotBoth, Bad
    <2>2. CASE /\ at' = "namehost" /\ unit' = FirstFree
               /\ hostEnd' = [hostEnd EXCEPT ![FirstFree] = Raw]
               /\ jailEnd' = [jailEnd EXCEPT ![FirstFree] = Host]
      <3>1. \A u \in Units : hostEnd'[u] = (IF u = FirstFree THEN Raw ELSE hostEnd[u])
                             /\ jailEnd'[u] = (IF u = FirstFree THEN Host ELSE jailEnd[u])
        BY <2>2 DEF JailTypeOK
      <3>2. \A u \in Units : hostEnd[u] = i => jailEnd[u] # Slot(i)
        BY <1>3 DEF Created, Apart, NotBoth
      <3> QED BY <3>1, <3>2, <2>2, <1>p, <1>s DEF Apart, NotBoth
    <2> QED BY <1>3, <2>1, <2>2 DEF Created
  <1>4. CASE HostNamed(i)
    <2>1. /\ at = "namehost" /\ at' = "move" /\ UNCHANGED jailEnd
          /\ hostEnd' = hostEnd \/ hostEnd' = [hostEnd EXCEPT ![unit] = i]
      BY <1>4 DEF HostNamed
    <2>2. \A u \in Units : hostEnd'[u] = hostEnd[u] \/ (u = unit /\ hostEnd'[u] = i)
      BY <2>1 DEF JailTypeOK
    <2>3. \A u \in Units : u = unit => jailEnd[u] # Slot(i)
      BY <2>1, <1>p DEF Apart
    <2>4. NotBoth(i)'
      BY <2>1, <2>2, <2>3, <1>s DEF Apart, NotBoth
    <2> QED BY <2>1, <2>4 DEF Apart
  <1>5. CASE Moved(i)
    <2>1. /\ at = "move" /\ at' = "namejail" /\ UNCHANGED hostEnd
          /\ jailEnd' = jailEnd \/ jailEnd' = [jailEnd EXCEPT ![unit] = <<InJail[i], Raw>>]
      BY <1>5 DEF Moved
    <2>2. \A u \in Units : jailEnd'[u] = jailEnd[u] \/ jailEnd'[u] = <<InJail[i], Raw>>
      BY <2>1 DEF JailTypeOK
    <2> QED BY <2>1, <2>2, <1>p, <1>s DEF Apart, NotBoth
  <1> QED BY <1>1, <1>2, <1>3, <1>4, <1>5 DEF EpairStep

\* ... its names stay its own as long as the surviving half could be destroyed ...
LEMMA EpairMaking ==
    ASSUME JailTypeOK, NEW i \in Ifs, MakingInv(i), ~HalvesStay \/ ~failed',
           NEW bad \in Bad, EpairStep(i, bad)
    PROVE  MakingInv(i)'
  <1>p. /\ i # Raw /\ i # Nowhere /\ Slot(i) # Host /\ Slot(i) # Nowhere
        /\ Slot(i) # <<InJail[i], Raw>>
    BY Places
  <1>1. CASE Looked(i)
    BY <1>1 DEF Looked, MakingInv
  <1>2. CASE Cleared(i)
    <2>1. /\ hostEnd' = [u \in Units |-> IF u \in HostUnit(i) \cup JailUnit(i)
                                           THEN Nowhere ELSE hostEnd[u]]
          /\ jailEnd' = [u \in Units |-> IF u \in HostUnit(i) \cup JailUnit(i)
                                           THEN Nowhere ELSE jailEnd[u]]
          /\ at' = "create"
      BY <1>2 DEF Cleared, Destroy, Failed
    <2> QED BY <2>1, <1>p DEF MakingInv, HostUnit, JailUnit, Slot
  <1>3. CASE Created(bad)
    <2>1. CASE at' = bad
      BY <2>1 DEF Bad, MakingInv
    <2>2. CASE /\ at' = "namehost" /\ FirstFree \in Free
               /\ hostEnd' = [hostEnd EXCEPT ![FirstFree] = Raw]
               /\ jailEnd' = [jailEnd EXCEPT ![FirstFree] = Host]
      <3>1. \A u \in Units : hostEnd'[u] = (IF u = FirstFree THEN Raw ELSE hostEnd[u])
                             /\ jailEnd'[u] = (IF u = FirstFree THEN Host ELSE jailEnd[u])
        BY <2>2 DEF JailTypeOK
      <3> QED BY <3>1, <2>2, <1>3, <1>p DEF MakingInv, Created, Slot
    <2> QED BY <1>3, <2>1, <2>2 DEF Created
  <1>4. CASE HostNamed(i)
    <2>0. jailEnd' = jailEnd /\ unit' = unit /\ at = "namehost" /\ at' = "move"
      BY <1>4 DEF HostNamed
    <2>1. \A u \in Units : hostEnd'[u] = hostEnd[u] \/ (u = unit /\ hostEnd'[u] = i)
      BY <1>4 DEF HostNamed, JailTypeOK
    <2> QED BY <2>0, <2>1, <1>p DEF MakingInv, Slot
  <1>5. CASE Moved(i)
    <2>0. hostEnd' = hostEnd /\ unit' = unit /\ at = "move" /\ at' = "namejail"
      BY <1>5 DEF Moved
    <2>1. \A u \in Units : jailEnd'[u] = jailEnd[u] \/ jailEnd'[u] = <<InJail[i], Raw>>
      BY <1>5 DEF Moved, JailTypeOK
    <2> QED BY <2>0, <2>1, <1>p DEF MakingInv, Slot
  <1>6. CASE JailNamed(i)
    <2>0. hostEnd' = hostEnd /\ unit' = unit /\ at = "namejail" /\ at' = "named"
      BY <1>6 DEF JailNamed
    <2>1. \A u \in Units : jailEnd'[u] = jailEnd[u] \/ (u = unit /\ jailEnd'[u] = Slot(i))
      BY <1>6 DEF JailNamed, JailTypeOK
    <2> QED BY <2>0, <2>1, <1>p DEF MakingInv, Slot
  <1>7. CASE Found(i, bad)
    BY <1>7 DEF Found, Bad, MakingInv
  <1> QED BY <1>1, <1>2, <1>3, <1>4, <1>5, <1>6, <1>7 DEF EpairStep

\* ... and pairs stay pairs, if halves can be destroyed at all.
LEMMA EpairEnds ==
    ASSUME JailTypeOK, EndsInv, NEW i \in Ifs, MakingInv(i), ~HalvesStay,
           NEW bad \in Bad, EpairStep(i, bad)
    PROVE  EndsInv' /\ MakingInv(i)'
  <1> DEFINE Pairs == OwnSlots => Paired
  <1> SUFFICES Pairs'
    BY EpairTidy, EpairMaking DEF EndsInv
  <1>p. /\ i # Raw /\ i # Nowhere
        /\ \A k \in Ifs : /\ Slot(k) # Host /\ Slot(k) # Nowhere /\ k # Raw /\ k # Nowhere
                          /\ Slot(k) # <<InJail[i], Raw>>
    BY Places
  <1>q. Pairs
    BY DEF EndsInv
  <1>0. CASE UNCHANGED <<hostEnd, jailEnd>>
    BY <1>0, <1>q DEF Paired, OwnSlots, Slot
  <1>2. CASE Cleared(i)
    <2>0. /\ hostEnd' = [u \in Units |-> IF u \in HostUnit(i) \cup JailUnit(i)
                                           THEN Nowhere ELSE hostEnd[u]]
          /\ jailEnd' = [u \in Units |-> IF u \in HostUnit(i) \cup JailUnit(i)
                                           THEN Nowhere ELSE jailEnd[u]]
      BY <1>2 DEF Cleared, Destroy
    <2> QED BY <2>0, <1>p, <1>q DEF Paired, OwnSlots, Slot
  <1>3. CASE Created(bad)
    <2>2. CASE /\ hostEnd' = [hostEnd EXCEPT ![FirstFree] = Raw]
               /\ jailEnd' = [jailEnd EXCEPT ![FirstFree] = Host]
      <3>1. \A u \in Units : hostEnd'[u] = (IF u = FirstFree THEN Raw ELSE hostEnd[u])
                             /\ jailEnd'[u] = (IF u = FirstFree THEN Host ELSE jailEnd[u])
        BY <2>2 DEF JailTypeOK
      <3>2. OwnSlots => Paired'
        BY <3>1, <1>p, <1>q DEF Paired, Slot
      <3> QED BY <3>2 DEF OwnSlots, Slot
    <2> QED BY <1>0, <1>3, <2>2 DEF Created
  <1>4. CASE HostNamed(i)
    <2>0. jailEnd' = jailEnd /\ at = "namehost"
      BY <1>4 DEF HostNamed
    <2>2. CASE hostEnd' = [hostEnd EXCEPT ![unit] = i]
      <3>1. \A u \in Units : hostEnd'[u] = (IF u = unit THEN i ELSE hostEnd[u])
        BY <2>2 DEF JailTypeOK
      <3> QED BY <3>1, <2>0, <1>q DEF Paired, OwnSlots, Slot, MakingInv
    <2> QED BY <1>0, <1>4, <2>0, <2>2 DEF HostNamed
  <1>5. CASE Moved(i)
    <2>0. hostEnd' = hostEnd
      BY <1>5 DEF Moved
    <2>2. CASE jailEnd' = [jailEnd EXCEPT ![unit] = <<InJail[i], Raw>>]
      <3>1. \A u \in Units : jailEnd'[u] = (IF u = unit THEN <<InJail[i], Raw>> ELSE jailEnd[u])
        BY <2>2 DEF JailTypeOK
      <3> QED BY <3>1, <2>0, <1>p, <1>q DEF Paired, OwnSlots, Slot
    <2> QED BY <1>0, <1>5, <2>0, <2>2 DEF Moved
  <1>6. CASE JailNamed(i)
    <2>0. hostEnd' = hostEnd /\ at = "namejail"
      BY <1>6 DEF JailNamed
    <2>2. CASE jailEnd' = [jailEnd EXCEPT ![unit] = Slot(i)]
      <3>1. \A u \in Units : jailEnd'[u] = (IF u = unit THEN Slot(i) ELSE jailEnd[u])
        BY <2>2 DEF JailTypeOK
      <3>2. OwnSlots => Paired'
        BY <3>1, <2>0, <1>p, <1>q DEF Paired, MakingInv, OwnSlots, Slot
      <3> QED BY <3>2 DEF OwnSlots, Slot
    <2> QED BY <1>0, <1>6, <2>0, <2>2 DEF JailNamed
  <1>7. CASE Looked(i) \/ Found(i, bad)
    BY <1>0, <1>7 DEF Looked, Found
  <1> QED BY <1>2, <1>3, <1>4, <1>5, <1>6, <1>7 DEF EpairStep

-----------------------------------------------------------------------------
(* A pass whose receipts are all ok knows what it has made so far.          *)

\* host_ifs misses no interface that there is.
KnownIfs == \A k \in Ifs, u \in Units : hostEnd[u] = k => k \in seenIfs

MadeSoFar(i) ==
    /\ at \in Making \cup {"epair", "addrs"} => InJail[i] \in jail
    /\ at \in Making \ {"create"} => unit \in Units /\ unit \notin mangled
    /\ at = "namehost" => hostEnd[unit] = Raw /\ jailEnd[unit] = Host
    /\ at = "move" => hostEnd[unit] = i /\ jailEnd[unit] = Host
    /\ at = "namejail" => hostEnd[unit] = i /\ jailEnd[unit] = <<InJail[i], Raw>>
    /\ at = "named" => hostEnd[unit] = i /\ jailEnd[unit] = Slot(i)
    /\ at = "addrs" => /\ \E u \in Units : jailEnd[u] = Slot(i)
                       /\ \A u \in Units : hostEnd[u] = i => u \notin mangled

\* Without a fault each command works.
LEMMA EpairWorks ==
    ASSUME JailTypeOK, NEW i \in Ifs, MakingInv(i), MadeSoFar(i),
           NEW bad \in Bad, EpairStep(i, bad), faults' = faults, ~failed
    PROVE  ~failed'
  <1>1. at = "namehost" => hostEnd[unit] = Raw /\ ~HaveHost(i)
    BY DEF MakingInv, MadeSoFar, HaveHost, HostUnit
  <1>2. at = "move" => jailEnd[unit] = Host /\ InJail[i] \in jail
    BY DEF MadeSoFar, Making
  <1>3. at = "namejail" => jailEnd[unit] = <<InJail[i], Raw>> /\ ~HaveJail(i)
    BY DEF MakingInv, MadeSoFar, HaveJail, JailUnit
  <1>4. ~Failed(TRUE)
    BY DEF Failed
  <1>5. failed' = failed
    BY <1>1, <1>2, <1>3, <1>4
       DEF EpairStep, Looked, Cleared, Created, HostNamed, Moved, JailNamed, Found, Failed
  <1> QED BY <1>5

\* If it does, the next step finds what it needs; an epair that has just been made has
\* both its places.
LEMMA EpairProgress ==
    ASSUME JailTypeOK, Tidy, NEW i \in Ifs, MakingInv(i), MadeSoFar(i), KnownIfs,
           NEW bad \in Bad, EpairStep(i, bad), ~failed'
    PROVE  /\ MadeSoFar(i)' /\ KnownIfs' /\ at' \in Making \cup {"addrs"}
           /\ at' = "addrs" /\ (at = "epair" => Spans(i)) => Spans(i)'
  <1>p. i # Raw /\ i # Nowhere /\ \A k \in Ifs : k # Raw /\ k # Nowhere
    BY Places
  <1>q. InJail[i] \in jail /\ jail' = jail /\ ~Failed(TRUE) /\ ~failed'
    BY DEF MadeSoFar, EpairStep, Looked, Cleared, Created, HostNamed, Moved, JailNamed,
           Found, Failed, Making
  <1>1. CASE Looked(i)
    <2>1. /\ UNCHANGED <<hostEnd, jailEnd, unit, seenIfs>> /\ mangled' = mangled \ HostUnit(i)
          /\ at' = "addrs" /\ HaveHost(i) /\ HaveJail(i)
      BY <1>1, <1>q DEF Looked
    <2>2. KnownIfs'
      BY <2>1 DEF KnownIfs
    <2>3. PICK u \in Units, v \in Units : hostEnd[u] = i /\ jailEnd[v] = Slot(i)
      BY <2>1 DEF HaveHost, HaveJail, HostUnit, JailUnit
    <2>5. \A w \in Units : hostEnd'[w] = i => w \notin mangled'
      BY <2>1 DEF HostUnit
    <2>6. Spans(i)' <=> Spans(i)
      BY <2>1 DEF Spans, HostUnit, JailUnit, Slot
    <2>7. MadeSoFar(i)'
      BY <2>1, <2>3, <2>5, <1>q DEF MadeSoFar, Making, Slot
    <2>8. at = "epair"
      BY <1>1 DEF Looked
    <2> QED BY <2>1, <2>2, <2>6, <2>7, <2>8
  <1>2. CASE Cleared(i)
    <2>1. /\ hostEnd' = [u \in Units |-> IF u \in HostUnit(i) \cup JailUnit(i)
                                           THEN Nowhere ELSE hostEnd[u]]
          /\ at' = "create" /\ (seenIfs' = seenIfs \/ seenIfs' = seenIfs \ {i})
      BY <1>2, <1>q DEF Cleared, Destroy, Failed
    <2>2. KnownIfs'
      BY <2>1, <1>p DEF KnownIfs, HostUnit
    <2>3. MadeSoFar(i)'
      BY <2>1, <1>q DEF MadeSoFar, Making
    <2> QED BY <2>1, <2>2, <2>3 DEF Making
  <1>3. CASE Created(bad)
    <2>1. /\ at' = "namehost" /\ FirstFree \in Free /\ unit' = FirstFree
          /\ hostEnd' = [hostEnd EXCEPT ![FirstFree] = Raw]
          /\ jailEnd' = [jailEnd EXCEPT ![FirstFree] = Host]
          /\ UNCHANGED <<mangled, seenIfs>>
      BY <1>3, <1>q DEF Created
    <2>2. FirstFree \in Units /\ hostEnd[FirstFree] = Nowhere
      BY <2>1 DEF Free
    <2>3. FirstFree \notin mangled
      BY <2>2 DEF Tidy
    <2>4. KnownIfs'
      BY <2>1, <2>2, <1>p DEF KnownIfs, JailTypeOK
    <2>5. MadeSoFar(i)'
      BY <2>1, <2>2, <2>3, <1>q DEF MadeSoFar, Making, JailTypeOK
    <2> QED BY <2>1, <2>4, <2>5 DEF Making
  <1>4. CASE HostNamed(i)
    <2>1. /\ at = "namehost" /\ at' = "move" /\ UNCHANGED <<unit, jailEnd, mangled>>
          /\ hostEnd' = [hostEnd EXCEPT ![unit] = i] /\ seenIfs' = seenIfs \cup {i}
      BY <1>4, <1>q DEF HostNamed, Failed
    <2>2. KnownIfs'
      BY <2>1 DEF KnownIfs, JailTypeOK
    <2>3. MadeSoFar(i)'
      BY <2>1, <1>q DEF MadeSoFar, Making, JailTypeOK
    <2> QED BY <2>1, <2>2, <2>3 DEF Making
  <1>5. CASE Moved(i)
    <2>1. /\ at = "move" /\ at' = "namejail" /\ UNCHANGED <<unit, hostEnd, mangled, seenIfs>>
          /\ jailEnd' = [jailEnd EXCEPT ![unit] = <<InJail[i], Raw>>]
      BY <1>5, <1>q DEF Moved, Failed
    <2>3. MadeSoFar(i)'
      BY <2>1, <1>q DEF MadeSoFar, Making, JailTypeOK
    <2> QED BY <2>1, <2>3 DEF Making, KnownIfs
  <1>6. CASE JailNamed(i)
    <2>1. /\ at = "namejail" /\ at' = "named" /\ UNCHANGED <<unit, hostEnd, mangled, seenIfs>>
          /\ jailEnd' = [jailEnd EXCEPT ![unit] = Slot(i)]
      BY <1>6, <1>q DEF JailNamed, Failed
    <2>2. hostEnd'[unit'] = i /\ jailEnd'[unit'] = Slot(i)' /\ unit' \in Units
          /\ unit' \notin mangled'
      BY <2>1, <1>q DEF MadeSoFar, Making, JailTypeOK, Slot
    <2>3. MadeSoFar(i)'
      BY <2>1, <2>2, <1>q DEF MadeSoFar, Making
    <2> QED BY <2>1, <2>3 DEF Making, KnownIfs
  <1>7. CASE Found(i, bad)
    <2>1. unit \in Units /\ unit \notin mangled /\ hostEnd[unit] = i /\ jailEnd[unit] = Slot(i)
      BY <1>7 DEF Found, MadeSoFar, Making
    <2>2. /\ at' = "addrs" /\ UNCHANGED <<hostEnd, jailEnd, mangled, seenIfs>>
      BY <1>7, <2>1 DEF Found, HaveJail, JailUnit
    <2>3. \A u \in Units : hostEnd[u] = i => u = unit
      BY <1>7 DEF Found, MakingInv
    <2>4. MadeSoFar(i)'
      BY <2>1, <2>2, <2>3, <1>q DEF MadeSoFar, Making, Slot
    <2>5. Spans(i)'
      BY <2>1, <2>2 DEF Spans, HostUnit, JailUnit, Slot
    <2> QED BY <2>2, <2>4, <2>5 DEF KnownIfs
  <1> QED BY <1>1, <1>2, <1>3, <1>4, <1>5, <1>6, <1>7 DEF EpairStep

-----------------------------------------------------------------------------
(* An epair that leads where it should is left alone.                       *)

LEMMA LedMeans ==
    ASSUME NEW k, NEW a
    PROVE  Led(k, a) <=> /\ \E u \in Units : hostEnd[u] = k /\ jailEnd[u] = Slot(k)
                         /\ \A u \in Units : jailEnd[u] = Slot(k) => addr[u] = a
                         /\ \A u \in Units : hostEnd[u] = k => u \notin mangled
  BY DEF Led, Spans, HasAddress, HostUnit, JailUnit

LEMMA LedMeansNext ==
    ASSUME NEW k, NEW a
    PROVE  Led(k, a)' <=> /\ \E u \in Units : hostEnd'[u] = k /\ jailEnd'[u] = Slot(k)
                          /\ \A u \in Units : jailEnd'[u] = Slot(k) => addr'[u] = a
                          /\ \A u \in Units : hostEnd'[u] = k => u \notin mangled'
  BY DEF Led, Spans, HasAddress, HostUnit, JailUnit, Slot

\* An epair that has both its places stays in them.
Holds(k) ==
    \A w \in Units : hostEnd[w] = k /\ jailEnd[w] = Slot(k) =>
                      hostEnd'[w] = k /\ jailEnd'[w] = Slot(k)

\* ... by all that is done for the epair of i,
LEMMA EpairSparesUnit ==
    ASSUME JailTypeOK, NEW i \in Ifs, NotBoth(i), NEW bad, EpairStep(i, bad),
           NEW k \in Ifs, k = i \/ Slot(k) # Slot(i), NEW a, Led(k, a),
           NEW w \in Units, hostEnd[w] = k, jailEnd[w] = Slot(k)
    PROVE  /\ hostEnd'[w] = k /\ jailEnd'[w] = Slot(k)
           /\ \A u \in Units : jailEnd'[u] = Slot(k) => addr'[u] = a
           /\ \A u \in Units : hostEnd'[u] = k => u \notin mangled'
  <1>p. /\ k # Raw /\ k # Nowhere /\ Slot(k) # Host /\ Slot(k) # Nowhere
        /\ Slot(k) # <<InJail[i], Raw>>
    BY Places
  <1>l. /\ hostEnd[w] = k /\ jailEnd[w] = Slot(k)
        /\ \A u \in Units : jailEnd[u] = Slot(k) => addr[u] = a
        /\ \A u \in Units : hostEnd[u] = k => u \notin mangled
    BY LedMeans
  <1>m. k = i => at \notin Making \ {"named"}
    BY <1>l DEF NotBoth, Making
  <1> DEFINE Stays == /\ hostEnd'[w] = k /\ jailEnd'[w] = Slot(k)
                      /\ \A u \in Units : jailEnd'[u] = Slot(k) => addr'[u] = a
                      /\ \A u \in Units : hostEnd'[u] = k => u \notin mangled'
  <1>1. Looked(i) => Stays
    BY <1>l DEF Looked
  <1>2. ASSUME Cleared(i) PROVE Stays
    <2>1. w \notin HostUnit(i) \cup JailUnit(i)
      <3>1. CASE k = i
        BY <3>1, <1>2, <1>l DEF Cleared, HaveHost, HaveJail, HostUnit, JailUnit
      <3>2. CASE k # i /\ Slot(k) # Slot(i)
        BY <3>2, <1>l DEF HostUnit, JailUnit
      <3> QED BY <3>1, <3>2
    <2>2. CASE Destroy(HostUnit(i) \cup JailUnit(i))
      BY <2>1, <2>2, <1>l, <1>p DEF Destroy
    <2>3. CASE UNCHANGED epairs
      BY <2>3, <1>l DEF epairs
    <2> QED BY <2>2, <2>3, <1>2 DEF Cleared
  <1>3. ASSUME Created(bad) PROVE Stays
    <2>1. CASE UNCHANGED <<hostEnd, jailEnd, addr, mangled>>
      BY <2>1, <1>l
    <2>2. CASE /\ FirstFree \in Free /\ UNCHANGED <<addr, mangled>>
               /\ hostEnd' = [hostEnd EXCEPT ![FirstFree] = Raw]
               /\ jailEnd' = [jailEnd EXCEPT ![FirstFree] = Host]
      BY <2>2, <1>l, <1>p DEF Free, JailTypeOK
    <2> QED BY <1>3, <2>1, <2>2 DEF Created
  <1>4. ASSUME HostNamed(i) PROVE Stays
    <2>1. CASE hostEnd' = hostEnd
      BY <1>4, <2>1, <1>l DEF HostNamed
    <2>2. CASE hostEnd[unit] = Raw /\ hostEnd' = [hostEnd EXCEPT ![unit] = i]
      BY <1>4, <2>2, <1>l, <1>p, <1>m DEF HostNamed, JailTypeOK, Making
    <2> QED BY <1>4, <2>1, <2>2 DEF HostNamed
  <1>5. ASSUME Moved(i) PROVE Stays
    <2>1. CASE jailEnd' = jailEnd
      BY <1>5, <2>1, <1>l DEF Moved
    <2>2. CASE jailEnd[unit] = Host /\ jailEnd' = [jailEnd EXCEPT ![unit] = <<InJail[i], Raw>>]
      BY <1>5, <2>2, <1>l, <1>p DEF Moved, JailTypeOK
    <2> QED BY <1>5, <2>1, <2>2 DEF Moved
  <1>6. ASSUME JailNamed(i) PROVE Stays
    <2>0. k # i /\ Slot(k) # Slot(i)
      BY <1>6, <1>m DEF JailNamed, Making
    <2>1. CASE jailEnd' = jailEnd
      BY <1>6, <2>1, <1>l DEF JailNamed
    <2>2. CASE /\ jailEnd[unit] = <<InJail[i], Raw>>
               /\ jailEnd' = [jailEnd EXCEPT ![unit] = Slot(i)]
      BY <1>6, <2>2, <2>0, <1>l, <1>p DEF JailNamed, JailTypeOK
    <2> QED BY <1>6, <2>1, <2>2 DEF JailNamed
  <1>7. Found(i, bad) => Stays
    BY <1>l DEF Found
  <1> QED BY <1>1, <1>2, <1>3, <1>4, <1>5, <1>6, <1>7 DEF EpairStep

LEMMA EpairSpares ==
    ASSUME JailTypeOK, NEW i \in Ifs, NotBoth(i), NEW bad, EpairStep(i, bad),
           NEW k \in Ifs, k = i \/ Slot(k) # Slot(i), NEW a, Led(k, a)
    PROVE  Led(k, a)' /\ Holds(k)
  <1>1. PICK w \in Units : hostEnd[w] = k /\ jailEnd[w] = Slot(k)
    BY LedMeans
  <1>2. Led(k, a)'
    BY <1>1, EpairSparesUnit, LedMeansNext
  <1>3. Holds(k)
    BY EpairSparesUnit DEF Holds
  <1> QED BY <1>2, <1>3

\* ... when an epair goes that is none of its,
LEMMA DestroySpares ==
    ASSUME NEW U, Destroy(U), NEW k \in Ifs, NEW a, Led(k, a),
           \A u \in U : hostEnd[u] # k
    PROVE  Led(k, a)'
  <1>p. k # Nowhere /\ Slot(k) # Nowhere
    BY Places
  <1>l. PICK w \in Units : /\ hostEnd[w] = k /\ jailEnd[w] = Slot(k)
                           /\ \A u \in Units : jailEnd[u] = Slot(k) => addr[u] = a
                           /\ \A u \in Units : hostEnd[u] = k => u \notin mangled
    BY LedMeans
  <1>1. /\ hostEnd'[w] = k /\ jailEnd'[w] = Slot(k)
        /\ \A u \in Units : jailEnd'[u] = Slot(k) => addr'[u] = a
        /\ \A u \in Units : hostEnd'[u] = k => u \notin mangled'
    BY <1>p, <1>l DEF Destroy
  <1> QED BY <1>1, LedMeansNext

\* ... when another jail goes,
LEMMA JailGoesSpares ==
    ASSUME NEW j \in Jails, JailGoes(j), NEW k \in Ifs, InJail[k] # j, NEW a, Led(k, a)
    PROVE  Led(k, a)'
  <1>p. Slot(k) # Host /\ Slot(k) \notin Within(j)
    BY Places
  <1>l. PICK w \in Units : /\ hostEnd[w] = k /\ jailEnd[w] = Slot(k)
                           /\ \A u \in Units : jailEnd[u] = Slot(k) => addr[u] = a
                           /\ \A u \in Units : hostEnd[u] = k => u \notin mangled
    BY LedMeans
  <1>1. /\ hostEnd'[w] = k /\ jailEnd'[w] = Slot(k)
        /\ \A u \in Units : jailEnd'[u] = Slot(k) => addr'[u] = a
        /\ \A u \in Units : hostEnd'[u] = k => u \notin mangled'
    BY <1>p, <1>l DEF JailGoes, Within
  <1> QED BY <1>1, LedMeansNext

\* ... and when nothing happens to the epairs.
LEMMA StillLed ==
    ASSUME UNCHANGED epairs, NEW k, NEW a, Led(k, a)
    PROVE  Led(k, a)'
  <1>1. UNCHANGED <<hostEnd, jailEnd, addr, mangled>>
    BY DEF epairs
  <1> QED BY <1>1, LedMeans, LedMeansNext

-----------------------------------------------------------------------------
(* The other commands.                                                      *)

\* Ends that are destroyed, or given back to the host.
Shrinks ==
    \A u \in Units : hostEnd'[u] \in {hostEnd[u], Nowhere}
                     /\ jailEnd'[u] \in {jailEnd[u], Host, Nowhere}

LEMMA ShrinkKeeps ==
    ASSUME Shrinks
    PROVE  /\ (OwnSlots => Paired) => (OwnSlots => Paired)'
           /\ KnownIfs /\ UNCHANGED seenIfs => KnownIfs'
           /\ \A i \in Ifs : UNCHANGED <<at, unit>> =>
                 (MakingInv(i) => MakingInv(i)') /\ (Apart(i) => Apart(i)')
  <1>p. \A k \in Ifs : k # Nowhere /\ Slot(k) # Host /\ Slot(k) # Nowhere
    BY Places
  <1>1. (OwnSlots => Paired) => (OwnSlots => Paired)'
    BY <1>p DEF Shrinks, Paired, OwnSlots, Slot
  <1>2. KnownIfs /\ UNCHANGED seenIfs => KnownIfs'
    BY <1>p DEF Shrinks, KnownIfs
  <1>3. ASSUME NEW i \in Ifs, MakingInv(i), UNCHANGED <<at, unit>>
        PROVE  MakingInv(i)'
    <2>1. i # Nowhere /\ Slot(i) # Host /\ Slot(i) # Nowhere
      BY <1>p
    <2> QED BY <1>3, <2>1 DEF Shrinks, MakingInv, Slot
  <1>4. ASSUME NEW i \in Ifs, Apart(i), UNCHANGED <<at, unit>>
        PROVE  Apart(i)'
    <2>1. i # Nowhere /\ Slot(i) # Host /\ Slot(i) # Nowhere
      BY <1>p
    <2> QED BY <1>4, <2>1 DEF Shrinks, Apart, NotBoth, Slot
  <1> QED BY <1>1, <1>2, <1>3, <1>4

LEMMA DestroyKeeps ==
    ASSUME JailTypeOK, Tidy, NEW U, Destroy(U), UNCHANGED jail
    PROVE  Tidy' /\ Shrinks
  <1>1. Shrinks
    BY DEF Shrinks, Destroy
  <1>2. \A u \in Units : hostEnd'[u] = Nowhere <=> jailEnd'[u] = Nowhere
    BY DEF Tidy, Destroy
  <1>3. \A u \in Units, j \in Jails : jailEnd'[u] \in Within(j) => j \in jail'
    BY Places, EndsAssumption DEF Tidy, Destroy, Within
  <1>4. \A u \in mangled' : hostEnd'[u] # Nowhere
    BY DEF Tidy, Destroy, JailTypeOK
  <1> QED BY <1>1, <1>2, <1>3, <1>4 DEF Tidy, Within

LEMMA JailGoesKeeps ==
    ASSUME JailTypeOK, Tidy, NEW j \in Jails, JailGoes(j)
    PROVE  Tidy' /\ Shrinks
  <1>p. Host # Nowhere /\ \A m \in Jails : Host \notin Within(m) /\ Nowhere \notin Within(m)
    BY EndsAssumption DEF Within
  <1>0. /\ jailEnd' = [u \in Units |-> IF jailEnd[u] \in Within(j) THEN Host ELSE jailEnd[u]]
        /\ jail' = jail \ {j} /\ UNCHANGED <<hostEnd, mangled>>
    BY DEF JailGoes, Within
  <1>1. Shrinks
    BY <1>0 DEF Shrinks
  <1>2. \A u \in Units : hostEnd'[u] = Nowhere <=> jailEnd'[u] = Nowhere
    BY <1>0, <1>p DEF Tidy
  <1>3. \A u \in Units, m \in Jails : jailEnd'[u] \in Within(m) => m \in jail'
    <2>1. \A u \in Units, m \in Jails : jailEnd'[u] \in Within(m) =>
              jailEnd[u] \in Within(m) /\ jailEnd[u] \notin Within(j)
      BY <1>0, <1>p
    <2> QED BY <2>1, <1>0 DEF Tidy
  <1>4. \A u \in mangled' : hostEnd'[u] # Nowhere
    BY <1>0 DEF Tidy
  <1> QED BY <1>1, <1>2, <1>3, <1>4 DEF Tidy, Within

KernelTypes ==
    /\ jail \subseteq Jails
    /\ hostEnd \in [Units -> Ifs \cup {Raw, Nowhere}]
    /\ jailEnd \in [Units -> (Jails \X (JailIfs \cup {Raw})) \cup {Host, Nowhere}]
    /\ addr \in [Units -> Addresses \cup {NoAddress}]
    /\ mangled \subseteq Units

LEMMA GoneTypes ==
    ASSUME JailTypeOK
    PROVE  /\ \A j \in Jails : JailGoes(j) => KernelTypes'
           /\ \A U \in SUBSET Units : Destroy(U) /\ jail' \subseteq jail => KernelTypes'
  BY DEF JailTypeOK, KernelTypes, JailGoes, Destroy

\* ensure_addrs: nothing to do, done, not done, or done by half.
AddrStep(i, a, next) ==
    /\ at = "addrs" /\ at' = next
    /\ UNCHANGED <<jail, hostEnd, jailEnd, mangled, unit, seenJails, seenIfs>>
    /\ faults' = faults \/ Fault
    /\ \/ HasAddress(i, a) /\ addr' = addr /\ failed' = failed
       \/ /\ ~HasAddress(i, a) \/ ~HaveJail(i)
          /\ \/ /\ addr' = [u \in Units |-> IF u \in JailUnit(i) THEN a ELSE addr[u]]
                /\ HaveJail(i) /\ failed' = failed
             \/ addr' = addr /\ Failed(HaveJail(i))
             \/ /\ addr' = [u \in Units |-> IF u \in JailUnit(i) THEN NoAddress ELSE addr[u]]
                /\ HaveJail(i) /\ Failed(TRUE)

LEMMA AddrSteps ==
    ASSUME JailTypeOK, NEW i \in Ifs, NEW a, NEW next, EnsureAddrs(i, a, next)
    PROVE  AddrStep(i, a, next)
  <1>f. Fault => faults' # faults
    BY FaultsCount
  <1>1. faults' = faults \/ Fault
    BY DEF EnsureAddrs, Do
  <1>2. /\ at = "addrs" /\ at' = next
        /\ UNCHANGED <<jail, hostEnd, jailEnd, mangled, unit, seenJails, seenIfs>>
    BY DEF EnsureAddrs, Do, plane, epairs, seen
  <1>3. CASE HasAddress(i, a) /\ UNCHANGED <<plane, failed, faults>>
    BY <1>1, <1>2, <1>3 DEF AddrStep, plane, epairs
  <1>4. CASE /\ HaveJail(i) => ~HasAddress(i, a)
             /\ \/ Do(HaveJail(i),
                      addr' = [u \in Units |-> IF u \in JailUnit(i) THEN a ELSE addr[u]]
                        /\ UNCHANGED <<jail, hostEnd, jailEnd, mangled>>)
                \/ /\ HaveJail(i) /\ Fault /\ failed' = TRUE
                   /\ addr' = [u \in Units |-> IF u \in JailUnit(i) THEN NoAddress ELSE addr[u]]
                   /\ UNCHANGED <<jail, hostEnd, jailEnd, mangled>>
    BY <1>1, <1>2, <1>4, <1>f DEF AddrStep, Do, Failed, plane, epairs
  <1> QED BY <1>3, <1>4 DEF EnsureAddrs

LEMMA AddrTypes ==
    ASSUME JailTypeOK, NEW i \in Ifs, NEW a \in Addresses, NEW next, AddrStep(i, a, next),
           UNCHANGED <<others, touched>>
    PROVE  JailTypeOK'
  <1>1. addr' \in [Units -> Addresses \cup {NoAddress}]
    BY DEF AddrStep, JailTypeOK
  <1>2. failed' = failed \/ failed' = TRUE
    BY DEF AddrStep, Failed
  <1>3. failed' \in BOOLEAN
    BY <1>2 DEF JailTypeOK
  <1>4. faults' \in Nat
    BY FaultsCount DEF AddrStep, JailTypeOK
  <1> QED BY <1>1, <1>3, <1>4 DEF AddrStep, JailTypeOK

\* Addresses are set where they belong, and not at all where they are set already.
LEMMA AddrSpares ==
    ASSUME NEW i \in Ifs, NEW a, NEW next, AddrStep(i, a, next),
           NEW k \in Ifs, NEW b, (k = i /\ b = a) \/ Slot(k) # Slot(i), Led(k, b)
    PROVE  Led(k, b)'
  <1>l. /\ \E u \in Units : hostEnd[u] = k /\ jailEnd[u] = Slot(k)
        /\ \A u \in Units : jailEnd[u] = Slot(k) => addr[u] = b
        /\ \A u \in Units : hostEnd[u] = k => u \notin mangled
    BY LedMeans
  <1>1. \A u \in Units : jailEnd[u] = Slot(k) => addr'[u] = b
    <2>1. CASE addr' = addr
      BY <2>1, <1>l
    <2>2. CASE Slot(k) # Slot(i)
      BY <2>2, <1>l DEF AddrStep, JailUnit
    <2>3. CASE k = i /\ b = a /\ addr' # addr
      <3>1. ~HasAddress(i, a)
        BY <2>3, <1>l DEF AddrStep, HaveJail, JailUnit
      <3> QED BY <3>1, <2>3, <1>l DEF HasAddress, JailUnit
    <2> QED BY <2>1, <2>2, <2>3
  <1> QED BY <1>1, <1>l, LedMeansNext DEF AddrStep

LEMMA AddrWorks ==
    ASSUME JailTypeOK, NEW i \in Ifs, MadeSoFar(i), NEW a, NEW next, AddrStep(i, a, next)
    PROVE  /\ faults' = faults /\ ~failed => ~failed'
           /\ KnownIfs => KnownIfs'
           /\ ~failed' => /\ InJail[i] \in jail' /\ HaveJail(i)'
                          /\ Spans(i) => Led(i, a)'
  <1>1. HaveJail(i) /\ InJail[i] \in jail
    BY DEF AddrStep, MadeSoFar, HaveJail, JailUnit
  <1>2. HaveJail(i)' /\ InJail[i] \in jail'
    BY <1>1 DEF AddrStep, HaveJail, JailUnit, Slot
  <1>3. KnownIfs => KnownIfs'
    BY DEF AddrStep, KnownIfs
  <1>4. faults' = faults /\ ~failed => failed' = failed
    BY <1>1 DEF AddrStep, Failed
  <1>5. ASSUME ~failed', Spans(i) PROVE Led(i, a)'
    <2>1. \A u \in Units : jailEnd[u] = Slot(i) => addr'[u] = a
      BY <1>5 DEF AddrStep, Failed, HasAddress, JailUnit
    <2>2. /\ \E u \in Units : hostEnd[u] = i /\ jailEnd[u] = Slot(i)
          /\ \A u \in Units : hostEnd[u] = i => u \notin mangled
      BY <1>5 DEF AddrStep, MadeSoFar, Spans, HostUnit, JailUnit
    <2> QED BY <2>1, <2>2, LedMeansNext DEF AddrStep
  <1> QED BY <1>2, <1>3, <1>4, <1>5

\* ensure_jail.
JailStep(j, good, bad) ==
    /\ at = "jail" /\ UNCHANGED <<hostEnd, jailEnd, addr, mangled, unit, seenIfs>>
    /\ faults' = faults \/ Fault
    /\ failed' = failed \/ Failed(j \in seenJails \/ j \notin jail)
    /\ \/ at' = good /\ j \in seenJails /\ UNCHANGED <<jail, seenJails, failed>>
       \/ /\ at' = good /\ j \notin seenJails \cup jail
          /\ jail' = jail \cup {j} /\ seenJails' = seenJails \cup {j}
       \/ at' = bad /\ failed' = TRUE /\ UNCHANGED <<jail, seenJails>>

LEMMA JailSteps ==
    ASSUME JailTypeOK, NEW j \in Jails, NEW good, NEW bad,
           JailSeen(j, good) \/ CreateJail(j, good, bad)
    PROVE  JailStep(j, good, bad)
  <1>f. Fault => faults' # faults
    BY FaultsCount
  <1>1. faults' = faults \/ Fault
    BY DEF JailSeen, CreateJail
  <1>2. CASE JailSeen(j, good)
    BY <1>1, <1>2 DEF JailSeen, JailStep, plane, epairs, seen
  <1>3. CASE CreateJail(j, good, bad)
    BY <1>1, <1>3, <1>f DEF CreateJail, JailStep, Failed, epairs
  <1> QED BY <1>2, <1>3

LEMMA JailStepTypes ==
    ASSUME JailTypeOK, NEW j \in Jails, NEW good, NEW bad, JailStep(j, good, bad),
           UNCHANGED <<others, touched>>
    PROVE  JailTypeOK'
  <1>1. failed' = failed \/ failed' = TRUE
    BY DEF JailStep, Failed
  <1>2. failed' \in BOOLEAN
    BY <1>1 DEF JailTypeOK
  <1>3. faults' \in Nat
    BY FaultsCount DEF JailStep, JailTypeOK
  <1> QED BY <1>2, <1>3 DEF JailStep, JailTypeOK

\* collect: one epair.
EpairGoes(i) ==
    /\ at = "destroy" /\ i \in seenIfs /\ seenIfs' = seenIfs \ {i}
    /\ UNCHANGED <<jail, at, unit, seenJails>>
    /\ faults' = faults \/ Fault
    /\ \/ Destroy(HostUnit(i)) /\ failed' = failed
       \/ failed' = TRUE /\ Destroy({})

LEMMA EpairGoesSteps ==
    ASSUME JailTypeOK, NEW i \in Ifs, DestroyEpair(i)
    PROVE  EpairGoes(i)
  <1>1. faults' = faults \/ Fault
    BY DEF DestroyEpair, Do
  <1>2. /\ at = "destroy" /\ i \in seenIfs /\ seenIfs' = seenIfs \ {i}
        /\ UNCHANGED <<jail, at, unit, seenJails>>
    BY DEF DestroyEpair, Do, plane
  <1>3. \/ Destroy(HostUnit(i)) /\ failed' = failed
        \/ failed' = TRUE /\ UNCHANGED epairs
    BY DEF DestroyEpair, Do, plane
  <1> QED BY <1>1, <1>2, <1>3, NothingDestroyed DEF EpairGoes

LEMMA EpairGoesKeeps ==
    ASSUME JailTypeOK, Tidy, NEW i \in Ifs, EpairGoes(i)
    PROVE  /\ UNCHANGED <<others, touched>> => JailTypeOK'
           /\ Tidy' /\ Shrinks
           /\ KnownIfs /\ ~failed' => KnownIfs'
           /\ \A k \in Ifs \ {i} : \A a : Led(k, a) => Led(k, a)'
  <1>1. PICK U \in {HostUnit(i), {}} : Destroy(U)
    BY DEF EpairGoes
  <1>2. U \subseteq Units /\ \A u \in U : hostEnd[u] = i
    BY <1>1 DEF HostUnit
  <1>3. failed' = failed \/ failed' = TRUE
    BY DEF EpairGoes
  <1>4. failed' \in BOOLEAN
    BY <1>3 DEF JailTypeOK
  <1>5. faults' \in Nat
    BY FaultsCount DEF EpairGoes, JailTypeOK
  <1>6. KernelTypes'
    BY <1>1, <1>2, GoneTypes DEF EpairGoes
  <1>7. UNCHANGED <<others, touched>> => JailTypeOK'
    BY <1>4, <1>5, <1>6 DEF EpairGoes, JailTypeOK, KernelTypes
  <1>8. Tidy' /\ Shrinks
    BY <1>1, DestroyKeeps DEF EpairGoes
  <1>9. ASSUME KnownIfs, ~failed' PROVE KnownIfs'
    <2>1. Destroy(HostUnit(i))
      BY <1>9 DEF EpairGoes
    <2>2. \A u \in Units : hostEnd'[u] = (IF hostEnd[u] = i THEN Nowhere ELSE hostEnd[u])
      BY <2>1 DEF Destroy, HostUnit
    <2> QED BY <2>2, <1>9, Places DEF KnownIfs, EpairGoes
  <1>10. \A k \in Ifs \ {i} : \A a : Led(k, a) => Led(k, a)'
    BY <1>1, <1>2, DestroySpares
  <1> QED BY <1>7, <1>8, <1>9, <1>10

-----------------------------------------------------------------------------
(* The others, and the host that goes down.                                 *)

LEMMA OtherFacts ==
    ASSUME JailTypeOK, Other
    PROVE  /\ others' \in Nat /\ others' # others /\ others' # 0
           /\ touched' \in BOOLEAN /\ (touched => touched') /\ (at # "idle" => touched')
  <1>1. others' \in Nat /\ others' # others /\ others' # 0
    BY DEF JailTypeOK, Other
  <1>2. touched' = (touched \/ at # "idle") /\ touched \in BOOLEAN
    BY DEF JailTypeOK, Other
  <1>3. touched' \in BOOLEAN /\ (touched => touched') /\ (at # "idle" => touched')
    BY <1>2
  <1> QED BY <1>1, <1>3

LEMMA OperatorKeeps ==
    ASSUME JailTypeOK, Tidy, NEW i \in Ifs, OperatorDestroysEpair(i) \/ OperatorMangles(i)
    PROVE  /\ JailTypeOK' /\ Tidy' /\ Shrinks /\ Other
           /\ UNCHANGED <<jail, at, unit, seenJails, seenIfs, failed, faults>>
  <1>1. CASE OperatorDestroysEpair(i)
    <2>1. /\ Other /\ Destroy(HostUnit(i)) /\ HostUnit(i) \in SUBSET Units
          /\ UNCHANGED <<jail, at, unit, seenJails, seenIfs, failed, faults>>
      BY <1>1 DEF OperatorDestroysEpair, seen, HostUnit
    <2>2. KernelTypes'
      BY <2>1, GoneTypes
    <2>3. JailTypeOK'
      BY <2>1, <2>2, OtherFacts DEF KernelTypes, JailTypeOK
    <2> QED BY <2>1, <2>3, DestroyKeeps
  <1>2. CASE OperatorMangles(i)
    <2>1. /\ Other /\ mangled' = mangled \cup HostUnit(i)
          /\ UNCHANGED <<hostEnd, jailEnd, addr>>
          /\ UNCHANGED <<jail, at, unit, seenJails, seenIfs, failed, faults>>
      BY <1>2 DEF OperatorMangles, seen
    <2>2. JailTypeOK'
      BY <2>1, OtherFacts DEF HostUnit, JailTypeOK
    <2>3. Tidy'
      BY <2>1, Places DEF Tidy, HostUnit
    <2> QED BY <2>1, <2>2, <2>3 DEF Shrinks
  <1> QED BY <1>1, <1>2

LEMMA RebootKeeps ==
    ASSUME JailTypeOK, Tidy, jail' = {}, Destroy(Units)
    PROVE  KernelTypes' /\ Tidy' /\ Shrinks
  <1>1. KernelTypes'
    BY GoneTypes
  <1>2. Shrinks /\ mangled' = {}
    BY DEF Shrinks, Destroy, JailTypeOK
  <1>3. Tidy'
    BY <1>2, EndsAssumption DEF Tidy, Destroy, Within
  <1> QED BY <1>1, <1>2, <1>3
=============================================================================
