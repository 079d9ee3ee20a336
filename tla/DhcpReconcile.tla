---------------------------- MODULE DhcpReconcile ----------------------------
(***************************************************************************)
(* The dhcp agent's reconcile pass (dhcp_agent/reconcile.py): per network  *)
(* with dhcp a jail, an epair that leads into it, a directory with the     *)
(* reservations and options, and a dnsmasq that serves them.  The pass     *)
(* ensures one network after the other and then collects what is not       *)
(* asked for.  When passes are run is the subject of SyncLoop.             *)
(*                                                                         *)
(* dnsmasq reads its files when it starts and when it gets a HUP; a signal *)
(* takes effect at once.  The pass finds its dnsmasq again only by the pid *)
(* file.  State is lost at different times: a dead agent loses its pass, a *)
(* host that reboots loses everything but the files.                       *)
(***************************************************************************)
EXTENDS Jail

CONSTANTS
    Off,            \* a network without a dhcp service here
    Configs,        \* what the server may ask for: a service or Off per network
    Contents,       \* contents of a hosts or opts file
    Args,           \* dnsmasq argument vectors
    None,           \* no file, no process
    Pids,
    PidsReused,     \* may a new process get a pid that a stale pid file names?
    MaxDesires      \* bound on the changes of the desire

Nets == Jails
Files == {"hosts", "opts"}
Service == [port : Ifs, files : [Files -> Contents], args : Args, addr : Addresses]

ASSUME ConfigsAssumption ==
    /\ Configs \subseteq [Nets -> Service \cup {Off}]
    /\ \A c \in Configs : \A n \in Nets : c[n] # Off => InJail[c[n].port] = n

VARIABLES
    want,       \* the configuration the next pass gets
    goal,       \* the configuration of the running pass
    left,       \* what the current loop of the pass has not come to yet
    net,        \* the network being ensured
    rewritten,  \* a file of net was rewritten by this pass: dirty
    file,       \* the files of each network
    cmd,        \* the stored command line
    pidfile,
    proc,       \* the dnsmasq under each pid
    desires,
    misled      \* history: networks for which this pass took what is another's

passVars == <<at, unit, seen, failed, goal, left, net, rewritten>>
disk == <<file, cmd, pidfile>>
rest == <<want, desires, others, touched, misled>>
vars == <<plane, passVars, disk, proc, rest, faults>>

Process == [net : Nets, args : Args, loaded : [Files -> Contents]]

ASSUME NoneAssumption == None \notin Pids \cup Process

Steps == {"idle", "nets", "hosts", "opts", "jail", "epair", "create", "namehost",
          "move", "namejail", "named", "addrs", "dnsmasq", "store", "start",
          "kill", "destroy", "remove", "purge"}

TypeOK ==
    /\ JailTypeOK
    /\ at \in Steps
    /\ want \in Configs /\ goal \in Configs
    /\ left \subseteq Nets /\ net \in Nets \cup {None} /\ rewritten \in BOOLEAN
    /\ file \in [Nets -> [Files -> Contents \cup {None}]]
    /\ cmd \in [Nets -> Args \cup {None}]
    /\ pidfile \in [Nets -> Pids \cup {None}]
    /\ proc \in [Pids -> Process \cup {None}]
    /\ \A p \in Pids : proc[p] # None => proc[p].net \in jail
    /\ at = "start" => cmd[net] = goal[net].args
    /\ desires \in Nat /\ misled \subseteq Nets

Served(c) == {n \in Nets : c[n] # Off}
WantedIfs(c) == {c[n].port : n \in Served(c)}

NoFiles == [f \in Files |-> None]

Init ==
    /\ JailInit /\ at = "idle"
    /\ want \in Configs /\ goal = want
    /\ left = {} /\ net = None /\ rewritten = FALSE
    /\ file = [n \in Nets |-> NoFiles] /\ cmd = [n \in Nets |-> None]
    /\ pidfile = [n \in Nets |-> None] /\ proc = [p \in Pids |-> None]
    /\ desires = 0 /\ misled = {}

-----------------------------------------------------------------------------
(* Ways the pass could have been written wrong; none is used by Next.       *)

\* Only a changed hosts file counts.
DirtyHosts(f) == rewritten \/ (f = "hosts" /\ file[net][f] # goal[net].files[f])

\* The command line is not stored.
StoreNothing ==
    /\ at = "store" /\ at' = "start"
    /\ UNCHANGED <<plane, unit, seen, failed, goal, left, net, rewritten, disk, proc,
                   rest, faults>>

\* Every jail that was seen is collected, or none.
UndesiredAll == seenJails
UndesiredNone == {}

-----------------------------------------------------------------------------
(* One pass: every network in turn.                                         *)

StartPass ==
    /\ at = "idle" /\ at' = "nets"
    /\ seenJails' = jail
    /\ seenIfs' = {i \in Ifs : HaveHost(i)}
    /\ left' = Served(goal)
    /\ failed' = FALSE /\ touched' = FALSE /\ misled' = {}
    /\ UNCHANGED <<plane, unit, goal, net, rewritten, disk, proc, want, desires,
                   others, faults>>

NextNet(n) ==
    /\ at = "nets" /\ n \in left
    /\ left' = left \ {n} /\ net' = n /\ rewritten' = FALSE
    /\ at' = "hosts"
    /\ UNCHANGED <<plane, unit, seen, failed, goal, disk, proc, rest, faults>>

\* write_if_changed, by rename: the file has the old or the new content.
Changed(f) == file[net][f] # goal[net].files[f]
Dirty(f) == rewritten \/ Changed(f)

WriteFile(f, next) ==
    /\ at = f /\ at' = next
    /\ file' = [file EXCEPT ![net][f] = goal[net].files[f]]
    /\ rewritten' = Dirty(f)
    /\ UNCHANGED <<plane, unit, seen, failed, goal, left, net, cmd, pidfile, proc,
                   rest, faults>>

\* Two ends that are found are taken for one epair, whatever epairs they belong to.
Mispaired(i) == HaveHost(i) /\ HaveJail(i) /\ ~Spans(i)

\* jail.py on the network's jail and port.  A network whose jail or epair cannot be
\* had is left for the next pass.
Plumb ==
    /\ LET i == goal[net].port IN
         /\ \/ JailSeen(net, "epair") \/ CreateJail(net, "epair", "nets")
            \/ EnsureEpair(i, "addrs", "nets")
            \/ EnsureAddrs(i, goal[net].addr, "dnsmasq")
         /\ misled' = misled \cup {n \in {net} : at = "epair" /\ Mispaired(i)}
    /\ UNCHANGED <<goal, left, net, rewritten, disk, proc, want, desires, others, touched>>

\* Whatever dnsmasq runs under the pid in the file is taken for the network's.
Alive(n) == pidfile[n] # None /\ proc[pidfile[n]] # None

\* The networks that are mixed up when it is another's: n and the other one.
MixedUp(n) ==
    {m \in Nets : Alive(n) /\ proc[pidfile[n]].net # n /\ m \in {n, proc[pidfile[n]].net}}

Dnsmasq ==
    /\ at = "dnsmasq"
    /\ IF ~Alive(net)
         THEN at' = "store" /\ UNCHANGED proc
         ELSE LET p == pidfile[net] IN
              IF cmd[net] # goal[net].args
              THEN at' = "store" /\ proc' = [proc EXCEPT ![p] = None]
              ELSE /\ at' = "nets"
                   /\ proc' = IF rewritten
                                THEN [proc EXCEPT ![p].loaded = file[proc[p].net]]
                                ELSE proc
    /\ misled' = misled \cup MixedUp(net)
    /\ UNCHANGED <<plane, unit, seen, failed, goal, left, net, rewritten, disk,
                   want, desires, others, touched, faults>>

StoreCmd ==
    /\ at = "store" /\ at' = "start"
    /\ cmd' = [cmd EXCEPT ![net] = goal[net].args]
    /\ UNCHANGED <<plane, unit, seen, failed, goal, left, net, rewritten, file,
                   pidfile, proc, rest, faults>>

\* The pids a new process may get: of those that no pid file names one is as good as
\* another.
FreePids == {p \in Pids : proc[p] = None}
StalePids == {p \in FreePids : \E n \in Nets : pidfile[n] = p}
NewPids ==
    {p \in FreePids \ StalePids : p = CHOOSE q \in FreePids \ StalePids : TRUE}
      \cup (IF PidsReused THEN StalePids ELSE {})

\* dnsmasq wants its interface and the dhcp port of the jail for itself; it writes
\* the pid file before it leaves its parent.
CanServe(n) ==
    /\ HaveJail(goal[n].port)
    /\ \A p \in Pids : proc[p] # None => proc[p].net # n

StartDnsmasq ==
    /\ at = "start" /\ at' = "nets"
    /\ \/ /\ CanServe(net)
          /\ \E p \in NewPids :
               /\ proc' = [proc EXCEPT ![p] = [net |-> net, args |-> goal[net].args,
                                               loaded |-> file[net]]]
               /\ pidfile' = [pidfile EXCEPT ![net] = p]
          /\ UNCHANGED <<failed, faults>>
       \/ /\ IF CanServe(net) THEN Fault ELSE UNCHANGED faults
          /\ failed' = TRUE
          /\ UNCHANGED <<proc, pidfile>>
    /\ UNCHANGED <<plane, unit, seen, goal, left, net, rewritten, file, cmd, rest>>

-----------------------------------------------------------------------------
(* The same pass: what is not asked for goes, the processes first.          *)

Undesired == seenJails \ Served(goal)
Without(S) == [p \in Pids |-> IF proc[p] # None /\ proc[p].net \in S THEN None ELSE proc[p]]

StartCollect ==
    /\ at = "nets" /\ left = {}
    /\ at' = "kill" /\ left' = Undesired
    /\ UNCHANGED <<plane, unit, seen, failed, goal, net, rewritten, disk, proc,
                   rest, faults>>

\* Nothing to kill is fine.
KillJailProcs(j) ==
    /\ at = "kill" /\ j \in left
    /\ left' = left \ {j}
    /\ proc' = Without({j})
    /\ UNCHANGED <<plane, at, unit, seen, failed, goal, net, rewritten, disk, rest, faults>>

DestroyUndesired ==
    /\ left = {}
    /\ \/ \E i \in seenIfs \ WantedIfs(goal) : DestroyEpair(i)
       \/ /\ at = "kill" /\ at' = "destroy"
          /\ UNCHANGED <<plane, unit, seen, failed, faults>>
    /\ UNCHANGED <<goal, left, net, rewritten, disk, proc, rest>>

StartRemove ==
    /\ at = "destroy" /\ seenIfs \subseteq WantedIfs(goal)
    /\ at' = "remove" /\ left' = Undesired
    /\ UNCHANGED <<plane, unit, seen, failed, goal, net, rewritten, disk, proc,
                   rest, faults>>

RemoveJail(j) ==
    /\ at = "remove" /\ j \in left
    /\ left' = left \ {j}
    /\ \/ /\ j \in jail /\ JailGoes(j) /\ proc' = Without({j})
          /\ UNCHANGED <<failed, faults>>
       \/ /\ IF j \in jail THEN Fault ELSE UNCHANGED faults
          /\ failed' = TRUE
          /\ UNCHANGED <<plane, proc>>
    /\ UNCHANGED <<at, unit, seen, goal, net, rewritten, disk, rest>>

\* The directories of other networks are removed, the pid files with them.
Purged(d, nothing) == [n \in Nets |-> IF n \in Served(goal) THEN d[n] ELSE nothing]

RemoveState ==
    /\ at = "remove" /\ left = {} /\ at' = "purge"
    /\ file' = Purged(file, NoFiles)
    /\ cmd' = Purged(cmd, None)
    /\ pidfile' = Purged(pidfile, None)
    /\ UNCHANGED <<plane, unit, seen, failed, goal, left, net, rewritten, proc,
                   rest, faults>>

Done == at = "purge"

Forgotten ==
    /\ goal' = want /\ net' = None /\ rewritten' = FALSE
    /\ seenJails' = {} /\ seenIfs' = {} /\ touched' = FALSE /\ misled' = {}

\* The pass returns; the next one starts with what the server asks for by then.
EndPass ==
    /\ Done /\ at' = "idle"
    /\ failed' = FALSE
    /\ Forgotten
    /\ UNCHANGED <<plane, unit, left, disk, proc, want, desires, others, faults>>

-----------------------------------------------------------------------------
(* Accidents.                                                               *)

Forget ==
    /\ at' = "idle" /\ unit' = Nowhere /\ left' = {} /\ failed' = FALSE
    /\ Forgotten
    /\ UNCHANGED <<want, desires, others>>

\* The agent dies and starts over.
Crash ==
    /\ at # "idle" /\ Fault
    /\ Forget
    /\ UNCHANGED <<plane, disk, proc>>

\* The host goes down: jails, epairs and processes are gone, the files stay.
Reboot ==
    /\ Fault
    /\ jail' = {} /\ Destroy(Units)
    /\ proc' = [p \in Pids |-> None]
    /\ Forget
    /\ UNCHANGED disk

-----------------------------------------------------------------------------
(* The others.                                                              *)

Desire(c) ==
    /\ desires < MaxDesires /\ c # want
    /\ desires' = desires + 1
    /\ want' = c
    /\ goal' = IF at = "idle" THEN c ELSE goal
    /\ UNCHANGED <<plane, at, unit, seen, failed, left, net, rewritten, disk, proc,
                   others, touched, misled, faults>>

DnsmasqDies(p) ==
    /\ Other /\ proc[p] # None
    /\ proc' = [proc EXCEPT ![p] = None]
    /\ UNCHANGED <<plane, passVars, disk, want, desires, misled, faults>>

OperatorRemovesJail(j) ==
    /\ Other /\ j \in jail
    /\ JailGoes(j) /\ proc' = Without({j})
    /\ UNCHANGED <<passVars, disk, want, desires, misled, faults>>

OperatorTouchesEpair(i) ==
    /\ OperatorDestroysEpair(i) \/ OperatorMangles(i)
    /\ UNCHANGED <<goal, left, net, rewritten, disk, proc, want, desires, misled>>

-----------------------------------------------------------------------------

Pass ==
    \/ StartPass \/ \E n \in Nets : NextNet(n)
    \/ WriteFile("hosts", "opts") \/ WriteFile("opts", "jail")
    \/ Plumb \/ Dnsmasq \/ StoreCmd \/ StartDnsmasq
    \/ StartCollect \/ (\E j \in Jails : KillJailProcs(j)) \/ DestroyUndesired
    \/ StartRemove \/ (\E j \in Jails : RemoveJail(j)) \/ RemoveState \/ EndPass

Others ==
    \/ \E c \in Configs : Desire(c)
    \/ \E p \in Pids : DnsmasqDies(p)
    \/ \E j \in Jails : OperatorRemovesJail(j)
    \/ \E i \in Ifs : OperatorTouchesEpair(i)

Next == Pass \/ Crash \/ Reboot \/ Others

\* A pass goes on to its end and another one follows, at the latest when the
\* interval has elapsed (dhcp_agent/agent.py: run).
Spec == Init /\ [][Next]_vars /\ WF_vars(Pass)

-----------------------------------------------------------------------------
(* Properties.                                                              *)

Plumbed(n, s) ==
    /\ n \in jail
    /\ Spans(s.port) /\ HasAddress(s.port, s.addr)
    /\ HostUnit(s.port) \cap mangled = {}

ServedBy(n, s, p) == proc[p] # None /\ proc[p].net = n /\ proc[p].args = s.args

\* A network is plumbed and served by a dnsmasq that the next pass will find.
InOrder(n, s) ==
    /\ Plumbed(n, s) /\ file[n] = s.files
    /\ pidfile[n] # None /\ ServedBy(n, s, pidfile[n])

\* The host has the jails of configuration c, and nothing of any other network or port.
NothingElse(c) ==
    /\ jail = Served(c)
    /\ \A i \in Ifs \ WantedIfs(c) : ~HaveHost(i)
    /\ \A n \in Nets \ Served(c) : file[n] = NoFiles

AsDesired(c) == NothingElse(c) /\ \A n \in Served(c) : InOrder(n, c[n])

\* A pass whose receipts are all ok, with nobody else at work on the host, leaves nothing
\* that its configuration does not ask for and every network in order, but for those the
\* code misjudges: whose port's two names lead to ends of different epairs, or whose pid
\* file, or another network's, led to the other one's dnsmasq.  How it comes to either is
\* in README.md, section 5.
CleanPassServes ==
    Done /\ ~failed /\ ~touched =>
        NothingElse(goal) /\ \A n \in Served(goal) \ misled : InOrder(n, goal[n])

\* dhcp_agent/reconcile.py:54, "restart on a changed argv, HUP on changed files": after
\* a clean pass no dnsmasq works with old files.  This does not hold (see README.md) ...
FilesLoaded ==
    Done /\ ~failed /\ ~touched =>
        \A n \in Served(goal), p \in Pids :
            ServedBy(n, goal[n], p) => proc[p].loaded = file[n]

\* ... but as long as nothing has ever gone wrong a restart or a HUP has followed each
\* write.
UntroubledLoads == faults = 0 /\ others = 0 => FilesLoaded

\* A pass takes nothing away from a network that is as asked for: its epair stays, and
\* its dnsmasq is killed only for another command line, or by way of another network's
\* pid file that has come to name it.
ServiceKept ==
    [][others' = others /\ faults' = faults =>
          \A n \in Served(goal) : \A s \in {goal[n]} :
              /\ Plumbed(n, s) => Plumbed(n, s)'
              /\ \A p \in Pids : ServedBy(n, s, p) /\ cmd[n] = s.args =>
                    proc'[p] # None \/ n \in misled']_vars

\* When the others leave the host alone it becomes and stays what is asked for, from
\* whatever state crashes, reboots and failed commands have left - unless pass after pass
\* takes one network's for another's.
Converges == <>[](misled = {}) => <>[]AsDesired(want)

-----------------------------------------------------------------------------
(* What the repository says and the code does not do (see README.md).       *)

\* jail.py:96, "a half-state is repaired by destroying the surviving half": the two
\* ends that a clean pass finds are the ends of one epair.
EndsOfOneEpair == Done /\ ~failed /\ ~touched => \A n \in Served(goal) : Spans(goal[n].port)

\* tests/test_dhcp_reconcile.py:189, "A dnsmasq that died is simply started again".
DeadIsRestarted ==
    Done /\ ~failed /\ ~touched =>
        \A n \in Served(goal) : \E p \in Pids : ServedBy(n, goal[n], p)
=============================================================================
