------------------------------- MODULE L3Agent -------------------------------
(***************************************************************************)
(* The l3 agent (l3_agent/agent.py) between the neutron server, which      *)
(* schedules routers to it and keeps the status of each floating ip, and   *)
(* the host.  The agent is one process of green threads: a pass gives way  *)
(* at every RPC and at every command, and is cut into one action per       *)
(* stretch in between.  What the pass does to the host command by command  *)
(* is the subject of L3Reconcile; here it is one step that succeeds, or    *)
(* fails half done.                                                        *)
(*                                                                         *)
(* A floating ip's status is changed only by a report.  The server sets    *)
(* the reported ones, and those that it last knew on the router and that   *)
(* are on none now to DOWN, as the code has it: any left out of a report.  *)
(***************************************************************************)
EXTENDS Naturals

CONSTANTS
    Routers, Fips,
    BodiesOf,           \* what each router may be, or Unlisted
    PlacesOf,           \* the routers each floating ip may be on, or Nowhere
    Unlisted,           \* a router that is not scheduled here; a router without jail
    Nowhere,            \* no router
    MaxServer,          \* bound on the changes made at the server
    MaxFaults           \* bound on failing calls and on restarts

Bodies == {"gateway", "internal", "distributed"}

ASSUME BodiesAssumption == BodiesOf \in [Routers -> SUBSET ({Unlisted} \cup Bodies)]
ASSUME PlacesAssumption == PlacesOf \in [Fips -> SUBSET (Routers \cup {Nowhere})]
ASSUME NowhereAssumption == Nowhere \notin Routers

VARIABLES
    \* the agent's memory
    dirty,      \* _dirty
    reported,   \* _fip_statuses, nothing for a router without an entry
    \* the locals of the running pass, empty between two passes
    pc,
    desired,    \* the spec of each router
    todo,       \* the routers the report loop has not come to
    \* the host
    host,       \* the spec each router's jail was reconciled to
    \* the server
    body,       \* what sync_routers says of each router
    fipAt,      \* the router of each floating ip
    lastAt,     \* last_known_router_id
    status,
    cast,       \* a notification is on its way to this agent
    \* history
    stale,      \* the server changed since the last fetch
    namedBy,    \* the router whose report named each floating ip last, until another
                \* report of that router passes the ip over and leaves its status alone
    forgot,     \* the routers whose last report the agent may have forgotten
    unanswered, \* some report has failed
    overruled,  \* the floating ips the agent believes reported, but set to DOWN since
    serverSteps, faults

locals == <<pc, desired, todo>>
asked  == <<body, fipAt, lastAt, cast>>
history == <<stale, namedBy, forgot, unanswered, overruled>>
budget == <<serverSteps, faults>>
vars   == <<dirty, reported, locals, host, asked, status, history, budget>>

RouterSpec == [gateway : BOOLEAN, fips : SUBSET Fips]
ASSUME UnlistedAssumption == Unlisted \notin Bodies /\ Unlisted \notin RouterSpec

Specs == [Routers -> {Unlisted} \cup RouterSpec]
Statuses == {"ACTIVE", "ERROR", "DOWN"}
Reports == SUBSET (Fips \X Statuses)

NoSpecs == [r \in Routers |-> Unlisted]
NoReports == [r \in Routers |-> {}]

TypeOK ==
    /\ dirty \in BOOLEAN /\ reported \in [Routers -> Reports]
    /\ pc \in {"idle", "fetch", "reconcile", "report"}
    /\ desired \in Specs /\ todo \subseteq Routers
    /\ host \in Specs
    /\ body \in [Routers -> {Unlisted} \cup Bodies]
    /\ fipAt \in [Fips -> Routers \cup {Nowhere}]
    /\ lastAt \in [Fips -> Routers \cup {Nowhere}]
    /\ \A f \in Fips : fipAt[f] \in {Nowhere, lastAt[f]}
    /\ status \in [Fips -> Statuses]
    /\ \A f \in Fips : lastAt[f] = Nowhere => status[f] = "DOWN"
    /\ cast \in BOOLEAN /\ stale \in BOOLEAN /\ unanswered \in BOOLEAN
    /\ namedBy \in [Fips -> Routers \cup {Nowhere}] /\ forgot \subseteq Routers
    /\ overruled \subseteq Fips
    /\ pc = "report" => host = desired
    /\ serverSteps \in Nat /\ faults \in Nat

-----------------------------------------------------------------------------
(* Ways the agent could have been written wrong; none is used by Next.      *)

\* An empty report is left out, or all but the first are; every floating ip is well; a
\* pass that ends has nothing more to do.
NewsUnlessEmpty(r, statuses) == statuses # {} /\ reported[r] # statuses
NewsOnce(r, statuses) == reported[r] = {} /\ statuses # {}
AlwaysActive(spec) == "ACTIVE"
Cleared(failed) == FALSE

\* The receipts are not looked at.
ReconcileUnchecked ==
    /\ pc = "reconcile" /\ pc' = "report"
    /\ host' \in {host, desired}
    /\ todo' = {r \in Routers : desired[r] # Unlisted}
    /\ UNCHANGED <<dirty, reported, desired, asked, status, history, budget>>

-----------------------------------------------------------------------------
(* What is wanted and what is reported.                                     *)

\* Distributed and ha routers are skipped.
Supported(b) == b \notin {Unlisted, "distributed"}

Fetched ==
    [r \in Routers |->
        IF Supported(body[r])
          THEN [gateway |-> body[r] = "gateway", fips |-> {f \in Fips : fipAt[f] = r}]
          ELSE Unlisted]

StatusOf(spec) == IF spec.gateway THEN "ACTIVE" ELSE "ERROR"

FipStatuses(spec) ==
    IF spec = Unlisted THEN {} ELSE {<<f, StatusOf(spec)>> : f \in spec.fips}

Init ==
    /\ dirty = TRUE /\ reported = NoReports
    /\ pc = "idle" /\ desired = NoSpecs /\ todo = {} /\ host = NoSpecs
    /\ body \in {b \in [Routers -> {Unlisted} \cup Bodies] :
                  \A r \in Routers : b[r] \in BodiesOf[r]}
    /\ fipAt \in {p \in [Fips -> Routers \cup {Nowhere}] : \A f \in Fips : p[f] \in PlacesOf[f]}
    /\ lastAt = fipAt
    /\ status = [f \in Fips |-> "DOWN"] /\ cast = FALSE
    /\ stale = TRUE /\ forgot = {} /\ namedBy = [f \in Fips |-> Nowhere]
    /\ unanswered = FALSE /\ overruled = {}
    /\ serverSteps = 0 /\ faults = 0

Fault == faults < MaxFaults /\ faults' = faults + 1 /\ UNCHANGED serverSteps

-----------------------------------------------------------------------------
(* The pass.                                                                *)

\* _retry, or what a handler has asked for meanwhile.
DirtyAfterPass(failed) == dirty \/ failed

EndPass(failed) ==
    /\ pc' = "idle" /\ desired' = NoSpecs /\ todo' = {}
    /\ dirty' = DirtyAfterPass(failed)

\* Dirty, or forced when the interval has elapsed, which it may have at any time.
StartPass ==
    /\ pc = "idle" /\ pc' = "fetch"
    /\ dirty' = FALSE
    /\ UNCHANGED <<reported, desired, todo, host, asked, status, history, budget>>

GetRouters ==
    /\ pc = "fetch"
    /\ \/ /\ pc' = "reconcile" /\ desired' = Fetched /\ stale' = FALSE
          /\ UNCHANGED <<dirty, todo, budget>>
       \/ EndPass(TRUE) /\ Fault /\ UNCHANGED stale
    /\ UNCHANGED <<reported, host, asked, status, namedBy, forgot, unanswered, overruled>>

\* Failed receipts, or a death in the middle, leave each router as it was or as asked.
Halfway ==
    {[r \in Routers |-> IF r \in done THEN desired[r] ELSE host[r]] : done \in SUBSET Routers}

Reconcile ==
    /\ pc = "reconcile"
    /\ \/ /\ host' = desired /\ pc' = "report"
          /\ todo' = {r \in Routers : desired[r] # Unlisted}
          /\ UNCHANGED <<dirty, desired, budget>>
       \/ host' \in Halfway /\ Fault /\ EndPass(TRUE)
    /\ UNCHANGED <<reported, asked, status, history>>

Named(statuses) == {x[1] : x \in statuses}

\* The floating ips a router's report leaves out.
SetDown(r, statuses) ==
    {f \in Fips \ Named(statuses) : lastAt[f] = r /\ fipAt[f] = Nowhere}

\* The floating ips the pass has on some router.
InPass == UNION {desired[r].fips : r \in {q \in Routers : desired[q] # Unlisted}}

\* What a report does at the server.
ServerHears(r, statuses) ==
    /\ status' = [f \in Fips |->
                     CASE f \in Named(statuses) -> (CHOOSE x \in statuses : x[1] = f)[2]
                       [] f \in SetDown(r, statuses) -> "DOWN"
                       [] OTHER -> status[f]]
    /\ forgot' = forgot \ {r}
    /\ namedBy' = [f \in Fips |->
                      CASE f \in Named(statuses) -> r
                        [] namedBy[f] = r /\ f \notin Named(statuses) \cup SetDown(r, statuses) -> Nowhere
                        [] OTHER -> namedBy[f]]
    /\ overruled' = (overruled \ Named(statuses)) \cup (SetDown(r, statuses) \cap InPass)

\* Only a report that differs from the last one is made.
News(r, statuses) == reported[r] # statuses

\* update_floatingip_statuses; a call that raises ends the pass and the memory stays
\* what it was, for the routers reported already too.
ReportStatuses(r) ==
    /\ pc = "report" /\ r \in todo
    /\ LET statuses == FipStatuses(desired[r]) IN
       IF News(r, statuses)
         THEN \/ /\ ServerHears(r, statuses)
                 /\ todo' = todo \ {r}
                 /\ UNCHANGED <<dirty, pc, desired, unanswered, budget>>
              \/ /\ ServerHears(r, statuses) \/ UNCHANGED <<status, namedBy, forgot, overruled>>
                 /\ Fault /\ EndPass(TRUE) /\ unanswered' = TRUE
         ELSE /\ todo' = todo \ {r}
              /\ UNCHANGED <<dirty, pc, desired, status, namedBy, forgot, unanswered, overruled,
                             budget>>
    /\ UNCHANGED <<reported, host, asked, stale>>

ReportsDone ==
    /\ pc = "report" /\ todo = {}
    /\ reported' = [r \in Routers |-> FipStatuses(desired[r])]
    /\ forgot' = forgot \cup {r \in Routers : desired[r] = Unlisted}
    /\ overruled' = overruled \cap InPass
    /\ EndPass(FALSE)
    /\ UNCHANGED <<host, asked, status, stale, namedBy, unanswered, budget>>

-----------------------------------------------------------------------------
(* The handlers, the server and accidents.                                  *)

\* routers_updated and the other casts.
MarkDirty ==
    /\ cast /\ cast' = FALSE /\ dirty' = TRUE
    /\ UNCHANGED <<reported, locals, host, body, fipAt, lastAt, status, history, budget>>

CastLost ==
    /\ cast /\ cast' = FALSE /\ Fault
    /\ UNCHANGED <<dirty, reported, locals, host, body, fipAt, lastAt, status, history>>

\* The server changes and tells the agent.
Changes ==
    /\ serverSteps < MaxServer /\ serverSteps' = serverSteps + 1
    /\ cast' = TRUE /\ stale' = TRUE
    /\ UNCHANGED <<dirty, reported, locals, host, status, namedBy, forgot, unanswered, overruled,
                   faults>>

RouterChanges(r, b) ==
    Changes /\ b # body[r] /\ body' = [body EXCEPT ![r] = b] /\ UNCHANGED <<fipAt, lastAt>>

\* A floating ip goes to another router, or to none.
FipMoves(f, r) ==
    /\ Changes /\ r # fipAt[f]
    /\ fipAt' = [fipAt EXCEPT ![f] = r]
    /\ lastAt' = IF r = Nowhere THEN lastAt ELSE [lastAt EXCEPT ![f] = r]
    /\ UNCHANGED body

\* The agent dies, alone or with the host, and starts over.
Restart ==
    /\ Fault
    /\ host' \in {host, NoSpecs}
    /\ dirty' = TRUE /\ reported' = NoReports /\ forgot' = Routers
    /\ overruled' = {}
    /\ pc' = "idle" /\ desired' = NoSpecs /\ todo' = {}
    /\ UNCHANGED <<asked, status, stale, namedBy, unanswered>>

-----------------------------------------------------------------------------

Pass ==
    \/ StartPass \/ GetRouters \/ Reconcile
    \/ (\E r \in Routers : ReportStatuses(r)) \/ ReportsDone

Server ==
    \/ \E r \in Routers : \E b \in BodiesOf[r] : RouterChanges(r, b)
    \/ \E f \in Fips : \E r \in PlacesOf[f] : FipMoves(f, r)

Next == Pass \/ MarkDirty \/ CastLost \/ Server \/ Restart

\* Calls return, the loop goes round, and every interval forces a pass (run).
Spec == Init /\ [][Next]_vars /\ WF_vars(Pass)

-----------------------------------------------------------------------------
(* Properties.                                                              *)

\* The agent rests and its last pass saw the server as it is.
Settled == pc = "idle" /\ ~dirty /\ ~stale

\* The host carries the routers the server asks for, but for those that this agent does
\* not support.
OnHost ==
    \A r \in Routers :
        IF body[r] \in {"gateway", "internal"}
          THEN host[r] = [gateway |-> body[r] = "gateway", fips |-> {f \in Fips : fipAt[f] = r}]
          ELSE host[r] = Unlisted

Carried == {r \in Routers : body[r] \in {"gateway", "internal"}}

\* The floating ips that are on no router now and whose last router is on this host and
\* reported them.
LeftOut ==
    {f \in Fips : fipAt[f] = Nowhere /\ lastAt[f] \in Carried /\ namedBy[f] = lastAt[f]}

\* When the agent rests the host is as fetched.  If no report has failed, moreover, each
\* floating ip on a router has the status of that router and each that left a router
\* which the agent remembers is DOWN: comparing with the memory is enough, but for the
\* floating ips that one router's report set to DOWN while the pass had them on another.
SettledStatuses ==
    Settled =>
        /\ OnHost
        /\ ~unanswered =>
              /\ \A f \in Fips \ overruled : fipAt[f] \in Carried =>
                    status[f] = IF body[fipAt[f]] = "gateway" THEN "ACTIVE" ELSE "ERROR"
              /\ \A f \in LeftOut : lastAt[f] \notin forgot => status[f] = "DOWN"

\* A floating ip becomes ACTIVE only when the host carries it behind a gateway.
ActiveIsCarried ==
    [][\A f \in Fips :
          status[f] # "ACTIVE" /\ status'[f] = "ACTIVE" =>
              \E r \in Routers : host[r] # Unlisted /\ host[r].gateway /\ f \in host[r].fips]_vars

\* When the server has come to rest the host becomes and stays what it asks for, and a
\* floating ip that stays behind a gateway becomes ACTIVE for good if no report fails,
\* whatever else does, and none set it to DOWN while it was on another router.
Converges ==
    /\ <>[]OnHost
    /\ \A f \in Fips, r \in Routers :
          <>[](fipAt[f] = r /\ body[r] = "gateway") /\ []~unanswered /\ [](f \notin overruled)
              => <>[](status[f] = "ACTIVE")

\* The agent's loop keeps the promise of SyncLoop.
Loop == INSTANCE SyncLoop WITH work <- dirty, running <- (pc # "idle")
ImplementsSyncLoop == Loop!Spec

-----------------------------------------------------------------------------
(* What the repository says and the code does not do (see README.md).       *)

\* l3_agent/agent.py:166, "the server marks any fip left out of a router's report DOWN,
\* so a router whose last fip went away reports an empty map once": when the agent
\* rests, the floating ips that left its routers are DOWN.
LeftOutGoesDown == Settled => \A f \in LeftOut : status[f] = "DOWN"
=============================================================================
