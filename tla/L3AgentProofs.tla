---------------------------- MODULE L3AgentProofs ----------------------------
(***************************************************************************)
(* Theorems of the l3 agent, for any routers, floating ips and bounds.     *)
(***************************************************************************)
EXTENDS L3Agent, TLAPS

-----------------------------------------------------------------------------
(* Type correctness.                                                        *)

LEMMA FetchedType == TypeOK => Fetched \in Specs
  BY DEF TypeOK, Fetched, Supported, Specs, RouterSpec, Bodies

\* The statuses reported for a router, one for each floating ip.
LEMMA FipStatusesType ==
    ASSUME NEW spec \in {Unlisted} \cup RouterSpec
    PROVE  /\ FipStatuses(spec) \in Reports
           /\ \A x \in FipStatuses(spec) :
                 /\ x[1] \in spec.fips /\ x[2] \in Statuses
                 /\ spec # Unlisted
                 /\ x[2] = "ACTIVE" => spec.gateway
  BY DEF FipStatuses, StatusOf, RouterSpec, Reports, Statuses

\* What the server makes of a report.
LEMMA HeardTypes ==
    ASSUME NEW r \in Routers, NEW statuses \in Reports, ServerHears(r, statuses),
           status \in [Fips -> Statuses],
           namedBy \in [Fips -> Routers \cup {Nowhere}], forgot \subseteq Routers,
           overruled \subseteq Fips
    PROVE  /\ status' \in [Fips -> Statuses]
           /\ namedBy' \in [Fips -> Routers \cup {Nowhere}]
           /\ forgot' \subseteq Routers /\ overruled' \subseteq Fips
<1>1. \A f \in Named(statuses) : (CHOOSE x \in statuses : x[1] = f)[2] \in Statuses
  BY DEF Reports, Named
<1>2. status' \in [Fips -> Statuses]
  BY <1>1 DEF ServerHears, Statuses
<1>3. namedBy' \in [Fips -> Routers \cup {Nowhere}]
  BY DEF ServerHears
<1>4. QED
  BY <1>2, <1>3 DEF ServerHears, SetDown

\* What the typing says of the floating ips at the server.
FipTypeOK ==
    /\ fipAt \in [Fips -> Routers \cup {Nowhere}]
    /\ lastAt \in [Fips -> Routers \cup {Nowhere}]
    /\ \A f \in Fips : fipAt[f] \in {Nowhere, lastAt[f]}
    /\ status \in [Fips -> Statuses]
    /\ \A f \in Fips : lastAt[f] = Nowhere => status[f] = "DOWN"

\* A pass reports only floating ips that have been on a router.
Known ==
    \A r \in Routers : desired[r] # Unlisted => \A f \in desired[r].fips : lastAt[f] # Nowhere

IInv == TypeOK /\ Known

LEMMA InitIInv == Init => IInv
<1> SUFFICES ASSUME Init PROVE IInv
  OBVIOUS
<1>1. body \in [Routers -> {Unlisted} \cup Bodies]
  BY DEF Init
<1>2. reported \in [Routers -> Reports] /\ desired \in Specs /\ host \in Specs
  BY DEF Init, NoReports, NoSpecs, Specs, Reports
<1>3. FipTypeOK
  BY DEF Init, FipTypeOK, Statuses
<1>4. Known
  BY DEF Init, NoSpecs, Known
<1>5. QED
  BY <1>1, <1>2, <1>3, <1>4 DEF Init, IInv, TypeOK, FipTypeOK

LEMMA CountTypes ==
    IInv /\ (Fault \/ UNCHANGED budget) => serverSteps' \in Nat /\ faults' \in Nat
  BY DEF IInv, TypeOK, Fault, budget

LEMMA EndPassTypes ==
    ASSUME IInv, NEW failed \in BOOLEAN, EndPass(failed)
    PROVE  /\ dirty' \in BOOLEAN /\ pc' = "idle" /\ desired' \in Specs /\ todo' = {}
           /\ Known'
  BY DEF IInv, TypeOK, EndPass, DirtyAfterPass, NoSpecs, Specs, Known

\* A report leaves the floating ips that were never on a router alone.
LEMMA HeardKeepsDown ==
    ASSUME IInv, NEW r \in Routers, desired[r] \in {Unlisted} \cup RouterSpec,
           ServerHears(r, FipStatuses(desired[r])),
           NEW f \in Fips, lastAt[f] = Nowhere
    PROVE  status'[f] = "DOWN"
<1>1. f \notin Named(FipStatuses(desired[r]))
  BY FipStatusesType DEF IInv, Known, Named
<1>2. status[f] = "DOWN"
  BY DEF IInv, TypeOK
<1>3. QED
  BY <1>1, <1>2 DEF ServerHears

LEMMA ReportTypes ==
    ASSUME IInv, NEW r \in Routers, ReportStatuses(r)
    PROVE  IInv'
<1> USE DEF IInv
<1>1. r \in todo /\ pc = "report" /\ desired[r] \in {Unlisted} \cup RouterSpec
  BY DEF ReportStatuses, TypeOK, Specs
<1>2. /\ status' \in [Fips -> Statuses]
      /\ namedBy' \in [Fips -> Routers \cup {Nowhere}] /\ forgot' \subseteq Routers
      /\ overruled' \subseteq Fips
      /\ \A f \in Fips : lastAt[f] = Nowhere => status'[f] = "DOWN"
  <2>1. CASE ServerHears(r, FipStatuses(desired[r]))
    BY <1>1, <2>1, FipStatusesType, HeardTypes, HeardKeepsDown DEF TypeOK
  <2>2. CASE UNCHANGED <<status, namedBy, forgot, overruled>>
    BY <2>2 DEF TypeOK
  <2>3. QED
    BY <2>1, <2>2 DEF ReportStatuses
<1>3. /\ dirty' \in BOOLEAN /\ unanswered' \in BOOLEAN /\ desired' \in Specs
      /\ todo' \subseteq Routers /\ Known' /\ pc' \in {"idle", "report"}
      /\ pc' = "report" => desired' = desired
  <2>1. CASE EndPass(TRUE) /\ unanswered' = TRUE
    BY <2>1, EndPassTypes
  <2>2. CASE todo' = todo \ {r} /\ UNCHANGED <<dirty, pc, desired, unanswered>>
    <3>1. UNCHANGED lastAt
      BY DEF ReportStatuses, asked
    <3>2. QED
      BY <1>1, <2>2, <3>1 DEF TypeOK, Known
  <2>3. QED
    BY <2>1, <2>2 DEF ReportStatuses
<1>4. UNCHANGED <<reported, host, body, fipAt, lastAt, cast, stale>>
  BY DEF ReportStatuses, asked
<1>5. serverSteps' \in Nat /\ faults' \in Nat
  <2>1. Fault \/ UNCHANGED budget
    BY DEF ReportStatuses
  <2>2. QED
    BY <2>1, CountTypes
<1>6. QED
  BY <1>1, <1>2, <1>3, <1>4, <1>5 DEF TypeOK

LEMMA NextIInv == IInv /\ [Next]_vars => IInv'
<1> SUFFICES ASSUME IInv, [Next]_vars PROVE IInv'
  OBVIOUS
<1> USE DEF IInv
<1>1. CASE StartPass
  BY <1>1 DEF StartPass, TypeOK, Known, asked, history, budget
<1>2. CASE GetRouters
  <2>1. serverSteps' \in Nat /\ faults' \in Nat
    <3>1. Fault \/ UNCHANGED budget
      BY <1>2 DEF GetRouters
    <3>2. QED
      BY <3>1, CountTypes
  <2>2. CASE EndPass(TRUE) /\ UNCHANGED stale
    BY <1>2, <2>1, <2>2, EndPassTypes DEF GetRouters, TypeOK, asked
  <2>3. CASE pc' = "reconcile" /\ desired' = Fetched /\ stale' = FALSE /\ UNCHANGED <<dirty, todo>>
    <3>1. Known'
      BY <1>2, <2>3, NowhereAssumption DEF GetRouters, Known, Fetched, TypeOK, asked
    <3>2. QED
      BY <1>2, <2>1, <2>3, <3>1, FetchedType DEF GetRouters, TypeOK, asked
  <2>4. QED
    BY <1>2, <2>2, <2>3 DEF GetRouters
<1>3. CASE Reconcile
  <2>1. serverSteps' \in Nat /\ faults' \in Nat
    <3>1. Fault \/ UNCHANGED budget
      BY <1>3 DEF Reconcile
    <3>2. QED
      BY <3>1, CountTypes
  <2>2. CASE host' \in Halfway /\ EndPass(TRUE)
    <3>1. host' \in Specs
      BY <2>2 DEF Halfway, TypeOK, Specs
    <3>2. QED
      BY <1>3, <2>1, <2>2, <3>1, EndPassTypes DEF Reconcile, TypeOK, asked, history
  <2>3. CASE /\ host' = desired /\ pc' = "report" /\ UNCHANGED <<dirty, desired>>
             /\ todo' = {r \in Routers : desired[r] # Unlisted}
    BY <1>3, <2>1, <2>3 DEF Reconcile, TypeOK, Known, asked, history
  <2>4. QED
    BY <1>3, <2>2, <2>3 DEF Reconcile
<1>4. CASE \E r \in Routers : ReportStatuses(r)
  BY <1>4, ReportTypes
<1>5. CASE ReportsDone
  <2>1. reported' \in [Routers -> Reports]
    BY <1>5, FipStatusesType DEF ReportsDone, TypeOK, Specs
  <2>2. QED
    BY <1>5, <2>1, EndPassTypes DEF ReportsDone, TypeOK, asked, budget
<1>6. CASE MarkDirty \/ CastLost
  <2>1. serverSteps' \in Nat /\ faults' \in Nat
    <3>1. Fault \/ UNCHANGED budget
      BY <1>6 DEF MarkDirty, CastLost
    <3>2. QED
      BY <3>1, CountTypes
  <2>2. dirty' \in BOOLEAN /\ cast' \in BOOLEAN
    BY <1>6, Zenon DEF MarkDirty, CastLost, TypeOK
  <2>3. UNCHANGED <<reported, locals, host, body, fipAt, lastAt, status, history>>
    BY <1>6 DEF MarkDirty, CastLost
  <2>4. QED
    BY <2>1, <2>2, <2>3 DEF TypeOK, Known, locals, history
<1>7. CASE Server
  <2>1. CASE \E r \in Routers : \E b \in BodiesOf[r] : RouterChanges(r, b)
    <3>1. PICK r \in Routers : \E b \in BodiesOf[r] : RouterChanges(r, b)
      BY <2>1
    <3>2. PICK b \in {Unlisted} \cup Bodies : RouterChanges(r, b)
      BY <3>1, BodiesAssumption
    <3>3. body' \in [Routers -> {Unlisted} \cup Bodies]
      BY <3>2 DEF RouterChanges, TypeOK
    <3>4. QED
      BY <3>2, <3>3 DEF RouterChanges, Changes, locals, TypeOK, Known
  <2>2. CASE \E f \in Fips : \E r \in PlacesOf[f] : FipMoves(f, r)
    <3>1. PICK f \in Fips, r \in Routers \cup {Nowhere} : FipMoves(f, r)
      BY <2>2, PlacesAssumption
    <3>2. FipTypeOK /\ UNCHANGED status
      BY <3>1 DEF FipMoves, Changes, TypeOK, FipTypeOK
    <3>3. FipTypeOK' /\ \A g \in Fips : lastAt[g] # Nowhere => lastAt'[g] # Nowhere
      BY <3>1, <3>2 DEF FipMoves, FipTypeOK
    <3>4. desired \in Specs
      BY DEF TypeOK
    <3>5. Known'
      BY <3>1, <3>3, <3>4 DEF FipMoves, Changes, locals, Known, Specs, RouterSpec
    <3>6. QED
      BY <3>1, <3>3, <3>5 DEF FipMoves, Changes, locals, TypeOK, FipTypeOK
  <2>3. QED
    BY <1>7, <2>1, <2>2 DEF Server
<1>8. CASE Restart
  BY <1>8 DEF Restart, Fault, NoSpecs, NoReports, Specs, Reports, TypeOK, Known, asked
<1>9. CASE UNCHANGED vars
  BY <1>9 DEF vars, locals, asked, history, budget, TypeOK, Known
<1>10. QED
  BY <1>1, <1>2, <1>3, <1>4, <1>5, <1>6, <1>7, <1>8, <1>9 DEF Next, Pass

\* Every variable keeps its type, reports are made only about the routers the host was
\* just reconciled to, and a floating ip that never was on a router is DOWN
\* (agent.py: _sync).
THEOREM TypeCorrect == Spec => []TypeOK
  BY InitIInv, NextIInv, PTL DEF Spec, IInv

-----------------------------------------------------------------------------
(* What is reported.                                                        *)

\* A floating ip is reported ACTIVE only while a router jail with a gateway carries it,
\* whichever calls failed before (agent.py: _sync, _fip_statuses).
THEOREM ActiveOnHost == Spec => ActiveIsCarried
<1>1. TypeOK /\ [Next]_vars =>
        [\A f \in Fips :
            status[f] # "ACTIVE" /\ status'[f] = "ACTIVE" =>
                \E r \in Routers : host[r] # Unlisted /\ host[r].gateway /\ f \in host[r].fips]_vars
  <2> SUFFICES ASSUME TypeOK, Next, NEW f \in Fips,
                      status[f] # "ACTIVE", status'[f] = "ACTIVE"
               PROVE  \E r \in Routers : host[r] # Unlisted /\ host[r].gateway /\ f \in host[r].fips
    OBVIOUS
  <2>1. CASE \E r \in Routers : ReportStatuses(r)
    <3>1. PICK r \in Routers : ReportStatuses(r)
      BY <2>1
    <3>2. desired[r] \in {Unlisted} \cup RouterSpec /\ host = desired
      BY <3>1 DEF ReportStatuses, TypeOK, Specs
    <3>3. ServerHears(r, FipStatuses(desired[r]))
      BY <3>1 DEF ReportStatuses
    <3>4. PICK x \in FipStatuses(desired[r]) : x[1] = f /\ x[2] = "ACTIVE"
      <4>1. f \in Named(FipStatuses(desired[r]))
        BY <3>3 DEF ServerHears, SetDown
      <4>2. status'[f] = (CHOOSE x \in FipStatuses(desired[r]) : x[1] = f)[2]
        BY <3>3, <4>1 DEF ServerHears
      <4>3. QED
        BY <4>1, <4>2 DEF Named
    <3>5. QED
      BY <3>2, <3>4, FipStatusesType
  <2>2. CASE ~(\E r \in Routers : ReportStatuses(r))
    <3>1. UNCHANGED status
      BY <2>2 DEF Next, Pass, StartPass, GetRouters, Reconcile, ReportsDone, MarkDirty,
                  CastLost, Server, RouterChanges, FipMoves, Changes, Restart
    <3>2. QED
      BY <3>1
  <2>3. QED
    BY <2>1, <2>2
<1>2. QED
  BY <1>1, TypeCorrect, PTL DEF Spec, ActiveIsCarried

-----------------------------------------------------------------------------
(* The agent at rest.                                                       *)

LEMMA FipStatusesValue ==
    ASSUME NEW spec \in {Unlisted} \cup RouterSpec
    PROVE  /\ spec = Unlisted => FipStatuses(spec) = {} /\ Named(FipStatuses(spec)) = {}
           /\ spec # Unlisted =>
                 /\ Named(FipStatuses(spec)) = spec.fips
                 /\ \A x \in FipStatuses(spec) : x[2] = StatusOf(spec)
                 /\ \A f \in spec.fips : <<f, StatusOf(spec)>> \in FipStatuses(spec)
<1>1. CASE spec = Unlisted
  BY <1>1 DEF FipStatuses, Named
<1>2. CASE spec # Unlisted
  <2>1. \A x : x \in FipStatuses(spec) <=> \E f \in spec.fips : x = <<f, StatusOf(spec)>>
    BY <1>2 DEF FipStatuses
  <2>2. Named(FipStatuses(spec)) = spec.fips
    <3>1. ASSUME NEW f \in spec.fips PROVE f \in Named(FipStatuses(spec))
      <4>1. <<f, StatusOf(spec)>> \in FipStatuses(spec) /\ <<f, StatusOf(spec)>>[1] = f
        BY <2>1
      <4>2. QED
        BY <4>1 DEF Named
    <3>2. ASSUME NEW f \in Named(FipStatuses(spec)) PROVE f \in spec.fips
      BY <2>1 DEF Named
    <3>3. QED
      BY <3>1, <3>2
  <2>3. QED
    BY <1>2, <2>1, <2>2
<1>3. QED
  BY <1>1, <1>2

\* What the running pass has to say of a router.
Means(r) == FipStatuses(desired[r])

\* A reported status is still the server's, unless it was overruled.
Stands(x) == x[1] \in overruled \/ status[x[1]] = x[2]

\* What the agent remembers of its reports stands; in the middle of the reports this is
\* so of those made and of those not to be made.
MemoryInv ==
    ~unanswered =>
        /\ pc # "report" => \A r \in Routers : \A x \in reported[r] : Stands(x)
        /\ pc = "report" =>
              \A r \in Routers :
                  (r \in todo => reported[r] = Means(r)) => \A x \in Means(r) : Stands(x)

\* What the memory of a router is, or will be with the end of the reports.
Remembers(r) ==
    IF pc = "report" /\ desired[r] # Unlisted /\ r \notin todo THEN Means(r) ELSE reported[r]

\* A floating ip that a router's report named last is DOWN or in the memory of it, so
\* that the next report leaves it out.
LeaveInv ==
    ~unanswered =>
        \A f \in Fips, r \in Routers \ forgot :
            namedBy[f] = r => status[f] = "DOWN" \/ f \in Named(Remembers(r))

\* A pass has each floating ip on one router.
PassInv ==
    /\ \A q, r \in Routers :
          desired[q] # Unlisted /\ desired[r] # Unlisted /\ q # r =>
              desired[q].fips \cap desired[r].fips = {}
    /\ pc = "report" => \A r \in todo : desired[r] # Unlisted
    /\ pc \in {"reconcile", "report"} /\ ~stale => desired = Fetched

RestInv ==
    Settled => host = Fetched /\ reported = [r \in Routers |-> FipStatuses(Fetched[r])]

Inv == MemoryInv /\ LeaveInv /\ PassInv /\ RestInv

LEMMA InitInv == Init => Inv
  BY NowhereAssumption DEF Init, Inv, MemoryInv, LeaveInv, PassInv, RestInv, Settled, NoReports,
                           NoSpecs

LEMMA FetchedOnce ==
    \A q, r \in Routers :
        Fetched[q] # Unlisted /\ Fetched[r] # Unlisted /\ q # r =>
            Fetched[q].fips \cap Fetched[r].fips = {}
  BY DEF Fetched

\* A pass that fails.
LEMMA RetryKeeps ==
    ASSUME IInv, Inv, EndPass(TRUE),
           unanswered' = TRUE \/ (pc # "report" /\ UNCHANGED <<reported, status, namedBy, forgot,
                                                              unanswered, overruled>>)
    PROVE  Inv'
<1>1. pc' = "idle" /\ desired' = NoSpecs /\ dirty' = TRUE
  BY DEF EndPass, DirtyAfterPass
<1>2. PassInv' /\ RestInv'
  BY <1>1 DEF PassInv, RestInv, Settled, NoSpecs
<1>3. CASE unanswered' = TRUE
  BY <1>2, <1>3 DEF Inv, MemoryInv, LeaveInv
<1>4. CASE pc # "report" /\ UNCHANGED <<reported, status, namedBy, forgot, unanswered, overruled>>
  BY <1>1, <1>2, <1>4 DEF Inv, MemoryInv, LeaveInv, Stands, Remembers
<1>5. QED
  BY <1>3, <1>4

\* Steps that change neither the memory, nor a status, nor the pass.
LEMMA OthersKeep ==
    ASSUME Inv, UNCHANGED <<reported, desired, todo, host, status, namedBy, forgot, unanswered,
                            overruled>>,
           \/ pc' = pc
           \/ pc = "idle" /\ pc' = "fetch",
           stale' = TRUE \/ UNCHANGED <<stale, body, fipAt>>,
           dirty' = TRUE \/ UNCHANGED <<dirty, pc>> \/ pc' = "fetch"
    PROVE  Inv'
<1>1. MemoryInv' /\ LeaveInv'
  BY DEF Inv, MemoryInv, LeaveInv, Stands, Remembers, Means
<1>2. stale' = TRUE \/ Fetched' = Fetched
  BY DEF Fetched
<1>3. PassInv' /\ RestInv'
  BY <1>2 DEF Inv, PassInv, RestInv, Settled
<1>4. QED
  BY <1>1, <1>3 DEF Inv

\* An answered report of router r.
LEMMA HeardKeeps ==
    ASSUME IInv, Inv, ~unanswered, NEW r \in Routers, r \in todo, pc = "report",
           desired[r] # Unlisted,
           ServerHears(r, Means(r)), todo' = todo \ {r},
           UNCHANGED <<dirty, pc, desired, unanswered, reported, host, asked, stale>>
    PROVE  Inv'
<1>1. \A q \in Routers : desired[q] \in {Unlisted} \cup RouterSpec /\ desired'[q] = desired[q]
  BY DEF IInv, TypeOK, Specs
<1>2. /\ Named(Means(r)) = desired[r].fips
      /\ \A x \in Means(r) : x[1] \in desired[r].fips /\ x[2] = StatusOf(desired[r])
  BY <1>1, FipStatusesValue, FipStatusesType DEF Means
<1>3. \A q \in Routers : Means(q)' = Means(q)
  BY <1>1 DEF Means
<1>4. ASSUME NEW f \in desired[r].fips, f \in Fips
      PROVE  status'[f] = StatusOf(desired[r]) /\ f \notin overruled' /\ namedBy'[f] = r
  <2>1. (CHOOSE x \in Means(r) : x[1] = f) \in Means(r)
    BY <1>2, <1>4 DEF Named
  <2>2. (CHOOSE x \in Means(r) : x[1] = f)[2] = StatusOf(desired[r])
    BY <1>2, <2>1
  <2>3. QED
    BY <1>2, <1>4, <2>2 DEF ServerHears, SetDown
<1>5. ASSUME NEW f \in Fips, f \notin desired[r].fips
      PROVE  /\ f \in SetDown(r, Means(r)) =>
                   status'[f] = "DOWN" /\ (f \in InPass => f \in overruled')
             /\ f \notin SetDown(r, Means(r)) =>
                   /\ status'[f] = status[f] /\ (f \in overruled' <=> f \in overruled)
                   /\ namedBy'[f] = r => r = Nowhere
             /\ namedBy'[f] \in {namedBy[f], Nowhere}
  BY <1>2, <1>5 DEF ServerHears
<1>6. \A q \in Routers : desired[q] # Unlisted => desired[q].fips \subseteq InPass /\ desired[q].fips \subseteq Fips
  BY <1>1 DEF InPass, RouterSpec
<1>7. MemoryInv'
  <2>1. SUFFICES ASSUME NEW q \in Routers, q \in todo' => reported[q] = Means(q),
                        NEW x \in Means(q)
                 PROVE  Stands(x)'
    BY <1>3 DEF MemoryInv
  <2>2. desired[q] # Unlisted /\ x[1] \in desired[q].fips /\ x[1] \in Fips
    BY <1>1, <1>6, FipStatusesType DEF Means
  <2>3. CASE q = r
    BY <1>2, <1>4, <2>2, <2>3 DEF Stands
  <2>4. CASE q # r
    <3>1. x[1] \notin desired[r].fips
      BY <2>2, <2>4 DEF Inv, PassInv
    <3>2. Stands(x)
      BY <2>1, <2>4 DEF Inv, MemoryInv
    <3>3. x[1] \in InPass
      BY <1>6, <2>2
    <3>4. QED
      BY <1>5, <2>2, <3>1, <3>2, <3>3 DEF Stands
  <2>5. QED
    BY <2>3, <2>4
<1>8. LeaveInv'
  <2>1. SUFFICES ASSUME NEW f \in Fips, NEW q \in Routers \ forgot', namedBy'[f] = q,
                        status'[f] # "DOWN"
                 PROVE  f \in Named(Remembers(q))'
    BY DEF LeaveInv
  <2>2. CASE q = r
    <3>1. f \in desired[r].fips
      BY <1>5, <2>1, <2>2, NowhereAssumption
    <3>2. Remembers(r)' = Means(r)
      BY <1>1, <1>3 DEF Remembers
    <3>3. QED
      BY <1>2, <2>2, <3>1, <3>2 DEF Named
  <2>3. CASE q # r
    <3>1. f \notin desired[r].fips
      BY <1>4, <2>1, <2>3
    <3>2. namedBy[f] = q /\ status[f] # "DOWN" /\ q \notin forgot
      BY <1>5, <2>1, <2>3, <3>1, NowhereAssumption DEF ServerHears
    <3>3. f \in Named(Remembers(q))
      BY <3>2 DEF Inv, LeaveInv
    <3>4. Remembers(q)' = Remembers(q)
      BY <1>1, <1>3, <2>3 DEF Remembers
    <3>5. QED
      BY <3>3, <3>4 DEF Named
  <2>4. QED
    BY <2>2, <2>3
<1>9. PassInv' /\ RestInv'
  BY DEF Inv, PassInv, RestInv, Settled, asked, Fetched
<1>10. QED
  BY <1>7, <1>8, <1>9 DEF Inv

LEMMA ReportKeeps ==
    ASSUME IInv, Inv, NEW r \in Routers, ReportStatuses(r)
    PROVE  Inv'
<1>1. r \in todo /\ pc = "report" /\ desired[r] # Unlisted
  BY DEF ReportStatuses, Inv, PassInv
<1>2. CASE EndPass(TRUE) /\ unanswered' = TRUE
  BY <1>2, RetryKeeps
<1>3. ASSUME todo' = todo \ {r},
             UNCHANGED <<dirty, pc, desired, unanswered, reported, host, asked, stale>>
      PROVE  PassInv' /\ RestInv'
  BY <1>3 DEF Inv, PassInv, RestInv, Settled, asked, Fetched
<1>4. CASE ServerHears(r, Means(r)) /\ todo' = todo \ {r} /\ UNCHANGED <<dirty, pc, desired, unanswered>>
  <2>1. UNCHANGED <<reported, host, asked, stale>>
    BY DEF ReportStatuses
  <2>2. CASE unanswered
    BY <1>3, <1>4, <2>1, <2>2 DEF Inv, MemoryInv, LeaveInv
  <2>3. CASE ~unanswered
    BY <1>1, <1>4, <2>1, <2>3, HeardKeeps
  <2>4. QED
    BY <2>2, <2>3
<1>5. CASE /\ ~News(r, Means(r)) /\ todo' = todo \ {r}
           /\ UNCHANGED <<dirty, pc, desired, status, namedBy, forgot, unanswered, overruled>>
  <2>1. UNCHANGED <<reported, host, asked, stale>>
    BY DEF ReportStatuses
  <2>2. \A q \in Routers : Means(q)' = Means(q)
    BY <1>5 DEF Means
  <2>3. reported[r] = Means(r)
    BY <1>5 DEF News
  <2>4. MemoryInv'
    BY <1>1, <1>5, <2>1, <2>2, <2>3 DEF Inv, MemoryInv, Stands
  <2>5. \A q \in Routers : Remembers(q)' = Remembers(q)
    BY <1>1, <1>5, <2>1, <2>2, <2>3 DEF Remembers
  <2>6. LeaveInv'
    BY <1>5, <2>5 DEF Inv, LeaveInv, Named
  <2>7. QED
    BY <1>3, <1>5, <2>1, <2>4, <2>6 DEF Inv
<1>6. QED
  BY <1>2, <1>4, <1>5 DEF ReportStatuses, Means

LEMMA DoneKeeps ==
    ASSUME IInv, Inv, ReportsDone
    PROVE  Inv'
<1>1. /\ pc = "report" /\ todo = {} /\ pc' = "idle" /\ desired' = NoSpecs /\ dirty' = dirty
      /\ reported' = [r \in Routers |-> Means(r)] /\ overruled' = overruled \cap InPass
      /\ forgot' = forgot \cup {r \in Routers : desired[r] = Unlisted}
      /\ UNCHANGED <<host, body, fipAt, status, stale, namedBy, unanswered>>
  <2>1. dirty' = dirty
    BY DEF ReportsDone, EndPass, DirtyAfterPass, IInv, TypeOK
  <2>2. reported' = [r \in Routers |-> Means(r)]
    BY DEF ReportsDone, Means
  <2>3. QED
    BY <2>1, <2>2 DEF ReportsDone, EndPass, asked
<1>2. \A r \in Routers : desired[r] \in {Unlisted} \cup RouterSpec
  BY DEF IInv, TypeOK, Specs
<1>3. MemoryInv'
  <2>1. SUFFICES ASSUME ~unanswered, NEW r \in Routers, NEW x \in Means(r)
                 PROVE  Stands(x)'
    BY <1>1 DEF MemoryInv
  <2>2. Stands(x)
    BY <1>1, <2>1 DEF Inv, MemoryInv
  <2>3. x[1] \in InPass
    BY <1>2, FipStatusesType DEF Means, InPass
  <2>4. QED
    BY <1>1, <2>2, <2>3 DEF Stands
<1>4. LeaveInv'
  <2>1. SUFFICES ASSUME ~unanswered, NEW f \in Fips, NEW r \in Routers \ forgot', namedBy[f] = r,
                        status[f] # "DOWN"
                 PROVE  f \in Named(Remembers(r))'
    BY <1>1 DEF LeaveInv
  <2>2. f \in Named(Remembers(r)) /\ Remembers(r) = Means(r)
    BY <1>1, <2>1 DEF Inv, LeaveInv, Remembers
  <2>3. Remembers(r)' = Means(r)
    BY <1>1 DEF Remembers
  <2>4. QED
    BY <2>2, <2>3 DEF Named
<1>5. PassInv'
  BY <1>1 DEF PassInv, NoSpecs
<1>6. RestInv'
  <2>1. SUFFICES ASSUME ~stale
                 PROVE  host' = Fetched' /\ reported' = [r \in Routers |-> FipStatuses(Fetched'[r])]
    BY <1>1 DEF RestInv, Settled
  <2>2. desired = Fetched /\ host' = desired /\ Fetched' = Fetched
    BY <1>1, <2>1 DEF Inv, PassInv, IInv, TypeOK, Fetched
  <2>3. QED
    BY <1>1, <2>2 DEF Means
<1>7. QED
  BY <1>3, <1>4, <1>5, <1>6 DEF Inv

LEMMA NextInv == IInv /\ Inv /\ [Next]_vars => Inv'
<1> SUFFICES ASSUME IInv, Inv, [Next]_vars PROVE Inv'
  OBVIOUS
<1>1. CASE StartPass
  BY <1>1, OthersKeep DEF StartPass, asked, history
<1>2. CASE GetRouters
  <2>1. CASE EndPass(TRUE)
    BY <1>2, <2>1, RetryKeeps DEF GetRouters
  <2>2. CASE ~EndPass(TRUE)
    <3>1. /\ pc # "report" /\ pc' = "reconcile" /\ desired' = Fetched /\ Fetched' = Fetched
          /\ UNCHANGED <<reported, status, namedBy, forgot, unanswered, overruled>>
      BY <1>2, <2>2 DEF GetRouters, asked, Fetched
    <3>2. MemoryInv' /\ LeaveInv'
      BY <3>1 DEF Inv, MemoryInv, LeaveInv, Stands, Remembers, Named
    <3>3. PassInv' /\ RestInv'
      BY <3>1, FetchedOnce DEF PassInv, RestInv, Settled
    <3>4. QED
      BY <3>2, <3>3 DEF Inv
  <2>3. QED
    BY <2>1, <2>2
<1>3. CASE Reconcile
  <2>1. CASE EndPass(TRUE)
    BY <1>3, <2>1, RetryKeeps DEF Reconcile, history
  <2>2. CASE ~EndPass(TRUE)
    <3>1. /\ pc = "reconcile" /\ pc' = "report" /\ todo' = {r \in Routers : desired[r] # Unlisted}
          /\ UNCHANGED <<desired, reported, status, namedBy, forgot, unanswered, overruled, stale,
                         body, fipAt>>
      BY <1>3, <2>2 DEF Reconcile, history, asked
    <3>2. \A r \in Routers : Means(r)' = Means(r) /\ (r \notin todo' => Means(r) = {})
      BY <3>1 DEF Means, FipStatuses
    <3>3. MemoryInv'
      BY <3>1, <3>2 DEF Inv, MemoryInv, Stands
    <3>4. LeaveInv'
      BY <3>1 DEF Inv, LeaveInv, Remembers, Named
    <3>5. PassInv' /\ RestInv'
      BY <3>1 DEF Inv, PassInv, RestInv, Settled, Fetched
    <3>6. QED
      BY <3>3, <3>4, <3>5 DEF Inv
  <2>3. QED
    BY <2>1, <2>2
<1>4. CASE \E r \in Routers : ReportStatuses(r)
  BY <1>4, ReportKeeps
<1>5. CASE ReportsDone
  BY <1>5, DoneKeeps
<1>6. CASE MarkDirty \/ CastLost
  BY <1>6, OthersKeep DEF MarkDirty, CastLost, locals, history
<1>7. CASE Server
  <2>1. stale' = TRUE /\ UNCHANGED <<dirty, reported, locals, host, status, namedBy, forgot,
                                     unanswered, overruled>>
    BY <1>7 DEF Server, RouterChanges, FipMoves, Changes
  <2>2. QED
    BY <2>1, OthersKeep DEF locals
<1>8. CASE Restart
  BY <1>8 DEF Restart, NoReports, NoSpecs, Inv, MemoryInv, LeaveInv, PassInv, RestInv, Settled
<1>9. CASE UNCHANGED vars
  BY <1>9, OthersKeep DEF vars, locals, asked, history
<1>10. QED
  BY <1>1, <1>2, <1>3, <1>4, <1>5, <1>6, <1>7, <1>8, <1>9 DEF Next, Pass

\* When the agent rests the host carries the routers as fetched, and as long as no report
\* has failed a comparison with the agent's memory is enough to keep the server's floating
\* ip statuses right, but for those overruled by another router's report
\* (agent.py: _sync, 168-175).
THEOREM RestReports == Spec => []SettledStatuses
<1>1. TypeOK /\ Inv => SettledStatuses
  <2> SUFFICES ASSUME TypeOK, Inv, Settled
               PROVE  /\ OnHost
                      /\ ~unanswered =>
                            /\ \A f \in Fips \ overruled : fipAt[f] \in Carried =>
                                  status[f] = IF body[fipAt[f]] = "gateway" THEN "ACTIVE" ELSE "ERROR"
                            /\ \A f \in LeftOut : lastAt[f] \notin forgot => status[f] = "DOWN"
    BY DEF SettledStatuses
  <2>1. host = Fetched /\ reported = [r \in Routers |-> FipStatuses(Fetched[r])]
    BY DEF Inv, RestInv
  <2>2. /\ "gateway" # Unlisted /\ "internal" # Unlisted
        /\ \A r \in Routers : body[r] \in {Unlisted, "gateway", "internal", "distributed"}
    BY UnlistedAssumption DEF TypeOK, Bodies
  <2>3. OnHost
    BY <2>1, <2>2 DEF OnHost, Fetched, Supported
  <2>4. \A r \in Routers : FipStatuses(Fetched[r]) \in Reports /\ Fetched[r] \in {Unlisted} \cup RouterSpec
    BY FetchedType, FipStatusesType DEF Specs
  <2>5. pc # "report"
    BY DEF Settled
  <2>6. ASSUME ~unanswered, NEW f \in Fips \ overruled, fipAt[f] \in Carried
        PROVE  status[f] = IF body[fipAt[f]] = "gateway" THEN "ACTIVE" ELSE "ERROR"
    <3> DEFINE r == fipAt[f]
               spec == Fetched[r]
    <3>1. r \in Routers /\ spec # Unlisted /\ f \in spec.fips /\ spec.gateway = (body[r] = "gateway")
      <4>1. r \in Routers /\ body[r] \in {"gateway", "internal"} /\ Supported(body[r])
        BY <2>2, <2>6 DEF Carried, Supported
      <4>2. spec = [gateway |-> body[r] = "gateway", fips |-> {g \in Fips : fipAt[g] = r}]
        BY <4>1 DEF Fetched
      <4>3. f \in spec.fips /\ spec.gateway = (body[r] = "gateway")
        BY <4>2
      <4>4. spec # Unlisted
        <5>1. (body[r] = "gateway") \in BOOLEAN
          BY Zenon
        <5>2. spec \in RouterSpec
          BY <4>2, <5>1 DEF RouterSpec
        <5>3. QED
          BY <5>2, UnlistedAssumption
      <4>5. QED
        BY <4>1, <4>3, <4>4
    <3>2. <<f, StatusOf(spec)>> \in reported[r]
      BY <2>1, <2>4, <3>1, FipStatusesValue
    <3>3. Stands(<<f, StatusOf(spec)>>)
      BY <2>5, <2>6, <3>1, <3>2 DEF Inv, MemoryInv
    <3>4. status[f] = StatusOf(spec)
      BY <2>6, <3>3 DEF Stands
    <3>5. QED
      BY <3>1, <3>4 DEF StatusOf
  <2>7. ASSUME ~unanswered, NEW f \in LeftOut, lastAt[f] \notin forgot
        PROVE  status[f] = "DOWN"
    <3> DEFINE r == lastAt[f]
    <3>1. f \in Fips /\ fipAt[f] = Nowhere /\ r \in Routers /\ namedBy[f] = r
      BY DEF LeftOut, Carried
    <3>2. status[f] = "DOWN" \/ f \in Named(reported[r])
      BY <2>5, <2>7, <3>1 DEF Inv, LeaveInv, Remembers
    <3>3. f \notin Named(FipStatuses(Fetched[r]))
      <4>1. Fetched[r] # Unlisted => f \notin Fetched[r].fips
        BY <3>1, NowhereAssumption DEF Fetched
      <4>2. QED
        BY <2>4, <3>1, <4>1, FipStatusesValue
    <3>4. QED
      BY <2>1, <3>1, <3>2, <3>3
  <2>8. QED
    BY <2>3, <2>6, <2>7
<1>2. QED
  BY <1>1, InitIInv, NextIInv, InitInv, NextInv, PTL DEF Spec, IInv

-----------------------------------------------------------------------------
(* The loop.                                                                *)

\* Every step of the agent is a step of SyncLoop or leaves the loop alone: a request
\* made while a pass runs outlives it, and a pass that fails makes one
\* (agent.py: sync_if_needed, _sync).  That passes end and begin is checked by TLC.
THEOREM LoopSafety == Spec => Loop!Init /\ [][Loop!Next]_(Loop!vars)
<1>1. Init => Loop!Init
  BY DEF Init, Loop!Init
<1>2. TypeOK /\ [Next]_vars => [Loop!Next]_(Loop!vars)
  <2> SUFFICES ASSUME TypeOK, [Next]_vars PROVE [Loop!Next]_(Loop!vars)
    OBVIOUS
  <2> USE DEF Loop!Next, Loop!vars
  <2>1. CASE StartPass
    BY <2>1 DEF StartPass, Loop!Begin
  <2>2. CASE pc # "idle" /\ EndPass(TRUE)
    BY <2>2 DEF EndPass, DirtyAfterPass, Loop!End
  <2>3. CASE GetRouters /\ ~EndPass(TRUE)
    BY <2>3 DEF GetRouters
  <2>4. CASE Reconcile /\ ~EndPass(TRUE)
    BY <2>4 DEF Reconcile
  <2>5. CASE (\E r \in Routers : ReportStatuses(r)) /\ ~EndPass(TRUE)
    BY <2>5 DEF ReportStatuses
  <2>6. CASE ReportsDone
    BY <2>6 DEF ReportsDone, EndPass, DirtyAfterPass, Loop!End
  <2>7. CASE MarkDirty
    BY <2>7 DEF MarkDirty, locals, Loop!Ask
  <2>8. CASE CastLost \/ Server
    BY <2>8 DEF CastLost, Server, RouterChanges, FipMoves, Changes, locals
  <2>9. CASE Restart
    BY <2>9 DEF Restart, Loop!Restart
  <2>10. CASE UNCHANGED vars
    BY <2>10 DEF vars, locals
  <2>11. GetRouters \/ Reconcile \/ (\E r \in Routers : ReportStatuses(r)) => pc # "idle"
    BY DEF GetRouters, Reconcile, ReportStatuses
  <2>12. QED
    BY <2>1, <2>2, <2>3, <2>4, <2>5, <2>6, <2>7, <2>8, <2>9, <2>10, <2>11 DEF Next, Pass
<1>3. QED
  BY <1>1, <1>2, TypeCorrect, PTL DEF Spec
=============================================================================
