---------------------------- MODULE AlertEngine ----------------------------
(***************************************************************************)
(* The alert engine of api/backend/alerting/engine.py: one asyncio task    *)
(* that, every EVAL_INTERVAL seconds or when woken, evaluates every        *)
(* enabled rule inside one database transaction, commits, and only then    *)
(* dispatches notifications.  It shares the alerts table with the REST     *)
(* handlers of api/backend/routers/alerts.py, which acknowledge and        *)
(* resolve alerts with a SELECT, a check and a later UPDATE.               *)
(*                                                                         *)
(* Time is kept as saturating timers ("how long ago"), which is all the    *)
(* code's comparisons read; one Tick stands for the unit in which the      *)
(* gates of a configuration are expressed.  A fingerprint is a pair of a   *)
(* rule and a device.  Rules are numbered in the order the engine          *)
(* evaluates them (ORDER BY name).                                         *)
(***************************************************************************)
EXTENDS Integers, FiniteSets

CONSTANTS
    NumRules,         \* the enabled rules are 1..NumRules, in name order
    DownRule,         \* the rule whose metric is device_down
    Devices,          \* monitored devices, all matched by every rule
    NumSlots,         \* bound: rows kept per fingerprint
    DurationGate,     \* rule -> duration_seconds, in ticks
    StableGate,       \* rule -> max(stable_for_seconds, _MIN_STABLE_FOR)
    RenotifyAfter,    \* rule -> renotify_seconds, 0 when off
    EscalateAfter,    \* rule -> escalation_seconds, 0 when off
    NotifyOnResolve,  \* rule -> notify_on_resolve
    ApiOps,           \* REST operations operators use in this instance
    MaxRequests,      \* bound: REST requests in flight together
    Changing,         \* bound: fingerprints whose condition changes
    MaintDevices,     \* devices that may be put in a maintenance window
    MaxFaults,        \* bound: restarts, failed rules and failed commits
    Crowded,          \* a cycle may touch more fingerprints than memory keeps (_TRIM_TO)
    History,          \* which history variables this instance records
    NoAlert,          \* a NULL alert id
    GoneAlert         \* the id of a resolved row the model no longer keeps

Rules == 1..NumRules
FPs == Rules \X Devices
AlertIds == FPs \X (1..NumSlots)
Never == -1           \* a NULL timestamp, or a timer that is not running

ASSUME ConstantsAssumption ==
    /\ NumRules \in Nat \ {0}
    /\ DownRule \in Rules
    /\ NumSlots \in Nat \ {0}
    /\ DurationGate \in [Rules -> Nat]
    /\ StableGate \in [Rules -> Nat \ {0}]
    /\ RenotifyAfter \in [Rules -> Nat]
    /\ EscalateAfter \in [Rules -> Nat]
    /\ NotifyOnResolve \in [Rules -> BOOLEAN]
    /\ ApiOps \subseteq {"acknowledge", "resolve"}
    /\ MaxRequests \in Nat
    /\ Changing \subseteq FPs
    /\ MaintDevices \subseteq Devices
    /\ MaxFaults \in Nat
    /\ Crowded \in BOOLEAN
    /\ History \subseteq {"observed", "told"}
    /\ NoAlert \notin AlertIds
    /\ GoneAlert \notin AlertIds \cup {NoAlert}

RuleOf(fp) == fp[1]
DeviceOf(fp) == fp[2]
FpOf(id) == id[1]
IdsOf == [fp \in FPs |-> {id \in AlertIds : FpOf(id) = fp}]
FPsOf == [r \in Rules |-> {fp \in FPs : RuleOf(fp) = r}]
IdsOfRule == [r \in Rules |-> {id \in AlertIds : RuleOf(FpOf(id)) = r}]

VARIABLES
    \* ---- the database, as committed ----
    alerts,       \* alert id -> row of table alerts
    lastRes,      \* fingerprint -> its row with the greatest resolved_at
    maint,        \* devices covered by an active maintenance window
    \* ---- the monitored network ----
    cond,         \* fingerprint -> is the alert condition true right now
    \* ---- AlertEngine's in-memory dictionaries ----
    breachSince,  \* _breach_since
    clearSince,   \* _clear_since
    lastClear,    \* is _last_clear set and no older than lastRes's resolved_at
    muted,        \* _suppress_until_clear
    \* ---- the cycle in progress ----
    turn,         \* Idle, the rule to evaluate, CommitTurn or DispatchTurn
    tx,           \* the session's view of the rows, as it last loaded them
    dirty,        \* rows the session has written and locked, not committed
    parents,      \* the SuppressionMap: device -> its device_down alert
    windows,      \* maintenance windows loaded at the start of the cycle
    pending,      \* notifications to dispatch after the commit
    \* ---- REST requests between their SELECT and their UPDATE ----
    reqs,
    faults,
    \* ---- history variables: read by properties only ----
    obs,          \* fingerprint -> what evaluations have observed of it
    told          \* alerts whose firing notification has left the engine

memory == <<breachSince, clearSince, lastClear, muted>>
cycle == <<turn, tx, dirty, parents, windows, pending>>
vars == <<alerts, lastRes, maint, cond, memory, cycle, reqs, faults, obs, told>>

-----------------------------------------------------------------------------
(* Rows and their types *)

Live == {"open", "acknowledged", "suppressed"}
Surfaced == {"open", "acknowledged"}
Absent == [status |-> "absent", acked |-> FALSE, byUser |-> FALSE,
           parent |-> NoAlert, notified |-> Never, escalated |-> FALSE, age |-> 0]

Row == [status    : Live \cup {"absent", "resolved"},
        acked     : BOOLEAN,       \* acknowledged_at is set
        byUser    : BOOLEAN,       \* resolved_by is set
        parent    : AlertIds \cup {NoAlert, GoneAlert},  \* suppressed_by_alert_id
        notified  : Nat \cup {Never},         \* since last_notified_at
        escalated : BOOLEAN,       \* severity is the escalation severity
        age       : Nat]           \* since triggered_at

Request == [op : {"acknowledge", "resolve"}, id : AlertIds]
Notification == AlertIds \X {"fired", "resolved"}

Idle == 0
CommitTurn == NumRules + 1
DispatchTurn == NumRules + 2

Observation == [seen : {"breach", "clear"}, age : Nat, cleared : BOOLEAN]

LiveIds(rows, fp) == {id \in IdsOf[fp] : rows[id].status \in Live}

\* A history variable moves to a new value in the instances that record it.
Record(name, old, var, new) == var = IF name \in History THEN new ELSE old

Larger(m, n) == IF m > n THEN m ELSE n
Older(t, cap) == IF t = Never \/ t >= cap THEN t ELSE t + 1

-----------------------------------------------------------------------------
Init ==
    /\ alerts = [id \in AlertIds |-> Absent]
    /\ lastRes = [fp \in FPs |-> NoAlert]
    /\ maint = {}
    /\ cond = [fp \in FPs |-> FALSE]
    /\ breachSince = [fp \in FPs |-> Never]
    /\ clearSince = [fp \in FPs |-> Never]
    /\ lastClear = [fp \in FPs |-> FALSE]
    /\ muted = {}
    /\ turn = Idle
    /\ tx = [id \in AlertIds |-> Absent]
    /\ dirty = {}
    /\ parents = [d \in Devices |-> NoAlert]
    /\ windows = {}
    /\ pending = {}
    /\ reqs = {}
    /\ faults = 0
    /\ obs = [fp \in FPs |-> [seen |-> "clear", age |-> 0, cleared |-> TRUE]]
    /\ told = {}

-----------------------------------------------------------------------------
(* The environment: the network, operators' maintenance windows, time.     *)
(* A cycle and a request are short against a tick, so these move between   *)
(* cycles only.                                                            *)

ConditionChanges(fp) ==
    /\ turn = Idle
    /\ fp \in Changing
    /\ cond' = [cond EXCEPT ![fp] = ~@]
    /\ UNCHANGED <<alerts, lastRes, maint, memory, cycle, reqs, faults, obs, told>>

\* A window opens or closes over a device.
MaintenanceChanges(d) ==
    /\ turn = Idle
    /\ d \in MaintDevices
    /\ maint' = {e \in MaintDevices : (e \in maint) # (e = d)}
    /\ UNCHANGED <<alerts, lastRes, cond, memory, cycle, reqs, faults, obs, told>>

\* Assumed of the engine's sleep between two cycles, and of a tick: no request stays
\* between its SELECT and its UPDATE for so long.
RequestsAreShort == reqs = {}

Tick ==
    /\ turn = Idle
    /\ RequestsAreShort
    /\ breachSince' = [fp \in FPs |-> Older(breachSince[fp], DurationGate[RuleOf(fp)])]
    /\ clearSince' = [fp \in FPs |-> Older(clearSince[fp], StableGate[RuleOf(fp)])]
    /\ alerts' = [id \in AlertIds |->
          [alerts[id] EXCEPT
             !.notified = Older(@, RenotifyAfter[RuleOf(FpOf(id))]),
             !.age = Older(@, EscalateAfter[RuleOf(FpOf(id))])]]
    /\ Record("observed", obs, obs', [fp \in FPs |->
          [obs[fp] EXCEPT !.age = Older(@, Larger(DurationGate[RuleOf(fp)],
                                                  StableGate[RuleOf(fp)]))]])
    /\ UNCHANGED <<lastRes, maint, cond, lastClear, muted, cycle, reqs, faults, told>>

-----------------------------------------------------------------------------
(* The REST handlers: the SELECT with its status check, then the UPDATE.   *)
(* The UPDATE waits for a row the engine has written and not committed.    *)

RequestRead(op, id) ==
    /\ op \in ApiOps
    /\ Cardinality(reqs) < MaxRequests
    /\ \/ op = "acknowledge" /\ alerts[id].status = "open"
       \/ op = "resolve" /\ alerts[id].status \in Live
    /\ [op |-> op, id |-> id] \notin reqs
    /\ reqs' = reqs \cup {[op |-> op, id |-> id]}
    /\ UNCHANGED <<alerts, lastRes, maint, cond, memory, cycle, faults, obs, told>>

Acknowledge(id) ==
    LET q == [op |-> "acknowledge", id |-> id] IN
    /\ q \in reqs
    /\ id \notin dirty
    /\ reqs' = {p \in reqs : p # q}
    /\ alerts' = [alerts EXCEPT ![id].status = "acknowledged", ![id].acked = TRUE]
    /\ UNCHANGED <<lastRes, maint, cond, memory, cycle, faults, obs, told>>

Resolve(id) ==
    LET q == [op |-> "resolve", id |-> id] IN
    /\ q \in reqs
    /\ id \notin dirty
    /\ reqs' = {p \in reqs : p # q}
    /\ alerts' = [alerts EXCEPT ![id].status = "resolved", ![id].byUser = TRUE]
    /\ lastRes' = [lastRes EXCEPT ![FpOf(id)] = id]
    /\ lastClear' = [lastClear EXCEPT ![FpOf(id)] = FALSE]
    /\ Record("observed", obs, obs', [obs EXCEPT ![FpOf(id)].cleared = FALSE])
    /\ UNCHANGED <<maint, cond, breachSince, clearSince, muted, cycle, faults, told>>

-----------------------------------------------------------------------------
(* The cycle.  _evaluate_all first loads the rules, the active windows and *)
(* the suppression map, once for the whole cycle.                          *)

\* Rule 1 of compute_suppression_map: the live device_down alert of a device,
\* whatever its live status, explains the device's other alerts.
SuppressionMap(rows) ==
    [d \in Devices |->
       IF LiveIds(rows, <<DownRule, d>>) = {} THEN NoAlert
       ELSE CHOOSE id \in LiveIds(rows, <<DownRule, d>>) : TRUE]

BeginCycle ==
    /\ turn = Idle
    /\ RequestsAreShort
    /\ turn' = 1
    /\ tx' = alerts
    /\ parents' = SuppressionMap(alerts)
    /\ windows' = maint
    /\ UNCHANGED <<alerts, lastRes, maint, cond, memory, dirty, pending, reqs,
                   faults, obs, told>>

ParentFor(fp) == IF RuleOf(fp) = DownRule THEN NoAlert ELSE parents[DeviceOf(fp)]

Breaching(fp) == cond[fp] /\ DeviceOf(fp) \notin windows

\* The condition has passed its duration gate.
Firing(fp) ==
    /\ Breaching(fp)
    /\ \/ DurationGate[RuleOf(fp)] = 0
       \/ breachSince[fp] >= DurationGate[RuleOf(fp)]

\* Every muted fingerprint this rule does not see breaching loses its mute.
Unmuted(r) == {fp \in muted : ~(RuleOf(fp) = r /\ Breaching(fp))}

NewlyMuted_WhoeverResolved(r) ==
    {fp \in FPsOf[r] \ muted :
       /\ Firing(fp)
       /\ LiveIds(tx, fp) = {}
       /\ lastRes[fp] # NoAlert
       /\ alerts[lastRes[fp]].status = "resolved"
       /\ ~lastClear[fp]}

\* No live row, and the latest resolution was an operator's, later than the
\* last clear the engine remembers.
NewlyMuted(r) ==
    {fp \in FPsOf[r] \ muted :
       /\ Firing(fp)
       /\ LiveIds(tx, fp) = {}
       /\ lastRes[fp] # NoAlert
       /\ alerts[lastRes[fp]].status = "resolved"
       /\ alerts[lastRes[fp]].byUser
       /\ ~lastClear[fp]}

\* A row slot free for a new alert: unused, or holding a resolved row that no
\* request is about to write.  Once the fingerprint has a live alert again its
\* resolved rows are read no more, so the model keeps none of them then.
FreeIds(fp) ==
    {id \in IdsOf[fp] : /\ tx[id].status \notin Live /\ alerts[id].status \notin Live
                        /\ \A q \in reqs : q.id # id}

Creating_DedupesOpenOnly(r) ==
    {fp \in FPsOf[r] \ (muted \cup NewlyMuted(r)) :
       Firing(fp) /\ \A id \in IdsOf[fp] : tx[id].status # "open"}

Creating_DedupesResolved(r) ==
    {fp \in FPsOf[r] \ (muted \cup NewlyMuted(r)) :
       Firing(fp) /\ \A id \in IdsOf[fp] : tx[id].status = "absent"}

Creating(r) ==
    {fp \in FPsOf[r] \ (muted \cup NewlyMuted(r)) :
       Firing(fp) /\ LiveIds(tx, fp) = {}}

NewId(fp) == CHOOSE id \in FreeIds(fp) : TRUE
Created(r) == {NewId(fp) : fp \in Creating(r)}

Revived_ByCascadeOnly(r) == {}

\* Suppressed alerts the map no longer explains.
Revived(r) ==
    {id \in IdsOfRule[r] : /\ Firing(FpOf(id))
                           /\ tx[id].status = "suppressed"
                           /\ ParentFor(FpOf(id)) = NoAlert}

\* Surfaced alerts whose parent fired after them.
RetroSuppressed(r) ==
    {id \in IdsOfRule[r] : /\ Firing(FpOf(id))
                           /\ tx[id].status \in Surfaced
                           /\ ParentFor(FpOf(id)) # NoAlert}

Restored_NotAStatus(row) == IF row.acked THEN "acknowledged" ELSE "unsuppressed"
Restored_LosesAck(row) == "open"

Restored(row) == IF row.acked THEN "acknowledged" ELSE "open"

NewAlert_StampsSuppressed(fp) ==
    [Absent EXCEPT !.status = IF ParentFor(fp) = NoAlert THEN "open" ELSE "suppressed",
                   !.parent = ParentFor(fp), !.notified = 0]

NewAlert(fp) ==
    [Absent EXCEPT !.status = IF ParentFor(fp) = NoAlert THEN "open" ELSE "suppressed",
                   !.parent = ParentFor(fp),
                   !.notified = IF ParentFor(fp) = NoAlert THEN 0 ELSE Never]

\* The row after the fire/suppress stage.
Fired(id, created, revived, retro) ==
    LET row == tx[id] IN
    IF id \in created THEN NewAlert(FpOf(id))
    ELSE IF id \in revived
         THEN [row EXCEPT !.status = Restored(row), !.parent = NoAlert, !.notified = 0]
    ELSE IF id \in retro
         THEN [row EXCEPT !.status = "suppressed", !.parent = ParentFor(FpOf(id))]
    ELSE row

\* Open alerts still breaching after escalation_seconds change severity.
MustEscalate(r, id, row) ==
    /\ EscalateAfter[r] > 0
    /\ RuleOf(FpOf(id)) = r
    /\ Breaching(FpOf(id))
    /\ row.status = "open"
    /\ ~row.escalated
    /\ row.age >= EscalateAfter[r]

Escalated(r, id, row) ==
    IF MustEscalate(r, id, row) THEN [row EXCEPT !.escalated = TRUE, !.notified = 0] ELSE row

\* Surfaced alerts still breaching are re-notified; Never is below every gate,
\* as a NULL last_notified_at is skipped.
MustRenotify(r, id, row) ==
    /\ RenotifyAfter[r] > 0
    /\ RuleOf(FpOf(id)) = r
    /\ Breaching(FpOf(id))
    /\ row.status \in Surfaced
    /\ row.notified >= RenotifyAfter[r]

Renotified(r, id, row) == IF MustRenotify(r, id, row) THEN [row EXCEPT !.notified = 0] ELSE row

Resolving_OpenOnly(r) ==
    {id \in IdsOfRule[r] : /\ ~Breaching(FpOf(id))
                           /\ tx[id].status \in {"open", "suppressed"}
                           /\ clearSince[FpOf(id)] >= StableGate[r]}

Resolving_SurfacedOnly(r) ==
    {id \in IdsOfRule[r] : /\ ~Breaching(FpOf(id))
                           /\ tx[id].status \in Surfaced
                           /\ clearSince[FpOf(id)] >= StableGate[r]}

\* Live alerts whose condition has been clear for the stable gate.
Resolving(r) ==
    {id \in IdsOfRule[r] : /\ ~Breaching(FpOf(id))
                           /\ tx[id].status \in Live
                           /\ clearSince[FpOf(id)] >= StableGate[r]}

\* A resolving alert; children of it lose their suppressor, and children of the
\* resolved row whose place a new alert takes keep a parent that is gone.
Settled(id, row, resolving, created) ==
    IF id \in resolving THEN [row EXCEPT !.status = "resolved"]
    ELSE IF row.status = "suppressed" /\ row.parent \in resolving
         THEN [row EXCEPT !.status = Restored(row), !.parent = NoAlert, !.notified = Never]
    ELSE IF row.status = "suppressed" /\ row.parent \in created
         THEN [row EXCEPT !.parent = GoneAlert]
    ELSE row

\* The row in the database as this session would read it now.
Stored(id) == IF id \in dirty THEN tx[id] ELSE alerts[id]

Flush_WholeRow(old, new, cur) == new

\* A flush updates the columns that differ from the row as it was loaded and
\* leaves the others as they are stored now.
Flush(old, new, cur) ==
    LET Column(o, n, c) == IF n # o THEN n ELSE c IN
    [status    |-> Column(old.status, new.status, cur.status),
     acked     |-> Column(old.acked, new.acked, cur.acked),
     byUser    |-> Column(old.byUser, new.byUser, cur.byUser),
     parent    |-> Column(old.parent, new.parent, cur.parent),
     notified  |-> Column(old.notified, new.notified, cur.notified),
     escalated |-> Column(old.escalated, new.escalated, cur.escalated),
     age       |-> Column(old.age, new.age, cur.age)]

\* A breach that is first seen starts its clock; only a resolution, or a rule
\* without a gate, stops it.
BreachClock(r, resolved) ==
    [fp \in FPs |->
       IF fp \in resolved THEN Never
       ELSE IF RuleOf(fp) # r \/ ~Breaching(fp) THEN breachSince[fp]
       ELSE IF DurationGate[r] = 0 THEN Never
       ELSE IF breachSince[fp] = Never THEN 0 ELSE breachSince[fp]]

ClearClock_KeptOnBreach(r, resolved) ==
    [fp \in FPs |->
       IF RuleOf(fp) # r THEN clearSince[fp]
       ELSE IF fp \in resolved THEN Never
       ELSE IF ~Breaching(fp) /\ LiveIds(tx, fp) # {} /\ clearSince[fp] = Never THEN 0
       ELSE clearSince[fp]]

ClearClock(r, resolved) ==
    [fp \in FPs |->
       IF RuleOf(fp) # r THEN clearSince[fp]
       ELSE IF Breaching(fp) \/ fp \in resolved THEN Never
       ELSE IF LiveIds(tx, fp) # {} /\ clearSince[fp] = Never THEN 0
       ELSE clearSince[fp]]

Observed(r) ==
    [fp \in FPs |->
       LET seen == IF Breaching(fp) THEN "breach" ELSE "clear" IN
       IF RuleOf(fp) # r THEN obs[fp]
       ELSE [seen |-> seen,
             age |-> IF obs[fp].seen = seen THEN obs[fp].age ELSE 0,
             cleared |-> obs[fp].cleared \/ seen = "clear"]]

\* The lookup of the live alert of a firing fingerprint raises when there are two.
Ambiguous(r) ==
    \E fp \in FPsOf[r] : Firing(fp) /\ \E i, j \in LiveIds(tx, fp) : i # j

\* _evaluate_rule, up to the flush of its changes.
EvaluateRule(r) ==
    LET created == Created(r)
        revived == Revived(r)
        resolving == Resolving(r)
        resolved == {FpOf(id) : id \in resolving}
        retro == RetroSuppressed(r)
        escalating == {id \in IdsOfRule[r] :
                         MustEscalate(r, id, Fired(id, created, revived, retro))}
        renotifying == {id \in IdsOfRule[r] :
                          MustRenotify(r, id, Escalated(r, id, Fired(id, created, revived, retro)))}
        rows == [id \in AlertIds |->
                   Settled(id, Renotified(r, id, Escalated(r, id, Fired(id, created, revived, retro))),
                           resolving, created)]
    IN
    /\ turn = r
    /\ ~Ambiguous(r)
    /\ \A fp \in Creating(r) : FreeIds(fp) # {}
    /\ turn' = r + 1
    /\ tx' = [id \in AlertIds |-> IF id \in created THEN rows[id]
                                  ELSE Flush(tx[id], rows[id], Stored(id))]
    /\ dirty' = {id \in AlertIds : id \in dirty \cup created \/ rows[id] # tx[id]}
    /\ pending' = pending
         \cup {<<id, "fired">> : id \in {i \in created : ParentFor(FpOf(i)) = NoAlert}
                                        \cup revived \cup escalating \cup renotifying}
         \cup {<<id, "resolved">> : id \in {i \in resolving : /\ tx[i].notified # Never
                                                              /\ NotifyOnResolve[r]}}
    /\ breachSince' = BreachClock(r, resolved)
    /\ clearSince' = ClearClock(r, resolved)
    /\ lastClear' = [fp \in FPs |-> lastClear[fp] \/ fp \in Unmuted(r) \cup resolved]
    /\ muted' = {fp \in FPs : fp \in NewlyMuted(r) \/ (fp \in muted /\ fp \notin Unmuted(r))}
    /\ Record("observed", obs, obs', Observed(r))
    /\ Record("told", told, told', {id \in told : id \notin created})
    /\ UNCHANGED <<alerts, lastRes, maint, cond, parents, windows, reqs, faults>>

\* The rule's rows are rolled back to its savepoint, and the alerts it has looked
\* up before are muted or not; what it has noted in memory stays.
LookupFails(r) ==
    /\ turn = r
    /\ Ambiguous(r)
    /\ turn' = r + 1
    /\ tx' = [id \in AlertIds |-> Stored(id)]
    /\ breachSince' = BreachClock(r, {})
    /\ clearSince' = [fp \in FPs |-> IF RuleOf(fp) = r /\ Breaching(fp) THEN Never
                                                                     ELSE clearSince[fp]]
    /\ lastClear' = [fp \in FPs |-> lastClear[fp] \/ fp \in Unmuted(r)]
    /\ \E seen \in SUBSET NewlyMuted(r) :
         muted' = {fp \in FPs : fp \in seen \/ (fp \in muted /\ fp \notin Unmuted(r))}
    /\ Record("observed", obs, obs', Observed(r))
    /\ UNCHANGED <<alerts, lastRes, maint, cond, dirty, parents, windows, pending,
                   reqs, faults, told>>

\* An evaluator fails before the rule has touched memory or rows.
EvaluatorFails(r) ==
    /\ turn = r
    /\ faults < MaxFaults
    /\ faults' = faults + 1
    /\ turn' = r + 1
    /\ tx' = [id \in AlertIds |-> Stored(id)]
    /\ UNCHANGED <<alerts, lastRes, maint, cond, memory, dirty, parents, windows,
                   pending, reqs, obs, told>>

\* The session is over: nothing of it is kept.
CloseSession ==
    /\ tx' = [id \in AlertIds |-> Absent]
    /\ dirty' = {}
    /\ parents' = [d \in Devices |-> NoAlert]
    /\ windows' = {}

Commit ==
    /\ turn = CommitTurn
    /\ turn' = DispatchTurn
    /\ alerts' = [id \in AlertIds |-> Stored(id)]
    /\ lastRes' = [fp \in FPs |->
         LET done == {id \in IdsOf[fp] \cap dirty : tx[id].status = "resolved"} IN
         IF done = {} THEN lastRes[fp] ELSE CHOOSE id \in done : TRUE]
    /\ CloseSession
    /\ UNCHANGED <<maint, cond, memory, pending, reqs, faults, obs, told>>

\* The commit raises and the cycle's rows are rolled back.  Its notifications
\* are still in pending; those of rows that existed before cannot be sent, as
\* their objects are expired.
CommitFails ==
    /\ turn = CommitTurn
    /\ faults < MaxFaults
    /\ faults' = faults + 1
    /\ turn' = DispatchTurn
    /\ pending' \in SUBSET {n \in pending : alerts[n[1]].status \notin Live
                                            /\ n[2] = "fired"}
    /\ CloseSession
    /\ UNCHANGED <<alerts, lastRes, maint, cond, memory, reqs, obs, told>>

\* Children of a parent that is no longer surfaced are put back to open.
RecoverOrphans ==
    alerts' = [id \in AlertIds |->
       IF /\ alerts[id].status = "suppressed"
          /\ alerts[id].parent # NoAlert
          /\ \/ alerts[id].parent = GoneAlert
             \/ alerts[alerts[id].parent].status \notin Surfaced
       THEN [alerts[id] EXCEPT !.status = "open", !.parent = NoAlert, !.notified = Never]
       ELSE alerts[id]]

\* Fingerprints no evaluation touches: not breaching, or in maintenance, and without
\* a live alert.
Untouched ==
    {fp \in FPs : /\ ~cond[fp] \/ DeviceOf(fp) \in maint
                  /\ LiveIds(alerts, fp) = {}}

\* The memory of fingerprints that nothing has touched for _STATE_TTL is dropped, and
\* that of any others when there are too many.
PruneMemory ==
    \E stale \in SUBSET (IF Crowded THEN FPs ELSE Untouched) :
       /\ breachSince' = [fp \in FPs |-> IF fp \in stale THEN Never ELSE breachSince[fp]]
       /\ clearSince' = [fp \in FPs |-> IF fp \in stale THEN Never ELSE clearSince[fp]]
       /\ lastClear' = [fp \in FPs |-> lastClear[fp] /\ fp \notin stale]
       /\ muted' = {fp \in muted : fp \notin stale}

\* _housekeeping, every twentieth cycle, between the commit and the dispatch.
Housekeeping ==
    /\ turn = DispatchTurn
    /\ RecoverOrphans
    /\ PruneMemory
    /\ UNCHANGED <<lastRes, maint, cond, cycle, reqs, faults, obs, told>>

Dispatch ==
    /\ turn = DispatchTurn
    /\ turn' = Idle
    /\ pending' = {}
    /\ Record("told", told, told', told \cup {n[1] : n \in {m \in pending : m[2] = "fired"}})
    /\ UNCHANGED <<alerts, lastRes, maint, cond, memory, tx, dirty, parents, windows,
                   reqs, faults, obs>>

\* The API process restarts: memory, the open transaction, the requests in
\* flight and whatever notifications had not left yet are gone.
Restart ==
    /\ faults < MaxFaults
    /\ faults' = faults + 1
    /\ breachSince' = [fp \in FPs |-> Never]
    /\ clearSince' = [fp \in FPs |-> Never]
    /\ lastClear' = [fp \in FPs |-> FALSE]
    /\ muted' = {}
    /\ turn' = Idle
    /\ pending' = {}
    /\ reqs' = {}
    /\ \E sent \in SUBSET (IF turn = DispatchTurn THEN pending ELSE {}) :
         Record("told", told, told', told \cup {n[1] : n \in {m \in sent : m[2] = "fired"}})
    /\ CloseSession
    /\ UNCHANGED <<alerts, lastRes, maint, cond, obs>>

-----------------------------------------------------------------------------
\* A bulk action is a request for each of its alerts.
Operators ==
    \E id \in AlertIds : \/ RequestRead("acknowledge", id) \/ RequestRead("resolve", id)
                         \/ Acknowledge(id) \/ Resolve(id)

Environment ==
    \/ \E fp \in FPs : ConditionChanges(fp)
    \/ \E d \in Devices : MaintenanceChanges(d)
    \/ Tick

Evaluation == \E r \in Rules : EvaluateRule(r) \/ LookupFails(r) \/ EvaluatorFails(r)

Next ==
    \/ Environment
    \/ Operators
    \/ BeginCycle
    \/ Evaluation
    \/ Commit
    \/ CommitFails
    \/ Housekeeping
    \/ Dispatch
    \/ Restart

Spec == Init /\ [][Next]_vars

\* The event loop runs the engine's task whenever it can go on, a request that
\* read a row eventually writes it, the engine finds a moment with no request
\* half done, and time passes between cycles.  The network, the operators and
\* the faults owe nothing.
Fairness ==
    /\ SF_vars(BeginCycle)
    /\ SF_vars(Tick)
    /\ \A r \in Rules : WF_vars(EvaluateRule(r)) /\ WF_vars(LookupFails(r))
    /\ WF_vars(Commit)
    /\ WF_vars(Dispatch)
    /\ \A id \in AlertIds : WF_vars(Acknowledge(id)) /\ WF_vars(Resolve(id))

FairSpec == Spec /\ Fairness

-----------------------------------------------------------------------------
(* Properties                                                              *)

\* Every variable keeps to its type.
RowsOK(rows) == rows \in [AlertIds -> Row]
MemoryOK ==
    /\ breachSince \in [FPs -> Nat \cup {Never}]
    /\ clearSince \in [FPs -> Nat \cup {Never}]
    /\ lastClear \in [FPs -> BOOLEAN]
    /\ muted \subseteq FPs
TypeOK ==
    /\ RowsOK(alerts)
    /\ RowsOK(tx)
    /\ lastRes \in [FPs -> AlertIds \cup {NoAlert}]
    /\ maint \subseteq Devices
    /\ windows \subseteq Devices
    /\ cond \in [FPs -> BOOLEAN]
    /\ MemoryOK
    /\ turn \in Idle..DispatchTurn
    /\ dirty \subseteq AlertIds
    /\ parents \in [Devices -> AlertIds \cup {NoAlert}]
    /\ pending \subseteq Notification
    /\ reqs \subseteq Request
    /\ faults \in 0..MaxFaults
    /\ obs \in [FPs -> Observation]
    /\ told \subseteq AlertIds

\* A fingerprint has at most one live alert that no operator has resolved, so
\* the engine opens one incident per fingerprint whatever operators do while a
\* cycle runs.
UniqueIncident ==
    \A fp \in FPs : \A i, j \in {id \in LiveIds(alerts, fp) : ~alerts[id].byUser} : i = j

\* The alert that stands for a fingerprint: the live one no operator has resolved.
Standing(fp) == {id \in LiveIds(alerts, fp) : ~alerts[id].byUser}

Incidents == INSTANCE AlertIncidents
    WITH Fingerprints <- FPs, Alerts <- AlertIds,
         incident <- [fp \in FPs |-> IF Standing(fp) = {} THEN NoAlert
                                    ELSE CHOOSE id \in Standing(fp) : TRUE],
         answered <- {fp \in FPs : \E id \in Standing(fp) : alerts[id].acked}

\* Cycles and requests that overlap do to the committed rows what incidents opened,
\* answered and closed one by one would: no incident takes the place of another,
\* and an acknowledgement lasts as long as its incident.
ServesIncidents == Incidents!Spec

\* What keeps UniqueIncident true while requests and a cycle overlap.  An alert
\* is a candidate when it is live to anybody, or a request is about to make it
\* so, and no operator has resolved it.
Targeted(id) == \E q \in reqs : q.id = id
Candidate(id) ==
    /\ ~Stored(id).byUser
    /\ alerts[id].status \in Live \/ Stored(id).status \in Live \/ Targeted(id)
InSession == turn \in 1..CommitTurn
OneCandidate ==
    \A i, j \in AlertIds : FpOf(i) = FpOf(j) /\ Candidate(i) /\ Candidate(j) => i = j
OnlySessionsWrite == ~InSession => dirty = {}
ReadsAreCurrent ==
    InSession => \A id \in AlertIds \ dirty :
        alerts[id].byUser \/ (alerts[id].status \in Live <=> tx[id].status \in Live)
RequestsAreLive ==
    InSession => \A q \in reqs : alerts[q.id].status \in Live \/ alerts[q.id].byUser
UnvisitedStayLive ==
    \A id \in dirty : RuleOf(FpOf(id)) >= turn => tx[id].status \in Live \/ tx[id].byUser
ResolvedByStays == \A id \in dirty : tx[id].byUser => alerts[id].byUser

\* A running cycle agrees with the committed rows as far as deduplication
\* depends on it, whatever requests have written since it read them.
SessionAgrees ==
    /\ OneCandidate
    /\ OnlySessionsWrite
    /\ ReadsAreCurrent
    /\ RequestsAreLive
    /\ UnvisitedStayLive
    /\ ResolvedByStays

\* A fingerprint has at most one live alert: the engine fetches "the" live alert
\* of a fingerprint with scalar_one_or_none, which raises when there are two, and
\* a rule that raises evaluates none of its devices.
AtMostOneLive ==
    \A fp \in FPs : \A i, j \in LiveIds(alerts, fp) : i = j

OperatorResolved(fp) == lastRes[fp] # NoAlert /\ alerts[lastRes[fp]].byUser

\* A fingerprint is silenced only on an operator's account: the resolution
\* that silences it carries resolved_by.
MuteHasOwner ==
    \A fp \in muted : OperatorResolved(fp)

\* Committing a cycle never puts an alert that somebody acknowledged back to
\* open, even when the acknowledgement arrived after the cycle had read the row.
AckSurvivesCycle ==
    [][turn = CommitTurn =>
         \A id \in AlertIds :
            alerts[id].acked /\ alerts[id].status \in {"acknowledged", "suppressed"}
              => alerts'[id].status # "open"]_vars

\* An operator is told that an alert is resolved only if they were told that it
\* fired ("a suppressed alert that resolves without ever having been surfaced
\* to an operator shouldn't generate a resolved email").
NoUnheraldedResolve ==
    \A id \in AlertIds : <<id, "resolved">> \in pending => id \in told

\* The engine resolves an alert only when every evaluation of its condition in
\* the last max(stable_for_seconds, _MIN_STABLE_FOR) found it clear.
AutoResolveOnlyAfterStable ==
    [][\A id \in AlertIds :
         tx[id].status \in Live /\ Stored(id).status \in Live /\ tx'[id].status = "resolved" =>
            /\ obs'[FpOf(id)].seen = "clear"
            /\ obs'[FpOf(id)].age >= StableGate[RuleOf(FpOf(id))]]_vars

\* After an operator resolved an alert no new one is created for its
\* fingerprint until some evaluation found the condition clear (WIKI.md: "don't
\* re-fire until condition clears after manual resolve").
Created1(fp) == LiveIds(tx, fp) = {} /\ LiveIds(tx', fp) # {}
RefireOnlyAfterClear ==
    [][\A fp \in FPs : turn = RuleOf(fp) /\ Created1(fp) => obs[fp].cleared]_vars

\* A rule with a duration gate fires only when evaluations have found the
\* condition breached, without a break, for that long (WIKI.md: duration gating).
DurationHolds ==
    [][\A fp \in FPs : turn = RuleOf(fp) /\ Created1(fp) =>
         obs'[fp].seen = "breach" /\ obs'[fp].age >= DurationGate[RuleOf(fp)]]_vars

\* An alert whose condition clears for good is eventually resolved for good.
ClearedIsResolved ==
    \A fp \in FPs : <>[](~cond[fp]) => <>[](LiveIds(alerts, fp) = {})

\* A condition that breaches for good outside maintenance ends up with a live
\* alert, unless an operator resolved its last one by hand.
BreachIsAlerted ==
    \A fp \in FPs : <>[](cond[fp] /\ DeviceOf(fp) \notin maint)
                      => <>[](LiveIds(alerts, fp) # {} \/ OperatorResolved(fp))

\* A suppressed alert does not stay hidden when no live device_down alert of its
\* device is left to explain it.
HiddenBehindNothing(id) ==
    /\ alerts[id].status = "suppressed"
    /\ LiveIds(alerts, <<DownRule, DeviceOf(FpOf(id))>>) = {}
NoStrandedSuppression == \A id \in AlertIds : HiddenBehindNothing(id) ~> ~HiddenBehindNothing(id)
=============================================================================
