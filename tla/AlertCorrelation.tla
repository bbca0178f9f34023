-------------------------- MODULE AlertCorrelation --------------------------
(***************************************************************************)
(* How the alert engine decides which alert explains which: the map built  *)
(* by compute_suppression_map (api/backend/alerting/suppression.py) and    *)
(* what _evaluate_rule (engine.py) does with it, over a small network of   *)
(* devices, links and one remote collector.                                *)
(*                                                                         *)
(* A cycle is one step here; AlertEngine interleaves the inside of a cycle *)
(* with operators, so acknowledged alerts count as open in this module.    *)
(* Two kinds of time survive: whether a cleared alert has been clear for   *)
(* the stable gate (any subset may have), and which device_down alerts     *)
(* fired before which.                                                     *)
(***************************************************************************)
EXTENDS Integers, Sequences, FiniteSets, Functions

CONSTANTS
    Devices,
    Links,       \* topology_links: sets of two devices
    Ports,       \* monitored interfaces: pairs <<device, LLDP/CDP neighbour>>
    Members,     \* devices polled by the remote collector
    Leader,      \* the member that carries the collector_offline alert
    RuleOrder,   \* the metrics of the enabled rules, in rule-name order
    NoAlert,     \* a NULL alert id
    GoneAlert    \* the id of an alert that was resolved and has fired anew

Metrics == {"device_down", "interface_down", "collector_offline"}

ASSUME NetworkAssumption ==
    /\ IsFiniteSet(Devices)
    /\ \A l \in Links : l \subseteq Devices /\ Cardinality(l) = 2
    /\ Ports \subseteq Devices \X Devices
    /\ Members \subseteq Devices
    /\ Members # {} => Leader \in Members
    /\ RuleOrder \in Seq(Metrics) \ {<< >>}

DownAlert(d) == <<"device_down", d>>
PortAlert(p) == <<"interface_down", p>>
CollectorAlert == <<"collector_offline", Leader>>
Alerts == {DownAlert(d) : d \in Devices} \cup {PortAlert(p) : p \in Ports}
          \cup (IF Members = {} THEN {} ELSE {CollectorAlert})

ASSUME NullsAssumption ==
    /\ NoAlert \notin Alerts \cup {CollectorAlert}
    /\ GoneAlert \notin Alerts \cup {NoAlert}

MetricOf(k) == k[1]
DeviceOf(k) == IF MetricOf(k) = "interface_down" THEN k[2][1] ELSE k[2]
Neighbours(d) == {e \in Devices : {d, e} \in Links}

VARIABLES
    reach,        \* devices that answer their poller
    collectorUp,  \* remote_collectors.status = 'online'
    operDown,     \* ports last polled admin-up and oper-down
    rows,         \* alert -> its status and suppressed_by_alert_id
    clearing,     \* _clear_since: live alerts last evaluated as clear
    older,        \* device -> devices whose live device_down fired earlier
    turn,         \* 0 between cycles, else the rule to evaluate
    map           \* the SuppressionMap of the cycle

network == <<reach, collectorUp, operDown>>
vars == <<network, rows, clearing, older, turn, map>>

Row == [status : {"none", "open", "suppressed"}, parent : Alerts \cup {NoAlert, GoneAlert}]
NoRow == [status |-> "none", parent |-> NoAlert]
Open == [status |-> "open", parent |-> NoAlert]
Suppressed(parent) == [status |-> "suppressed", parent |-> parent]

IsLive(k) == k \in Alerts /\ rows[k].status # "none"
IsSurfaced(k) == k \in Alerts /\ rows[k].status = "open"
Down_SurfacedOnly == {d \in Devices : IsSurfaced(DownAlert(d))}

\* Devices with a live device_down alert, suppressed ones included.
Down == {d \in Devices : IsLive(DownAlert(d))}

-----------------------------------------------------------------------------
(* The suppression map: for each device, what explains its device_down and *)
(* what explains its other alerts.                                         *)

Maps == LET Causes == [Devices -> Alerts \cup {NoAlert}] IN [down : Causes, other : Causes]
EmptyMap == [down |-> [d \in Devices |-> NoAlert], other |-> [d \in Devices |-> NoAlert]]

Attribute(m, devs, parent) ==
    [down  |-> [d \in Devices |-> IF d \in devs THEN parent ELSE m.down[d]],
     other |-> [d \in Devices |-> IF d \in devs THEN parent ELSE m.other[d]]]

\* Rule 0: a live collector_offline alert explains everything on its devices.
CollectorRule == IF IsLive(CollectorAlert) THEN Attribute(EmptyMap, Members, CollectorAlert)
                                           ELSE EmptyMap

\* Rule 1: the device_down of a device explains the device's other alerts.
OwnDeviceRule(m) ==
    [m EXCEPT !.other = [d \in Devices |->
        IF d \in Down /\ m.down[d] = NoAlert THEN DownAlert(d) ELSE m.other[d]]]

CutOff_Accounted(d, root, visited) ==
    d \in Down \ {root} /\ d \notin older[root] /\ Neighbours(d) \subseteq Down

\* A failure that root can have caused: not yet accounted for, no earlier than
\* root's, and of a device with no neighbour that is still up.
CutOff(d, root, visited) ==
    /\ d \in Down \ (visited \cup {root})
    /\ d \notin older[root]
    /\ Neighbours(d) \subseteq Down

\* Rule 2: the devices root takes down with it, over links from one to the next.
Spread(devs, root, visited) ==
    devs \cup {d \in Devices : CutOff(d, root, visited) /\ Neighbours(d) \cap devs # {}}

Reached(root, visited) ==
    LET reached[n \in 0..Cardinality(Devices)] ==
            IF n = 0 THEN {root} ELSE Spread(reached[n - 1], root, visited)
    IN reached

Downstream(root, visited) == Reached(root, visited)[Cardinality(Devices)] \ {root}

\* The orders in which the query may return rows of equal time; the sort keeps it.
Orders == {o \in [Devices -> 1..Cardinality(Devices)] : IsInjective(o)}

Earliest_FirstRow(S, order) == CHOOSE d \in S : \A e \in S : order[d] <= order[e]

\* The earliest failure not yet accounted for is the next root.
Earliest(S, order) ==
    LET first == {d \in S : older[d] \cap S = {}}
    IN  CHOOSE d \in first : \A e \in first : order[d] <= order[e]

\* One turn of the walk over the failed devices.
AccountFor(before, order) ==
    LET waiting == Down \ before.visited
        root == Earliest(waiting, order)
        taken == Downstream(root, before.visited)
    IN IF waiting = {} THEN before
       ELSE [visited |-> before.visited \cup taken \cup {root},
             map |-> Attribute(before.map, taken, DownAlert(root))]

Walk(m, order) ==
    LET walk[n \in 0..Cardinality(Devices)] ==
            IF n = 0 THEN [visited |-> {d \in Devices : m.down[d] # NoAlert}, map |-> m]
            ELSE AccountFor(walk[n - 1], order)
    IN walk

CascadeRule(m, order) == Walk(m, order)[Cardinality(Devices)].map

\* Rule 3 looks the neighbour of a port up by its management address.  The
\* index is keyed by text; the neighbour tables' column is an inet, which the
\* driver returns as an address object that equals no text.
TextIp(d) == <<"text", d>>
InetIp(d) == <<"inet", d>>
RemoteDevice_ComparesText(p) == {d \in Devices : d = p[2]}
RemoteDevice(p) == {d \in Devices : TextIp(d) = InetIp(p[2])}

\* Rule 3: a live interface_down explains the device at the other end, unless
\* an earlier rule did.  A suppressed one counts only as collateral of its own
\* device.
UplinkRule(m) ==
    LET evidence == {p \in Ports :
            \/ IsSurfaced(PortAlert(p))
            \/ /\ IsLive(PortAlert(p))
               /\ m.other[p[1]] # NoAlert
               /\ rows[PortAlert(p)].parent = m.other[p[1]]}
        Uplinks(d) == {p \in evidence : d \in RemoteDevice(p)}
        causes == [d \in Devices |->
            IF m.down[d] # NoAlert \/ Uplinks(d) = {} THEN m.down[d]
            ELSE PortAlert(CHOOSE p \in Uplinks(d) : TRUE)]
    IN [down |-> causes,
        other |-> [d \in Devices |-> IF m.other[d] = NoAlert /\ m.down[d] = NoAlert
                                     THEN causes[d] ELSE m.other[d]]]

SuppressionMap(order) == UplinkRule(CascadeRule(OwnDeviceRule(CollectorRule), order))

ParentFor_MayBeItself(k) == IF MetricOf(k) = "device_down" THEN map.down[DeviceOf(k)]
                                                         ELSE map.other[DeviceOf(k)]

\* parent_for, with the engine's check that no alert is its own parent.
ParentFor(k) ==
    LET parent == IF MetricOf(k) = "device_down" THEN map.down[DeviceOf(k)]
                                                 ELSE map.other[DeviceOf(k)]
    IN IF parent = k THEN NoAlert ELSE parent

-----------------------------------------------------------------------------
(* The evaluators: which conditions breach.  A member behind an offline    *)
(* collector is stale, and its device_down is left to collector_offline.   *)

Monitored(d) == d \in Members => collectorUp

DeviceDown(d) == d \notin reach /\ Monitored(d)
InterfaceDown(p) == p \in operDown
CollectorOffline == ~collectorUp

Breaching(k) ==
    \/ MetricOf(k) = "device_down" /\ DeviceDown(k[2])
    \/ MetricOf(k) = "interface_down" /\ InterfaceDown(k[2])
    \/ MetricOf(k) = "collector_offline" /\ CollectorOffline

\* The fire/suppress stage for one alert.
Fired(k) ==
    LET parent == ParentFor(k)
        row == rows[k] IN
    IF ~Breaching(k) \/ (row.status = "suppressed" /\ parent # NoAlert) THEN row
    ELSE IF parent = NoAlert THEN Open
    ELSE Suppressed(parent)

\* A cycle begins: the map is computed once, before any rule is evaluated.
BeginCycle ==
    /\ turn = 0
    /\ turn' = 1
    /\ \E order \in Orders : map' = SuppressionMap(order)
    /\ UNCHANGED <<network, rows, clearing, older>>

FiredBefore_OrTogether(down) ==
    [d \in Devices |->
       {e \in down : d \in down /\ (IsLive(DownAlert(d)) => e \in older[d])}]

\* triggered_at, as the order it gives the live device_down alerts; alerts of
\* one cycle share it.
FiredBefore(down) ==
    [d \in Devices |->
       {e \in down : /\ d \in down
                     /\ IF IsLive(DownAlert(d)) THEN e \in older[d] ELSE IsLive(DownAlert(e))}]

\* One rule: fire or suppress its alerts, resolve those that are stably clear,
\* and release the alerts the resolved ones explained.  An alert found clear for
\* the first time only starts its clock; which clocks have run out is free.
EvaluateRule(stable) ==
    LET metric == RuleOrder[turn]
        mine == {k \in Alerts : MetricOf(k) = metric}
        fired == [k \in Alerts |-> IF k \in mine THEN Fired(k) ELSE rows[k]]
        created == {k \in mine : rows[k].status = "none" /\ Breaching(k)}
        down == {d \in Devices : /\ DownAlert(d) \notin stable
                                 /\ DownAlert(d) \in created \/ IsLive(DownAlert(d))}
    IN
    /\ turn # 0
    /\ stable \subseteq {k \in mine \cap clearing : IsLive(k) /\ ~Breaching(k)}
    /\ rows' = [k \in Alerts |->
          CASE k \in stable -> NoRow
            [] k \notin stable /\ fired[k].parent \in stable -> Open
            [] k \notin stable /\ fired[k].parent \in created ->
                 [fired[k] EXCEPT !.parent = GoneAlert]
            [] OTHER -> fired[k]]
    /\ clearing' = {k \in Alerts :
          IF k \in mine THEN k \notin stable /\ IsLive(k) /\ ~Breaching(k) ELSE k \in clearing}
    /\ older' = FiredBefore(down)
    /\ turn' = IF turn = Len(RuleOrder) THEN 0 ELSE turn + 1
    /\ map' = IF turn = Len(RuleOrder) THEN EmptyMap ELSE map
    /\ UNCHANGED network

RecoverOrphans_DeletedOnly ==
    /\ turn = 0
    /\ rows' = [k \in Alerts |-> IF rows[k].parent = GoneAlert THEN Open ELSE rows[k]]
    /\ UNCHANGED <<network, clearing, older, turn, map>>

\* The orphan recovery of _housekeeping, every twentieth cycle.
RecoverOrphans ==
    /\ turn = 0
    /\ rows' = [k \in Alerts |->
         IF /\ rows[k].status = "suppressed"
            /\ rows[k].parent # NoAlert
            /\ ~IsSurfaced(rows[k].parent)
         THEN Open ELSE rows[k]]
    /\ UNCHANGED <<network, clearing, older, turn, map>>

-----------------------------------------------------------------------------
(* The network.                                                            *)

DeviceFlips(d) ==
    /\ reach' = {e \in Devices : (e \in reach) # (e = d)}
    /\ UNCHANGED <<collectorUp, operDown, rows, clearing, older, turn, map>>

CollectorFlips ==
    /\ Members # {}
    /\ collectorUp' = ~collectorUp
    /\ UNCHANGED <<reach, operDown, rows, clearing, older, turn, map>>

\* A poll reports a port's change; only a device that answers is polled.
PortFlips(p) ==
    /\ p[1] \in reach
    /\ Monitored(p[1])
    /\ operDown' = {q \in Ports : (q \in operDown) # (q = p)}
    /\ UNCHANGED <<reach, collectorUp, rows, clearing, older, turn, map>>

Init ==
    /\ reach = Devices
    /\ collectorUp = TRUE
    /\ operDown = {}
    /\ rows = [k \in Alerts |-> NoRow]
    /\ clearing = {}
    /\ older = [d \in Devices |-> {}]
    /\ turn = 0
    /\ map = EmptyMap

Next ==
    \/ \E d \in Devices : DeviceFlips(d)
    \/ CollectorFlips
    \/ \E p \in Ports : PortFlips(p)
    \/ BeginCycle
    \/ \E stable \in SUBSET clearing : EvaluateRule(stable)
    \/ RecoverOrphans

Spec == Init /\ [][Next]_vars

\* The engine keeps cycling (BeginCycle and EvaluateRule are the steps that move
\* turn), and an alert evaluated as clear again and again is in the end stably
\* clear and resolved.  The network owes nothing.
ClearAgain(k) ==
    turn # 0 /\ MetricOf(k) = RuleOrder[turn] /\ k \in clearing /\ ~Breaching(k)
Fairness ==
    /\ WF_turn(turn = 0 /\ turn' = 1)
    /\ WF_turn(turn # 0 /\ turn' = IF turn = Len(RuleOrder) THEN 0 ELSE turn + 1)
    /\ SF_rows(RecoverOrphans)
    /\ \A k \in Alerts : []<>ClearAgain(k) => []<>(~IsLive(k))
FairSpec == Spec /\ Fairness

-----------------------------------------------------------------------------
(* Properties                                                              *)

\* Every variable keeps to its type, and no alert fired earlier than itself.
TypeOK ==
    /\ reach \subseteq Devices
    /\ collectorUp \in BOOLEAN
    /\ operDown \subseteq Ports
    /\ rows \in [Alerts -> Row]
    /\ older \in [Devices -> SUBSET Devices]
    /\ \A d \in Devices : d \notin older[d]
    /\ clearing \subseteq Alerts
    /\ turn \in 0..Len(RuleOrder)
    /\ map \in Maps

SuppressedDeviceAlerts ==
    {k \in Alerts \ {CollectorAlert} : rows[k].status = "suppressed"}

\* "Reattribution only ever moves forward toward a more fundamental cause": no set
\* of suppressed device and interface alerts explains itself.
NoCircularBlame ==
    \A S \in SUBSET SuppressedDeviceAlerts : S # {} => \E k \in S : rows[k].parent \notin S

\* No two live device_down alerts of equal triggered_at, and one rule per metric:
\* what it takes for NoCircularBlame to be true.
Untied == \A d, e \in Down : d # e => d \in older[e] \/ e \in older[d]
OneRuleEach == \A i, j \in DOMAIN RuleOrder : RuleOrder[i] = RuleOrder[j] => i = j

\* Every standing outage is in front of an operator: if alerts are live for
\* good in a network that has stopped changing, one of them is surfaced.
Quiet == <>[][FALSE]_network
SomethingSurfaced == (\E k \in Alerts : IsLive(k)) => \E k \in Alerts : IsSurfaced(k)
OutageSurfaces == Quiet => <>[]SomethingSurfaced

\* Suppression settles: once the network stops changing and the query returns
\* simultaneous failures in one order, alerts stop moving between open and
\* suppressed ("a flapping unsuppress->suppress loop").
OneOrder == \E order \in Orders : <>[][turn = 0 /\ turn' = 1 => map' = SuppressionMap(order)]_vars
SuppressionSettles == Quiet /\ OneOrder => <>[][FALSE]_rows

\* The orphan pass reopens only alerts whose parent is resolved, expired or
\* deleted (the comment above it in _housekeeping).
OnlyOrphansReopened ==
    [][RecoverOrphans => \A k \in Alerts :
         rows'[k] # rows[k] => ~IsLive(rows[k].parent)]_vars

\* In a network that has stopped changing no alert stays suppressed under one
\* that is no longer live, and none explain each other, whatever order
\* simultaneous failures come in.
ParentsAreLive == \A k \in Alerts : rows[k].status = "suppressed" => IsLive(rows[k].parent)
SuppressionIsCurrent == Quiet => <>[](ParentsAreLive /\ NoCircularBlame)

\* An interface_down alert that is surfaced when a cycle begins explains, in that
\* cycle, a device_down of the device at the other end of the port.
UplinkExplainsNeighbour ==
    [][turn = 0 /\ turn' = 1 =>
         \A p \in Ports : IsSurfaced(PortAlert(p)) => map'.down[p[2]] # NoAlert]_vars

\* The devices whose device_down the map explains by r's, and the devices that
\* are cut off: failed, no neighbour up, not the collector's.
FailureOf(r, m) == {d \in Devices : m.down[d] = DownAlert(r)}
CutOffDevices(m) == {d \in Down : Neighbours(d) \subseteq Down /\ m.down[d] # CollectorAlert}
Linked(C) == \A S \in (SUBSET C) \ {{}, C} : \E d \in S, e \in C \ S : {d, e} \in Links

Grounded(m) ==
    /\ IsLive(CollectorAlert) => \A d \in Members : m.down[d] = CollectorAlert
    /\ \A r \in Devices : \A d \in FailureOf(r, m) :
         /\ d \in Down \ older[r]
         /\ Neighbours(d) \subseteq Down
         /\ Neighbours(d) \cap (FailureOf(r, m) \cup {r}) # {}
         /\ r \in Down /\ m.down[r] # CollectorAlert
         /\ \A e \in Devices : r \notin FailureOf(e, m)

AllButOneBlamed(C, m) ==
    \A d, e \in C : d # e => \E r \in Devices : {d, e} \cap FailureOf(r, m) # {}

\* What a cycle blames on a failed device can be its doing ("genuinely caused by
\* the loss of upstream connectivity"): a device explained by another's failure
\* failed no earlier, has no neighbour left that is up and is joined to that other
\* by devices explained alike; the other is not itself explained by a failure.  A
\* dead collector "must win attribution" of all its devices.
BlameIsGrounded == [][turn = 0 /\ turn' = 1 => Grounded(map')]_vars

\* An outage that cuts off several linked devices comes in front of operators
\* once, whatever the order they failed in ("the earliest failure wins"): the map
\* leaves at most one of them without another device's failure to explain it.
IslandSurfacesOnce ==
    [][turn = 0 /\ turn' = 1 =>
         \A C \in SUBSET CutOffDevices(map') : Linked(C) => AllButOneBlamed(C, map')]_vars
=============================================================================
