-------------------------- MODULE CollectorRegistry --------------------------
(***************************************************************************)
(* The registry of remote collectors                                       *)
(* (api/backend/routers/collectors/_main.py) and the monitor that watches  *)
(* them (api/backend/collectors/monitor.py).                               *)
(*                                                                         *)
(* A collector row is created with a registration token; a machine trades  *)
(* the token, and a key pair it has just made, for an overlay address and  *)
(* an API key (bootstrap); it then sends heartbeats through the tunnel.    *)
(* An administrator may regenerate the token, revoke the collector or      *)
(* purge it once revoked.  Three things have to agree: the rows, the pool  *)
(* of overlay addresses, and the hub's WireGuard peers, which are changed  *)
(* by a command after the commit.                                          *)
(*                                                                         *)
(* A handler reads its row in one statement and commits its changes in     *)
(* another, with no lock and no condition in the UPDATE; only the columns  *)
(* it changed from what it read are written.  From its first write to its  *)
(* commit a transaction holds the rows it writes, so it is one step here.  *)
(*                                                                         *)
(* A machine makes a new key pair, and is given a new API key, for every   *)
(* registration; both are named by one element of Keys.                    *)
(***************************************************************************)
EXTENDS Integers, FiniteSets

CONSTANTS
    Collectors,
    NumIPs,      \* size of wg_ip_pool
    Monitored,   \* collectors whose machines send heartbeats
    Keys,        \* one per registration a machine ever tries; bounds their number
    MaxRequests, \* bound: requests in flight
    MaxTokens,   \* bound: registration tokens issued
    MaxFaults,   \* bound: failed peer commands and restarts
    NoKey

ASSUME RegistryAssumption ==
    /\ Monitored \subseteq Collectors
    /\ NumIPs \in Nat
    /\ MaxRequests \in Nat
    /\ MaxTokens \in Nat
    /\ MaxFaults \in Nat
    /\ NoKey \notin Keys

IPs == 1..NumIPs
NoIp == 0
Tokens == 1..MaxTokens
NoToken == 0   \* consumed, expired or not yet issued

Status == {"uncreated", "pending", "online", "offline", "revoked", "deleted"}
Seen == {"never", "recent", "overdue", "long"}   \* age of last_seen: 2 min, 5 min

\* Rows of the alerts table kept per collector: with the monitor's guards and one
\* acknowledgement of an alert in flight there are never more that matter.
Slots == 1..2
Alerts == Collectors \X Slots

Row == [status : Status,
        active : BOOLEAN,
        ip     : IPs \cup {NoIp},
        key    : Keys \cup {NoKey},    \* wg_public_key
        apiKey : Keys \cup {NoKey},
        token  : Tokens \cup {NoToken},
        seen   : Seen]

VARIABLES
    rows,        \* remote_collectors
    allocated,   \* wg_ip_pool: the addresses marked allocated
    peers,       \* the hub's WireGuard peers: address -> key of its peer
    requests,    \* requests in flight, each with the row it read
    monitor,     \* what the monitor is about to commit
    listing,     \* the statuses a listing of the collectors is about to commit
    alarms,      \* the live offline alerts
    acking,      \* alerts an acknowledgement has read and not yet written
    joined,      \* keys whose machine has the answer to its registration
    issued,      \* number of tokens issued
    faults,
    spent        \* history: keys used so far

database == <<rows, allocated, alarms>>
watching == <<monitor, listing, alarms, acking>>
bounds == <<issued, faults, spent>>
vars == <<rows, allocated, peers, requests, watching, joined, bounds>>

Exists(c) == rows[c].status \notin {"uncreated", "deleted"}

Blank == [status |-> "uncreated", active |-> TRUE, ip |-> NoIp, key |-> NoKey,
          apiKey |-> NoKey, token |-> NoToken, seen |-> "never"]

Ops == {"bootstrap", "peer", "compensate", "delete", "revoke", "purge", "heartbeat"}
Request == [op   : Ops,
            c    : Collectors,
            key  : Keys \cup {NoKey},
            ip   : IPs \cup {NoIp},
            snap : Row]   \* the columns of the row it read that are used later

Shown == {"as_is", "online", "offline"}   \* "as_is": the status is not written
AsIs == [status |-> "as_is", raise |-> FALSE, clear |-> {}]
Verdict == [status : Shown, raise : BOOLEAN, clear : SUBSET Slots]

Init ==
    /\ rows = [c \in Collectors |-> Blank]
    /\ allocated = {}
    /\ peers = [i \in IPs |-> NoKey]
    /\ requests = {}
    /\ monitor = [c \in Collectors |-> AsIs]
    /\ listing = [c \in Collectors |-> "as_is"]
    /\ alarms = {}
    /\ acking = {}
    /\ joined = {}
    /\ issued = 0
    /\ faults = 0
    /\ spent = {}

-----------------------------------------------------------------------------
(* Rows as a session writes them, and requests as they come and go.        *)

\* What a request still uses later of the row it read.
Read(op, c) ==
    IF op = "heartbeat" THEN [Blank EXCEPT !.status = rows[c].status]
    ELSE IF op = "purge" THEN Blank
    ELSE [rows[c] EXCEPT !.seen = "never"]

\* A column whose value the session read as old and sets to new.
Kept(cur, old, new) == IF new = old THEN cur ELSE new

Listings == {c \in Collectors : listing[c] # "as_is"}

MayStart ==
    Cardinality(requests) + Cardinality(acking) + (IF Listings = {} THEN 0 ELSE 1) < MaxRequests

Starts(op, c, key) ==
    requests' = requests \cup {[op |-> op, c |-> c, key |-> key, ip |-> NoIp, snap |-> Read(op, c)]}

Continues(r, q) == requests' = (requests \ {r}) \cup {q}

Ends(r) == requests' = requests \ {r}

-----------------------------------------------------------------------------
(* Administration.                                                         *)

CreateCollector(c) ==
    /\ rows[c].status = "uncreated"
    /\ issued < MaxTokens
    /\ issued' = issued + 1
    /\ rows' = [rows EXCEPT ![c].status = "pending", ![c].token = issued + 1]
    /\ UNCHANGED <<allocated, peers, requests, watching, joined, faults, spent>>

\* Nothing of the row it reads is used, so that it is one step.
RegenerateToken(c) ==
    /\ Exists(c)
    /\ issued < MaxTokens
    /\ issued' = issued + 1
    /\ rows' = [rows EXCEPT ![c].token = issued + 1]
    /\ UNCHANGED <<allocated, peers, requests, watching, joined, faults, spent>>

\* token_expires_at passes.
TokenExpires(c) ==
    /\ rows[c].token # NoToken
    /\ rows' = [rows EXCEPT ![c].token = NoToken]
    /\ UNCHANGED <<allocated, peers, requests, watching, joined, bounds>>

\* Active collectors are revoked, revoked ones are purged.
DeleteRead(c) ==
    /\ Exists(c)
    /\ MayStart
    /\ Starts(IF rows[c].active THEN "delete" ELSE "purge", c, NoKey)
    /\ UNCHANGED <<rows, allocated, peers, watching, joined, bounds>>

Purge(r) ==
    /\ r.op = "purge"
    /\ rows' = [rows EXCEPT ![r.c] = [Blank EXCEPT !.status = "deleted"]]
    /\ Ends(r)
    /\ UNCHANGED <<allocated, peers, watching, joined, bounds>>

Without_TheOthers(key) == [i \in IPs |-> IF peers[i] # key THEN NoKey ELSE peers[i]]

Without(key) == [i \in IPs |-> IF peers[i] = key THEN NoKey ELSE peers[i]]

\* The peer goes before the database is touched.  A failure is only logged.
RevokePeer(r) ==
    /\ r.op = "delete"
    /\ \/ /\ peers' = Without(r.snap.key)
          /\ UNCHANGED faults
       \/ /\ faults < MaxFaults
          /\ r.snap.key # NoKey
          /\ faults' = faults + 1
          /\ UNCHANGED peers
    /\ Continues(r, [r EXCEPT !.op = "revoke"])
    /\ UNCHANGED <<rows, allocated, watching, joined, issued, spent>>

Revoked_KeepsAddress(cur, old) ==
    [cur EXCEPT !.active = Kept(@, old.active, FALSE),
                !.status = Kept(@, old.status, "revoked"),
                !.apiKey = Kept(@, old.apiKey, NoKey),
                !.key = Kept(@, old.key, NoKey)]

Revoked(cur, old) ==
    [cur EXCEPT !.active = Kept(@, old.active, FALSE),
                !.status = Kept(@, old.status, "revoked"),
                !.apiKey = Kept(@, old.apiKey, NoKey),
                !.key = Kept(@, old.key, NoKey),
                !.ip = Kept(@, old.ip, NoIp)]

\* A row that was purged meanwhile makes the flush fail and the rest with it.
RevokeCommit(r) ==
    LET c == r.c
        old == r.snap
    IN  /\ r.op = "revoke"
        /\ rows' = IF Exists(c) THEN [rows EXCEPT ![c] = Revoked(@, old)] ELSE rows
        /\ allocated' = IF Exists(c) THEN allocated \ {old.ip} ELSE allocated
        /\ Ends(r)
        /\ UNCHANGED <<peers, watching, joined, bounds>>

-----------------------------------------------------------------------------
(* Registration.                                                           *)

\* A machine presents the collector's current token with a new key.
BootstrapRead(c) ==
    LET key == CHOOSE k \in Keys \ spent : TRUE
    IN  /\ Exists(c)
        /\ rows[c].token # NoToken
        /\ rows[c].status # "revoked"
        /\ MayStart
        /\ Keys \ spent # {}
        /\ spent' = spent \cup {key}
        /\ Starts("bootstrap", c, key)
        /\ UNCHANGED <<rows, allocated, peers, watching, joined, issued, faults>>

\* The pool once the collector's old address is back in it.
PoolFor(old) == allocated \ {old.ip}

\* Whether the pool offers an address to a registration: the first free one, but for
\* those that other registrations under way have locked (SKIP LOCKED).
Offers(r, ip) ==
    /\ ip \in IPs \ PoolFor(r.snap)
    /\ \/ \A j \in IPs \ PoolFor(r.snap) : ip <= j
       \/ \E q \in requests \ {r} : q.op = "bootstrap"

\* The unique index on wg_ip refuses an address that some other row holds.
Taken(c, ip) == \E d \in Collectors \ {c} : rows[d].ip = ip

Registered(cur, old, key, ip) ==
    [cur EXCEPT !.ip = ip, !.key = key, !.apiKey = key, !.token = NoToken,
                !.active = Kept(@, old.active, TRUE),
                !.status = Kept(@, old.status, "offline")]

BootstrapCommit(r) ==
    LET c == r.c
        old == r.snap
        key == r.key
    IN  /\ r.op = "bootstrap"
        /\ Exists(c)
        /\ \E ip \in IPs :
              /\ Offers(r, ip)
              /\ ~Taken(c, ip)
              /\ rows' = [rows EXCEPT ![c] = Registered(@, old, key, ip)]
              /\ allocated' = PoolFor(old) \cup {ip}
              /\ Continues(r, [r EXCEPT !.op = "peer", !.ip = ip])
        /\ UNCHANGED <<peers, watching, joined, bounds>>

\* The pool is exhausted, if only because other registrations have its addresses
\* locked, it offers an address that is taken, or the row is gone: rolled back.
BootstrapFails(r) ==
    /\ r.op = "bootstrap"
    /\ \/ ~Exists(r.c)
       \/ IPs \subseteq PoolFor(r.snap)
       \/ \E ip \in IPs : Offers(r, ip) /\ Taken(r.c, ip)
       \/ \E q \in requests \ {r} : q.op = "bootstrap"
    /\ Ends(r)
    /\ UNCHANGED <<rows, allocated, peers, watching, joined, bounds>>

\* An address routes to one peer, a peer has one address.
Routed(now, key, ip) ==
    [i \in IPs |-> IF i = ip THEN key ELSE IF now[i] = key THEN NoKey ELSE now[i]]

\* After the commit: the old peer goes, as far as the command succeeds, the new
\* one comes, and the machine is answered.
BootstrapPeer(r) ==
    LET old == r.snap.key
    IN  /\ r.op = "peer"
        /\ \/ /\ peers' = Routed(Without(old), r.key, r.ip)
              /\ UNCHANGED faults
           \/ /\ faults < MaxFaults
              /\ old # NoKey
              /\ peers' = Routed(peers, r.key, r.ip)
              /\ faults' = faults + 1
        /\ joined' = joined \cup {r.key}
        /\ Ends(r)
        /\ UNCHANGED <<rows, allocated, watching, issued, spent>>

\* The new peer cannot be added; the old one may have gone or not.
PeerFails(r) ==
    /\ r.op = "peer"
    /\ faults < MaxFaults
    /\ faults' = faults + 1
    /\ peers' \in {Without(r.snap.key), peers}
    /\ Continues(r, [r EXCEPT !.op = "compensate"])
    /\ UNCHANGED <<rows, allocated, watching, joined, issued, spent>>

Compensated_Key(r) == r.key

Compensated(r) == NoIp

\* The compensating transaction, whatever the row has become meanwhile.
Compensate(r) ==
    LET c == r.c
    IN  /\ r.op = "compensate"
        /\ rows' = IF ~Exists(c) THEN rows
                   ELSE [rows EXCEPT ![c].key = NoKey, ![c].ip = Compensated(r),
                                     ![c].active = FALSE, ![c].status = "pending"]
        /\ allocated' = allocated \ {r.ip}
        /\ Ends(r)
        /\ UNCHANGED <<peers, watching, joined, bounds>>

-----------------------------------------------------------------------------
(* Heartbeats and what is made of them.                                    *)

\* A machine that was answered calls through the tunnel with its API key.
HeartbeatRead(c, k) ==
    /\ c \in Monitored
    /\ MayStart
    /\ k \in joined
    /\ \E i \in IPs : peers[i] = k
    /\ Exists(c) /\ rows[c].active /\ rows[c].apiKey = k
    /\ Starts("heartbeat", c, NoKey)
    /\ UNCHANGED <<rows, allocated, peers, watching, joined, bounds>>

Heard(cur, old) == [cur EXCEPT !.seen = "recent", !.status = Kept(@, old.status, "online")]

HeartbeatCommit(r) ==
    LET c == r.c
    IN  /\ r.op = "heartbeat"
        /\ rows' = IF Exists(c) THEN [rows EXCEPT ![c] = Heard(@, r.snap)] ELSE rows
        /\ Ends(r)
        /\ UNCHANGED <<allocated, peers, watching, joined, bounds>>

\* Time passes without a heartbeat.
Age(c) ==
    /\ rows[c].seen \in {"recent", "overdue"}
    /\ rows' = [rows EXCEPT ![c].seen = IF @ = "recent" THEN "overdue" ELSE "long"]
    /\ UNCHANGED <<allocated, peers, requests, watching, joined, bounds>>

Computed(c) == IF rows[c].seen = "recent" THEN "online" ELSE "offline"

\* Listing the collectors refreshes their status, whatever it was, once their rows
\* are read.  Rows that are online without an address are taken for local service
\* accounts.
ListRead ==
    /\ Listings = {}
    /\ MayStart
    /\ listing' = [c \in Collectors |->
          IF /\ Exists(c) /\ rows[c].seen # "never"
             /\ ~(rows[c].ip = NoIp /\ rows[c].status = "online")
             /\ Computed(c) # rows[c].status
          THEN Computed(c) ELSE "as_is"]
    /\ UNCHANGED <<database, peers, requests, monitor, acking, joined, bounds>>

\* The statuses that were set are written; rows purged meanwhile make the UPDATE fail.
Rewritten(statuses) ==
    IF \E c \in Collectors : statuses[c] # "as_is" /\ ~Exists(c) THEN rows
    ELSE [c \in Collectors |-> IF statuses[c] = "as_is" THEN rows[c]
                               ELSE [rows[c] EXCEPT !.status = statuses[c]]]

ListCommit ==
    /\ Listings # {}
    /\ rows' = Rewritten(listing)
    /\ listing' = [c \in Collectors |-> "as_is"]
    /\ UNCHANGED <<allocated, peers, requests, monitor, alarms, acking, joined, bounds>>

Watched(c) == Exists(c) /\ rows[c].active /\ rows[c].seen # "never"

LiveAlerts(c) == {s \in Slots : <<c, s>> \in alarms}

\* The lookup of a collector's live alert raises when there are two, and ends the
\* check of all collectors.
Jammed == \E c \in Collectors : /\ Watched(c) /\ rows[c].seen # "overdue"
                               /\ Cardinality(LiveAlerts(c)) > 1

StatusFound(c) == IF Computed(c) = rows[c].status THEN "as_is" ELSE Computed(c)

VerdictOn_RaisesOnceOffline(c) ==
    [status |-> StatusFound(c),
     raise  |-> rows[c].seen = "long" /\ LiveAlerts(c) = {} /\ rows[c].status = "online",
     clear  |-> IF rows[c].seen = "recent" THEN LiveAlerts(c) ELSE {}]

VerdictOn_ClearsOnFlip(c) ==
    [status |-> StatusFound(c),
     raise  |-> rows[c].seen = "long" /\ LiveAlerts(c) = {},
     clear  |-> IF rows[c].seen = "recent" /\ rows[c].status = "offline"
                THEN LiveAlerts(c) ELSE {}]

VerdictOn(c) ==
    [status |-> StatusFound(c),
     raise  |-> rows[c].seen = "long" /\ LiveAlerts(c) = {},
     clear  |-> IF rows[c].seen = "recent" THEN LiveAlerts(c) ELSE {}]

MonitorRead ==
    /\ \A c \in Collectors : monitor[c] = AsIs
    /\ ~Jammed
    /\ monitor' = [c \in Collectors |-> IF Watched(c) THEN VerdictOn(c) ELSE AsIs]
    /\ UNCHANGED <<database, peers, requests, listing, acking, joined, bounds>>

\* A new alert is a row of its own: one that is neither live nor about to be written.
NewAlert(c) == <<c, IF <<c, 1>> \in alarms \cup acking THEN 2 ELSE 1>>

\* The whole check fails with the UPDATE of a row that has been purged.
MonitorCommit ==
    LET statuses == [c \in Collectors |-> monitor[c].status]
        lost == \E c \in Collectors : statuses[c] # "as_is" /\ ~Exists(c)
        cleared == {a \in alarms : a[2] \in monitor[a[1]].clear}
        raised == {NewAlert(c) : c \in {d \in Collectors : monitor[d].raise}}
    IN  /\ \E c \in Collectors : monitor[c] # AsIs
        /\ rows' = Rewritten(statuses)
        /\ alarms' = IF lost THEN alarms ELSE (alarms \ cleared) \cup raised
        /\ monitor' = [c \in Collectors |-> AsIs]
        /\ UNCHANGED <<allocated, peers, requests, listing, acking, joined, bounds>>

\* Operators act on these alerts as on any other (routers/alerts.py): a resolution
\* asks nothing of the row it writes but that it is not resolved, ...
ResolveAlarm(a) ==
    /\ a \in alarms
    /\ alarms' = alarms \ {a}
    /\ UNCHANGED <<rows, allocated, peers, requests, monitor, listing, acking, joined, bounds>>

\* ... an acknowledgement finds it open and writes it later, whatever became of it.
AcknowledgeRead(a) ==
    /\ a \in alarms
    /\ MayStart
    /\ \A b \in acking : b[1] # a[1]
    /\ acking' = acking \cup {a}
    /\ UNCHANGED <<database, peers, requests, monitor, listing, joined, bounds>>

AcknowledgeCommit(a) ==
    /\ a \in acking
    /\ acking' = acking \ {a}
    /\ alarms' = alarms \cup {a}
    /\ UNCHANGED <<rows, allocated, peers, requests, monitor, listing, joined, bounds>>

\* The API process restarts; peers and rows survive.
Restart ==
    /\ faults < MaxFaults
    /\ faults' = faults + 1
    /\ requests' = {}
    /\ acking' = {}
    /\ monitor' = [c \in Collectors |-> AsIs]
    /\ listing' = [c \in Collectors |-> "as_is"]
    /\ UNCHANGED <<database, peers, joined, issued, spent>>

-----------------------------------------------------------------------------

Administer(c) == CreateCollector(c) \/ RegenerateToken(c) \/ TokenExpires(c)

Proceed(r) ==
    \/ Purge(r) \/ RevokePeer(r) \/ RevokeCommit(r)
    \/ BootstrapCommit(r) \/ BootstrapFails(r) \/ BootstrapPeer(r) \/ Compensate(r)
    \/ HeartbeatCommit(r)

Next ==
    \/ \E c \in Collectors : Administer(c) \/ Age(c) \/ DeleteRead(c) \/ BootstrapRead(c)
    \/ \E a \in Alerts : ResolveAlarm(a) \/ AcknowledgeRead(a) \/ AcknowledgeCommit(a)
    \/ \E c \in Collectors, k \in Keys : HeartbeatRead(c, k)
    \/ \E r \in requests : Proceed(r) \/ PeerFails(r)
    \/ ListRead \/ ListCommit \/ MonitorRead \/ MonitorCommit \/ Restart

Spec == Init /\ [][Next]_vars

\* The monitor comes round every minute.
FairSpec == Spec /\ WF_vars(MonitorRead) /\ WF_vars(MonitorCommit)

-----------------------------------------------------------------------------
(* Properties                                                              *)

\* Every variable keeps its type.
TypeOK ==
    /\ rows \in [Collectors -> Row]
    /\ allocated \subseteq IPs
    /\ peers \in [IPs -> Keys \cup {NoKey}]
    /\ requests \subseteq Request
    /\ monitor \in [Collectors -> Verdict]
    /\ listing \in [Collectors -> Shown]
    /\ alarms \subseteq Alerts
    /\ acking \subseteq Alerts
    /\ joined \subseteq Keys
    /\ issued \in 0..MaxTokens
    /\ faults \in 0..MaxFaults
    /\ spent \subseteq Keys

\* The address a request takes its collector to have when it commits; a purge, which
\* gives none back, takes it to have none.
Expected(r) ==
    CASE r.op = "compensate" -> r.ip
      [] r.op = "purge" -> NoIp
      [] OTHER -> r.snap.ip

\* The collector's row has been given another address since the request read or
\* wrote it.
Outdated(r) == rows[r.c].ip # Expected(r)

Acting == requests \ requests'

\* The pool marks an address as allocated if and only if a collector holds it.
Agrees(i) == i \in allocated <=> \E c \in Collectors : rows[c].ip = i

\* However registrations, failures, revocations and purges overlap, no address leaks
\* from the pool and none is offered while it is in use, except by a request whose
\* collector was given another address behind its back: the handlers lock nothing
\* and check nothing again (_allocate_wg_ip, _free_wg_ip and their callers).
PoolPartsOnlyByOutdated ==
    [][\A i \in IPs : Agrees(i) /\ ~Agrees(i)' => \E r \in Acting : Outdated(r)]_vars

Connected(c, k) == rows[c].key = k /\ rows[c].ip \in IPs /\ peers[rows[c].ip] = k

\* A registration that has committed and whose machine is no longer the one its
\* collector's row names.
Superseded(r) == r.op = "peer" /\ rows[r.c].key # r.key

\* A machine that was answered keeps its tunnel, however requests about any collector
\* overlap and fail, until a request of its own collector takes it away: no other
\* collector's registration, failure or revocation reaches its row, its address or
\* its peer.  The one exception is the peer command of a registration that has been
\* superseded meanwhile, which routes an address that may be somebody else's by now.
TunnelIsKept ==
    [][\A c \in Collectors, k \in joined :
          Connected(c, k) /\ ~Connected(c, k)' =>
             \E r \in Acting : (r.c = c /\ r.op # "peer") \/ Superseded(r)]_vars

Silent(c) == Exists(c) /\ rows[c].active /\ rows[c].seen = "long"
Alive(c) == Exists(c) /\ rows[c].active /\ rows[c].seen = "recent"

\* A collector that has been silent for five minutes (OFFLINE_ALERT_S; WIKI.md:664
\* promises 90 s, see the README) is alarmed in the end, though checks are lost to
\* restarts and to rows purged under them, unless two live alerts of one collector
\* end every check (monitor._check).
SilenceIsAlarmed ==
    \A c \in Monitored : Silent(c) ~> (LiveAlerts(c) # {} \/ ~Silent(c) \/ Jammed)

Noticed(c) == rows[c].status = "online" /\ LiveAlerts(c) = {}

\* A heartbeat that arrives while the monitor or a listing decides that the collector
\* is offline is overwritten at most for a while: a collector that goes on answering
\* is shown online and its alert is resolved, with the same exception.
RecoveryIsNoticed ==
    \A c \in Monitored : Alive(c) ~> (~Alive(c) \/ Noticed(c) \/ Jammed)

\* monitor.py:6 "Auto-resolves the alert when the collector comes back online",
\* without the exception.
RecoveryAlwaysNoticed == \A c \in Monitored : Alive(c) ~> (~Alive(c) \/ Noticed(c))

\* The pool and the rows agree whatever overlaps, as _main.py:1778 says of the
\* compensating transaction, "to leave the DB consistent".
PoolAgrees == \A i \in IPs : Agrees(i)

\* WIKI.md:633 "registration token generated (24h, single-use)": no registration is
\* committed with a token that another has consumed meanwhile.
TokenIsSingleUse ==
    [][\A r \in requests : BootstrapCommit(r) => rows[r.c].token = r.snap.token]_vars

\* _main.py:346 "Real collectors always acquire a wg_ip during bootstrap before
\* going online": a collector without an address is not shown online.
OnlineHasAddress == \A c \in Collectors : rows[c].status = "online" => rows[c].ip # NoIp
=============================================================================
