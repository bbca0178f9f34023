----------------------- MODULE CollectorRegistryProofs -----------------------
(***************************************************************************)
(* What holds of the registry for any collectors, addresses and keys, and  *)
(* however many requests, tokens and faults there are, in whatever order   *)
(* requests about one collector overlap: its types, that the pool parts    *)
(* from the rows only by a request whose collector has another address by  *)
(* now, and that a machine keeps its tunnel.                               *)
(***************************************************************************)
EXTENDS CollectorRegistry, TLAPS

USE RegistryAssumption DEF NoIp, NoToken, database, watching, bounds

-----------------------------------------------------------------------------
(* Types.  A registration under way was let in with a token and brings a   *)
(* key.                                                                    *)

Joining == {"bootstrap", "peer", "compensate"}

Admitted ==
    \A r \in requests :
        /\ r.op \in Joining => r.key \in Keys
        /\ r.op = "bootstrap" => r.snap.token \in Tokens

Typed == TypeOK /\ Admitted

LEMMA BlankIsTyped == Blank \in Row
  BY DEF Blank, Row, Status, Seen

LEMMA AsIsIsTyped == AsIs \in Verdict /\ "as_is" \in Shown
  BY DEF AsIs, Verdict, Shown

LEMMA TypedInit == Init => Typed
  BY BlankIsTyped, AsIsIsTyped DEF Init, Typed, TypeOK, Admitted, Tokens, IPs

LEMMA ReadIsTyped ==
  ASSUME TypeOK, NEW c \in Collectors, NEW op
  PROVE  /\ Read(op, c) \in Row
         /\ op = "bootstrap" => Read(op, c).token = rows[c].token
         /\ \/ Read(op, c).ip = NoIp /\ Read(op, c).key = NoKey
            \/ Read(op, c).ip = rows[c].ip /\ Read(op, c).key = rows[c].key
         /\ op = "heartbeat" => Read(op, c).ip = NoIp /\ Read(op, c).key = NoKey
  <1>1. rows[c] \in Row
    BY DEF TypeOK
  <1> DEFINE status == rows[c].status
  <1>2. status \in Status
    BY <1>1 DEF Row
  <1>3. CASE op = "heartbeat"
    <2>1. Read(op, c) = [Blank EXCEPT !.status = status]
      BY <1>3 DEF Read
    <2> HIDE DEF status
    <2> QED
      BY <1>2, <1>3, <2>1 DEF Blank, Row, Seen
  <1>4. CASE op = "purge"
    BY <1>4, BlankIsTyped DEF Read, Blank
  <1>5. CASE op \notin {"heartbeat", "purge"}
    <2>1. Read(op, c) = [rows[c] EXCEPT !.seen = "never"]
      BY <1>5 DEF Read
    <2> QED
      BY <1>1, <1>5, <2>1 DEF Row, Seen
  <1> QED
    BY <1>3, <1>4, <1>5

\* A new request.
LEMMA StartsTyped ==
  ASSUME Typed, NEW op \in Ops, NEW c \in Collectors, NEW key \in Keys \cup {NoKey},
         op \in Joining => key \in Keys, op = "bootstrap" => rows[c].token \in Tokens,
         Starts(op, c, key)
  PROVE  requests' \subseteq Request /\ Admitted'
  <1>1. [op |-> op, c |-> c, key |-> key, ip |-> NoIp, snap |-> Read(op, c)] \in Request
    BY ReadIsTyped DEF Typed, Request
  <1> QED
    BY <1>1, ReadIsTyped DEF Typed, TypeOK, Admitted, Starts

\* A request's next stage: the same request but for its operation and address.
LEMMA ContinuesTyped ==
  ASSUME Typed, NEW r \in requests, NEW op \in Ops \ {"bootstrap"}, NEW ip \in IPs \cup {NoIp},
         op \in Joining => r.op \in Joining,
         Continues(r, [r EXCEPT !.op = op, !.ip = ip])
  PROVE  requests' \subseteq Request /\ Admitted'
  <1> DEFINE q == [r EXCEPT !.op = op, !.ip = ip]
  <1>1. q \in Request /\ q.op = op /\ q.key = r.key
    BY DEF Typed, TypeOK, Request
  <1>2. requests' = (requests \ {r}) \cup {q}
    BY DEF Continues
  <1> HIDE DEF q
  <1> QED
    BY <1>1, <1>2 DEF Typed, TypeOK, Admitted

LEMMA EndsTyped ==
  ASSUME Typed, NEW r \in requests, Ends(r)
  PROVE  requests' \subseteq Request /\ Admitted'
  BY DEF Typed, TypeOK, Admitted, Ends

LEMMA TypedAdministration ==
  ASSUME Typed, NEW c \in Collectors,
         Administer(c) \/ Age(c) \/ DeleteRead(c) \/ BootstrapRead(c)
  PROVE  Typed'
  <1> USE DEF Typed, TypeOK
  <1>0. rows[c] \in Row
    OBVIOUS
  <1>1. CASE CreateCollector(c)
    <2>1. issued + 1 \in Tokens
      BY <1>1 DEF CreateCollector, Tokens
    <2>2. rows' = [rows EXCEPT ![c] = [@ EXCEPT !.status = "pending", !.token = issued + 1]]
      BY <1>1 DEF CreateCollector
    <2>3. [rows[c] EXCEPT !.status = "pending", !.token = issued + 1] \in Row
      BY <1>0, <2>1 DEF Row, Status
    <2> QED
      BY <1>1, <2>1, <2>2, <2>3 DEF CreateCollector, Admitted
  <1>2. CASE RegenerateToken(c)
    <2>1. issued + 1 \in Tokens
      BY <1>2 DEF RegenerateToken, Tokens
    <2> QED
      BY <1>2, <2>1 DEF RegenerateToken, Admitted, Row
  <1>3. CASE TokenExpires(c)
    BY <1>3 DEF TokenExpires, Admitted, Row
  <1>4. CASE Age(c)
    BY <1>4 DEF Age, Admitted, Row, Seen
  <1>5. CASE DeleteRead(c)
    <2>1. requests' \subseteq Request /\ Admitted'
      BY <1>5, StartsTyped DEF DeleteRead, Ops, Joining
    <2> QED
      BY <1>5, <2>1 DEF DeleteRead
  <1>6. CASE BootstrapRead(c)
    <2> DEFINE key == CHOOSE k \in Keys \ spent : TRUE
    <2>1. key \in Keys \ spent
      BY <1>6 DEF BootstrapRead
    <2>2. Starts("bootstrap", c, key) /\ spent' = spent \cup {key} /\ rows[c].token # NoToken
      BY <1>6 DEF BootstrapRead
    <2> HIDE DEF key
    <2>3. rows[c].token \in Tokens
      BY <1>0, <2>2 DEF Row
    <2>4. requests' \subseteq Request /\ Admitted'
      BY <2>1, <2>2, <2>3, StartsTyped DEF Ops
    <2> QED
      BY <1>6, <2>1, <2>2, <2>4 DEF BootstrapRead
  <1> QED
    BY <1>1, <1>2, <1>3, <1>4, <1>5, <1>6 DEF Administer

\* The columns a session sets are typed whichever it keeps.
LEMMA RevokedIsTyped ==
  ASSUME NEW cur \in Row, NEW old \in Row
  PROVE  /\ Revoked(cur, old) \in Row
         /\ Revoked(cur, old).ip = Kept(cur.ip, old.ip, NoIp)
         /\ Revoked(cur, old).key = Kept(cur.key, old.key, NoKey)
         /\ Revoked(cur, old).active = Kept(cur.active, old.active, FALSE)
         /\ Revoked(cur, old).status \in {cur.status, "revoked"}
  <1> DEFINE status == Kept(cur.status, old.status, "revoked")
             active == Kept(cur.active, old.active, FALSE)
             ip     == Kept(cur.ip, old.ip, NoIp)
             key    == Kept(cur.key, old.key, NoKey)
             apiKey == Kept(cur.apiKey, old.apiKey, NoKey)
  <1>1. /\ status \in {cur.status, "revoked"} /\ active \in BOOLEAN /\ ip \in IPs \cup {NoIp}
        /\ key \in Keys \cup {NoKey} /\ apiKey \in Keys \cup {NoKey}
    BY DEF Kept, Row
  <1>2. Revoked(cur, old) = [cur EXCEPT !.active = active, !.status = status, !.apiKey = apiKey,
                                        !.key = key, !.ip = ip]
    BY DEF Revoked, Row
  <1> HIDE DEF status, active, ip, key, apiKey
  <1>3. /\ Revoked(cur, old) \in Row /\ Revoked(cur, old).ip = ip
        /\ Revoked(cur, old).key = key /\ Revoked(cur, old).active = active
        /\ Revoked(cur, old).status = status
    BY <1>1, <1>2 DEF Row, Status
  <1> QED
    BY <1>1, <1>3 DEF ip, key, active

LEMMA RegisteredIsTyped ==
  ASSUME NEW cur \in Row, NEW old \in Row, NEW key \in Keys, NEW ip \in IPs
  PROVE  /\ Registered(cur, old, key, ip) \in Row
         /\ Registered(cur, old, key, ip).ip = ip /\ Registered(cur, old, key, ip).key = key
         /\ Registered(cur, old, key, ip).active = Kept(cur.active, old.active, TRUE)
         /\ Registered(cur, old, key, ip).status \in {cur.status, "offline"}
  <1> DEFINE status == Kept(cur.status, old.status, "offline")
             active == Kept(cur.active, old.active, TRUE)
  <1>1. status \in {cur.status, "offline"} /\ active \in BOOLEAN
    BY DEF Kept, Row
  <1>2. Registered(cur, old, key, ip) =
            [cur EXCEPT !.ip = ip, !.key = key, !.apiKey = key, !.token = NoToken,
                        !.active = active, !.status = status]
    BY DEF Registered, Row
  <1> HIDE DEF status, active
  <1>3. /\ Registered(cur, old, key, ip) \in Row
        /\ Registered(cur, old, key, ip).ip = ip /\ Registered(cur, old, key, ip).key = key
        /\ Registered(cur, old, key, ip).active = active
        /\ Registered(cur, old, key, ip).status = status
    BY <1>1, <1>2 DEF Row, Status
  <1> QED
    BY <1>1, <1>3 DEF active

LEMMA HeardIsTyped ==
  ASSUME NEW cur \in Row, NEW old \in Row
  PROVE  /\ Heard(cur, old) \in Row
         /\ Heard(cur, old).ip = cur.ip /\ Heard(cur, old).key = cur.key
         /\ Heard(cur, old).active = cur.active
         /\ Heard(cur, old).status \in {cur.status, "online"}
  <1> DEFINE status == Kept(cur.status, old.status, "online")
  <1>1. status \in {cur.status, "online"}
    BY DEF Kept
  <1>2. Heard(cur, old) = [cur EXCEPT !.seen = "recent", !.status = status]
    BY DEF Heard, Row
  <1> HIDE DEF status
  <1> QED
    BY <1>1, <1>2 DEF Row, Status, Seen

LEMMA TypedRequest ==
  ASSUME Typed, NEW r \in requests, Proceed(r) \/ PeerFails(r)
  PROVE  Typed'
  <1>0. /\ r \in Request /\ r.c \in Collectors /\ r.snap \in Row /\ rows[r.c] \in Row
        /\ r.op \in Joining => r.key \in Keys
        /\ r.op = "bootstrap" => r.snap.token \in Tokens
    BY DEF Typed, TypeOK, Request, Admitted
  <1> USE <1>0 DEF Typed, TypeOK
  <1>1. CASE Purge(r)
    <2>1. [Blank EXCEPT !.status = "deleted"] \in Row
      BY BlankIsTyped DEF Row, Status
    <2> QED
      BY <1>1, <2>1, EndsTyped DEF Purge
  <1>2. CASE RevokePeer(r)
    <2>1. peers' \in [IPs -> Keys \cup {NoKey}] /\ faults' \in 0 .. MaxFaults
      BY <1>2 DEF RevokePeer, Without
    <2>2. Continues(r, [r EXCEPT !.op = "revoke", !.ip = r.ip])
      BY <1>2 DEF RevokePeer, Request
    <2>3. requests' \subseteq Request /\ Admitted'
      BY <2>2, ContinuesTyped DEF Ops, Joining, Request
    <2> QED
      BY <1>2, <2>1, <2>3 DEF RevokePeer
  <1>3. CASE RevokeCommit(r)
    BY <1>3, RevokedIsTyped, EndsTyped DEF RevokeCommit
  <1>4. CASE BootstrapCommit(r)
    <2>1. PICK ip \in IPs : /\ rows' = [rows EXCEPT ![r.c] = Registered(@, r.snap, r.key, ip)]
                            /\ allocated' = PoolFor(r.snap) \cup {ip}
                            /\ Continues(r, [r EXCEPT !.op = "peer", !.ip = ip])
      BY <1>4 DEF BootstrapCommit
    <2>2. r.op = "bootstrap"
      BY <1>4 DEF BootstrapCommit
    <2>3. requests' \subseteq Request /\ Admitted'
      BY <2>1, <2>2, ContinuesTyped DEF Ops, Joining
    <2>4. rows' \in [Collectors -> Row]
      BY <2>1, <2>2, RegisteredIsTyped DEF Joining
    <2> QED
      BY <1>4, <2>1, <2>2, <2>3, <2>4 DEF BootstrapCommit, PoolFor
  <1>5. CASE BootstrapFails(r)
    BY <1>5, EndsTyped DEF BootstrapFails
  <1>6. CASE BootstrapPeer(r)
    <2>1. r.key \in Keys
      BY <1>6 DEF BootstrapPeer, Joining
    <2>2. \/ peers' = Routed(Without(r.snap.key), r.key, r.ip)
          \/ peers' = Routed(peers, r.key, r.ip)
      BY <1>6 DEF BootstrapPeer
    <2>3. peers' \in [IPs -> Keys \cup {NoKey}]
      <3>1. CASE peers' = Routed(Without(r.snap.key), r.key, r.ip)
        BY <2>1, <3>1 DEF Routed, Without
      <3>2. CASE peers' = Routed(peers, r.key, r.ip)
        BY <2>1, <3>2 DEF Routed
      <3> QED
        BY <2>2, <3>1, <3>2
    <2>4. faults' \in 0 .. MaxFaults
      BY <1>6 DEF BootstrapPeer
    <2> QED
      BY <1>6, <2>1, <2>3, <2>4, EndsTyped DEF BootstrapPeer
  <1>7. CASE Compensate(r)
    <2> DEFINE row == [rows[r.c] EXCEPT !.key = NoKey, !.ip = NoIp, !.active = FALSE, !.status = "pending"]
    <2>1. row \in Row
      BY DEF Row, Status
    <2>2. rows' = rows \/ rows' = [rows EXCEPT ![r.c] = row]
      BY <1>7 DEF Compensate, Compensated
    <2> HIDE DEF row
    <2> QED
      BY <1>7, <2>1, <2>2, EndsTyped DEF Compensate
  <1>8. CASE HeartbeatCommit(r)
    BY <1>8, HeardIsTyped, EndsTyped DEF HeartbeatCommit
  <1>9. CASE PeerFails(r)
    <2>1. peers' \in [IPs -> Keys \cup {NoKey}] /\ faults' \in 0 .. MaxFaults
      BY <1>9 DEF PeerFails, Without
    <2>2. Continues(r, [r EXCEPT !.op = "compensate", !.ip = r.ip]) /\ r.op = "peer"
      BY <1>9 DEF PeerFails, Request
    <2>3. requests' \subseteq Request /\ Admitted'
      BY <2>2, ContinuesTyped DEF Ops, Joining, Request
    <2> QED
      BY <1>9, <2>1, <2>3 DEF PeerFails
  <1> QED
    BY <1>1, <1>2, <1>3, <1>4, <1>5, <1>6, <1>7, <1>8, <1>9 DEF Proceed

\* What listings and the monitor write.
LEMMA RewrittenIsTyped ==
  ASSUME TypeOK, NEW statuses, \A c \in Collectors : statuses[c] \in Shown
  PROVE  /\ Rewritten(statuses) \in [Collectors -> Row]
         /\ \A c \in Collectors :
              /\ Rewritten(statuses)[c].ip = rows[c].ip /\ Rewritten(statuses)[c].key = rows[c].key
              /\ Rewritten(statuses)[c].status \in {rows[c].status, "online", "offline"}
  <1>1. \A c \in Collectors : statuses[c] # "as_is" =>
           [rows[c] EXCEPT !.status = statuses[c]] \in Row
    BY DEF TypeOK, Row, Status, Shown
  <1>2. Rewritten(statuses) \in [Collectors -> Row]
    BY <1>1 DEF Rewritten, TypeOK
  <1>3. ASSUME NEW c \in Collectors
        PROVE  /\ Rewritten(statuses)[c].ip = rows[c].ip /\ Rewritten(statuses)[c].key = rows[c].key
               /\ Rewritten(statuses)[c].status \in {rows[c].status, "online", "offline"}
    <2>1. rows[c] \in Row /\ statuses[c] \in Shown
      BY DEF TypeOK
    <2>2. \/ Rewritten(statuses)[c] = rows[c]
          \/ /\ statuses[c] # "as_is"
             /\ Rewritten(statuses)[c] = [rows[c] EXCEPT !.status = statuses[c]]
      BY DEF Rewritten
    <2> QED
      BY <2>1, <2>2 DEF Row, Shown
  <1> QED
    BY <1>2, <1>3

LEMMA VerdictIsTyped ==
  ASSUME TypeOK, NEW c \in Collectors
  PROVE  VerdictOn(c) \in Verdict
  <1>1. StatusFound(c) \in Shown
    BY DEF StatusFound, Computed, Shown
  <1>2. LiveAlerts(c) \in SUBSET Slots
    BY DEF LiveAlerts
  <1> QED
    BY <1>1, <1>2 DEF VerdictOn, Verdict

LEMMA TypedMonitor ==
  ASSUME Typed,
         \/ \E c \in Collectors, k \in Keys : HeartbeatRead(c, k)
         \/ \E a \in Alerts : ResolveAlarm(a) \/ AcknowledgeRead(a) \/ AcknowledgeCommit(a)
         \/ ListRead \/ ListCommit \/ MonitorRead \/ MonitorCommit \/ Restart
  PROVE  Typed'
  <1> USE DEF Typed, TypeOK
  <1>1. ASSUME NEW c \in Collectors, NEW k \in Keys, HeartbeatRead(c, k) PROVE Typed'
    <2>1. requests' \subseteq Request /\ Admitted'
      BY <1>1, StartsTyped DEF HeartbeatRead, Ops, Joining
    <2> QED
      BY <1>1, <2>1 DEF HeartbeatRead
  <1>2. ASSUME NEW a \in Alerts, ResolveAlarm(a) \/ AcknowledgeRead(a) \/ AcknowledgeCommit(a)
        PROVE  Typed'
    BY <1>2 DEF ResolveAlarm, AcknowledgeRead, AcknowledgeCommit, Admitted
  <1>3. CASE ListRead
    <2>1. listing' \in [Collectors -> Shown]
      BY <1>3 DEF ListRead, Computed, Shown
    <2> QED
      BY <1>3, <2>1 DEF ListRead, Admitted
  <1>4. CASE ListCommit
    <2>1. rows' \in [Collectors -> Row]
      BY <1>4, RewrittenIsTyped DEF ListCommit
    <2> QED
      BY <1>4, <2>1, AsIsIsTyped DEF ListCommit, Admitted
  <1>5. CASE MonitorRead
    <2>1. monitor' \in [Collectors -> Verdict]
      BY <1>5, VerdictIsTyped, AsIsIsTyped DEF MonitorRead
    <2> QED
      BY <1>5, <2>1 DEF MonitorRead, Admitted
  <1>6. CASE MonitorCommit
    <2> DEFINE statuses == [c \in Collectors |-> monitor[c].status]
    <2>1. rows' = Rewritten(statuses)
      BY <1>6 DEF MonitorCommit
    <2>2. \A c \in Collectors : statuses[c] \in Shown
      BY DEF Verdict
    <2>3. rows' \in [Collectors -> Row]
      BY <2>1, <2>2, RewrittenIsTyped
    <2>4. alarms' \subseteq Alerts
      <3>1. ASSUME NEW c \in Collectors PROVE NewAlert(c) \in Alerts
        BY DEF NewAlert, Alerts, Slots
      <3>2. {NewAlert(c) : c \in {d \in Collectors : monitor[d].raise}} \subseteq Alerts
        BY <3>1
      <3> QED
        BY <1>6, <3>2 DEF MonitorCommit
    <2> QED
      BY <1>6, <2>3, <2>4, AsIsIsTyped DEF MonitorCommit, Admitted
  <1>7. CASE Restart
    BY <1>7, AsIsIsTyped DEF Restart, Admitted
  <1> QED
    BY <1>1, <1>2, <1>3, <1>4, <1>5, <1>6, <1>7

LEMMA TypedStep == Typed /\ [Next]_vars => Typed'
  <1> SUFFICES ASSUME Typed, [Next]_vars PROVE Typed'
    OBVIOUS
  <1>1. CASE UNCHANGED vars
    BY <1>1 DEF vars, Typed, TypeOK, Admitted
  <1> QED
    BY <1>1, TypedAdministration, TypedRequest, TypedMonitor DEF Next

LEMMA AlwaysTyped == Spec => []Typed
  BY TypedInit, TypedStep, PTL DEF Spec

\* Every variable of the registry keeps its type, for any collectors, pool,
\* requests and faults.
THEOREM RegistryTypeCorrect == Spec => []TypeOK
  BY AlwaysTyped, PTL DEF Typed

-----------------------------------------------------------------------------
(* Addresses and keys, whatever requests overlap.  A key stays with the    *)
(* collector it was brought to, and a row has a key exactly when it has an *)
(* address, in the rows and in what requests remember of them.             *)

GoneHoldNothing == \A c \in Collectors : rows[c].ip # NoIp => Exists(c)

OneHolder ==
    \A c, d \in Collectors : rows[c].ip # NoIp /\ rows[c].ip = rows[d].ip => c = d

Pair(row) == row.key = NoKey <=> row.ip = NoIp

Paired == (\A c \in Collectors : Pair(rows[c])) /\ (\A r \in requests : Pair(r.snap))

\* The key k is in the row of collector c or in a request about it.
Claims(c, k) ==
    \/ rows[c].key = k
    \/ \E r \in requests : r.c = c /\ k \in {r.key, r.snap.key}

KeysBelong ==
    /\ joined \subseteq spent
    /\ \A c \in Collectors, k \in Keys : Claims(c, k) => k \in spent
    /\ \A c, d \in Collectors, k \in Keys : Claims(c, k) /\ Claims(d, k) => c = d

\* A registration under way has a key that nobody else brings and whose machine has
\* not been answered; it has found an address, and its collector, while it names
\* that key, has that address.
Landing == {"peer", "compensate"}

Unanswered ==
    \A r \in requests : r.op \in Joining =>
        /\ r.key \in spent \ joined
        /\ \A q \in requests : q.op \in Joining /\ q.key = r.key => q = r

InPlace ==
    \A r \in requests :
        /\ r.op = "bootstrap" => rows[r.c].key # r.key
        /\ r.op \in Landing => r.ip \in IPs
        /\ r.op \in Landing /\ rows[r.c].key = r.key => rows[r.c].ip = r.ip

Sound == GoneHoldNothing /\ OneHolder /\ Paired /\ KeysBelong /\ Unanswered /\ InPlace

LEMMA SoundInit == Init => Sound
  BY DEF Init, Sound, GoneHoldNothing, OneHolder, Paired, Pair, KeysBelong, Claims, Unanswered, InPlace,
         Blank, IPs

\* What every step does with requests: the ones that go on are those there were, or
\* one that continues one of them.
Same(q, r) == q.c = r.c /\ q.key = r.key /\ q.snap = r.snap

\* Steps that leave keys and addresses alone and start at most a request without
\* a key: they may end requests, and change the statuses of rows that exist.
Aside ==
    /\ \A c \in Collectors : /\ rows'[c].ip = rows[c].ip /\ rows'[c].key = rows[c].key
                             /\ Exists(c) => Exists(c)'
    /\ \A q \in requests' \ requests :
          /\ q.c \in Collectors /\ q.key = NoKey /\ q.op \notin Joining
          /\ \/ q.snap.key = NoKey /\ q.snap.ip = NoIp
             \/ q.snap.key = rows[q.c].key /\ q.snap.ip = rows[q.c].ip
    /\ UNCHANGED <<joined, spent>>

LEMMA SoundAside ==
  ASSUME Typed, Sound, Aside
  PROVE  Sound'
  <1> USE DEF Aside
  <1>1. GoneHoldNothing' /\ OneHolder'
    BY DEF Sound, GoneHoldNothing, OneHolder
  <1>2. Paired'
    BY DEF Sound, Paired, Pair
  <1>3. ASSUME NEW c \in Collectors, NEW k \in Keys, Claims(c, k)' PROVE Claims(c, k)
    BY <1>3 DEF Claims
  <1>4. KeysBelong'
    BY <1>3 DEF Sound, KeysBelong
  <1>5. Unanswered'
    BY DEF Sound, Unanswered
  <1>6. InPlace'
    BY DEF Sound, InPlace, Joining, Landing, Typed, TypeOK, Request
  <1> QED
    BY <1>1, <1>2, <1>4, <1>5, <1>6 DEF Sound

\* A machine presents its token: its key is nobody's yet.
LEMMA SoundBootstrapRead ==
  ASSUME Typed, Sound, NEW c \in Collectors, BootstrapRead(c)
  PROVE  Sound'
  <1> DEFINE key == CHOOSE k \in Keys \ spent : TRUE
             q == [op |-> "bootstrap", c |-> c, key |-> key, ip |-> NoIp, snap |-> Read("bootstrap", c)]
  <1>1. key \in Keys \ spent /\ requests' = requests \cup {q} /\ spent' = spent \cup {key}
    BY DEF BootstrapRead, Starts
  <1>2. UNCHANGED <<rows, joined>>
    BY DEF BootstrapRead
  <1>3. /\ q.op = "bootstrap" /\ q.c = c /\ q.key = key
        /\ \/ q.snap.ip = NoIp /\ q.snap.key = NoKey
           \/ q.snap.ip = rows[c].ip /\ q.snap.key = rows[c].key
    BY ReadIsTyped DEF Typed
  <1> HIDE DEF key, q
  <1>4. GoneHoldNothing' /\ OneHolder'
    BY <1>2 DEF Sound, GoneHoldNothing, OneHolder, Exists
  <1>5. Paired'
    BY <1>1, <1>2, <1>3 DEF Sound, Paired, Pair
  <1>6. ASSUME NEW d \in Collectors, NEW k \in Keys, Claims(d, k)'
        PROVE  Claims(d, k) \/ (d = c /\ k = key)
    BY <1>1, <1>2, <1>3, <1>6 DEF Claims
  <1>7. KeysBelong'
    BY <1>1, <1>2, <1>6 DEF Sound, KeysBelong
  <1>8. Unanswered'
    <2>1. \A r \in requests : r.op \in Joining => r.key # key
      BY <1>1 DEF Sound, Unanswered
    <2> QED
      BY <1>1, <1>2, <1>3, <2>1 DEF Sound, Unanswered, KeysBelong
  <1>9. InPlace'
    <2>1. rows[c].key # key
      <3>1. key \in Keys /\ key \notin spent
        BY <1>1
      <3>2. ~ Claims(c, key)
        BY <3>1 DEF Sound, KeysBelong
      <3> QED
        BY <3>2 DEF Claims
    <2> QED
      BY <1>1, <1>2, <1>3, <2>1 DEF Sound, InPlace, Landing
  <1> QED
    BY <1>4, <1>5, <1>7, <1>8, <1>9 DEF Sound

\* A request r ends, or goes on as one other, and its collector's row becomes a row
\* with a pair of key and address: none, the one it had, or the one r brings.
LEMMA SoundRewrite ==
  ASSUME Typed, Sound, NEW r \in requests, NEW row,
         \A c \in Collectors : rows'[c] = IF c = r.c THEN row ELSE rows[c],
         Pair(row),
         row.ip # NoIp => row.status \notin {"uncreated", "deleted"},
         row.ip # NoIp => \A d \in Collectors \ {r.c} : rows[d].ip # row.ip,
         \/ row.key = NoKey
         \/ row.key = rows[r.c].key /\ row.ip = rows[r.c].ip
         \/ row.key = r.key /\ r.op = "bootstrap",
         \A q \in requests' \ requests :
             /\ Same(q, r)
             /\ q.op \in Joining => r.op \in Joining
             /\ q.op # "bootstrap"
             /\ q.op \in Landing => q.ip \in IPs /\ (row.key = r.key => row.ip = q.ip),
         \A p, q \in requests' \ requests : p = q,
         r \notin requests',
         UNCHANGED <<joined, spent>>
  PROVE  Sound'
  <1>0. r.c \in Collectors /\ r.c \in Collectors
    BY DEF Typed, TypeOK, Request
  <1>1. rows'[r.c] = row /\ \A d \in Collectors \ {r.c} : rows'[d] = rows[d]
    BY <1>0
  <1>2. GoneHoldNothing'
    BY <1>0, <1>1 DEF Sound, GoneHoldNothing, Exists
  <1>3. OneHolder'
    BY <1>0, <1>1 DEF Sound, OneHolder
  <1>4. Paired'
    <2>1. \A c \in Collectors : Pair(rows'[c])
      BY <1>1 DEF Sound, Paired
    <2>2. \A q \in requests' : Pair(q.snap)
      BY DEF Sound, Paired, Same
    <2> QED
      BY <2>1, <2>2 DEF Paired
  <1>5. ASSUME NEW d \in Collectors, NEW k \in Keys, Claims(d, k)' PROVE Claims(d, k)
    <2>1. CASE rows'[d].key = k
      <3>1. k # NoKey
        OBVIOUS
      <3> QED
        BY <1>1, <2>1, <3>1 DEF Claims
    <2>2. CASE \E q \in requests' : q.c = d /\ k \in {q.key, q.snap.key}
      BY <2>2 DEF Claims, Same
    <2> QED
      BY <1>5, <2>1, <2>2 DEF Claims
  <1>6. KeysBelong'
    BY <1>5 DEF Sound, KeysBelong
  <1>7. Unanswered'
    BY DEF Sound, Unanswered, Same
  <1>8. InPlace'
    <2>1. ASSUME NEW q \in requests, q # r, q.op \in Joining PROVE rows'[q.c].key # q.key \/
             (rows[q.c].key = q.key /\ rows'[q.c].ip = rows[q.c].ip)
      <3>1. q.key \in Keys /\ q.key # NoKey /\ q.c \in Collectors
        BY <2>1 DEF Typed, TypeOK, Admitted, Request
      <3>2. r.op = "bootstrap" => r.key # q.key
        BY <2>1 DEF Sound, Unanswered, Joining
      <3> QED
        BY <1>1, <3>1, <3>2
    <2>2. ASSUME NEW q \in requests', q \in requests
          PROVE  /\ q.op = "bootstrap" => rows'[q.c].key # q.key
                 /\ q.op \in Landing => q.ip \in IPs
                 /\ q.op \in Landing /\ rows'[q.c].key = q.key => rows'[q.c].ip = q.ip
      BY <2>1, <2>2 DEF Sound, InPlace, Joining, Landing
    <2>3. ASSUME NEW q \in requests', q \notin requests
          PROVE  /\ q.op = "bootstrap" => rows'[q.c].key # q.key
                 /\ q.op \in Landing => q.ip \in IPs
                 /\ q.op \in Landing /\ rows'[q.c].key = q.key => rows'[q.c].ip = q.ip
      BY <1>1, <2>3 DEF Same
    <2> QED
      BY <2>2, <2>3 DEF InPlace
  <1> QED
    BY <1>2, <1>3, <1>4, <1>6, <1>7, <1>8 DEF Sound

\* Creating a collector, tokens, deletions that start, heartbeats, listings, alerts
\* and the monitor.
LEMMA AsideSteps ==
  ASSUME Typed, Sound,
         \/ \E c \in Collectors : Administer(c) \/ Age(c) \/ DeleteRead(c)
         \/ \E c \in Collectors, k \in Keys : HeartbeatRead(c, k)
         \/ \E a \in Alerts : ResolveAlarm(a) \/ AcknowledgeRead(a) \/ AcknowledgeCommit(a)
         \/ \E r \in requests : BootstrapFails(r) \/ HeartbeatCommit(r)
         \/ ListRead \/ ListCommit \/ MonitorRead \/ MonitorCommit \/ Restart
  PROVE  Aside /\ UNCHANGED <<allocated, peers>>
  <1> USE DEF Aside
  <1>1. ASSUME NEW c \in Collectors, Administer(c) \/ Age(c)
        PROVE  Aside /\ UNCHANGED <<allocated, peers>>
    <2>1. \A d \in Collectors : /\ rows'[d].ip = rows[d].ip /\ rows'[d].key = rows[d].key
                               /\ rows'[d].status \in {rows[d].status, "pending"}
      <3>1. rows[c] \in Row
        BY DEF Typed, TypeOK
      <3>2. CASE CreateCollector(c)
        BY <3>1, <3>2 DEF CreateCollector, Typed, TypeOK, Row
      <3>3. CASE RegenerateToken(c)
        BY <3>1, <3>3 DEF RegenerateToken, Typed, TypeOK, Row
      <3>4. CASE TokenExpires(c)
        BY <3>1, <3>4 DEF TokenExpires, Typed, TypeOK, Row
      <3>5. CASE Age(c)
        BY <3>1, <3>5 DEF Age, Typed, TypeOK, Row
      <3> QED
        BY <1>1, <3>2, <3>3, <3>4, <3>5 DEF Administer
    <2>2. UNCHANGED <<requests, allocated, peers, joined, spent>>
      BY <1>1 DEF Administer, CreateCollector, RegenerateToken, TokenExpires, Age
    <2> QED
      BY <2>1, <2>2 DEF Exists
  <1>2. ASSUME NEW c \in Collectors, NEW op \in Ops \ Joining, Starts(op, c, NoKey),
               UNCHANGED <<rows, allocated, peers, joined, spent>>
        PROVE  Aside /\ UNCHANGED <<allocated, peers>>
    <2> DEFINE q == [op |-> op, c |-> c, key |-> NoKey, ip |-> NoIp, snap |-> Read(op, c)]
    <2>1. requests' = requests \cup {q}
      BY <1>2 DEF Starts
    <2>2. /\ q.c = c /\ q.key = NoKey /\ q.op = op
          /\ \/ q.snap.ip = NoIp /\ q.snap.key = NoKey
             \/ q.snap.ip = rows[c].ip /\ q.snap.key = rows[c].key
      BY ReadIsTyped DEF Typed
    <2> HIDE DEF q
    <2> QED
      BY <1>2, <2>1, <2>2 DEF Exists
  <1>3. ASSUME NEW c \in Collectors, DeleteRead(c)
        PROVE  Aside /\ UNCHANGED <<allocated, peers>>
    <2>1. \E op \in Ops \ Joining : Starts(op, c, NoKey)
      BY <1>3 DEF DeleteRead, Ops, Joining
    <2> QED
      BY <1>2, <1>3, <2>1 DEF DeleteRead
  <1>4. ASSUME NEW c \in Collectors, NEW k \in Keys, HeartbeatRead(c, k)
        PROVE  Aside /\ UNCHANGED <<allocated, peers>>
    <2>1. "heartbeat" \in Ops \ Joining
      BY DEF Ops, Joining
    <2> QED
      BY <1>2, <1>4, <2>1 DEF HeartbeatRead
  <1>5. ASSUME NEW a \in Alerts, ResolveAlarm(a) \/ AcknowledgeRead(a) \/ AcknowledgeCommit(a)
        PROVE  Aside /\ UNCHANGED <<allocated, peers>>
    BY <1>5 DEF ResolveAlarm, AcknowledgeRead, AcknowledgeCommit, Exists
  <1>6. ASSUME NEW r \in requests, BootstrapFails(r)
        PROVE  Aside /\ UNCHANGED <<allocated, peers>>
    BY <1>6 DEF BootstrapFails, Ends, Exists
  <1>7. ASSUME NEW r \in requests, HeartbeatCommit(r)
        PROVE  Aside /\ UNCHANGED <<allocated, peers>>
    <2>1. r.snap \in Row /\ r.c \in Collectors
      BY DEF Typed, TypeOK, Request
    <2>2. \A c \in Collectors :
              rows'[c] = IF c = r.c /\ Exists(c) THEN Heard(rows[c], r.snap) ELSE rows[c]
      BY <1>7, <2>1 DEF HeartbeatCommit, Typed, TypeOK
    <2>3. \A c \in Collectors : /\ rows'[c].ip = rows[c].ip /\ rows'[c].key = rows[c].key
                               /\ rows'[c].status \in {rows[c].status, "online"}
      BY <2>1, <2>2, HeardIsTyped DEF Typed, TypeOK
    <2>4. (\A q \in requests' : q \in requests) /\ UNCHANGED <<allocated, peers, joined, spent>>
      BY <1>7 DEF HeartbeatCommit, Ends
    <2> QED
      BY <2>3, <2>4 DEF Exists
  <1>8. ASSUME NEW statuses, \A c \in Collectors : statuses[c] \in Shown,
               rows' = Rewritten(statuses), UNCHANGED <<requests, allocated, peers, joined, spent>>
        PROVE  Aside /\ UNCHANGED <<allocated, peers>>
    <2>1. \A c \in Collectors : /\ rows'[c].ip = rows[c].ip /\ rows'[c].key = rows[c].key
                               /\ rows'[c].status \in {rows[c].status, "online", "offline"}
      BY <1>8, RewrittenIsTyped DEF Typed
    <2> QED
      BY <1>8, <2>1 DEF Exists
  <1>9. ASSUME ListRead \/ MonitorRead \/ Restart PROVE Aside /\ UNCHANGED <<allocated, peers>>
    BY <1>9 DEF ListRead, MonitorRead, Restart, Exists
  <1>10. ASSUME ListCommit PROVE Aside /\ UNCHANGED <<allocated, peers>>
    BY <1>8, <1>10 DEF ListCommit, Typed, TypeOK
  <1>11. ASSUME MonitorCommit PROVE Aside /\ UNCHANGED <<allocated, peers>>
    <2> DEFINE statuses == [c \in Collectors |-> monitor[c].status]
    <2>1. rows' = Rewritten(statuses) /\ UNCHANGED <<requests, allocated, peers, joined, spent>>
      BY <1>11 DEF MonitorCommit
    <2>2. \A c \in Collectors : statuses[c] \in Shown
      BY DEF Typed, TypeOK, Verdict
    <2> HIDE DEF statuses
    <2> QED
      BY <1>8, <2>1, <2>2
  <1> QED
    BY <1>1, <1>3, <1>4, <1>5, <1>6, <1>7, <1>9, <1>10, <1>11

-----------------------------------------------------------------------------
(* What each request does to its collector's row, to the pool and to the   *)
(* peers when it goes on.                                                  *)

LEMMA RequestIsTyped ==
  ASSUME Typed, NEW r \in requests
  PROVE  /\ r \in Request /\ r.c \in Collectors /\ r.snap \in Row /\ rows[r.c] \in Row
         /\ r.key \in Keys \cup {NoKey} /\ NoIp \notin IPs
         /\ r.op \in Joining => r.key \in Keys
  BY DEF Typed, TypeOK, Admitted, Request, IPs

\* The continuation of a request.
LEMMA Goes ==
  ASSUME Typed, NEW r \in requests, NEW op \in Ops, op # r.op, NEW ip \in IPs \cup {NoIp},
         Continues(r, [r EXCEPT !.op = op, !.ip = ip])
  PROVE  /\ r \notin requests'
         /\ \A p, q \in requests' \ requests : p = q
         /\ \A q \in requests' \ requests : Same(q, r) /\ q.op = op /\ q.ip = ip
  <1> DEFINE q == [r EXCEPT !.op = op, !.ip = ip]
  <1>1. q.c = r.c /\ q.key = r.key /\ q.snap = r.snap /\ q.op = op /\ q.ip = ip
    BY RequestIsTyped DEF Request
  <1>2. requests' = (requests \ {r}) \cup {q}
    BY DEF Continues
  <1> HIDE DEF q
  <1> QED
    BY <1>1, <1>2 DEF Same

LEMMA SoundPurge ==
  ASSUME Typed, Sound, NEW r \in requests, Purge(r)
  PROVE  Sound'
  <1> DEFINE row == [Blank EXCEPT !.status = "deleted"]
  <1>1. row.ip = NoIp /\ row.key = NoKey
    BY DEF Blank
  <1>2. rows' = [rows EXCEPT ![r.c] = row] /\ requests' = requests \ {r}
        /\ UNCHANGED <<joined, spent>>
    BY DEF Purge, Ends
  <1> HIDE DEF row
  <1>3. \A c \in Collectors : rows'[c] = IF c = r.c THEN row ELSE rows[c]
    BY <1>2 DEF Typed, TypeOK
  <1> QED
    BY <1>1, <1>2, <1>3, SoundRewrite DEF Pair

LEMMA SoundPeer ==
  ASSUME Typed, Sound, NEW r \in requests, RevokePeer(r) \/ PeerFails(r)
  PROVE  Sound'
  <1>1. UNCHANGED <<rows, joined, spent>>
    BY DEF RevokePeer, PeerFails
  <1>2. r.c \in Collectors /\ r \in Request
    BY RequestIsTyped
  <1>3. \E op \in {"revoke", "compensate"} :
           /\ op # r.op /\ Continues(r, [r EXCEPT !.op = op, !.ip = r.ip])
           /\ op = "compensate" => r.op = "peer"
    <2>1. [r EXCEPT !.op = "revoke", !.ip = r.ip] = [r EXCEPT !.op = "revoke"]
      BY <1>2 DEF Request
    <2>2. [r EXCEPT !.op = "compensate", !.ip = r.ip] = [r EXCEPT !.op = "compensate"]
      BY <1>2 DEF Request
    <2> QED
      BY <2>1, <2>2 DEF RevokePeer, PeerFails
  <1>4. PICK op \in {"revoke", "compensate"} :
           /\ op # r.op /\ Continues(r, [r EXCEPT !.op = op, !.ip = r.ip])
           /\ op = "compensate" => r.op = "peer"
    BY <1>3
  <1>5. /\ r \notin requests'
        /\ \A p, q \in requests' \ requests : p = q
        /\ \A q \in requests' \ requests : Same(q, r) /\ q.op = op /\ q.ip = r.ip
    <2>1. op \in Ops /\ r.ip \in IPs \cup {NoIp}
      BY <1>2 DEF Ops, Request
    <2> QED
      BY <1>4, <2>1, Goes
  <1> DEFINE row == rows[r.c]
  <1>6. /\ Pair(row)
        /\ row.ip # NoIp => row.status \notin {"uncreated", "deleted"}
        /\ row.ip # NoIp => \A d \in Collectors \ {r.c} : rows[d].ip # row.ip
        /\ row.key = rows[r.c].key /\ row.ip = rows[r.c].ip
    BY <1>2 DEF Sound, Paired, GoneHoldNothing, Exists, OneHolder
  <1>7. \A c \in Collectors : rows'[c] = IF c = r.c THEN row ELSE rows[c]
    BY <1>1
  <1>8. r.op = "peer" => r.ip \in IPs /\ (row.key = r.key => row.ip = r.ip)
    BY DEF Sound, InPlace, Landing
  <1> HIDE DEF row
  <1>9. \A q \in requests' \ requests :
             /\ Same(q, r)
             /\ q.op \in Joining => r.op \in Joining
             /\ q.op # "bootstrap"
             /\ q.op \in Landing => q.ip \in IPs /\ (row.key = r.key => row.ip = q.ip)
    BY <1>4, <1>5, <1>8 DEF Joining, Landing
  <1> QED
    BY <1>1, <1>5, <1>6, <1>7, <1>9, SoundRewrite

\* A revocation clears what it read, or keeps the pair that came since.
LEMMA RevokedRow ==
  ASSUME Typed, Sound, NEW r \in requests, RevokeCommit(r), Exists(r.c)
  PROVE  LET row == Revoked(rows[r.c], r.snap)
         IN  /\ \A c \in Collectors : rows'[c] = IF c = r.c THEN row ELSE rows[c]
             /\ row.status \notin {"uncreated", "deleted"}
             /\ \/ row.key = NoKey /\ row.ip = NoIp
                \/ /\ row.key = rows[r.c].key /\ row.ip = rows[r.c].ip
                   /\ r.snap.ip = NoIp
  <1> DEFINE row == Revoked(rows[r.c], r.snap)
  <1>1. r.c \in Collectors /\ r.snap \in Row /\ rows[r.c] \in Row
    BY RequestIsTyped
  <1>2. /\ row.ip = Kept(rows[r.c].ip, r.snap.ip, NoIp)
        /\ row.key = Kept(rows[r.c].key, r.snap.key, NoKey)
        /\ row.status \in {rows[r.c].status, "revoked"}
    BY <1>1, RevokedIsTyped
  <1>3. rows' = [rows EXCEPT ![r.c] = row]
    BY DEF RevokeCommit
  <1>4. Pair(r.snap)
    BY DEF Sound, Paired
  <1> HIDE DEF row
  <1>5. \A c \in Collectors : rows'[c] = IF c = r.c THEN row ELSE rows[c]
    BY <1>3 DEF Typed, TypeOK
  <1>6. row.status \notin {"uncreated", "deleted"}
    BY <1>2 DEF Exists
  <1>7. \/ row.key = NoKey /\ row.ip = NoIp
        \/ /\ row.key = rows[r.c].key /\ row.ip = rows[r.c].ip
           /\ r.snap.ip = NoIp
    BY <1>2, <1>4 DEF Kept, Pair
  <1> QED
    BY <1>5, <1>6, <1>7 DEF row

LEMMA SoundRevoke ==
  ASSUME Typed, Sound, NEW r \in requests, RevokeCommit(r)
  PROVE  Sound'
  <1>1. requests' = requests \ {r} /\ UNCHANGED <<joined, spent>>
    BY DEF RevokeCommit, Ends
  <1>2. CASE ~ Exists(r.c)
    <2>1. rows' = rows
      BY <1>2 DEF RevokeCommit
    <2> QED
      BY <1>1, <2>1, SoundAside DEF Aside, Exists
  <1>3. CASE Exists(r.c)
    <2> DEFINE row == Revoked(rows[r.c], r.snap)
    <2>1. /\ \A c \in Collectors : rows'[c] = IF c = r.c THEN row ELSE rows[c]
          /\ row.status \notin {"uncreated", "deleted"}
          /\ \/ row.key = NoKey /\ row.ip = NoIp
             \/ row.key = rows[r.c].key /\ row.ip = rows[r.c].ip
      BY <1>3, RevokedRow
    <2> HIDE DEF row
    <2>2. r.c \in Collectors
      BY RequestIsTyped
    <2>3. Pair(row)
      BY <2>1, <2>2 DEF Sound, Paired, Pair
    <2>4. row.ip # NoIp => \A d \in Collectors \ {r.c} : rows[d].ip # row.ip
      BY <2>1, <2>2 DEF Sound, OneHolder
    <2>5. row.key = NoKey \/ (row.key = rows[r.c].key /\ row.ip = rows[r.c].ip)
      BY <2>1
    <2> QED
      BY <1>1, <2>1, <2>3, <2>4, <2>5, SoundRewrite
  <1> QED
    BY <1>2, <1>3

\* A registration gives its collector its key and an address nobody has.
LEMMA RegisteredRow ==
  ASSUME Typed, NEW r \in requests, BootstrapCommit(r)
  PROVE  \E ip \in IPs, row \in Row :
            /\ \A c \in Collectors : rows'[c] = IF c = r.c THEN row ELSE rows[c]
            /\ row.key = r.key /\ row.ip = ip /\ row.status \notin {"uncreated", "deleted"}
            /\ \A d \in Collectors \ {r.c} : rows[d].ip # ip
            /\ allocated' = (allocated \ {r.snap.ip}) \cup {ip}
            /\ Continues(r, [r EXCEPT !.op = "peer", !.ip = ip])
  <1>1. r.c \in Collectors /\ r.snap \in Row /\ rows[r.c] \in Row /\ r.key \in Keys
    BY RequestIsTyped DEF BootstrapCommit, Joining
  <1>2. PICK ip \in IPs :
            /\ ~ Taken(r.c, ip)
            /\ rows' = [rows EXCEPT ![r.c] = Registered(rows[r.c], r.snap, r.key, ip)]
            /\ allocated' = PoolFor(r.snap) \cup {ip}
            /\ Continues(r, [r EXCEPT !.op = "peer", !.ip = ip])
    BY DEF BootstrapCommit
  <1> DEFINE row == Registered(rows[r.c], r.snap, r.key, ip)
  <1>3. /\ row \in Row /\ row.ip = ip /\ row.key = r.key
        /\ row.status \in {rows[r.c].status, "offline"}
    <2> DEFINE cur == rows[r.c]
               old == r.snap
               key == r.key
    <2>1. cur \in Row /\ old \in Row /\ key \in Keys
      BY <1>1
    <2> HIDE DEF cur, old, key
    <2>2. /\ Registered(cur, old, key, ip) \in Row
          /\ Registered(cur, old, key, ip).ip = ip /\ Registered(cur, old, key, ip).key = key
          /\ Registered(cur, old, key, ip).active = Kept(cur.active, old.active, TRUE)
          /\ Registered(cur, old, key, ip).status \in {cur.status, "offline"}
      BY <2>1, RegisteredIsTyped
    <2> QED
      BY <2>2 DEF cur, old, key
  <1>4. rows' = [rows EXCEPT ![r.c] = row]
    BY <1>2
  <1> HIDE DEF row
  <1>5. \A c \in Collectors : rows'[c] = IF c = r.c THEN row ELSE rows[c]
    BY <1>4 DEF Typed, TypeOK
  <1>6. row.status \notin {"uncreated", "deleted"}
    BY <1>3 DEF BootstrapCommit, Exists
  <1>7. \A d \in Collectors \ {r.c} : rows[d].ip # ip
    BY <1>2 DEF Taken
  <1>8. allocated' = (allocated \ {r.snap.ip}) \cup {ip}
    BY <1>2 DEF PoolFor
  <1>9. Continues(r, [r EXCEPT !.op = "peer", !.ip = ip]) /\ ip \in IPs /\ row \in Row
    BY <1>2, <1>3
  <1> QED
    BY <1>3, <1>5, <1>6, <1>7, <1>8, <1>9

LEMMA SoundCommit ==
  ASSUME Typed, Sound, NEW r \in requests, BootstrapCommit(r)
  PROVE  Sound'
  <1>1. PICK ip \in IPs, row \in Row :
            /\ \A c \in Collectors : rows'[c] = IF c = r.c THEN row ELSE rows[c]
            /\ row.key = r.key /\ row.ip = ip /\ row.status \notin {"uncreated", "deleted"}
            /\ \A d \in Collectors \ {r.c} : rows[d].ip # ip
            /\ Continues(r, [r EXCEPT !.op = "peer", !.ip = ip])
    BY RegisteredRow
  <1>2. r.op = "bootstrap" /\ UNCHANGED <<joined, spent>>
    BY DEF BootstrapCommit
  <1>3. /\ r \notin requests'
        /\ \A p, q \in requests' \ requests : p = q
        /\ \A q \in requests' \ requests : Same(q, r) /\ q.op = "peer" /\ q.ip = ip
    <2>1. PICK op \in Ops : op = "peer"
      BY DEF Ops
    <2>2. op # r.op /\ ip \in IPs \cup {NoIp} /\ Continues(r, [r EXCEPT !.op = op, !.ip = ip])
      BY <1>1, <1>2, <2>1
    <2>3. /\ r \notin requests'
          /\ \A p, q \in requests' \ requests : p = q
          /\ \A q \in requests' \ requests : Same(q, r) /\ q.op = op /\ q.ip = ip
      BY <2>2, Goes
    <2> QED
      BY <2>1, <2>3
  <1>4. Pair(row)
    BY <1>1, <1>2, RequestIsTyped DEF Pair, Joining
  <1>5. \A q \in requests' \ requests :
             /\ Same(q, r)
             /\ q.op \in Joining => r.op \in Joining
             /\ q.op # "bootstrap"
             /\ q.op \in Landing => q.ip \in IPs /\ (row.key = r.key => row.ip = q.ip)
    BY <1>1, <1>2, <1>3 DEF Joining
  <1> QED
    BY <1>1, <1>2, <1>3, <1>4, <1>5, SoundRewrite

\* The compensation of a failed registration, if its collector is still there.
LEMMA CompensatedRow ==
  ASSUME Typed, NEW r \in requests, Compensate(r), Exists(r.c)
  PROVE  \E row \in Row :
            /\ \A c \in Collectors : rows'[c] = IF c = r.c THEN row ELSE rows[c]
            /\ row.key = NoKey /\ row.ip = NoIp
  <1> DEFINE row == [rows[r.c] EXCEPT !.key = NoKey, !.ip = NoIp, !.active = FALSE, !.status = "pending"]
  <1>1. rows[r.c] \in Row
    BY RequestIsTyped
  <1>2. row \in Row /\ row.key = NoKey /\ row.ip = NoIp
    BY <1>1 DEF Row, Status
  <1>3. rows' = [rows EXCEPT ![r.c] = row]
    BY DEF Compensate, Compensated
  <1> HIDE DEF row
  <1>4. \A c \in Collectors : rows'[c] = IF c = r.c THEN row ELSE rows[c]
    BY <1>3 DEF Typed, TypeOK
  <1> QED
    BY <1>2, <1>4

LEMMA SoundCompensate ==
  ASSUME Typed, Sound, NEW r \in requests, Compensate(r)
  PROVE  Sound'
  <1>1. requests' = requests \ {r} /\ UNCHANGED <<joined, spent>>
    BY DEF Compensate, Ends
  <1>2. CASE ~ Exists(r.c)
    <2>1. rows' = rows
      BY <1>2 DEF Compensate
    <2> QED
      BY <1>1, <2>1, SoundAside DEF Aside, Exists
  <1>3. CASE Exists(r.c)
    <2>1. PICK row \in Row :
            /\ \A c \in Collectors : rows'[c] = IF c = r.c THEN row ELSE rows[c]
            /\ row.key = NoKey /\ row.ip = NoIp
      BY <1>3, CompensatedRow
    <2> QED
      BY <1>1, <2>1, SoundRewrite DEF Pair
  <1> QED
    BY <1>2, <1>3

LEMMA SoundAnswer ==
  ASSUME Typed, Sound, NEW r \in requests, BootstrapPeer(r)
  PROVE  Sound'
  <1>1. /\ r.op = "peer" /\ requests' = requests \ {r}
        /\ joined' = joined \cup {r.key} /\ UNCHANGED <<rows, spent>>
    BY DEF BootstrapPeer, Ends
  <1>2. GoneHoldNothing' /\ OneHolder' /\ Paired' /\ InPlace'
    BY <1>1 DEF Sound, GoneHoldNothing, OneHolder, Paired, InPlace, Exists
  <1>3. \A c \in Collectors, k \in Keys : Claims(c, k)' => Claims(c, k)
    BY <1>1 DEF Claims
  <1>4. KeysBelong'
    BY <1>1, <1>3 DEF Sound, KeysBelong, Unanswered, Joining
  <1>5. Unanswered'
    BY <1>1 DEF Sound, Unanswered, Joining
  <1> QED
    BY <1>2, <1>4, <1>5 DEF Sound

LEMMA SoundStep == Typed /\ Sound /\ [Next]_vars => Sound'
  <1> SUFFICES ASSUME Typed, Sound, [Next]_vars PROVE Sound'
    OBVIOUS
  <1>1. CASE UNCHANGED vars
    BY <1>1, SoundAside DEF vars, Exists, Aside
  <1>2. ASSUME NEW r \in requests, Proceed(r) \/ PeerFails(r) PROVE Sound'
    BY <1>2, SoundPurge, SoundPeer, SoundRevoke, SoundCommit, SoundAnswer, SoundCompensate,
       AsideSteps, SoundAside DEF Proceed
  <1>3. ASSUME NEW c \in Collectors, BootstrapRead(c) PROVE Sound'
    BY <1>3, SoundBootstrapRead
  <1> QED
    BY <1>1, <1>2, <1>3, AsideSteps, SoundAside DEF Next

LEMMA AlwaysSound == Spec => [](Typed /\ Sound)
  <1>1. Typed /\ Sound /\ [Next]_vars => (Typed /\ Sound)'
    BY TypedStep, SoundStep
  <1> QED
    BY TypedInit, SoundInit, <1>1, PTL DEF Spec

-----------------------------------------------------------------------------
(* The pool of addresses.  A request that finds its collector with the     *)
(* address it expects moves that collector from one address to another in  *)
(* the rows and in the pool alike.                                         *)

LEMMA PoolMoves ==
  ASSUME Typed, Sound, NEW c \in Collectors, NEW ip, NEW i \in IPs,
         \A d \in Collectors : rows'[d].ip = IF d = c THEN ip ELSE rows[d].ip,
         \A d \in Collectors \ {c} : i = ip => rows[d].ip # ip,
         i \in allocated' <=> (i \in allocated /\ i # rows[c].ip) \/ i = ip,
         Agrees(i)
  PROVE  Agrees(i)'
  <1>1. i # NoIp
    BY DEF IPs
  <1>2. CASE i = ip
    BY <1>2 DEF Agrees
  <1>3. CASE i # ip /\ i = rows[c].ip
    <2>1. \A d \in Collectors : rows'[d].ip # i
      BY <1>1, <1>3 DEF Sound, OneHolder
    <2> QED
      BY <1>3, <2>1 DEF Agrees
  <1>4. CASE i # ip /\ i # rows[c].ip
    <2>1. \A d \in Collectors : rows'[d].ip = i <=> rows[d].ip = i
      BY <1>4
    <2> QED
      BY <1>4, <2>1 DEF Agrees
  <1> QED
    BY <1>2, <1>3, <1>4

LEMMA PoolKept ==
  ASSUME NEW i \in IPs, Agrees(i), allocated' = allocated,
         \A d \in Collectors : rows'[d].ip = rows[d].ip
  PROVE  Agrees(i)'
  BY DEF Agrees

LEMMA PoolRequest ==
  ASSUME Typed, Sound, NEW r \in requests, NEW i \in IPs, Agrees(i), ~ Outdated(r),
         Purge(r) \/ RevokeCommit(r) \/ BootstrapCommit(r) \/ Compensate(r)
  PROVE  Agrees(i)'
  <1>0. r.c \in Collectors /\ NoIp \notin IPs
    BY RequestIsTyped
  <1>1. CASE Purge(r)
    <2>1. rows[r.c].ip = NoIp
      BY <1>1 DEF Purge, Outdated, Expected
    <2>2. \A d \in Collectors : rows'[d].ip = IF d = r.c THEN NoIp ELSE rows[d].ip
      BY <1>1 DEF Purge, Typed, TypeOK, Blank
    <2> QED
      BY <1>0, <1>1, <2>1, <2>2, PoolKept DEF Purge
  <1>2. CASE RevokeCommit(r)
    <2>1. rows[r.c].ip = r.snap.ip
      BY <1>2 DEF RevokeCommit, Outdated, Expected
    <2>2. CASE Exists(r.c)
      <3> DEFINE row == Revoked(rows[r.c], r.snap)
      <3>1. /\ \A c \in Collectors : rows'[c] = IF c = r.c THEN row ELSE rows[c]
            /\ \/ row.ip = NoIp
               \/ row.ip = rows[r.c].ip /\ r.snap.ip = NoIp
        BY <1>2, <2>2, RevokedRow
      <3> HIDE DEF row
      <3>2. row.ip = NoIp
        BY <2>1, <3>1
      <3>3. \A d \in Collectors : rows'[d].ip = IF d = r.c THEN NoIp ELSE rows[d].ip
        BY <3>1, <3>2
      <3>4. i \in allocated' <=> (i \in allocated /\ i # rows[r.c].ip) \/ i = NoIp
        BY <1>0, <1>2, <2>1, <2>2 DEF RevokeCommit
      <3> QED
        BY <1>0, <3>3, <3>4, PoolMoves
    <2>3. CASE ~ Exists(r.c)
      BY <1>2, <2>3, PoolKept DEF RevokeCommit
    <2> QED
      BY <2>2, <2>3
  <1>3. CASE BootstrapCommit(r)
    <2>1. rows[r.c].ip = r.snap.ip
      BY <1>3 DEF BootstrapCommit, Outdated, Expected
    <2>2. PICK ip \in IPs, row \in Row :
              /\ \A c \in Collectors : rows'[c] = IF c = r.c THEN row ELSE rows[c]
              /\ row.ip = ip
              /\ \A d \in Collectors \ {r.c} : rows[d].ip # ip
              /\ allocated' = (allocated \ {r.snap.ip}) \cup {ip}
      BY <1>3, RegisteredRow
    <2>3. \A d \in Collectors : rows'[d].ip = IF d = r.c THEN ip ELSE rows[d].ip
      BY <2>2
    <2>4. i \in allocated' <=> (i \in allocated /\ i # rows[r.c].ip) \/ i = ip
      BY <2>1, <2>2
    <2> QED
      BY <1>0, <2>2, <2>3, <2>4, PoolMoves
  <1>4. CASE Compensate(r)
    <2>1. rows[r.c].ip = r.ip /\ r.ip \in IPs
      BY <1>4 DEF Compensate, Outdated, Expected, Sound, InPlace, Landing
    <2>2. Exists(r.c)
      BY <1>0, <2>1 DEF Sound, GoneHoldNothing
    <2>3. PICK row \in Row :
              /\ \A c \in Collectors : rows'[c] = IF c = r.c THEN row ELSE rows[c]
              /\ row.ip = NoIp
      BY <1>4, <2>2, CompensatedRow
    <2>4. \A d \in Collectors : rows'[d].ip = IF d = r.c THEN NoIp ELSE rows[d].ip
      BY <2>3
    <2>5. i \in allocated' <=> (i \in allocated /\ i # rows[r.c].ip) \/ i = NoIp
      BY <1>0, <1>4, <2>1 DEF Compensate
    <2> QED
      BY <1>0, <2>4, <2>5, PoolMoves
  <1> QED
    BY <1>1, <1>2, <1>3, <1>4

\* The requests that change rows are over for their collector once they have.
LEMMA RequestActs ==
  ASSUME Typed, NEW r \in requests, Proceed(r) \/ PeerFails(r)
  PROVE  r \in Acting
  <1>0. r \in Request
    BY RequestIsTyped
  <1>1. CASE Ends(r)
    BY <1>1 DEF Ends, Acting
  <1>2. ASSUME NEW op, NEW ip, op # r.op, Continues(r, [r EXCEPT !.op = op, !.ip = ip])
        PROVE  r \in Acting
    BY <1>0, <1>2 DEF Continues, Acting, Request
  <1>3. CASE RevokePeer(r) \/ PeerFails(r)
    <2>1. PICK op : op # r.op /\ requests' = (requests \ {r}) \cup {[r EXCEPT !.op = op]}
      BY <1>3 DEF RevokePeer, PeerFails, Continues
    <2> QED
      BY <1>0, <2>1 DEF Acting, Request
  <1>4. CASE BootstrapCommit(r)
    BY <1>2, <1>4 DEF BootstrapCommit
  <1> QED
    BY <1>1, <1>3, <1>4 DEF Proceed, Purge, RevokeCommit, BootstrapFails, BootstrapPeer,
       Compensate, HeartbeatCommit

LEMMA PoolStep ==
  ASSUME Typed, Sound, [Next]_vars, NEW i \in IPs, Agrees(i), ~ Agrees(i)'
  PROVE  \E r \in Acting : Outdated(r)
  <1>1. CASE UNCHANGED vars
    BY <1>1, PoolKept DEF vars
  <1>2. ASSUME NEW r \in requests, Proceed(r) \/ PeerFails(r)
        PROVE  \E q \in Acting : Outdated(q)
    <2>1. CASE RevokePeer(r) \/ PeerFails(r) \/ BootstrapPeer(r)
      BY <2>1, PoolKept DEF RevokePeer, PeerFails, BootstrapPeer
    <2>2. CASE BootstrapFails(r) \/ HeartbeatCommit(r)
      <3>1. Aside /\ allocated' = allocated
        BY <2>2, AsideSteps
      <3> QED
        BY <3>1, PoolKept DEF Aside
    <2>3. CASE Purge(r) \/ RevokeCommit(r) \/ BootstrapCommit(r) \/ Compensate(r)
      <3>1. Outdated(r)
        BY <2>3, PoolRequest
      <3> QED
        BY <1>2, <3>1, RequestActs
    <2> QED
      BY <1>2, <2>1, <2>2, <2>3 DEF Proceed
  <1>3. ASSUME NEW c \in Collectors, BootstrapRead(c) PROVE FALSE
    BY <1>3, PoolKept DEF BootstrapRead
  <1>4. CASE Aside /\ UNCHANGED <<allocated, peers>>
    BY <1>4, PoolKept DEF Aside
  <1> QED
    BY <1>1, <1>2, <1>3, <1>4, AsideSteps DEF Next

\* The pool and the rows part only by a request whose collector was given another
\* address since it read it, for any number of collectors, addresses and requests.
THEOREM PoolPartsOnlyByOutdatedRequests == Spec => PoolPartsOnlyByOutdated
  <1>1. Typed /\ Sound /\ [Next]_vars =>
           [\A i \in IPs : Agrees(i) /\ ~Agrees(i)' => \E r \in Acting : Outdated(r)]_vars
    BY PoolStep
  <1> QED
    BY AlwaysSound, <1>1, PTL DEF Spec, PoolPartsOnlyByOutdated

-----------------------------------------------------------------------------
(* Tunnels.  A connected collector c with an answered key k: no request    *)
(* about another collector has k, and only a superseded one its address.   *)

LEMMA RowIsKept ==
  ASSUME Typed, NEW c \in Collectors, NEW k, Connected(c, k), ~ Connected(c, k)',
         rows'[c].key = rows[c].key, rows'[c].ip = rows[c].ip
  PROVE  peers' # peers
  BY DEF Connected

LEMMA NobodyElsesKey ==
  ASSUME Typed, Sound, NEW c \in Collectors, NEW k \in joined, Connected(c, k), NEW r \in requests
  PROVE  /\ r.c # c => r.snap.key # k
         /\ r.op \in Joining => r.key # k
         /\ r.op = "peer" /\ ~ Superseded(r) => r.c # c /\ r.ip # rows[c].ip
  <1>1. r.c \in Collectors /\ k \in Keys /\ Claims(c, k)
    BY RequestIsTyped DEF Typed, TypeOK, Claims, Connected
  <1>2. ASSUME r.c # c PROVE r.snap.key # k
    <2>1. r.snap.key = k => Claims(r.c, k)
      BY DEF Claims
    <2> QED
      BY <1>1, <1>2, <2>1 DEF Sound, KeysBelong
  <1>3. ASSUME r.op \in Joining PROVE r.key # k
    BY <1>3 DEF Sound, Unanswered
  <1>4. ASSUME r.op = "peer", ~ Superseded(r) PROVE r.c # c /\ r.ip # rows[c].ip
    <2>1. rows[r.c].key = r.key /\ r.key # k /\ rows[c].key = k
      BY <1>3, <1>4 DEF Superseded, Joining, Connected
    <2>2. r.ip \in IPs /\ rows[r.c].ip = r.ip
      BY <1>4, <2>1 DEF Sound, InPlace, Landing
    <2>3. r.c # c
      BY <2>1
    <2>4. rows[r.c].ip # NoIp
      BY <2>2 DEF IPs
    <2> QED
      BY <1>1, <2>2, <2>3, <2>4 DEF Sound, OneHolder
  <1> QED
    BY <1>2, <1>3, <1>4

\* A step that changes no peer and the row of one collector at most.
LEMMA TunnelRow ==
  ASSUME Typed, NEW c \in Collectors, NEW k \in joined, Connected(c, k), ~ Connected(c, k)',
         NEW r \in requests, r \in Acting,
         Purge(r) \/ RevokeCommit(r) \/ BootstrapCommit(r) \/ Compensate(r)
  PROVE  r.c = c /\ r.op # "peer"
  <1>1. peers' = peers /\ r.op # "peer"
    BY DEF Purge, RevokeCommit, BootstrapCommit, Compensate
  <1>2. rows' = rows \/ \E row : rows' = [rows EXCEPT ![r.c] = row]
    <2>1. CASE Purge(r)
      BY <2>1 DEF Purge
    <2>2. CASE RevokeCommit(r)
      BY <2>2 DEF RevokeCommit
    <2>3. CASE BootstrapCommit(r)
      BY <2>3 DEF BootstrapCommit
    <2>4. CASE Compensate(r)
      BY <2>4 DEF Compensate
    <2> QED
      BY <2>1, <2>2, <2>3, <2>4
  <1>3. r.c # c => rows'[c] = rows[c]
    BY <1>2 DEF Typed, TypeOK
  <1> QED
    BY <1>1, <1>3, RowIsKept

\* A step that changes peers.
LEMMA TunnelPeer ==
  ASSUME Typed, Sound, NEW c \in Collectors, NEW k \in joined, Connected(c, k), ~ Connected(c, k)',
         NEW r \in requests, RevokePeer(r) \/ PeerFails(r) \/ BootstrapPeer(r)
  PROVE  (r.c = c /\ r.op # "peer") \/ Superseded(r)
  <1>1. UNCHANGED rows
    BY DEF RevokePeer, PeerFails, BootstrapPeer
  <1>2. rows[c].ip \in IPs /\ peers[rows[c].ip] = k /\ peers'[rows[c].ip] # k
    BY <1>1 DEF Connected
  <1>3. Without(r.snap.key)[rows[c].ip] = k \/ r.snap.key = k
    BY <1>2 DEF Without
  <1>4. CASE RevokePeer(r)
    <2>1. r.op = "delete" /\ peers' \in {Without(r.snap.key), peers}
      BY <1>4 DEF RevokePeer
    <2> QED
      BY <1>2, <1>3, <2>1, NobodyElsesKey
  <1>5. CASE PeerFails(r)
    <2>1. r.op = "peer" /\ peers' \in {Without(r.snap.key), peers}
      BY <1>5 DEF PeerFails
    <2> QED
      BY <1>2, <1>3, <2>1, NobodyElsesKey
  <1>6. ASSUME BootstrapPeer(r), ~ Superseded(r) PROVE FALSE
    <2>1. r.op = "peer" /\ r.op \in Joining
      BY <1>6 DEF BootstrapPeer, Joining
    <2>2. r.c # c /\ r.snap.key # k /\ r.key # k /\ r.ip # rows[c].ip
      BY <1>6, <2>1, NobodyElsesKey
    <2>3. \E now \in {Without(r.snap.key), peers} : peers' = Routed(now, r.key, r.ip)
      BY <1>6 DEF BootstrapPeer
    <2>4. PICK now : now[rows[c].ip] = k /\ peers' = Routed(now, r.key, r.ip)
      BY <1>2, <1>3, <2>2, <2>3
    <2>5. peers'[rows[c].ip] = k
      BY <1>2, <2>2, <2>4 DEF Routed
    <2> QED
      BY <1>2, <2>5
  <1> QED
    BY <1>4, <1>5, <1>6

LEMMA TunnelStep ==
  ASSUME Typed, Sound, [Next]_vars, NEW c \in Collectors, NEW k \in joined,
         Connected(c, k), ~ Connected(c, k)'
  PROVE  \E r \in Acting : (r.c = c /\ r.op # "peer") \/ Superseded(r)
  <1>1. CASE UNCHANGED vars
    BY <1>1, RowIsKept DEF vars
  <1>2. CASE Aside /\ UNCHANGED <<allocated, peers>>
    BY <1>2, RowIsKept DEF Aside
  <1>3. ASSUME NEW r \in requests, Proceed(r) \/ PeerFails(r)
        PROVE  \E q \in Acting : (q.c = c /\ q.op # "peer") \/ Superseded(q)
    <2>1. r \in Acting
      BY <1>3, RequestActs
    <2>2. CASE BootstrapFails(r) \/ HeartbeatCommit(r)
      BY <1>2, <2>2, AsideSteps
    <2>3. CASE Purge(r) \/ RevokeCommit(r) \/ BootstrapCommit(r) \/ Compensate(r)
      BY <2>1, <2>3, TunnelRow
    <2>4. CASE RevokePeer(r) \/ PeerFails(r) \/ BootstrapPeer(r)
      BY <2>1, <2>4, TunnelPeer
    <2> QED
      BY <1>3, <2>2, <2>3, <2>4 DEF Proceed
  <1>4. ASSUME NEW d \in Collectors, BootstrapRead(d) PROVE FALSE
    BY <1>4, RowIsKept DEF BootstrapRead
  <1> QED
    BY <1>1, <1>2, <1>3, <1>4, AsideSteps DEF Next

\* A machine that was answered keeps its tunnel until a request of its own collector,
\* or a superseded one, takes it, for any number of collectors, addresses and requests.
THEOREM TunnelAlwaysKept == Spec => TunnelIsKept
  <1>1. Typed /\ Sound /\ [Next]_vars =>
           [\A c \in Collectors, k \in joined :
               Connected(c, k) /\ ~Connected(c, k)' =>
                  \E r \in Acting : (r.c = c /\ r.op # "peer") \/ Superseded(r)]_vars
    BY TunnelStep
  <1> QED
    BY AlwaysSound, <1>1, PTL DEF Spec, TunnelIsKept
=============================================================================
