------------------------ MODULE AlertIncidentsProofs ------------------------
(***************************************************************************)
(* AlertEngine implements AlertIncidents, for any rules, devices, gates,   *)
(* requests and faults.  That a fingerprint has one standing alert is      *)
(* SessionAgrees; that an acknowledgement lasts needs in addition that the *)
(* rows a session is about to commit carry it (AcksAgree), and that no     *)
(* commit reopens an acknowledged alert that what it read as suppressed    *)
(* nobody acknowledges meanwhile (AcksKept).                               *)
(***************************************************************************)
EXTENDS AlertEngineProofs

\* A written row is as much acknowledged as the committed one, and a new one is not.
AcksAgree ==
    \A id \in dirty : tx[id].status \in Live /\ ~tx[id].byUser =>
        IF alerts[id].status \in Live THEN tx[id].acked = alerts[id].acked /\ ~alerts[id].byUser
                                      ELSE tx[id].acked = FALSE

Agrees == TypeOK /\ SessionAgrees /\ AcksAgree

-----------------------------------------------------------------------------
(* Acknowledgements through a cycle.                                       *)

LEMMA FiredAck ==
    ASSUME TypeOK, NEW id \in AlertIds, NEW created, NEW revived, NEW retro
    PROVE  Fired(id, created, revived, retro).acked = (id \notin created /\ tx[id].acked)
<1>1. tx[id] \in Row /\ NewAlert(FpOf(id)).acked = FALSE
  BY DEF TypeOK, RowsOK, NewAlert, Absent
<1> QED
  BY <1>1 DEF Fired, Row

LEMMA SettledAck ==
    ASSUME NEW id, NEW row \in Row, NEW resolving, NEW created
    PROVE  Settled(id, row, resolving, created).acked = row.acked
BY DEF Settled, Row

LEMMA NewRowAck ==
    ASSUME TypeOK, NEW r \in Rules, \A fp \in Creating(r) : FreeIds(fp) # {}, NEW id \in AlertIds
    PROVE  NewRow(r, id).acked = (id \notin Created(r) /\ tx[id].acked)
<1> DEFINE f == Fired(id, Created(r), Revived(r), RetroSuppressed(r))
           e == Escalated(r, id, f)
           n == Renotified(r, id, e)
<1>1. f \in Row
  <2>1. \A i \in Revived(r) \cup RetroSuppressed(r) : tx[i].status \in Live
    BY ActedOn
  <2> QED
    BY <2>1, FiredShape
<1>2. f.acked = (id \notin Created(r) /\ tx[id].acked)
  BY FiredAck
<1> HIDE DEF f
<1>3. e \in Row /\ e.acked = f.acked
  BY <1>1, EscalatedShape DEF Escalated, Row
<1> HIDE DEF e
<1>4. n \in Row /\ n.acked = e.acked
  BY <1>3, RenotifiedShape DEF Renotified, Row
<1> HIDE DEF n
<1>5. Settled(id, n, Resolving(r), Created(r)).acked = n.acked
  BY <1>4, SettledAck
<1> QED
  BY <1>2, <1>3, <1>4, <1>5 DEF NewRow, n, e, f

LEMMA EvaluateKeepsAcks ==
    ASSUME Agrees, NEW r \in Rules, EvaluateRule(r)
    PROVE  AcksAgree'
<1> SUFFICES ASSUME NEW id \in AlertIds, id \in dirty', tx'[id].status \in Live, ~tx'[id].byUser
             PROVE  IF alerts[id].status \in Live
                    THEN tx'[id].acked = alerts[id].acked /\ ~alerts[id].byUser
                    ELSE tx'[id].acked = FALSE
  BY EvaluateFacts DEF AcksAgree, Agrees, TypeOK
<1> USE DEF Agrees
<1>1. tx[id] \in Row /\ NewRow(r, id) \in Row /\ Stored(id) \in Row
  BY EvaluateFacts, NewRowShape, StoredShape DEF TypeOK, RowsOK
<1>2. NewRow(r, id).acked = (id \notin Created(r) /\ tx[id].acked)
  BY EvaluateFacts, NewRowAck
<1>3. CASE id \in Created(r)
  <2>1. tx'[id] = NewRow(r, id) /\ alerts[id].status \notin Live
    BY <1>3, EvaluateFacts, EvaluateEffect
  <2> QED
    BY <1>2, <1>3, <2>1
<1>4. CASE id \notin Created(r)
  <2>1. tx'[id] = Flush(tx[id], NewRow(r, id), Stored(id))
    BY <1>4, EvaluateFacts
  <2>2. NewRow(r, id).acked = tx[id].acked
    BY <1>1, <1>2, <1>4 DEF Row
  <2>3. tx'[id].acked = Stored(id).acked
    BY <1>1, <2>1, <2>2 DEF Flush, Row
  <2>4. ~Stored(id).byUser /\ Stored(id).status \in Live
    BY <1>4, EvaluateEffect
  <2>5. CASE id \in dirty
    BY <2>3, <2>4, <2>5 DEF Stored, AcksAgree
  <2>6. CASE id \notin dirty
    BY <2>3, <2>4, <2>6 DEF Stored
  <2> QED
    BY <2>5, <2>6
<1> QED
  BY <1>3, <1>4

LEMMA AcksInit == Init => AcksAgree
BY DEF Init, AcksAgree

\* No step but a rule's writes rows of a session and keeps it open; requests leave
\* its rows alone.
LEMMA AcksStep == Agrees /\ [Next]_vars => AcksAgree'
<1> SUFFICES ASSUME Agrees, [Next]_vars PROVE AcksAgree'
  OBVIOUS
<1> USE DEF Agrees
<1>1. ASSUME NEW r \in Rules, EvaluateRule(r) PROVE AcksAgree'
  BY <1>1, EvaluateKeepsAcks
<1>2. ASSUME NEW r \in Rules, LookupFails(r) \/ EvaluatorFails(r) PROVE AcksAgree'
  <2>1. UNCHANGED <<alerts, dirty>> /\ tx' = [id \in AlertIds |-> Stored(id)]
    BY <1>2 DEF LookupFails, EvaluatorFails
  <2> QED
    BY <2>1 DEF AcksAgree, Stored, TypeOK
<1>3. ASSUME Operators PROVE AcksAgree'
  <2>1. PICK id \in AlertIds : \/ RequestRead("acknowledge", id) \/ RequestRead("resolve", id)
                               \/ Acknowledge(id) \/ Resolve(id)
    BY <1>3 DEF Operators
  <2>2. UNCHANGED <<tx, dirty>> /\ \A i \in dirty : alerts'[i] = alerts[i]
    BY <2>1 DEF RequestRead, Acknowledge, Resolve, cycle, TypeOK, RowsOK
  <2> QED
    BY <2>2 DEF AcksAgree
<1>4. ASSUME Commit \/ CommitFails \/ Restart PROVE AcksAgree'
  BY <1>4 DEF Commit, CommitFails, Restart, CloseSession, AcksAgree
<1>5. ASSUME BeginCycle PROVE AcksAgree'
  <2>1. dirty' = {}
    BY <1>5, ConstantsAssumption
       DEF BeginCycle, SessionAgrees, OnlySessionsWrite, InSession, Idle, CommitTurn
  <2> QED
    BY <2>1 DEF AcksAgree
<1>6. ASSUME Tick \/ Housekeeping \/ Dispatch PROVE AcksAgree'
  <2>0. turn = Idle \/ turn = DispatchTurn
    BY <1>6 DEF Tick, Housekeeping, Dispatch
  <2>1. ~InSession
    BY <2>0, Identifiers DEF InSession, Idle, CommitTurn, DispatchTurn
  <2>2. dirty = {} /\ dirty' = dirty
    BY <1>6, <2>1 DEF Tick, Housekeeping, Dispatch, cycle, SessionAgrees, OnlySessionsWrite
  <2> QED
    BY <2>2 DEF AcksAgree
<1>7. ASSUME \/ \E fp \in FPs : ConditionChanges(fp)
             \/ \E d \in Devices : MaintenanceChanges(d)
             \/ UNCHANGED vars
      PROVE  AcksAgree'
  BY <1>7 DEF ConditionChanges, MaintenanceChanges, vars, cycle, AcksAgree
<1> QED
  BY <1>1, <1>2, <1>3, <1>4, <1>5, <1>6, <1>7 DEF Next, Environment, Evaluation

LEMMA AlwaysAgrees == Spec => []Agrees
<1>1. Init => Agrees
  BY TypeInit, AgreementInit, AcksInit DEF Agrees
<1>2. Agrees /\ [Next]_vars => Agrees'
  BY TypeStep, AgreementStep, AcksStep DEF Agrees
<1> QED
  BY <1>1, <1>2, PTL DEF Spec

-----------------------------------------------------------------------------
(* Incidents.                                                              *)

IncidentOf(fp) == IF Standing(fp) = {} THEN NoAlert ELSE CHOOSE id \in Standing(fp) : TRUE
Answered == {fp \in FPs : \E id \in Standing(fp) : alerts[id].acked}

LEMMA StandingShape ==
    ASSUME NEW fp \in FPs, NEW id
    PROVE  id \in Standing(fp) <=> /\ id \in AlertIds /\ FpOf(id) = fp
                                   /\ alerts[id].status \in Live /\ ~alerts[id].byUser
BY LiveIdsShape DEF Standing

\* A standing alert is a candidate, and there is one candidate.
LEMMA OneStands ==
    ASSUME Agrees, NEW fp \in FPs, NEW i \in Standing(fp)
    PROVE  /\ IncidentOf(fp) = i /\ i \in AlertIds /\ i # NoAlert
           /\ \A j \in AlertIds : FpOf(j) = fp /\ Candidate(j) => j = i
<1>1. ASSUME NEW j \in Standing(fp) PROVE j \in AlertIds /\ FpOf(j) = fp /\ Candidate(j)
  BY <1>1, StandingShape DEF Candidate, Stored, Agrees, SessionAgrees, ResolvedByStays
<1>2. \A j \in AlertIds : FpOf(j) = fp /\ Candidate(j) => j = i
  BY <1>1 DEF Agrees, SessionAgrees, OneCandidate
<1>3. (CHOOSE j \in Standing(fp) : TRUE) \in Standing(fp)
  OBVIOUS
<1>4. IncidentOf(fp) = i
  BY <1>1, <1>2, <1>3 DEF IncidentOf
<1> QED
  BY <1>1, <1>2, <1>4, ConstantsAssumption

LEMMA IncidentShape ==
    ASSUME Agrees, NEW fp \in FPs
    PROVE  /\ IncidentOf(fp) = NoAlert <=> Standing(fp) = {}
           /\ IncidentOf(fp) # NoAlert => IncidentOf(fp) \in Standing(fp) /\ IncidentOf(fp) \in AlertIds
<1>1. CASE Standing(fp) = {}
  BY <1>1 DEF IncidentOf
<1>2. CASE Standing(fp) # {}
  <2>1. PICK i \in Standing(fp) : TRUE
    BY <1>2
  <2> QED
    BY <1>2, <2>1, OneStands
<1> QED
  BY <1>1, <1>2

IncidentNext(fp) == IF Standing(fp)' = {} THEN NoAlert ELSE CHOOSE id \in Standing(fp)' : TRUE

LEMMA SameIncidents ==
    ASSUME \A fp \in FPs : Standing(fp)' = Standing(fp),
           \A fp \in FPs : \A id \in Standing(fp) : alerts'[id].acked = alerts[id].acked
    PROVE  UNCHANGED Incidents!vars
<1>1. Answered' = Answered
  BY DEF Answered
<1>2. \A fp \in FPs : IncidentNext(fp) = IncidentOf(fp)
  <2> SUFFICES ASSUME NEW fp \in FPs PROVE IncidentNext(fp) = IncidentOf(fp)
    OBVIOUS
  <2>1. Standing(fp)' = Standing(fp)
    OBVIOUS
  <2> QED
    BY <2>1 DEF IncidentNext, IncidentOf
<1>3. [fp \in FPs |-> IncidentNext(fp)] = [fp \in FPs |-> IncidentOf(fp)]
  BY <1>2
<1> QED
  BY <1>1, <1>3 DEF Incidents!vars, Answered, IncidentNext, IncidentOf

\* Steps that change neither who stands nor what is acknowledged are no steps of the
\* incidents.
LEMMA QuietStep ==
    ASSUME \A id \in AlertIds : /\ alerts'[id].status \in Live <=> alerts[id].status \in Live
                                /\ alerts'[id].byUser = alerts[id].byUser
                                /\ alerts'[id].acked = alerts[id].acked
    PROVE  UNCHANGED Incidents!vars
<1>1. \A fp \in FPs : Standing(fp)' = Standing(fp)
  <2> SUFFICES ASSUME NEW fp \in FPs PROVE Standing(fp)' = Standing(fp)
    OBVIOUS
  <2>1. LiveIds(alerts', fp) = {id \in AlertIds : FpOf(id) = fp /\ alerts'[id].status \in Live}
    BY LiveIdsShape
  <2> QED
    BY <2>1, LiveIdsShape DEF Standing
<1> QED
  BY <1>1, StandingShape, SameIncidents

LEMMA QuietSteps ==
    ASSUME TypeOK,
           \/ Environment \/ BeginCycle \/ Evaluation \/ CommitFails \/ Housekeeping
           \/ Dispatch \/ Restart
           \/ \E op \in {"acknowledge", "resolve"}, id \in AlertIds : RequestRead(op, id)
           \/ UNCHANGED vars
    PROVE  UNCHANGED Incidents!vars
<1>1. CASE Tick
  <2>1. ASSUME NEW id \in AlertIds
        PROVE  /\ alerts'[id].status = alerts[id].status
               /\ alerts'[id].byUser = alerts[id].byUser
               /\ alerts'[id].acked = alerts[id].acked
    <3>1. /\ alerts[id] \in Row
          /\ \E n, a : alerts'[id] = [alerts[id] EXCEPT !.notified = n, !.age = a]
      BY <1>1, <2>1 DEF Tick, TypeOK, RowsOK
    <3> QED
      BY <3>1 DEF Row
  <2> QED
    BY <2>1, QuietStep
<1>2. CASE Housekeeping
  BY <1>2, QuietStep DEF Housekeeping, RecoverOrphans, TypeOK, RowsOK, Row, Live
<1>3. CASE UNCHANGED alerts
  BY <1>3, QuietStep
<1>4. ASSUME Evaluation PROVE UNCHANGED alerts
  BY <1>4 DEF Evaluation, EvaluateRule, LookupFails, EvaluatorFails
<1>5. ASSUME \/ \E fp \in FPs : ConditionChanges(fp)
             \/ \E d \in Devices : MaintenanceChanges(d)
             \/ \E op \in {"acknowledge", "resolve"}, id \in AlertIds : RequestRead(op, id)
             \/ BeginCycle \/ CommitFails \/ Dispatch \/ Restart \/ UNCHANGED vars
      PROVE  UNCHANGED alerts
  BY <1>5 DEF ConditionChanges, MaintenanceChanges, RequestRead, BeginCycle, CommitFails,
              Dispatch, Restart, vars
<1> QED
  BY <1>1, <1>2, <1>3, <1>4, <1>5 DEF Environment

\* Who stands in a fingerprint once the rows are those given.
LEMMA StandingNext ==
    ASSUME NEW fp \in FPs
    PROVE  Standing(fp)' = {id \in AlertIds : /\ FpOf(id) = fp
                                             /\ alerts'[id].status \in Live /\ ~alerts'[id].byUser}
<1>1. LiveIds(alerts', fp) = {id \in AlertIds : FpOf(id) = fp /\ alerts'[id].status \in Live}
  BY LiveIdsShape
<1> QED
  BY <1>1 DEF Standing

\* A committed cycle opens, closes or keeps the incident of a fingerprint.
LEMMA CommitOne ==
    ASSUME Agrees, Commit, NEW fp \in FPs
    PROVE  /\ \/ IncidentOf(fp) = NoAlert /\ IncidentNext(fp) \in AlertIds
              \/ IncidentOf(fp) # NoAlert /\ IncidentNext(fp) = NoAlert
              \/ IncidentNext(fp) = IncidentOf(fp)
           /\ (\E id \in Standing(fp)' : alerts'[id].acked)
                <=> /\ \E id \in Standing(fp) : alerts[id].acked
                    /\ IncidentNext(fp) = IncidentOf(fp)
<1> USE DEF Agrees
<1>1. alerts' = [id \in AlertIds |-> Stored(id)]
  BY DEF Commit
<1>2. Standing(fp)' = {id \in AlertIds : /\ FpOf(id) = fp
                                         /\ Stored(id).status \in Live /\ ~Stored(id).byUser}
  BY <1>1, StandingNext
<1>3. \A i \in Standing(fp)' : \A j \in AlertIds : FpOf(j) = fp /\ Candidate(j) => j = i
  BY <1>2 DEF Candidate, SessionAgrees, OneCandidate
<1>4. \A i \in Standing(fp) : Candidate(i)
  BY StandingShape DEF Candidate, Stored, SessionAgrees, ResolvedByStays
<1>5. \A i \in Standing(fp)' : IncidentNext(fp) = i /\ i \in AlertIds /\ i # NoAlert /\ Candidate(i)
  <2> SUFFICES ASSUME NEW i \in Standing(fp)'
               PROVE  IncidentNext(fp) = i /\ i \in AlertIds /\ i # NoAlert /\ Candidate(i)
    OBVIOUS
  <2>1. \A j \in Standing(fp)' : j = i
    BY <1>2, <1>3 DEF Candidate
  <2>2. (CHOOSE j \in Standing(fp)' : TRUE) \in Standing(fp)'
    OBVIOUS
  <2> QED
    BY <1>2, <2>1, <2>2, ConstantsAssumption DEF IncidentNext, Candidate
<1>6. \A i \in Standing(fp)' : Standing(fp) \subseteq {i}
  BY <1>3, <1>4, StandingShape
<1>7. \A i \in Standing(fp)' : alerts'[i].acked => i \in Standing(fp) /\ alerts[i].acked
  <2> SUFFICES ASSUME NEW i \in Standing(fp)', alerts'[i].acked
               PROVE  i \in Standing(fp) /\ alerts[i].acked
    OBVIOUS
  <2>1. /\ i \in AlertIds /\ FpOf(i) = fp /\ alerts'[i] = Stored(i)
        /\ Stored(i).status \in Live /\ ~Stored(i).byUser
    BY <1>1, <1>2
  <2> QED
    BY <2>1, StandingShape DEF Stored, AcksAgree
<1>8. \A i \in Standing(fp) \cap Standing(fp)' : alerts'[i].acked = alerts[i].acked
  BY <1>1, <1>2, StandingShape DEF Stored, AcksAgree
<1>9. CASE Standing(fp)' = {}
  <2>1. IncidentNext(fp) = NoAlert
    BY <1>9 DEF IncidentNext
  <2> QED
    BY <1>9, <2>1, IncidentShape
<1>10. CASE Standing(fp)' # {}
  <2>1. PICK i \in Standing(fp)' : TRUE
    BY <1>10
  <2>2. IncidentNext(fp) = i /\ i \in AlertIds /\ i # NoAlert
    BY <1>5, <2>1
  <2>3. \A j \in Standing(fp)' : j = i
    BY <1>5, <2>2
  <2>4. CASE Standing(fp) = {}
    BY <1>7, <2>1, <2>2, <2>3, <2>4, IncidentShape
  <2>5. CASE Standing(fp) # {}
    <3>1. Standing(fp) = {i}
      BY <1>6, <2>5
    <3>2. IncidentOf(fp) = i
      BY <3>1, OneStands
    <3> QED
      BY <1>8, <2>1, <2>2, <2>3, <3>1, <3>2
  <2> QED
    BY <2>4, <2>5
<1> QED
  BY <1>9, <1>10

LEMMA CommitCycles ==
    ASSUME Agrees, Commit
    PROVE  Incidents!Cycle
<1>1. \A fp \in FPs : Incidents!Opens(fp) \/ Incidents!Closes(fp) \/ Incidents!Stands(fp)
  BY CommitOne DEF Incidents!Opens, Incidents!Closes, Incidents!Stands, IncidentOf, IncidentNext
<1>2. \A fp \in FPs : Incidents!Stands(fp) <=> IncidentNext(fp) = IncidentOf(fp)
  BY DEF Incidents!Stands, IncidentOf, IncidentNext
<1>3. Answered' = {fp \in Answered : Incidents!Stands(fp)}
  BY <1>2, CommitOne DEF Answered
<1> QED
  BY <1>1, <1>3 DEF Incidents!Cycle, Answered

-----------------------------------------------------------------------------
(* Requests.                                                               *)

\* A request touches no fingerprint but its alert's.
LEMMA OthersStand ==
    ASSUME NEW id \in AlertIds, \A i \in AlertIds \ {id} : alerts'[i] = alerts[i],
           NEW fp \in FPs, fp # FpOf(id)
    PROVE  /\ Standing(fp)' = Standing(fp)
           /\ IncidentNext(fp) = IncidentOf(fp)
           /\ (\E i \in Standing(fp)' : alerts'[i].acked) <=> (\E i \in Standing(fp) : alerts[i].acked)
<1>1. Standing(fp)' = Standing(fp)
  <2>1. \A i : i \in Standing(fp)' <=> i \in Standing(fp)
    BY StandingNext, StandingShape
  <2> QED
    BY <2>1
<1>2. \A i \in Standing(fp) : alerts'[i] = alerts[i]
  BY StandingShape
<1> QED
  BY <1>1, <1>2 DEF IncidentNext, IncidentOf

LEMMA AcknowledgeAnswers ==
    ASSUME Agrees, NEW id \in AlertIds, Acknowledge(id)
    PROVE  (\E fp \in FPs : Incidents!Operator(fp)) \/ UNCHANGED Incidents!vars
<1> USE DEF Agrees
<1> DEFINE fp == FpOf(id)
<1>1. /\ fp \in FPs /\ id \notin dirty /\ Targeted(id) /\ alerts[id] \in Row
      /\ alerts' = [alerts EXCEPT ![id] = [alerts[id] EXCEPT !.status = "acknowledged", !.acked = TRUE]]
  BY Identifiers DEF Acknowledge, Targeted, TypeOK, RowsOK
<1>2. /\ \A i \in AlertIds \ {id} : alerts'[i] = alerts[i]
      /\ alerts'[id].status \in Live /\ alerts'[id].acked /\ alerts'[id].byUser = alerts[id].byUser
  BY <1>1 DEF TypeOK, RowsOK, Row, Live
<1>3. CASE alerts[id].byUser
  <2>1. Standing(fp)' = Standing(fp) /\ id \notin Standing(fp)
    BY <1>1, <1>2, <1>3, StandingNext, StandingShape
  <2>2. \A f \in FPs : /\ Standing(f)' = Standing(f)
                        /\ \A i \in Standing(f) : alerts'[i] = alerts[i]
    BY <1>2, <2>1, OthersStand, StandingShape
  <2> QED
    BY <2>2, SameIncidents
<1>4. CASE ~alerts[id].byUser
  <2>1. Candidate(id)
    BY <1>1, <1>4 DEF Candidate, Stored
  <2>2. \A j \in AlertIds : FpOf(j) = fp /\ Candidate(j) => j = id
    BY <2>1 DEF SessionAgrees, OneCandidate
  <2>3. \A j \in Standing(fp) : j = id
    BY <1>1, <2>2, StandingShape DEF Candidate, Stored, SessionAgrees, ResolvedByStays
  <2>4. id \in Standing(fp)' /\ \A j \in Standing(fp)' : j = id
    BY <1>1, <1>2, <1>4, <2>3, StandingNext, StandingShape
  <2>5. IncidentNext(fp) = id
    <3>1. (CHOOSE j \in Standing(fp)' : TRUE) \in Standing(fp)'
      BY <2>4
    <3> QED
      BY <2>4, <3>1 DEF IncidentNext
  <2>6. IncidentOf(fp) = NoAlert \/ IncidentOf(fp) = id
    BY <1>1, <2>3, IncidentShape
  <2>7. \A f \in FPs \ {fp} : Incidents!Stands(f)
    BY <1>2, OthersStand DEF Incidents!Stands, IncidentOf, IncidentNext
  <2>8. Answered' = Answered \cup {fp}
    BY <1>1, <1>2, <2>4, OthersStand DEF Answered
  <2>9. Incidents!Answer(fp)
    BY <1>1, <2>5, <2>6, <2>8
       DEF Incidents!Answer, Incidents!Stands, IncidentOf, IncidentNext, Answered
  <2> QED
    BY <1>1, <2>7, <2>9 DEF Incidents!Operator
<1> QED
  BY <1>3, <1>4

LEMMA ResolveCloses ==
    ASSUME Agrees, NEW id \in AlertIds, Resolve(id)
    PROVE  (\E fp \in FPs : Incidents!Operator(fp)) \/ UNCHANGED Incidents!vars
<1> USE DEF Agrees
<1> DEFINE fp == FpOf(id)
<1>1. /\ fp \in FPs /\ alerts[id] \in Row
      /\ alerts' = [alerts EXCEPT ![id] = [alerts[id] EXCEPT !.status = "resolved", !.byUser = TRUE]]
  BY Identifiers DEF Resolve, TypeOK, RowsOK
<1>2. (\A i \in AlertIds \ {id} : alerts'[i] = alerts[i]) /\ alerts'[id].status \notin Live
  BY <1>1 DEF TypeOK, RowsOK, Row, Live
<1>3. Standing(fp)' = Standing(fp) \ {id}
  BY <1>1, <1>2, StandingNext, StandingShape
<1>4. CASE id \notin Standing(fp)
  <2>2. \A f \in FPs : /\ Standing(f)' = Standing(f)
                        /\ \A i \in Standing(f) : alerts'[i] = alerts[i]
    BY <1>2, <1>3, <1>4, OthersStand, StandingShape
  <2> QED
    BY <2>2, SameIncidents
<1>5. CASE id \in Standing(fp)
  <2>1. IncidentOf(fp) = id /\ id # NoAlert /\ Standing(fp) = {id}
    <3>1. \A j \in Standing(fp) : IncidentOf(fp) = j /\ j # NoAlert
      BY <1>1, OneStands
    <3> QED
      BY <1>5, <3>1
  <2>2. Standing(fp)' = {}
    BY <1>3, <2>1
  <2>3. \A f \in FPs \ {fp} : Incidents!Stands(f)
    BY <1>2, OthersStand DEF Incidents!Stands, IncidentOf, IncidentNext
  <2>4. Answered' = Answered \ {fp}
    BY <1>2, <2>2, OthersStand DEF Answered
  <2>5. Incidents!Close(fp)
    BY <1>1, <2>1, <2>2, <2>4 DEF Incidents!Close, Incidents!Closes, IncidentOf, Answered
  <2> QED
    BY <1>1, <2>3, <2>5 DEF Incidents!Operator
<1> QED
  BY <1>4, <1>5

-----------------------------------------------------------------------------
\* The engine and the REST handlers implement AlertIncidents: a commit is a cycle of
\* the incidents, an acknowledgement or a resolution is an operator's step on one of
\* them or none, and everything else is invisible.
THEOREM EngineServesIncidents == Spec => ServesIncidents
<1>1. Init => Incidents!Init
  <2> SUFFICES ASSUME Init PROVE Incidents!Init
    OBVIOUS
  <2>1. \A fp \in FPs : Standing(fp) = {}
    BY StandingShape DEF Init, Absent, Live
  <2> QED
    BY <2>1 DEF Incidents!Init
<1>2. Agrees /\ [Next]_vars => [Incidents!Next]_(Incidents!vars)
  <2> SUFFICES ASSUME Agrees, [Next]_vars PROVE Incidents!Next \/ UNCHANGED Incidents!vars
    OBVIOUS
  <2>1. ASSUME Commit PROVE Incidents!Next
    BY <2>1, CommitCycles DEF Incidents!Next
  <2>2. ASSUME Operators PROVE Incidents!Next \/ UNCHANGED Incidents!vars
    <3>1. PICK id \in AlertIds : \/ RequestRead("acknowledge", id) \/ RequestRead("resolve", id)
                                 \/ Acknowledge(id) \/ Resolve(id)
      BY <2>2 DEF Operators
    <3>2. ASSUME RequestRead("acknowledge", id) \/ RequestRead("resolve", id)
          PROVE  UNCHANGED Incidents!vars
      BY <3>2, QuietSteps DEF Agrees
    <3>3. ASSUME Acknowledge(id) \/ Resolve(id)
          PROVE  Incidents!Next \/ UNCHANGED Incidents!vars
      BY <3>3, AcknowledgeAnswers, ResolveCloses DEF Incidents!Next
    <3> QED
      BY <3>1, <3>2, <3>3
  <2>3. ASSUME \/ Environment \/ BeginCycle \/ Evaluation \/ CommitFails \/ Housekeeping
               \/ Dispatch \/ Restart \/ UNCHANGED vars
        PROVE  UNCHANGED Incidents!vars
    BY <2>3, QuietSteps DEF Agrees
  <2> QED
    BY <2>1, <2>2, <2>3 DEF Next
<1> QED
  BY <1>1, <1>2, AlwaysAgrees, PTL DEF Spec, ServesIncidents, Incidents!Spec

-----------------------------------------------------------------------------
(* An acknowledgement outlives the cycle.                                  *)

\* While a cycle runs, no row it has read as suppressed is about to be acknowledged
\* or has been, and what it has written keeps the acknowledgements of the committed
\* rows it will replace.
RequestsAvoidSuppressed ==
    InSession => \A q \in reqs : q.op = "acknowledge" =>
        /\ alerts[q.id].status # "suppressed"
        /\ q.id \notin dirty => tx[q.id].status # "suppressed"
SuppressedReadsAreCurrent ==
    InSession => \A id \in AlertIds \ dirty : tx[id].status = "suppressed" =>
        /\ alerts[id].status \in {"suppressed", "resolved"}
        /\ alerts[id].acked = tx[id].acked
WritesKeepAcks ==
    \A id \in dirty : alerts[id].acked /\ alerts[id].status \in {"acknowledged", "suppressed"}
                      => tx[id].acked /\ tx[id].status # "open"
\* Only a device_down alert explains others.
ParentsAreDown ==
    \A d \in Devices : parents[d] # NoAlert => FpOf(parents[d]) = <<DownRule, d>>

AcksKept == /\ TypeOK /\ SessionAgrees /\ ParentsAreDown
            /\ RequestsAvoidSuppressed /\ SuppressedReadsAreCurrent /\ WritesKeepAcks

\* A rule turns to open only rows it has read as suppressed and not acknowledged.
LEMMA NewRowOpen ==
    ASSUME TypeOK, ParentsAreDown, NEW r \in Rules, \A fp \in Creating(r) : FreeIds(fp) # {},
           NEW id \in AlertIds, id \notin Created(r),
           NewRow(r, id).status = "open", tx[id].status # "open"
    PROVE  tx[id].status = "suppressed" /\ ~tx[id].acked
<1> DEFINE f == Fired(id, Created(r), Revived(r), RetroSuppressed(r))
           e == Escalated(r, id, f)
           n == Renotified(r, id, e)
<1>1. f \in Row /\ tx[id] \in Row
  <2>1. \A i \in Revived(r) \cup RetroSuppressed(r) : tx[i].status \in Live
    BY ActedOn
  <2> QED
    BY <2>1, FiredShape DEF TypeOK, RowsOK
<1>2. f.acked = tx[id].acked
  BY <1>1, FiredAck DEF Row
<1>3. CASE id \in Revived(r)
  <2>1. tx[id].status = "suppressed"
    BY <1>3 DEF Revived
  <2>2. f.status = Restored(tx[id])
    BY <1>1, <1>3 DEF Fired, Row
  <2> HIDE DEF f
  <2>3. e \in Row /\ e.status = f.status
    BY <1>1, EscalatedShape
  <2> HIDE DEF e
  <2>4. n \in Row /\ n.status = f.status
    BY <2>3, RenotifiedShape
  <2> HIDE DEF n
  <2>5. f.status # "suppressed"
    BY <2>2 DEF Restored
  <2>6. Settled(id, n, Resolving(r), Created(r)).status = "open"
    BY DEF NewRow, n, e, f
  <2>7. n.status = "open"
    BY <2>4, <2>5, <2>6 DEF Settled, Row
  <2> QED
    BY <2>1, <2>2, <2>4, <2>7 DEF Restored
<1>4. CASE id \notin Revived(r) /\ id \in RetroSuppressed(r)
  <2>1. f.status = "suppressed" /\ f.parent = ParentFor(FpOf(id))
    BY <1>1, <1>4 DEF Fired, Row
  <2>2. f.parent \notin Resolving(r)
    <3>1. RuleOf(FpOf(id)) = r /\ ParentFor(FpOf(id)) # NoAlert /\ FpOf(id) \in FPs
      BY <1>4, Identifiers DEF RetroSuppressed
    <3>2. r # DownRule /\ FpOf(f.parent) = <<DownRule, DeviceOf(FpOf(id))>>
      BY <2>1, <3>1, Identifiers DEF ParentFor, ParentsAreDown
    <3>3. RuleOf(FpOf(f.parent)) = DownRule
      BY <3>2 DEF RuleOf
    <3> QED
      BY <3>2, <3>3, Identifiers DEF Resolving
  <2> HIDE DEF f
  <2>3. e \in Row /\ e.status = f.status /\ e.parent = f.parent
    BY <1>1, EscalatedShape DEF Escalated, Row
  <2> HIDE DEF e
  <2>4. n \in Row /\ n.status = f.status /\ n.parent = f.parent
    BY <2>3, RenotifiedShape DEF Renotified, Row
  <2> HIDE DEF n
  <2>5. Settled(id, n, Resolving(r), Created(r)).status # "open"
    BY <2>1, <2>2, <2>4 DEF Settled, Row
  <2> QED
    BY <2>5 DEF NewRow, n, e, f
<1>5. CASE id \notin Revived(r) /\ id \notin RetroSuppressed(r)
  <2>1. f = tx[id]
    BY <1>5 DEF Fired
  <2> HIDE DEF f
  <2>2. e \in Row /\ e.status = f.status /\ e.acked = f.acked
    BY <1>1, EscalatedShape DEF Escalated, Row
  <2> HIDE DEF e
  <2>3. n \in Row /\ n.status = f.status /\ n.acked = f.acked
    BY <2>2, RenotifiedShape DEF Renotified, Row
  <2> HIDE DEF n
  <2>4. Settled(id, n, Resolving(r), Created(r)).status = "open"
    BY DEF NewRow, n, e, f
  <2>5. n.status = "suppressed" /\ Restored(n) = "open"
    BY <2>1, <2>3, <2>4 DEF Settled, Row
  <2> QED
    BY <2>1, <2>3, <2>5 DEF Restored
<1> QED
  BY <1>3, <1>4, <1>5

LEMMA EvaluateKeepsAcksKept ==
    ASSUME AcksKept, NEW r \in Rules, EvaluateRule(r)
    PROVE  AcksKept'
<1> USE DEF AcksKept
<1>1. InSession /\ turn = r
  BY EvaluateFacts, ConstantsAssumption DEF InSession, Rules, CommitTurn
<1>2. ASSUME NEW id \in AlertIds, id \notin Created(r)
      PROVE  /\ tx'[id].status = IF NewRow(r, id).status # tx[id].status
                                 THEN NewRow(r, id).status ELSE Stored(id).status
             /\ tx'[id].acked = Stored(id).acked
  <2>1. tx[id] \in Row /\ NewRow(r, id) \in Row /\ Stored(id) \in Row
    BY EvaluateFacts, NewRowShape, StoredShape DEF TypeOK, RowsOK
  <2>2. NewRow(r, id).acked = tx[id].acked
    BY <1>2, <2>1, EvaluateFacts, NewRowAck DEF Row
  <2>3. tx'[id] = Flush(tx[id], NewRow(r, id), Stored(id))
    BY <1>2, EvaluateFacts
  <2> QED
    BY <2>1, <2>2, <2>3, FlushShape DEF Flush
<1>3. ASSUME NEW id \in AlertIds, id \notin dirty'
      PROVE  tx'[id].status = alerts[id].status /\ tx'[id].acked = alerts[id].acked
  <2>1. id \notin dirty /\ id \notin Created(r) /\ NewRow(r, id) = tx[id]
    BY <1>3, EvaluateFacts
  <2> QED
    BY <1>2, <2>1 DEF Stored
<1>4. TypeOK' /\ SessionAgrees'
  BY TypeEvaluate, EvaluateAgrees
<1>5. ParentsAreDown'
  BY EvaluateFacts DEF ParentsAreDown
<1>6. \A q \in reqs : q.id \in AlertIds
  BY DEF TypeOK, Request
<1>7. RequestsAvoidSuppressed'
  BY <1>1, <1>3, <1>6, EvaluateFacts DEF RequestsAvoidSuppressed
<1>8. SuppressedReadsAreCurrent'
  BY <1>3, EvaluateFacts DEF SuppressedReadsAreCurrent
<1>9. WritesKeepAcks'
  <2> SUFFICES ASSUME NEW id \in AlertIds, id \in dirty', alerts[id].acked,
                      alerts[id].status \in {"acknowledged", "suppressed"}
               PROVE  tx'[id].acked /\ tx'[id].status # "open"
    BY <1>4, EvaluateFacts DEF WritesKeepAcks, TypeOK
  <2>1. id \notin Created(r)
    BY EvaluateEffect DEF Live
  <2>2. Stored(id).acked /\ Stored(id).status # "open"
    BY DEF Stored, WritesKeepAcks
  <2>3. ASSUME NewRow(r, id).status = "open", tx[id].status # "open" PROVE FALSE
    <3>1. tx[id].status = "suppressed" /\ ~tx[id].acked
      BY <2>1, <2>3, EvaluateFacts, NewRowOpen
    <3> QED
      BY <1>1, <2>2, <3>1 DEF Stored, SuppressedReadsAreCurrent
  <2> QED
    BY <1>2, <2>1, <2>2, <2>3
<1> QED
  BY <1>4, <1>5, <1>7, <1>8, <1>9

LEMMA RequestsKeepAcksKept ==
    ASSUME AcksKept, Operators
    PROVE  AcksKept'
<1> USE DEF AcksKept
<1>1. PICK id \in AlertIds : \/ RequestRead("acknowledge", id) \/ RequestRead("resolve", id)
                             \/ Acknowledge(id) \/ Resolve(id)
  BY DEF Operators
<1>2. TypeOK' /\ SessionAgrees'
  BY TypeRequests, RequestsAgree
<1>3. UNCHANGED <<tx, dirty, turn, parents>>
  BY <1>1 DEF RequestRead, Acknowledge, Resolve, cycle
<1>4. ParentsAreDown'
  BY <1>3 DEF ParentsAreDown
<1>5. alerts \in [AlertIds -> Row] /\ \A q \in reqs : q.id \in AlertIds
  BY DEF TypeOK, RowsOK, Request
<1>6. CASE RequestRead("acknowledge", id)
  <2>1. /\ alerts' = alerts /\ alerts[id].status = "open"
        /\ \A q \in reqs' : q \in reqs \/ q.id = id
    BY <1>6 DEF RequestRead
  <2> QED
    BY <1>2, <1>3, <1>4, <2>1
       DEF RequestsAvoidSuppressed, SuppressedReadsAreCurrent, WritesKeepAcks, InSession
<1>7. CASE RequestRead("resolve", id)
  <2>1. alerts' = alerts /\ \A q \in reqs' : q \in reqs \/ q.op = "resolve"
    BY <1>7 DEF RequestRead
  <2> QED
    BY <1>2, <1>3, <1>4, <2>1
       DEF RequestsAvoidSuppressed, SuppressedReadsAreCurrent, WritesKeepAcks, InSession
<1>8. CASE Acknowledge(id)
  <2>1. /\ \E q \in reqs : q.id = id /\ q.op = "acknowledge"
        /\ id \notin dirty /\ reqs' \subseteq reqs
        /\ alerts'[id].status = "acknowledged"
        /\ \A i \in AlertIds \ {id} : alerts'[i] = alerts[i]
    BY <1>5, <1>8 DEF Acknowledge, Row
  <2> QED
    BY <1>2, <1>3, <1>4, <1>5, <2>1
       DEF RequestsAvoidSuppressed, SuppressedReadsAreCurrent, WritesKeepAcks, InSession, TypeOK
<1>9. CASE Resolve(id)
  <2>1. /\ id \notin dirty /\ reqs' \subseteq reqs
        /\ alerts'[id].status = "resolved" /\ alerts'[id].acked = alerts[id].acked
        /\ \A i \in AlertIds \ {id} : alerts'[i] = alerts[i]
    BY <1>5, <1>9 DEF Resolve, Row
  <2> QED
    BY <1>2, <1>3, <1>4, <1>5, <2>1
       DEF RequestsAvoidSuppressed, SuppressedReadsAreCurrent, WritesKeepAcks, InSession, TypeOK
<1> QED
  BY <1>1, <1>6, <1>7, <1>8, <1>9

LEMMA AcksKeptInit == Init => AcksKept
BY TypeInit, AgreementInit, ConstantsAssumption
   DEF Init, AcksKept, ParentsAreDown, RequestsAvoidSuppressed, SuppressedReadsAreCurrent,
       WritesKeepAcks, InSession, Idle, CommitTurn

LEMMA AcksKeptStep == AcksKept /\ [Next]_vars => AcksKept'
<1> SUFFICES ASSUME AcksKept, [Next]_vars PROVE AcksKept'
  OBVIOUS
<1> USE DEF AcksKept
<1>1. TypeOK' /\ SessionAgrees'
  BY TypeStep, AgreementStep
<1>2. \A d \in Devices : LET map == SuppressionMap(alerts) IN
        map[d] # NoAlert => FpOf(map[d]) = <<DownRule, d>>
  <2> SUFFICES ASSUME NEW d \in Devices, LiveIds(alerts, <<DownRule, d>>) # {}
               PROVE  FpOf(CHOOSE id \in LiveIds(alerts, <<DownRule, d>>) : TRUE) = <<DownRule, d>>
    BY DEF SuppressionMap
  <2>1. \A id \in LiveIds(alerts, <<DownRule, d>>) : FpOf(id) = <<DownRule, d>>
    BY Identifiers, LiveIdsShape
  <2>2. (CHOOSE id \in LiveIds(alerts, <<DownRule, d>>) : TRUE) \in LiveIds(alerts, <<DownRule, d>>)
    OBVIOUS
  <2> QED
    BY <2>1, <2>2
<1>3. ASSUME NEW r \in Rules, LookupFails(r) \/ EvaluatorFails(r) PROVE AcksKept'
  <2>1. /\ UNCHANGED <<alerts, dirty, reqs, parents>> /\ tx' = [id \in AlertIds |-> Stored(id)]
        /\ turn = r
    BY <1>3 DEF LookupFails, EvaluatorFails
  <2>2. InSession
    BY <2>1, ConstantsAssumption DEF InSession, Rules, CommitTurn
  <2>3. dirty \subseteq AlertIds /\ \A q \in reqs : q.id \in AlertIds
    BY DEF TypeOK, Request
  <2> QED
    BY <1>1, <2>1, <2>2, <2>3
       DEF ParentsAreDown, RequestsAvoidSuppressed, SuppressedReadsAreCurrent, WritesKeepAcks, Stored
<1>4. ASSUME BeginCycle PROVE AcksKept'
  <2>1. turn = Idle /\ reqs' = {} /\ tx' = alerts /\ UNCHANGED <<alerts, dirty>>
        /\ parents' = SuppressionMap(alerts)
    BY <1>4 DEF BeginCycle, RequestsAreShort
  <2>2. dirty = {}
    BY <2>1, Identifiers DEF SessionAgrees, OnlySessionsWrite, InSession, Idle
  <2> QED
    BY <1>1, <1>2, <2>1, <2>2
       DEF ParentsAreDown, RequestsAvoidSuppressed, SuppressedReadsAreCurrent, WritesKeepAcks
<1>5. ASSUME Commit \/ CommitFails \/ Restart PROVE AcksKept'
  <2>1. dirty' = {} /\ parents' = [d \in Devices |-> NoAlert]
        /\ turn' \in {Idle, DispatchTurn}
    BY <1>5 DEF Commit, CommitFails, Restart, CloseSession
  <2>2. ~InSession'
    BY <2>1, Identifiers DEF InSession, Idle, CommitTurn, DispatchTurn
  <2> QED
    BY <1>1, <2>1, <2>2
       DEF ParentsAreDown, RequestsAvoidSuppressed, SuppressedReadsAreCurrent, WritesKeepAcks
<1>6. ASSUME Tick \/ Housekeeping \/ Dispatch PROVE AcksKept'
  <2>1. /\ turn \in {Idle, DispatchTurn} /\ turn' \in {Idle, DispatchTurn}
        /\ UNCHANGED <<dirty, parents>>
    BY <1>6 DEF Tick, Housekeeping, Dispatch, cycle
  <2>2. ~InSession /\ ~InSession'
    BY <2>1, Identifiers DEF InSession, Idle, CommitTurn, DispatchTurn
  <2>3. dirty' = {}
    BY <2>1, <2>2 DEF SessionAgrees, OnlySessionsWrite
  <2> QED
    BY <1>1, <2>1, <2>2, <2>3
       DEF ParentsAreDown, RequestsAvoidSuppressed, SuppressedReadsAreCurrent, WritesKeepAcks
<1>7. ASSUME \/ \E fp \in FPs : ConditionChanges(fp)
             \/ \E d \in Devices : MaintenanceChanges(d)
             \/ UNCHANGED vars
      PROVE  AcksKept'
  <2>1. UNCHANGED <<alerts, tx, dirty, turn, reqs, parents>>
    BY <1>7 DEF ConditionChanges, MaintenanceChanges, vars, cycle
  <2> QED
    BY <1>1, <2>1
       DEF ParentsAreDown, RequestsAvoidSuppressed, SuppressedReadsAreCurrent, WritesKeepAcks,
           InSession
<1> QED
  BY <1>3, <1>4, <1>5, <1>6, <1>7, EvaluateKeepsAcksKept, RequestsKeepAcksKept
     DEF Next, Environment, Evaluation

\* No commit puts an alert that somebody acknowledged back to open: the engine reads
\* rows while requests write them, but turns to open only rows it has read as
\* suppressed, which no acknowledgement can have reached since.
THEOREM AcknowledgementsSurvive == Spec => AckSurvivesCycle
<1>1. AcksKept /\ [Next]_vars =>
        [turn = CommitTurn =>
           \A id \in AlertIds :
              alerts[id].acked /\ alerts[id].status \in {"acknowledged", "suppressed"}
                => alerts'[id].status # "open"]_vars
  <2> SUFFICES ASSUME AcksKept, Next, turn = CommitTurn, NEW id \in AlertIds, alerts[id].acked,
                      alerts[id].status \in {"acknowledged", "suppressed"}
               PROVE  alerts'[id].status # "open"
    BY DEF vars
  <2>1. CASE Commit
    BY <2>1 DEF Commit, Stored, AcksKept, WritesKeepAcks
  <2>2. CASE Operators
    <3>1. PICK i \in AlertIds : \/ RequestRead("acknowledge", i) \/ RequestRead("resolve", i)
                                \/ Acknowledge(i) \/ Resolve(i)
      BY <2>2 DEF Operators
    <3>2. alerts \in [AlertIds -> Row]
      BY DEF AcksKept, TypeOK, RowsOK
    <3> QED
      BY <3>1, <3>2 DEF RequestRead, Acknowledge, Resolve, Row
  <2>3. CASE CommitFails \/ Restart
    BY <2>3 DEF CommitFails, Restart
  <2>4. ASSUME NEW r \in Rules, EvaluateRule(r) \/ LookupFails(r) \/ EvaluatorFails(r) PROVE FALSE
    BY <2>4, Identifiers DEF EvaluateRule, LookupFails, EvaluatorFails, CommitTurn, Rules
  <2>5. ASSUME Environment \/ BeginCycle \/ Housekeeping \/ Dispatch PROVE FALSE
    <3>1. turn \in {Idle, DispatchTurn}
      BY <2>5 DEF Environment, ConditionChanges, MaintenanceChanges, Tick, BeginCycle,
                  Housekeeping, Dispatch
    <3> QED
      BY <3>1, Identifiers DEF Idle, CommitTurn, DispatchTurn
  <2> QED
    BY <2>1, <2>2, <2>3, <2>4, <2>5 DEF Next, Evaluation
<1> QED
  BY <1>1, AcksKeptInit, AcksKeptStep, PTL DEF Spec, AckSurvivesCycle
=============================================================================
