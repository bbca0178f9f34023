------------------------- MODULE AlertEngineProofs -------------------------
(***************************************************************************)
(* Proofs about AlertEngine for every number of rules, devices and row     *)
(* slots, every gate and every number of requests and faults:              *)
(*   TypeCorrect     the specification keeps every variable to its type;   *)
(*   Agreement       the inductive invariant SessionAgrees;                *)
(*   OneIncident     one unresolved incident per fingerprint;              *)
(*   MutesHaveOwners a fingerprint is muted only on an operator's account. *)
(***************************************************************************)
EXTENDS AlertEngine, TLAPS

\* The row _evaluate_rule leaves for id, as EvaluateRule computes it.
NewRow(r, id) ==
    Settled(id,
            Renotified(r, id, Escalated(r, id, Fired(id, Created(r), Revived(r), RetroSuppressed(r)))),
            Resolving(r), Created(r))

-----------------------------------------------------------------------------
(* Facts about the operators on rows                                       *)

\* Identifiers and fingerprints are what their projections say.
LEMMA Identifiers ==
    /\ \A fp \in FPs : RuleOf(fp) \in Rules /\ DeviceOf(fp) \in Devices /\ IdsOf[fp] \subseteq AlertIds
    /\ \A id \in AlertIds : FpOf(id) \in FPs
    /\ \A fp \in FPs, id \in AlertIds : id \in IdsOf[fp] <=> FpOf(id) = fp
    /\ \A r \in Rules : /\ FPsOf[r] = {fp \in FPs : RuleOf(fp) = r}
                        /\ IdsOfRule[r] = {id \in AlertIds : RuleOf(FpOf(id)) = r}
    /\ \A d \in Devices : <<DownRule, d>> \in FPs
    /\ NumRules \in Nat /\ Rules \subseteq Nat
<1>1. \A fp \in FPs : RuleOf(fp) \in Rules /\ DeviceOf(fp) \in Devices
  BY DEF FPs, RuleOf, DeviceOf
<1>2. \A id \in AlertIds : FpOf(id) \in FPs
  BY DEF AlertIds, FpOf
<1>3. \A fp \in FPs : IdsOf[fp] = {id \in AlertIds : FpOf(id) = fp}
  BY DEF IdsOf
<1>4. \A r \in Rules : /\ FPsOf[r] = {fp \in FPs : RuleOf(fp) = r}
                       /\ IdsOfRule[r] = {id \in AlertIds : RuleOf(FpOf(id)) = r}
  BY DEF FPsOf, IdsOfRule
<1>5. \A d \in Devices : <<DownRule, d>> \in FPs
  BY ConstantsAssumption DEF FPs
<1>6. NumRules \in Nat /\ Rules \subseteq Nat
  BY ConstantsAssumption DEF Rules
<1> QED
  BY <1>1, <1>2, <1>3, <1>4, <1>5, <1>6

\* A new row is a well-typed live row that nobody has resolved.
LEMMA NewAlertShape ==
    ASSUME TypeOK, NEW fp \in FPs
    PROVE  /\ NewAlert(fp) \in Row
           /\ NewAlert(fp).status \in Live
           /\ NewAlert(fp).byUser = FALSE
<1>1. ParentFor(fp) \in AlertIds \cup {NoAlert}
  BY Identifiers DEF TypeOK, ParentFor
<1> QED
  BY <1>1 DEF NewAlert, Absent, Row, Live, Never

\* The fire/suppress stage creates live rows in the slots it picks and leaves
\* the others resolved or live as they were, whoever resolved them.
LEMMA FiredShape ==
    ASSUME TypeOK, NEW id \in AlertIds, NEW created, NEW revived, NEW retro,
           \A i \in revived \cup retro : tx[i].status \in Live
    PROVE  LET row == Fired(id, created, revived, retro) IN
           /\ row \in Row
           /\ id \in created => row.status \in Live /\ row.byUser = FALSE
           /\ id \notin created => /\ row.byUser = tx[id].byUser
                                   /\ row.status # tx[id].status =>
                                        row.status \in Live /\ tx[id].status \in Live
           /\ id \notin created \cup revived \cup retro => row = tx[id]
<1>1. tx[id] \in Row
  BY DEF TypeOK, RowsOK
<1>2. FpOf(id) \in FPs /\ ParentFor(FpOf(id)) \in AlertIds \cup {NoAlert}
  BY Identifiers DEF TypeOK, ParentFor
<1>3. Restored(tx[id]) \in Live
  BY DEF Restored, Live
<1>4. CASE id \in created
  BY <1>4, <1>2, NewAlertShape DEF Fired
<1>5. CASE id \notin created /\ id \in revived
  <2>1. Fired(id, created, revived, retro) =
          [tx[id] EXCEPT !.status = Restored(tx[id]), !.parent = NoAlert, !.notified = 0]
    BY <1>5 DEF Fired
  <2>2. tx[id].status \in Live
    BY <1>5
  <2> DEFINE revivedRow(st) == [tx[id] EXCEPT !.status = st, !.parent = NoAlert, !.notified = 0]
  <2>3. \A st \in Live : /\ revivedRow(st) \in Row
                         /\ revivedRow(st).status = st
                         /\ revivedRow(st).byUser = tx[id].byUser
    BY <1>1 DEF Row
  <2>4. Fired(id, created, revived, retro) = revivedRow(Restored(tx[id]))
    BY <2>1
  <2> HIDE DEF revivedRow
  <2> QED
    BY <1>5, <2>2, <2>3, <2>4, <1>3
<1>6. CASE id \notin created /\ id \notin revived /\ id \in retro
  <2>1. Fired(id, created, revived, retro) =
          [tx[id] EXCEPT !.status = "suppressed", !.parent = ParentFor(FpOf(id))]
    BY <1>6 DEF Fired
  <2>2. tx[id].status \in Live
    BY <1>6
  <2> QED
    BY <1>6, <2>1, <2>2, <1>1, <1>2 DEF Row, Live
<1>7. CASE id \notin created /\ id \notin revived /\ id \notin retro
  BY <1>7, <1>1 DEF Fired
<1> QED
  BY <1>4, <1>5, <1>6, <1>7

\* Escalation and renotification touch rows of their rule only, and neither
\* the status of a row nor who resolved it.
LEMMA EscalatedShape ==
    ASSUME NEW r, NEW id, NEW row \in Row
    PROVE  /\ Escalated(r, id, row) \in Row
           /\ Escalated(r, id, row).status = row.status
           /\ Escalated(r, id, row).byUser = row.byUser
           /\ RuleOf(FpOf(id)) # r => Escalated(r, id, row) = row
BY DEF Escalated, MustEscalate, Row, Never

LEMMA RenotifiedShape ==
    ASSUME NEW r, NEW id, NEW row \in Row
    PROVE  /\ Renotified(r, id, row) \in Row
           /\ Renotified(r, id, row).status = row.status
           /\ Renotified(r, id, row).byUser = row.byUser
           /\ RuleOf(FpOf(id)) # r => Renotified(r, id, row) = row
BY DEF Renotified, MustRenotify, Row, Never

\* Settling resolves the resolving rows, keeps every other live row live and
\* never says who resolved a row.
LEMMA SettledShape ==
    ASSUME NEW id, NEW row \in Row, NEW resolving, NEW created
    PROVE  LET new == Settled(id, row, resolving, created) IN
           /\ new \in Row
           /\ new.byUser = row.byUser
           /\ id \notin resolving /\ new.status # row.status =>
                new.status \in Live /\ row.status \in Live
           /\ id \notin resolving /\ new # row => row.status \in Live
           /\ id \in resolving => new.status = "resolved"
<1>1. CASE id \in resolving
  BY <1>1 DEF Settled, Row
<1>2. CASE id \notin resolving /\ row.status = "suppressed" /\ row.parent \in resolving
  <2>1. Settled(id, row, resolving, created) =
          [row EXCEPT !.status = Restored(row), !.parent = NoAlert, !.notified = Never]
    BY <1>2 DEF Settled
  <2>2. Restored(row) \in Live
    BY DEF Restored, Live
  <2> QED
    BY <1>2, <2>1, <2>2 DEF Row, Live
<1>3. CASE id \notin resolving /\ ~(row.status = "suppressed" /\ row.parent \in resolving)
           /\ row.status = "suppressed" /\ row.parent \in created
  BY <1>3 DEF Settled, Row, Live
<1>4. CASE id \notin resolving /\ ~(row.status = "suppressed" /\ row.parent \in resolving)
           /\ ~(row.status = "suppressed" /\ row.parent \in created)
  BY <1>4 DEF Settled
<1> QED
  BY <1>1, <1>2, <1>3, <1>4

\* A flush writes the columns the session changed over the current row.
LEMMA FlushShape ==
    ASSUME NEW old \in Row, NEW new \in Row, NEW cur \in Row
    PROVE  /\ Flush(old, new, cur) \in Row
           /\ Flush(old, new, cur).status = IF new.status # old.status THEN new.status ELSE cur.status
           /\ Flush(old, new, cur).byUser = IF new.byUser # old.byUser THEN new.byUser ELSE cur.byUser
BY DEF Flush, Row

\* What the session would read of a row is a row.
LEMMA StoredShape == TypeOK => \A id \in AlertIds : Stored(id) \in Row
BY DEF TypeOK, RowsOK, Stored

\* Live rows are rows: finding none live in a fingerprint is finding an empty set.
LEMMA LiveIdsShape ==
    ASSUME NEW rows, NEW fp \in FPs
    PROVE  LiveIds(rows, fp) = {id \in AlertIds : FpOf(id) = fp /\ rows[id].status \in Live}
BY Identifiers DEF LiveIds

\* The sets of alerts a rule acts on, and the slots it fills.
LEMMA ActedOn ==
    ASSUME TypeOK, NEW r \in Rules, \A fp \in Creating(r) : FreeIds(fp) # {}
    PROVE  /\ Creating(r) \subseteq FPsOf[r]
           /\ \A fp \in Creating(r) : /\ NewId(fp) \in AlertIds
                                      /\ FpOf(NewId(fp)) = fp
                                      /\ NewId(fp) \in FreeIds(fp)
                                      /\ \A id \in AlertIds : FpOf(id) = fp => tx[id].status \notin Live
           /\ \A id \in Created(r) : /\ id \in AlertIds
                                     /\ FpOf(id) \in Creating(r)
                                     /\ id = NewId(FpOf(id))
           /\ \A id \in Revived(r) \cup RetroSuppressed(r) \cup Resolving(r) :
                 /\ id \in AlertIds
                 /\ RuleOf(FpOf(id)) = r
                 /\ tx[id].status \in Live
<1>1. Creating(r) \subseteq FPsOf[r] /\ \A fp \in Creating(r) : fp \in FPs /\ LiveIds(tx, fp) = {}
  BY Identifiers DEF Creating
<1>2. \A fp \in Creating(r) : NewId(fp) \in FreeIds(fp) /\ FreeIds(fp) \subseteq IdsOf[fp]
  BY DEF NewId, FreeIds
<1>3. \A fp \in Creating(r) : NewId(fp) \in AlertIds /\ FpOf(NewId(fp)) = fp
  BY <1>1, <1>2, Identifiers
<1>4. \A fp \in Creating(r) : \A id \in AlertIds : FpOf(id) = fp => tx[id].status \notin Live
  BY <1>1, LiveIdsShape
<1>5. \A id \in Created(r) : id \in AlertIds /\ FpOf(id) \in Creating(r) /\ id = NewId(FpOf(id))
  BY <1>3 DEF Created
<1>6. \A id \in Revived(r) \cup RetroSuppressed(r) \cup Resolving(r) :
         id \in AlertIds /\ RuleOf(FpOf(id)) = r /\ tx[id].status \in Live
  BY Identifiers DEF Revived, RetroSuppressed, Resolving, Live, Surfaced
<1> QED
  BY <1>1, <1>2, <1>3, <1>4, <1>5, <1>6

\* The row a rule leaves: created rows are live and nobody's, no other row
\* changes who resolved it, and a row that changes was live, or was this rule's
\* own alert.
LEMMA NewRowShape ==
    ASSUME TypeOK, NEW r \in Rules, \A fp \in Creating(r) : FreeIds(fp) # {}, NEW id \in AlertIds
    PROVE  /\ NewRow(r, id) \in Row
           /\ id \in Created(r) => NewRow(r, id).status \in Live /\ NewRow(r, id).byUser = FALSE
           /\ id \notin Created(r) =>
                /\ NewRow(r, id).byUser = tx[id].byUser
                /\ NewRow(r, id).status # tx[id].status => tx[id].status \in Live
                /\ RuleOf(FpOf(id)) # r /\ NewRow(r, id) # tx[id] =>
                     tx[id].status \in Live /\ NewRow(r, id).status \in Live
<1> DEFINE f == Fired(id, Created(r), Revived(r), RetroSuppressed(r))
           e == Escalated(r, id, f)
           n == Renotified(r, id, e)
<1>0. tx[id] \in Row
  BY DEF TypeOK, RowsOK
<1>1. /\ f \in Row
      /\ id \in Created(r) => f.status \in Live /\ f.byUser = FALSE
      /\ id \notin Created(r) => /\ f.byUser = tx[id].byUser
                                 /\ f.status # tx[id].status => f.status \in Live /\ tx[id].status \in Live
      /\ id \notin Created(r) /\ RuleOf(FpOf(id)) # r => f = tx[id]
  <2>1. \A i \in Revived(r) \cup RetroSuppressed(r) : tx[i].status \in Live /\ RuleOf(FpOf(i)) = r
    BY ActedOn
  <2>2. /\ f \in Row
        /\ id \in Created(r) => f.status \in Live /\ f.byUser = FALSE
        /\ id \notin Created(r) => /\ f.byUser = tx[id].byUser
                                   /\ f.status # tx[id].status => f.status \in Live /\ tx[id].status \in Live
        /\ id \notin Created(r) \cup Revived(r) \cup RetroSuppressed(r) => f = tx[id]
    BY <2>1, FiredShape
  <2> QED
    BY <2>1, <2>2
<1>2. /\ e \in Row /\ e.status = f.status /\ e.byUser = f.byUser
      /\ RuleOf(FpOf(id)) # r => e = f
  BY <1>1, EscalatedShape
<1>3. /\ n \in Row /\ n.status = e.status /\ n.byUser = e.byUser
      /\ RuleOf(FpOf(id)) # r => n = e
  BY <1>2, RenotifiedShape
<1> HIDE DEF n
<1>4. /\ NewRow(r, id) \in Row
      /\ NewRow(r, id).byUser = n.byUser
      /\ id \notin Resolving(r) /\ NewRow(r, id).status # n.status =>
           NewRow(r, id).status \in Live /\ n.status \in Live
      /\ id \notin Resolving(r) /\ NewRow(r, id) # n => n.status \in Live
      /\ NewRow(r, id) = Settled(id, n, Resolving(r), Created(r))
  BY <1>3, SettledShape DEF NewRow, n
<1>5. id \in Created(r) => id \notin Resolving(r)
  BY ActedOn
<1>6. id \in Resolving(r) => RuleOf(FpOf(id)) = r /\ tx[id].status \in Live
  BY ActedOn
<1>7. id \notin Created(r) /\ RuleOf(FpOf(id)) # r => n = tx[id]
  BY <1>1, <1>2, <1>3
<1> HIDE DEF f, e
<1>8. id \in Created(r) => NewRow(r, id).status \in Live /\ NewRow(r, id).byUser = FALSE
  BY <1>1, <1>2, <1>3, <1>4, <1>5
<1>9. ASSUME id \notin Created(r)
      PROVE  /\ NewRow(r, id).byUser = tx[id].byUser
             /\ NewRow(r, id).status # tx[id].status => tx[id].status \in Live
  <2>1. CASE id \in Resolving(r)
    BY <2>1, <1>9, <1>1, <1>2, <1>3, <1>4, <1>6
  <2>2. CASE id \notin Resolving(r)
    BY <2>2, <1>9, <1>1, <1>2, <1>3, <1>4
  <2> QED
    BY <2>1, <2>2
<1>10. ASSUME id \notin Created(r), RuleOf(FpOf(id)) # r, NewRow(r, id) # tx[id]
       PROVE  tx[id].status \in Live /\ NewRow(r, id).status \in Live
  <2>1. n = tx[id] /\ id \notin Resolving(r)
    BY <1>10, <1>6, <1>7
  <2> QED
    BY <2>1, <1>10, <1>4
<1> QED
  BY <1>4, <1>8, <1>9, <1>10

\* What EvaluateRule says, with the sets it names spelled out.
LEMMA EvaluateFacts ==
    ASSUME NEW r \in Rules, EvaluateRule(r)
    PROVE  /\ turn = r /\ turn' = r + 1
           /\ \A fp \in Creating(r) : FreeIds(fp) # {}
           /\ tx' = [id \in AlertIds |-> IF id \in Created(r) THEN NewRow(r, id)
                                         ELSE Flush(tx[id], NewRow(r, id), Stored(id))]
           /\ dirty' = {id \in AlertIds : id \in dirty \cup Created(r) \/ NewRow(r, id) # tx[id]}
           /\ UNCHANGED <<alerts, lastRes, maint, cond, parents, windows, reqs, faults>>
BY DEF EvaluateRule, NewRow

\* The session's rows stay rows.
LEMMA EvaluatedRows ==
    ASSUME TypeOK, NEW r \in Rules, EvaluateRule(r)
    PROVE  RowsOK(tx') /\ dirty' \subseteq AlertIds
<1>1. \A id \in AlertIds : tx[id] \in Row /\ Stored(id) \in Row /\ NewRow(r, id) \in Row
  BY EvaluateFacts, NewRowShape, StoredShape DEF TypeOK, RowsOK
<1>2. \A id \in AlertIds : Flush(tx[id], NewRow(r, id), Stored(id)) \in Row
  BY <1>1, FlushShape
<1> QED
  BY <1>1, <1>2, EvaluateFacts DEF RowsOK

\* Timers only grow, up to their cap, and those that do not run stay so.
LEMMA TimersAge ==
    /\ \A t \in Nat \cup {Never}, cap \in Nat : Older(t, cap) \in Nat \cup {Never}
    /\ \A t, cap \in Nat : Older(t, cap) \in Nat
    /\ \A m, n \in Nat : Larger(m, n) \in Nat
BY DEF Older, Larger, Never

LEMMA AbsentIsARow == Absent \in Row
BY DEF Absent, Row

-----------------------------------------------------------------------------
(* Type correctness                                                        *)

LEMMA TypeInit == Init => TypeOK
BY AbsentIsARow, ConstantsAssumption
   DEF Init, TypeOK, RowsOK, MemoryOK, Idle, DispatchTurn, Observation, Notification, Request, Never

LEMMA TypeTick == TypeOK /\ Tick => TypeOK'
<1> SUFFICES ASSUME TypeOK, Tick PROVE TypeOK'
  OBVIOUS
<1>1. \A r \in Rules : /\ DurationGate[r] \in Nat /\ StableGate[r] \in Nat
                       /\ RenotifyAfter[r] \in Nat /\ EscalateAfter[r] \in Nat
  BY ConstantsAssumption
<1>2. \A fp \in FPs : RuleOf(fp) \in Rules
  BY Identifiers
<1>3. breachSince' \in [FPs -> Nat \cup {Never}] /\ clearSince' \in [FPs -> Nat \cup {Never}]
  BY <1>1, <1>2, TimersAge DEF TypeOK, MemoryOK, Tick
<1>4. RowsOK(alerts')
  <2> SUFFICES ASSUME NEW id \in AlertIds
               PROVE  [alerts[id] EXCEPT
                         !.notified = Older(@, RenotifyAfter[RuleOf(FpOf(id))]),
                         !.age = Older(@, EscalateAfter[RuleOf(FpOf(id))])] \in Row
    BY DEF Tick, RowsOK
  <2>1. alerts[id] \in Row
    BY DEF TypeOK, RowsOK
  <2>2. /\ Older(alerts[id].notified, RenotifyAfter[RuleOf(FpOf(id))]) \in Nat \cup {Never}
        /\ Older(alerts[id].age, EscalateAfter[RuleOf(FpOf(id))]) \in Nat
    BY <2>1, <1>1, <1>2, Identifiers, TimersAge DEF Row
  <2> QED
    BY <2>1, <2>2 DEF Row
<1>5. obs' \in [FPs -> Observation]
  <2>1. \A fp \in FPs :
          Older(obs[fp].age, Larger(DurationGate[RuleOf(fp)], StableGate[RuleOf(fp)])) \in Nat
    BY <1>1, <1>2, TimersAge DEF TypeOK, Observation
  <2> QED
    BY <2>1 DEF TypeOK, Tick, Record, Observation
<1> QED
  BY <1>3, <1>4, <1>5 DEF TypeOK, MemoryOK, RowsOK, Tick, cycle

LEMMA TypeEvaluate == ASSUME TypeOK, NEW r \in Rules, EvaluateRule(r) PROVE TypeOK'
<1>1. RowsOK(tx') /\ dirty' \subseteq AlertIds
  BY EvaluatedRows
<1>2. turn' \in Idle..DispatchTurn
  BY EvaluateFacts, ConstantsAssumption DEF Rules, Idle, DispatchTurn
<1>3. pending' \subseteq Notification
  <2>1. /\ Created(r) \subseteq AlertIds /\ Revived(r) \subseteq AlertIds
        /\ Resolving(r) \subseteq AlertIds /\ IdsOfRule[r] \subseteq AlertIds
    BY EvaluateFacts, ActedOn, Identifiers
  <2> QED
    BY <2>1 DEF EvaluateRule, TypeOK, Notification
<1>4. MemoryOK'
  <2>1. breachSince' \in [FPs -> Nat \cup {Never}]
    BY DEF EvaluateRule, BreachClock, TypeOK, MemoryOK, Never
  <2>2. clearSince' \in [FPs -> Nat \cup {Never}]
    BY DEF EvaluateRule, ClearClock, TypeOK, MemoryOK, Never
  <2>3. lastClear' \in [FPs -> BOOLEAN]
    BY DEF EvaluateRule, TypeOK, MemoryOK
  <2>4. muted' \subseteq FPs
    BY DEF EvaluateRule
  <2> QED
    BY <2>1, <2>2, <2>3, <2>4 DEF MemoryOK
<1>5. obs' \in [FPs -> Observation]
  <2>1. Observed(r) \in [FPs -> Observation]
    BY DEF Observed, TypeOK, Observation
  <2> QED
    BY <2>1 DEF EvaluateRule, Record, TypeOK
<1>6. told' \subseteq AlertIds
  BY DEF EvaluateRule, Record, TypeOK
<1> QED
  BY <1>1, <1>2, <1>3, <1>4, <1>5, <1>6, EvaluateFacts DEF TypeOK, RowsOK

\* The other steps of a cycle.
LEMMA TypeCycle ==
    TypeOK /\ (BeginCycle \/ Commit \/ CommitFails \/ Housekeeping \/ Dispatch \/ Restart) => TypeOK'
<1> SUFFICES ASSUME TypeOK, BeginCycle \/ Commit \/ CommitFails \/ Housekeeping \/ Dispatch \/ Restart
             PROVE  TypeOK'
  OBVIOUS
<1> USE DEF Idle, CommitTurn, DispatchTurn
<1>0. 0 \in 0..(NumRules + 2) /\ 1 \in 0..(NumRules + 2) /\ NumRules + 2 \in 0..(NumRules + 2)
  BY ConstantsAssumption
<1>1. CASE BeginCycle
  <2>1. SuppressionMap(alerts) \in [Devices -> AlertIds \cup {NoAlert}]
    <3> SUFFICES ASSUME NEW d \in Devices, LiveIds(alerts, <<DownRule, d>>) # {}
                 PROVE  (CHOOSE id \in LiveIds(alerts, <<DownRule, d>>) : TRUE) \in AlertIds
      BY DEF SuppressionMap
    <3> QED
      BY Identifiers DEF LiveIds
  <2> QED
    BY <1>0, <1>1, <2>1 DEF BeginCycle, TypeOK, MemoryOK, RowsOK, memory
<1>2. CASE Commit
  <2>1. RowsOK(alerts')
    BY <1>2, StoredShape DEF Commit, RowsOK
  <2>2. lastRes' \in [FPs -> AlertIds \cup {NoAlert}]
    <3> SUFFICES ASSUME NEW fp \in FPs,
                        {id \in IdsOf[fp] \cap dirty : tx[id].status = "resolved"} # {}
                 PROVE  (CHOOSE id \in {i \in IdsOf[fp] \cap dirty : tx[i].status = "resolved"} : TRUE)
                          \in AlertIds
      BY <1>2 DEF Commit, TypeOK
    <3> QED
      BY Identifiers
  <2> QED
    BY <1>0, <1>2, <2>1, <2>2, AbsentIsARow
       DEF Commit, CloseSession, TypeOK, MemoryOK, RowsOK, memory
<1>3. CASE CommitFails
  BY <1>0, <1>3, AbsentIsARow, ConstantsAssumption
     DEF CommitFails, CloseSession, TypeOK, MemoryOK, RowsOK, memory
<1>4. CASE Housekeeping
  <2>1. RowsOK(alerts')
    <3> SUFFICES ASSUME NEW id \in AlertIds
                 PROVE  /\ alerts[id] \in Row
                        /\ [alerts[id] EXCEPT !.status = "open", !.parent = NoAlert,
                                              !.notified = Never] \in Row
      BY <1>4 DEF Housekeeping, RecoverOrphans, PruneMemory, RowsOK
    <3>1. alerts[id] \in Row
      BY DEF TypeOK, RowsOK
    <3> QED
      BY <3>1 DEF Row, Live
  <2>2. MemoryOK'
    <3>1. PICK stale : /\ breachSince' = [fp \in FPs |-> IF fp \in stale THEN Never ELSE breachSince[fp]]
                       /\ clearSince' = [fp \in FPs |-> IF fp \in stale THEN Never ELSE clearSince[fp]]
                       /\ lastClear' = [fp \in FPs |-> lastClear[fp] /\ fp \notin stale]
                       /\ muted' = {fp \in muted : fp \notin stale}
      BY <1>4 DEF Housekeeping, PruneMemory
    <3> QED
      BY <3>1 DEF TypeOK, MemoryOK
  <2> QED
    BY <1>4, <2>1, <2>2 DEF Housekeeping, RecoverOrphans, PruneMemory, TypeOK, MemoryOK, RowsOK, cycle
<1>5. CASE Dispatch
  <2>1. told' \subseteq AlertIds
    BY <1>5 DEF Dispatch, Record, TypeOK, Notification
  <2> QED
    BY <1>0, <1>5, <2>1 DEF Dispatch, TypeOK, MemoryOK, RowsOK, memory
<1>6. CASE Restart
  <2>1. told' \subseteq AlertIds
    BY <1>6 DEF Restart, Record, TypeOK, Notification
  <2>2. MemoryOK'
    BY <1>6 DEF Restart, MemoryOK
  <2>3. faults' \in 0..MaxFaults
    BY <1>6, ConstantsAssumption DEF Restart, TypeOK
  <2> QED
    BY <1>0, <1>6, <2>1, <2>2, <2>3, AbsentIsARow DEF Restart, CloseSession, TypeOK, MemoryOK, RowsOK
<1> QED
  BY <1>1, <1>2, <1>3, <1>4, <1>5, <1>6

\* Requests write a status and who did it.
LEMMA TypeRequests == ASSUME TypeOK, Operators PROVE TypeOK'
<1>1. PICK id \in AlertIds : \/ RequestRead("acknowledge", id) \/ RequestRead("resolve", id)
                             \/ Acknowledge(id) \/ Resolve(id)
  BY DEF Operators
<1>2. CASE RequestRead("acknowledge", id) \/ RequestRead("resolve", id)
  BY <1>1, <1>2 DEF RequestRead, TypeOK, MemoryOK, RowsOK, memory, cycle, Request
<1>3. alerts[id] \in Row /\ FpOf(id) \in FPs
  BY <1>1, Identifiers DEF TypeOK, RowsOK
<1>4. CASE Acknowledge(id)
  <2>1. [alerts[id] EXCEPT !.status = "acknowledged", !.acked = TRUE] \in Row
    BY <1>3 DEF Row, Live
  <2>2. alerts' = [alerts EXCEPT ![id] = [alerts[id] EXCEPT !.status = "acknowledged", !.acked = TRUE]]
    BY <1>1, <1>4 DEF Acknowledge, TypeOK, RowsOK
  <2>3. RowsOK(alerts')
    BY <2>1, <2>2, <1>1 DEF TypeOK, RowsOK
  <2> QED
    BY <1>4, <2>3 DEF Acknowledge, TypeOK, MemoryOK, RowsOK, memory, cycle
<1>5. CASE Resolve(id)
  <2>1. [alerts[id] EXCEPT !.status = "resolved", !.byUser = TRUE] \in Row
    BY <1>3 DEF Row
  <2>2. alerts' = [alerts EXCEPT ![id] = [alerts[id] EXCEPT !.status = "resolved", !.byUser = TRUE]]
    BY <1>1, <1>5 DEF Resolve, TypeOK, RowsOK
  <2>3. RowsOK(alerts')
    BY <2>1, <2>2, <1>1 DEF TypeOK, RowsOK
  <2>4. obs' \in [FPs -> Observation]
    BY <1>3, <1>5 DEF Resolve, Record, TypeOK, Observation
  <2>5. lastClear' \in [FPs -> BOOLEAN] /\ lastRes' \in [FPs -> AlertIds \cup {NoAlert}]
    BY <1>1, <1>3, <1>5 DEF Resolve, TypeOK, MemoryOK
  <2> QED
    BY <1>5, <2>3, <2>4, <2>5 DEF Resolve, TypeOK, MemoryOK, RowsOK, cycle
<1> QED
  BY <1>1, <1>2, <1>4, <1>5

LEMMA TypeStep == TypeOK /\ [Next]_vars => TypeOK'
<1> SUFFICES ASSUME TypeOK, [Next]_vars PROVE TypeOK'
  OBVIOUS
<1>1. ASSUME NEW fp \in FPs, ConditionChanges(fp) PROVE TypeOK'
  BY <1>1 DEF ConditionChanges, TypeOK, MemoryOK, RowsOK, memory, cycle
<1>2. ASSUME NEW d \in Devices, MaintenanceChanges(d) PROVE TypeOK'
  BY <1>2, ConstantsAssumption DEF MaintenanceChanges, TypeOK, MemoryOK, RowsOK, memory, cycle
<1>3. ASSUME NEW r \in Rules, EvaluatorFails(r) PROVE TypeOK'
  <2>1. RowsOK(tx')
    BY <1>3, StoredShape DEF EvaluatorFails, RowsOK
  <2>2. turn' \in Idle..DispatchTurn
    BY <1>3, ConstantsAssumption DEF EvaluatorFails, Rules, Idle, DispatchTurn
  <2>3. faults' \in 0..MaxFaults
    BY <1>3, ConstantsAssumption DEF EvaluatorFails, TypeOK
  <2> QED
    BY <1>3, <2>1, <2>2, <2>3 DEF EvaluatorFails, TypeOK, MemoryOK, RowsOK, memory
<1>4. ASSUME NEW r \in Rules, LookupFails(r) PROVE TypeOK'
  <2>1. RowsOK(tx')
    BY <1>4, StoredShape DEF LookupFails, RowsOK
  <2>2. turn' \in Idle..DispatchTurn
    BY <1>4, ConstantsAssumption DEF LookupFails, Rules, Idle, DispatchTurn
  <2>3. breachSince' \in [FPs -> Nat \cup {Never}]
    BY <1>4 DEF LookupFails, BreachClock, TypeOK, MemoryOK
  <2>4. /\ clearSince' \in [FPs -> Nat \cup {Never}]
        /\ lastClear' \in [FPs -> BOOLEAN]
        /\ muted' \subseteq FPs
    BY <1>4 DEF LookupFails, TypeOK, MemoryOK
  <2>5. obs' \in [FPs -> Observation]
    BY <1>4 DEF LookupFails, Record, Observed, Observation, TypeOK
  <2> QED
    BY <1>4, <2>1, <2>2, <2>3, <2>4, <2>5 DEF LookupFails, TypeOK, MemoryOK, RowsOK
<1>5. CASE UNCHANGED vars
  BY <1>5 DEF vars, memory, cycle, TypeOK, MemoryOK, RowsOK
<1> QED
  BY <1>1, <1>2, <1>3, <1>4, <1>5, TypeTick, TypeEvaluate, TypeCycle, TypeRequests
     DEF Next, Environment, Evaluation

\* Whatever the engine, the operators and the network do, every variable keeps
\* to its type: rows stay rows, timers stay timers, and a cycle works on alerts
\* that exist.
THEOREM TypeCorrect == Spec => []TypeOK
<1>1. Init => TypeOK
  BY TypeInit
<1>2. TypeOK /\ [Next]_vars => TypeOK'
  BY TypeStep
<1> QED
  BY <1>1, <1>2, PTL DEF Spec

-----------------------------------------------------------------------------
(* One incident per fingerprint                                            *)

\* What evaluating a rule does to the rows as far as SessionAgrees reads them.
LEMMA EvaluateEffect ==
    ASSUME TypeOK, SessionAgrees, NEW r \in Rules, EvaluateRule(r), NEW id \in AlertIds
    PROVE  /\ id \in dirty => id \in dirty'
           /\ id \in Created(r) => /\ id \in dirty'
                                   /\ tx'[id].status \in Live /\ tx'[id].byUser = FALSE
                                   /\ alerts[id].status \notin Live /\ ~Targeted(id)
           /\ id \notin Created(r) =>
                /\ tx'[id].byUser = Stored(id).byUser
                /\ id \notin dirty' => tx'[id].status = alerts[id].status
                /\ tx'[id].status \in Live =>
                     Stored(id).status \in Live \/ Stored(id).byUser
                /\ id \in dirty' /\ RuleOf(FpOf(id)) > r =>
                     tx'[id].status \in Live \/ tx'[id].byUser
<1>1. tx[id] \in Row /\ NewRow(r, id) \in Row /\ Stored(id) \in Row
  BY EvaluateFacts, NewRowShape, StoredShape DEF TypeOK, RowsOK
<1>2. InSession
  BY EvaluateFacts, ConstantsAssumption DEF InSession, Rules, CommitTurn
<1>3. id \notin dirty => alerts[id].byUser \/ (alerts[id].status \in Live <=> tx[id].status \in Live)
  BY <1>2 DEF SessionAgrees, ReadsAreCurrent
<1>4. id \in dirty => id \in dirty'
  BY EvaluateFacts
<1>5. CASE id \in Created(r)
  <2>1. id \in FreeIds(FpOf(id))
    BY <1>5, EvaluateFacts, ActedOn
  <2>2. alerts[id].status \notin Live /\ ~Targeted(id)
    BY <2>1 DEF FreeIds, Targeted
  <2>3. tx'[id] = NewRow(r, id) /\ id \in dirty'
    BY <1>5, EvaluateFacts
  <2>4. tx'[id].status \in Live /\ tx'[id].byUser = FALSE
    BY <2>3, <1>5, EvaluateFacts, NewRowShape
  <2> QED
    BY <1>4, <1>5, <2>2, <2>3, <2>4
<1>6. CASE id \notin Created(r)
  <2>1. tx'[id] = Flush(tx[id], NewRow(r, id), Stored(id))
    BY <1>6, EvaluateFacts
  <2>2. /\ NewRow(r, id).byUser = tx[id].byUser
        /\ NewRow(r, id).status # tx[id].status => tx[id].status \in Live
        /\ RuleOf(FpOf(id)) # r /\ NewRow(r, id) # tx[id] =>
             tx[id].status \in Live /\ NewRow(r, id).status \in Live
    BY <1>6, EvaluateFacts, NewRowShape
  <2>3. /\ tx'[id].status = IF NewRow(r, id).status # tx[id].status
                            THEN NewRow(r, id).status ELSE Stored(id).status
        /\ tx'[id].byUser = Stored(id).byUser
    BY <1>1, <2>1, <2>2, FlushShape
  <2>4. id \notin dirty' => tx'[id].status = alerts[id].status
    BY <1>6, <2>3, EvaluateFacts DEF Stored
  <2>5. tx'[id].status \in Live => Stored(id).status \in Live \/ Stored(id).byUser
    BY <1>3, <2>2, <2>3 DEF Stored
  <2>6. ASSUME id \in dirty', RuleOf(FpOf(id)) > r
        PROVE  tx'[id].status \in Live \/ tx'[id].byUser
    <3>1. RuleOf(FpOf(id)) # r /\ RuleOf(FpOf(id)) >= turn
      <4>1. RuleOf(FpOf(id)) \in Nat /\ r \in Nat /\ turn = r
        BY EvaluateFacts, Identifiers
      <4> QED
        BY <2>6, <4>1
    <3>2. CASE id \in dirty
      <4>1. tx[id].status \in Live \/ tx[id].byUser
        BY <3>1, <3>2 DEF SessionAgrees, UnvisitedStayLive
      <4> QED
        BY <4>1, <3>1, <3>2, <2>2, <2>3 DEF Stored
    <3>3. CASE id \notin dirty
      <4>1. NewRow(r, id) # tx[id]
        BY <2>6, <3>3, <1>6, EvaluateFacts
      <4> QED
        BY <4>1, <3>1, <3>3, <2>2, <2>3, <1>3 DEF Stored
    <3> QED
      BY <3>2, <3>3
  <2> QED
    BY <1>4, <1>6, <2>3, <2>4, <2>5, <2>6
<1> QED
  BY <1>5, <1>6

\* A rule adds a candidate only where there was none.
LEMMA EvaluateKeepsOneCandidate ==
    ASSUME TypeOK, SessionAgrees, NEW r \in Rules, EvaluateRule(r)
    PROVE  OneCandidate'
<1>1. InSession /\ turn = r
  BY EvaluateFacts, ConstantsAssumption DEF InSession, Rules, CommitTurn
<1>2. ASSUME NEW id \in AlertIds, id \notin Created(r), Candidate(id)' PROVE Candidate(id)
  <2>1. alerts' = alerts /\ (Targeted(id)' <=> Targeted(id))
    BY EvaluateFacts DEF Targeted
  <2>2. Stored(id)'.byUser = Stored(id).byUser
    BY <1>2, <2>1, EvaluateEffect DEF Stored
  <2>3. Stored(id)'.status \in Live => Stored(id).status \in Live \/ Stored(id).byUser
    BY <1>2, <2>1, EvaluateEffect DEF Stored
  <2> QED
    BY <1>2, <2>1, <2>2, <2>3 DEF Candidate
<1>3. ASSUME NEW i \in AlertIds, i \in Created(r), NEW j \in AlertIds, j \notin Created(r),
             FpOf(i) = FpOf(j), Candidate(j)
      PROVE  FALSE
  <2>1. tx[j].status \notin Live
    BY <1>3, EvaluateFacts, ActedOn
  <2>2. RuleOf(FpOf(j)) = r
    BY <1>3, EvaluateFacts, ActedOn, Identifiers
  <2>3. j \notin dirty
    <3>1. j \in dirty => RuleOf(FpOf(j)) >= turn
      BY <1>1, <2>2, Identifiers
    <3> QED
      BY <1>3, <2>1, <3>1 DEF SessionAgrees, UnvisitedStayLive, Candidate, Stored
  <2>4. ~alerts[j].byUser /\ alerts[j].status \notin Live
    BY <1>1, <1>3, <2>1, <2>3 DEF SessionAgrees, ReadsAreCurrent, Candidate, Stored
  <2>5. ~Targeted(j)
    BY <1>1, <2>4 DEF SessionAgrees, RequestsAreLive, Targeted
  <2> QED
    BY <1>3, <2>3, <2>4, <2>5 DEF Candidate, Stored
<1>4. SUFFICES ASSUME NEW i \in AlertIds, NEW j \in AlertIds, FpOf(i) = FpOf(j),
                      Candidate(i)', Candidate(j)'
               PROVE  i = j
  BY DEF OneCandidate
<1>5. CASE i \in Created(r) /\ j \in Created(r)
  BY <1>4, <1>5, EvaluateFacts, ActedOn
<1>6. CASE i \in Created(r) /\ j \notin Created(r)
  BY <1>2, <1>3, <1>4, <1>6
<1>7. CASE i \notin Created(r) /\ j \in Created(r)
  BY <1>2, <1>3, <1>4, <1>7
<1>8. CASE i \notin Created(r) /\ j \notin Created(r)
  BY <1>2, <1>4, <1>8 DEF SessionAgrees, OneCandidate
<1> QED
  BY <1>5, <1>6, <1>7, <1>8

\* Evaluating a rule keeps the session and the committed rows in agreement.
LEMMA EvaluateAgrees ==
    ASSUME TypeOK, SessionAgrees, NEW r \in Rules, EvaluateRule(r)
    PROVE  SessionAgrees'
<1>1. InSession /\ InSession' /\ turn = r /\ turn' = r + 1
  BY EvaluateFacts, ConstantsAssumption DEF InSession, Rules, CommitTurn
<1>2. OneCandidate'
  BY EvaluateKeepsOneCandidate
<1>3. OnlySessionsWrite'
  BY <1>1 DEF OnlySessionsWrite
<1>4. ReadsAreCurrent'
  BY EvaluateFacts, EvaluateEffect DEF ReadsAreCurrent
<1>5. RequestsAreLive'
  BY <1>1, EvaluateFacts DEF SessionAgrees, RequestsAreLive
<1>6. UnvisitedStayLive'
  <2> SUFFICES ASSUME NEW id \in AlertIds, id \in dirty', RuleOf(FpOf(id)) >= r + 1
               PROVE  tx'[id].status \in Live \/ tx'[id].byUser
    BY <1>1, EvaluateFacts DEF UnvisitedStayLive
  <2>1. RuleOf(FpOf(id)) > r
    BY Identifiers
  <2> QED
    BY <2>1, EvaluateEffect
<1>7. ResolvedByStays'
  <2> SUFFICES ASSUME NEW id \in AlertIds, id \in dirty', tx'[id].byUser
               PROVE  alerts[id].byUser
    BY EvaluateFacts DEF ResolvedByStays
  <2>1. Stored(id).byUser
    BY EvaluateEffect
  <2> QED
    BY <2>1 DEF Stored, SessionAgrees, ResolvedByStays
<1> QED
  BY <1>2, <1>3, <1>4, <1>5, <1>6, <1>7 DEF SessionAgrees

LEMMA AgreementInit == Init => SessionAgrees
BY DEF Init, SessionAgrees, OneCandidate, Candidate, Stored, Targeted, OnlySessionsWrite,
       ReadsAreCurrent, RequestsAreLive, UnvisitedStayLive, ResolvedByStays, InSession,
       Idle, CommitTurn, Absent, Live

\* A request leaves alone the rows a session has written; an acknowledgement
\* makes live only what was a candidate, and a resolution ends a candidacy.
LEMMA RequestsAgree == ASSUME TypeOK, SessionAgrees, Operators PROVE SessionAgrees'
<1>1. PICK id \in AlertIds : \/ RequestRead("acknowledge", id) \/ RequestRead("resolve", id)
                             \/ Acknowledge(id) \/ Resolve(id)
  BY DEF Operators
<1> USE DEF SessionAgrees
<1>2. ASSUME NEW op, RequestRead(op, id) PROVE SessionAgrees'
  <2>1. /\ UNCHANGED <<alerts, tx, dirty, turn>>
        /\ reqs' = reqs \cup {[op |-> op, id |-> id]}
        /\ alerts[id].status \in Live
    BY <1>2 DEF RequestRead, cycle, Live
  <2>2. \A i \in AlertIds : Targeted(i)' => Targeted(i) \/ i = id
    <3> DEFINE new == [op |-> op, id |-> id]
    <3>1. new.id = id /\ \A q \in reqs' : q \in reqs \/ q = new
      BY <2>1
    <3> HIDE DEF new
    <3> QED
      BY <3>1 DEF Targeted
  <2>3. \A i \in AlertIds : Candidate(i)' => Candidate(i)
    BY <2>1, <2>2 DEF Candidate, Stored
  <2>4. OneCandidate'
    BY <2>3 DEF OneCandidate
  <2>5. RequestsAreLive'
    BY <2>1 DEF RequestsAreLive, InSession
  <2> QED
    BY <2>1, <2>4, <2>5
       DEF OnlySessionsWrite, ReadsAreCurrent, UnvisitedStayLive, ResolvedByStays, InSession
<1>3. ASSUME NEW row, id \notin dirty, alerts' = [alerts EXCEPT ![id] = row],
             \A q \in reqs' : q \in reqs, UNCHANGED <<tx, dirty, turn>>,
             row.byUser \/ (row.byUser = alerts[id].byUser /\ row.status \in Live /\ Targeted(id))
      PROVE  SessionAgrees'
  <2>1. \A i \in AlertIds : alerts'[i] = IF i = id THEN row ELSE alerts[i]
    BY <1>3 DEF TypeOK, RowsOK
  <2>2. \A i \in AlertIds : Targeted(i)' => Targeted(i)
    BY <1>3 DEF Targeted
  <2>3. \A i \in AlertIds : Candidate(i)' => Candidate(i)
    BY <1>3, <2>1, <2>2 DEF Candidate, Stored
  <2>4. OneCandidate'
    BY <2>3 DEF OneCandidate
  <2>5. RequestsAreLive'
    <3> SUFFICES ASSUME InSession, NEW q \in reqs', q \in reqs
                 PROVE  alerts'[q.id].status \in Live \/ alerts'[q.id].byUser
      BY <1>3 DEF RequestsAreLive, InSession
    <3>1. q.id \in AlertIds
      BY DEF TypeOK, Request
    <3> QED
      BY <1>3, <2>1, <3>1 DEF RequestsAreLive
  <2>6. ReadsAreCurrent'
    <3> SUFFICES ASSUME InSession, NEW i \in AlertIds \ dirty
                 PROVE  alerts'[i].byUser \/ (alerts'[i].status \in Live <=> tx[i].status \in Live)
      BY <1>3 DEF ReadsAreCurrent, InSession
    <3>1. Targeted(id) => alerts[id].status \in Live \/ alerts[id].byUser
      BY DEF RequestsAreLive, Targeted
    <3> QED
      BY <1>3, <2>1, <3>1 DEF ReadsAreCurrent
  <2>7. ResolvedByStays'
    BY <1>3, <2>1 DEF ResolvedByStays, TypeOK
  <2> QED
    BY <1>3, <2>4, <2>5, <2>6, <2>7 DEF OnlySessionsWrite, UnvisitedStayLive, InSession
<1>4. alerts[id] \in Row
  BY <1>1 DEF TypeOK, RowsOK
<1>5. CASE Acknowledge(id)
  <2> DEFINE row == [alerts[id] EXCEPT !.status = "acknowledged", !.acked = TRUE]
  <2>1. row.byUser = alerts[id].byUser /\ row.status \in Live
    BY <1>4 DEF Row, Live
  <2>2. /\ id \notin dirty /\ Targeted(id) /\ UNCHANGED <<tx, dirty, turn>>
        /\ \A q \in reqs' : q \in reqs
    BY <1>5 DEF Acknowledge, Targeted, cycle
  <2>3. alerts' = [alerts EXCEPT ![id] = row]
    BY <1>1, <1>5 DEF Acknowledge, TypeOK, RowsOK
  <2> HIDE DEF row
  <2> QED
    BY <1>3, <2>1, <2>2, <2>3
<1>6. CASE Resolve(id)
  <2> DEFINE row == [alerts[id] EXCEPT !.status = "resolved", !.byUser = TRUE]
  <2>1. row.byUser
    BY <1>4 DEF Row
  <2>2. /\ id \notin dirty /\ UNCHANGED <<tx, dirty, turn>>
        /\ \A q \in reqs' : q \in reqs
    BY <1>6 DEF Resolve, cycle
  <2>3. alerts' = [alerts EXCEPT ![id] = row]
    BY <1>1, <1>6 DEF Resolve, TypeOK, RowsOK
  <2> HIDE DEF row
  <2> QED
    BY <1>3, <2>1, <2>2, <2>3
<1> QED
  BY <1>1, <1>2, <1>5, <1>6

\* Steps that change no status, no resolution, no session row and no turn, and
\* steps outside a session, keep the agreement.
LEMMA QuietAgrees ==
    ASSUME SessionAgrees,
           \A id \in AlertIds : /\ alerts'[id].byUser = alerts[id].byUser
                                /\ alerts'[id].status \in Live <=> alerts[id].status \in Live,
           UNCHANGED <<tx, dirty, turn, reqs>>, TypeOK
    PROVE  SessionAgrees'
<1> USE DEF SessionAgrees
<1>1. \A i \in AlertIds : Candidate(i)' => Candidate(i)
  BY DEF Candidate, Stored, Targeted
<1>2. OneCandidate'
  BY <1>1 DEF OneCandidate
<1>3. \A q \in reqs : q.id \in AlertIds
  BY DEF TypeOK, Request
<1> QED
  BY <1>2, <1>3 DEF OnlySessionsWrite, ReadsAreCurrent, RequestsAreLive, UnvisitedStayLive,
                    ResolvedByStays, InSession, TypeOK

\* The steps that open, close or abandon a session.
LEMMA SessionEdgesAgree ==
    ASSUME TypeOK, SessionAgrees, BeginCycle \/ Commit \/ CommitFails \/ Restart
    PROVE  SessionAgrees'
<1> USE DEF SessionAgrees
<1>0. NumRules \in Nat \ {0} /\ \A id \in AlertIds : RuleOf(FpOf(id)) \in 1..NumRules
  BY ConstantsAssumption, Identifiers DEF Rules
<1>1. CASE BeginCycle
  <2>1. dirty = {} /\ reqs = {} /\ InSession'
    BY <1>0, <1>1 DEF BeginCycle, RequestsAreShort, OnlySessionsWrite, InSession, Idle, CommitTurn
  <2>2. UNCHANGED <<alerts, dirty, reqs>> /\ tx' = alerts
    BY <1>1 DEF BeginCycle
  <2>3. \A i \in AlertIds : Candidate(i)' => Candidate(i)
    BY <2>1, <2>2 DEF Candidate, Stored, Targeted
  <2>4. OneCandidate'
    BY <2>3 DEF OneCandidate
  <2> QED
    BY <2>1, <2>2, <2>4 DEF OnlySessionsWrite, ReadsAreCurrent, RequestsAreLive, UnvisitedStayLive,
                            ResolvedByStays
<1>2. CASE Commit \/ CommitFails \/ Restart
  <2>1. dirty' = {} /\ ~InSession'
    BY <1>0, <1>2 DEF Commit, CommitFails, Restart, CloseSession, InSession, Idle, CommitTurn, DispatchTurn
  <2>2. \A i \in AlertIds : Targeted(i)' => Targeted(i)
    BY <1>2 DEF Commit, CommitFails, Restart, Targeted
  <2>3. \A i \in AlertIds : alerts'[i] = Stored(i) \/ alerts'[i] = alerts[i]
    BY <1>2 DEF Commit, CommitFails, Restart
  <2>4. \A i \in AlertIds : Candidate(i)' => Candidate(i)
    <3> SUFFICES ASSUME NEW i \in AlertIds, Candidate(i)' PROVE Candidate(i)
      OBVIOUS
    <3>1. ~alerts'[i].byUser /\ (alerts'[i].status \in Live \/ Targeted(i))
      BY <2>1, <2>2 DEF Candidate, Stored
    <3>2. alerts'[i] = alerts[i] => ~Stored(i).byUser
      BY <3>1 DEF Stored, ResolvedByStays
    <3> QED
      BY <2>3, <3>1, <3>2 DEF Candidate
  <2>5. OneCandidate'
    BY <2>4 DEF OneCandidate
  <2> QED
    BY <2>1, <2>5 DEF OnlySessionsWrite, ReadsAreCurrent, RequestsAreLive, UnvisitedStayLive,
                      ResolvedByStays
<1> QED
  BY <1>1, <1>2

\* A rule whose evaluator or lookup fails re-reads the rows and writes none.
LEMMA FailureAgrees ==
    ASSUME TypeOK, SessionAgrees, NEW r \in Rules, EvaluatorFails(r) \/ LookupFails(r)
    PROVE  SessionAgrees'
<1> USE DEF SessionAgrees
<1>1. /\ UNCHANGED <<alerts, dirty, reqs>> /\ tx' = [id \in AlertIds |-> Stored(id)]
      /\ turn = r /\ turn' = r + 1
  BY DEF EvaluatorFails, LookupFails
<1>2. InSession /\ InSession' /\ r \in Nat
  BY <1>1, ConstantsAssumption DEF InSession, Rules, CommitTurn
<1>3. \A i \in AlertIds : i \in dirty => tx'[i] = tx[i]
  BY <1>1 DEF Stored
<1>4. \A i \in AlertIds : Candidate(i)' => Candidate(i)
  BY <1>1 DEF Candidate, Stored, Targeted
<1>5. OneCandidate'
  BY <1>4 DEF OneCandidate
<1>6. UnvisitedStayLive'
  <2> SUFFICES ASSUME NEW i \in AlertIds, i \in dirty, RuleOf(FpOf(i)) >= r + 1
               PROVE  tx'[i].status \in Live \/ tx'[i].byUser
    BY <1>1 DEF UnvisitedStayLive, TypeOK
  <2>1. RuleOf(FpOf(i)) >= turn
    <3>1. RuleOf(FpOf(i)) \in Nat
      BY Identifiers
    <3> QED
      BY <3>1, <1>1, <1>2
  <2> QED
    BY <1>3, <2>1 DEF UnvisitedStayLive
<1>7. ReadsAreCurrent'
  BY <1>1 DEF ReadsAreCurrent, Stored
<1>8. ResolvedByStays'
  BY <1>1, <1>3 DEF ResolvedByStays, TypeOK
<1> QED
  BY <1>1, <1>2, <1>5, <1>6, <1>7, <1>8 DEF OnlySessionsWrite, RequestsAreLive

LEMMA AgreementStep == TypeOK /\ SessionAgrees /\ [Next]_vars => SessionAgrees'
<1> SUFFICES ASSUME TypeOK, SessionAgrees, [Next]_vars PROVE SessionAgrees'
  OBVIOUS
<1>1. ASSUME NEW fp \in FPs, ConditionChanges(fp) PROVE SessionAgrees'
  BY <1>1, QuietAgrees DEF ConditionChanges, cycle
<1>2. ASSUME NEW d \in Devices, MaintenanceChanges(d) PROVE SessionAgrees'
  BY <1>2, QuietAgrees DEF MaintenanceChanges, cycle
<1>3. CASE Tick
  <2>1. \A id \in AlertIds : alerts'[id].byUser = alerts[id].byUser
                             /\ alerts'[id].status = alerts[id].status
    <3> SUFFICES ASSUME NEW id \in AlertIds
                 PROVE  /\ alerts'[id].byUser = alerts[id].byUser
                        /\ alerts'[id].status = alerts[id].status
      OBVIOUS
    <3>1. alerts[id] \in Row
      BY DEF TypeOK, RowsOK
    <3> QED
      BY <1>3, <3>1 DEF Tick, Row
  <2> QED
    BY <1>3, <2>1, QuietAgrees DEF Tick, cycle
<1>4. CASE Housekeeping
  <2>1. \A id \in AlertIds : alerts'[id].byUser = alerts[id].byUser
                             /\ (alerts'[id].status \in Live <=> alerts[id].status \in Live)
    <3> SUFFICES ASSUME NEW id \in AlertIds
                 PROVE  /\ alerts'[id].byUser = alerts[id].byUser
                        /\ alerts'[id].status \in Live <=> alerts[id].status \in Live
      OBVIOUS
    <3>1. alerts[id] \in Row
      BY DEF TypeOK, RowsOK
    <3> QED
      BY <1>4, <3>1 DEF Housekeeping, RecoverOrphans, PruneMemory, Row, Live
  <2> QED
    BY <1>4, <2>1, QuietAgrees DEF Housekeeping, RecoverOrphans, PruneMemory, cycle
<1>5. CASE Dispatch
  <2>1. turn = DispatchTurn /\ turn' = Idle /\ UNCHANGED <<alerts, tx, dirty, reqs>>
    BY <1>5 DEF Dispatch
  <2>2. ~InSession /\ ~InSession'
    BY <2>1, ConstantsAssumption DEF InSession, Idle, CommitTurn, DispatchTurn
  <2>3. dirty = {}
    BY <2>2 DEF SessionAgrees, OnlySessionsWrite
  <2>4. OneCandidate'
    BY <2>1 DEF SessionAgrees, OneCandidate, Candidate, Stored, Targeted
  <2> QED
    BY <2>1, <2>2, <2>3, <2>4 DEF SessionAgrees, OnlySessionsWrite, ReadsAreCurrent, RequestsAreLive,
                                  UnvisitedStayLive, ResolvedByStays
<1>6. CASE UNCHANGED vars
  BY <1>6, QuietAgrees DEF vars, cycle
<1> QED
  BY <1>1, <1>2, <1>3, <1>4, <1>5, <1>6, RequestsAgree, SessionEdgesAgree, EvaluateAgrees, FailureAgrees
     DEF Next, Environment, Evaluation

\* While a cycle runs, what it read and wrote agrees with the committed rows on
\* everything deduplication looks at, whatever the REST handlers write meanwhile.
THEOREM Agreement == Spec => []SessionAgrees
<1>1. Init => TypeOK /\ SessionAgrees
  BY TypeInit, AgreementInit
<1>2. TypeOK /\ SessionAgrees /\ [Next]_vars => TypeOK' /\ SessionAgrees'
  BY TypeStep, AgreementStep
<1> QED
  BY <1>1, <1>2, PTL DEF Spec

\* A fingerprint never has two live alerts that no operator has resolved: one
\* incident is one alert, however requests, failures and restarts fall between
\* the engine's reads, its flushes and its commit.
THEOREM OneIncident == Spec => []UniqueIncident
<1>1. TypeOK /\ SessionAgrees => UniqueIncident
  <2> SUFFICES ASSUME TypeOK, SessionAgrees, NEW fp \in FPs,
                      NEW i \in LiveIds(alerts, fp), ~alerts[i].byUser,
                      NEW j \in LiveIds(alerts, fp), ~alerts[j].byUser
               PROVE  i = j
    BY DEF UniqueIncident
  <2>1. i \in AlertIds /\ j \in AlertIds /\ FpOf(i) = FpOf(j)
    BY LiveIdsShape
  <2>2. alerts[i].status \in Live /\ alerts[j].status \in Live
    BY LiveIdsShape
  <2>3. Candidate(i) /\ Candidate(j)
    BY <2>1, <2>2 DEF Candidate, Stored, SessionAgrees, ResolvedByStays
  <2> QED
    BY <2>1, <2>3 DEF SessionAgrees, OneCandidate
<1> QED
  BY <1>1, TypeCorrect, Agreement, PTL

-----------------------------------------------------------------------------
(* Mutes.                                                                  *)

\* A silenced fingerprint has no candidate, its last resolution is an operator's, and
\* what a session has written was live or has an operator as its resolver: so no
\* commit puts another row, or another resolver, in the place of that resolution.
MutedIsEmpty == \A id \in AlertIds : FpOf(id) \in muted => ~Candidate(id)
WritesAreCandidates ==
    \A id \in dirty : tx[id].byUser \/ alerts[id].status \in Live \/ tx[id].status \in Live
UnvisitedWereLive ==
    \A id \in dirty : RuleOf(FpOf(id)) >= turn => tx[id].byUser \/ alerts[id].status \in Live
ResolutionsAreOwn == \A fp \in FPs : lastRes[fp] # NoAlert => FpOf(lastRes[fp]) = fp

MutesAgree == /\ TypeOK /\ SessionAgrees /\ ResolutionsAreOwn
              /\ MuteHasOwner /\ MutedIsEmpty /\ WritesAreCandidates /\ UnvisitedWereLive

\* A rule changes rows it has read as live, and creates others.
LEMMA ChangesAreLive ==
    ASSUME TypeOK, NEW r \in Rules, \A fp \in Creating(r) : FreeIds(fp) # {},
           NEW id \in AlertIds, id \notin Created(r), NewRow(r, id) # tx[id]
    PROVE  tx[id].status \in Live
<1> SUFFICES ASSUME tx[id].status \notin Live PROVE FALSE
  OBVIOUS
<1>1. id \notin Revived(r) \cup RetroSuppressed(r) \cup Resolving(r)
  BY ActedOn DEF Resolving
<1>2. Fired(id, Created(r), Revived(r), RetroSuppressed(r)) = tx[id]
  BY <1>1 DEF Fired
<1>3. Escalated(r, id, tx[id]) = tx[id] /\ Renotified(r, id, tx[id]) = tx[id]
  BY DEF Escalated, MustEscalate, Renotified, MustRenotify, Live, Surfaced
<1>4. Settled(id, tx[id], Resolving(r), Created(r)) = tx[id]
  BY <1>1 DEF Settled, Live
<1> QED
  BY <1>2, <1>3, <1>4 DEF NewRow

\* At its rule's turn, a fingerprint in which the session finds nothing live has no
\* candidate.
LEMMA NothingLive ==
    ASSUME TypeOK, SessionAgrees, NEW r \in Rules, turn = r,
           NEW id \in AlertIds, RuleOf(FpOf(id)) = r, tx[id].status \notin Live
    PROVE  ~Candidate(id)
<1>1. InSession
  BY ConstantsAssumption DEF InSession, Rules, CommitTurn
<1>2. CASE id \in dirty
  <2>1. RuleOf(FpOf(id)) >= turn
    BY Identifiers
  <2> QED
    BY <1>2, <2>1 DEF SessionAgrees, UnvisitedStayLive, Candidate, Stored
<1>3. CASE id \notin dirty
  <2>1. alerts[id].byUser \/ alerts[id].status \notin Live
    BY <1>1, <1>3 DEF SessionAgrees, ReadsAreCurrent
  <2>2. alerts[id].byUser \/ ~Targeted(id)
    BY <1>1, <2>1 DEF SessionAgrees, RequestsAreLive, Targeted
  <2> QED
    BY <1>3, <2>1, <2>2 DEF Candidate, Stored
<1> QED
  BY <1>2, <1>3

LEMMA EvaluateKeepsMutes ==
    ASSUME MutesAgree, NEW r \in Rules, EvaluateRule(r)
    PROVE  MutesAgree'
<1> USE DEF MutesAgree
<1>1. /\ InSession /\ turn = r /\ turn' = r + 1
      /\ UNCHANGED <<alerts, lastRes, reqs>>
  BY EvaluateFacts, ConstantsAssumption DEF InSession, Rules, CommitTurn
<1>2. muted' = {fp \in FPs : fp \in NewlyMuted(r) \/ (fp \in muted /\ fp \notin Unmuted(r))}
  BY DEF EvaluateRule
<1>3. MuteHasOwner'
  BY <1>1, <1>2 DEF MuteHasOwner, OperatorResolved, NewlyMuted
<1>4. MutedIsEmpty'
  <2> SUFFICES ASSUME NEW id \in AlertIds, FpOf(id) \in muted', Candidate(id)' PROVE FALSE
    BY DEF MutedIsEmpty
  <2>1. id \notin Created(r)
    <3>1. id \in Created(r) => FpOf(id) \in Creating(r)
      BY EvaluateFacts, ActedOn DEF Created
    <3> QED
      BY <1>2, <3>1 DEF Creating
  <2>2. Stored(id)'.byUser = Stored(id).byUser
    BY <2>1, <1>1, EvaluateEffect DEF Stored
  <2>3. Stored(id)'.status \in Live => Stored(id).status \in Live \/ Stored(id).byUser
    BY <2>1, <1>1, EvaluateEffect DEF Stored
  <2>4. Targeted(id)' <=> Targeted(id)
    BY <1>1 DEF Targeted
  <2>5. Candidate(id)
    BY <1>1, <2>2, <2>3, <2>4 DEF Candidate
  <2>6. FpOf(id) \notin muted
    BY <2>5 DEF MutedIsEmpty
  <2>7. FpOf(id) \in FPs /\ FpOf(id) \in NewlyMuted(r)
    BY <1>2, <2>6, Identifiers
  <2>8. RuleOf(FpOf(id)) = r /\ tx[id].status \notin Live
    BY <2>7, Identifiers, LiveIdsShape DEF NewlyMuted
  <2> QED
    BY <1>1, <2>5, <2>8, NothingLive
<1>5. ASSUME NEW id \in AlertIds, id \notin Created(r), NewRow(r, id) # tx[id], id \notin dirty
      PROVE  alerts[id].status \in Live \/ tx'[id].byUser
  <2>1. tx[id].status \in Live
    BY <1>5, EvaluateFacts, ChangesAreLive
  <2>2. alerts[id].status \in Live \/ alerts[id].byUser
    BY <1>1, <1>5, <2>1 DEF SessionAgrees, ReadsAreCurrent
  <2>3. tx'[id].byUser = alerts[id].byUser
    BY <1>5, EvaluateEffect DEF Stored
  <2> QED
    BY <2>2, <2>3
<1>6. WritesAreCandidates'
  <2> SUFFICES ASSUME NEW id \in AlertIds, id \in dirty'
               PROVE  tx'[id].byUser \/ alerts[id].status \in Live \/ tx'[id].status \in Live
    BY <1>1, EvaluateFacts DEF WritesAreCandidates, TypeOK
  <2>1. CASE id \in Created(r)
    BY <2>1, EvaluateEffect
  <2>2. CASE id \notin Created(r) /\ id \notin dirty
    BY <2>2, <1>5, EvaluateFacts
  <2>3. CASE id \notin Created(r) /\ id \in dirty
    <3>1. tx'[id].byUser = tx[id].byUser
      BY <2>3, EvaluateEffect DEF Stored
    <3> SUFFICES ASSUME ~tx[id].byUser, alerts[id].status \notin Live PROVE tx'[id].status \in Live
      BY <3>1
    <3>2. tx[id].status \in Live
      BY <2>3 DEF WritesAreCandidates
    <3>3. RuleOf(FpOf(id)) \in Nat /\ ~(RuleOf(FpOf(id)) >= turn)
      BY <2>3, Identifiers DEF UnvisitedWereLive
    <3>4. RuleOf(FpOf(id)) # r
      BY <1>1, <3>3, Identifiers
    <3>5. /\ tx[id] \in Row /\ NewRow(r, id) \in Row /\ Stored(id) = tx[id]
          /\ NewRow(r, id) # tx[id] => NewRow(r, id).status \in Live
      BY <2>3, <3>4, EvaluateFacts, NewRowShape DEF Stored, TypeOK, RowsOK
    <3>6. tx'[id] = Flush(tx[id], NewRow(r, id), tx[id])
      BY <2>3, <3>5, EvaluateFacts
    <3> QED
      BY <3>2, <3>5, <3>6, FlushShape
  <2> QED
    BY <2>1, <2>2, <2>3
<1>7. UnvisitedWereLive'
  <2> SUFFICES ASSUME NEW id \in AlertIds, id \in dirty', RuleOf(FpOf(id)) >= r + 1
               PROVE  tx'[id].byUser \/ alerts[id].status \in Live
    BY <1>1, EvaluateFacts DEF UnvisitedWereLive, TypeOK
  <2>0. RuleOf(FpOf(id)) \in Nat /\ r \in Nat /\ RuleOf(FpOf(id)) # r /\ RuleOf(FpOf(id)) >= turn
    <3>1. RuleOf(FpOf(id)) \in Nat /\ r \in Nat
      BY Identifiers
    <3> QED
      BY <3>1, <1>1
  <2>1. id \notin Created(r)
    BY <2>0, EvaluateFacts, ActedOn, Identifiers
  <2>2. CASE id \notin dirty
    BY <2>1, <2>2, <1>5, EvaluateFacts
  <2>3. CASE id \in dirty
    <3>1. tx'[id].byUser = tx[id].byUser
      BY <2>1, <2>3, EvaluateEffect DEF Stored
    <3> QED
      BY <2>0, <2>3, <3>1 DEF UnvisitedWereLive
  <2> QED
    BY <2>2, <2>3
<1>8. ResolutionsAreOwn'
  BY <1>1 DEF ResolutionsAreOwn
<1> QED
  BY <1>3, <1>4, <1>6, <1>7, <1>8, TypeEvaluate, EvaluateAgrees

\* Elsewhere than in a rule's evaluation no row becomes a candidate.
LEMMA NoNewCandidates ==
    ASSUME TypeOK, SessionAgrees, NEW id \in AlertIds, Candidate(id)',
           \/ Environment \/ Operators \/ BeginCycle \/ Commit \/ CommitFails
           \/ Housekeeping \/ Dispatch \/ Restart
           \/ \E r \in Rules : LookupFails(r) \/ EvaluatorFails(r)
           \/ UNCHANGED vars
    PROVE  Candidate(id)
<1> USE DEF SessionAgrees
<1>1. ASSUME reqs' \subseteq reqs, dirty' = dirty, \A i \in dirty : tx'[i] = tx[i],
             alerts'[id].byUser = alerts[id].byUser,
             alerts'[id].status \in Live <=> alerts[id].status \in Live
      PROVE  Candidate(id)
  BY <1>1 DEF Candidate, Stored, Targeted
<1>2. alerts[id] \in Row
  BY DEF TypeOK, RowsOK
<1>3. CASE Tick
  BY <1>1, <1>2, <1>3 DEF Tick, cycle, Row
<1>4. CASE Housekeeping
  BY <1>1, <1>2, <1>4 DEF Housekeeping, RecoverOrphans, cycle, Row, Live
<1>5. CASE (\E fp \in FPs : ConditionChanges(fp)) \/ (\E d \in Devices : MaintenanceChanges(d))
           \/ Dispatch \/ UNCHANGED vars
  BY <1>1, <1>5 DEF ConditionChanges, MaintenanceChanges, Dispatch, vars, cycle
<1>6. CASE BeginCycle
  <2>1. dirty = {}
    BY <1>6, Identifiers DEF BeginCycle, OnlySessionsWrite, InSession, Idle
  <2> QED
    BY <1>1, <1>6, <2>1 DEF BeginCycle
<1>7. CASE \E r \in Rules : LookupFails(r) \/ EvaluatorFails(r)
  <2>1. UNCHANGED <<alerts, dirty, reqs>> /\ tx' = [i \in AlertIds |-> Stored(i)]
    BY <1>7 DEF LookupFails, EvaluatorFails
  <2>2. \A i \in dirty : tx'[i] = tx[i]
    BY <2>1 DEF Stored, TypeOK
  <2> QED
    BY <1>1, <2>1, <2>2
<1>8. CASE Commit \/ CommitFails \/ Restart
  <2>1. dirty' = {} /\ reqs' \subseteq reqs /\ (alerts'[id] = Stored(id) \/ alerts'[id] = alerts[id])
    BY <1>8 DEF Commit, CommitFails, Restart, CloseSession
  <2>2. ~alerts'[id].byUser /\ (alerts'[id].status \in Live \/ Targeted(id))
    BY <2>1 DEF Candidate, Stored, Targeted
  <2>3. alerts'[id] = alerts[id] => ~Stored(id).byUser
    BY <2>2 DEF Stored, ResolvedByStays
  <2> QED
    BY <2>1, <2>2, <2>3 DEF Candidate
<1>9. CASE Operators
  <2>1. PICK i \in AlertIds : \/ RequestRead("acknowledge", i) \/ RequestRead("resolve", i)
                              \/ Acknowledge(i) \/ Resolve(i)
    BY <1>9 DEF Operators
  <2>2. UNCHANGED <<tx, dirty>> /\ alerts \in [AlertIds -> Row]
    BY <2>1 DEF RequestRead, Acknowledge, Resolve, cycle, TypeOK, RowsOK
  <2>3. ASSUME NEW op, RequestRead(op, i) PROVE Candidate(id)
    <3>1. /\ alerts' = alerts /\ alerts[i].status \in Live
          /\ reqs' = reqs \cup {[op |-> op, id |-> i]}
      BY <2>3 DEF RequestRead, Live
    <3> QED
      BY <2>2, <3>1 DEF Candidate, Stored, Targeted
  <2>4. CASE Acknowledge(i)
    <3>1. /\ i \notin dirty /\ Targeted(i) /\ reqs' \subseteq reqs
          /\ alerts'[i].byUser = alerts[i].byUser
          /\ \A j \in AlertIds \ {i} : alerts'[j] = alerts[j]
      BY <2>2, <2>4 DEF Acknowledge, Targeted, Row
    <3> QED
      BY <2>2, <3>1 DEF Candidate, Stored, Targeted
  <2>5. CASE Resolve(i)
    <3>1. /\ i \notin dirty /\ reqs' \subseteq reqs /\ alerts'[i].byUser
          /\ \A j \in AlertIds \ {i} : alerts'[j] = alerts[j]
      BY <2>2, <2>5 DEF Resolve, Row
    <3> QED
      BY <2>2, <3>1 DEF Candidate, Stored, Targeted
  <2> QED
    BY <2>1, <2>3, <2>4, <2>5
<1> QED
  BY <1>3, <1>4, <1>5, <1>6, <1>7, <1>8, <1>9 DEF Environment

LEMMA MutesInit == Init => MutesAgree
BY TypeInit, AgreementInit
   DEF Init, MutesAgree, ResolutionsAreOwn, MuteHasOwner, MutedIsEmpty, WritesAreCandidates,
       UnvisitedWereLive

LEMMA MutesStep == MutesAgree /\ [Next]_vars => MutesAgree'
<1> SUFFICES ASSUME MutesAgree, [Next]_vars PROVE MutesAgree'
  OBVIOUS
<1> USE DEF MutesAgree
<1>0. TypeOK' /\ SessionAgrees'
  BY TypeStep, AgreementStep
<1>1. ASSUME NEW r \in Rules, EvaluateRule(r) PROVE MutesAgree'
  BY <1>1, EvaluateKeepsMutes
<1>2. ASSUME muted' \subseteq muted, \A id \in AlertIds : Candidate(id)' => Candidate(id)
      PROVE  MutedIsEmpty'
  BY <1>2 DEF MutedIsEmpty
<1>3. ASSUME UNCHANGED lastRes, muted' \subseteq muted,
             \A id \in AlertIds : alerts'[id].byUser = alerts[id].byUser
      PROVE  MuteHasOwner'
  BY <1>3 DEF MuteHasOwner, OperatorResolved, TypeOK, MemoryOK
<1>4. ResolutionsAreOwn'
  <2>1. CASE Commit
    <3> SUFFICES ASSUME NEW fp \in FPs, lastRes'[fp] # NoAlert PROVE FpOf(lastRes'[fp]) = fp
      BY DEF ResolutionsAreOwn
    <3> DEFINE done == {id \in IdsOf[fp] \cap dirty : tx[id].status = "resolved"}
    <3>1. lastRes'[fp] = IF done = {} THEN lastRes[fp] ELSE CHOOSE id \in done : TRUE
      BY <2>1 DEF Commit
    <3>2. \A id \in done : FpOf(id) = fp
      BY Identifiers DEF TypeOK
    <3> HIDE DEF done
    <3>3. done # {} => (CHOOSE id \in done : TRUE) \in done
      OBVIOUS
    <3> QED
      BY <3>1, <3>2, <3>3 DEF ResolutionsAreOwn
  <2>2. CASE Operators
    BY <2>2, Identifiers DEF Operators, RequestRead, Acknowledge, Resolve, ResolutionsAreOwn, TypeOK
  <2>3. CASE UNCHANGED lastRes
    BY <2>3 DEF ResolutionsAreOwn
  <2> QED
    BY <2>1, <2>2, <2>3
       DEF Next, Environment, ConditionChanges, MaintenanceChanges, Tick, BeginCycle, Evaluation,
           EvaluateRule, LookupFails, EvaluatorFails, CommitFails, Housekeeping, Dispatch,
           Restart, vars
<1>9. ASSUME NEW r \in Rules, LookupFails(r) \/ EvaluatorFails(r) PROVE MutesAgree'
  <2>1. /\ UNCHANGED <<alerts, lastRes, dirty, reqs>> /\ tx' = [id \in AlertIds |-> Stored(id)]
        /\ turn = r /\ turn' = r + 1
    BY <1>9 DEF LookupFails, EvaluatorFails
  <2>2. \A fp \in muted' : fp \in muted \/ fp \in NewlyMuted(r)
    BY <1>9 DEF LookupFails, EvaluatorFails, memory
  <2>3. MuteHasOwner'
    BY <2>1, <2>2 DEF MuteHasOwner, OperatorResolved, NewlyMuted
  <2>4. MutedIsEmpty'
    <3> SUFFICES ASSUME NEW id \in AlertIds, FpOf(id) \in muted', Candidate(id)' PROVE FALSE
      BY DEF MutedIsEmpty
    <3>1. Candidate(id)
      BY <1>9, NoNewCandidates
    <3>2. FpOf(id) \in NewlyMuted(r)
      BY <2>2, <3>1 DEF MutedIsEmpty
    <3>3. RuleOf(FpOf(id)) = r /\ tx[id].status \notin Live
      BY <3>2, Identifiers, LiveIdsShape DEF NewlyMuted
    <3> QED
      BY <2>1, <3>1, <3>3, NothingLive
  <2>5. dirty \subseteq AlertIds /\ \A id \in dirty : tx'[id] = tx[id]
    BY <2>1 DEF Stored, TypeOK
  <2>6. WritesAreCandidates'
    BY <2>1, <2>5 DEF WritesAreCandidates
  <2>7. UnvisitedWereLive'
    <3> SUFFICES ASSUME NEW id \in dirty, RuleOf(FpOf(id)) >= r + 1
                 PROVE  tx[id].byUser \/ alerts[id].status \in Live
      BY <2>1, <2>5 DEF UnvisitedWereLive
    <3>1. RuleOf(FpOf(id)) \in Nat /\ r \in Nat
      BY <2>5, Identifiers
    <3> QED
      BY <2>1, <3>1 DEF UnvisitedWereLive
  <2> QED
    BY <1>0, <1>4, <2>3, <2>4, <2>6, <2>7
<1>5. ASSUME Operators PROVE MutesAgree'
  <2>1. PICK id \in AlertIds : \/ RequestRead("acknowledge", id) \/ RequestRead("resolve", id)
                               \/ Acknowledge(id) \/ Resolve(id)
    BY <1>5 DEF Operators
  <2>2. /\ UNCHANGED <<tx, dirty, turn, muted>> /\ alerts \in [AlertIds -> Row]
        /\ \A i \in dirty : alerts'[i] = alerts[i]
    BY <2>1 DEF RequestRead, Acknowledge, Resolve, cycle, memory, TypeOK, RowsOK
  <2>3. \A i \in AlertIds : alerts[i].byUser => alerts'[i].byUser
    BY <2>1, <2>2 DEF RequestRead, Acknowledge, Resolve, Row
  <2>4. MuteHasOwner'
    <3>1. CASE UNCHANGED lastRes
      BY <2>2, <2>3, <3>1 DEF MuteHasOwner, OperatorResolved, TypeOK, MemoryOK
    <3>2. CASE Resolve(id)
      <4>1. /\ lastRes' = [lastRes EXCEPT ![FpOf(id)] = id] /\ id # NoAlert
            /\ alerts'[id].byUser
        BY <2>2, <3>2, ConstantsAssumption DEF Resolve, Row
      <4> QED
        BY <2>2, <2>3, <4>1 DEF MuteHasOwner, OperatorResolved, TypeOK, MemoryOK
    <3> QED
      BY <2>1, <3>1, <3>2 DEF RequestRead, Acknowledge
  <2>5. MutedIsEmpty'
    BY <1>2, <1>5, <2>2, NoNewCandidates
  <2> QED
    BY <1>0, <1>4, <2>2, <2>4, <2>5 DEF WritesAreCandidates, UnvisitedWereLive
<1>6. ASSUME Commit PROVE MutesAgree'
  <2>1. /\ alerts' = [id \in AlertIds |-> Stored(id)] /\ dirty' = {} /\ UNCHANGED muted
    BY <1>6 DEF Commit, CloseSession, memory
  <2>2. \A id \in AlertIds : FpOf(id) \in muted /\ id \in dirty => tx[id].byUser
    BY DEF MutedIsEmpty, WritesAreCandidates, Candidate, Stored
  <2>3. MuteHasOwner'
    <3> SUFFICES ASSUME NEW fp \in FPs, fp \in muted
                 PROVE  lastRes'[fp] # NoAlert /\ alerts'[lastRes'[fp]].byUser
      BY <2>1 DEF MuteHasOwner, OperatorResolved, TypeOK, MemoryOK
    <3> DEFINE done == {id \in IdsOf[fp] \cap dirty : tx[id].status = "resolved"}
    <3>1. lastRes'[fp] = IF done = {} THEN lastRes[fp] ELSE CHOOSE id \in done : TRUE
      BY <1>6 DEF Commit
    <3>2. \A id \in done : id \in AlertIds /\ id \in dirty /\ FpOf(id) = fp
      BY Identifiers
    <3> HIDE DEF done
    <3>3. CASE done = {}
      <4>1. /\ lastRes'[fp] = lastRes[fp] /\ lastRes[fp] \in AlertIds /\ lastRes[fp] # NoAlert
            /\ alerts[lastRes[fp]].byUser
        BY <3>1, <3>3 DEF MuteHasOwner, OperatorResolved, TypeOK, MemoryOK
      <4>2. Stored(lastRes[fp]).byUser
        <5>1. FpOf(lastRes[fp]) \in muted
          BY <4>1 DEF ResolutionsAreOwn
        <5> QED
          BY <2>2, <4>1, <5>1 DEF Stored
      <4> QED
        BY <2>1, <4>1, <4>2
    <3>4. CASE done # {}
      <4>1. (CHOOSE id \in done : TRUE) \in done
        BY <3>4
      <4>2. lastRes'[fp] \in done
        BY <3>1, <3>4, <4>1
      <4> QED
        BY <2>1, <2>2, <3>2, <4>2, ConstantsAssumption DEF Stored
    <3> QED
      BY <3>3, <3>4
  <2>4. MutedIsEmpty'
    BY <1>2, <1>6, <2>1, NoNewCandidates
  <2> QED
    BY <1>0, <1>4, <2>1, <2>3, <2>4 DEF WritesAreCandidates, UnvisitedWereLive
<1>7. ASSUME CommitFails \/ Restart PROVE MutesAgree'
  <2>1. UNCHANGED <<alerts, lastRes>> /\ dirty' = {} /\ muted' \subseteq muted
    BY <1>7 DEF CommitFails, Restart, CloseSession, memory
  <2>2. MutedIsEmpty'
    BY <1>2, <1>7, <2>1, NoNewCandidates
  <2> QED
    BY <1>0, <1>4, <1>3, <2>1, <2>2 DEF WritesAreCandidates, UnvisitedWereLive
<1>8. ASSUME Environment \/ BeginCycle \/ Housekeeping \/ Dispatch \/ UNCHANGED vars
      PROVE  MutesAgree'
  <2>1. UNCHANGED lastRes /\ muted' \subseteq muted
    BY <1>8 DEF Environment, ConditionChanges, MaintenanceChanges, Tick, BeginCycle, Housekeeping,
                PruneMemory, Dispatch, memory, vars
  <2>2. \A id \in AlertIds : /\ alerts'[id].byUser = alerts[id].byUser
                             /\ alerts'[id].status \in Live <=> alerts[id].status \in Live
    <3>1. alerts \in [AlertIds -> Row]
      BY DEF TypeOK, RowsOK
    <3>2. CASE Tick
      BY <3>1, <3>2 DEF Tick, Row
    <3>3. CASE Housekeeping
      BY <3>1, <3>3 DEF Housekeeping, RecoverOrphans, Row, Live
    <3>4. CASE UNCHANGED alerts
      BY <3>4
    <3> QED
      BY <1>8, <3>2, <3>3, <3>4
         DEF Environment, ConditionChanges, MaintenanceChanges, BeginCycle, Dispatch, vars
  <2>3. MuteHasOwner' /\ MutedIsEmpty'
    BY <1>2, <1>3, <1>8, <2>1, <2>2, NoNewCandidates
  <2>4. CASE UNCHANGED <<tx, dirty, turn, alerts>>
    BY <1>0, <1>4, <2>3, <2>4 DEF WritesAreCandidates, UnvisitedWereLive
  <2>5. CASE turn \in {Idle, DispatchTurn} /\ dirty' = dirty
    <3>1. ~InSession
      BY <2>5, Identifiers DEF InSession, Idle, CommitTurn, DispatchTurn
    <3>2. dirty' = {}
      BY <2>5, <3>1 DEF SessionAgrees, OnlySessionsWrite
    <3> QED
      BY <1>0, <1>4, <2>3, <3>2 DEF WritesAreCandidates, UnvisitedWereLive
  <2> QED
    BY <1>8, <2>4, <2>5
       DEF Environment, ConditionChanges, MaintenanceChanges, Tick, BeginCycle, Housekeeping,
           Dispatch, vars, cycle
<1> QED
  BY <1>1, <1>5, <1>6, <1>7, <1>8, <1>9 DEF Next, Evaluation

\* A fingerprint is silenced only while its last resolution is an operator's, whatever
\* acknowledgements bring back and cycles commit after it was resolved.
THEOREM MutesHaveOwners == Spec => []MuteHasOwner
<1>1. MutesAgree => MuteHasOwner
  BY DEF MutesAgree
<1> QED
  BY <1>1, MutesInit, MutesStep, PTL DEF Spec
=============================================================================
